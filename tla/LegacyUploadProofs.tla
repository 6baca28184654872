--------------------------- MODULE LegacyUploadProofs --------------------------
(***************************************************************************)
(* What the legacy endpoint keeps on disk, for any number of uploads,      *)
(* digests, contents, permits and faults.  The inductive invariant follows *)
(* one upload's content from its temporary file to its final one (Checked) *)
(* and says who may own a file and how many may write (Accounted).  The    *)
(* semaphore's queue holds every waiting upload once, although those that  *)
(* go away leave from its middle (Once).                                   *)
(***************************************************************************)
EXTENDS LegacyUpload, TLAPS, FiniteSetTheorems, SequenceTheorems

-----------------------------------------------------------------------------
Places == {"new", "queued"} \cup Working \cup Ended

Typed ==
    /\ artifacts \in [Digests -> Row]
    /\ pc \in [Uploads -> Places]
    /\ claimed \in [Uploads -> Digests \cup {None}]
    /\ content \in [Uploads -> Contents \cup {None}]
    /\ stored \in [Uploads -> Contents \cup {None}]
    /\ parts \subseteq Uploads /\ undeleted \subseteq Uploads

\* The digest is checked before the lookup, and is what the final file holds.
Checked == \A n \in Uploads :
    /\ pc[n] \in Working => claimed[n] \in Digests
    /\ pc[n] \in {"acquire", "lookup", "promote"} => content[n] = claimed[n]
    /\ pc[n] \in {"insert", "created"} => stored[n] = claimed[n]

\* An upload that owns a row has left its file alone since it renamed it.
Owned == \A d \in Digests : artifacts[d].by # None =>
    /\ stored[artifacts[d].by] = d
    /\ pc[artifacts[d].by] \in {"created", "failed", "dropped"}

FileInv == Typed /\ Checked /\ Owned

\* Who has a permit, and who may have a file.
Accounted ==
    /\ \A n \in parts \ undeleted : pc[n] \in (Working \ {"insert"}) \cup {"failed", "dropped"}
    /\ \A n \in Uploads \ undeleted :
         stored[n] # None => pc[n] \in {"insert", "created", "failed", "dropped"}
    /\ Cardinality(Holders) <= Permits

-----------------------------------------------------------------------------
LEMMA InitFiles == Init => FileInv /\ Accounted
<1> SUFFICES ASSUME Init PROVE FileInv /\ Accounted
  OBVIOUS
<1>1. Typed
  BY DEF Init, Typed, Places, Row, NoRow
<1>2. Checked /\ Owned
  BY DEF Init, Checked, Owned, NoRow, Working
<1>3. Holders = {}
  BY DEF Init, Holders, Working
<1>4. Cardinality(Holders) <= Permits
  BY <1>3, FS_EmptySet, LegacyAssumption
<1> QED
  BY <1>1, <1>2, <1>4 DEF FileInv, Accounted, Init

\* An upload that ends or goes on leaves the others where they are.
LEMMA Moved ==
    ASSUME Typed, NEW n \in Uploads, NEW at \in Places, Goto(n, at)
    PROVE  pc' \in [Uploads -> Places] /\ pc'[n] = at /\ \A m \in Uploads \ {n} : pc'[m] = pc[m]
BY DEF Typed, Goto

LEMMA Inserted ==
    ASSUME FileInv, NEW n \in Uploads, pc[n] = "insert", InsertRow(n),
           NEW at \in {"created", "failed", "dropped"}, Goto(n, at),
           UNCHANGED <<claimed, content, stored, parts, undeleted>>
    PROVE  FileInv'
<1>1. claimed[n] \in Digests /\ stored[n] = claimed[n]
  BY DEF FileInv, Checked, Working
<1>2. pc' \in [Uploads -> Places] /\ pc'[n] = at /\ \A m \in Uploads \ {n} : pc'[m] = pc[m]
  BY Moved DEF FileInv, Places, Ended
<1>3. artifacts' \in [Digests -> Row] /\ artifacts'[claimed[n]].by = n
      /\ \A d \in Digests \ {claimed[n]} : artifacts'[d] = artifacts[d]
  BY <1>1 DEF InsertRow, FileInv, Typed, Row
<1>4. Typed'
  BY <1>2, <1>3 DEF FileInv, Typed
<1>5. Checked'
  BY <1>1, <1>2 DEF FileInv, Checked, Working
<1>6. \A d \in Digests : artifacts[d].by \in Uploads \cup {None}
  BY DEF FileInv, Typed, Row
<1>7. Owned'
  BY <1>1, <1>2, <1>3, <1>6 DEF FileInv, Owned
<1> QED
  BY <1>4, <1>5, <1>7 DEF FileInv

\* A step that leaves the rows alone, and the final file of every upload that
\* owns one.
LEMMA Unowned ==
    ASSUME FileInv, Typed', Checked', UNCHANGED artifacts, NEW n \in Uploads,
           pc[n] \notin {"created", "failed", "dropped"},
           \A m \in Uploads \ {n} : pc'[m] = pc[m] /\ stored'[m] = stored[m]
    PROVE  FileInv'
<1>1. \A d \in Digests : artifacts[d].by \in Uploads \cup {None}
  BY DEF FileInv, Typed, Row
<1>2. Owned'
  BY <1>1 DEF FileInv, Owned
<1> QED
  BY <1>2 DEF FileInv

-----------------------------------------------------------------------------
LEMMA ClientFiles == ASSUME FileInv, NEW n \in Uploads, ClientStep(n) PROVE FileInv'
<1>1. ASSUME NEW d \in Digests \cup {None}, Arrive(n, d) PROVE FileInv'
  <2>1. /\ pc[n] = "new" /\ claimed' = [claimed EXCEPT ![n] = d]
        /\ UNCHANGED <<artifacts, content, parts, stored, undeleted>>
    BY <1>1 DEF Arrive, disk
  <2>2. pc' \in [Uploads -> Places] /\ pc'[n] = "queued" /\ \A m \in Uploads \ {n} : pc'[m] = pc[m]
    BY <1>1, Moved DEF Arrive, FileInv, Places
  <2>3. Typed' /\ Checked'
    BY <2>1, <2>2 DEF FileInv, Typed, Checked, Working
  <2> QED
    BY <2>1, <2>2, <2>3, Unowned
<1>2. ASSUME NEW named \in BOOLEAN, NEW c \in Contents \cup {None}, BodyEnds(n, named, c)
      PROVE  FileInv'
  <2>1. /\ pc[n] = "body" /\ content' = [content EXCEPT ![n] = c]
        /\ UNCHANGED <<artifacts, claimed, stored>>
    BY <1>2 DEF BodyEnds
  <2>2. /\ (c = claimed[n] /\ Goto(n, "acquire")) \/ Goto(n, "refused")
        /\ parts' \subseteq Uploads /\ undeleted' \subseteq Uploads
    BY <1>2 DEF BodyEnds, Matches, RemoveFile, Discarded, FileInv, Typed
  <2>3. /\ pc' \in [Uploads -> Places] /\ \A m \in Uploads \ {n} : pc'[m] = pc[m]
        /\ (pc'[n] = "acquire" /\ c = claimed[n]) \/ pc'[n] = "refused"
    BY <2>2, Moved DEF FileInv, Places, Working, Ended
  <2>4. Typed'
    BY <2>1, <2>2, <2>3 DEF FileInv, Typed
  <2>5. Checked'
    BY <2>1, <2>3 DEF FileInv, Typed, Checked, Working
  <2> QED
    BY <2>1, <2>3, <2>4, <2>5, Unowned
<1>3. ASSUME Drop(n) PROVE FileInv'
  <2>1. /\ pc[n] \in {"queued"} \cup Working /\ Goto(n, "dropped")
        /\ UNCHANGED <<claimed, content, parts, stored, undeleted>>
        /\ UNCHANGED artifacts \/ (pc[n] = "insert" /\ InsertRow(n))
    BY <1>3 DEF Drop, disk
  <2>2. pc' \in [Uploads -> Places] /\ pc'[n] = "dropped" /\ \A m \in Uploads \ {n} : pc'[m] = pc[m]
    BY <2>1, Moved DEF FileInv, Places, Ended
  <2>3. CASE UNCHANGED artifacts
    <3>1. Typed' /\ Checked'
      BY <2>1, <2>2, <2>3 DEF FileInv, Typed, Checked, Working
    <3> QED
      BY <2>1, <2>2, <2>3, <3>1, Unowned DEF Working
  <2>4. CASE pc[n] = "insert" /\ InsertRow(n)
    BY <2>1, <2>4, Inserted
  <2> QED
    BY <2>1, <2>3, <2>4
<1> QED
  BY <1>1, <1>2, <1>3 DEF ClientStep

LEMMA HandlerFiles ==
    ASSUME FileInv, NEW n \in Uploads, HandlerStep(n) \/ Fails(n)
    PROVE  FileInv'
<1>1. CASE Begin(n)
  <2>1. /\ pc[n] = "queued" /\ UNCHANGED <<artifacts, claimed, content, stored, undeleted>>
        /\ parts' \subseteq Uploads
        /\ \/ Goto(n, "refused")
           \/ Goto(n, "failed")
           \/ claimed[n] # None /\ Goto(n, "body")
    BY <1>1 DEF Begin, FileInv, Typed
  <2>2. /\ pc' \in [Uploads -> Places] /\ \A m \in Uploads \ {n} : pc'[m] = pc[m]
        /\ pc'[n] \in {"refused", "failed"} \/ (pc'[n] = "body" /\ claimed[n] # None)
    BY <2>1, Moved DEF FileInv, Places, Working, Ended
  <2>3. Typed' /\ Checked'
    BY <2>1, <2>2 DEF FileInv, Typed, Checked, Working
  <2> QED
    BY <2>1, <2>2, <2>3, Unowned
<1>2. CASE Acquire(n) \/ Fails(n)
  <2>1. /\ UNCHANGED <<artifacts, claimed, content, stored, parts, undeleted>>
        /\ \/ pc[n] = "acquire" /\ Goto(n, "lookup")
           \/ pc[n] \in {"body", "acquire"} /\ Goto(n, "failed")
    BY <1>2 DEF Acquire, Fails, disk
  <2>2. /\ pc' \in [Uploads -> Places] /\ \A m \in Uploads \ {n} : pc'[m] = pc[m]
        /\ \/ pc[n] = "acquire" /\ pc'[n] = "lookup"
           \/ pc[n] \in {"body", "acquire"} /\ pc'[n] = "failed"
    BY <2>1, Moved DEF FileInv, Places, Working, Ended
  <2>3. Typed' /\ Checked'
    BY <2>1, <2>2 DEF FileInv, Typed, Checked, Working
  <2> QED
    BY <2>1, <2>2, <2>3, Unowned
<1>3. CASE Lookup(n)
  <2>1. /\ pc[n] = "lookup" /\ UNCHANGED <<artifacts, claimed, content, stored>>
        /\ parts' \subseteq Uploads /\ undeleted' \subseteq Uploads
        /\ Goto(n, "duplicate") \/ Goto(n, "promote")
    BY <1>3 DEF Lookup, RemoveFile, Discarded, FileInv, Typed
  <2>2. /\ pc' \in [Uploads -> Places] /\ \A m \in Uploads \ {n} : pc'[m] = pc[m]
        /\ pc'[n] \in {"duplicate", "promote"}
    BY <2>1, Moved DEF FileInv, Places, Working, Ended
  <2>3. Typed' /\ Checked'
    BY <2>1, <2>2 DEF FileInv, Typed, Checked, Working
  <2> QED
    BY <2>1, <2>2, <2>3, Unowned
<1>4. CASE Promote(n)
  <2>1. /\ pc[n] = "promote" /\ UNCHANGED <<artifacts, claimed, content>>
        /\ parts' \subseteq Uploads /\ undeleted' \subseteq Uploads
    BY <1>4 DEF Promote, RemoveFile, Discarded, FileInv, Typed
  <2>2. \E c \in Contents \cup {None} :
          /\ stored' = [stored EXCEPT ![n] = c]
          /\ \/ Goto(n, "insert") /\ c = content[n]
             \/ Goto(n, "refused")
             \/ Goto(n, "failed")
    BY <1>4 DEF Promote, FileInv, Typed
  <2>3. PICK c \in Contents \cup {None} :
          /\ stored' = [stored EXCEPT ![n] = c]
          /\ \/ Goto(n, "insert") /\ c = content[n]
             \/ Goto(n, "refused")
             \/ Goto(n, "failed")
    BY <2>2
  <2>4. /\ pc' \in [Uploads -> Places] /\ \A m \in Uploads \ {n} : pc'[m] = pc[m]
        /\ pc'[n] \in {"refused", "failed"} \/ (pc'[n] = "insert" /\ c = content[n])
    BY <2>3, Moved DEF FileInv, Places, Working, Ended
  <2>5. Typed' /\ Checked'
    BY <2>1, <2>3, <2>4 DEF FileInv, Typed, Checked, Working
  <2> QED
    BY <2>1, <2>3, <2>4, <2>5, Unowned DEF FileInv, Typed
<1>5. CASE Insert(n)
  <2>1. /\ pc[n] = "insert" /\ UNCHANGED <<claimed, content, parts, stored, undeleted>>
        /\ \/ InsertRow(n) /\ (Goto(n, "created") \/ Goto(n, "failed"))
           \/ UNCHANGED artifacts /\ Goto(n, "failed")
    BY <1>5 DEF Insert, disk
  <2>2. CASE UNCHANGED artifacts /\ Goto(n, "failed")
    <3>1. pc' \in [Uploads -> Places] /\ pc'[n] = "failed" /\ \A m \in Uploads \ {n} : pc'[m] = pc[m]
      BY <2>2, Moved DEF FileInv, Places, Ended
    <3>2. Typed' /\ Checked'
      BY <2>1, <2>2, <3>1 DEF FileInv, Typed, Checked, Working
    <3> QED
      BY <2>1, <2>2, <3>1, <3>2, Unowned
  <2> QED
    BY <2>1, <2>2, Inserted
<1> QED
  BY <1>1, <1>2, <1>3, <1>4, <1>5 DEF HandlerStep

\* The other endpoints know nothing of the files.
LEMMA OthersFiles ==
    ASSUME FileInv, NEW d \in Digests, NEW status \in {"absent", "pending", "stored"},
           OtherEndpoints(d, status)
    PROVE  FileInv'
<1>1. /\ artifacts' = [artifacts EXCEPT ![d] = [status |-> status, by |-> None]]
      /\ UNCHANGED <<pc, claimed, content, parts, stored, undeleted>>
  BY DEF OtherEndpoints, request, disk
<1>2. Typed' /\ Checked'
  BY <1>1 DEF FileInv, Typed, Row, Checked
<1>3. Owned'
  BY <1>1 DEF FileInv, Typed, Owned
<1> QED
  BY <1>2, <1>3 DEF FileInv

LEMMA StepFiles == FileInv /\ [Next]_vars => FileInv'
<1> SUFFICES ASSUME FileInv, [Next]_vars PROVE FileInv'
  OBVIOUS
<1>1. CASE UNCHANGED vars
  BY <1>1 DEF vars, request, disk, FileInv, Typed, Checked, Owned
<1>2. CASE Next
  BY <1>2, HandlerFiles, ClientFiles, OthersFiles DEF Next
<1> QED
  BY <1>1, <1>2

\* The file behind a row of the legacy endpoint, and behind the URL of its 200
\* answers that are not duplicates, is complete and stays so.
THEOREM StoredFilesComplete == Spec => []StoredFileComplete
<1>1. FileInv => StoredFileComplete
  BY DEF FileInv, Checked, Owned, StoredFileComplete
<1>2. Init => FileInv
  BY InitFiles
<1> QED
  BY <1>1, <1>2, StepFiles, PTL DEF Spec

-----------------------------------------------------------------------------
LEMMA HoldersFinite == IsFiniteSet(Holders)
<1>1. IsFiniteSet(1..MaxUploads)
  BY FS_Interval, LegacyAssumption
<1>2. Holders \in SUBSET (1..MaxUploads)
  BY DEF Holders, Uploads
<1> QED
  BY <1>1, <1>2, FS_Subset

\* A permit is only taken by an upload that begins.
LEMMA PermitsKept ==
    ASSUME Accounted, Holders' \subseteq Holders
    PROVE  Cardinality(Holders') <= Permits
<1>1. IsFiniteSet(Holders)
  BY HoldersFinite
<1>2. Cardinality(Holders') <= Cardinality(Holders) /\ IsFiniteSet(Holders')
  BY <1>1, FS_Subset
<1>3. Cardinality(Holders) \in Nat /\ Cardinality(Holders') \in Nat
  BY <1>1, <1>2, FS_CardinalityType
<1> QED
  BY <1>2, <1>3, LegacyAssumption DEF Accounted

LEMMA PermitTaken ==
    ASSUME NEW n \in Uploads, Cardinality(Holders) < Permits, Holders' \subseteq Holders \cup {n}
    PROVE  Cardinality(Holders') <= Permits
<1>1. IsFiniteSet(Holders)
  BY HoldersFinite
<1>2. /\ IsFiniteSet(Holders \cup {n})
      /\ Cardinality(Holders \cup {n}) \in {Cardinality(Holders), Cardinality(Holders) + 1}
  BY <1>1, FS_AddElement
<1>3. Cardinality(Holders') <= Cardinality(Holders \cup {n}) /\ IsFiniteSet(Holders')
  BY <1>2, FS_Subset
<1>4. Cardinality(Holders) \in Nat /\ Cardinality(Holders') \in Nat
  BY <1>1, <1>3, FS_CardinalityType
<1> QED
  BY <1>2, <1>3, <1>4, LegacyAssumption

\* A step of one upload that is not given a permit by it.
LEMMA StepAccounted ==
    ASSUME Typed, Accounted, NEW n \in Uploads, NEW at \in Places, Goto(n, at),
           at \in Working => pc[n] \in Working,
           \A m \in Uploads \ {n} : stored'[m] = stored[m],
           parts' \subseteq parts, undeleted \subseteq undeleted',
           n \notin undeleted' /\ stored'[n] # None => at \in {"insert", "created", "failed", "dropped"},
           n \in parts' \ undeleted' => at \in (Working \ {"insert"}) \cup {"failed", "dropped"}
    PROVE  Accounted'
<1>1. pc' \in [Uploads -> Places] /\ pc'[n] = at /\ \A m \in Uploads \ {n} : pc'[m] = pc[m]
  BY Moved
<1>2. Holders' \subseteq Holders
  BY <1>1 DEF Holders
<1>3. Cardinality(Holders') <= Permits
  BY <1>2, PermitsKept
<1>4. \A m \in parts' \ undeleted' : pc'[m] \in (Working \ {"insert"}) \cup {"failed", "dropped"}
  BY <1>1 DEF Typed, Accounted
<1>5. \A m \in Uploads \ undeleted' :
        stored'[m] # None => pc'[m] \in {"insert", "created", "failed", "dropped"}
  BY <1>1 DEF Accounted
<1> QED
  BY <1>3, <1>4, <1>5 DEF Accounted

LEMMA BeginAccounted ==
    ASSUME Typed, Accounted, NEW n \in Uploads, Begin(n)
    PROVE  Accounted'
<1>1. /\ pc[n] = "queued" /\ Cardinality(Holders) < Permits /\ UNCHANGED <<stored, undeleted>>
      /\ \/ (Goto(n, "refused") \/ Goto(n, "failed")) /\ UNCHANGED parts
         \/ Goto(n, "body") /\ parts' = parts \cup {n}
  BY DEF Begin
<1>2. n \notin undeleted => stored[n] = None /\ n \notin parts
  BY <1>1 DEF Accounted, Working
<1>3. CASE (Goto(n, "refused") \/ Goto(n, "failed")) /\ UNCHANGED parts
  BY <1>1, <1>2, <1>3, StepAccounted DEF Places, Working, Ended
<1>4. CASE Goto(n, "body") /\ parts' = parts \cup {n}
  <2>1. pc' \in [Uploads -> Places] /\ pc'[n] = "body" /\ \A m \in Uploads \ {n} : pc'[m] = pc[m]
    BY <1>4, Moved DEF Places, Working
  <2>2. Holders' \subseteq Holders \cup {n}
    BY <2>1 DEF Holders
  <2>3. Cardinality(Holders') <= Permits
    BY <1>1, <2>2, PermitTaken
  <2>4. \A m \in parts' \ undeleted' : pc'[m] \in (Working \ {"insert"}) \cup {"failed", "dropped"}
    BY <1>1, <1>4, <2>1 DEF Typed, Accounted, Working
  <2>5. \A m \in Uploads \ undeleted' :
          stored'[m] # None => pc'[m] \in {"insert", "created", "failed", "dropped"}
    BY <1>1, <1>2, <2>1 DEF Accounted
  <2> QED
    BY <2>3, <2>4, <2>5 DEF Accounted
<1> QED
  BY <1>1, <1>3, <1>4

\* After its removal a temporary file is gone, or it is known that it could not be
\* removed.
Removed(n) ==
    /\ parts' \subseteq parts /\ undeleted \subseteq undeleted'
    /\ n \notin parts' \ undeleted'

LEMMA RemovesFile == \A n \in Uploads : RemoveFile(n) => Removed(n)
BY DEF RemoveFile, Removed, Discarded

LEMMA HandlerAccounted ==
    ASSUME Typed, Accounted, NEW n \in Uploads, HandlerStep(n) \/ Fails(n)
    PROVE  Accounted'
<1>1. CASE Acquire(n) \/ Fails(n)
  <2>1. /\ UNCHANGED <<stored, parts, undeleted>>
        /\ \/ pc[n] = "acquire" /\ Goto(n, "lookup")
           \/ pc[n] \in {"body", "acquire"} /\ Goto(n, "failed")
    BY <1>1 DEF Acquire, Fails, disk
  <2>2. n \notin undeleted => stored[n] = None
    BY <2>1 DEF Accounted
  <2> QED
    BY <2>1, <2>2, StepAccounted DEF Places, Working, Ended
<1>2. CASE Lookup(n)
  <2>1. /\ pc[n] = "lookup" /\ UNCHANGED stored
        /\ \/ Goto(n, "duplicate") /\ Removed(n)
           \/ Goto(n, "promote") /\ UNCHANGED <<parts, undeleted>>
    BY <1>2, RemovesFile DEF Lookup
  <2>2. n \notin undeleted => stored[n] = None
    BY <2>1 DEF Accounted
  <2> QED
    BY <2>1, <2>2, StepAccounted DEF Removed, Places, Working, Ended
<1>3. CASE Promote(n)
  <2>1. pc[n] = "promote"
    BY <1>3 DEF Promote
  <2>2. \/ /\ Goto(n, "refused") /\ Removed(n)
           /\ stored' = [stored EXCEPT ![n] = None]
        \/ /\ Goto(n, "refused") /\ undeleted' = undeleted \cup {n} /\ parts' \subseteq parts
           /\ stored' = [stored EXCEPT ![n] = content[n]]
        \/ /\ Goto(n, "insert") /\ Removed(n)
           /\ stored' = [stored EXCEPT ![n] = content[n]]
        \/ /\ Goto(n, "failed") /\ UNCHANGED <<parts, undeleted>>
           /\ \E c \in Contents \cup {None} : stored' = [stored EXCEPT ![n] = c]
    BY <1>3, RemovesFile DEF Promote, Typed
  <2> QED
    BY <2>1, <2>2, StepAccounted DEF Removed, Places, Working, Ended, Typed
<1>4. CASE Insert(n)
  <2>1. /\ pc[n] = "insert" /\ UNCHANGED <<stored, parts, undeleted>>
        /\ Goto(n, "created") \/ Goto(n, "failed")
    BY <1>4 DEF Insert, disk
  <2>2. n \notin parts \ undeleted
    BY <2>1 DEF Accounted, Working
  <2> QED
    BY <2>1, <2>2, StepAccounted DEF Places, Working, Ended
<1> QED
  BY <1>1, <1>2, <1>3, <1>4, BeginAccounted DEF HandlerStep

LEMMA ClientAccounted ==
    ASSUME Typed, Accounted, NEW n \in Uploads, ClientStep(n)
    PROVE  Accounted'
<1>1. ASSUME NEW d \in Digests \cup {None}, Arrive(n, d) PROVE Accounted'
  <2>1. pc[n] = "new" /\ Goto(n, "queued") /\ UNCHANGED <<stored, parts, undeleted>>
    BY <1>1 DEF Arrive, disk
  <2>2. n \notin undeleted => stored[n] = None /\ n \notin parts
    BY <2>1 DEF Accounted, Working
  <2> QED
    BY <2>1, <2>2, StepAccounted DEF Places, Working, Ended
<1>2. ASSUME NEW named \in BOOLEAN, NEW c \in Contents \cup {None}, BodyEnds(n, named, c)
      PROVE  Accounted'
  <2>1. /\ pc[n] = "body" /\ UNCHANGED stored
        /\ \/ Goto(n, "acquire") /\ UNCHANGED <<parts, undeleted>>
           \/ Goto(n, "refused") /\ Removed(n)
    BY <1>2, RemovesFile DEF BodyEnds
  <2>2. n \notin undeleted => stored[n] = None
    BY <2>1 DEF Accounted
  <2> QED
    BY <2>1, <2>2, StepAccounted DEF Removed, Places, Working, Ended
<1>3. ASSUME Drop(n) PROVE Accounted'
  <2>1. /\ pc[n] \in {"queued"} \cup Working /\ Goto(n, "dropped")
        /\ UNCHANGED <<stored, parts, undeleted>>
    BY <1>3 DEF Drop, disk
  <2> QED
    BY <2>1, StepAccounted DEF Places, Working, Ended
<1> QED
  BY <1>1, <1>2, <1>3 DEF ClientStep

LEMMA StepFilesAccounted == Typed /\ Accounted /\ [Next]_vars => Accounted'
<1> SUFFICES ASSUME Typed, Accounted, [Next]_vars PROVE Accounted'
  OBVIOUS
<1>1. CASE UNCHANGED vars \/ \E d \in Digests, status \in {"absent", "pending", "stored"} :
                                OtherEndpoints(d, status)
  <2>1. UNCHANGED <<pc, parts, stored, undeleted>>
    BY <1>1 DEF vars, request, disk, OtherEndpoints
  <2>2. Holders' = Holders
    BY <2>1 DEF Holders
  <2> QED
    BY <2>1, <2>2 DEF Accounted
<1>2. CASE \E n \in Uploads : HandlerStep(n) \/ ClientStep(n) \/ Fails(n)
  BY <1>2, HandlerAccounted, ClientAccounted
<1> QED
  BY <1>1, <1>2 DEF Next

\* Refused and duplicate uploads leave nothing on disk unless a removal fails, and at
\* most Permits temporary files belong to uploads in progress; any other file without
\* an owner comes from an error or from a client that went away.
THEOREM FilesAreAccounted == Spec => []FilesAccounted
<1>1. FileInv /\ Accounted => FilesAccounted
  <2> SUFFICES ASSUME FileInv, Accounted PROVE FilesAccounted
    OBVIOUS
  <2> DEFINE Partial == {n \in parts : pc[n] \in Working}
  <2>1. IsFiniteSet(Holders)
    BY HoldersFinite
  <2>2. Partial \subseteq Holders
    BY DEF FileInv, Typed, Holders
  <2>3. Cardinality(Partial) <= Cardinality(Holders) /\ IsFiniteSet(Partial)
    BY <2>1, <2>2, FS_Subset
  <2>4. Cardinality(Holders) \in Nat /\ Cardinality(Partial) \in Nat
    BY <2>1, <2>3, FS_CardinalityType
  <2>5. Cardinality(Partial) <= Permits
    BY <2>3, <2>4, LegacyAssumption DEF Accounted
  <2> QED
    BY <2>5 DEF FilesAccounted, Accounted
<1>2. FileInv /\ Accounted /\ [Next]_vars => (FileInv /\ Accounted)'
  BY StepFiles, StepFilesAccounted DEF FileInv
<1> QED
  BY <1>1, <1>2, InitFiles, PTL DEF Spec

-----------------------------------------------------------------------------
\* The queue of the semaphore: q holds the members of W, each of them once.
Once(q, W) ==
    /\ q \in Seq(W)
    /\ \A n \in W : \E i \in DOMAIN q : q[i] = n
    /\ \A i, j \in DOMAIN q : q[i] = q[j] => i = j

Waiting == {n \in Uploads : pc[n] = "queued"}

LEMMA OnceAppended ==
    ASSUME NEW W, NEW q, Once(q, W), NEW n, n \notin W
    PROVE  Once(Append(q, n), W \cup {n})
<1> DEFINE V == W \cup {n}
<1>1. q \in Seq(W) /\ q \in Seq(V) /\ n \in V
  BY SeqMonotonic DEF Once
<1>2. /\ Len(q) \in Nat /\ DOMAIN q = 1..Len(q)
      /\ \A i \in DOMAIN q : q[i] \in W
  BY <1>1, LenProperties, ElementOfSeq
<1> DEFINE t == Append(q, n)
<1>3. /\ t \in Seq(V) /\ Len(t) = Len(q) + 1
      /\ \A i \in 1..Len(q) : t[i] = q[i]
      /\ t[Len(q) + 1] = n
  BY <1>1, AppendProperties
<1>4. DOMAIN t = 1..(Len(q) + 1)
  BY <1>3, LenProperties
<1> HIDE DEF t
<1>5. \A m \in V : \E i \in DOMAIN t : t[i] = m
  BY <1>2, <1>3, <1>4 DEF Once
<1>6. \A i, j \in DOMAIN t : t[i] = t[j] => i = j
  BY <1>2, <1>3, <1>4 DEF Once
<1>7. Once(t, V)
  BY <1>3, <1>5, <1>6 DEF Once
<1> QED
  BY <1>7 DEF t

LEMMA OnceTail ==
    ASSUME NEW W, NEW q, Once(q, W), q # <<>>
    PROVE  Once(Tail(q), W \ {Head(q)})
<1> DEFINE V == W \ {Head(q)}  t == Tail(q)
<1>1. q \in Seq(W)
  BY DEF Once
<1>2. /\ Len(q) \in Nat \ {0} /\ DOMAIN q = 1..Len(q) /\ Head(q) = q[1]
      /\ \A i \in DOMAIN q : q[i] \in W
  BY <1>1, LenProperties, ElementOfSeq, EmptySeq
<1>3. t \in Seq(W) /\ Len(t) = Len(q) - 1 /\ \A i \in 1..Len(t) : t[i] = q[i + 1]
  BY <1>1, HeadTailProperties
<1>4. DOMAIN t = 1..(Len(q) - 1)
  BY <1>3, LenProperties
<1> HIDE DEF t
<1>5. \A i \in 1..(Len(q) - 1) : t[i] = q[i + 1] /\ t[i] \in V
  <2> SUFFICES ASSUME NEW i \in 1..(Len(q) - 1) PROVE t[i] = q[i + 1] /\ t[i] \in V
    OBVIOUS
  <2>1. 1 \in DOMAIN q /\ i + 1 \in DOMAIN q /\ i + 1 # 1
    BY <1>2
  <2>2. q[i + 1] \in W /\ q[i + 1] # q[1]
    BY <1>2, <2>1 DEF Once
  <2> QED
    BY <1>2, <1>3, <2>2
<1>6. t \in Seq(V)
  <2>1. SubSeq(t, 1, Len(t)) \in Seq(V)
    BY <1>2, <1>3, <1>5, SubSeqProperties
  <2> QED
    BY <1>3, <2>1, SubSeqFull
<1>7. \A m \in V : \E i \in DOMAIN t : t[i] = m
  <2> SUFFICES ASSUME NEW m \in V PROVE \E i \in DOMAIN t : t[i] = m
    OBVIOUS
  <2>1. PICK k \in DOMAIN q : q[k] = m
    BY DEF Once
  <2>2. k - 1 \in DOMAIN t /\ t[k - 1] = m
    BY <1>2, <1>4, <1>5, <2>1
  <2> QED
    BY <2>2
<1>8. \A i, j \in DOMAIN t : t[i] = t[j] => i = j
  <2> SUFFICES ASSUME NEW i \in DOMAIN t, NEW j \in DOMAIN t, t[i] = t[j] PROVE i = j
    OBVIOUS
  <2>1. q[i + 1] = q[j + 1] /\ i + 1 \in DOMAIN q /\ j + 1 \in DOMAIN q
    BY <1>2, <1>4, <1>5
  <2>2. i + 1 = j + 1
    BY <2>1 DEF Once
  <2> QED
    BY <1>2, <1>4, <2>2
<1>9. Once(t, V)
  BY <1>6, <1>7, <1>8 DEF Once
<1> QED
  BY <1>9 DEF t

LEMMA OnceRemoved ==
    ASSUME NEW W, NEW q, Once(q, W), NEW n \in W
    PROVE  Once(RemoveAt(q, CHOOSE i \in DOMAIN q : q[i] = n), W \ {n})
<1> DEFINE k == CHOOSE i \in DOMAIN q : q[i] = n
           V == W \ {n}
           before == SubSeq(q, 1, k - 1)
           after == SubSeq(q, k + 1, Len(q))
           t == before \o after
<1>1. q \in Seq(W)
  BY DEF Once
<1>2. /\ Len(q) \in Nat /\ DOMAIN q = 1..Len(q)
      /\ \A i \in DOMAIN q : q[i] \in W
  BY <1>1, LenProperties, ElementOfSeq
<1>3. k \in 1..Len(q) /\ q[k] = n
  BY <1>2 DEF Once
<1> HIDE DEF k
<1>4. \A i \in 1..Len(q) : i # k => q[i] \in V
  BY <1>2, <1>3 DEF Once
<1>5. /\ before \in Seq(V) /\ Len(before) = k - 1
      /\ \A i \in 1..(k - 1) : before[i] = q[i]
  <2>1. k - 1 \in Int /\ \A i \in 1..(k - 1) : q[i] \in V
    BY <1>2, <1>3, <1>4
  <2>2. /\ before \in Seq(V) /\ Len(before) = IF 1 <= k - 1 THEN k - 1 - 1 + 1 ELSE 0
        /\ \A i \in 1..(k - 1 - 1 + 1) : before[i] = q[1 + i - 1]
    BY <2>1, SubSeqProperties
  <2> QED
    BY <1>2, <1>3, <2>2
<1>6. /\ after \in Seq(V) /\ Len(after) = Len(q) - k
      /\ \A i \in 1..(Len(q) - k) : after[i] = q[k + i]
  <2>1. k + 1 \in Int /\ Len(q) \in Int /\ \A i \in (k + 1)..Len(q) : q[i] \in V
    BY <1>2, <1>3, <1>4
  <2>2. /\ after \in Seq(V) /\ Len(after) = IF k + 1 <= Len(q) THEN Len(q) - (k + 1) + 1 ELSE 0
        /\ \A i \in 1..(Len(q) - (k + 1) + 1) : after[i] = q[k + 1 + i - 1]
    BY <2>1, SubSeqProperties
  <2> HIDE DEF after
  <2>3. Len(q) - (k + 1) + 1 = Len(q) - k /\ \A i \in Nat : k + 1 + i - 1 = k + i
    BY <1>2, <1>3
  <2>4. \A i \in 1..(Len(q) - k) : after[i] = q[k + i]
    BY <2>2, <2>3
  <2>5. Len(after) = Len(q) - k
    BY <1>2, <1>3, <2>2
  <2> QED
    BY <2>2, <2>4, <2>5
<1> HIDE DEF before, after
<1>7. /\ t \in Seq(V) /\ Len(t) = Len(before) + Len(after)
      /\ \A i \in 1..(Len(before) + Len(after)) :
           t[i] = IF i <= Len(before) THEN before[i] ELSE after[i - Len(before)]
  BY <1>5, <1>6, ConcatProperties
<1> HIDE DEF t
<1>8. DOMAIN t = 1..(Len(q) - 1)
  <2>1. DOMAIN t = 1..Len(t)
    BY <1>7, LenProperties
  <2>2. Len(t) = Len(q) - 1
    BY <1>2, <1>3, <1>5, <1>6, <1>7
  <2> QED
    BY <2>1, <2>2
<1>9. \A i \in 1..(Len(q) - 1) : t[i] = IF i < k THEN q[i] ELSE q[i + 1]
  <2> SUFFICES ASSUME NEW i \in 1..(Len(q) - 1) PROVE t[i] = IF i < k THEN q[i] ELSE q[i + 1]
    OBVIOUS
  <2>1. t[i] = IF i <= k - 1 THEN before[i] ELSE after[i - (k - 1)]
    <3>1. Len(before) = k - 1 /\ Len(after) = Len(q) - k
      BY <1>5, <1>6
    <3>2. Len(before) + Len(after) = Len(q) - 1
      BY <1>2, <1>3, <3>1
    <3>3. i \in 1..(Len(before) + Len(after))
      BY <3>2
    <3>4. t[i] = IF i <= Len(before) THEN before[i] ELSE after[i - Len(before)]
      BY <1>7, <3>3
    <3> QED
      BY <3>1, <3>4
  <2>2. CASE i < k
    BY <1>2, <1>3, <1>5, <2>1, <2>2
  <2>3. CASE ~(i < k)
    <3>1. i - (k - 1) \in 1..(Len(q) - k) /\ k + (i - (k - 1)) = i + 1
      BY <1>2, <1>3, <2>3
    <3>2. t[i] = after[i - (k - 1)]
      BY <1>2, <1>3, <2>1, <2>3
    <3> QED
      BY <1>6, <2>3, <3>1, <3>2
  <2> QED
    BY <2>2, <2>3
<1>10. \A m \in V : \E i \in DOMAIN t : t[i] = m
  <2> SUFFICES ASSUME NEW m \in V PROVE \E i \in DOMAIN t : t[i] = m
    OBVIOUS
  <2>1. PICK j \in DOMAIN q : q[j] = m
    BY DEF Once
  <2>2. j # k
    BY <1>3, <2>1
  <2>3. CASE j < k
    BY <1>2, <1>3, <1>8, <1>9, <2>1, <2>3
  <2>4. CASE j > k
    <3>1. j - 1 \in DOMAIN t /\ t[j - 1] = m
      BY <1>2, <1>3, <1>8, <1>9, <2>1, <2>4
    <3> QED
      BY <3>1
  <2> QED
    BY <1>2, <1>3, <2>1, <2>2, <2>3, <2>4
<1>11. \A i, j \in DOMAIN t : t[i] = t[j] => i = j
  <2> SUFFICES ASSUME NEW i \in DOMAIN t, NEW j \in DOMAIN t, t[i] = t[j] PROVE i = j
    OBVIOUS
  <2>1. \A m \in DOMAIN t : \E l \in DOMAIN q : t[m] = q[l] /\ l = IF m < k THEN m ELSE m + 1
    BY <1>2, <1>3, <1>8, <1>9
  <2>2. (IF i < k THEN i ELSE i + 1) = (IF j < k THEN j ELSE j + 1)
    BY <2>1 DEF Once
  <2> QED
    BY <1>2, <1>3, <1>8, <2>2
<1>12. Once(t, V)
  BY <1>7, <1>10, <1>11 DEF Once
<1> QED
  BY <1>12 DEF t, before, after, k, RemoveAt

\* A step that moves an upload which neither waits before it nor after it.
LEMMA QueueUntouched ==
    ASSUME Typed, Once(queue, Waiting), UNCHANGED queue, NEW n \in Uploads,
           pc[n] # "queued", NEW at \in Places \ {"queued"}, Goto(n, at)
    PROVE  Once(queue, Waiting)'
<1>1. pc' \in [Uploads -> Places] /\ pc'[n] = at /\ \A m \in Uploads \ {n} : pc'[m] = pc[m]
  BY Moved
<1>2. Waiting' = Waiting
  BY <1>1 DEF Waiting
<1> QED
  BY <1>2 DEF Once

LEMMA ClientQueue ==
    ASSUME Typed, Once(queue, Waiting), NEW n \in Uploads, ClientStep(n)
    PROVE  Once(queue, Waiting)'
<1>1. ASSUME NEW d \in Digests \cup {None}, Arrive(n, d) PROVE Once(queue, Waiting)'
  <2>1. pc[n] = "new" /\ queue' = Append(queue, n) /\ Goto(n, "queued")
    BY <1>1 DEF Arrive
  <2>2. pc' \in [Uploads -> Places] /\ pc'[n] = "queued" /\ \A m \in Uploads \ {n} : pc'[m] = pc[m]
    BY <2>1, Moved DEF Places
  <2>3. Waiting' = Waiting \cup {n} /\ n \notin Waiting
    BY <2>1, <2>2 DEF Waiting
  <2>4. PICK W, q : W = Waiting /\ q = queue
    OBVIOUS
  <2>5. Once(Append(q, n), W \cup {n})
    BY <2>3, <2>4, OnceAppended
  <2> QED
    BY <2>1, <2>3, <2>4, <2>5 DEF Once
<1>2. ASSUME NEW named \in BOOLEAN, NEW c \in Contents \cup {None}, BodyEnds(n, named, c)
      PROVE  Once(queue, Waiting)'
  <2>1. pc[n] = "body" /\ UNCHANGED queue /\ (Goto(n, "acquire") \/ Goto(n, "refused"))
    BY <1>2 DEF BodyEnds
  <2> QED
    BY <2>1, QueueUntouched DEF Places, Working, Ended
<1>3. ASSUME Drop(n) PROVE Once(queue, Waiting)'
  <2>1. /\ pc[n] \in {"queued"} \cup Working /\ Goto(n, "dropped")
        /\ queue' = Unqueued(n)
    BY <1>3 DEF Drop
  <2>2. CASE pc[n] = "queued"
    <3>1. pc' \in [Uploads -> Places] /\ pc'[n] = "dropped" /\ \A m \in Uploads \ {n} : pc'[m] = pc[m]
      BY <2>1, Moved DEF Places, Ended
    <3>2. Waiting' = Waiting \ {n} /\ n \in Waiting
      BY <2>2, <3>1 DEF Waiting
    <3>3. PICK W, q : W = Waiting /\ q = queue
      OBVIOUS
    <3> DEFINE left == RemoveAt(q, CHOOSE i \in DOMAIN q : q[i] = n)
    <3>4. Once(left, W \ {n})
      BY <3>2, <3>3, OnceRemoved
    <3>5. queue' = left
      BY <2>1, <2>2, <3>3 DEF Unqueued
    <3> HIDE DEF left
    <3> QED
      BY <3>2, <3>3, <3>4, <3>5 DEF Once
  <2>3. CASE pc[n] # "queued"
    BY <2>1, <2>3, QueueUntouched DEF Unqueued, Places, Ended
  <2> QED
    BY <2>2, <2>3
<1> QED
  BY <1>1, <1>2, <1>3 DEF ClientStep

LEMMA HandlerQueue ==
    ASSUME Typed, Once(queue, Waiting), NEW n \in Uploads, HandlerStep(n) \/ Fails(n)
    PROVE  Once(queue, Waiting)'
<1>1. CASE Begin(n)
  <2>1. /\ pc[n] = "queued" /\ n = Head(queue) /\ queue' = Tail(queue)
        /\ Goto(n, "refused") \/ Goto(n, "failed") \/ Goto(n, "body")
    BY <1>1 DEF Begin
  <2>2. pc' \in [Uploads -> Places] /\ pc'[n] # "queued" /\ \A m \in Uploads \ {n} : pc'[m] = pc[m]
    BY <2>1, Moved DEF Places, Working, Ended
  <2>3. Waiting' = Waiting \ {n} /\ n \in Waiting
    BY <2>1, <2>2 DEF Waiting
  <2>4. PICK W, q : W = Waiting /\ q = queue
    OBVIOUS
  <2>5. q # <<>>
    BY <2>3, <2>4, EmptySeq, LenProperties DEF Once
  <2>6. Once(Tail(q), W \ {Head(q)})
    BY <2>4, <2>5, OnceTail
  <2> QED
    BY <2>1, <2>3, <2>4, <2>6 DEF Once
<1>2. CASE Acquire(n)
  BY <1>2, QueueUntouched DEF Acquire, Places, Working
<1>3. CASE Fails(n)
  BY <1>3, QueueUntouched DEF Fails, Places, Ended
<1>4. CASE Lookup(n)
  <2>1. pc[n] = "lookup" /\ UNCHANGED queue /\ (Goto(n, "duplicate") \/ Goto(n, "promote"))
    BY <1>4 DEF Lookup
  <2> QED
    BY <2>1, QueueUntouched DEF Places, Working, Ended
<1>5. CASE Promote(n)
  <2>1. /\ pc[n] = "promote" /\ UNCHANGED queue
        /\ Goto(n, "refused") \/ Goto(n, "insert") \/ Goto(n, "failed")
    BY <1>5 DEF Promote
  <2> QED
    BY <2>1, QueueUntouched DEF Places, Working, Ended
<1>6. CASE Insert(n)
  <2>1. pc[n] = "insert" /\ UNCHANGED queue /\ (Goto(n, "created") \/ Goto(n, "failed"))
    BY <1>6 DEF Insert
  <2> QED
    BY <2>1, QueueUntouched DEF Places, Working, Ended
<1> QED
  BY <1>1, <1>2, <1>3, <1>4, <1>5, <1>6 DEF HandlerStep

LEMMA StepQueue == Typed /\ Once(queue, Waiting) /\ [Next]_vars => Once(queue, Waiting)'
<1> SUFFICES ASSUME Typed, Once(queue, Waiting), [Next]_vars PROVE Once(queue, Waiting)'
  OBVIOUS
<1>1. CASE UNCHANGED vars \/ \E d \in Digests, status \in {"absent", "pending", "stored"} :
                                OtherEndpoints(d, status)
  <2>1. UNCHANGED <<queue, pc>>
    BY <1>1 DEF vars, request, OtherEndpoints
  <2>2. Waiting' = Waiting
    BY <2>1 DEF Waiting
  <2> QED
    BY <2>1, <2>2 DEF Once
<1>2. CASE \E n \in Uploads : HandlerStep(n) \/ ClientStep(n) \/ Fails(n)
  BY <1>2, HandlerQueue, ClientQueue
<1> QED
  BY <1>1, <1>2 DEF Next

\* Each action either counts a fault, while there are some left, or counts none.
LEMMA StepFaults == faults \in 0..MaxFaults /\ [Next]_vars => faults' \in 0..MaxFaults
<1> SUFFICES ASSUME faults \in 0..MaxFaults, [Next]_vars PROVE faults' \in 0..MaxFaults
  OBVIOUS
<1>1. Fault \/ UNCHANGED faults
  BY DEF Next, vars, HandlerStep, ClientStep, Arrive, Begin, BodyEnds, Fails, Acquire, Lookup,
         Promote, Insert, Drop, OtherEndpoints, RemoveFile, Sound
<1> QED
  BY <1>1, LegacyAssumption DEF Fault

\* Every variable of the endpoint keeps its type, and the semaphore's queue holds
\* exactly the uploads that wait for a permit, each of them once, although their
\* clients may leave at any time and from any place in it.
THEOREM LegacyTypeCorrect == Spec => []TypeOK
<1> DEFINE TInv == FileInv /\ Once(queue, Waiting) /\ faults \in 0..MaxFaults
<1>1. TInv => TypeOK
  BY DEF FileInv, Typed, Places, Once, Waiting, TypeOK
<1>2. Init => TInv
  <2> SUFFICES ASSUME Init PROVE TInv
    OBVIOUS
  <2>1. Waiting = {}
    BY DEF Init, Waiting
  <2>2. Once(queue, Waiting)
    BY <2>1, EmptySeq DEF Init, Once
  <2> QED
    BY <2>2, InitFiles, LegacyAssumption DEF Init
<1>3. TInv /\ [Next]_vars => TInv'
  BY StepFiles, StepQueue, StepFaults DEF FileInv
<1> HIDE DEF TInv
<1> QED
  BY <1>1, <1>2, <1>3, PTL DEF Spec
===============================================================================
