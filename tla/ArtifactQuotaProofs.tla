-------------------------- MODULE ArtifactQuotaProofs -------------------------
(***************************************************************************)
(* The completions that pass the count quota exceed it by at most the      *)
(* other connections of the pool.  The argument: a completion that counted *)
(* holds its connection until it has stored its row, so the counted rows   *)
(* of an application, plus the completions admitted for it, never exceed   *)
(* what the count saw (less than MaxCount) plus the connections there are. *)
(* Rows that no count held back (`uncounted') never become counted other   *)
(* than by a completion that counts.                                       *)
(***************************************************************************)
EXTENDS ArtifactRegistryProofs

AdmittedSteps == {"bytes", "store"}
LateSteps     == AdmittedSteps \cup {"event", "retain", "log", "purge"}

\* The artifacts of application a that were counted, and the completions that
\* passed the count for it and have not stored yet.
Counted(a)  == StoredOf(a) \ uncounted
Counting(r) == pc[r] \in AdmittedSteps /\ seen[r].counted
Admitted(a) == {r \in Reqs : Counting(r) /\ call[r].app = a}

\* Who counts has found the application, and has counted before storing.
CountsLinked(r) ==
    /\ pc[r] = "count" => seen[r].linked
    /\ seen[r].counted => seen[r].linked /\ pc[r] \in LateSteps

\* So an artifact without an application was not counted.
UnlinkedUncounted ==
    \A d \in Digests : artifacts[d].status = "stored" /\ artifacts[d].app = None => d \in uncounted

AdmittedBound ==
    \A a \in Apps :
        Cardinality(Counted(a)) + Cardinality(Admitted(a)) <= MaxCount + PoolSize - 1

QuotaParts ==
    /\ Cardinality(Holders) <= PoolSize
    /\ \A r \in Reqs : CountsLinked(r)
    /\ UnlinkedUncounted
    /\ AdmittedBound

QuotaInv == MaxCount > 0 => QuotaParts

\* No row becomes a counted one of an application.
QuietTable ==
    \A d \in Digests : artifacts'[d].status = "stored" /\ d \notin uncounted' =>
        artifacts[d].status = "stored" /\ artifacts'[d].app = artifacts[d].app /\ d \notin uncounted

\* No completion passes the count.
QuietHandlers ==
    \A r \in Reqs : Counting(r)' => Counting(r) /\ call'[r].app = call[r].app

LEMMA FiniteParts ==
    ASSUME NEW S, S \in SUBSET Reqs \/ S \in SUBSET Digests
    PROVE  IsFiniteSet(S) /\ Cardinality(S) \in Nat
BY ConstantsAssumption, FS_Subset, FS_CardinalityType

\* A step that stores and admits nothing keeps the bound.
LEMMA QuietKeepsBound ==
    ASSUME QuotaParts, QuietTable, QuietHandlers
    PROVE  UnlinkedUncounted' /\ AdmittedBound'
<1>1. UnlinkedUncounted'
  BY DEF QuietTable, UnlinkedUncounted, QuotaParts
<1>2. ASSUME NEW a \in Apps
      PROVE  Cardinality(Counted(a)') + Cardinality(Admitted(a)') <= MaxCount + PoolSize - 1
  <2>1. Counted(a)' \in SUBSET Counted(a) /\ Counted(a) \in SUBSET Digests
    BY DEF Counted, StoredOf, QuietTable
  <2>2. Admitted(a)' \in SUBSET Admitted(a) /\ Admitted(a) \in SUBSET Reqs
    BY DEF Admitted, QuietHandlers
  <2>3. /\ Cardinality(Counted(a)') <= Cardinality(Counted(a))
        /\ Cardinality(Counted(a)) \in Nat /\ Cardinality(Counted(a)') \in Nat
    BY <2>1, FiniteParts, FS_Subset, FS_CardinalityType
  <2>4. /\ Cardinality(Admitted(a)') <= Cardinality(Admitted(a))
        /\ Cardinality(Admitted(a)) \in Nat /\ Cardinality(Admitted(a)') \in Nat
    BY <2>2, FiniteParts, FS_Subset, FS_CardinalityType
  <2> QED
    BY <2>3, <2>4, ConstantsAssumption DEF QuotaParts, AdmittedBound
<1> QED
  BY <1>1, <1>2 DEF AdmittedBound

LEMMA FewerHolders ==
    ASSUME Cardinality(Holders) <= PoolSize, Holders' \in SUBSET Holders
    PROVE  Cardinality(Holders') <= PoolSize
<1>1. Holders \in SUBSET Reqs
  BY DEF Holders
<1>2. IsFiniteSet(Holders) /\ Cardinality(Holders) \in Nat /\ Cardinality(Holders') \in Nat
  BY <1>1, FiniteParts, FS_Subset, FS_CardinalityType
<1>3. Cardinality(Holders') <= Cardinality(Holders)
  BY <1>2, FS_Subset
<1> QED
  BY <1>2, <1>3, ConstantsAssumption

\* A completion that counted and stores its row stops being admitted.
LEMMA StoringKeepsBound ==
    ASSUME QuotaParts, pc \in [Reqs -> Steps],
           NEW r \in Reqs, pc[r] = "store", seen[r].counted, call[r].app \in Apps,
           \A q \in Reqs : Counting(q)' => q # r /\ Counting(q) /\ call'[q].app = call[q].app,
           NEW d \in Digests, uncounted' = uncounted \ {d},
           artifacts'[d].app = call[r].app,
           \A e \in Digests \ {d} : artifacts'[e] = artifacts[e]
    PROVE  UnlinkedUncounted' /\ AdmittedBound'
<1>1. UnlinkedUncounted'
  BY ConstantsAssumption DEF UnlinkedUncounted, QuotaParts
<1>2. ASSUME NEW a \in Apps
      PROVE  Cardinality(Counted(a)') + Cardinality(Admitted(a)') <= MaxCount + PoolSize - 1
  <2>1. /\ Counted(a) \in SUBSET Digests /\ Counted(a)' \in SUBSET Digests
        /\ Admitted(a) \in SUBSET Reqs /\ Admitted(a)' \in SUBSET Reqs
    BY DEF Counted, StoredOf, Admitted
  <2>2. /\ IsFiniteSet(Counted(a)) /\ Cardinality(Counted(a)) \in Nat
        /\ Cardinality(Counted(a)') \in Nat
        /\ IsFiniteSet(Admitted(a)) /\ Cardinality(Admitted(a)) \in Nat
        /\ Cardinality(Admitted(a)') \in Nat
    BY <2>1, FiniteParts
  <2>3. Cardinality(Counted(a)) + Cardinality(Admitted(a)) <= MaxCount + PoolSize - 1
    BY DEF QuotaParts, AdmittedBound
  <2>4. CASE call[r].app = a
    <3>1. Counted(a)' \in SUBSET (Counted(a) \cup {d})
      BY <2>1 DEF Counted, StoredOf
    <3>2. /\ Admitted(a)' \in SUBSET (Admitted(a) \ {r})
          /\ r \in Admitted(a)
      <4>1. \A q \in Admitted(a)' : q \in Admitted(a) \ {r}
        BY <2>4 DEF Admitted
      <4>2. r \in Admitted(a)
        BY <2>4 DEF Admitted, Counting, AdmittedSteps
      <4> QED
        BY <4>1, <4>2
    <3>3. /\ IsFiniteSet(Counted(a) \cup {d})
          /\ Cardinality(Counted(a) \cup {d}) <= Cardinality(Counted(a)) + 1
      <4> DEFINE S == Counted(a)
      <4>1. IsFiniteSet(S) /\ Cardinality(S) \in Nat
        BY <2>2
      <4> HIDE DEF S
      <4>2. /\ IsFiniteSet(S \cup {d})
            /\ Cardinality(S \cup {d}) = IF d \in S THEN Cardinality(S) ELSE Cardinality(S) + 1
        BY <4>1, FS_AddElement
      <4>3. Cardinality(S \cup {d}) <= Cardinality(S) + 1
        BY <4>1, <4>2
      <4> QED
        BY <4>2, <4>3 DEF S
    <3>4. /\ IsFiniteSet(Admitted(a) \ {r})
          /\ Cardinality(Admitted(a) \ {r}) = Cardinality(Admitted(a)) - 1
      BY <2>2, <3>2, FS_RemoveElement
    <3>5. /\ Cardinality(Counted(a)') <= Cardinality(Counted(a)) + 1
          /\ Cardinality(Admitted(a)') <= Cardinality(Admitted(a)) - 1
      BY <2>2, <3>1, <3>2, <3>3, <3>4, FS_Subset, FS_CardinalityType
    <3> QED
      BY <2>2, <2>3, <3>5, ConstantsAssumption
  <2>5. CASE call[r].app # a
    <3>1. Counted(a)' \in SUBSET Counted(a) /\ Admitted(a)' \in SUBSET Admitted(a)
      BY <2>5 DEF Counted, StoredOf, Admitted
    <3>2. /\ Cardinality(Counted(a)') <= Cardinality(Counted(a))
          /\ Cardinality(Admitted(a)') <= Cardinality(Admitted(a))
      BY <2>2, <3>1, FS_Subset
    <3> QED
      BY <2>2, <2>3, <3>2, ConstantsAssumption
  <2> QED
    BY <2>4, <2>5
<1> QED
  BY <1>1, <1>2 DEF AdmittedBound

\* The count admits a completion only below MaxCount, and there are no more
\* admitted completions than connections.
LEMMA AdmittingKeepsBound ==
    ASSUME QuotaParts, MaxCount > 0, NEW r \in Reqs, ~CountExceeded(call[r].app),
           UNCHANGED <<artifacts, uncounted, call>>, Cardinality(Holders') <= PoolSize,
           \A q \in Reqs \ {r} : pc'[q] = pc[q] /\ seen'[q] = seen[q]
    PROVE  UnlinkedUncounted' /\ AdmittedBound'
<1>1. UnlinkedUncounted'
  BY DEF UnlinkedUncounted, QuotaParts
<1>2. ASSUME NEW a \in Apps
      PROVE  Cardinality(Counted(a)') + Cardinality(Admitted(a)') <= MaxCount + PoolSize - 1
  <2>1. /\ StoredOf(a) \in SUBSET Digests /\ Counted(a) \in SUBSET StoredOf(a)
        /\ Counted(a)' = Counted(a)
        /\ Admitted(a)' \in SUBSET Holders' /\ Holders' \in SUBSET Reqs
        /\ Admitted(a)' \in SUBSET Reqs /\ Admitted(a) \in SUBSET Reqs
    BY DEF Counted, StoredOf, Admitted, Counting, Holders, HeldSteps, AdmittedSteps
  <2>2. /\ IsFiniteSet(StoredOf(a)) /\ Cardinality(StoredOf(a)) \in Nat
        /\ Cardinality(Counted(a)) \in Nat /\ Cardinality(Admitted(a)') \in Nat
        /\ Cardinality(Admitted(a)) \in Nat
        /\ IsFiniteSet(Holders') /\ Cardinality(Holders') \in Nat
        /\ IsFiniteSet(Admitted(a))
    BY <2>1, FiniteParts
  <2>3. CASE call[r].app = a
    <3>1. Cardinality(StoredOf(a)) <= MaxCount - 1
      BY <2>2, <2>3, ConstantsAssumption DEF CountExceeded
    <3>2. /\ Cardinality(Admitted(a)') <= Cardinality(Holders')
          /\ Cardinality(Counted(a)) <= Cardinality(StoredOf(a))
      BY <2>1, <2>2, FS_Subset
    <3> QED
      BY <2>1, <2>2, <3>1, <3>2, ConstantsAssumption
  <2>4. CASE call[r].app # a
    <3>1. Admitted(a)' \in SUBSET Admitted(a)
      BY <2>4 DEF Admitted, Counting
    <3>2. Cardinality(Admitted(a)') <= Cardinality(Admitted(a))
      BY <2>2, <3>1, FS_Subset
    <3> QED
      BY <2>1, <2>2, <3>2, ConstantsAssumption DEF QuotaParts, AdmittedBound
  <2> QED
    BY <2>3, <2>4
<1> QED
  BY <1>1, <1>2 DEF AdmittedBound

-----------------------------------------------------------------------------
(***************************************************************************)
(* Every step keeps the parts of the invariant.                            *)
(***************************************************************************)
\* An answer, or a read that passes no check of the quota.
LEMMA ReplyKeepsQuota ==
    ASSUME RowInv, QuotaParts, NEW r \in Reqs, NEW code, Reply(r, code), QuietTable
    PROVE  QuotaParts'
<1>1. /\ pc'[r] = "done" /\ ~seen'[r].counted
      /\ \A q \in Reqs \ {r} : pc'[q] = pc[q] /\ call'[q] = call[q] /\ seen'[q] = seen[q]
  BY DEF Reply, Fresh, RowInv, TypeInv, TypeOK
<1>2. (\A q \in Reqs : CountsLinked(q)') /\ Holders' \in SUBSET Holders /\ QuietHandlers
  BY <1>1 DEF CountsLinked, Holders, HeldSteps, QuietHandlers, Counting, QuotaParts
<1> QED
  BY <1>2, QuietKeepsBound, FewerHolders DEF QuotaParts

LEMMA NoteEdge ==
    ASSUME RowInv, QuotaParts, NEW r \in Reqs, NEW locals, NEW step, Note(r, locals, step),
           pc[r] \in HeldSteps \/ step \notin HeldSteps,
           step = "count" => locals.linked,
           locals.counted => locals.linked /\ step \in LateSteps
    PROVE  /\ \A q \in Reqs : CountsLinked(q)'
           /\ Cardinality(Holders') <= PoolSize
           /\ pc'[r] = step /\ seen'[r] = locals /\ call' = call
           /\ \A q \in Reqs \ {r} : pc'[q] = pc[q] /\ seen'[q] = seen[q]
<1>1. /\ pc'[r] = step /\ seen'[r] = locals /\ call' = call
      /\ \A q \in Reqs \ {r} : pc'[q] = pc[q] /\ seen'[q] = seen[q]
  BY DEF Note, Goto, RowInv, TypeInv, TypeOK
<1>2. (\A q \in Reqs : CountsLinked(q)') /\ Holders' \in SUBSET Holders
  BY <1>1 DEF CountsLinked, Holders, QuotaParts
<1> QED
  BY <1>1, <1>2, FewerHolders DEF QuotaParts

LEMMA NoteKeepsQuota ==
    ASSUME RowInv, QuotaParts, NEW r \in Reqs, NEW locals, NEW step, Note(r, locals, step),
           pc[r] \in HeldSteps \/ step \notin HeldSteps,
           step = "count" => locals.linked,
           locals.counted => locals.linked /\ step \in LateSteps,
           locals.counted /\ step \in AdmittedSteps => Counting(r),
           QuietTable
    PROVE  QuotaParts'
<1>1. /\ \A q \in Reqs : CountsLinked(q)'
      /\ Cardinality(Holders') <= PoolSize /\ pc'[r] = step /\ seen'[r] = locals /\ call' = call
      /\ \A q \in Reqs \ {r} : pc'[q] = pc[q] /\ seen'[q] = seen[q]
  BY NoteEdge
<1>2. QuietHandlers
  BY <1>1 DEF QuietHandlers, Counting
<1> QED
  BY <1>1, <1>2, QuietKeepsBound DEF QuotaParts

\* Before the count nothing is counted, and after it what was counted stays so.
LEMMA EarlyKeepsQuota ==
    ASSUME RowInv, QuotaParts, NEW r \in Reqs, NEW locals, NEW step, Note(r, locals, step),
           pc[r] \in HeldSteps \/ step \notin HeldSteps, pc[r] \notin LateSteps,
           step = "count" => locals.linked, locals.counted = seen[r].counted, QuietTable
    PROVE  QuotaParts'
<1>1. ~locals.counted
  BY DEF QuotaParts, CountsLinked
<1> QED
  BY <1>1, NoteKeepsQuota

LEMMA LateKeepsQuota ==
    ASSUME RowInv, QuotaParts, NEW r \in Reqs, NEW locals, NEW step, Note(r, locals, step),
           pc[r] \in LateSteps, step \in LateSteps,
           step \in AdmittedSteps => pc[r] \in AdmittedSteps,
           locals.linked = seen[r].linked, locals.counted = seen[r].counted, QuietTable
    PROVE  QuotaParts'
<1>1. /\ locals.counted => locals.linked
      /\ locals.counted /\ step \in AdmittedSteps => Counting(r)
  BY DEF QuotaParts, CountsLinked, Counting
<1>2. pc[r] \in HeldSteps /\ step # "count"
  BY DEF LateSteps, AdmittedSteps, HeldSteps
<1> QED
  BY <1>1, <1>2, NoteKeepsQuota

\* What the statements that write the table do to the stored rows.
LEMMA QuietTableStep ==
    ASSUME RowInv, QuotaParts, NEW r \in Reqs, pc[r] # "done", uncounted' = uncounted,
           \/ UNCHANGED artifacts
           \/ \E gone : Delete(gone)
           \/ \E row : row.status = "pending" /\ InsertRow(call[r].digest, row)
           \/ /\ RowOf(call[r]).app = None
              /\ artifacts' = [artifacts EXCEPT ![call[r].digest].app = call[r].app]
           \/ \E row : /\ row.status = RowOf(call[r]).status /\ row.app = RowOf(call[r]).app
                       /\ artifacts' = [artifacts EXCEPT ![call[r].digest] = row]
    PROVE  QuietTable
<1>1. artifacts \in [Digests -> Row] /\ call[r].digest \in Digests /\ RowOf(call[r]) \in Row
  BY CallTyped DEF RowInv, TypeInv, TypeOK
<1>2. CASE UNCHANGED artifacts
  BY <1>2 DEF QuietTable
<1>3. ASSUME NEW gone, Delete(gone) PROVE QuietTable
  BY <1>3 DEF Delete, NoRow, QuietTable
<1>4. ASSUME NEW row, row.status = "pending", InsertRow(call[r].digest, row) PROVE QuietTable
  <2>1. [row EXCEPT !.id = rowCount + 1].status # "stored"
    BY <1>4
  <2> QED
    BY <1>1, <1>4, <2>1 DEF InsertRow, QuietTable
<1>5. ASSUME RowOf(call[r]).app = None,
             artifacts' = [artifacts EXCEPT ![call[r].digest].app = call[r].app]
      PROVE  QuietTable
  <2>1. RowOf(call[r]).status = "stored" => call[r].digest \in uncounted
    BY <1>1, <1>5 DEF QuotaParts, UnlinkedUncounted, RowOf
  <2>2. artifacts'[call[r].digest].status = RowOf(call[r]).status
    BY <1>1, <1>5 DEF RowOf, Row
  <2> QED
    BY <1>1, <1>5, <2>1, <2>2 DEF QuietTable
<1>6. ASSUME NEW row, row.status = RowOf(call[r]).status, row.app = RowOf(call[r]).app,
             artifacts' = [artifacts EXCEPT ![call[r].digest] = row]
      PROVE  QuietTable
  BY <1>1, <1>6 DEF QuietTable, RowOf
<1> QED
  BY <1>2, <1>3, <1>4, <1>5, <1>6

LEMMA StoreKeepsQuota ==
    ASSUME RowInv, QuotaParts, MaxCount > 0, NEW r \in Reqs, pc[r] = "store", NEW locals,
           Note(r, locals, "event"), locals.linked = seen[r].linked,
           locals.counted = seen[r].counted, Account(call[r].digest, seen[r].counted),
           artifacts'[call[r].digest].app = AppOf(r),
           \A e \in Digests \ {call[r].digest} : artifacts'[e] = artifacts[e]
    PROVE  QuotaParts'
<1>1. call[r].digest \in Digests /\ call[r].app \in Apps /\ pc \in [Reqs -> Steps]
  BY CallTyped DEF RowInv, TypeInv, TypeOK, Call
<1>2. CASE ~seen[r].counted
  <2>1. uncounted' = uncounted \cup {call[r].digest}
    BY <1>2, ConstantsAssumption DEF Account
  <2>2. QuietTable
    BY <1>1, <2>1 DEF QuietTable
  <2> QED
    BY <2>2, LateKeepsQuota DEF LateSteps, AdmittedSteps
<1>3. CASE seen[r].counted
  <2>1. uncounted' = uncounted \ {call[r].digest}
    BY <1>3 DEF Account
  <2>2. seen[r].linked /\ AppOf(r) = call[r].app
    BY <1>3 DEF QuotaParts, CountsLinked, AppOf
  <2>3. /\ \A q \in Reqs : CountsLinked(q)'
        /\ Cardinality(Holders') <= PoolSize /\ pc'[r] = "event" /\ call' = call
        /\ \A q \in Reqs \ {r} : pc'[q] = pc[q] /\ seen'[q] = seen[q]
    BY <1>3, <2>2, NoteEdge DEF HeldSteps, LateSteps
  <2>4. \A q \in Reqs : Counting(q)' => q # r /\ Counting(q) /\ call'[q].app = call[q].app
    BY <2>3 DEF Counting, AdmittedSteps
  <2>5. UnlinkedUncounted' /\ AdmittedBound'
    BY <1>1, <1>3, <2>1, <2>2, <2>4, StoringKeepsBound
  <2> QED
    BY <2>3, <2>5 DEF QuotaParts
<1> QED
  BY <1>2, <1>3

LEMMA HandlerKeepsQuota ==
    ASSUME RowInv, QuotaParts, MaxCount > 0, NEW r \in Reqs, HandlerStep(r)
    PROVE  QuotaParts'
<1>1. /\ pc[r] # "done" /\ call[r].app \in Apps /\ seen[r] \in Seen /\ call[r].signed \in BOOLEAN
  BY NotDone, CallTyped DEF RowInv, TypeInv, TypeOK, Call
<1>2. artifacts \in [Digests -> Row] /\ RowOf(call[r]) \in Row /\ call[r].digest \in Digests
  BY <1>1, CallTyped DEF RowInv, TypeInv, TypeOK
<1>3. AfterChecks(seen[r].linked) = "count" => seen[r].linked
  BY DEF AfterChecks
<1>4. ASSUME NEW code, Reply(r, code), QuietTable PROVE QuotaParts'
  BY <1>4, ReplyKeepsQuota
<1>5. ASSUME NEW step, Continue(r, step), QuietTable,
             pc[r] \in HeldSteps \/ step \notin HeldSteps, pc[r] \notin LateSteps,
             step = "count" => seen[r].linked
      PROVE  QuotaParts'
  BY <1>5, EarlyKeepsQuota DEF Continue
<1>6. ASSUME NEW locals, NEW step, Note(r, locals, step), QuietTable,
             pc[r] \in HeldSteps \/ step \notin HeldSteps, pc[r] \notin LateSteps,
             step = "count" => locals.linked, locals.counted = seen[r].counted
      PROVE  QuotaParts'
  BY <1>6, EarlyKeepsQuota
<1>7. UNCHANGED <<artifacts, uncounted>> => QuietTable
  BY DEF QuietTable
<1>late. ASSUME NEW step, Continue(r, step), QuietTable, pc[r] \in LateSteps, step \in LateSteps,
              step \in AdmittedSteps => pc[r] \in AdmittedSteps
       PROVE  QuotaParts'
  BY <1>late, LateKeepsQuota DEF Continue
<1>same. /\ \A v : /\ [seen[r] EXCEPT !.linked = v].counted = seen[r].counted
                 /\ [seen[r] EXCEPT !.linked = v].linked = v
                 /\ [seen[r] EXCEPT !.verified = v].counted = seen[r].counted
                 /\ [seen[r] EXCEPT !.verified = v].linked = seen[r].linked
                 /\ [seen[r] EXCEPT !.upload = v].counted = seen[r].counted
                 /\ [seen[r] EXCEPT !.row = v].counted = seen[r].counted
                 /\ [seen[r] EXCEPT !.row = v].linked = seen[r].linked
                 /\ [seen[r] EXCEPT !.stale = v].counted = seen[r].counted
                 /\ [seen[r] EXCEPT !.stale = v].linked = seen[r].linked
       /\ \A v, w : /\ [seen[r] EXCEPT !.row = v, !.key = w].counted = seen[r].counted
  BY <1>1 DEF Seen
<1> USE DEF HeldSteps, LateSteps, AdmittedSteps
<1>8. CASE PresignLookup(r)
  BY <1>4, <1>5, <1>7, <1>8 DEF PresignLookup, db
<1>9. CASE PresignLink(r)
  <2>1. PICK linked \in BOOLEAN : Note(r, [seen[r] EXCEPT !.linked = linked], "insert")
    BY <1>9, PresignLinkNotes
  <2>2. pc[r] = "link" /\ UNCHANGED <<artifacts, uncounted>>
    BY <1>9 DEF PresignLink, db
  <2> QED
    BY <1>6, <1>7, <1>same, <2>1, <2>2
<1>10. CASE PresignInsert(r)
  <2> DEFINE row == PendingRow(AppOf(r), OwnKey(call[r]), None)
  <2>1. row.status = "pending"
    BY DEF PendingRow, NoRow
  <2>2. /\ Reply(r, "url") /\ uncounted' = uncounted
        /\ InsertRow(call[r].digest, row) \/ UNCHANGED artifacts
    BY <1>10 DEF PresignInsert
  <2> HIDE DEF row
  <2>3. QuietTable
    BY <1>1, <2>1, <2>2, QuietTableStep
  <2> QED
    BY <1>4, <2>2, <2>3
<1>11. CASE LinkApp(r)
  <2>1. PICK linked \in BOOLEAN :
          Note(r, [seen[r] EXCEPT !.linked = linked],
               IF call[r].kind = "multipart" THEN AfterChecks(linked) ELSE "row")
    BY <1>11, LinkAppNotes
  <2> DEFINE locals == [seen[r] EXCEPT !.linked = linked]
             step == IF call[r].kind = "multipart" THEN AfterChecks(linked) ELSE "row"
  <2>2. /\ locals.counted = seen[r].counted /\ (step = "count" => locals.linked)
    BY <1>same DEF AfterChecks
  <2>3. Note(r, locals, step) /\ pc[r] = "app" /\ UNCHANGED <<artifacts, uncounted>>
    BY <1>11, <2>1 DEF LinkApp, Query, db
  <2> HIDE DEF locals, step
  <2> QED
    BY <1>6, <1>7, <2>2, <2>3
<1>12. CASE CompleteRow(r)
  <2> DEFINE locals == [seen[r] EXCEPT !.row = RowOf(call[r]).id, !.key = RowOf(call[r]).key]
  <2>1. locals.counted = seen[r].counted
    BY <1>same
  <2>2. pc[r] = "row" /\ UNCHANGED <<artifacts, uncounted>>
    BY <1>12 DEF CompleteRow, Query, db
  <2>3. \/ Reply(r, "rejected") \/ Reply(r, "duplicate") \/ Continue(r, "idem")
        \/ Note(r, locals, "rowkey") \/ Note(r, locals, "backfill")
    BY <1>12 DEF CompleteRow
  <2> HIDE DEF locals
  <2> QED
    BY <1>4, <1>5, <1>6, <1>7, <2>1, <2>2, <2>3
<1>13. CASE CheckRowKey(r)
  BY <1>4, <1>5, <1>7, <1>13 DEF CheckRowKey, Query, db
<1>14. CASE Backfill(r)
  <2>1. QuietTable
    BY <1>1, <1>14, QuietTableStep DEF Backfill
  <2> QED
    BY <1>5, <1>14, <2>1 DEF Backfill, Query
<1>15. CASE VerifySize(r) \/ VerifyContent(r)
  BY <1>3, <1>4, <1>5, <1>7, <1>15 DEF VerifySize, VerifyContent, db
<1>16. CASE CheckKeyFree(r)
  <2>1. \/ Reply(r, "conflict")
        \/ \E verified : Note(r, [seen[r] EXCEPT !.verified = verified], AfterChecks(seen[r].linked))
    BY <1>1, <1>16, CheckKeyFreeNotes
  <2>2. pc[r] = "idem" /\ UNCHANGED <<artifacts, uncounted>>
    BY <1>16 DEF CheckKeyFree, Query, db
  <2> QED
    BY <1>3, <1>4, <1>6, <1>7, <1>same, <2>1, <2>2
<1>17. CASE QuotaCount(r)
  <2>1. pc[r] = "count" /\ UNCHANGED <<artifacts, uncounted>> /\ seen[r].linked /\ QuietTable
    BY <1>7, <1>17 DEF QuotaCount, Query, db, QuotaParts, CountsLinked
  <2>2. CASE Reply(r, "quota")
    BY <1>4, <2>1, <2>2
  <2>3. CASE Continue(r, "bytes")
    BY <1>5, <2>1, <2>3
  <2>4. CASE ~CountExceeded(call[r].app) /\ Note(r, [seen[r] EXCEPT !.counted = TRUE], "bytes")
    <3> DEFINE locals == [seen[r] EXCEPT !.counted = TRUE]
    <3>1. locals.linked /\ Note(r, locals, "bytes")
      BY <1>1, <2>1, <2>4 DEF Seen
    <3> HIDE DEF locals
    <3>2. /\ \A q \in Reqs : CountsLinked(q)'
          /\ Cardinality(Holders') <= PoolSize /\ call' = call
          /\ \A q \in Reqs \ {r} : pc'[q] = pc[q] /\ seen'[q] = seen[q]
      BY <2>1, <3>1, NoteEdge
    <3>3. UnlinkedUncounted' /\ AdmittedBound'
      BY <2>1, <2>4, <3>2, AdmittingKeepsBound
    <3> QED
      BY <3>2, <3>3 DEF QuotaParts
  <2> QED
    BY <1>17, <2>2, <2>3, <2>4 DEF QuotaCount
<1>18. CASE QuotaBytes(r)
  BY <1>4, <1>7, <1>18, <1>late DEF QuotaBytes, Query, db
<1>19. CASE FinalizePending(r) \/ FinalizeMultipart(r)
  <2>1. pc[r] = "store"
    BY <1>19 DEF FinalizePending, FinalizeMultipart, Query
  <2>2. ASSUME NEW row, row.app = AppOf(r), Continue(r, "event"),
               Account(call[r].digest, seen[r].counted),
               artifacts' = [artifacts EXCEPT ![call[r].digest] = row]
        PROVE  QuotaParts'
    <3>1. /\ artifacts'[call[r].digest].app = AppOf(r)
          /\ \A e \in Digests \ {call[r].digest} : artifacts'[e] = artifacts[e]
      BY <1>2, <2>2
    <3> QED
      BY <1>1, <2>1, <2>2, <3>1, StoreKeepsQuota DEF Continue
  <2>3. CASE FinalizePending(r)
    <3> DEFINE row == [RowOf(call[r]) EXCEPT !.app = AppOf(r), !.size = call[r].size,
                          !.verified = FALSE, !.key = OwnKey(call[r]), !.status = "stored",
                          !.idem = Coalesce(RowOf(call[r]).idem, call[r].idem)]
    <3>1. row.app = AppOf(r)
      BY <1>2 DEF Row
    <3>2. \/ (Reply(r, "error") \/ Reply(r, "conflict")) /\ UNCHANGED <<artifacts, uncounted>>
          \/ /\ artifacts' = [artifacts EXCEPT ![call[r].digest] = row]
             /\ Account(call[r].digest, seen[r].counted) /\ Continue(r, "event")
      BY <2>3 DEF FinalizePending
    <3> HIDE DEF row
    <3> QED
      BY <1>4, <1>7, <2>2, <3>1, <3>2
  <2>4. CASE FinalizeMultipart(r)
    <3> DEFINE row == [RowOf(call[r]) EXCEPT !.app = AppOf(r), !.size = call[r].size,
                          !.verified = FALSE, !.status = "stored",
                          !.idem = Coalesce(RowOf(call[r]).idem, call[r].idem)]
    <3>1. row.app = AppOf(r)
      BY <1>2 DEF Row
    <3>2. \/ Reply(r, "error") /\ UNCHANGED <<artifacts, uncounted>>
          \/ /\ artifacts' = [artifacts EXCEPT ![call[r].digest] = row]
             /\ Account(call[r].digest, seen[r].counted) /\ Continue(r, "event")
      BY <2>4 DEF FinalizeMultipart
    <3> HIDE DEF row
    <3> QED
      BY <1>4, <1>7, <2>2, <3>1, <3>2
  <2> QED
    BY <1>19, <2>3, <2>4
<1>20. CASE InsertStored(r)
  <2> DEFINE row == [NoRow EXCEPT !.app = AppOf(r), !.size = call[r].size,
                        !.verified = seen[r].verified, !.key = OwnKey(call[r]),
                        !.status = "stored", !.idem = call[r].idem]
             locals == [seen[r] EXCEPT !.row = rowCount + 1]
  <2>1. pc[r] = "store"
    BY <1>20 DEF InsertStored, RefuseTakenDigest, Query
  <2>2. /\ [row EXCEPT !.id = rowCount + 1].app = AppOf(r)
        /\ locals.linked = seen[r].linked /\ locals.counted = seen[r].counted
    BY <1>same DEF NoRow
  <2>3. \/ (Reply(r, "error") \/ Reply(r, "conflict")) /\ UNCHANGED <<artifacts, uncounted>>
        \/ /\ InsertRow(call[r].digest, row) /\ Note(r, locals, "event")
           /\ Account(call[r].digest, seen[r].counted)
    BY <1>20 DEF InsertStored, RefuseTakenDigest
  <2> HIDE DEF row, locals
  <2>4. ASSUME InsertRow(call[r].digest, row), Note(r, locals, "event"),
               Account(call[r].digest, seen[r].counted)
        PROVE  QuotaParts'
    <3>1. /\ artifacts'[call[r].digest].app = AppOf(r)
          /\ \A e \in Digests \ {call[r].digest} : artifacts'[e] = artifacts[e]
      BY <1>2, <2>2, <2>4 DEF InsertRow
    <3> QED
      BY <1>1, <2>1, <2>2, <2>4, <3>1, StoreKeepsQuota
  <2> QED
    BY <1>4, <1>7, <2>3, <2>4
<1>21. CASE InsertEvent(r) \/ LogRetention(r)
  BY <1>4, <1>7, <1>21, <1>late DEF InsertEvent, LogRetention, Query
<1>22. CASE SelectStale(r)
  <2> DEFINE locals == [seen[r] EXCEPT !.stale = StaleOf(call[r].app)]
  <2>1. locals.linked = seen[r].linked /\ locals.counted = seen[r].counted
    BY <1>same
  <2>2. pc[r] = "retain" /\ QuietTable
    BY <1>7, <1>22 DEF SelectStale, Query, db
  <2>3. Reply(r, "stored") \/ Note(r, locals, "log")
    BY <1>22 DEF SelectStale
  <2> HIDE DEF locals
  <2> QED
    BY <1>4, <2>1, <2>2, <2>3, LateKeepsQuota
<1>23. CASE PurgeStale(r)
  <2>1. QuietTable
    BY <1>1, <1>23, QuietTableStep DEF PurgeStale
  <2> QED
    BY <1>4, <1>23, <2>1 DEF PurgeStale
<1>24. CASE MultipartStep(r)
  <2>1. CASE InitStatus(r) \/ Assemble(r)
    BY <1>4, <1>5, <1>7, <2>1 DEF InitStatus, Assemble, Query, db
  <2>2. CASE CreateUpload(r)
    <3>1. ASSUME NEW u, Note(r, [seen[r] EXCEPT !.upload = u], "upsert"), QuietTable,
                 pc[r] = "create"
          PROVE  QuotaParts'
      BY <1>6, <1>same, <3>1
    <3> QED
      BY <1>4, <1>7, <2>2, <3>1 DEF CreateUpload, db
  <2>3. CASE UpsertUpload(r)
    <3> DEFINE new == PendingRow(None, OwnKey(call[r]), seen[r].upload)
               row == Reinit(RowOf(call[r]), OwnKey(call[r]), seen[r].upload)
    <3>1. new.status = "pending"
      BY DEF PendingRow, NoRow
    <3>2. row.status = RowOf(call[r]).status /\ row.app = RowOf(call[r]).app
      BY <1>2 DEF Reinit, Row
    <3>3. /\ Reply(r, "upload") /\ uncounted' = uncounted
          /\ \/ InsertRow(call[r].digest, new)
             \/ artifacts' = [artifacts EXCEPT ![call[r].digest] = row]
             \/ UNCHANGED artifacts
      BY <2>3 DEF UpsertUpload, RowOf
    <3> HIDE DEF new, row
    <3>4. QuietTable
      BY <1>1, <3>1, <3>2, <3>3, QuietTableStep
    <3> QED
      BY <1>4, <3>3, <3>4
  <2>4. CASE MultipartRow(r)
    <3> DEFINE locals == [seen[r] EXCEPT !.row = RowOf(call[r]).id, !.key = RowOf(call[r]).key]
    <3>1. /\ Reply(r, "rejected") \/ Reply(r, "duplicate") \/ Note(r, locals, "assemble")
          /\ pc[r] = "mrow" /\ UNCHANGED <<artifacts, uncounted>>
      BY <2>4 DEF MultipartRow, Query, db
    <3>2. locals.counted = seen[r].counted
      BY <1>same
    <3> HIDE DEF locals
    <3> QED
      BY <1>4, <1>6, <1>7, <3>1, <3>2
  <2> QED
    BY <1>24, <2>1, <2>2, <2>3, <2>4 DEF MultipartStep
<1> QED
  BY <1>8, <1>9, <1>10, <1>11, <1>12, <1>13, <1>14, <1>15, <1>16, <1>17, <1>18, <1>19, <1>20,
     <1>21, <1>22, <1>23, <1>24
  DEF HandlerStep, PresignStep, CheckStep, StoreStep

LEMMA QuotaNext == RowInv /\ QuotaInv /\ [Next]_vars => QuotaInv'
<1> SUFFICES ASSUME RowInv, QuotaParts, [Next]_vars, MaxCount > 0 PROVE QuotaParts'
  BY DEF QuotaInv
<1>1. pc \in [Reqs -> Steps] /\ call \in [Reqs -> Calls \cup {NoCall}]
  BY DEF RowInv, TypeInv, TypeOK
<1>2. ASSUME UNCHANGED <<call, pc, seen>>, QuietTable PROVE QuotaParts'
  <2>1. (\A r \in Reqs : CountsLinked(r)') /\ Holders' = Holders /\ QuietHandlers
    BY <1>2 DEF CountsLinked, Holders, QuietHandlers, Counting, QuotaParts
  <2> QED
    BY <1>2, <2>1, QuietKeepsBound DEF QuotaParts
<1>3. UNCHANGED <<artifacts, uncounted>> => QuietTable
  BY DEF QuietTable
<1>4. ASSUME NEW r \in Reqs, NEW c \in Calls, Receive(r, c) PROVE QuotaParts'
  <2>1. c.kind \in Kinds
    BY ConstantsAssumption DEF Call
  <2>2. /\ FirstStep(c.kind) \notin LateSteps \cup {"count"}
        /\ FirstStep(c.kind) \in HeldSteps => c.kind # "presign"
    BY <2>1 DEF FirstStep, Kinds, LateSteps, AdmittedSteps, HeldSteps
  <2>3. /\ pc'[r] = FirstStep(c.kind) /\ seen' = seen /\ UNCHANGED <<artifacts, uncounted>>
        /\ c.kind # "presign" => ConnFree
        /\ \A q \in Reqs \ {r} : pc'[q] = pc[q] /\ call'[q] = call[q]
    BY <1>1, <1>4 DEF Receive, Goto, db
  <2>idle. pc[r] = "done" /\ ~seen[r].counted
    BY <1>4 DEF Receive, QuotaParts, CountsLinked, LateSteps, AdmittedSteps
  <2>4. (\A q \in Reqs : CountsLinked(q)') /\ QuietHandlers
    BY <2>2, <2>3, <2>idle DEF CountsLinked, QuietHandlers, Counting, QuotaParts
  <2>5. Cardinality(Holders') <= PoolSize
    <3>1. CASE FirstStep(c.kind) \notin HeldSteps
      <4>1. Holders' \in SUBSET Holders
        BY <2>3, <3>1 DEF Holders
      <4> QED
        BY <4>1, FewerHolders DEF QuotaParts
    <3>2. CASE FirstStep(c.kind) \in HeldSteps
      <4>1. Cardinality(Holders) < PoolSize
        BY <2>2, <2>3, <3>2 DEF ConnFree
      <4>2. Holders' \in SUBSET (Holders \cup {r}) /\ Holders \in SUBSET Reqs
        BY <2>3 DEF Holders
      <4>3. IsFiniteSet(Holders) /\ Cardinality(Holders) \in Nat
        BY <4>2, FiniteParts
      <4> HIDE DEF Holders
      <4>4. /\ IsFiniteSet(Holders \cup {r})
            /\ Cardinality(Holders \cup {r}) =
                 IF r \in Holders THEN Cardinality(Holders) ELSE Cardinality(Holders) + 1
        BY <4>3, FS_AddElement
      <4>5. /\ Cardinality(Holders') <= Cardinality(Holders \cup {r})
            /\ Cardinality(Holders') \in Nat
        BY <4>2, <4>4, FS_Subset, FS_CardinalityType
      <4> QED
        BY <4>1, <4>3, <4>4, <4>5, ConstantsAssumption
    <3> QED
      BY <3>1, <3>2
  <2> QED
    BY <1>3, <2>3, <2>4, <2>5, QuietKeepsBound DEF QuotaParts
<1>5. ASSUME NEW r \in Reqs, NEW c \in Calls, Refuse(r, c) PROVE QuotaParts'
  BY <1>2, <1>3, <1>5 DEF Refuse, db
<1>6. ASSUME NEW r \in Reqs, Abort(r) PROVE QuotaParts'
  <2>1. /\ pc'[r] = "done" /\ ~seen'[r].counted /\ UNCHANGED <<artifacts, uncounted>>
        /\ \A q \in Reqs \ {r} : pc'[q] = pc[q] /\ call'[q] = call[q] /\ seen'[q] = seen[q]
    BY <1>6 DEF Abort, Fresh, db, RowInv, TypeInv, TypeOK
  <2>2. (\A q \in Reqs : CountsLinked(q)') /\ Holders' \in SUBSET Holders /\ QuietHandlers
    BY <2>1 DEF CountsLinked, Holders, HeldSteps, QuietHandlers, Counting, QuotaParts
  <2> QED
    BY <1>3, <2>1, <2>2, QuietKeepsBound, FewerHolders DEF QuotaParts
<1>7. ASSUME NEW r \in Reqs, HandlerStep(r) PROVE QuotaParts'
  BY <1>7, HandlerKeepsQuota
<1>8. ASSUME NEW i \in RowIds, PendingGC(i) PROVE QuotaParts'
  <2>1. (\E gone : Delete(gone)) /\ uncounted' = uncounted
    BY <1>8 DEF PendingGC
  <2>2. QuietTable
    BY <2>1 DEF Delete, NoRow, QuietTable
  <2> QED
    BY <1>2, <1>8, <2>2 DEF PendingGC, handler
<1>9. ASSUME NEW c \in Legacy, LegacyInsert(c) PROVE QuotaParts'
  <2>1. uncounted' = uncounted \cup {c.digest} /\ UNCHANGED handler
    BY <1>9, ConstantsAssumption DEF LegacyInsert, Account
  <2>2. \A d \in Digests \ {c.digest} : artifacts'[d] = artifacts[d]
    BY <1>9, LegacyRow DEF RowInv, TypeInv, TypeOK
  <2>3. QuietTable
    BY <2>1, <2>2 DEF QuietTable
  <2> QED
    BY <1>2, <2>1, <2>3 DEF handler
<1>10. UNCHANGED <<handler, artifacts, uncounted>> => QuotaParts'
  BY <1>2, <1>3 DEF handler
<1> QED
  BY <1>4, <1>5, <1>6, <1>7, <1>8, <1>9, <1>10, EnvironmentQuiet DEF Next, RequestStep

LEMMA QuotaInit == Init => QuotaInv
<1> SUFFICES ASSUME Init, MaxCount > 0 PROVE QuotaParts
  BY DEF QuotaInv
<1>1. (\A r \in Reqs : CountsLinked(r)) /\ UnlinkedUncounted
  BY DEF Init, CountsLinked, Fresh, UnlinkedUncounted, NoRow
<1>2. Holders = {} /\ \A a \in Apps : Counted(a) = {} /\ Admitted(a) = {}
  BY DEF Init, Holders, HeldSteps, Counted, StoredOf, Admitted, Counting, AdmittedSteps, NoRow
<1>3. Cardinality({}) = 0
  BY FS_EmptySet
<1>4. Cardinality(Holders) <= PoolSize
  BY <1>2, <1>3, ConstantsAssumption
<1>5. \A a \in Apps : Cardinality(Counted(a)) = 0 /\ Cardinality(Admitted(a)) = 0
  BY <1>2, <1>3
<1>6. AdmittedBound
  BY <1>5, ConstantsAssumption DEF AdmittedBound
<1> QED
  BY <1>1, <1>4, <1>6 DEF QuotaParts

\* Completions that race past the count quota exceed it by at most the other
\* connections of the pool, whatever the pool's size and the quota, whichever of
\* their statements fail and whatever POST /artifacts adds: the artifacts of an
\* application that a count let in are that many at most.
THEOREM QuotaOvershootBounded == Spec => []QuotaOvershootBound
<1>1. QuotaInv => QuotaOvershootBound
  <2> SUFFICES ASSUME QuotaParts, NEW a \in Apps
               PROVE  Cardinality(StoredOf(a) \ uncounted) <= MaxCount + (PoolSize - 1)
    BY DEF QuotaInv, QuotaOvershootBound
  <2>1. Counted(a) \in SUBSET Digests /\ Admitted(a) \in SUBSET Reqs
    BY DEF Counted, StoredOf, Admitted
  <2>2. Cardinality(Counted(a)) \in Nat /\ Cardinality(Admitted(a)) \in Nat
    BY <2>1, FiniteParts
  <2> QED
    BY <2>2, ConstantsAssumption DEF QuotaParts, AdmittedBound, Counted
<1> QED
  BY <1>1, QuotaInit, QuotaNext, RowInvInvariant, PTL DEF Spec
===============================================================================
