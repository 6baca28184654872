------------------------------ MODULE LegacyUpload -----------------------------
(***************************************************************************)
(* POST /artifacts, the deprecated upload whose body passes through the    *)
(* control plane: a permit of the upload semaphore, a temporary file, the  *)
(* digest recomputed, a lookup, a rename and an INSERT.                    *)
(*                                                                         *)
(* An upload takes one step per await of the handler; between two of them  *)
(* other uploads and the other endpoints run, and its client may go away.  *)
(* Uploads are numbered in the order of their arrival; the number stands   *)
(* for the uuids that name the upload's files.                             *)
(***************************************************************************)
EXTENDS Naturals, SequencesExt

CONSTANTS
    Digests,     \* a digest names the content it hashes
    Contents,    \* what a client's body carries, and what is left of it when cut off
    Oversize,    \* the contents larger than AETHER_MAX_ARTIFACT_SIZE_BYTES
    Permits,     \* AETHER_MAX_CONCURRENT_UPLOADS
    None,
    MaxUploads,  \* bound: uploads ever made
    MaxFaults    \* bound: failing file system calls and statements, clients gone

Uploads == 1..MaxUploads

ASSUME LegacyAssumption ==
    /\ Digests \subseteq Contents /\ Oversize \subseteq Contents
    /\ None \notin Contents
    /\ Permits \in Nat \ {0} /\ MaxUploads \in Nat /\ MaxFaults \in Nat

VARIABLES
    artifacts,  \* digest -> its row: status, and the upload that inserted it
    queue,      \* uploads that wait for a permit, in the order they get it
    pc,         \* upload -> the await its handler is at, or how it ended
    claimed,    \* upload -> digest of its header, None if missing or malformed
    content,    \* upload -> what was written to its temporary file
    parts,      \* uploads whose file upload-<uuid>.part exists
    stored,     \* upload -> content of its file <uuid>.tar.gz, or None
    undeleted,  \* history: uploads of which a file could not be removed
    faults      \* faults so far

request == <<queue, pc, claimed, content>>
disk    == <<parts, stored, undeleted>>
vars    == <<artifacts, request, disk, faults>>

Row   == [status : {"absent", "pending", "stored"}, by : Uploads \cup {None}]
NoRow == [status |-> "absent", by |-> None]

Working == {"body", "acquire", "lookup", "promote", "insert"}
Ended   == {"created", "duplicate", "refused", "failed", "dropped"}

\* _permit lives as long as the handler.
HoldersLeaky == {n \in Uploads : pc[n] \in Working \cup {"failed"}}  \* faulty: an error forgets the permit
Holders      == {n \in Uploads : pc[n] \in Working}

Fault == faults < MaxFaults /\ faults' = faults + 1
Sound == UNCHANGED faults

Goto(n, at) == pc' = [pc EXCEPT ![n] = at]

-----------------------------------------------------------------------------
\* A request arrives and waits for UPLOAD_SEMAPHORE, which is first in, first out.
Arrive(n, digest) ==
    /\ pc[n] = "new" /\ \A m \in 1..(n - 1) : pc[m] # "new"
    /\ queue' = Append(queue, n)
    /\ claimed' = [claimed EXCEPT ![n] = digest]
    /\ Goto(n, "queued")
    /\ UNCHANGED <<artifacts, content, disk, faults>>

\* With the permit: the header is checked, the temporary file created.
Begin(n) ==
    /\ pc[n] = "queued" /\ n = Head(queue) /\ Cardinality(Holders) < Permits
    /\ queue' = Tail(queue)
    /\ \/ claimed[n] = None /\ Goto(n, "refused") /\ Sound /\ UNCHANGED parts
       \/ claimed[n] # None /\ Fault /\ Goto(n, "failed") /\ UNCHANGED parts
       \/ claimed[n] # None /\ Sound /\ Goto(n, "body") /\ parts' = parts \cup {n}
    /\ UNCHANGED <<artifacts, claimed, content, stored, undeleted>>

MatchesAny(n, c) == c # None       \* faulty: the header is believed
Matches(n, c)    == c = claimed[n]

Left(n)      == parts              \* faulty: returns before remove_file
Discarded(n) == parts \ {n}

\* The temporary file is removed; an error is not looked at.
RemoveFile(n) ==
    \/ Sound /\ parts' = Discarded(n) /\ UNCHANGED undeleted
    \/ Fault /\ UNCHANGED parts /\ undeleted' = undeleted \cup {n}

\* The field loop ends: at the end of the body, or where reading it fails (also
\* at the body limit of 1 MB).  c is what was written, None without such a field.
BodyEnds(n, named, c) ==
    /\ pc[n] = "body"
    /\ content' = [content EXCEPT ![n] = c]
    /\ IF named /\ Matches(n, c)
       THEN Goto(n, "acquire") /\ Sound /\ UNCHANGED <<parts, undeleted>>
       ELSE Goto(n, "refused") /\ RemoveFile(n)
    /\ UNCHANGED <<artifacts, queue, claimed, stored>>

\* write_all fails, or no connection within the acquire timeout: the temporary
\* file is not removed.
Fails(n) ==
    /\ pc[n] \in {"body", "acquire"} /\ Fault
    /\ Goto(n, "failed")
    /\ UNCHANGED <<artifacts, queue, claimed, content, disk>>

Acquire(n) ==
    /\ pc[n] = "acquire"
    /\ Goto(n, "lookup")
    /\ UNCHANGED <<artifacts, queue, claimed, content, disk, faults>>

\* SELECT ... WHERE digest: any row is a duplicate, whatever its status; a
\* failing statement is no row.
Lookup(n) ==
    /\ pc[n] = "lookup"
    /\ LET found == artifacts[claimed[n]].status # "absent" IN
       \/ found /\ Goto(n, "duplicate") /\ RemoveFile(n)
       \/ ~found /\ Sound /\ Goto(n, "promote") /\ UNCHANGED <<parts, undeleted>>
       \/ found /\ Fault /\ Goto(n, "promote") /\ UNCHANGED <<parts, undeleted>>
    /\ UNCHANGED <<artifacts, queue, claimed, content, stored>>

\* Rename, or copy and remove; then the size limit, past which the file is removed.
\* A copy that fails may have written a part of the file.
Promote(n) ==
    /\ pc[n] = "promote"
    /\ \/ /\ content[n] \notin Oversize /\ Goto(n, "insert") /\ RemoveFile(n)
          /\ stored' = [stored EXCEPT ![n] = content[n]]
       \/ /\ content[n] \in Oversize /\ Goto(n, "refused")
          /\ \/ RemoveFile(n) /\ stored' = [stored EXCEPT ![n] = None]
             \/ /\ Fault /\ undeleted' = undeleted \cup {n}
                /\ parts' \in {parts, parts \ {n}}
                /\ stored' = [stored EXCEPT ![n] = content[n]]
       \/ /\ Fault /\ Goto(n, "failed") /\ UNCHANGED <<parts, undeleted>>
          /\ \E c \in {stored[n]} \cup (Contents \ {content[n]}) :
               stored' = [stored EXCEPT ![n] = c]
    /\ UNCHANGED <<artifacts, queue, claimed, content>>

InsertRow(n) ==
    /\ artifacts[claimed[n]].status = "absent"
    /\ artifacts' = [artifacts EXCEPT ![claimed[n]] = [status |-> "stored", by |-> n]]

\* After the reads of application and keys, which fail silently: the INSERT.
\* The digest is UNIQUE; an error leaves the file.
Insert(n) ==
    /\ pc[n] = "insert"
    /\ \/ InsertRow(n) /\ Sound /\ Goto(n, "created")
       \/ artifacts[claimed[n]].status # "absent" /\ Sound /\ Goto(n, "failed") /\ UNCHANGED artifacts
       \/ Fault /\ Goto(n, "failed") /\ (InsertRow(n) \/ UNCHANGED artifacts)
    /\ UNCHANGED <<queue, claimed, content, disk>>

StillQueued(n) == queue  \* faulty: a client that leaves keeps its place
Unqueued(n)    ==
    IF pc[n] = "queued" THEN RemoveAt(queue, CHOOSE i \in DOMAIN queue : queue[i] = n) ELSE queue

\* The client goes away and the handler's future is dropped at its await;
\* no destructor removes files, and a statement that was sent may take effect.
Drop(n) ==
    /\ pc[n] \in {"queued"} \cup Working /\ Fault
    /\ Goto(n, "dropped")
    /\ queue' = Unqueued(n)
    /\ UNCHANGED artifacts \/ (pc[n] = "insert" /\ InsertRow(n))
    /\ UNCHANGED <<claimed, content, disk>>

\* What the other endpoints and the two GCs do to a row meanwhile (the moves
\* that ArtifactLifecycle allows and ArtifactRegistry is shown to make).
OtherEndpoints(d, status) ==
    /\ <<artifacts[d].status, status>> \in
          {<<"absent", "pending">>, <<"absent", "stored">>, <<"pending", "stored">>,
           <<"pending", "absent">>, <<"stored", "absent">>}
    /\ artifacts' = [artifacts EXCEPT ![d] = [status |-> status, by |-> None]]
    /\ UNCHANGED <<request, disk, faults>>

-----------------------------------------------------------------------------
Init ==
    /\ artifacts = [d \in Digests |-> NoRow]
    /\ queue = <<>>
    /\ pc = [n \in Uploads |-> "new"]
    /\ claimed = [n \in Uploads |-> None] /\ content = [n \in Uploads |-> None]
    /\ parts = {} /\ stored = [n \in Uploads |-> None] /\ undeleted = {}
    /\ faults = 0

\* What the server does without waiting for the client.
HandlerStep(n) == Begin(n) \/ Acquire(n) \/ Lookup(n) \/ Promote(n) \/ Insert(n)

ClientStep(n) ==
    \/ \E d \in Digests \cup {None} : Arrive(n, d)
    \/ \E named \in BOOLEAN, c \in Contents \cup {None} : BodyEnds(n, named, c)
    \/ Drop(n)

Next ==
    \/ \E n \in Uploads : HandlerStep(n) \/ ClientStep(n) \/ Fails(n)
    \/ \E d \in Digests, status \in {"absent", "pending", "stored"} : OtherEndpoints(d, status)

Spec == Init /\ [][Next]_vars

\* tokio polls every handler that can go on, and so does the semaphore's queue.
FairSpec == Spec /\ \A n \in Uploads : WF_vars(HandlerStep(n))

-----------------------------------------------------------------------------
\* Every variable has its type; the queue holds the waiting uploads, each once.
TypeOK ==
    /\ artifacts \in [Digests -> Row]
    /\ pc \in [Uploads -> {"new", "queued"} \cup Working \cup Ended]
    /\ claimed \in [Uploads -> Digests \cup {None}]
    /\ content \in [Uploads -> Contents \cup {None}]
    /\ parts \subseteq Uploads /\ stored \in [Uploads -> Contents \cup {None}]
    /\ undeleted \subseteq Uploads /\ faults \in 0..MaxFaults
    /\ queue \in Seq({n \in Uploads : pc[n] = "queued"})
    /\ \A n \in Uploads : pc[n] = "queued" => \E i \in DOMAIN queue : queue[i] = n
    /\ \A i, j \in DOMAIN queue : queue[i] = queue[j] => i = j

\* The file behind a row of this endpoint, and behind the URL of a 200 answer that
\* is not a duplicate, is complete and stays so, whatever uploads of the same
\* digest, cut-off bodies, failing copies and dropped handlers do around it.
StoredFileComplete ==
    /\ \A d \in Digests : artifacts[d].by # None => stored[artifacts[d].by] = d
    /\ \A n \in Uploads : pc[n] = "created" => stored[n] = claimed[n]

\* Files that no handler owns any more come from an error, a removal that failed or
\* a client that went away: other refused and duplicate uploads leave nothing
\* behind, and at most Permits temporary files belong to uploads in progress.
FilesAccounted ==
    /\ \A n \in parts \ undeleted : pc[n] \in (Working \ {"insert"}) \cup {"failed", "dropped"}
    /\ \A n \in Uploads \ undeleted :
         stored[n] # None => pc[n] \in {"insert", "created", "failed", "dropped"}
    /\ Cardinality({n \in parts : pc[n] \in Working}) <= Permits

\* An upload that waits for a permit gets it and is answered, if no client that
\* holds one stalls for ever: nothing else keeps a permit.  (The code has no
\* timeout on a body, so without the premise this does not hold.)
WaitingUploadsServed ==
    (\A m \in Uploads : []<>(pc[m] # "body"))
      => \A n \in Uploads : pc[n] = "queued" ~> pc[n] \in Ended
===============================================================================
