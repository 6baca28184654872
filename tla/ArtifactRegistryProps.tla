------------------------- MODULE ArtifactRegistryProps ------------------------
(***************************************************************************)
(* What the registry of ArtifactRegistry must, and must not, do.           *)
(***************************************************************************)
EXTENDS ArtifactRegistry

\* A row is stored or pending exactly when it has an id; ids, and the
\* idempotency keys clients rely on, name one row; a storage key names the
\* row's own digest, and only rows of the deprecated upload have none; events
\* refer to rows that exist.
RowsWellFormed ==
    /\ \A d \in Digests :
         /\ artifacts[d].status = "absent" <=> artifacts[d].id = 0
         /\ artifacts[d].id <= rowCount
         /\ artifacts[d].status # "absent" => artifacts[d].key \in (Apps \X {d}) \cup {None}
         /\ artifacts[d].key = None /\ artifacts[d].status # "absent" =>
              artifacts[d].status = "stored" /\ \E c \in Legacy : c.digest = d
    /\ \A d, e \in Digests : d # e /\ artifacts[d].status # "absent" =>
         /\ artifacts[d].id # artifacts[e].id
         /\ artifacts[d].idem = None \/ artifacts[d].idem # artifacts[e].idem
    /\ \A e \in events : \E d \in Digests :
         artifacts[d].status # "absent" /\ artifacts[d].id = e[1]

\* Codes that tell a client its digest is stored.
DurableCodes == {"stored", "duplicate", "exists"}
StoredSteps  == {"event", "retain", "log", "purge"}

\* enforce_quota reads a count and the row is stored later, so completions
\* running at once can exceed the quota, but those that did read the count never
\* by more than the other connections of the pool, whatever else stores rows of
\* the application meanwhile: a handler keeps its connection from the count to the
\* write.  Not held back by any count, and not bounded, are the artifacts in
\* `uncounted': those of POST /artifacts, of completions whose COUNT failed, and
\* of completions whose application was not found, which it may adopt later.
QuotaOvershootBound ==
    MaxCount > 0 => \A a \in Apps :
        Cardinality(StoredOf(a) \ uncounted) <= MaxCount + (PoolSize - 1)

\* Without retention, nobody loses an artifact they were told is stored,
\* whatever the pending GC and concurrent presigns and multipart inits do.
AnswerDurable ==
    Retain = 0 => \A r \in Reqs :
        answer[r].code \in DurableCodes => artifacts[answer[r].digest].status = "stored"

\* Without retention, a client told that its completion with a key is stored can
\* count on the key: the row has it, whichever completions of the digest raced,
\* and nobody is told that another digest is stored with it.  (As long as no
\* digest is completed with two keys: the row keeps the first.)
KeyHonoured ==
    Retain = 0 => \A r, q \in Reqs :
        answer[r].code = "stored" /\ answer[r].idem # None =>
          /\ artifacts[answer[r].digest].idem = answer[r].idem
          /\ answer[q].code = "stored" /\ answer[q].idem = answer[r].idem
               => answer[q].digest = answer[r].digest

\* A completion is refused for its idempotency key only if some client sends the
\* key with another digest, or the digest with another key: one that repeats its
\* completion, while the first is still under way perhaps, after a disconnect or
\* after the GC took the row, is never told that it conflicts with itself.
ConflictsFounded ==
    \A r \in Reqs :
        answer[r].code = "conflict" /\ answer[r].idem # None => \E c \in Calls :
          \/ c.idem = answer[r].idem /\ c.digest # answer[r].digest
          \/ c.digest = answer[r].digest /\ c.idem \notin {None, answer[r].idem}

\* While a row exists it never returns from stored to pending and never
\* loses or changes the idempotency key it was completed with.
RowMonotonic ==
    [][\A d \in Digests :
         artifacts[d].status # "absent" /\ artifacts'[d].id = artifacts[d].id =>
           /\ artifacts[d].status = "stored" => artifacts'[d].status = "stored"
           /\ artifacts[d].idem # None => artifacts'[d].idem = artifacts[d].idem]_vars

\* A stored row is deleted only when the newest Retain stored rows of its
\* application survive the deletion, although the surplus was selected two
\* statements earlier.  (As long as no two applications complete one digest:
\* the second to do so takes the row from the first.)
RetentionKeepsNewest ==
    [][\A d \in Digests :
         artifacts[d].status = "stored" /\ artifacts'[d].id # artifacts[d].id =>
           /\ Retain > 0
           /\ LET a == artifacts[d].app IN
              Cardinality({n \in Newer(d, a) : artifacts'[n] = artifacts[n]}) >= Retain]_vars

\* An event is of a stored row: it is written after the row, by its id, and goes
\* with it (ON DELETE CASCADE).
EventsOfStored ==
    \A e \in events : \E d \in Digests :
        artifacts[d].id = e[1] /\ artifacts[d].status = "stored"

\* A row marked retention_delete, whose handler may be cut off before it deletes
\* the row, has Retain newer rows of its application for as long as it exists,
\* whatever other handlers select and delete meanwhile: it can be collected at
\* any later time.  (As long as no two applications complete one digest.)
MarkedAreSurplus ==
    /\ EventsOfStored
    /\ \A e \in events, d \in Digests :
         e[2] = "retention_delete" /\ artifacts[d].id = e[1]
           => Cardinality(Newer(d, artifacts[d].app)) >= Retain

\* The storage key and the multipart upload of a pending row belong together:
\* presign-part signs with the one, complete sends both to S3.
UploadMatchesKey ==
    \A d \in Digests :
        artifacts[d].status = "pending" /\ artifacts[d].upload # None
          => uploads[artifacts[d].upload].key = artifacts[d].key

\* No handler waits for something only another waiting handler can release:
\* every request in flight can execute its next statement.
NoHandlerStuck == \A r \in Reqs : pc[r] # "done" => ENABLED HandlerStep(r)

\* The most statements that the request in slot r has still to run.
StatementsFrom ==
    [done |-> 0, purge |-> 1, log |-> 2, retain |-> 3, event |-> 4, store |-> 5, bytes |-> 6,
     count |-> 7, hash |-> 8, idem |-> 8, size |-> 9, backfill |-> 10, rowkey |-> 11, row |-> 12,
     app |-> 13, assemble |-> 14, mrow |-> 15, upsert |-> 1, create |-> 2, istatus |-> 3,
     insert |-> 1, link |-> 2, lookup |-> 3]

StatementsLeft(r) ==
    StatementsFrom[pc[r]] + (IF pc[r] = "log" THEN Cardinality(Unlogged(r))
                             ELSE IF pc[r] \in {"purge", "done"} THEN 0 ELSE Cardinality(Digests))

\* Every statement brings a request nearer to its answer, and no other request, nor
\* the GC, sets it back: a handler never starts again, and the surplus that
\* retention logs, one row at a time, only shrinks while others insert, store, log
\* and delete.  So a request ends after at most 15 + Cardinality(Digests) statements.
RequestsAdvance ==
    [][\A r \in Reqs : pc[r] # "done" =>
         \/ StatementsLeft(r)' < StatementsLeft(r)
         \/ StatementsLeft(r)' = StatementsLeft(r) /\ ~HandlerStep(r)]_vars

\* Every request is answered.
RequestsAnswered == \A r \in Reqs : pc[r] # "done" ~> pc[r] = "done"

\* Every pending row is completed or collected, whoever created it.
PendingResolved ==
    \A i \in RowIds :
        (\E d \in Digests : artifacts[d].id = i /\ artifacts[d].status = "pending")
        ~> ~(\E d \in Digests : artifacts[d].id = i /\ artifacts[d].status = "pending")

-----------------------------------------------------------------------------
\* The registry implements the promise of ArtifactLifecycle.
ClientOf(r) ==
    CASE pc[r] = "done" /\ answer[r].code \in DurableCodes ->
           [at |-> "acknowledged", digest |-> answer[r].digest]
      [] pc[r] = "done" /\ answer[r].code \notin DurableCodes ->
           [at |-> "idle", digest |-> None]
      [] pc[r] \in StoredSteps -> [at |-> "witnessed", digest |-> call[r].digest]
      [] OTHER -> [at |-> "working", digest |-> call[r].digest]

Lifecycle == INSTANCE ArtifactLifecycle WITH
    Slots     <- Reqs,
    Retention <- Retain > 0,
    status    <- [d \in Digests |-> artifacts[d].status],
    client    <- [r \in Reqs |-> ClientOf(r)]

\* Clients are told "stored" only about a digest that was stored at some moment
\* of their request, and artifacts move only absent-pending-stored-absent.
ImplementsLifecycle == Lifecycle!Spec
===============================================================================
