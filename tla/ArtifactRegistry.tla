--------------------------- MODULE ArtifactRegistry ---------------------------
(***************************************************************************)
(* The artifact registry of the control plane: the presign, complete and   *)
(* multipart handlers of handlers/uploads.rs, the pending GC loop and the  *)
(* retention GC, over the `artifacts' table, the S3 bucket and the shared  *)
(* PostgreSQL connection pool.                                             *)
(*                                                                         *)
(* A handler is a process that takes one step per SQL statement or S3      *)
(* call: the handlers open no transaction, so every other request and the  *)
(* GC may run between any two of its statements.  A statement may fail on  *)
(* a connection that is held; most handlers then go on as if it had        *)
(* returned nothing.                                                       *)
(***************************************************************************)
EXTENDS Integers, FiniteSets

CONSTANTS
    Digests,         \* artifact digests
    Apps,            \* application names that requests may carry
    InitApps,        \* those already registered in the initial state
    IdemKeys,        \* idempotency keys
    Reqs,            \* request slots: what may be in flight at once
    Calls,           \* the request bodies that clients send; "signed" ones carry a
                     \* signature made with an active key of the application
    Contents,        \* byte contents of objects; a digest names the content it hashes
    SizeOf,          \* content -> its size
    Puts,            \* <<storage key, content>>: what clients write where
    None,            \* SQL NULL / Option::None
    PoolSize,        \* max_connections of the pool (5 in db.rs)
    MaxCount,        \* AETHER_MAX_ARTIFACTS_PER_APP, 0 when unset
    MaxBytes,        \* AETHER_MAX_TOTAL_BYTES_PER_APP, 0 when unset
    MaxObject,       \* AETHER_MAX_ARTIFACT_SIZE_BYTES, 0 when unset
    Retain,          \* AETHER_RETAIN_LATEST_PER_APP, 0 when unset
    RequirePresign,  \* AETHER_REQUIRE_PRESIGN
    VerifyHash,      \* AETHER_VERIFY_REMOTE_HASH
    Uploads,         \* multipart upload ids that S3 may assign
    Failing,         \* the steps whose SQL statement may fail in this instance
    Legacy,          \* uploads that clients make with POST /artifacts
    MaxRows          \* bound: rows ever inserted

StorageKeys == Apps \X Digests
RowIds      == 1..MaxRows
Statuses    == {"absent", "pending", "stored"}
Kinds       == {"presign", "complete", "init", "multipart"}
LegacyCall  == [app : Apps, digest : Digests, size : Nat, signed : BOOLEAN]

Call == [kind : Kinds, app : Apps, digest : Digests, size : Nat,
         idem : IdemKeys \cup {None}, signed : BOOLEAN, upload : Uploads \cup {None}]

ASSUME ConstantsAssumption ==
    /\ IsFiniteSet(Digests) /\ IsFiniteSet(Reqs)
    /\ InitApps \subseteq Apps
    /\ Calls \subseteq Call
    /\ \A c \in Calls : /\ c.kind = "multipart" => c.upload \in Uploads
                        /\ c.kind \in {"presign", "init"} => c.idem = None
    /\ Digests \subseteq Contents
    /\ SizeOf \in [Contents -> Nat]
    /\ Puts \subseteq StorageKeys \X Contents
    /\ None \notin Apps \cup IdemKeys \cup StorageKeys \cup Contents \cup Uploads
    /\ PoolSize \in Nat \ {0}
    /\ MaxCount \in Nat /\ MaxBytes \in Nat /\ MaxObject \in Nat /\ Retain \in Nat
    /\ RequirePresign \in BOOLEAN /\ VerifyHash \in BOOLEAN
    /\ MaxRows \in Nat
    /\ Legacy \subseteq LegacyCall

VARIABLES
    registered,  \* the applications table: names with a row
    artifacts,   \* the artifacts table, by digest (digest is UNIQUE)
    rowCount,    \* rows inserted so far; a row's id is also its created_at rank
    events,      \* the artifact_events table: <<artifact id, event type>>
    uncounted,   \* history: digests stored past the count quota by no count at all
    objects,     \* bucket: storage key -> content, None when there is no object
    issued,      \* storage keys for which a presigned PUT URL was handed out
    uploads,     \* bucket: multipart upload id -> its state
    partUrls,    \* multipart uploads for which a part URL was handed out
    call,        \* request slot -> body of the request in flight
    pc,          \* request slot -> its next statement
    seen,        \* request slot -> what its handler has read so far
    answer       \* request slot -> the answer to its last request

db      == <<registered, artifacts, rowCount, events, uncounted>>
bucket  == <<objects, issued, uploads, partUrls>>
handler == <<call, pc, seen, answer>>
vars    == <<db, bucket, handler>>

Row == [id : Nat, app : Apps \cup {None}, size : Nat, verified : BOOLEAN,
        key : StorageKeys \cup {None}, status : Statuses,
        idem : IdemKeys \cup {None}, upload : Uploads \cup {None}]

NoRow == [id |-> 0, app |-> None, size |-> 0, verified |-> FALSE, key |-> None,
          status |-> "absent", idem |-> None, upload |-> None]

Upload == [key : StorageKeys \cup {None}, content : Contents \cup {None},
           state : {"unused", "open", "assembled"}]

\* What a handler keeps in local variables across its statements.
Seen == [linked : BOOLEAN, row : Nat, key : StorageKeys \cup {None},
         upload : Uploads \cup {None}, verified : BOOLEAN, counted : BOOLEAN,
         stale : SUBSET Nat]

Fresh == [linked |-> FALSE, row |-> 0, key |-> None, upload |-> None,
          verified |-> FALSE, counted |-> FALSE, stale |-> {}]

\* The statements at which a handler can be interrupted.
PresignSteps == {"lookup", "link", "insert"}
HeldSteps    == {"app", "row", "rowkey", "backfill", "size", "hash", "idem",
                 "count", "bytes", "store", "event", "retain", "log", "purge",
                 "mrow", "assemble", "istatus", "create", "upsert"}
Steps == PresignSteps \cup HeldSteps \cup {"done"}

Codes == {"none", "url", "exists", "stored", "duplicate", "upload", "conflict",
          "quota", "rejected", "error"}

Answer == [code : Codes, digest : Digests \cup {None}, idem : IdemKeys \cup {None}]

NoAnswer == [code |-> "none", digest |-> None, idem |-> None]

NoCall == [kind |-> "none", app |-> None, digest |-> None, size |-> 0,
           idem |-> None, signed |-> FALSE, upload |-> None]

-----------------------------------------------------------------------------
(***************************************************************************)
(* The connection pool.  Complete and multipart handlers acquire one       *)
(* connection and keep it until they answer; presign and the GC borrow one *)
(* for a single statement.                                                 *)
(***************************************************************************)
Holders   == {r \in Reqs : pc[r] \in HeldSteps}
Busy      == {r \in Reqs : pc[r] # "done"}
ConnFree  == Cardinality(Holders) < PoolSize

OwnKey(c)    == <<c.app, c.digest>>
RowOf(c)     == artifacts[c.digest]
AppOf(r)     == IF seen[r].linked THEN call[r].app ELSE None
StoredOf(a)  == {d \in Digests : artifacts[d].status = "stored" /\ artifacts[d].app = a}
IdemTakenNever(k, d) == FALSE  \* faulty: no UNIQUE index on idempotency_key
IdemTakenAnywhere(k, d) ==     \* faulty: a retry finds its own key taken
    k # None /\ \E e \in Digests : artifacts[e].idem = k
IdemTaken(k, d) == k # None /\ \E e \in Digests \ {d} : artifacts[e].idem = k

IsStoredAny(row) == row.status # "absent"  \* faulty: any row is a duplicate
IsStored(row)    == row.status = "stored"

Newer(d, a) == {n \in StoredOf(a) : artifacts[n].id > artifacts[d].id}

\* ORDER BY created_at DESC OFFSET retain: stored rows with Retain newer ones.
StaleOfOneTooMany(a) ==  \* faulty: skips one row too few
    {artifacts[d].id : d \in {e \in StoredOf(a) : Cardinality(Newer(e, a)) + 1 >= Retain}}

StaleOfNewest(a) ==  \* faulty: ORDER BY created_at ASC
    {artifacts[d].id : d \in {e \in StoredOf(a) :
        Cardinality({n \in StoredOf(a) : artifacts[n].id < artifacts[e].id}) >= Retain}}

StaleOf(a) ==
    {artifacts[d].id : d \in {e \in StoredOf(a) : Cardinality(Newer(e, a)) >= Retain}}

\* r is about to run a statement on the connection it holds (pg(&mut conn)).
QueryOnPool(r, step) == pc[r] = step /\ ConnFree  \* faulty: on &state.db
Query(r, step)       == pc[r] = step

\* The statement fails.  One that took effect, its answer lost, is one that did
\* not fail, followed by Abort.
Fails(r) == pc[r] \in Failing

\* What a SELECT whose errors are dropped says: the truth, or nothing.
Learned(truth, failing) == {truth} \cup IF failing THEN {FALSE} ELSE {}

Goto(r, step) == pc' = [pc EXCEPT ![r] = step]

Reply(r, code) ==
    /\ pc' = [pc EXCEPT ![r] = "done"]
    /\ answer' = [answer EXCEPT ![r] = [code |-> code, digest |-> call[r].digest,
                                        idem |-> call[r].idem]]
    /\ call' = [call EXCEPT ![r] = NoCall]
    /\ seen' = [seen EXCEPT ![r] = Fresh]

\* Read something into the handler's locals and go on.
Note(r, locals, step) ==
    /\ seen' = [seen EXCEPT ![r] = locals]
    /\ Goto(r, step)
    /\ UNCHANGED <<call, answer>>

Continue(r, step) == Note(r, seen[r], step)

-----------------------------------------------------------------------------
(***************************************************************************)
(* A request arrives.  Validation happens before anything else; then every *)
(* handler but presign acquires its connection, or gives up after the      *)
(* acquire timeout.  MaxRows is enforced here, where no handler has begun. *)
(***************************************************************************)
FirstStep(kind) == CASE kind = "presign"   -> "lookup"
                     [] kind = "complete"  -> "app"
                     [] kind = "init"      -> "istatus"
                     [] kind = "multipart" -> "mrow"

WithinBounds == rowCount + Cardinality(Busy) < MaxRows

\* A client completes only uploads it was given the id of.
Known(c) == c.kind = "multipart" => uploads[c.upload].state # "unused"

TooLarge(c) == c.kind = "complete" /\ MaxObject > 0 /\ c.size > MaxObject

Receive(r, c) ==
    /\ pc[r] = "done"
    /\ WithinBounds /\ Known(c)
    /\ ~TooLarge(c)
    /\ c.kind # "presign" => ConnFree
    /\ call' = [call EXCEPT ![r] = c]
    /\ Goto(r, FirstStep(c.kind))
    /\ answer' = [answer EXCEPT ![r] = NoAnswer]
    /\ UNCHANGED <<seen, db, bucket>>

\* Validation failed (400), or no connection within the acquire timeout (500).
Refuse(r, c) ==
    /\ pc[r] = "done"
    /\ \/ TooLarge(c)
       \/ c.kind # "presign" /\ ~ConnFree
    /\ answer' = [answer EXCEPT ![r] = [code |-> IF TooLarge(c) THEN "rejected" ELSE "error",
                                        digest |-> c.digest, idem |-> c.idem]]
    /\ UNCHANGED <<call, pc, seen, db, bucket>>

\* The client disconnects (hyper drops the handler's future at an await) or
\* the process dies: committed statements stay, the connection is returned.
Abort(r) ==
    /\ pc[r] # "done"
    /\ pc' = [pc EXCEPT ![r] = "done"]
    /\ call' = [call EXCEPT ![r] = NoCall]
    /\ seen' = [seen EXCEPT ![r] = Fresh]
    /\ UNCHANGED <<answer, db, bucket>>

-----------------------------------------------------------------------------
(***************************************************************************)
(* POST /artifacts/presign.  Errors of its statements are swallowed: when  *)
(* they fail, or the pool is exhausted, the lookup counts as "no row", the *)
(* application as unknown, and the insert is skipped, but a URL is handed  *)
(* out all the same.                                                       *)
(***************************************************************************)
\* presign_artifact_put signs a PUT of one key, which stays usable.
IssuePut(k) == issued' = issued \cup {k}

PresignLookup(r) ==
    /\ pc[r] = "lookup"
    /\ LET row == RowOf(call[r]) IN
       \/ /\ ConnFree /\ IsStored(row)
          /\ Reply(r, "exists")
          /\ UNCHANGED issued
       \/ /\ ConnFree /\ row.status = "pending"
          /\ Reply(r, "url")
          /\ IssuePut(row.key)
       \/ /\ ~ConnFree \/ Fails(r) \/ row.status = "absent"
          /\ Continue(r, "link")
          /\ UNCHANGED issued
    /\ UNCHANGED <<db, objects, uploads, partUrls>>

PresignLink(r) ==
    /\ pc[r] = "link"
    /\ \E linked \in Learned(ConnFree /\ call[r].app \in registered, Fails(r)) :
         Note(r, [seen[r] EXCEPT !.linked = linked], "insert")
    /\ UNCHANGED <<db, bucket>>

InsertRow(d, row) ==
    /\ rowCount' = rowCount + 1
    /\ artifacts' = [artifacts EXCEPT ![d] = [row EXCEPT !.id = rowCount + 1]]

PendingRowNoKey(app, key, upload) ==  \* faulty: storage_key left NULL
    [NoRow EXCEPT !.app = app, !.upload = upload, !.status = "pending"]

PendingRow(app, key, upload) ==
    [NoRow EXCEPT !.app = app, !.key = key, !.upload = upload, !.status = "pending"]

\* INSERT ... ON CONFLICT (digest) DO NOTHING
PresignInsert(r) ==
    /\ pc[r] = "insert"
    /\ \/ /\ ConnFree /\ RowOf(call[r]).status = "absent"
          /\ InsertRow(call[r].digest, PendingRow(AppOf(r), OwnKey(call[r]), None))
       \/ /\ ~ConnFree \/ Fails(r) \/ RowOf(call[r]).status # "absent"
          /\ UNCHANGED <<artifacts, rowCount>>
    /\ IssuePut(OwnKey(call[r]))
    /\ Reply(r, "url")
    /\ UNCHANGED <<registered, events, uncounted, objects, uploads, partUrls>>

-----------------------------------------------------------------------------
(***************************************************************************)
(* POST /artifacts/complete.                                               *)
(***************************************************************************)
QuotaOn == MaxCount > 0 \/ MaxBytes > 0

AfterChecks(linked) == IF linked /\ QuotaOn THEN "count" ELSE "store"

\* SELECT id FROM applications WHERE name = req.app_name
LinkApp(r) ==
    /\ Query(r, "app")
    /\ \E linked \in Learned(call[r].app \in registered, Fails(r)) :
         Note(r, [seen[r] EXCEPT !.linked = linked],
              IF call[r].kind = "multipart" THEN AfterChecks(linked) ELSE "row")
    /\ UNCHANGED <<db, bucket>>

\* A failing SELECT finds no row.
CompleteRow(r) ==
    /\ Query(r, "row")
    /\ LET c == call[r]  row == RowOf(c) IN
       \/ /\ row.status = "absent" \/ Fails(r)
          /\ RequirePresign /\ Reply(r, "rejected")
       \/ /\ row.status = "absent" \/ Fails(r)
          /\ ~RequirePresign /\ Continue(r, "idem")
       \/ IsStored(row) /\ Reply(r, "duplicate")
       \/ /\ row.status = "pending"
          /\ Note(r, [seen[r] EXCEPT !.row = row.id, !.key = row.key],
                  IF c.idem # None THEN "rowkey" ELSE "backfill")
    /\ UNCHANGED <<db, bucket>>

\* The pending row, if it still exists, may already carry another key.
CheckRowKey(r) ==
    /\ Query(r, "rowkey")
    /\ LET row == RowOf(call[r])
           other == row.id = seen[r].row /\ row.idem \notin {None, call[r].idem} IN
       \/ other /\ Reply(r, "conflict")
       \/ (~other \/ Fails(r)) /\ Continue(r, "backfill")
    /\ UNCHANGED <<db, bucket>>

\* UPDATE artifacts SET app_id = $1 WHERE id = $2 AND app_id IS NULL
Backfill(r) ==
    /\ Query(r, "backfill")
    /\ LET open == seen[r].linked /\ RowOf(call[r]).id = seen[r].row
                     /\ RowOf(call[r]).app = None IN
       \/ open /\ artifacts' = [artifacts EXCEPT ![call[r].digest].app = call[r].app]
       \/ (~open \/ Fails(r)) /\ UNCHANGED artifacts
    /\ Continue(r, "size")
    /\ UNCHANGED <<registered, rowCount, events, uncounted, bucket>>

\* HEAD of an object: its size, or nothing when there is none or S3 fails.
HeadSize(k) == {None} \cup {SizeOf[x] : x \in {objects[k]} \ {None}}

\* The hash of an object that is small enough and can be fetched; hashes are
\* represented by the contents they are of.
RemoteHash(k) == {None, objects[k]}

\* HEAD on the key the row had when it was read; no answer is no mismatch.  The
\* digest in the object's metadata cannot differ: it is signed into the PUT URL
\* of a key that names the digest.
VerifySize(r) ==
    /\ pc[r] = "size"
    /\ \E size \in HeadSize(seen[r].key) :
         IF size \notin {None, call[r].size} THEN Reply(r, "rejected")
         ELSE Continue(r, IF VerifyHash THEN "hash" ELSE AfterChecks(seen[r].linked))
    /\ UNCHANGED <<db, bucket>>

VerifyContent(r) ==
    /\ pc[r] = "hash"
    /\ \E hash \in RemoteHash(seen[r].key) :
         IF hash \notin {None, call[r].digest} THEN Reply(r, "rejected")
         ELSE Continue(r, AfterChecks(seen[r].linked))
    /\ UNCHANGED <<db, bucket>>

\* The branch without a row.  The signature is verified if the application,
\* looked up once more, has the key it was made with; then a key that maps to
\* another digest is a conflict.  Failing, the one verifies nothing and the other
\* finds no digest.
CheckKeyFree(r) ==
    /\ Query(r, "idem")
    /\ LET c == call[r] IN
       \/ IdemTaken(c.idem, c.digest) /\ Reply(r, "conflict")
       \/ /\ ~IdemTaken(c.idem, c.digest) \/ Fails(r)
          /\ \E verified \in Learned(c.signed /\ c.app \in registered, Fails(r)) :
               Note(r, [seen[r] EXCEPT !.verified = verified], AfterChecks(seen[r].linked))
    /\ UNCHANGED <<db, bucket>>

-----------------------------------------------------------------------------
(***************************************************************************)
(* enforce_quota: two SELECTs, then the decision.  A count over the limit  *)
(* decides whatever the second SELECT returns; one that fails is a count   *)
(* of 0.                                                                   *)
(***************************************************************************)
CountExceededLate(a) == MaxCount > 0 /\ Cardinality(StoredOf(a)) > MaxCount  \* faulty: >
CountExceeded(a)     == MaxCount > 0 /\ Cardinality(StoredOf(a)) >= MaxCount

QuotaCount(r) ==
    /\ Query(r, "count")
    /\ \/ CountExceeded(call[r].app) /\ Reply(r, "quota")
       \/ /\ ~CountExceeded(call[r].app)
          /\ Note(r, [seen[r] EXCEPT !.counted = TRUE], "bytes")
       \/ Fails(r) /\ Continue(r, "bytes")
    /\ UNCHANGED <<db, bucket>>

\* SUM over a BIGINT column is NUMERIC in PostgreSQL, which sqlx refuses to
\* decode into the i64 of query_scalar; unwrap_or(0) makes it zero.
UsedBytes(a) == 0

QuotaBytes(r) ==
    /\ Query(r, "bytes")
    /\ IF MaxBytes > 0 /\ UsedBytes(call[r].app) + call[r].size > MaxBytes
       THEN Reply(r, "quota")
       ELSE Continue(r, "store")
    /\ UNCHANGED <<db, bucket>>

-----------------------------------------------------------------------------
(***************************************************************************)
(* Storing the row.                                                        *)
(***************************************************************************)
\* COALESCE(idempotency_key, $7)
CoalesceNew(old, new) == IF new # None THEN new ELSE old  \* faulty: arguments swapped
CoalesceOld(old, new) == old  \* faulty: the key of a presigned row is never set
Coalesce(old, new)    == IF old # None THEN old ELSE new

\* History: who stored the row of d asked for the count, or did not.
Account(d, counted) ==
    uncounted' = IF counted \/ MaxCount = 0 THEN uncounted \ {d} ELSE uncounted \cup {d}

\* No row has the id the handler read: the pending GC was faster.
RowGone(r) == RowOf(call[r]).id # seen[r].row

\* UPDATE ... WHERE id = $6 RETURNING ..., whatever the status is by now.  No
\* row is RowNotFound; a key another row holds violates its UNIQUE index.
FinalizePending(r) ==
    /\ Query(r, "store") /\ call[r].kind = "complete" /\ seen[r].row # 0
    /\ LET c == call[r]  row == RowOf(c)  idem == Coalesce(row.idem, c.idem) IN
       \/ (RowGone(r) \/ Fails(r)) /\ Reply(r, "error") /\ UNCHANGED <<artifacts, uncounted>>
       \/ /\ ~RowGone(r) /\ IdemTaken(idem, c.digest)
          /\ Reply(r, "conflict") /\ UNCHANGED <<artifacts, uncounted>>
       \/ /\ ~RowGone(r) /\ ~IdemTaken(idem, c.digest)
          /\ artifacts' = [artifacts EXCEPT ![c.digest] =
                [row EXCEPT !.app = AppOf(r), !.size = c.size, !.verified = FALSE,
                            !.key = OwnKey(c), !.status = "stored", !.idem = idem]]
          /\ Account(c.digest, seen[r].counted)
          /\ Continue(r, "event")
    /\ UNCHANGED <<registered, rowCount, events, bucket>>

RetryTakenDigest(r)  == Continue(r, "row")  \* faulty: starts again, for ever perhaps
RefuseTakenDigest(r) == Reply(r, "error")

\* Plain INSERT as stored: the digest's UNIQUE index is checked first (500),
\* then the idempotency key's (409).
InsertStored(r) ==
    /\ Query(r, "store") /\ call[r].kind = "complete" /\ seen[r].row = 0
    /\ LET c == call[r]  row == RowOf(c) IN
       \/ /\ row.status # "absent" \/ Fails(r)
          /\ RefuseTakenDigest(r) /\ UNCHANGED <<artifacts, rowCount, uncounted>>
       \/ /\ row.status = "absent" /\ IdemTaken(c.idem, c.digest)
          /\ Reply(r, "conflict") /\ UNCHANGED <<artifacts, rowCount, uncounted>>
       \/ /\ row.status = "absent" /\ ~IdemTaken(c.idem, c.digest)
          /\ InsertRow(c.digest, [NoRow EXCEPT !.app = AppOf(r), !.size = c.size,
                 !.verified = seen[r].verified, !.key = OwnKey(c),
                 !.status = "stored", !.idem = c.idem])
          /\ Account(c.digest, seen[r].counted)
          /\ Note(r, [seen[r] EXCEPT !.row = rowCount + 1], "event")
    /\ UNCHANGED <<registered, events, bucket>>

\* As FinalizePending, but the row keeps its storage key and a violated
\* UNIQUE index on the idempotency key is answered 500.
FinalizeMultipart(r) ==
    /\ Query(r, "store") /\ call[r].kind = "multipart"
    /\ LET c == call[r]  row == RowOf(c)  idem == Coalesce(row.idem, c.idem) IN
       \/ /\ RowGone(r) \/ IdemTaken(idem, c.digest) \/ Fails(r)
          /\ Reply(r, "error") /\ UNCHANGED <<artifacts, uncounted>>
       \/ /\ ~RowGone(r) /\ ~IdemTaken(idem, c.digest)
          /\ artifacts' = [artifacts EXCEPT ![c.digest] =
                [row EXCEPT !.app = AppOf(r), !.size = c.size, !.verified = FALSE,
                            !.status = "stored", !.idem = idem]]
          /\ Account(c.digest, seen[r].counted)
          /\ Continue(r, "event")
    /\ UNCHANGED <<registered, rowCount, events, bucket>>

\* Best effort: the foreign key refuses an event of a row that is gone.
InsertEvent(r) ==
    /\ Query(r, "event")
    /\ \/ RowOf(call[r]).id = seen[r].row /\ events' = events \cup {<<seen[r].row, "stored">>}
       \/ (RowOf(call[r]).id # seen[r].row \/ Fails(r)) /\ UNCHANGED events
    /\ IF seen[r].linked /\ Retain > 0 THEN Continue(r, "retain") ELSE Reply(r, "stored")
    /\ UNCHANGED <<registered, artifacts, rowCount, uncounted, bucket>>

-----------------------------------------------------------------------------
(***************************************************************************)
(* retention_gc_if_needed: SELECT the surplus, log an event for each row,  *)
(* then DELETE by id.  The events go with the rows (ON DELETE CASCADE).    *)
(***************************************************************************)
SelectStale(r) ==
    /\ Query(r, "retain")
    /\ LET stale == StaleOf(call[r].app) IN
       \/ (stale = {} \/ Fails(r)) /\ Reply(r, "stored")
       \/ stale # {} /\ Note(r, [seen[r] EXCEPT !.stale = stale], "log")
    /\ UNCHANGED <<db, bucket>>

Delete(gone) ==
    /\ artifacts' = [d \in Digests |-> IF artifacts[d].id \in gone THEN NoRow ELSE artifacts[d]]
    /\ events' = {e \in events : e[1] \notin gone}

\* One INSERT per row that is still there; the foreign key refuses the others.
\* (The order of the rows being free, those whose INSERT fails come last.)
RemovalOf(d) == <<artifacts[d].id, "retention_delete">>
Unlogged(r)  == {d \in Digests : artifacts[d].id \in seen[r].stale /\ RemovalOf(d) \notin events}

LogRetention(r) ==
    /\ Query(r, "log")
    /\ \/ \E d \in Unlogged(r) : events' = events \cup {RemovalOf(d)} /\ Continue(r, "log")
       \/ (Unlogged(r) = {} \/ Fails(r)) /\ Continue(r, "purge") /\ UNCHANGED events
    /\ UNCHANGED <<registered, artifacts, rowCount, uncounted, bucket>>

PurgeStale(r) ==
    /\ Query(r, "purge")
    /\ Delete(seen[r].stale) \/ (Fails(r) /\ UNCHANGED <<artifacts, events>>)
    /\ Reply(r, "stored")
    /\ UNCHANGED <<registered, rowCount, uncounted, bucket>>

\* run_pending_gc: one DELETE of the pending rows created before the cutoff.
ExpiredStored(d, cutoff) ==  \* faulty: no status filter
    artifacts[d].status # "absent" /\ artifacts[d].id <= cutoff

ExpiredLinked(d, cutoff) ==  \* faulty: only rows linked to an application
    artifacts[d].status = "pending" /\ artifacts[d].id <= cutoff /\ artifacts[d].app # None

Expired(d, cutoff) == artifacts[d].status = "pending" /\ artifacts[d].id <= cutoff

PendingGC(cutoff) ==
    /\ ConnFree
    /\ LET gone == {artifacts[d].id : d \in {e \in Digests : Expired(e, cutoff)}} IN
       gone # {} /\ Delete(gone)
    /\ UNCHANGED <<registered, rowCount, uncounted, bucket, handler>>

-----------------------------------------------------------------------------
(***************************************************************************)
(* Multipart uploads.                                                      *)
(***************************************************************************)
InitStatus(r) ==
    /\ Query(r, "istatus")
    /\ \/ IsStored(RowOf(call[r])) /\ Reply(r, "conflict")
       \/ (~IsStored(RowOf(call[r])) \/ Fails(r)) /\ Continue(r, "create")
    /\ UNCHANGED <<db, bucket>>

\* CreateMultipartUpload, which S3 may refuse.
CreateUpload(r) ==
    /\ pc[r] = "create"
    /\ \/ \E u \in Uploads :
            /\ uploads[u].state = "unused"
            /\ uploads' = [uploads EXCEPT ![u] =
                  [key |-> OwnKey(call[r]), content |-> None, state |-> "open"]]
            /\ Note(r, [seen[r] EXCEPT !.upload = u], "upsert")
       \/ Reply(r, "error") /\ UNCHANGED uploads
    /\ UNCHANGED <<db, objects, issued, partUrls>>

ReinitNoKey(row, key, upload) == [row EXCEPT !.upload = upload]  \* faulty: old key kept
Reinit(row, key, upload)      == [row EXCEPT !.upload = upload, !.key = key]

\* INSERT ... ON CONFLICT (digest) DO UPDATE SET multipart_upload_id, storage_key;
\* the answer is the same if it fails.
UpsertUpload(r) ==
    /\ Query(r, "upsert")
    /\ LET c == call[r] IN
       \/ /\ RowOf(c).status = "absent"
          /\ InsertRow(c.digest, PendingRow(None, OwnKey(c), seen[r].upload))
       \/ /\ RowOf(c).status # "absent"
          /\ artifacts' = [artifacts EXCEPT ![c.digest] = Reinit(@, OwnKey(c), seen[r].upload)]
          /\ UNCHANGED rowCount
       \/ Fails(r) /\ UNCHANGED <<artifacts, rowCount>>
    /\ Reply(r, "upload")
    /\ UNCHANGED <<registered, events, uncounted, bucket>>

\* POST /artifacts/multipart/presign-part reads the row once and signs.
PresignPart(u) ==
    /\ ConnFree
    /\ u \notin partUrls
    /\ \E d \in Digests : artifacts[d].status = "pending" /\ artifacts[d].upload = u
    /\ partUrls' = partUrls \cup {u}
    /\ UNCHANGED <<db, objects, issued, uploads, handler>>

MultipartRow(r) ==
    /\ Query(r, "mrow")
    /\ LET c == call[r]  row == RowOf(c) IN
       \/ (row.status = "absent" \/ Fails(r)) /\ Reply(r, "rejected")
       \/ IsStored(row) /\ Reply(r, "duplicate")
       \/ row.status = "pending" /\ row.upload # c.upload /\ Reply(r, "rejected")
       \/ /\ row.status = "pending" /\ row.upload = c.upload
          /\ Note(r, [seen[r] EXCEPT !.row = row.id, !.key = row.key], "assemble")
    /\ UNCHANGED <<db, bucket>>

\* CompleteMultipartUpload: S3 assembles an open upload of that key once.  The
\* call may also fail, before or after S3 has assembled the object.
Assemble(r) ==
    /\ pc[r] = "assemble"
    /\ LET u == call[r].upload
           done == /\ uploads[u].state = "open" /\ uploads[u].key = seen[r].key
                   /\ uploads[u].content # None
                   /\ uploads' = [uploads EXCEPT ![u].state = "assembled"]
                   /\ objects' = [objects EXCEPT ![seen[r].key] = uploads[u].content] IN
       \/ done /\ Continue(r, "app")
       \/ (done \/ UNCHANGED <<uploads, objects>>) /\ Reply(r, "error")
    /\ UNCHANGED <<db, issued, partUrls>>

-----------------------------------------------------------------------------
(***************************************************************************)
(* The environment: clients using the URLs they were given, POST /apps and *)
(* the deprecated POST /artifacts.                                         *)
(***************************************************************************)
PutObject(k, content) ==
    /\ <<k, content>> \in Puts /\ k \in issued /\ objects[k] # content
    /\ objects' = [objects EXCEPT ![k] = content]
    /\ UNCHANGED <<db, issued, uploads, partUrls, handler>>

PutPart(u, content) ==
    /\ <<uploads[u].key, content>> \in Puts /\ u \in partUrls
    /\ uploads[u].state = "open" /\ uploads[u].content # content
    /\ uploads' = [uploads EXCEPT ![u].content = content]
    /\ UNCHANGED <<db, objects, issued, partUrls, handler>>

CreateApp(a) ==
    /\ a \notin registered
    /\ registered' = registered \cup {a}
    /\ UNCHANGED <<artifacts, rowCount, events, uncounted, bucket, handler>>

\* LegacyUpload has the steps of this handler; to the table it does one thing, the
\* INSERT of a row that is stored at once, without a storage key or a quota.
LegacyInsert(c) ==
    /\ ConnFree /\ WithinBounds
    /\ artifacts[c.digest].status = "absent"
    /\ \E linked   \in Learned(c.app \in registered, "app" \in Failing),
          verified \in Learned(c.signed /\ c.app \in registered, TRUE) :
         InsertRow(c.digest, [NoRow EXCEPT !.app = IF linked THEN c.app ELSE None,
                                 !.size = c.size, !.verified = verified, !.status = "stored"])
    /\ Account(c.digest, FALSE)
    /\ UNCHANGED <<registered, events, bucket, handler>>

-----------------------------------------------------------------------------
Init ==
    /\ registered = InitApps
    /\ artifacts = [d \in Digests |-> NoRow]
    /\ rowCount = 0
    /\ events = {}
    /\ uncounted = {}
    /\ objects = [k \in StorageKeys |-> None]
    /\ issued = {}
    /\ uploads = [u \in Uploads |-> [key |-> None, content |-> None, state |-> "unused"]]
    /\ partUrls = {}
    /\ call = [r \in Reqs |-> NoCall]
    /\ pc = [r \in Reqs |-> "done"]
    /\ seen = [r \in Reqs |-> Fresh]
    /\ answer = [r \in Reqs |-> NoAnswer]

PresignStep(r) == PresignLookup(r) \/ PresignLink(r) \/ PresignInsert(r)

CheckStep(r) ==
    \/ LinkApp(r) \/ CompleteRow(r) \/ CheckRowKey(r) \/ Backfill(r) \/ VerifySize(r)
    \/ VerifyContent(r) \/ CheckKeyFree(r) \/ QuotaCount(r) \/ QuotaBytes(r)

StoreStep(r) ==
    \/ FinalizePending(r) \/ InsertStored(r) \/ FinalizeMultipart(r) \/ InsertEvent(r)
    \/ SelectStale(r) \/ LogRetention(r) \/ PurgeStale(r)

MultipartStep(r) ==
    InitStatus(r) \/ CreateUpload(r) \/ UpsertUpload(r) \/ MultipartRow(r) \/ Assemble(r)

\* The next statement of the request in slot r.
HandlerStep(r) == PresignStep(r) \/ CheckStep(r) \/ StoreStep(r) \/ MultipartStep(r)

RequestStep(r) ==
    \/ \E c \in Calls : Receive(r, c) \/ Refuse(r, c)
    \/ HandlerStep(r)
    \/ Abort(r)

Environment ==
    \/ \E put \in Puts : PutObject(put[1], put[2])
    \/ \E u \in Uploads : PresignPart(u) \/ \E put \in Puts : PutPart(u, put[2])
    \/ \E a \in Apps : CreateApp(a)
    \/ \E c \in Legacy : LegacyInsert(c)

Next ==
    \/ \E r \in Reqs : RequestStep(r)
    \/ \E i \in RowIds : PendingGC(i)
    \/ Environment

Spec == Init /\ [][Next]_vars

\* tokio polls every handler and a held connection never blocks its statement;
\* the GC loop retries forever, and sqlx hands connections out in FIFO order,
\* so a waiter for a connection that is released over and over gets one.
Fairness ==
    /\ \A r \in Reqs : WF_vars(HandlerStep(r))
    /\ \A i \in RowIds : SF_vars(PendingGC(i))

FairSpec == Spec /\ Fairness

\* Every variable has its type.
TypeOK ==
    /\ registered \subseteq Apps
    /\ artifacts \in [Digests -> Row]
    /\ rowCount \in Nat
    /\ events \subseteq Nat \X {"stored", "retention_delete"}
    /\ uncounted \subseteq Digests
    /\ objects \in [StorageKeys -> Contents \cup {None}]
    /\ issued \subseteq StorageKeys
    /\ uploads \in [Uploads -> Upload]
    /\ partUrls \subseteq Uploads
    /\ call \in [Reqs -> Calls \cup {NoCall}]
    /\ pc \in [Reqs -> Steps]
    /\ seen \in [Reqs -> Seen]
    /\ answer \in [Reqs -> Answer]
===============================================================================
