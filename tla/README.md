# Formal model of the AetherEngine control plane and deploy client

TLA+ specifications of the `appengine` repository (Rust: `control-plane`,
`aether-cli`, `operator`), the TLC instances that check them, and machine-checked
proofs (TLAPS) of what its parts guarantee for every number of requests, digests,
processes and limits. Paths below are relative to
the repository root (`src/`); `uploads.rs` stands for
`crates/control-plane/src/handlers/uploads.rs`, `deploy.rs` for
`crates/aether-cli/src/commands/deploy.rs`, and so on.

Contents: 1 inventory · 2 modules and their correspondence to the code · 3 runs ·
4 fairness and deadlock · 5 proofs · 6 divergences noticed · 7 not modelled · 8 plan

## 1. Inventory

| Component | State it keeps | Operations | Hard part | What makes it correct |
|---|---|---|---|---|
| Artifact registry (`uploads.rs`) | `artifacts` (digest and idempotency key UNIQUE), `artifact_events`, S3 objects and multipart uploads, the connection pool | presign, complete, multipart init / presign-part / complete, quota, retention, pending GC | no handler opens a transaction: every other request and the GC run between any two statements; clients disconnect; S3 calls fail after they took effect | an acknowledged artifact stays stored; a row never falls back; completions that read the quota's count exceed it by a bounded amount; retention keeps the newest; pending rows do not stay; nobody waits for a connection only a waiter can release |
| Storage backend (`storage.rs`) | the bucket | presign PUT, presign part, HEAD, remote hash, multipart create / complete | no answer, and an answer that took effect but got lost | an object is what a client put under that key |
| Legacy upload (`uploads.rs:414-540`) | semaphore and its queue, temporary and promoted files, `artifacts` | POST /artifacts | bodies cut off, partial failures leave files, duplicates race, clients leave while they wait | the file behind a row is complete; a permit always comes back; only failures leave files |
| Applications and keys (`handlers/apps.rs`) | `applications`, `public_keys` | create, add key, list | registration while uploads run | a row is linked to the application of its name |
| Deployment service (`handlers/deployments.rs`, `services/deployments.rs`) | `deployments`, `deployment_events`, spawned apply tasks | create, PATCH, get, list, mark_running, mark_failed, GC of failed rows | the task and the watcher share nothing with the handler but a name; the process may die between INSERT and spawn | a status is set once and forgotten only when superseded; what is applied was verified |
| Kubernetes apply (`k8s.rs`) | the cluster's Deployment object | server-side apply | two applies of one application are not ordered; no retry | the template is that of a request |
| Status watcher (`k8s_watch.rs`) | its position in the watch stream | event → SELECT → pods → UPDATE → INSERT | rows change between its awaits; events are lost when the stream breaks | every pending deployment is resolved |
| Dev-hot fetcher (`k8s.rs:64-101`) | CUR (a shell variable), `/workspace`, its log | poll annotations, download, verify, unpack | any command may end the script or leave half its work | only verified archives are unpacked; an annotated digest is unpacked in the end |
| Dev-hot ingestion (`dev_hot_ingest.rs`) | set of line hashes | poll pod logs, count markers | the tail is read again and again, the set is shrunk at its cap | a line in the tail is counted, and not over and over |
| Background loops (`lib.rs`) | — | pending GC, failed-deployment GC, watcher | run concurrently with the handlers | see above |
| Authentication, rate limiting (`main.rs`) | window counters that no request reaches (section 7) | admit or refuse | — | a token is required |
| CLI deploy (`deploy.rs`) | none between runs | package, two-phase, multipart or legacy upload, request a deployment | other CLIs, the GC, Ctrl-C between its calls | it asks for the deployment of an artifact that is there |
| CLI node_modules cache (`deploy.rs:122-196`) | a directory per lockfile hash | restore, save | copies in place, by several deploys at once, interrupted; the install rewrites the lockfile | an entry is of its lockfile; what is packaged is a whole install |
| CLI rest, operator, telemetry, health, OpenAPI | session file, metrics | stateless or single-step | — | — |

Interaction: the CLI calls the registry (presign, PUT to S3, complete) and then
POST /deployments with the storage key. The deployment handler looks the digest up
in `artifacts`, inserts a row, and spawns the apply. The watcher sees the cluster
object change and sets the row's status. The two GC loops delete from the same
tables as the handlers write. Registry, deployments and watcher share one
PostgreSQL pool of five connections (`db.rs`).

## 2. Modules

```
ArtifactLifecycle   (what clients are promised)      DeploymentStatus (what clients see)
        ^ refined by                                        ^ refined by
ArtifactRegistry <-- ArtifactRegistryProps <-- Claims   DeploymentController <-- Claims
        ^                  ^                                ^
   CliDeploy          ...Proofs (3 modules)    MCDeploymentController, ...Proofs
     ^      ^              ^
MCCliDeploy  ...Proofs   MCArtifactRegistry

LegacyUpload <-- ...Proofs    DevHotFetcher <-- DevHotIngest    NodeModulesCache <-- ...Proofs
        ^                             ^           ^               ^
 MCLegacyUpload            MCDevHotIngest     ...Proofs   MCNodeModulesCache
```

**ArtifactRegistry.** One request slot per request in flight. A handler is a process
with one action per SQL statement or S3 call; `pc[r]` is the statement it will run
next, `seen[r]` its local variables, `answer[r]` what its client was told. The
actions in the order of the source:

| Code | Actions |
|---|---|
| validation, `pool.acquire()` | `Receive`, `Refuse` |
| `presign_artifact` | `PresignLookup`, `PresignLink`, `PresignInsert` |
| `complete_artifact`, row found | `LinkApp`, `CompleteRow`, `CheckRowKey`, `Backfill`, `VerifySize`, `VerifyContent`, `QuotaCount`, `QuotaBytes`, `FinalizePending`, `InsertEvent` |
| `complete_artifact`, no row | `LinkApp`, `CompleteRow`, `CheckKeyFree`, `QuotaCount`, `QuotaBytes`, `InsertStored`, `InsertEvent` |
| `retention_gc_if_needed` | `SelectStale`, `LogRetention`, `PurgeStale` |
| `multipart_init` | `InitStatus`, `CreateUpload`, `UpsertUpload` |
| `multipart_presign_part` | `PresignPart` (one statement) |
| `multipart_complete` | `MultipartRow`, `Assemble`, `LinkApp`, `QuotaCount`, `QuotaBytes`, `FinalizeMultipart`, `InsertEvent` |
| `run_pending_gc` | `PendingGC` (one DELETE) |
| `upload_artifact`, seen from the table | `LegacyInsert` (its `INSERT`) |
| clients, hyper | `PutObject`, `PutPart`, `CreateApp`, `Abort` |

Complete and multipart handlers hold a connection from acquire to answer (`Holders`),
presign and the GC borrow one per statement (`ConnFree`); a presign statement that
gets none counts as "no row", "no application" or no insert, as `ok().flatten()`
makes it. `Abort` is a client that disconnects, or the process dying: committed
statements stay.

A statement may also fail on a connection that is held, and the code seldom tells this
from an empty result: a failed look-up (`.ok().flatten()`) finds no row and no application,
so that the artifact stays unlinked and skips quota and retention; a failed COUNT or SUM
(`unwrap_or(0)`) passes the quota; a failed upsert (`let _ =`) is answered with the upload
id; a failed UPDATE or INSERT is an error, or lets the handler go on, as the code has it.
`Fails(r)` is this outcome in each action; `Failing` names the statements that may fail in
an instance, so that each run has those that can hurt its properties. The history variable
`uncounted` holds the digests that were stored by a path that read no count: no application
found, a failed COUNT, or POST /artifacts, which asks for no quota (`uploads.rs:520`); a
completion that does count takes its digest out again. Properties read it, actions do not.

A digest is represented by the content it hashes, so that "the
object's hash is the digest" is equality; sizes are `SizeOf`.

Abstracted: `created_at` is the rank of insertion (`rowCount`); the GC's TTL is any
cutoff (`PendingGC(i)`); retries inside one S3 call end in one of its outcomes;
every row has a storage key and the metadata digest cannot differ since it is signed
into the URL. The retention loop inserts one event per step, in any order.

**ArtifactRegistryProps / ArtifactRegistryClaims.** The properties of section 3, and
a sentence of the documentation that the code refutes.

**ArtifactLifecycle.** The abstract registry: an artifact is absent, pending or
stored; a client is told "stored" only of a digest that was stored at some moment
of its request; only retention removes stored artifacts. `ImplementsLifecycle`
is the refinement (`INSTANCE ... WITH`: a row's status, and a client state computed
from `pc` and `answer`).

**CliDeploy** (EXTENDS ArtifactRegistry). `aether deploy` as a client process per
slot: opening request, PUT or part loop, completing request, POST /deployments,
with every early return; it uses the registry's own actions for what happens on the
server. `Kill` is Ctrl-C at any point, with the handler dropped or running on. A
project relates a digest (of the packaged files, `deploy.rs:214`) to an archive (the
tar.gz), which are different contents. A PUT whose body was cut off by a read error
(`deploy.rs:403` just ends the stream) leaves nothing, or one of `CutBodies` if the storage
takes it; the CLI then goes on, or not, by the status it got. Retention, quota and several applications
with one digest are out of its properties (section 6 says why for the last).

**DeploymentController.** Rows, the spawned tasks, the cluster object with the pod
that serves, the watch stream and the watcher (one action per await). The handler's
reads before its INSERT are one action with it, because no step of this model
changes what they read; whether the registry has the digest stored is a free choice
(`Resolutions`). The action includes the outcome "row inserted, handler dropped, no
task". `Crash` restarts the process; it may come up without a watcher
(`Client::try_default` failed). The Kubernetes side (`PodAvailable`,
`InitContainerFails`, `Stall`, `PodLost`, `Change`) is external and modelled from
what `k8s_watch.rs` reads of it.

**DeploymentStatus.** The abstract deployment: pending, then running or failed, once,
forgotten only when failed and superseded. If `Rejudged`, a verdict may be replaced by
another one, though never by pending. `ImplementsStatus` is the refinement, with
`Rejudged <- ~OneReplica`: one control-plane process never replaces a verdict, several do
(section 6).

**LegacyUpload.** An upload is a process with one action per await of
`upload_artifact`: `Arrive` (queue of the semaphore), `Begin` (permit, headers,
temporary file), `BodyEnds` (the field loop ends, at the end of the body or where
reading it fails), `Acquire`, `Lookup`, `Promote` (rename or copy, size limit),
`Insert`; removing a file is `RemoveFile`, whose failure nobody looks at (history variable
`undeleted`); `Fails` and the faulty outcomes of the others are the error returns,
`Drop` is a client that goes away. `OtherEndpoints` lets rows come and go as
ArtifactRegistry does (`RowsMove`, proved from its refinement of ArtifactLifecycle), so the
two models need not be multiplied. The upload's number stands for the uuids of its files.

**DevHotFetcher.** The script of the sidecar, one action per command: `Start`, `Poll`,
`Download`, `Verify`, `Unpack`; `Kill` and the failing outcomes leave the tree partly
unpacked. `World` annotates the pod and changes what artifact URLs serve. An empty
artifact URL or a malformed digest is passed over, which changes nothing. The
log is kept as far as anybody reads it again (`TailLines`).

**DevHotIngest** (EXTENDS DevHotFetcher). `ReadLog` takes a copy of the tail, `HandleLine`
counts one line, `Restart` is the control plane's. The metrics are the number of
`HandleLine` steps with `Counted`; they are not a variable, since they grow for ever.

**NodeModulesCache.** Per project directory one deploy at a time: `Restore`, `CopyFile`,
`Install` (the package manager), `Lookup`, `CopyFile`, `Ends`. Both copies are one
action per file, so those of several projects interleave. `CopyStops` is a copy that
fails, after which the deploy goes on, or is killed; `PassOver` is a file that the walk drops
without an error (an entry it cannot read, what is behind a link to a directory,
`deploy.rs:194`). The package manager is external:
it may take a tree with missing or cut-off files for installed, it may
rewrite the lockfile, and when it fails or is killed (`InstallFails`, `deploy.rs:128-130`)
each file is new, cut off, missing or as it was, and the next deploy finds the tree so.
`suspect` is a history variable for `PackagedWhole`: the trees and entries an incomplete copy
or install went into.

The definitions whose comment says *faulty* are plausible mistakes (a dropped
status filter, a missing UNIQUE index, an unchecked HTTP status). They are used to
confirm that each property notices the mistake it is there for, never by `Next`.

## 3. Runs

| Run | Instance | Properties and what they show |
|---|---|---|
| `registry` | 3 slots, pool of 2, 3 digests, two of them with one idempotency key, one of these also without, and the third with another, quota 1, a COUNT that may fail, rows of POST /artifacts, GC | `TypeOK`, `NoHandlerStuck`, `QuotaOvershootBound`, `RowsWellFormed`, `AnswerDurable`, `KeyHonoured`, `ConflictsFounded`: the pool cannot deadlock on itself, completions that read the count exceed the quota by at most `PoolSize - 1` whatever is stored past it meanwhile, rows stay well formed, and acknowledged artifacts stay stored under the keys they were acknowledged with, and a completion is refused for its key only if clients do use that key for something else, whatever three requests, the GC and disconnects do |
| `multipart` | 2 slots, 1 digest, 2 applications, 2 uploads, two idempotency keys, presign required, a size limit; look-ups, upsert and finalizing UPDATE may fail | `UploadMatchesKey`, `RowMonotonic`: upload id and storage key of a pending row belong together through re-init, single-part completion and collection; of two completions with different idempotency keys the second changes neither status nor key |
| `retention` | 2 slots, 3 digests, two of them announced in any order, retain 1, 4 rows ever; the statements of event and retention may fail | `RetentionKeepsNewest`, `MarkedAreSurplus`, `ImplementsLifecycle`, `RequestsAdvance`: every statement brings its request nearer to an answer, also while others add to the surplus it logs; a stored row goes only while a newer one stays, although selected two statements before; a row the event log calls removed, whose handler may have been cut off, stays surplus until it goes; clients are told the truth |
| `registry_liveness` | 2 slots, pool of 1, every way to leave a row pending, an object of another size and content, hash check on, a byte quota, a completion's statements may fail | `RequestsAnswered`, `PendingResolved` under `FairSpec` |
| `claim_checked_key` | 2 applications, 1 digest | refutes `CheckedKeyIsStored` |
| `cli_deploy` | 2 CLIs, one digest as two archives (single-part, multipart), bodies cut off, look-ups and upsert may fail, pool of 1, 2 uploads, 4 rows ever | `CliTypeOK`, `StoredIsRetrievable`, `DeployedIsRetrievable`: stored rows have an archive, and deployments name such rows, through failures, kills and the GC |
| `claim_cli_digest` | 1 CLI, hash check on | refutes `PackagedDigestAccepted` |
| `deployments` | 2 deployments of one application (signed, and without digest), refused requests, PATCH, 1 fault | `TypeOK`, `AppliedSignatureVerified`, `VerdictsFounded` (only what was applied is judged; a reason if and only if failed; only an aged row timed out), `ImplementsStatus`; `HeardPendingResolved`: while availability keeps being reported, every pending row is reached in spite of `LIMIT 1` without an order |
| `claim_pending` | the same artifact deployed twice, no fault | refutes `PendingResolves` |
| `legacy_upload` | 3 uploads of 2 digests, 2 permits, a content of neither, a size limit, 1 fault (also in removing a file) | `TypeOK`, `StoredFileComplete`, `FilesAccounted`, `WaitingUploadsServed` |
| `dev_hot` | 2 archives that share a file, 3 changes of annotation or bucket, 2 faults, tail of 2 lines, 3 hashes | `TypeOK`, `OnlyVerifiedUnpacked`, `CurWhole` (CUR is never ahead of tar), `AnnotatedUnpacked`, `TailCounted`, `CountsSettle` |
| `node_modules_cache` | 2 projects, 2 lockfiles, 2 files, any number of deploys, failed installs, stopped copies, files passed over and kills | `TypeOK`, `CacheKeyed`, `PackagedWhole` |

**Bounds.** `Failing` (the statements that may fail, as often
as they run), `Legacy` (bodies of POST /artifacts), `MaxRows` (rows ever inserted; enforced where a request arrives, so no
handler is cut short), `MaxDeployments`, `MaxFeed` (watch events in flight),
`MaxFaults` (crashes, dropped connections, failed statements and calls of the
deployment model). Two slots show every pairwise race; three are used where a
third party matters (the quota and the pool). Two rows per digest are needed for
"collected and inserted again", which three or four rows allow. Retention needs
three digests to have a surplus and a newcomer. One application suffices where rows
of different applications do not interact; two are used where they do. `Reqs` and
`Uploads` are symmetric in the safety runs (no property names a member); the
liveness runs use no symmetry. `registry_liveness` and `registry` keep the pool below
the number of requests, since a pool that is never exhausted would hide the
waiting. `HeardPendingResolved` is conditional on being reported again and again;
with one replica, bounded faults and a fair cluster this does happen (`PodLost`
and `PodAvailable` alternate). It also relies on `MaxDeployments`: among finitely many rows
each verdict leaves fewer to choose from, whereas with creates that never end a `SELECT ...
LIMIT 1` without an order could pass one row over for ever.

`MaxUploads` is one more than `Permits`, so that uploads wait; one fault is enough for
each error path and, with a permit that is not given back, to starve a waiter.
`dev_hot` has two faults, so that a retry can fail too; `TailLines < Drained <= Cap`
as in the code (200 < 1000 <= 2000), and the four possible marker lines exceed `Cap`.
`MaxChanges` of three allows annotating one digest, another, and the first again.
`node_modules_cache` needs no bound: two files make a copy that is under way, and two
projects a copy that is read meanwhile.

The three refuted claims are documented in `PROJECT.json` (`findings`) with the
sentence each one states; section 6 has the divergences for which no run was kept.

## 4. Fairness and deadlock

`ArtifactRegistry!Fairness`: weak fairness of each handler, because tokio polls every
ready future and a handler that holds a connection never waits for another (that
is `NoHandlerStuck`); strong fairness of the GC, whose loop retries for ever and
whose wait in sqlx's FIFO pool ends when connections are released over and over.
No fairness for clients, `Abort`, S3 or registration. A request that failed to
acquire is answered by `Refuse` (acquire timeout), so `RequestsAnswered` does not
need fairness of the pool.

`DeploymentController!Fairness`: weak fairness of the watcher's steps, of receiving
an event, of each process's apply tasks, of the passing of time, and of the cluster
finishing a rollout one way or the other (progressDeadlineSeconds). None for
requests, crashes or lost events.

`LegacyUpload!FairSpec`: weak fairness of each handler's own steps (tokio, and the FIFO
queue of its semaphore), none for clients. `WaitingUploadsServed` has the premise that
no client stalls in its body for ever, since the code has no timeout for it.
`DevHotIngest!Spec`: weak fairness of the script, with its restarts by the kubelet
(`restartPolicy` is Always in a Deployment), and of the ingestion's loop, whose failed
polls are repeated with a backoff; none for annotations, uploads, kills.

The configurations say `CHECK_DEADLOCK FALSE` because an idle system whose bounds
are used up really stops (NodeModulesCache never does, and is checked for deadlock). A handler that cannot go on would be such a state too;
`NoHandlerStuck` rules it out explicitly, and `RequestsAnswered` again. Why a request is
answered has three parts: some statement of it can be executed (`NoHandlerStuck`, by TLC),
each one executed brings it nearer to its end and nothing sets it back (`RequestsAdvance`,
`RequestsBounded`, both proved), and one that can be executed is (the fairness above).

## 5. Proofs

All theorems are about the `Spec` of a component, for every value of the
constants that satisfies its assumption: `ConstantsAssumption` of `ArtifactRegistry`
(finite sets of digests and request slots, calls well formed, without an idempotency key
where the body has none, `uploads.rs:123`, `:627`; limits natural, pool not empty, and so on), `ProjectsAssumption` of `CliDeploy` (projects well
formed, their requests among the calls, cut-off bodies contents, and no POST /artifacts: what that
stores is a file, not an object the CLIs could fetch), `DeploymentAssumption`, `LegacyAssumption`, `FetcherAssumption`, `IngestAssumption` and
`CacheAssumption`.

* **ArtifactRegistryProofs** – `TypeCorrect`, `RowsCorrect`, `RowsMonotonic`, `UploadsMatchKeys`.
  `RowsWellFormed` is not inductive by itself: an UPDATE by id needs to know that
  the handler has really read an id, and typing of `call[r]` needs a request in
  flight. The invariant is `RowInv`: types, `InFlight`, `Keyed` (a row has a storage key),
  `KnownRow` (what a handler past its lookup has in `seen`) and `RowsWellFormed`.
  Every step of the registry does one of four things to the table (nothing, insert
  a row with a free key, change one row in place, delete rows); the lemmas show
  that each action is one of them and each of them keeps the invariant. `UploadsMatchKeys`
  strengthens its property to `UploadInv`: a handler about to upsert remembers an upload
  that S3 opened for the key it will write, and an opened upload keeps its key.
* **ArtifactQuotaProofs** – `QuotaOvershootBounded`, for any `Failing`, `Legacy` and `InitApps`. The
  property is about the stored artifacts outside `uncounted`: those a completion stored after
  it had read a count below the limit. The inductive part is `AdmittedBound`: the counted rows
  of an application (`Counted`) plus the completions past a count that was read (`Admitted`)
  stay within `MaxCount + PoolSize - 1`. When a completion is admitted, the count it
  reads is of all stored rows of the application, of which the counted ones are a part, and
  everybody admitted holds a connection (`Cardinality(Holders) <= PoolSize`). That others store
  past the quota meanwhile makes the count larger, never smaller. `CountsLinked` (who counts
  has found its application) and `UnlinkedUncounted` (a stored row without an application is
  uncounted) are needed so that a row which is adopted later does not become a counted one.
* **ArtifactLifecycleProofs** – what becomes of a stored artifact.
  `LifecycleImplemented` is the refinement of `ArtifactLifecycle`. Its invariant `LifeInv` adds
  `AnswerInv` (an answer that acknowledges a digest belongs to a slot with nothing in flight,
  and names a digest) and `StaleInv` (the rows a handler is about to purge were stored when
  it selected them, and their ids name no pending row since). Each step of the registry is
  then one of the abstract steps or changes neither a status nor what a client knows.
  `AnswersDurable` is strengthened by `DurableInv` (a handler about to answer "stored" has a
  stored row; without retention nobody reaches the retention steps). The argument is that only
  the GC deletes, by ids of pending rows, and ids are unique (`RowsWellFormed`).
  `NewestKept`, for `RetentionKeepsNewest`, rests on `BehindInv`: a selected row has `Retain`
  newer rows of its application for as long as it exists. A purge by another request keeps it
  true, because the newest of the rows it takes has `Retain` newer ones that it does not take
  (`PurgeLeaves`, by well-foundedness of finite sets). It assumes one application per digest
  (`OneAppOfDigest`, for POST /artifacts too), applications registered from the start
  (`InitApps = Apps`) and that the look-up of the application does not fail
  (`"app" \notin Failing`): a completion that finds no application clears the row's; section 6
  says how it goes wrong otherwise.
  `RowsMove` and `PromiseHolds` are read off the refinement: the moves of a row's status,
  and the promise `AcknowledgedStored` of ArtifactLifecycle, as facts about the registry.
  `EventsStored` (any constants) and `MarkedSurplus` (the assumptions of `NewestKept`) are
  about the event log. `EventInv` says that what a handler is about to log, and what is
  logged, is a `Selection`: ids once inserted, of stored rows if of any. A `Selection`
  survives every step of the table (`SelectionKept`), and so does lying behind `Retain`
  newer rows (`BehindKept`), so the rows that a handler marked, and perhaps never deleted,
  are surplus at any later time.
  `KeysHonoured` is for `KeyHonoured`. Its invariant `KeyInv` says that every key in the
  table was sent with its digest (`KeysSent`), so COALESCE finds the handler's own key or
  none, and that a handler about to answer "stored", and an answer that did, have their key
  in the row (`HeldInv`); that the row keeps it is `AnswersDurable`'s argument again. It
  assumes that no digest is completed with two keys (`OneKeyOfDigest`), as with the CLI,
  whose key is `idem-` and the digest (`deploy.rs:416`, `:485`); section 6 has what happens
  otherwise.
  `ConflictsJustified`, for `ConflictsFounded`, needs no such assumption. `KeysSent` is again
  the centre of its invariant `ConflictInv`: whatever a completion finds in the table, by
  reading or by the UNIQUE index, was sent by some client, and what other requests leave
  behind (a pending row of a presign or an init, which carry no key) founds no conflict.
  `RequestsAdvancing` and `RequestsBounded` are about `StatementsLeft`, the statements a
  request still has to run at most. A handler passes every position but one at most once; at `log` the number
  counts the selected rows that have no event yet (`Unlogged`). Others store, log and delete rows
  meanwhile, so the theorem needs that the ids selected are old ones (`StaleInv`): no row
  inserted later joins the surplus (`UnloggedShrinks`), events only go with their rows.
* **CliDeployProofs** – `CliUsesRegistry`, `CliTypeCorrect`, `StoredRetrievable`,
  `DeployedRetrievable`, `CliKeysHonoured`,
  `CliKeysNeverConflict`. The first is `CliSpec => Spec`: every step of a CLI is a step of the
  registry or leaves it alone, so the theorems above hold of the composition. The registry
  finalizes a row without looking for the object; that what is stored can be fetched follows
  from `FetchInv`, which relates a CLI's position to its request's handler, and both to the
  bucket: an object is an archive of its key's digest, a completion past its first statements
  has its object, a row's key is that of its digest's application, a CLI that will post a
  deployment has seen the row stored. These two theorems assume `OneAppPerDigest`:
  `claim_checked_key` shows how it goes wrong otherwise. `CliKeysHonoured` is `KeyHonoured`
  where every request is a CLI's (`OnlyClis`), for any projects: the key is computed from the
  digest, so `OneKeyOfDigest` is a lemma there (`KeyOfDigest`). `CliKeysNeverConflict` says under the
  same assumption that nobody is refused for a key (`KeyNeverConflicts`): a founded conflict
  needs two digests of one key or two keys of one digest, and `AnswersSent` says that the
  answer names what the client sent. It is not checked in a run: with the pool of one of
  `cli_deploy` completions do not overlap, and no mistake could break it there.
* **DeploymentControllerProofs** – `DeploymentsTypeCorrect`, `AppliedSignaturesVerified`,
  `VerdictsHaveGrounds`, `StatusImplemented`, all for any number of processes. The second needs
  `SignedInv`, which says of the spawned tasks what the property says of the cluster.
  `VerdictInv` follows "was applied" along the way a verdict takes: an object with an
  available pod or a condition has a template, so has one in the watch stream
  (`FeedFounded`), and a watcher that holds a row has heard of the application of that very
  row (`WatchFounded`), which may be gone by then, but not another one's.
  For the refinement every `MarkRow` is a `Resolve`, a GC pass a `Forget`, and PATCH, the
  cluster and the tasks change nothing `DeploymentStatus` sees. That a single process never
  replaces a verdict needs `StillPending`, conditional on `OneReplica`: the row its watcher
  has selected is pending until the watcher marks it, since nothing else resolves a row and
  the GC deletes failed ones only. With two processes `StillPending` is false (each has a
  watcher), and the refinement is of a `DeploymentStatus` with `Rejudged`.
* **LegacyUploadProofs** – `LegacyTypeCorrect`, `StoredFilesComplete`, `FilesAreAccounted`. `Checked` carries an
  upload's content from the digest comparison to its final file, `Owned` says that an upload
  whose row was inserted has ended, so nobody writes its file again. `Accounted` bounds the
  uploads that hold a permit, and with them the temporary files in progress;
  `FilesAccounted` is about the uploads of which every removal succeeded. The type
  invariant says that the semaphore's queue holds each waiting upload once (`Once`); a client
  that leaves is taken out of the middle, and `OnceRemoved` shows that nobody else is lost.
* **NodeModulesCacheProofs** – `CacheTypeCorrect`, `CacheEntriesKeyed`, `PackagedTreesWhole`.
  `Sourced` says which lockfile the tree of a running deploy belongs to. `Clean` has four
  parts, about entries nobody is filling, restores, saves and installed trees, each for what is
  not `suspect`: a failed install, a stopped copy or a file passed over makes its target suspect,
  and what is copied from a suspect place, or from an entry being filled, becomes suspect; a save that
  nothing is wrong with may share its entry with other saves of the same lockfile, which
  write the same files.

* **DevHotIngestProofs** – `HotTypesCorrect`, `VerifiedUnpacked`, `CurNeverAhead`. `Checked` says that the
  archive about to be unpacked is the one whose checksum was compared: the annotation may
  change between the two commands, `DIGEST` and the file do not. `CurInv` adds that the digest
  under way is never the one CUR names (`Wanted`), so an extraction that is cut off damages
  CUR's archive only in files that the two share.

Only model-checked, because out of the prover's reach: `NoHandlerStuck` (it contains
`ENABLED`) and liveness under fairness, that is `RequestsAnswered`, `PendingResolved`,
`HeardPendingResolved`, `WaitingUploadsServed`, `AnnotatedUnpacked`, `TailCounted` and
`CountsSettle`. Every other property of a passing run is stated by a theorem.

## 6. Divergences noticed

Refuted by a run: `claim_checked_key`, `claim_pending`, `claim_cli_digest`. The last has further consequences: the CLI's legacy upload is
always refused (`digest_mismatch`: the server hashes the archive), and the init
container's `sha256sum -c` (`k8s.rs:122`) fails for every artifact the CLI packaged.

Seen while modelling, included in the models, without a run of their own:

* A stored artifact is not immutable (README.md:38): multipart init reads the status,
  creates the S3 upload and upserts `storage_key` whatever the status is by then
  (`uploads.rs:649`), so a row stored in between is redirected to a key without an
  object.
* Quota: README.md:247 states a limit. Concurrent completions that read the count exceed it,
  by at most the other connections of the pool (`QuotaOvershootBound`). Not held back at all
  are a completion whose COUNT fails (`unwrap_or(0)`, `uploads.rs:592-593`), one that finds no
  application, because it is not registered yet or because the look-up fails
  (`.ok().flatten()`, `:221`, `:742`), and POST /artifacts, which links its row to the
  application and asks for no quota (`:520`); the artifacts they store are `uncounted`, and an
  application can have any number of them. The byte quota never
  applies: SUM over BIGINT is NUMERIC, which does not decode as `i64`, and
  `unwrap_or(0)` makes the used bytes zero (`uploads.rs:594`, README.md:301).
* Retention: the `retention_delete` event names the row that is deleted next and
  goes with it (`ON DELETE CASCADE`), so issue 03 line 34 (`event retention_delete`)
  leaves no trace of a row that was removed. What such an event does survive is a handler
  cut off before its DELETE: the row stays, marked as removed (`MarkedAreSurplus`).
* Retention with two applications that package the same files: the second completion
  finalizes the stored row again (`UPDATE ... WHERE id`, `uploads.rs:292`) and moves it to its
  own application; the surplus that a request of the first had selected by then is purged
  although a row newer than it has left. With two applications that complete the same digests
  `RetentionKeepsNewest` is violated; the run `retention` has one application, and
  `NewestKept` assumes one per digest.
* A completion whose look-up of the application fails stores the row without one, also if it
  had one before, and skips retention: with `"app"` in `Failing`,
  `RetentionKeepsNewest` goes wrong as with two applications.
* Multipart init ignores whether its upsert succeeded (`let _ =`, `uploads.rs:649`): the
  client uploads parts, and its completion finds no row with that upload and is refused.
* PATCH records `rollout` and applies nothing (`handlers/deployments.rs:13`; issue
  05 line 22 expects new code to take effect).
* Presign treats a pool timeout as a missing row and hands out an upload URL for a
  stored digest (`uploads.rs:146`; README.md:236).
* Two racing completions of one presigned digest with different idempotency keys are both
  answered "stored", but the row keeps the key of the first (`COALESCE`, `uploads.rs:292`);
  the second key is later accepted for another digest, although README.md:245 has it
  rejected. TLC finds it when `KeyHonoured` is checked with two keys for one digest;
  the run `registry` has one, and `KeysHonoured` assumes it; the CLI never sends two.
* A completion of a stored digest is answered "duplicate" whatever idempotency key it
  carries; a key reused in a multipart completion is 500 rather than 409
  (README.md:245). The signature is not verified when a presign came first
  (issue 03 line 90).
* Two applications that package the same files share one row: the second finalizes
  a key the first one's object is not under (`claim_checked_key`). This is why
  `StoredIsRetrievable` is checked for one application per digest.
* A renamed file does not change the digest (only contents are hashed), so presign
  answers NONE and the old tree is deployed. The CLI's `artifact_url` is a storage
  key, not a URL the init container can fetch.
* The CLI reports success whatever POST /deployments answers (`deploy.rs:423`).
  Deployments are not unique per digest (README.md:146 speaks of idempotence).
* Two control-plane replicas: both watchers select one pending row and update by
  id, so the second verdict overwrites the first, as `DeploymentStatus` allows with
  `Rejudged`; with `Rejudged <- FALSE` and `Replicas = {p1, p2}` TLC finds `ImplementsStatus`
  violated. The runs use the one replica the repository deploys.
* The watcher takes the availability of the old pods for that of a new rollout
  (no comparison of `observedGeneration`); two creates of one application apply in
  either order.
* Legacy upload: the duplicate check ignores the status, so a digest that was only
  presigned is answered "duplicate" and the file removed (`uploads.rs:468-477`); the
  URL of a duplicate names a file by row id, while files have names of their own
  (`:475`, `:481`); its rows have no storage key and skip quota and retention.
  Reading the body stops at an error or at the 1 MB limit of `main.rs:85` like at its
  end, so a larger archive is answered `digest_mismatch`; a client that stalls holds its
  permit without a timeout (README.md:220 has the limit of concurrent uploads); rows of
  the digest that appear after the lookup make the INSERT fail with 500 and leave the
  promoted file. Nobody looks at whether a file could be removed (`:458`, `:462`, `:476`, `:487`).
* `artifacts_total` starts from all rows, pending ones included, and is never
  decremented; a completion of a pending row does not count.
* Dev-hot: the fetcher and the ingestion read pod annotations; the manifest annotates the
  Deployment only (`k8s.rs:147-157`), as does the `kubectl annotate deployment` of issue 05
  line 28, and `dev.sh hot-patch` writes a digest without the prefix the script looks
  for. Without the annotations the script exits and the container restarts for ever,
  so H1 of issue 05 needs somebody to annotate the pod itself.
* Dev-hot: the script compares with CUR, not with what is unpacked (issue 05 line 8
  says "local"). If the extraction of d2 fails and the annotation goes back to d1, CUR
  is still d1 and the mixed tree stays: `AnnotatedUnpacked` without its premise
  `cur # d` is violated. A failed extraction writes no marker; a restart fetches an
  unchanged digest again (H2); files the new archive does not have stay.
* Dev-hot ingestion: two equal marker lines count once, lines that leave the tail of
  200 between two polls, or go with their container, not at all, and lines whose hash
  was dropped at the cap again.
* node_modules cache: a copy that fails or is killed leaves an entry that is never
  repaired (`dir.exists()` ends every later save), and one being filled is already
  restored from. What the walk cannot read is dropped without an error, and so are symbolic
  links to directories, which pnpm's node_modules consists of (`deploy.rs:194`). A package
  manager that fails or is killed leaves node_modules half installed (`deploy.rs:128-130`);
  the next deploy restores nothing over it, and what the package manager then
  takes for installed is packaged and saved. `PackagedWhole` says that there is no other way
  to an incomplete package. A lockfile edited between install and save gets the old install.
* Packaging: only the base name is tested by `should_skip`, so the contents of
  node_modules and target are packaged while a project file called `app-...` is not;
  the order of the directory enters the digest; files are read once for the digest
  and again for the archive.
* README.md:324 and issue 03 line 95 call the GC interval not yet wired; `lib.rs` wires it.

## 7. Not modelled

The rate limiter: it needs a `SocketAddr` in the request's extensions (`main.rs:61`),
which nothing inserts (axum would insert `ConnectInfo`, and the service is not built with
it), so its only branch that changes state is never taken; the token comparison next to
it keeps no state. SBOM, manifest and signature files of the CLI are output only.
Health, readiness, telemetry, OpenAPI and the reads (HEAD, meta,
lists, status) change no state that matters. The operator has no reconcile loop. CLI login, configuration and mock commands are single
steps. S3 encryption headers, URL expiry, log and metric wording are left out.
No handler deletes an application or deactivates a key.

Smaller gaps. The DELETE of the pending GC is assumed not to fail for ever. A statement that
took effect although its answer was lost is the case in which the handler ends there
(`Abort`). POST /artifacts holds a connection in the pool longer than `LegacyInsert` says, which
is one statement; `RequestsAnswered` is about the other handlers. In the legacy upload a
failing `fs::metadata` counts as size 0 (no size limit). `npm prune` fails with a warning and
removes only packages that are extraneous, so it does not change what `PackagedWhole` is about. Packaging itself
skips files it cannot read, with a warning (`deploy.rs:202-224`), which this model
does not go into. S3 normally refuses a body of unknown length, so that `CutBodies` is the
cautious case.

## 8. Plan

Done, in this order (the registry first, because every deployment depends on it):
ArtifactRegistry with lifecycle and properties; the proofs of its types, rows, uploads,
durability, quota, keys and conflicts, of the lifecycle, of retention and of its log, of the
progress of requests; DeploymentController with its status refinement and
its proofs; CliDeploy with its proofs; LegacyUpload and its proofs; DevHotFetcher with
DevHotIngest and their proofs; NodeModulesCache and its proofs.

Next, in order of importance:

1. Model: packaging (the digest of a directory read while it changes), the retries
   inside one S3 call.
2. Proof: the part of `TailCounted` that is a safety property (what one pass over the tail
   leaves uncounted).
