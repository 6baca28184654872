------------------------- MODULE DeploymentController -------------------------
(***************************************************************************)
(* Deployments: POST and PATCH /deployments, the task that applies the     *)
(* Kubernetes object, the watcher that turns the object's status into the  *)
(* status of a row, and the GC of failed rows, over the `deployments'      *)
(* table and a cluster.                                                    *)
(*                                                                         *)
(* The handler inserts a row and leaves the rest to a spawned task and to  *)
(* the watcher, which share nothing but the application's name: the        *)
(* watcher takes one step per statement or API call, and the rows and the  *)
(* cluster move on between them.                                           *)
(***************************************************************************)
EXTENDS Naturals, Sequences, FiniteSets

CONSTANTS
    Apps,       \* registered applications (another name is a 404 without effect)
    Digests,
    Urls,
    DigestIn,   \* url -> the digest extract_digest finds in it, or None
    Requests,   \* bodies of POST /deployments
    Patches,    \* digests that clients PATCH
    Replicas,   \* control-plane processes
    None,
    MaxDeployments,  \* bound: rows ever inserted
    MaxFeed,         \* bound: watch events in flight to a process
    MaxFaults        \* bound: crashes, dropped connections, failed statements and calls

Ids     == 1..MaxDeployments
Request == [app : Apps, url : Urls, signature : {"none", "valid", "invalid"}]

\* What apply_deployment renders into the pod template.
Template == [url : Urls, digest : Digests \cup {None}, signed : BOOLEAN]

ASSUME DeploymentAssumption ==
    /\ DigestIn \in [Urls -> Digests \cup {None}]
    /\ Requests \subseteq Request
    /\ Patches \subseteq Digests
    /\ None \notin Digests \cup Apps \cup Template \cup {"progress", "init", "timeout"}
    /\ MaxDeployments \in Nat /\ MaxFeed \in Nat /\ MaxFaults \in Nat

VARIABLES
    deployments,  \* the deployments table, by id; ids follow created_at
    created,      \* rows inserted so far
    aged,         \* the rows with ids up to this one are older than 300 s
    events,       \* the deployment_events table: ids of the deployments that have events
    tasks,        \* process -> its spawned apply tasks
    cluster,      \* application -> its Deployment object and what runs of it
    feed,         \* process -> watch events on their way to it
    watch,        \* process -> where its watcher is and what it has read
    faults        \* faults so far

table == <<deployments, created, aged, events>>
vars  == <<table, tasks, cluster, feed, watch, faults>>

Row == [app : Apps \cup {None}, url : Urls \cup {None}, digest : Digests \cup {None},
        signed : BOOLEAN, status : {"none", "pending", "running", "failed"},
        reason : {None, "progress", "init", "timeout"}]

NoRow == [app |-> None, url |-> None, digest |-> None, signed |-> FALSE,
          status |-> "none", reason |-> None]

Task == [id : Ids, app : Apps, template : Template]

Object == [template : Template \cup {None},  \* spec.template
           serving  : Template \cup {None},  \* of the pod that is available
           stalled  : BOOLEAN,               \* condition Progressing is False
           initFailed : BOOLEAN]             \* a pod's init container exited non-zero

Notice == [app : Apps, available : BOOLEAN, stalled : BOOLEAN]

\* "off": Client::try_default failed when the process started.
Watcher == [at : {"off", "idle", "select", "pods", "mark", "record"},
            notice : Notice \cup {None}, row : Nat, outcome : {None, "running", "failed"},
            reason : {None, "progress", "init", "timeout"}]

Idle == [at |-> "idle", notice |-> None, row |-> 0, outcome |-> None, reason |-> None]
Off  == [Idle EXCEPT !.at = "off"]

Fault == faults < MaxFaults /\ faults' = faults + 1

-----------------------------------------------------------------------------
(***************************************************************************)
(* The handlers.                                                           *)
(***************************************************************************)
\* The digest counts only while the registry has it stored.
Resolutions(req) == {DigestIn[req.url], None}

Verified(req, digest) ==
    req.signature # "none" => digest # None /\ req.signature = "valid"

TaskOf(id, req, digest) ==
    [id |-> id, app |-> req.app,
     template |-> [url |-> req.url, digest |-> digest, signed |-> req.signature # "none"]]

\* The statements before the INSERT read what no step here changes.  If the
\* connection is dropped while the INSERT is awaited, the row may be there and
\* no task be spawned.
CreateDeployment(p, req) ==
    /\ created < MaxDeployments
    /\ \E digest \in Resolutions(req) :
         /\ Verified(req, digest)
         /\ deployments' = [deployments EXCEPT ![created + 1] =
               [app |-> req.app, url |-> req.url, digest |-> digest,
                signed |-> req.signature # "none", status |-> "pending", reason |-> None]]
         /\ \/ /\ tasks' = [tasks EXCEPT ![p] = @ \cup {TaskOf(created + 1, req, digest)}]
               /\ UNCHANGED faults
            \/ Fault /\ UNCHANGED tasks
    /\ created' = created + 1
    /\ UNCHANGED <<aged, events, cluster, feed, watch>>

\* PATCH changes the digest of the row and nothing else; its event is best effort.
UpdateDeployment(i, digest) ==
    /\ deployments[i].status # "none" /\ deployments[i].digest # digest
    /\ deployments' = [deployments EXCEPT ![i].digest = digest]
    /\ \/ events' = events \cup {i} /\ UNCHANGED faults
       \/ Fault /\ UNCHANGED events
    /\ UNCHANGED <<created, aged, tasks, cluster, feed, watch>>

SupersededByAny(i) ==  \* faulty: a newer deployment in any status supersedes
    \E j \in Ids : j > i /\ deployments[j].status # "none" /\ deployments[j].app = deployments[i].app

Superseded(i) ==
    \E j \in Ids : j > i /\ deployments[j].status = "running" /\ deployments[j].app = deployments[i].app

EventsKept(gone) == events  \* faulty: no ON DELETE CASCADE
EventsOfOthers(gone) == events \ gone

\* run_failed_deployments_gc: one DELETE; the events cascade.
FailedGC(cutoff) ==
    LET gone == {i \in 1..cutoff : deployments[i].status = "failed" /\ Superseded(i)} IN
    /\ gone # {}
    /\ deployments' = [i \in Ids |-> IF i \in gone THEN NoRow ELSE deployments[i]]
    /\ events' = EventsOfOthers(gone)
    /\ UNCHANGED <<created, aged, tasks, cluster, feed, watch, faults>>

GrowOld ==
    /\ aged < created
    /\ aged' = aged + 1
    /\ UNCHANGED <<deployments, created, events, tasks, cluster, feed, watch, faults>>

-----------------------------------------------------------------------------
(***************************************************************************)
(* apply_deployment, and the cluster as the code uses it.  Every change of *)
(* an object is sent to the watchers with the status it has at that        *)
(* moment; a server-side apply that changes nothing is not a change.       *)
(***************************************************************************)
NoticeOf(a, object) ==
    [app |-> a, available |-> object.serving # None, stalled |-> object.stalled]

Change(a, object) ==
    /\ \A p \in Replicas : Len(feed[p]) < MaxFeed
    /\ cluster' = [cluster EXCEPT ![a] = object]
    /\ feed' = [p \in Replicas |-> IF watch[p].at = "off" THEN feed[p]
                                   ELSE Append(feed[p], NoticeOf(a, object))]

TemplateFromRow(t) ==  \* faulty: reads the row again when it applies
    [t.template EXCEPT !.digest = deployments[t.id].digest]
TemplateOf(t) == t.template

Apply(p, t) ==
    /\ t \in tasks[p]
    /\ IF cluster[t.app].template = TemplateOf(t)
       THEN UNCHANGED <<cluster, feed>>
       ELSE Change(t.app, [cluster[t.app] EXCEPT !.template = TemplateOf(t)])
    /\ tasks' = [tasks EXCEPT ![p] = @ \ {t}]
    /\ UNCHANGED <<table, watch, faults>>

\* No retry: the error is logged.
ApplyFails(p, t) ==
    /\ t \in tasks[p] /\ Fault
    /\ tasks' = [tasks EXCEPT ![p] = @ \ {t}]
    /\ UNCHANGED <<table, cluster, feed, watch>>

RollingOut(a) == cluster[a].template # cluster[a].serving

\* The pod of the current template becomes available and replaces the others.
PodAvailable(a) ==
    /\ RollingOut(a)
    /\ Change(a, [cluster[a] EXCEPT !.serving = cluster[a].template, !.stalled = FALSE,
                                    !.initFailed = FALSE])
    /\ UNCHANGED <<table, tasks, watch, faults>>

InitContainerFails(a) ==
    /\ RollingOut(a) /\ ~cluster[a].initFailed
    /\ Change(a, [cluster[a] EXCEPT !.initFailed = TRUE])
    /\ UNCHANGED <<table, tasks, watch, faults>>

\* progressDeadlineSeconds has passed.
Stall(a) ==
    /\ RollingOut(a) /\ ~cluster[a].stalled
    /\ Change(a, [cluster[a] EXCEPT !.stalled = TRUE])
    /\ UNCHANGED <<table, tasks, watch, faults>>

\* The pod crashes or is evicted.
PodLost(a) ==
    /\ cluster[a].serving # None
    /\ Change(a, [cluster[a] EXCEPT !.serving = None])
    /\ UNCHANGED <<table, tasks, watch, faults>>

-----------------------------------------------------------------------------
(***************************************************************************)
(* run_deployment_status_watcher.                                          *)
(***************************************************************************)
Watch(p, state) == watch' = [watch EXCEPT ![p] = state]

Receive(p) ==
    /\ watch[p].at = "idle" /\ feed[p] # <<>>
    /\ Watch(p, [Idle EXCEPT !.at = "select", !.notice = Head(feed[p])])
    /\ feed' = [feed EXCEPT ![p] = Tail(@)]
    /\ UNCHANGED <<table, tasks, cluster, faults>>

\* The stream reconnects: Event::Restarted carries the objects as they are
\* now, which the watcher ignores; the changes in between are never sent.
Restarted(p) ==
    /\ watch[p].at = "idle" /\ feed[p] # <<>> /\ Fault
    /\ feed' = [feed EXCEPT ![p] = <<>>]
    /\ UNCHANGED <<table, tasks, cluster, watch>>

CandidatesOfAnyStatus(a) ==  \* faulty: no AND d.status = 'pending'
    {i \in Ids : deployments[i].status # "none" /\ deployments[i].app = a}

Candidates(a) == {i \in Ids : deployments[i].status = "pending" /\ deployments[i].app = a}

\* available >= 1, then the conditions, then the pods.
Judge(p, i) ==
    LET seen == watch[p].notice  found == [watch[p] EXCEPT !.row = i] IN
    CASE seen.available -> [found EXCEPT !.at = "mark", !.outcome = "running"]
      [] ~seen.available /\ seen.stalled ->
           [found EXCEPT !.at = "mark", !.outcome = "failed", !.reason = "progress"]
      [] OTHER -> [found EXCEPT !.at = "pods"]

\* SELECT ... AND d.status = 'pending' LIMIT 1, without an ORDER BY.
SelectPending(p) ==
    /\ watch[p].at = "select"
    /\ LET found == Candidates(watch[p].notice.app) IN
       \/ \E i \in found : Watch(p, Judge(p, i)) /\ UNCHANGED faults
       \/ found = {} /\ Watch(p, Idle) /\ UNCHANGED faults
       \/ Fault /\ Watch(p, Idle)
    /\ UNCHANGED <<table, tasks, cluster, feed>>

\* List the pods of the application for a failed init container, then look at
\* the age of the row.  A list that fails finds no failure.
InspectPods(p) ==
    /\ watch[p].at = "pods"
    /\ \E listed \in BOOLEAN :
         /\ IF listed THEN UNCHANGED faults ELSE Fault
         /\ LET initFailed == listed /\ cluster[watch[p].notice.app].initFailed IN
            IF initFailed \/ watch[p].row <= aged
            THEN Watch(p, [watch[p] EXCEPT !.at = "mark", !.outcome = "failed",
                              !.reason = IF initFailed THEN "init" ELSE "timeout"])
            ELSE Watch(p, Idle)
    /\ UNCHANGED <<table, tasks, cluster, feed>>

MarkedByApp(p) == created  \* faulty: the newest row instead of the one that was judged
Marked(p) == watch[p].row

\* UPDATE deployments SET status = ..., failure_reason = ... WHERE id = $1: the
\* status the row has by now is not looked at, and an error is ignored.
MarkRow(p) ==
    /\ watch[p].at = "mark"
    /\ LET i == Marked(p) IN
       \/ /\ deployments' = IF deployments[i].status = "none" THEN deployments
                            ELSE [deployments EXCEPT ![i].status = watch[p].outcome,
                                                     ![i].reason = watch[p].reason]
          /\ UNCHANGED faults
       \/ Fault /\ UNCHANGED deployments
    /\ Watch(p, [watch[p] EXCEPT !.at = "record"])
    /\ UNCHANGED <<created, aged, events, tasks, cluster, feed>>

\* The event is inserted whether or not the row was updated.
RecordEvent(p) ==
    /\ watch[p].at = "record"
    /\ LET i == watch[p].row IN
       \/ /\ events' = IF deployments[i].status = "none" THEN events
                       ELSE events \cup {i}
          /\ UNCHANGED faults
       \/ Fault /\ UNCHANGED events
    /\ Watch(p, Idle)
    /\ UNCHANGED <<deployments, created, aged, tasks, cluster, feed>>

WatcherStep(p) == SelectPending(p) \/ InspectPods(p) \/ MarkRow(p) \/ RecordEvent(p)

\* The process restarts: its tasks and what its watcher had read are gone.
Crash(p) ==
    /\ Fault
    /\ tasks' = [tasks EXCEPT ![p] = {}]
    /\ feed' = [feed EXCEPT ![p] = <<>>]
    /\ \E start \in {Idle, Off} : Watch(p, start)
    /\ UNCHANGED <<table, cluster>>

-----------------------------------------------------------------------------
Init ==
    /\ deployments = [i \in Ids |-> NoRow]
    /\ created = 0 /\ aged = 0 /\ events = {} /\ faults = 0
    /\ tasks = [p \in Replicas |-> {}]
    /\ cluster = [a \in Apps |-> [template |-> None, serving |-> None, stalled |-> FALSE,
                                  initFailed |-> FALSE]]
    /\ feed = [p \in Replicas |-> <<>>]
    /\ watch = [p \in Replicas |-> Idle]

ProcessStep(p) ==
    \/ \E req \in Requests : CreateDeployment(p, req)
    \/ \E t \in tasks[p] : Apply(p, t) \/ ApplyFails(p, t)
    \/ Receive(p) \/ Restarted(p) \/ WatcherStep(p) \/ Crash(p)

ClusterStep(a) == PodAvailable(a) \/ InitContainerFails(a) \/ Stall(a) \/ PodLost(a)

Next ==
    \/ \E p \in Replicas : ProcessStep(p)
    \/ \E i \in Ids : FailedGC(i) \/ \E d \in Patches : UpdateDeployment(i, d)
    \/ \E a \in Apps : ClusterStep(a)
    \/ GrowOld

Spec == Init /\ [][Next]_vars

\* tokio polls the tasks and the watcher; the cluster's controllers finish a
\* rollout one way or the other (progressDeadlineSeconds); time passes.
Fairness ==
    /\ \A p \in Replicas :
         /\ WF_vars(Receive(p)) /\ WF_vars(WatcherStep(p))
         /\ WF_vars(\E t \in tasks[p] : Apply(p, t) \/ ApplyFails(p, t))
    /\ \A a \in Apps : WF_vars(PodAvailable(a) \/ Stall(a))
    /\ WF_vars(GrowOld)

FairSpec == Spec /\ Fairness

-----------------------------------------------------------------------------
\* Every variable has its type; an event names a row that still exists, a task
\* one that was inserted.
TypeOK ==
    /\ deployments \in [Ids -> Row]
    /\ created \in 0..MaxDeployments /\ aged \in 0..created
    /\ events \subseteq 1..created
    /\ \A e \in events : deployments[e].status # "none"
    /\ \A p \in Replicas : tasks[p] \subseteq Task /\ \A t \in tasks[p] : t.id <= created
    /\ cluster \in [Apps -> Object]
    /\ \A p \in Replicas : feed[p] \in Seq(Notice) /\ Len(feed[p]) <= MaxFeed
    /\ watch \in [Replicas -> Watcher]
    /\ faults \in 0..MaxFaults

\* Each process has a watcher: with several, a row one of them has resolved may be
\* marked again by another that selected it before.
OneReplica == \A p, q \in Replicas : p = q

\* Statuses move only as clients may rely on: the watcher's stale row ids and
\* unguarded UPDATEs, the GC and PATCH never revive or lose one, nor does a single
\* process overwrite one.
Status == INSTANCE DeploymentStatus WITH
    Rejudged <- ~OneReplica,
    status   <- [i \in Ids |-> deployments[i].status],
    owner    <- [i \in Ids |-> deployments[i].app]

ImplementsStatus == Status!Spec

\* A client has signed what the template names, for that application.
Signed(a, template) ==
    \E req \in Requests :
        /\ req.app = a /\ req.url = template.url /\ req.signature = "valid"
        /\ DigestIn[req.url] = template.digest

\* A template that carries a signature carries the digest the signature was
\* verified for, whatever was patched between the request and the apply.
AppliedSignatureVerified ==
    \A a \in Apps :
        LET template == cluster[a].template IN
        template # None /\ template.signed => template.digest # None /\ Signed(a, template)

\* A verdict has its grounds: the application was applied before the watcher heard
\* of it, a failed deployment has a reason and no other has one, and only an aged
\* one timed out.
VerdictsFounded ==
    \A i \in Ids :
        LET row == deployments[i] IN
        /\ row.status \in {"running", "failed"} => cluster[row.app].template # None
        /\ row.status = "failed" <=> row.reason # None
        /\ row.reason = "timeout" => i <= aged

\* A replica hears that the application of row i has an available pod.
Heard(i) ==
    \E p \in Replicas :
        /\ watch[p].at = "idle" /\ watch'[p].at = "select"
        /\ watch'[p].notice.app = deployments[i].app /\ watch'[p].notice.available

\* While availability of its application keeps being reported, a pending
\* deployment is resolved, however many others of the application the
\* unordered LIMIT 1 picks before it.
HeardPendingResolved ==
    \A i \in Ids :
        []<><<Heard(i)>>_vars => (deployments[i].status = "pending"
                                    ~> deployments[i].status # "pending")
===============================================================================
