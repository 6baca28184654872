---------------------- MODULE DeploymentControllerProofs ----------------------
(***************************************************************************)
(* Type correctness of the deployment service, that what is applied as     *)
(* signed was verified, that verdicts have their grounds (VerdictInv: it   *)
(* follows an application from the apply over the watch stream to what a   *)
(* watcher decides), and that control-plane processes move statuses only   *)
(* as DeploymentStatus allows.  That a single one never replaces a verdict *)
(* rests on one fact about its watcher (StillPending): nobody else         *)
(* resolves the row it has selected before it marks it.                    *)
(***************************************************************************)
EXTENDS DeploymentController, TLAPS

-----------------------------------------------------------------------------
TableOK ==
    /\ deployments \in [Ids -> Row]
    /\ created \in 0..MaxDeployments /\ aged \in 0..created
    /\ events \subseteq 1..created
    /\ \A e \in events : deployments[e].status # "none"
    /\ \A i \in Ids : i > created => deployments[i] = NoRow

TasksOK == \A p \in Replicas : tasks[p] \subseteq Task /\ \A t \in tasks[p] : t.id <= created

FeedOK == \A p \in Replicas : feed[p] \in Seq(Notice) /\ Len(feed[p]) <= MaxFeed

\* A watcher that has selected a row knows its id, and its outcome when it marks it.
WatchOK ==
    /\ watch \in [Replicas -> Watcher]
    /\ \A p \in Replicas :
         /\ watch[p].at \in {"pods", "mark", "record"} => watch[p].row \in 1..created
         /\ watch[p].at = "mark" => watch[p].outcome \in {"running", "failed"}

\* tasks and feed are written by EXCEPT.
Shaped == tasks = [p \in Replicas |-> tasks[p]] /\ feed = [p \in Replicas |-> feed[p]]

TypeInv ==
    /\ TableOK /\ TasksOK /\ cluster \in [Apps -> Object] /\ FeedOK /\ WatchOK /\ Shaped
    /\ faults \in 0..MaxFaults

-----------------------------------------------------------------------------
LEMMA InitTyped == Init => TypeInv
<1> SUFFICES ASSUME Init PROVE TypeInv
  OBVIOUS
<1>1. TableOK /\ TasksOK
  BY DeploymentAssumption DEF Init, TableOK, TasksOK, Row, NoRow
<1>2. cluster \in [Apps -> Object]
  BY DEF Init, Object
<1>3. FeedOK /\ Shaped /\ WatchOK
  BY DeploymentAssumption DEF Init, FeedOK, Shaped, WatchOK, Watcher, Idle
<1>4. faults \in 0..MaxFaults
  BY DeploymentAssumption DEF Init
<1> QED
  BY <1>1, <1>2, <1>3, <1>4 DEF TypeInv

LEMMA FaultTyped == ASSUME faults \in 0..MaxFaults, Fault PROVE faults' \in 0..MaxFaults
BY DeploymentAssumption DEF Fault

\* Steps that leave the table alone.
LEMMA TableKept ==
    ASSUME TypeInv, UNCHANGED table
    PROVE  TableOK' /\ created' = created
BY DEF TypeInv, TableOK, table

\* A watcher that goes on, with the table as it is.
LEMMA WatchTyped ==
    ASSUME TypeInv, UNCHANGED created, NEW p \in Replicas, NEW state \in Watcher, Watch(p, state),
           state.at \in {"pods", "mark", "record"} => state.row \in 1..created,
           state.at = "mark" => state.outcome \in {"running", "failed"}
    PROVE  WatchOK'
BY DEF TypeInv, WatchOK, Watch

LEMMA IdleTyped == Idle \in Watcher /\ Off \in Watcher /\ Idle.at = "idle" /\ Off.at = "off"
BY DEF Idle, Off, Watcher

\* A change of an object.
LEMMA ChangeTyped ==
    ASSUME TypeInv, NEW a \in Apps, NEW object \in Object, Change(a, object)
    PROVE  cluster' \in [Apps -> Object] /\ FeedOK' /\ feed' = [p \in Replicas |-> feed'[p]]
<1>1. cluster' \in [Apps -> Object]
  BY DEF TypeInv, Change
<1>2. NoticeOf(a, object) \in Notice
  BY DEF NoticeOf, Notice, Object
<1>3. ASSUME NEW p \in Replicas
      PROVE  feed'[p] \in Seq(Notice) /\ Len(feed'[p]) <= MaxFeed
  <2>1. feed[p] \in Seq(Notice) /\ Len(feed[p]) < MaxFeed
    BY DEF TypeInv, FeedOK, Change
  <2>2. feed'[p] = feed[p] \/ feed'[p] = Append(feed[p], NoticeOf(a, object))
    BY DEF Change
  <2> QED
    BY <1>2, <2>1, <2>2, DeploymentAssumption
<1>4. feed' = [p \in Replicas |-> feed'[p]]
  BY DEF Change
<1> QED
  BY <1>1, <1>3, <1>4 DEF FeedOK

LEMMA CreateTyped ==
    ASSUME TypeInv, NEW p \in Replicas, NEW req \in Requests, CreateDeployment(p, req)
    PROVE  TypeInv'
<1>1. PICK digest \in Resolutions(req) :
        /\ deployments' = [deployments EXCEPT ![created + 1] =
              [app |-> req.app, url |-> req.url, digest |-> digest,
               signed |-> req.signature # "none", status |-> "pending", reason |-> None]]
        /\ \/ /\ tasks' = [tasks EXCEPT ![p] = @ \cup {TaskOf(created + 1, req, digest)}]
              /\ UNCHANGED faults
           \/ Fault /\ UNCHANGED tasks
  BY DEF CreateDeployment
<1>2. /\ created < MaxDeployments /\ created' = created + 1
      /\ UNCHANGED <<aged, events, cluster, feed, watch>>
  BY DEF CreateDeployment
<1>3. req \in Request /\ digest \in Digests \cup {None} /\ created + 1 \in Ids
  BY <1>2, DeploymentAssumption DEF Resolutions, Request, TypeInv, TableOK, Ids
<1>4. [app |-> req.app, url |-> req.url, digest |-> digest, signed |-> req.signature # "none",
       status |-> "pending", reason |-> None] \in Row
  BY <1>3 DEF Request, Row
<1>5. TableOK'
  BY <1>1, <1>2, <1>3, <1>4, DeploymentAssumption DEF TypeInv, TableOK, Ids
<1>6. TaskOf(created + 1, req, digest) \in Task /\ TaskOf(created + 1, req, digest).id = created + 1
  BY <1>3 DEF TaskOf, Task, Template, Request
<1>7. TasksOK' /\ tasks' = [q \in Replicas |-> tasks'[q]]
  <2>1. tasks' = [q \in Replicas |-> tasks'[q]]
    BY <1>1 DEF TypeInv, Shaped
  <2>2. \A q \in Replicas : tasks'[q] \subseteq tasks[q] \cup {TaskOf(created + 1, req, digest)}
    BY <1>1 DEF TypeInv, Shaped
  <2>3. \A q \in Replicas : \A t \in tasks[q] : t \in Task /\ t.id <= created'
    BY <1>2, DeploymentAssumption DEF TypeInv, TasksOK, TableOK, Task, Ids
  <2>4. created + 1 <= created'
    BY <1>2, DeploymentAssumption DEF TypeInv, TableOK
  <2>5. \A q \in Replicas : \A t \in tasks'[q] : t \in Task /\ t.id <= created'
    BY <1>6, <2>2, <2>3, <2>4
  <2> QED
    BY <2>1, <2>5 DEF TasksOK
<1>8. WatchOK' /\ FeedOK' /\ Shaped'
  BY <1>2, <1>7, DeploymentAssumption DEF TypeInv, WatchOK, FeedOK, Shaped, TableOK
<1> QED
  BY <1>1, <1>2, <1>5, <1>7, <1>8, FaultTyped DEF TypeInv

LEMMA TableTyped ==
    ASSUME TypeInv,
           \/ \E i \in Ids : FailedGC(i) \/ \E d \in Patches : UpdateDeployment(i, d)
           \/ GrowOld
    PROVE  TypeInv'
<1>1. created' = created /\ UNCHANGED <<tasks, cluster, feed, watch>> /\ faults' \in 0..MaxFaults
  BY FaultTyped DEF TypeInv, FailedGC, UpdateDeployment, GrowOld
<1>2. ASSUME NEW i \in Ids, NEW d \in Patches, UpdateDeployment(i, d) PROVE TableOK'
  <2>1. /\ deployments[i].status # "none" /\ deployments' = [deployments EXCEPT ![i].digest = d]
        /\ UNCHANGED <<created, aged>> /\ (events' = events \/ events' = events \cup {i})
    BY <1>2 DEF UpdateDeployment
  <2>2. i \in 1..created
    BY <2>1 DEF TypeInv, TableOK, NoRow, Ids
  <2>3. d \in Digests /\ deployments' \in [Ids -> Row]
    BY <2>1, DeploymentAssumption DEF TypeInv, TableOK, Row
  <2>4. \A j \in Ids : deployments'[j].status = deployments[j].status
    BY <2>1 DEF TypeInv, TableOK, Row
  <2>5. events' \subseteq 1..created' /\ \A e \in events' : deployments'[e].status # "none"
    BY <2>1, <2>2, <2>4, DeploymentAssumption DEF TypeInv, TableOK, Ids
  <2> QED
    BY <2>1, <2>2, <2>3, <2>5 DEF TypeInv, TableOK
<1>3. ASSUME NEW i \in Ids, FailedGC(i) PROVE TableOK'
  <2> DEFINE gone == {j \in 1..i : deployments[j].status = "failed" /\ Superseded(j)}
  <2>1. /\ deployments' = [j \in Ids |-> IF j \in gone THEN NoRow ELSE deployments[j]]
        /\ events' = events \ gone /\ UNCHANGED <<created, aged>>
    BY <1>3 DEF FailedGC, EventsOfOthers
  <2>2. NoRow \in Row
    BY DEF NoRow, Row
  <2>3. deployments' \in [Ids -> Row] /\ \A j \in Ids : j > created' => deployments'[j] = NoRow
    BY <2>1, <2>2 DEF TypeInv, TableOK
  <2>4. events' \subseteq 1..created' /\ events' \subseteq Ids
    <3>1. events' \subseteq 1..created /\ created' = created
      BY <2>1 DEF TypeInv, TableOK
    <3>2. 1..created \subseteq Ids
      BY DeploymentAssumption DEF TypeInv, TableOK, Ids
    <3> QED
      BY <3>1, <3>2
  <2>5. \A e \in events' : deployments'[e] = deployments[e]
    BY <2>1, <2>4
  <2> QED
    BY <2>1, <2>3, <2>4, <2>5 DEF TypeInv, TableOK
<1>4. ASSUME GrowOld PROVE TableOK'
  BY <1>4, DeploymentAssumption DEF GrowOld, TypeInv, TableOK
<1>5. TableOK'
  BY <1>2, <1>3, <1>4
<1> QED
  BY <1>1, <1>5 DEF TypeInv, TasksOK, WatchOK, FeedOK, Shaped

LEMMA TaskTyped ==
    ASSUME TypeInv, NEW p \in Replicas, NEW t \in tasks[p], Apply(p, t) \/ ApplyFails(p, t)
    PROVE  TypeInv'
<1>1. /\ tasks' = [tasks EXCEPT ![p] = @ \ {t}] /\ UNCHANGED <<table, watch>>
      /\ UNCHANGED faults \/ Fault
      /\ \/ UNCHANGED <<cluster, feed>>
         \/ Change(t.app, [cluster[t.app] EXCEPT !.template = t.template])
  BY DEF Apply, ApplyFails, TemplateOf
<1>2. t \in Task
  BY DEF TypeInv, TasksOK
<1>3. t.app \in Apps /\ [cluster[t.app] EXCEPT !.template = t.template] \in Object
  BY <1>2 DEF Task, TypeInv, Object
<1>4. cluster' \in [Apps -> Object] /\ FeedOK' /\ feed' = [q \in Replicas |-> feed'[q]]
  BY <1>1, <1>3, ChangeTyped DEF TypeInv, FeedOK, Shaped
<1>5. TableOK' /\ created' = created
  BY <1>1, TableKept
<1>6. TasksOK' /\ tasks' = [q \in Replicas |-> tasks'[q]]
  BY <1>1, <1>5 DEF TypeInv, TasksOK, Shaped
<1>7. WatchOK' /\ faults' \in 0..MaxFaults
  BY <1>1, <1>5, FaultTyped DEF TypeInv, WatchOK
<1> QED
  BY <1>4, <1>5, <1>6, <1>7 DEF TypeInv, Shaped

LEMMA ClusterTyped ==
    ASSUME TypeInv, NEW a \in Apps, ClusterStep(a)
    PROVE  TypeInv'
<1>1. UNCHANGED <<table, tasks, watch, faults>>
  BY DEF ClusterStep, PodAvailable, InitContainerFails, Stall, PodLost
<1>2. \E object \in Object : Change(a, object)
  <2>1. cluster[a] \in Object
    BY DEF TypeInv
  <2>2. /\ [cluster[a] EXCEPT !.serving = cluster[a].template, !.stalled = FALSE,
                              !.initFailed = FALSE] \in Object
        /\ [cluster[a] EXCEPT !.initFailed = TRUE] \in Object
        /\ [cluster[a] EXCEPT !.stalled = TRUE] \in Object
        /\ [cluster[a] EXCEPT !.serving = None] \in Object
    BY <2>1 DEF Object
  <2> QED
    BY <2>2 DEF ClusterStep, PodAvailable, InitContainerFails, Stall, PodLost
<1>3. cluster' \in [Apps -> Object] /\ FeedOK' /\ feed' = [q \in Replicas |-> feed'[q]]
  BY <1>2, ChangeTyped
<1>4. TableOK' /\ created' = created
  BY <1>1, TableKept DEF table
<1>5. WatchOK' /\ TasksOK'
  BY <1>1, <1>4 DEF TypeInv, WatchOK, TasksOK
<1> QED
  BY <1>1, <1>3, <1>4, <1>5 DEF TypeInv, Shaped

\* What the watcher knows after its SELECT.
LEMMA JudgeTyped ==
    ASSUME TypeInv, NEW p \in Replicas, NEW i \in 1..created, i \in Nat
    PROVE  /\ Judge(p, i) \in Watcher /\ Judge(p, i).row = i
           /\ Judge(p, i).at \in {"mark", "pods"}
           /\ Judge(p, i).at = "mark" => Judge(p, i).outcome \in {"running", "failed"}
<1> DEFINE found == [watch[p] EXCEPT !.row = i]
<1>1. watch[p] \in Watcher
  BY DEF TypeInv, WatchOK
<1>2. /\ [found EXCEPT !.at = "mark", !.outcome = "running"] \in Watcher
      /\ [found EXCEPT !.at = "mark", !.outcome = "failed", !.reason = "progress"] \in Watcher
      /\ [found EXCEPT !.at = "pods"] \in Watcher
  BY <1>1 DEF Watcher
<1>3. \/ Judge(p, i) = [found EXCEPT !.at = "mark", !.outcome = "running"]
      \/ Judge(p, i) = [found EXCEPT !.at = "mark", !.outcome = "failed", !.reason = "progress"]
      \/ Judge(p, i) = [found EXCEPT !.at = "pods"]
  BY DEF Judge
<1>4. CASE Judge(p, i) = [found EXCEPT !.at = "mark", !.outcome = "running"]
  BY <1>1, <1>2, <1>4 DEF Watcher
<1>5. CASE Judge(p, i) = [found EXCEPT !.at = "mark", !.outcome = "failed", !.reason = "progress"]
  BY <1>1, <1>2, <1>5 DEF Watcher
<1>6. CASE Judge(p, i) = [found EXCEPT !.at = "pods"]
  BY <1>1, <1>2, <1>6 DEF Watcher
<1> QED
  BY <1>3, <1>4, <1>5, <1>6

LEMMA WatcherTyped ==
    ASSUME TypeInv, NEW p \in Replicas, WatcherStep(p)
    PROVE  TypeInv'
<1>1. UNCHANGED <<created, aged, tasks, cluster, feed>> /\ faults' \in 0..MaxFaults
  BY FaultTyped DEF WatcherStep, SelectPending, InspectPods, MarkRow, RecordEvent, table, TypeInv
<1>2. watch[p] \in Watcher
  BY DEF TypeInv, WatchOK
<1>3. CASE SelectPending(p)
  <2>1. UNCHANGED table
    BY <1>3 DEF SelectPending
  <2>2. \/ \E i \in Candidates(watch[p].notice.app) : Watch(p, Judge(p, i))
        \/ Watch(p, Idle)
    BY <1>3 DEF SelectPending
  <2>3. \A i \in Candidates(watch[p].notice.app) : i \in 1..created /\ i \in Nat
    BY DEF Candidates, TypeInv, TableOK, NoRow, Ids
  <2>4. WatchOK'
    BY <1>1, <2>2, <2>3, IdleTyped, JudgeTyped, WatchTyped
  <2> QED
    BY <1>1, <2>1, <2>4, TableKept DEF TypeInv, TasksOK, FeedOK, Shaped
<1>4. CASE InspectPods(p)
  <2>1. UNCHANGED table /\ watch[p].at = "pods"
    BY <1>4 DEF InspectPods
  <2>2. \/ \E reason \in {"init", "timeout"} :
             Watch(p, [watch[p] EXCEPT !.at = "mark", !.outcome = "failed", !.reason = reason])
        \/ Watch(p, Idle)
    BY <1>4 DEF InspectPods
  <2>3. \A reason \in {"init", "timeout"} :
          LET state == [watch[p] EXCEPT !.at = "mark", !.outcome = "failed", !.reason = reason]
          IN  state \in Watcher /\ state.row = watch[p].row /\ state.outcome = "failed"
    BY <1>2 DEF Watcher
  <2>4. watch[p].row \in 1..created
    BY <2>1 DEF TypeInv, WatchOK
  <2>5. WatchOK'
    BY <1>1, <2>2, <2>3, <2>4, IdleTyped, WatchTyped
  <2> QED
    BY <1>1, <2>1, <2>5, TableKept DEF TypeInv, TasksOK, FeedOK, Shaped
<1>5. CASE MarkRow(p)
  <2> DEFINE i == watch[p].row
  <2>1. /\ watch[p].at = "mark" /\ UNCHANGED events
        /\ Watch(p, [watch[p] EXCEPT !.at = "record"])
        /\ \/ UNCHANGED deployments
           \/ /\ deployments[i].status # "none"
              /\ deployments' = [deployments EXCEPT ![i].status = watch[p].outcome,
                                                    ![i].reason = watch[p].reason]
    BY <1>5 DEF MarkRow, Marked
  <2>2. i \in 1..created /\ i \in Ids /\ watch[p].outcome \in {"running", "failed"}
        /\ watch[p].reason \in {None, "progress", "init", "timeout"}
    BY <1>2, <2>1, DeploymentAssumption DEF TypeInv, WatchOK, Watcher, TableOK, Ids
  <2>3. deployments' \in [Ids -> Row]
    BY <2>1, <2>2 DEF TypeInv, TableOK, Row
  <2>4. /\ \A j \in Ids \ {i} : deployments'[j] = deployments[j]
        /\ deployments'[i].status = deployments[i].status
             \/ deployments'[i].status \in {"running", "failed"}
    BY <2>1, <2>2 DEF TypeInv, TableOK, Row
  <2>5. TableOK'
    <3>1. events' \subseteq Ids /\ \A e \in events' : deployments'[e].status # "none"
      BY <2>1, <2>2, <2>4, DeploymentAssumption DEF TypeInv, TableOK, Ids
    <3>2. \A j \in Ids : j > created' => deployments'[j] = NoRow
      BY <1>1, <2>2, <2>4, DeploymentAssumption DEF TypeInv, TableOK, Ids
    <3> QED
      BY <1>1, <2>1, <2>3, <3>1, <3>2 DEF TypeInv, TableOK
  <2>6. [watch[p] EXCEPT !.at = "record"] \in Watcher
        /\ [watch[p] EXCEPT !.at = "record"].row = i
        /\ [watch[p] EXCEPT !.at = "record"].at = "record"
    BY <1>2 DEF Watcher
  <2>7. WatchOK'
    BY <1>1, <2>1, <2>2, <2>6, WatchTyped
  <2> QED
    BY <1>1, <2>5, <2>7 DEF TypeInv, TasksOK, FeedOK, Shaped
<1>6. CASE RecordEvent(p)
  <2> DEFINE i == watch[p].row
  <2>1. /\ watch[p].at = "record" /\ UNCHANGED deployments /\ Watch(p, Idle)
        /\ \/ UNCHANGED events
           \/ deployments[i].status # "none" /\ events' = events \cup {i}
    BY <1>6 DEF RecordEvent
  <2>2. i \in 1..created
    BY <2>1 DEF TypeInv, WatchOK
  <2>3. TableOK'
    BY <1>1, <2>1, <2>2 DEF TypeInv, TableOK
  <2>4. WatchOK'
    BY <1>1, <2>1, IdleTyped, WatchTyped
  <2> QED
    BY <1>1, <2>3, <2>4 DEF TypeInv, TasksOK, FeedOK, Shaped
<1> QED
  BY <1>3, <1>4, <1>5, <1>6 DEF WatcherStep

LEMMA FeedTyped ==
    ASSUME TypeInv, NEW p \in Replicas, Receive(p) \/ Restarted(p) \/ Crash(p)
    PROVE  TypeInv'
<1>1. /\ UNCHANGED <<table, cluster>> /\ (UNCHANGED faults \/ Fault)
      /\ tasks' = tasks \/ tasks' = [tasks EXCEPT ![p] = {}]
  BY DEF Receive, Restarted, Crash
<1>2. TableOK' /\ created' = created
  BY <1>1, TableKept
<1>3. TasksOK' /\ tasks' = [q \in Replicas |-> tasks'[q]]
  BY <1>1, <1>2 DEF TypeInv, TasksOK, Shaped
<1>4. feed[p] \in Seq(Notice) /\ Len(feed[p]) <= MaxFeed
  BY DEF TypeInv, FeedOK
<1>5. \/ feed' = [feed EXCEPT ![p] = Tail(feed[p])] /\ feed[p] # <<>>
      \/ feed' = [feed EXCEPT ![p] = <<>>]
  BY DEF Receive, Restarted, Crash
<1>6. FeedOK' /\ feed' = [q \in Replicas |-> feed'[q]]
  <2>1. /\ feed[p] # <<>> => Tail(feed[p]) \in Seq(Notice) /\ Len(Tail(feed[p])) <= MaxFeed
        /\ <<>> \in Seq(Notice) /\ Len(<<>>) <= MaxFeed
    BY <1>4, DeploymentAssumption
  <2>2. /\ \A q \in Replicas \ {p} : feed'[q] = feed[q]
        /\ feed'[p] \in Seq(Notice) /\ Len(feed'[p]) <= MaxFeed
        /\ feed' = [q \in Replicas |-> feed'[q]]
    BY <1>5, <2>1 DEF TypeInv, Shaped
  <2> QED
    BY <2>2 DEF TypeInv, FeedOK
<1>7. WatchOK'
  <2>1. ASSUME Receive(p) PROVE WatchOK'
    <3> DEFINE state == [Idle EXCEPT !.at = "select", !.notice = Head(feed[p])]
    <3>1. feed[p] # <<>> /\ Watch(p, state)
      BY <2>1 DEF Receive
    <3>2. Head(feed[p]) \in Notice
      BY <1>4, <3>1
    <3>3. state \in Watcher /\ state.at = "select"
      BY <3>2 DEF Idle, Watcher
    <3> QED
      BY <1>2, <3>1, <3>3, WatchTyped
  <2>2. ASSUME Crash(p) PROVE WatchOK'
    BY <1>2, <2>2, IdleTyped, WatchTyped DEF Crash
  <2>3. ASSUME Restarted(p) PROVE WatchOK'
    BY <1>2, <2>3 DEF Restarted, TypeInv, WatchOK
  <2> QED
    BY <2>1, <2>2, <2>3
<1> QED
  BY <1>1, <1>2, <1>3, <1>6, <1>7, FaultTyped DEF TypeInv, Shaped

LEMMA StepTyped == TypeInv /\ [Next]_vars => TypeInv'
<1> SUFFICES ASSUME TypeInv, [Next]_vars PROVE TypeInv'
  OBVIOUS
<1>1. CASE UNCHANGED vars
  BY <1>1 DEF vars, table, TypeInv, TableOK, TasksOK, FeedOK, WatchOK, Shaped
<1>2. CASE Next
  BY <1>2, CreateTyped, TableTyped, TaskTyped, ClusterTyped, WatcherTyped, FeedTyped
     DEF Next, ProcessStep
<1> QED
  BY <1>1, <1>2

\* Every variable keeps its type; events belong to rows that exist, tasks to rows that
\* were inserted.
THEOREM DeploymentsTypeCorrect == Spec => []TypeOK
<1>1. TypeInv => TypeOK
  BY DEF TypeInv, TableOK, TasksOK, FeedOK, WatchOK, TypeOK
<1> QED
  BY <1>1, InitTyped, StepTyped, PTL DEF Spec

-----------------------------------------------------------------------------
\* Signatures are verified before a task is spawned, and a task's template is its own.
Genuine(a, template) == template.signed => template.digest # None /\ Signed(a, template)

SignedInv ==
    /\ \A p \in Replicas : \A t \in tasks[p] : Genuine(t.app, t.template)
    /\ AppliedSignatureVerified

LEMMA TaskGenuine ==
    ASSUME NEW req \in Requests, NEW digest \in Resolutions(req), Verified(req, digest), NEW id
    PROVE  Genuine(TaskOf(id, req, digest).app, TaskOf(id, req, digest).template)
<1>1. req \in Request
  BY DeploymentAssumption
<1> QED
  BY <1>1 DEF Genuine, Signed, TaskOf, Verified, Resolutions, Request

LEMMA ChangeKeepsTemplate ==
    ASSUME cluster \in [Apps -> Object], NEW a \in Apps, NEW object, Change(a, object),
           object.template = cluster[a].template
    PROVE  \A b \in Apps : cluster'[b].template = cluster[b].template
BY DEF Change

LEMMA StepSigned == TypeInv /\ SignedInv /\ [Next]_vars => SignedInv'
<1> SUFFICES ASSUME TypeInv, SignedInv, [Next]_vars PROVE SignedInv'
  OBVIOUS
<1>1. ASSUME \A p \in Replicas : \A t \in tasks'[p] : Genuine(t.app, t.template),
             \A a \in Apps : cluster'[a].template = cluster[a].template
      PROVE  SignedInv'
  BY <1>1 DEF SignedInv, AppliedSignatureVerified, Genuine, Signed
<1>2. ASSUME NEW p \in Replicas, NEW req \in Requests, CreateDeployment(p, req) PROVE SignedInv'
  <2>1. PICK digest \in Resolutions(req) :
          /\ Verified(req, digest) /\ UNCHANGED cluster
          /\ \/ tasks' = [tasks EXCEPT ![p] = @ \cup {TaskOf(created + 1, req, digest)}]
             \/ UNCHANGED tasks
    BY <1>2 DEF CreateDeployment
  <2>2. \A q \in Replicas : tasks'[q] \subseteq tasks[q] \cup {TaskOf(created + 1, req, digest)}
    BY <2>1 DEF TypeInv, Shaped
  <2> QED
    BY <1>1, <2>1, <2>2, TaskGenuine DEF SignedInv
<1>3. ASSUME NEW p \in Replicas, NEW t \in tasks[p], Apply(p, t) PROVE SignedInv'
  <2>1. /\ \A q \in Replicas : tasks'[q] \subseteq tasks[q]
        /\ \A a \in Apps : \/ cluster'[a].template = cluster[a].template
                           \/ a = t.app /\ cluster'[a].template = t.template
    <3>1. t.app \in Apps /\ cluster[t.app] \in Object
      BY DEF TypeInv, TasksOK, Task
    <3> QED
      BY <1>3, <3>1 DEF Apply, Change, TemplateOf, TypeInv, Shaped, Object
  <2>2. Genuine(t.app, t.template)
    BY DEF SignedInv
  <2> QED
    BY <2>1, <2>2 DEF SignedInv, AppliedSignatureVerified, Genuine, Signed
<1>4. ASSUME NEW p \in Replicas, NEW t \in tasks[p], ApplyFails(p, t) PROVE SignedInv'
  <2>1. UNCHANGED cluster /\ \A q \in Replicas : tasks'[q] \subseteq tasks[q]
    BY <1>4 DEF ApplyFails, TypeInv, Shaped
  <2> QED
    BY <1>1, <2>1 DEF SignedInv
<1>5. ASSUME NEW p \in Replicas, Receive(p) \/ Restarted(p) \/ WatcherStep(p) \/ Crash(p)
      PROVE  SignedInv'
  <2>1. UNCHANGED cluster /\ \A q \in Replicas : tasks'[q] \subseteq tasks[q]
    BY <1>5 DEF Receive, Restarted, WatcherStep, SelectPending, InspectPods, MarkRow, RecordEvent,
                Crash, TypeInv, Shaped
  <2> QED
    BY <1>1, <2>1 DEF SignedInv
<1>6. ASSUME NEW a \in Apps, ClusterStep(a) PROVE SignedInv'
  <2>1. UNCHANGED tasks
    BY <1>6 DEF ClusterStep, PodAvailable, InitContainerFails, Stall, PodLost
  <2>2. cluster[a] \in Object /\ cluster \in [Apps -> Object]
    BY DEF TypeInv
  <2>3. /\ [cluster[a] EXCEPT !.serving = cluster[a].template, !.stalled = FALSE,
                              !.initFailed = FALSE].template = cluster[a].template
        /\ [cluster[a] EXCEPT !.initFailed = TRUE].template = cluster[a].template
        /\ [cluster[a] EXCEPT !.stalled = TRUE].template = cluster[a].template
        /\ [cluster[a] EXCEPT !.serving = None].template = cluster[a].template
    BY <2>2 DEF Object
  <2>4. \A b \in Apps : cluster'[b].template = cluster[b].template
    BY <1>6, <2>2, <2>3, ChangeKeepsTemplate
       DEF ClusterStep, PodAvailable, InitContainerFails, Stall, PodLost
  <2> QED
    BY <1>1, <2>1, <2>4 DEF SignedInv
<1>7. ASSUME UNCHANGED <<tasks, cluster>> PROVE SignedInv'
  BY <1>1, <1>7 DEF SignedInv
<1>8. CASE UNCHANGED vars
  BY <1>7, <1>8 DEF vars
<1>9. CASE Next
  BY <1>2, <1>3, <1>4, <1>5, <1>6, <1>7, <1>9
     DEF Next, ProcessStep, FailedGC, UpdateDeployment, GrowOld
<1> QED
  BY <1>8, <1>9

\* A template applied as signed carries the digest its signature was verified for,
\* whatever was patched between the request and the apply.
THEOREM AppliedSignaturesVerified == Spec => []AppliedSignatureVerified
<1>1. Init => SignedInv
  BY DEF Init, SignedInv, AppliedSignatureVerified
<1>2. SignedInv => AppliedSignatureVerified
  BY DEF SignedInv
<1> QED
  BY <1>1, <1>2, InitTyped, StepTyped, StepSigned, PTL DEF Spec

-----------------------------------------------------------------------------
(***************************************************************************)
(* Verdicts.  What a watcher holds after its SELECT stays true of the row  *)
(* and of the cluster until it marks the row, whatever happens in between. *)
(***************************************************************************)
Applied(a) == cluster[a].template # None

RowsFounded ==
    /\ \A i \in Ids : deployments[i].status # "none" => deployments[i].app \in Apps
    /\ VerdictsFounded

ServedApplied == \A a \in Apps : cluster[a].serving # None => Applied(a)

FeedFounded == \A p \in Replicas : \A k \in 1..Len(feed[p]) : Applied(feed[p][k].app)

\* What a watcher knows at each of its steps.
Founded(state) ==
    /\ state.at \in {"select", "pods", "mark"} => state.notice \in Notice /\ Applied(state.notice.app)
    /\ state.at \in {"select", "pods"} => state.reason = None
    /\ state.at \in {"pods", "mark"} /\ deployments[state.row].status # "none"
         => deployments[state.row].app = state.notice.app
    /\ state.at = "mark" => /\ state.outcome = "failed" <=> state.reason # None
                            /\ state.reason = "timeout" => state.row <= aged

WatchFounded == \A p \in Replicas : Founded(watch[p])

VerdictInv == RowsFounded /\ ServedApplied /\ FeedFounded /\ WatchFounded

\* Rows whose owner, status and reason stay, or that are deleted, stay founded; and so
\* does what the watchers know of them.
LEMMA RowsKept ==
    ASSUME TypeInv, VerdictInv, aged' \in Nat, aged <= aged',
           \A a \in Apps : Applied(a) => cluster'[a].template # None,
           \A i \in 1..created : \/ deployments'[i] = NoRow
                                 \/ /\ deployments'[i].status = deployments[i].status
                                    /\ deployments'[i].app = deployments[i].app
                                    /\ deployments'[i].reason = deployments[i].reason,
           \A i \in Ids : i > created => \/ deployments'[i] = NoRow
                                         \/ /\ deployments'[i].status = "pending"
                                            /\ deployments'[i].app \in Apps
                                            /\ deployments'[i].reason = None
    PROVE  /\ RowsFounded'
           /\ \A p \in Replicas : watch'[p] = watch[p] => Founded(watch[p])'
<1>1. aged \in Nat /\ created \in Nat
  BY DeploymentAssumption DEF TypeInv, TableOK
<1>2. ASSUME NEW i \in Ids
      PROVE  /\ deployments'[i].status # "none" => deployments'[i].app \in Apps
             /\ deployments'[i].status \in {"running", "failed"} => cluster'[deployments'[i].app].template # None
             /\ deployments'[i].status = "failed" <=> deployments'[i].reason # None
             /\ deployments'[i].reason = "timeout" => i <= aged'
  <2>1. CASE i > created
    BY <2>1, DeploymentAssumption DEF NoRow
  <2>2. CASE i \in 1..created /\ deployments'[i] = NoRow
    BY <2>2, DeploymentAssumption DEF NoRow
  <2>3. CASE /\ deployments'[i].status = deployments[i].status
             /\ deployments'[i].app = deployments[i].app
             /\ deployments'[i].reason = deployments[i].reason
    <3>1. /\ deployments[i].status # "none" => deployments[i].app \in Apps
          /\ deployments[i].status \in {"running", "failed"} => Applied(deployments[i].app)
          /\ deployments[i].status = "failed" <=> deployments[i].reason # None
          /\ deployments[i].reason = "timeout" => i <= aged
      BY DEF VerdictInv, RowsFounded, VerdictsFounded, Applied
    <3>2. i \in Nat
      BY DEF Ids
    <3> QED
      BY <1>1, <2>3, <3>1, <3>2
  <2> QED
    BY <1>1, <2>1, <2>2, <2>3 DEF Ids
<1>3. RowsFounded'
  BY <1>2 DEF RowsFounded, VerdictsFounded, Applied
<1>4. ASSUME NEW p \in Replicas, watch'[p] = watch[p] PROVE Founded(watch[p])'
  <2>1. Founded(watch[p]) /\ watch[p] \in Watcher
    BY DEF VerdictInv, WatchFounded, TypeInv, WatchOK
  <2>2. watch[p].at \in {"pods", "mark"} => watch[p].row \in 1..created
    BY DEF TypeInv, WatchOK
  <2>3. watch[p].at \in {"pods", "mark"} /\ deployments'[watch[p].row].status # "none"
          => deployments'[watch[p].row].app = watch[p].notice.app
    BY <2>1, <2>2 DEF Founded, NoRow
  <2>4. watch[p].row \in Nat
    BY <2>1 DEF Watcher
  <2>5. watch[p].at = "mark" /\ watch[p].reason = "timeout" => watch[p].row <= aged'
    BY <1>1, <2>1, <2>4 DEF Founded
  <2>6. watch[p].at \in {"select", "pods", "mark"}
          => watch[p].notice \in Notice /\ cluster'[watch[p].notice.app].template # None
    BY <2>1 DEF Founded, Notice
  <2> QED
    BY <1>4, <2>1, <2>3, <2>5, <2>6 DEF Founded, Applied
<1> QED
  BY <1>3, <1>4

LEMMA CreateFounded ==
    ASSUME TypeInv, VerdictInv, NEW p \in Replicas, NEW req \in Requests, CreateDeployment(p, req)
    PROVE  VerdictInv'
<1>1. PICK digest \in Resolutions(req) : deployments' = [deployments EXCEPT ![created + 1] =
              [app |-> req.app, url |-> req.url, digest |-> digest,
               signed |-> req.signature # "none", status |-> "pending", reason |-> None]]
  BY DEF CreateDeployment
<1>2. /\ UNCHANGED <<aged, cluster, feed, watch>> /\ created + 1 \in Ids /\ req.app \in Apps
      /\ aged \in Nat /\ created \in Nat
  BY DeploymentAssumption DEF CreateDeployment, TypeInv, TableOK, Ids, Request
<1>3. /\ \A i \in Ids \ {created + 1} : deployments'[i] = deployments[i]
      /\ deployments'[created + 1].status = "pending" /\ deployments'[created + 1].app = req.app
      /\ deployments'[created + 1].reason = None
  BY <1>1, <1>2 DEF TypeInv, TableOK
<1>4. 1..created \subseteq Ids \ {created + 1}
  BY <1>2, DeploymentAssumption DEF Ids
<1>5. \A i \in Ids : i > created => i = created + 1 \/ deployments'[i] = NoRow
  BY <1>2, <1>3 DEF TypeInv, TableOK, Ids
<1>6. \A a \in Apps : Applied(a) => cluster'[a].template # None
  BY <1>2 DEF Applied
<1>7. RowsFounded' /\ \A q \in Replicas : watch'[q] = watch[q] => Founded(watch[q])'
  BY <1>2, <1>3, <1>4, <1>5, <1>6, RowsKept
<1> QED
  BY <1>2, <1>7 DEF VerdictInv, ServedApplied, FeedFounded, WatchFounded, Applied

LEMMA TableFounded ==
    ASSUME TypeInv, VerdictInv,
           \/ \E i \in Ids : FailedGC(i) \/ \E d \in Patches : UpdateDeployment(i, d)
           \/ GrowOld
    PROVE  VerdictInv'
<1>1. UNCHANGED <<created, cluster, feed, watch>>
  BY DEF FailedGC, UpdateDeployment, GrowOld
<1>2. aged' \in Nat /\ aged <= aged' /\ 1..created \subseteq Ids
  <2>1. aged \in Nat /\ 1..created \subseteq Ids
    BY DeploymentAssumption DEF TypeInv, TableOK, Ids
  <2>2. aged' = aged \/ aged' = aged + 1
    BY DEF FailedGC, UpdateDeployment, GrowOld
  <2> QED
    BY <2>1, <2>2
<1>3. \A i \in Ids : \/ deployments'[i] = NoRow
                     \/ /\ deployments'[i].status = deployments[i].status
                        /\ deployments'[i].app = deployments[i].app
                        /\ deployments'[i].reason = deployments[i].reason
  <2>1. ASSUME NEW i \in Ids, NEW d \in Patches, UpdateDeployment(i, d), NEW j \in Ids
        PROVE  /\ deployments'[j].status = deployments[j].status
               /\ deployments'[j].app = deployments[j].app
               /\ deployments'[j].reason = deployments[j].reason
    BY <2>1 DEF UpdateDeployment, TypeInv, TableOK, Row
  <2>2. ASSUME NEW i \in Ids, FailedGC(i), NEW j \in Ids
        PROVE  deployments'[j] = NoRow \/ deployments'[j] = deployments[j]
    BY <2>2 DEF FailedGC
  <2>3. ASSUME GrowOld PROVE UNCHANGED deployments
    BY <2>3 DEF GrowOld
  <2> QED
    BY <2>1, <2>2, <2>3
<1>4. \A i \in Ids : i > created => deployments'[i] = NoRow
  <2>1. ASSUME NEW i \in Ids, NEW d \in Patches, UpdateDeployment(i, d), NEW j \in Ids, j > created
        PROVE  deployments'[j] = NoRow
    <3>1. i # j
      BY <2>1 DEF UpdateDeployment, TypeInv, TableOK, NoRow
    <3> QED
      BY <2>1, <3>1 DEF UpdateDeployment, TypeInv, TableOK
  <2> QED
    BY <2>1 DEF FailedGC, GrowOld, TypeInv, TableOK
<1>5. \A a \in Apps : Applied(a) => cluster'[a].template # None
  BY <1>1 DEF Applied
<1>6. RowsFounded' /\ \A q \in Replicas : watch'[q] = watch[q] => Founded(watch[q])'
  BY <1>2, <1>3, <1>4, <1>5, RowsKept
<1> QED
  BY <1>1, <1>6 DEF VerdictInv, ServedApplied, FeedFounded, WatchFounded, Applied

\* An object that changes has been applied, and its notices are of it.
LEMMA ChangeFounded ==
    ASSUME TypeInv, VerdictInv, NEW a \in Apps, NEW object \in Object, Change(a, object),
           object.template # None, UNCHANGED <<deployments, created, aged, watch>>
    PROVE  VerdictInv'
<1>1. /\ cluster'[a] = object /\ \A b \in Apps \ {a} : cluster'[b] = cluster[b]
  BY DEF Change, TypeInv
<1>2. \A b \in Apps : Applied(b) => cluster'[b].template # None
  BY <1>1 DEF Applied
<1>3. ServedApplied'
  BY <1>1 DEF VerdictInv, ServedApplied, Applied
<1>4. ASSUME NEW p \in Replicas, NEW k \in 1..Len(feed'[p]) PROVE cluster'[feed'[p][k].app].template # None
  <2>1. feed[p] \in Seq(Notice) /\ \A n \in 1..Len(feed[p]) : Applied(feed[p][n].app)
    BY DEF TypeInv, FeedOK, VerdictInv, FeedFounded
  <2>2. NoticeOf(a, object).app = a
    BY DEF NoticeOf
  <2>3. NoticeOf(a, object) \in Notice
    BY DEF NoticeOf, Notice, Object
  <2>4. feed'[p] = feed[p] \/ feed'[p] = Append(feed[p], NoticeOf(a, object))
    BY DEF Change
  <2>5. \A n \in 1..Len(feed[p]) : feed[p][n].app \in Apps
    <3>1. \A n \in 1..Len(feed[p]) : feed[p][n] \in Notice
      BY <2>1
    <3> QED
      BY <3>1 DEF Notice
  <2>6. cluster'[a].template # None
    BY <1>1
  <2>7. CASE feed'[p] = feed[p]
    BY <1>2, <1>4, <2>1, <2>5, <2>7 DEF Applied
  <2>8. CASE feed'[p] = Append(feed[p], NoticeOf(a, object))
    <3>1. /\ Len(feed'[p]) = Len(feed[p]) + 1 /\ Len(feed[p]) \in Nat
          /\ \A n \in 1..Len(feed[p]) : feed'[p][n] = feed[p][n]
          /\ feed'[p][Len(feed[p]) + 1] = NoticeOf(a, object)
      BY <2>1, <2>3, <2>8
    <3>2. CASE k = Len(feed[p]) + 1
      BY <2>2, <2>6, <3>1, <3>2
    <3>3. CASE k \in 1..Len(feed[p])
      BY <1>2, <2>1, <2>5, <3>1, <3>3 DEF Applied
    <3> QED
      BY <1>4, <3>1, <3>2, <3>3
  <2> QED
    BY <2>4, <2>7, <2>8
<1>5. aged \in Nat /\ created \in Nat /\ 1..created \subseteq Ids
  BY DeploymentAssumption DEF TypeInv, TableOK, Ids
<1>6. \A i \in Ids : i > created => deployments'[i] = NoRow
  BY DEF TypeInv, TableOK
<1>7. RowsFounded' /\ \A q \in Replicas : watch'[q] = watch[q] => Founded(watch[q])'
  BY <1>2, <1>5, <1>6, RowsKept
<1> QED
  BY <1>3, <1>4, <1>7 DEF VerdictInv, FeedFounded, WatchFounded, Applied

\* A step that leaves the table and the cluster alone.
LEMMA FoundedKept ==
    ASSUME TypeInv, VerdictInv, UNCHANGED <<deployments, created, aged, cluster>>
    PROVE  /\ RowsFounded' /\ ServedApplied'
           /\ \A p \in Replicas : Founded(watch[p]) => (watch'[p] = watch[p] => Founded(watch[p])')
           /\ \A a \in Apps : Applied(a) => cluster'[a].template # None
BY DEF VerdictInv, RowsFounded, VerdictsFounded, ServedApplied, Founded, Applied

LEMMA TaskFounded ==
    ASSUME TypeInv, VerdictInv, NEW p \in Replicas, NEW t \in tasks[p], Apply(p, t) \/ ApplyFails(p, t)
    PROVE  VerdictInv'
<1>1. UNCHANGED <<deployments, created, aged, watch>>
  BY DEF Apply, ApplyFails, table
<1>2. t \in Task
  BY DEF TypeInv, TasksOK
<1>3. t.app \in Apps /\ cluster[t.app] \in Object /\ t.template \in Template /\ t.template # None
  BY <1>2, DeploymentAssumption DEF Task, TypeInv
<1>4. /\ [cluster[t.app] EXCEPT !.template = t.template] \in Object
      /\ [cluster[t.app] EXCEPT !.template = t.template].template = t.template
  BY <1>3 DEF Object
<1>5. \/ UNCHANGED <<cluster, feed>>
      \/ Change(t.app, [cluster[t.app] EXCEPT !.template = t.template])
  BY DEF Apply, ApplyFails, TemplateOf
<1>6. ASSUME UNCHANGED <<cluster, feed>> PROVE VerdictInv'
  BY <1>1, <1>6, FoundedKept DEF VerdictInv, FeedFounded, WatchFounded, Founded, Applied
<1> QED
  BY <1>1, <1>3, <1>4, <1>5, <1>6, ChangeFounded

LEMMA ClusterFounded ==
    ASSUME TypeInv, VerdictInv, NEW a \in Apps, ClusterStep(a)
    PROVE  VerdictInv'
<1>1. UNCHANGED <<deployments, created, aged, watch>>
  BY DEF ClusterStep, PodAvailable, InitContainerFails, Stall, PodLost, table
<1>2. cluster[a] \in Object
  BY DEF TypeInv
<1>3. cluster[a].template # None
  BY DEF ClusterStep, PodAvailable, InitContainerFails, Stall, PodLost, RollingOut,
         VerdictInv, ServedApplied, Applied
<1>4. \E object \in Object : object.template = cluster[a].template /\ Change(a, object)
  <2>1. /\ [cluster[a] EXCEPT !.serving = cluster[a].template, !.stalled = FALSE,
                              !.initFailed = FALSE] \in Object
        /\ [cluster[a] EXCEPT !.initFailed = TRUE] \in Object
        /\ [cluster[a] EXCEPT !.stalled = TRUE] \in Object
        /\ [cluster[a] EXCEPT !.serving = None] \in Object
    BY <1>2 DEF Object
  <2>2. /\ [cluster[a] EXCEPT !.serving = cluster[a].template, !.stalled = FALSE,
                              !.initFailed = FALSE].template = cluster[a].template
        /\ [cluster[a] EXCEPT !.initFailed = TRUE].template = cluster[a].template
        /\ [cluster[a] EXCEPT !.stalled = TRUE].template = cluster[a].template
        /\ [cluster[a] EXCEPT !.serving = None].template = cluster[a].template
    BY <1>2 DEF Object
  <2> QED
    BY <2>1, <2>2 DEF ClusterStep, PodAvailable, InitContainerFails, Stall, PodLost
<1> QED
  BY <1>1, <1>3, <1>4, ChangeFounded

\* A watcher that goes on, with the cluster as it is and its row as it was.
LEMMA WatchStepFounded ==
    ASSUME TypeInv, VerdictInv, UNCHANGED <<deployments, created, aged, cluster, feed>>,
           NEW p \in Replicas, NEW state, Watch(p, state), Founded(state)
    PROVE  VerdictInv'
<1>1. watch'[p] = state /\ \A q \in Replicas \ {p} : watch'[q] = watch[q]
  BY DEF Watch, TypeInv, WatchOK
<1>2. \A q \in Replicas : Founded(watch'[q])
  BY <1>1 DEF VerdictInv, WatchFounded
<1>3. WatchFounded'
  BY <1>2 DEF WatchFounded, Founded, Applied
<1>4. RowsFounded' /\ ServedApplied' /\ FeedFounded'
  BY DEF VerdictInv, RowsFounded, VerdictsFounded, ServedApplied, FeedFounded, Applied
<1> QED
  BY <1>3, <1>4 DEF VerdictInv

LEMMA IdleFounded == Founded(Idle) /\ Founded(Off)
BY DEF Founded, Idle, Off

\* What the SELECT and the conditions of the notice establish.
LEMMA JudgeFounded ==
    ASSUME TypeInv, VerdictInv, NEW p \in Replicas, watch[p].at = "select",
           NEW i \in Candidates(watch[p].notice.app)
    PROVE  Founded(Judge(p, i))
<1> DEFINE found == [watch[p] EXCEPT !.row = i]
<1>1. watch[p] \in Watcher /\ Founded(watch[p])
  BY DEF TypeInv, WatchOK, VerdictInv, WatchFounded
<1>2. /\ watch[p].notice \in Notice /\ Applied(watch[p].notice.app) /\ watch[p].reason = None
      /\ deployments[i].app = watch[p].notice.app
  BY <1>1 DEF Founded, Candidates
<1>3. \A outcome, reason :
        LET state == [found EXCEPT !.at = "mark", !.outcome = outcome, !.reason = reason]
        IN  /\ state.at = "mark" /\ state.notice = watch[p].notice /\ state.row = i
            /\ state.outcome = outcome /\ state.reason = reason
  BY <1>1 DEF Watcher
<1>4. CASE Judge(p, i) = [found EXCEPT !.at = "mark", !.outcome = "running"]
  <2>1. /\ Judge(p, i).at = "mark" /\ Judge(p, i).notice = watch[p].notice /\ Judge(p, i).row = i
        /\ Judge(p, i).outcome = "running" /\ Judge(p, i).reason = None
    BY <1>1, <1>2, <1>4 DEF Watcher
  <2> QED
    BY <1>2, <2>1, DeploymentAssumption DEF Founded
<1>5. CASE Judge(p, i) = [found EXCEPT !.at = "mark", !.outcome = "failed", !.reason = "progress"]
  <2>1. /\ Judge(p, i).at = "mark" /\ Judge(p, i).notice = watch[p].notice /\ Judge(p, i).row = i
        /\ Judge(p, i).outcome = "failed" /\ Judge(p, i).reason = "progress"
    BY <1>3, <1>5
  <2> QED
    BY <1>2, <2>1, DeploymentAssumption DEF Founded
<1>6. CASE Judge(p, i) = [found EXCEPT !.at = "pods"]
  <2>1. /\ Judge(p, i).at = "pods" /\ Judge(p, i).notice = watch[p].notice /\ Judge(p, i).row = i
        /\ Judge(p, i).reason = None
    BY <1>1, <1>2, <1>6 DEF Watcher
  <2> QED
    BY <1>2, <2>1 DEF Founded
<1> QED
  BY <1>4, <1>5, <1>6 DEF Judge

LEMMA WatcherFounded ==
    ASSUME TypeInv, VerdictInv, NEW p \in Replicas, WatcherStep(p)
    PROVE  VerdictInv'
<1>1. UNCHANGED <<created, aged, cluster, feed>>
  BY DEF WatcherStep, SelectPending, InspectPods, MarkRow, RecordEvent, table
<1>2. watch[p] \in Watcher /\ Founded(watch[p])
  BY DEF TypeInv, WatchOK, VerdictInv, WatchFounded
<1>3. CASE SelectPending(p)
  <2>1. /\ UNCHANGED deployments /\ watch[p].at = "select"
        /\ \/ \E i \in Candidates(watch[p].notice.app) : Watch(p, Judge(p, i))
           \/ Watch(p, Idle)
    BY <1>3 DEF SelectPending, table
  <2> QED
    BY <1>1, <2>1, JudgeFounded, IdleFounded, WatchStepFounded
<1>4. CASE InspectPods(p)
  <2>1. /\ UNCHANGED deployments /\ watch[p].at = "pods"
        /\ \/ \E reason \in {"init", "timeout"} :
                /\ reason = "timeout" => watch[p].row <= aged
                /\ Watch(p, [watch[p] EXCEPT !.at = "mark", !.outcome = "failed", !.reason = reason])
           \/ Watch(p, Idle)
    BY <1>4 DEF InspectPods, table
  <2>2. ASSUME NEW reason \in {"init", "timeout"}, reason = "timeout" => watch[p].row <= aged
        PROVE  Founded([watch[p] EXCEPT !.at = "mark", !.outcome = "failed", !.reason = reason])
    <3> DEFINE state == [watch[p] EXCEPT !.at = "mark", !.outcome = "failed", !.reason = reason]
    <3>1. /\ state.at = "mark" /\ state.notice = watch[p].notice /\ state.row = watch[p].row
          /\ state.outcome = "failed" /\ state.reason = reason
      BY <1>2 DEF Watcher
    <3> HIDE DEF state
    <3>2. Founded(state)
      BY <1>2, <2>1, <2>2, <3>1, DeploymentAssumption DEF Founded
    <3> QED
      BY <3>2 DEF state
  <2>3. \A state : Watch(p, state) /\ Founded(state) => VerdictInv'
    BY <1>1, <2>1, WatchStepFounded
  <2> QED
    BY <2>1, <2>2, <2>3, IdleFounded
<1>5. CASE MarkRow(p)
  <2> DEFINE i == watch[p].row
  <2>1. /\ watch[p].at = "mark" /\ Watch(p, [watch[p] EXCEPT !.at = "record"])
        /\ \/ UNCHANGED deployments
           \/ /\ deployments[i].status # "none"
              /\ deployments' = [deployments EXCEPT ![i].status = watch[p].outcome,
                                                    ![i].reason = watch[p].reason]
    BY <1>5 DEF MarkRow, Marked
  <2>2. i \in Ids /\ i \in Nat /\ watch[p].outcome \in {"running", "failed"} /\ aged \in Nat
    BY <2>1, DeploymentAssumption DEF TypeInv, WatchOK, TableOK, Ids
  <2>3. /\ watch[p].notice \in Notice /\ Applied(watch[p].notice.app)
        /\ watch[p].outcome = "failed" <=> watch[p].reason # None
        /\ watch[p].reason = "timeout" => i <= aged
        /\ deployments[i].status # "none" => deployments[i].app = watch[p].notice.app
    BY <1>2, <2>1 DEF Founded
  <2>4. watch'[p].at = "record" /\ \A q \in Replicas \ {p} : watch'[q] = watch[q]
    BY <1>2, <2>1 DEF Watch, Watcher, TypeInv, WatchOK
  <2>5. \A j \in Ids : deployments'[j].app = deployments[j].app
                       /\ (deployments'[j].status = "none" <=> deployments[j].status = "none")
    BY <2>1, <2>2 DEF TypeInv, TableOK, Row
  <2>6. \A j \in Ids : \/ /\ deployments'[j].status = deployments[j].status
                          /\ deployments'[j].reason = deployments[j].reason
                       \/ /\ j = i /\ deployments[j].status # "none"
                          /\ deployments'[j].status = watch[p].outcome
                          /\ deployments'[j].reason = watch[p].reason
    BY <2>1, <2>2 DEF TypeInv, TableOK, Row
  <2>7. RowsFounded'
    <3>1. \A j \in Ids : deployments[j].status # "none" => deployments[j].app \in Apps
      BY DEF VerdictInv, RowsFounded
    <3>2. \A j \in Ids :
            /\ deployments[j].status \in {"running", "failed"}
                 => cluster[deployments[j].app].template # None
            /\ deployments[j].status = "failed" <=> deployments[j].reason # None
            /\ deployments[j].reason = "timeout" => j <= aged
      BY DEF VerdictInv, RowsFounded, VerdictsFounded
    <3>3. ASSUME NEW j \in Ids
          PROVE  /\ deployments'[j].status # "none" => deployments'[j].app \in Apps
                 /\ deployments'[j].status \in {"running", "failed"}
                      => cluster[deployments'[j].app].template # None
                 /\ deployments'[j].status = "failed" <=> deployments'[j].reason # None
                 /\ deployments'[j].reason = "timeout" => j <= aged
      <4>1. CASE /\ deployments'[j].status = deployments[j].status
                 /\ deployments'[j].reason = deployments[j].reason
        BY <2>5, <3>1, <3>2, <4>1
      <4>2. CASE /\ j = i /\ deployments[j].status # "none"
                 /\ deployments'[j].status = watch[p].outcome
                 /\ deployments'[j].reason = watch[p].reason
        BY <2>2, <2>3, <2>5, <3>1, <4>2 DEF Applied
      <4> QED
        BY <2>6, <4>1, <4>2
    <3> QED
      BY <1>1, <3>3 DEF RowsFounded, VerdictsFounded
  <2>8. WatchFounded'
    <3>1. ASSUME NEW q \in Replicas \ {p} PROVE Founded(watch[q])'
      <4>1. Founded(watch[q]) /\ watch[q].at \in {"pods", "mark"} => watch[q].row \in Ids
        BY DeploymentAssumption DEF VerdictInv, WatchFounded, TypeInv, WatchOK, TableOK, Ids
      <4>2. Founded(watch[q])
        BY DEF VerdictInv, WatchFounded
      <4> QED
        BY <1>1, <2>4, <2>5, <4>1, <4>2 DEF Founded, Applied
    <3> QED
      BY <2>4, <3>1 DEF WatchFounded, Founded, Applied
  <2> QED
    BY <1>1, <2>7, <2>8 DEF VerdictInv, ServedApplied, FeedFounded, Applied
<1>6. CASE RecordEvent(p)
  BY <1>1, <1>6, IdleFounded, WatchStepFounded DEF RecordEvent
<1> QED
  BY <1>3, <1>4, <1>5, <1>6 DEF WatcherStep

LEMMA FeedStepFounded ==
    ASSUME TypeInv, VerdictInv, NEW p \in Replicas, Receive(p) \/ Restarted(p) \/ Crash(p)
    PROVE  VerdictInv'
<1>1. UNCHANGED <<deployments, created, aged, cluster>>
  BY DEF Receive, Restarted, Crash, table
<1>2. RowsFounded' /\ ServedApplied'
  BY <1>1, FoundedKept
<1>3. feed[p] \in Seq(Notice) /\ \A k \in 1..Len(feed[p]) : Applied(feed[p][k].app)
  BY DEF TypeInv, FeedOK, VerdictInv, FeedFounded
<1>4. FeedFounded'
  <2>1. \A q \in Replicas : \/ feed'[q] = feed[q]
                            \/ feed'[q] = <<>>
                            \/ q = p /\ feed[p] # <<>> /\ feed'[q] = Tail(feed[p])
    BY DEF Receive, Restarted, Crash, TypeInv, Shaped
  <2>2. feed[p] # <<>> => \A k \in 1..Len(Tail(feed[p])) : /\ k + 1 \in 1..Len(feed[p])
                                                          /\ Tail(feed[p])[k] = feed[p][k + 1]
    BY <1>3
  <2>3. ASSUME NEW q \in Replicas, NEW k \in 1..Len(feed'[q]) PROVE Applied(feed'[q][k].app)
    <3>1. CASE feed'[q] = feed[q]
      BY <2>3, <3>1 DEF VerdictInv, FeedFounded
    <3>2. CASE feed'[q] = <<>>
      BY <2>3, <3>2
    <3>3. CASE feed[p] # <<>> /\ feed'[q] = Tail(feed[p])
      <4>1. k + 1 \in 1..Len(feed[p]) /\ feed'[q][k] = feed[p][k + 1]
        BY <2>2, <2>3, <3>3
      <4> QED
        BY <1>3, <4>1
    <3> QED
      BY <2>1, <3>1, <3>2, <3>3
  <2> QED
    BY <1>1, <2>3 DEF FeedFounded, Applied
<1>5. \A q \in Replicas : Founded(watch'[q])
  <2>1. \A state : Watch(p, state) /\ Founded(state) => \A q \in Replicas : Founded(watch'[q])
    BY DEF Watch, VerdictInv, WatchFounded, TypeInv, WatchOK
  <2>2. ASSUME Receive(p) PROVE \A q \in Replicas : Founded(watch'[q])
    <3> DEFINE state == [Idle EXCEPT !.at = "select", !.notice = Head(feed[p])]
    <3>1. feed[p] # <<>> /\ Watch(p, state)
      BY <2>2 DEF Receive
    <3>2. Head(feed[p]) \in Notice /\ Applied(Head(feed[p]).app)
      BY <1>3, <3>1
    <3>3. state.at = "select" /\ state.notice = Head(feed[p]) /\ state.reason = None
      BY DEF Idle
    <3> HIDE DEF state
    <3>4. Founded(state)
      BY <3>2, <3>3 DEF Founded
    <3> QED
      BY <2>1, <3>1, <3>4
  <2>3. ASSUME Crash(p) PROVE \A q \in Replicas : Founded(watch'[q])
    BY <2>1, <2>3, IdleFounded DEF Crash
  <2>4. ASSUME Restarted(p) PROVE \A q \in Replicas : Founded(watch'[q])
    BY <2>4 DEF Restarted, VerdictInv, WatchFounded
  <2> QED
    BY <2>2, <2>3, <2>4
<1>6. WatchFounded'
  BY <1>1, <1>5 DEF WatchFounded, Founded, Applied
<1> QED
  BY <1>2, <1>4, <1>6 DEF VerdictInv

LEMMA StepFounded == TypeInv /\ VerdictInv /\ [Next]_vars => VerdictInv'
<1> SUFFICES ASSUME TypeInv, VerdictInv, [Next]_vars PROVE VerdictInv'
  OBVIOUS
<1>1. CASE UNCHANGED vars
  BY <1>1 DEF vars, table, VerdictInv, RowsFounded, VerdictsFounded, ServedApplied, FeedFounded,
              WatchFounded, Founded, Applied
<1>2. CASE Next
  BY <1>2, CreateFounded, TableFounded, TaskFounded, ClusterFounded, WatcherFounded, FeedStepFounded
     DEF Next, ProcessStep
<1> QED
  BY <1>1, <1>2

LEMMA InitFounded == Init => VerdictInv
<1> SUFFICES ASSUME Init PROVE VerdictInv
  OBVIOUS
<1>1. RowsFounded
  BY DeploymentAssumption DEF Init, RowsFounded, VerdictsFounded, NoRow
<1>2. ServedApplied /\ FeedFounded
  BY DEF Init, ServedApplied, FeedFounded
<1>3. WatchFounded
  BY IdleFounded DEF Init, WatchFounded
<1> QED
  BY <1>1, <1>2, <1>3 DEF VerdictInv

\* However stale the notice or the row a watcher acts on is, a verdict has its grounds:
\* its application was applied, a failed row and no other has a reason, and only a row
\* that is itself too old timed out.
THEOREM VerdictsHaveGrounds == Spec => []VerdictsFounded
<1>1. VerdictInv => VerdictsFounded
  BY DEF VerdictInv, RowsFounded
<1> QED
  BY <1>1, InitTyped, StepTyped, InitFounded, StepFounded, PTL DEF Spec

-----------------------------------------------------------------------------
(***************************************************************************)
(* The refinement.  (With two processes each has a watcher, and the second *)
(* may mark a row the first has resolved: DeploymentStatus says so.)       *)
(***************************************************************************)
\* What the only watcher has selected is pending until it marks it.
StillPending == OneReplica => \A p \in Replicas : watch[p].at \in {"pods", "mark"} =>
    deployments[watch[p].row].status = "pending"

\* The mapped variables of DeploymentStatus.
Statuses == [i \in Ids |-> deployments[i].status]
Owners   == [i \in Ids |-> deployments[i].app]

LEMMA StatusKept ==
    ASSUME \A i \in Ids : deployments'[i].status = deployments[i].status
                          /\ deployments'[i].app = deployments[i].app
    PROVE  UNCHANGED Status!vars
BY DEF Status!vars

LEMMA ResolveIsStep ==
    ASSUME NEW i \in Ids, NEW outcome \in {"running", "failed"},
           Statuses[i] = "pending" \/ (~OneReplica /\ Statuses[i] # "none"),
           Statuses' = [Statuses EXCEPT ![i] = outcome], UNCHANGED Owners
    PROVE  Status!Next
<1>1. Status!Resolve(i, outcome)
  BY DEF Status!Resolve, Statuses, Owners
<1> QED
  BY <1>1 DEF Status!Next

LEMMA ForgetIsStep ==
    ASSUME NEW gone \in SUBSET Ids,
           \A i \in gone : /\ Statuses[i] = "failed"
                           /\ \E j \in Ids : j > i /\ Statuses[j] = "running" /\ Owners[j] = Owners[i],
           Statuses' = [i \in Ids |-> IF i \in gone THEN "none" ELSE Statuses[i]],
           Owners' = [i \in Ids |-> IF i \in gone THEN None ELSE Owners[i]]
    PROVE  Status!Next
<1>1. Status!Forget(gone)
  BY DEF Status!Forget, Status!Superseded, Statuses, Owners
<1> QED
  BY <1>1 DEF Status!Next

LEMMA CreateRefines ==
    ASSUME TypeInv, StillPending, NEW p \in Replicas, NEW req \in Requests, CreateDeployment(p, req)
    PROVE  Status!Next /\ StillPending'
<1>1. PICK row :
        /\ row.status = "pending" /\ row.app = req.app
        /\ deployments' = [deployments EXCEPT ![created + 1] = row]
  <2>1. PICK digest \in Resolutions(req) :
          deployments' = [deployments EXCEPT ![created + 1] =
              [app |-> req.app, url |-> req.url, digest |-> digest,
               signed |-> req.signature # "none", status |-> "pending", reason |-> None]]
    BY DEF CreateDeployment
  <2> DEFINE row == [app |-> req.app, url |-> req.url, digest |-> digest,
                     signed |-> req.signature # "none", status |-> "pending", reason |-> None]
  <2>2. row.status = "pending" /\ row.app = req.app
    OBVIOUS
  <2> HIDE DEF row
  <2> QED
    BY <2>1, <2>2 DEF row
<1>2. created + 1 \in Ids /\ UNCHANGED watch /\ req.app \in Apps
  BY DeploymentAssumption DEF CreateDeployment, TypeInv, TableOK, Ids, Request
<1>3. \A j \in Ids : j > created => deployments[j].status = "none"
  BY DEF TypeInv, TableOK, NoRow
<1>4. /\ deployments'[created + 1].status = "pending" /\ deployments'[created + 1].app = req.app
      /\ \A j \in Ids \ {created + 1} : deployments'[j] = deployments[j]
  BY <1>1, <1>2 DEF TypeInv, TableOK
<1>5. Status!Create(created + 1, req.app)
  <2>1. created \in Nat
    BY DeploymentAssumption DEF TypeInv, TableOK
  <2>2. Statuses[created + 1] = "none" /\ \A j \in Ids : j > created + 1 => Statuses[j] = "none"
    BY <1>2, <1>3, <2>1 DEF Statuses, Ids
  <2>3. Statuses' = [Statuses EXCEPT ![created + 1] = "pending"]
    BY <1>2, <1>4 DEF Statuses
  <2>4. Owners' = [Owners EXCEPT ![created + 1] = req.app]
    BY <1>2, <1>4 DEF Owners
  <2> QED
    BY <2>2, <2>3, <2>4 DEF Status!Create, Statuses, Owners
<1>6. StillPending'
  <2>1. ASSUME NEW q \in Replicas, watch[q].at \in {"pods", "mark"}
        PROVE  watch[q].row \in Ids
    BY <2>1, DeploymentAssumption DEF TypeInv, WatchOK, TableOK, Ids
  <2> QED
    BY <1>2, <1>4, <2>1 DEF StillPending
<1> QED
  BY <1>2, <1>5, <1>6 DEF Status!Next

\* A PATCH and the passing of time are no steps of DeploymentStatus, and neither
\* the GC nor they touch the status of a pending row.
LEMMA TableRefines ==
    ASSUME TypeInv, StillPending,
           \/ \E i \in Ids : FailedGC(i) \/ \E d \in Patches : UpdateDeployment(i, d)
           \/ GrowOld
    PROVE  [Status!Next]_(Status!vars) /\ StillPending'
<1>1. UNCHANGED watch
  BY DEF FailedGC, UpdateDeployment, GrowOld
<1>2. ASSUME NEW q \in Replicas, watch[q].at \in {"pods", "mark"}
      PROVE  watch[q].row \in Ids
  BY <1>2, DeploymentAssumption DEF TypeInv, WatchOK, TableOK, Ids
<1>3. ASSUME NEW i \in Ids, NEW d \in Patches, UpdateDeployment(i, d)
      PROVE  [Status!Next]_(Status!vars) /\ StillPending'
  <2>1. \A j \in Ids : deployments'[j].status = deployments[j].status
                       /\ deployments'[j].app = deployments[j].app
    BY <1>3 DEF UpdateDeployment, TypeInv, TableOK, Row
  <2> QED
    BY <1>1, <1>2, <2>1, StatusKept DEF StillPending
<1>4. ASSUME GrowOld PROVE [Status!Next]_(Status!vars) /\ StillPending'
  BY <1>1, <1>4, StatusKept DEF GrowOld, StillPending
<1>5. ASSUME NEW i \in Ids, FailedGC(i) PROVE [Status!Next]_(Status!vars) /\ StillPending'
  <2> DEFINE gone == {j \in 1..i : deployments[j].status = "failed" /\ Superseded(j)}
  <2>1. deployments' = [j \in Ids |-> IF j \in gone THEN NoRow ELSE deployments[j]]
    BY <1>5 DEF FailedGC
  <2>2. gone \subseteq Ids
    BY DeploymentAssumption DEF Ids
  <2>3. \A j \in gone : deployments[j].status = "failed" /\ Superseded(j)
    OBVIOUS
  <2> HIDE DEF gone
  <2>4. \A j \in gone : /\ Statuses[j] = "failed"
                        /\ \E k \in Ids : k > j /\ Statuses[k] = "running" /\ Owners[k] = Owners[j]
    BY <2>2, <2>3 DEF Superseded, Statuses, Owners
  <2>5. /\ Statuses' = [j \in Ids |-> IF j \in gone THEN "none" ELSE Statuses[j]]
        /\ Owners' = [j \in Ids |-> IF j \in gone THEN None ELSE Owners[j]]
    BY <2>1 DEF Statuses, Owners, NoRow
  <2>6. Status!Next
    BY <2>2, <2>4, <2>5, ForgetIsStep
  <2>7. StillPending'
    BY <1>1, <1>2, <2>1, <2>3 DEF StillPending
  <2> QED
    BY <2>6, <2>7
<1> QED
  BY <1>3, <1>4, <1>5

\* A watcher: what it selects is pending, and what it marks still is if it is the only one.
LEMMA WatcherRefines ==
    ASSUME TypeInv, StillPending, NEW p \in Replicas, WatcherStep(p)
    PROVE  [Status!Next]_(Status!vars) /\ StillPending'
<1>1. watch[p] \in Watcher /\ watch \in [Replicas -> Watcher]
  BY DEF TypeInv, WatchOK
<1>2. ASSUME UNCHANGED deployments PROVE UNCHANGED Status!vars
  BY <1>2, StatusKept
<1>3. CASE SelectPending(p)
  <2>1. UNCHANGED deployments
    BY <1>3 DEF SelectPending, table
  <2>2. \/ \E i \in Candidates(watch[p].notice.app) : Watch(p, Judge(p, i))
        \/ Watch(p, Idle)
    BY <1>3 DEF SelectPending
  <2>3. ASSUME NEW i \in Candidates(watch[p].notice.app), Watch(p, Judge(p, i)) PROVE StillPending'
    <3>1. i \in 1..created /\ i \in Nat /\ deployments[i].status = "pending"
      BY DEF Candidates, TypeInv, TableOK, NoRow, Ids
    <3>2. watch'[p].row = i
      BY <1>1, <2>3, <3>1, JudgeTyped DEF Watch
    <3> QED
      BY <2>1, <3>1, <3>2 DEF StillPending, OneReplica
  <2>4. ASSUME Watch(p, Idle) PROVE StillPending'
    BY <1>1, <2>1, <2>4 DEF Watch, Idle, StillPending, OneReplica
  <2> QED
    BY <1>2, <2>1, <2>2, <2>3, <2>4
<1>4. CASE InspectPods(p)
  <2>1. UNCHANGED deployments /\ watch[p].at = "pods"
    BY <1>4 DEF InspectPods, table
  <2>2. watch'[p].row = watch[p].row \/ watch'[p].at = "idle"
    <3>1. \/ \E reason \in {"init", "timeout"} :
               Watch(p, [watch[p] EXCEPT !.at = "mark", !.outcome = "failed", !.reason = reason])
          \/ Watch(p, Idle)
      BY <1>4 DEF InspectPods
    <3>2. \A reason : [watch[p] EXCEPT !.at = "mark", !.outcome = "failed", !.reason = reason].row
                        = watch[p].row
      BY <1>1 DEF Watcher
    <3>3. ASSUME NEW state, Watch(p, state) PROVE watch'[p] = state
      BY <1>1, <3>3 DEF Watch
    <3>4. CASE Watch(p, Idle)
      BY <3>3, <3>4 DEF Idle
    <3>5. CASE \E reason \in {"init", "timeout"} :
                 Watch(p, [watch[p] EXCEPT !.at = "mark", !.outcome = "failed", !.reason = reason])
      <4>1. PICK reason \in {"init", "timeout"} :
                 Watch(p, [watch[p] EXCEPT !.at = "mark", !.outcome = "failed", !.reason = reason])
        BY <3>5
      <4> QED
        BY <3>2, <3>3, <4>1
    <3> QED
      BY <3>1, <3>4, <3>5
  <2> QED
    BY <1>2, <2>1, <2>2 DEF StillPending, OneReplica
<1>5. CASE MarkRow(p)
  <2> DEFINE i == watch[p].row
  <2>1. /\ watch[p].at = "mark" /\ watch'[p].at = "record"
        /\ \/ UNCHANGED deployments
           \/ /\ deployments[i].status # "none"
              /\ deployments' = [deployments EXCEPT ![i].status = watch[p].outcome,
                                                    ![i].reason = watch[p].reason]
    BY <1>1, <1>5 DEF MarkRow, Marked, Watch, Watcher
  <2>2. /\ i \in Ids /\ watch[p].outcome \in {"running", "failed"}
        /\ OneReplica => deployments[i].status = "pending"
    BY <2>1, DeploymentAssumption DEF TypeInv, WatchOK, TableOK, Ids, StillPending
  <2>3. StillPending'
    BY <2>1 DEF StillPending, OneReplica
  <2>4. CASE /\ deployments[i].status # "none"
             /\ deployments' = [deployments EXCEPT ![i].status = watch[p].outcome,
                                                   ![i].reason = watch[p].reason]
    <3>1. /\ deployments'[i].status = watch[p].outcome /\ deployments'[i].app = deployments[i].app
          /\ \A j \in Ids \ {i} : deployments'[j] = deployments[j]
      BY <2>2, <2>4 DEF TypeInv, TableOK, Row
    <3>2. Statuses' = [Statuses EXCEPT ![i] = watch[p].outcome] /\ Owners' = Owners
      BY <2>2, <3>1 DEF Statuses, Owners
    <3>3. Status!Next
      BY <2>2, <2>4, <3>2, ResolveIsStep DEF Statuses
    <3> QED
      BY <2>3, <3>3
  <2> QED
    BY <1>2, <2>1, <2>3, <2>4
<1>6. CASE RecordEvent(p)
  <2>1. UNCHANGED deployments /\ watch'[p].at = "idle"
    BY <1>1, <1>6 DEF RecordEvent, Watch, Idle
  <2> QED
    BY <1>2, <2>1 DEF StillPending, OneReplica
<1> QED
  BY <1>3, <1>4, <1>5, <1>6 DEF WatcherStep

\* Tasks, the feed and the cluster leave the table alone.
LEMMA OthersRefine ==
    ASSUME TypeInv, StillPending,
           \/ \E p \in Replicas : \/ Receive(p) \/ Restarted(p) \/ Crash(p)
                                  \/ \E t \in tasks[p] : Apply(p, t) \/ ApplyFails(p, t)
           \/ \E a \in Apps : ClusterStep(a)
    PROVE  UNCHANGED Status!vars /\ StillPending'
<1>1. UNCHANGED deployments
  BY DEF Receive, Restarted, Crash, Apply, ApplyFails, ClusterStep, PodAvailable,
         InitContainerFails, Stall, PodLost, table
<1>2. watch \in [Replicas -> Watcher]
  BY DEF TypeInv, WatchOK
<1>3. \A p \in Replicas : watch'[p] = watch[p] \/ watch'[p].at \in {"select", "idle", "off"}
  <2>1. ASSUME NEW p \in Replicas, NEW state, Watch(p, state), state.at \in {"select", "idle", "off"}
        PROVE  \A q \in Replicas : watch'[q] = watch[q] \/ watch'[q].at \in {"select", "idle", "off"}
    BY <1>2, <2>1 DEF Watch
  <2>2. ASSUME NEW p \in Replicas, Receive(p)
        PROVE  \A q \in Replicas : watch'[q] = watch[q] \/ watch'[q].at \in {"select", "idle", "off"}
    <3> DEFINE state == [Idle EXCEPT !.at = "select", !.notice = Head(feed[p])]
    <3>1. Watch(p, state)
      BY <2>2 DEF Receive
    <3>2. state.at = "select"
      BY DEF Idle
    <3> HIDE DEF state
    <3> QED
      BY <2>1, <3>1, <3>2
  <2>3. ASSUME NEW p \in Replicas, Crash(p)
        PROVE  \A q \in Replicas : watch'[q] = watch[q] \/ watch'[q].at \in {"select", "idle", "off"}
    BY <2>1, <2>3, IdleTyped DEF Crash
  <2>4. ASSUME NEW p \in Replicas, \/ Restarted(p)
                                   \/ \E t \in tasks[p] : Apply(p, t) \/ ApplyFails(p, t)
        PROVE  UNCHANGED watch
    BY <2>4 DEF Restarted, Apply, ApplyFails
  <2>5. ASSUME NEW a \in Apps, ClusterStep(a) PROVE UNCHANGED watch
    BY <2>5 DEF ClusterStep, PodAvailable, InitContainerFails, Stall, PodLost
  <2> QED
    BY <2>2, <2>3, <2>4, <2>5
<1> QED
  BY <1>1, <1>3, StatusKept DEF StillPending

LEMMA StepRefines ==
    TypeInv /\ StillPending /\ [Next]_vars => [Status!Next]_(Status!vars) /\ StillPending'
<1> SUFFICES ASSUME TypeInv, StillPending, [Next]_vars
             PROVE  [Status!Next]_(Status!vars) /\ StillPending'
  OBVIOUS
<1>1. CASE UNCHANGED vars
  BY <1>1, StatusKept DEF vars, table, StillPending
<1>2. CASE Next
  BY <1>2, CreateRefines, TableRefines, WatcherRefines, OthersRefine DEF Next, ProcessStep
<1> QED
  BY <1>1, <1>2

\* However many control-plane processes there are, the statuses of deployments move only
\* as clients may rely on: the watchers' unguarded UPDATEs by a row id read earlier, the
\* GC and PATCH never revive or lose one.  A single process never overwrites one either.
THEOREM StatusImplemented == Spec => ImplementsStatus
<1>1. Init => Status!Init /\ StillPending
  BY DEF Init, Status!Init, NoRow, StillPending, Idle
<1>2. TypeInv /\ StillPending /\ [Next]_vars => [Status!Next]_(Status!vars) /\ StillPending'
  BY StepRefines
<1> QED
  BY <1>1, <1>2, InitTyped, StepTyped, PTL DEF Spec, ImplementsStatus, Status!Spec
===============================================================================
