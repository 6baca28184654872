---------------------------- MODULE CliDeployProofs ---------------------------
(***************************************************************************)
(* The CLIs are clients of the registry: every step of CliDeploy is a step *)
(* of ArtifactRegistry or changes nothing there, so that what is proved of *)
(* the registry holds with these clients.                                  *)
(***************************************************************************)
EXTENDS CliDeploy, ArtifactLifecycleProofs

UploadsOf(p) == IF p.multipart THEN Uploads ELSE {None}

\* The statements a handler of each kind goes through.
AfterApp == {"app", "count", "bytes", "store", "event", "retain", "log", "purge"}

StepsOf(kind) ==
    CASE kind = "presign"   -> PresignSteps
      [] kind = "complete"  -> AfterApp \cup {"row", "rowkey", "backfill", "size", "hash", "idem"}
      [] kind = "init"      -> {"istatus", "create", "upsert"}
      [] kind = "multipart" -> AfterApp \cup {"mrow", "assemble"}

\* A CLI has a project, the upload that its path needs, and if it waits for an
\* answer, its own request is in flight.
SlotOk(r) ==
    LET s == cli[r]  p == cli[r].project IN
    /\ s.at # "none" => p \in Projects
    /\ pc[r] # "done" => s.at \in {"opening", "closing", "none"}
    /\ s.at \in {"put", "part", "putPart", "uploaded", "closing", "deploy"} => s.key \in StorageKeys
    /\ s.at = "opening" => pc[r] # "done" /\ call[r] = Opening(p)
    /\ s.at = "closing" => pc[r] # "done" /\ call[r] = Closing(p, s.upload)
    /\ s.at = "put" => ~p.multipart
    /\ s.at \in {"opening", "put"} => s.upload = None
    /\ s.at \in {"part", "putPart"} => p.multipart
    /\ s.at \in {"part", "putPart", "uploaded", "closing"} => s.upload \in UploadsOf(p)

KindOk(r) == pc[r] # "done" => pc[r] \in StepsOf(call[r].kind)

CliInv ==
    /\ cli \in [Reqs -> Cli] /\ posted \subseteq Apps \X StorageKeys
    /\ \A r \in Reqs : SlotOk(r) /\ KindOk(r)

BaseInv == RowInv /\ UploadInv /\ CliInv

-----------------------------------------------------------------------------
LEMMA ProjectTyped ==
    ASSUME NEW p \in Projects
    PROVE  /\ p.app \in Apps /\ p.digest \in Digests /\ p.archive \in Contents
           /\ p.multipart \in BOOLEAN /\ <<p.app, p.digest>> \in StorageKeys
           /\ Opening(p) \in Calls
           /\ \A u \in UploadsOf(p) : Closing(p, u) \in Calls
BY ProjectsAssumption DEF Project, UploadsOf, StorageKeys

\* What a request of a CLI says of its project.
LEMMA BodyFields ==
    ASSUME NEW p \in Projects, NEW u
    PROVE  /\ Opening(p).app = p.app /\ Opening(p).digest = p.digest
           /\ Opening(p).kind = IF p.multipart THEN "init" ELSE "presign"
           /\ Closing(p, u).app = p.app /\ Closing(p, u).digest = p.digest
           /\ Closing(p, u).kind = IF p.multipart THEN "multipart" ELSE "complete"
           /\ Closing(p, u).upload = u
BY DEF Opening, Closing, Body

\* A CLI's step is one of the registry's.
LEMMA CliStepRefines ==
    ASSUME BaseInv, NEW r \in Reqs, CliStep(r) PROVE [Next]_vars
<1>1. TypeOK /\ SlotOk(r)
  BY DEF BaseInv, CliInv, RowInv, TypeInv
<1>2. ASSUME NEW p \in Projects, Deploy(r, p) PROVE [Next]_vars
  BY <1>2, ProjectTyped DEF Deploy, Send, Next, RequestStep
<1>3. CASE Handled(r)
  BY <1>3 DEF Handled, Next, RequestStep
<1>4. CASE Put(r)
  BY <1>4, ConstantsAssumption DEF Put, PutObject, Next, Environment
<1>5. CASE AskPartUrl(r)
  <2>1. cli[r].upload \in Uploads
    BY <1>1, <1>5 DEF AskPartUrl, SlotOk, UploadsOf
  <2> QED
    BY <1>5, <2>1 DEF AskPartUrl, Next, Environment
<1>6. CASE PutThePart(r)
  <2>1. cli[r].upload \in Uploads
    BY <1>1, <1>6 DEF PutThePart, SlotOk, UploadsOf
  <2>2. CASE PutPart(cli[r].upload, cli[r].project.archive)
    <3>1. PICK put \in Puts : put[2] = cli[r].project.archive
      BY <2>2 DEF PutPart
    <3> QED
      BY <2>1, <2>2, <3>1 DEF Next, Environment
  <2> QED
    BY <1>6, <2>2 DEF PutThePart
<1>7. CASE Complete(r)
  <2>1. Closing(cli[r].project, cli[r].upload) \in Calls
    BY <1>1, <1>7, ProjectTyped DEF Complete, SlotOk
  <2> QED
    BY <1>7, <2>1 DEF Complete, Send, Next, RequestStep
<1>8. CASE PostDeployment(r) \/ Kill(r)
  BY <1>8 DEF PostDeployment, Kill, Next, RequestStep
<1> QED
  BY <1>2, <1>3, <1>4, <1>5, <1>6, <1>7, <1>8 DEF CliStep

LEMMA CliNextRefines == BaseInv /\ [CliNext]_cliVars => [Next]_vars
<1> SUFFICES ASSUME BaseInv, [CliNext]_cliVars PROVE [Next]_vars
  OBVIOUS
<1>1. ASSUME NEW a \in Apps, CreateApp(a) PROVE [Next]_vars
  BY <1>1 DEF Next, Environment
<1>2. ASSUME NEW i \in RowIds, PendingGC(i) PROVE [Next]_vars
  BY <1>2 DEF Next
<1> QED
  BY <1>1, <1>2, CliStepRefines DEF CliNext, cliVars

-----------------------------------------------------------------------------
(***************************************************************************)
(* What a statement of a handler does to its slot: it goes on within the   *)
(* statements of its kind, or it answers.                                  *)
(***************************************************************************)
\* What the answers that a CLI acts on say of the row and of the handler.
AnswerSays(r, code) ==
    /\ code = "url" => pc[r] = "insert" \/ (pc[r] = "lookup" /\ RowOf(call[r]).status = "pending")
    /\ code = "exists" => pc[r] = "lookup" /\ RowOf(call[r]).status = "stored"
    /\ code = "upload" => pc[r] = "upsert"
    /\ code = "stored" => pc[r] \in StoredSteps
    /\ code = "duplicate" => pc[r] \in {"row", "mrow"} /\ RowOf(call[r]).status = "stored"

GoesOn(r) ==
    \E locals, step : /\ Note(r, locals, step)
                      /\ step \in StepsOf(call[r].kind)
                      /\ step # "done"
                      /\ step = "assemble" => pc[r] = "mrow"

Answers(r) == \E code : Reply(r, code) /\ AnswerSays(r, code)

LEMMA HandlerOutcome ==
    ASSUME BaseInv, NEW r \in Reqs, HandlerStep(r)
    PROVE  GoesOn(r) \/ Answers(r)
<1>1. /\ pc[r] # "done" /\ pc[r] \in StepsOf(call[r].kind) /\ call[r].kind \in Kinds
      /\ pc[r] \in {"mrow", "assemble"} => call[r].kind = "multipart"
  BY NotDone, CallTyped DEF BaseInv, CliInv, KindOk, RowInv, TypeInv, InFlight, Call
<1>2. /\ call[r].kind \in {"presign", "complete", "init", "multipart"}
      /\ pc[r] \in PresignSteps => call[r].kind = "presign"
      /\ pc[r] \in {"row", "rowkey", "backfill", "size", "hash", "idem"} => call[r].kind = "complete"
      /\ pc[r] \in {"istatus", "create", "upsert"} => call[r].kind = "init"
      /\ pc[r] \in AfterApp => call[r].kind \in {"complete", "multipart"}
  BY <1>1 DEF StepsOf, AfterApp, PresignSteps, Kinds
<1>3. ASSUME NEW locals, NEW step, Note(r, locals, step), step \in StepsOf(call[r].kind), step # "done",
             step = "assemble" => pc[r] = "mrow"
      PROVE  GoesOn(r)
  BY <1>3 DEF GoesOn
<1>4. ASSUME NEW code, Reply(r, code), AnswerSays(r, code) PROVE Answers(r)
  BY <1>4 DEF Answers
<1>5. ASSUME NEW code, Reply(r, code), code \in {"conflict", "quota", "rejected", "error"}
      PROVE  Answers(r)
  BY <1>5, <1>4 DEF AnswerSays
<1>6. ASSUME NEW linked PROVE AfterChecks(linked) \in {"count", "store"}
  BY DEF AfterChecks
<1>7. CASE PresignStep(r)
  <2>1. CASE PresignLookup(r)
    <3>1. pc[r] = "lookup" /\ "link" \in StepsOf(call[r].kind)
      BY <1>2, <2>1 DEF PresignLookup, StepsOf, PresignSteps
    <3> QED
      BY <1>3, <1>4, <2>1, <3>1 DEF PresignLookup, Continue, IsStored, AnswerSays
  <2>2. CASE PresignLink(r)
    <3>1. "insert" \in StepsOf(call[r].kind)
      BY <1>2, <2>2 DEF PresignLink, StepsOf, PresignSteps
    <3>2. \E locals : Note(r, locals, "insert")
      BY <2>2, PresignLinkNotes
    <3> QED
      BY <1>3, <3>1, <3>2
  <2>3. CASE PresignInsert(r)
    BY <1>4, <2>3 DEF PresignInsert, AnswerSays
  <2> QED
    BY <1>7, <2>1, <2>2, <2>3 DEF PresignStep
<1>8. CASE CheckStep(r)
  <2>1. {"count", "store", "bytes"} \subseteq StepsOf(call[r].kind)
    BY <1>2, <1>8
    DEF CheckStep, LinkApp, CompleteRow, CheckRowKey, Backfill, VerifySize, VerifyContent,
        CheckKeyFree, QuotaCount, QuotaBytes, Query, StepsOf, AfterApp
  <2>2. call[r].kind # "multipart" => {"row", "rowkey", "backfill", "size", "hash", "idem"} \subseteq StepsOf(call[r].kind)
    BY <1>2, <1>8
    DEF CheckStep, LinkApp, CompleteRow, CheckRowKey, Backfill, VerifySize, VerifyContent,
        CheckKeyFree, QuotaCount, QuotaBytes, Query, StepsOf, AfterApp
  <2>3. CASE LinkApp(r)
    <3>3. PICK linked \in BOOLEAN :
            Note(r, [seen[r] EXCEPT !.linked = linked],
                 IF call[r].kind = "multipart" THEN AfterChecks(linked) ELSE "row")
      BY <2>3, LinkAppNotes
    <3> DEFINE locals == [seen[r] EXCEPT !.linked = linked]
               step   == IF call[r].kind = "multipart" THEN AfterChecks(linked) ELSE "row"
    <3>1. Note(r, locals, step)
      BY <3>3
    <3>2. step \in StepsOf(call[r].kind) /\ step \notin {"done", "assemble"}
      BY <1>6, <2>1, <2>2
    <3> HIDE DEF locals, step
    <3> QED
      BY <1>3, <3>1, <3>2
  <2>4. CASE CompleteRow(r)
    <3> DEFINE locals == [seen[r] EXCEPT !.row = RowOf(call[r]).id, !.key = RowOf(call[r]).key]
    <3>1. pc[r] = "row" /\ {"rowkey", "backfill", "idem"} \subseteq StepsOf(call[r].kind)
      BY <1>2, <2>2, <2>4 DEF CompleteRow, Query
    <3>2. \/ Reply(r, "rejected")
          \/ Note(r, seen[r], "idem")
          \/ Reply(r, "duplicate") /\ RowOf(call[r]).status = "stored"
          \/ \E step \in {"rowkey", "backfill"} : Note(r, locals, step)
      BY <2>4 DEF CompleteRow, IsStored, Continue
    <3> HIDE DEF locals
    <3>3. Reply(r, "duplicate") /\ RowOf(call[r]).status = "stored" => Answers(r)
      BY <1>4, <3>1 DEF AnswerSays
    <3> QED
      BY <1>3, <1>5, <3>1, <3>2, <3>3
  <2>5. CASE CheckKeyFree(r)
    <3>2. call[r].signed \in BOOLEAN
      BY <1>1, CallTyped DEF BaseInv, RowInv, Call
    <3>1. Reply(r, "conflict") \/ \E locals : Note(r, locals, AfterChecks(seen[r].linked))
      BY <2>5, <3>2, CheckKeyFreeNotes
    <3> QED
      BY <1>3, <1>5, <1>6, <2>1, <3>1
  <2>6. CASE CheckRowKey(r) \/ Backfill(r)
    <3>1. {"backfill", "size"} \subseteq StepsOf(call[r].kind)
      BY <1>2, <2>2, <2>6 DEF CheckRowKey, Backfill, Query
    <3> QED
      BY <1>3, <1>5, <2>6, <3>1 DEF CheckRowKey, Backfill, Continue
  <2>7. CASE VerifySize(r) \/ VerifyContent(r)
    <3>1. pc[r] \in {"size", "hash"} /\ "hash" \in StepsOf(call[r].kind)
      BY <1>2, <2>2, <2>7 DEF VerifySize, VerifyContent
    <3>2. Reply(r, "rejected") \/ Note(r, seen[r], "hash") \/ Note(r, seen[r], AfterChecks(seen[r].linked))
      BY <2>7 DEF VerifySize, VerifyContent, Continue
    <3> QED
      BY <1>3, <1>5, <1>6, <2>1, <3>1, <3>2
  <2>8. CASE QuotaCount(r) \/ QuotaBytes(r)
    BY <1>3, <1>5, <2>1, <2>8 DEF QuotaCount, QuotaBytes, Continue
  <2> QED
    BY <1>8, <2>3, <2>4, <2>5, <2>6, <2>7, <2>8 DEF CheckStep
<1>9. CASE StoreStep(r)
  <2>1. {"event", "retain", "log", "purge"} \subseteq StepsOf(call[r].kind)
    BY <1>2, <1>9
    DEF StoreStep, FinalizePending, InsertStored, RefuseTakenDigest, FinalizeMultipart,
        InsertEvent, SelectStale, LogRetention, PurgeStale, Query, StepsOf, AfterApp
  <2>2. CASE FinalizePending(r) \/ FinalizeMultipart(r)
    <3>1. Reply(r, "error") \/ Reply(r, "conflict") \/ Note(r, seen[r], "event")
      BY <2>2 DEF FinalizePending, FinalizeMultipart, Continue
    <3> QED
      BY <1>3, <1>5, <2>1, <3>1
  <2>3. CASE InsertStored(r)
    <3> DEFINE locals == [seen[r] EXCEPT !.row = rowCount + 1]
    <3>1. Reply(r, "error") \/ Reply(r, "conflict") \/ Note(r, locals, "event")
      BY <2>3 DEF InsertStored, RefuseTakenDigest
    <3> HIDE DEF locals
    <3> QED
      BY <1>3, <1>5, <2>1, <3>1
  <2>4. CASE InsertEvent(r) \/ SelectStale(r) \/ LogRetention(r) \/ PurgeStale(r)
    <3>1. pc[r] \in StoredSteps
      BY <2>4 DEF InsertEvent, SelectStale, LogRetention, PurgeStale, Query, StoredSteps
    <3>2. \/ Reply(r, "stored")
          \/ \E locals, step : Note(r, locals, step) /\ step \in {"retain", "log", "purge"}
      BY <2>4 DEF InsertEvent, SelectStale, LogRetention, PurgeStale, Continue
    <3>3. AnswerSays(r, "stored")
      BY <3>1 DEF AnswerSays
    <3> QED
      BY <1>3, <1>4, <2>1, <3>2, <3>3
  <2> QED
    BY <1>9, <2>2, <2>3, <2>4 DEF StoreStep
<1>10. CASE MultipartStep(r)
  <2>1. CASE InitStatus(r)
    <3>1. "create" \in StepsOf(call[r].kind)
      BY <1>2, <2>1 DEF InitStatus, Query, StepsOf
    <3> QED
      BY <1>3, <1>5, <2>1, <3>1 DEF InitStatus, Continue
  <2>2. CASE CreateUpload(r)
    <3>1. "upsert" \in StepsOf(call[r].kind)
      BY <1>2, <2>2 DEF CreateUpload, StepsOf
    <3>2. Reply(r, "error") \/ \E locals : Note(r, locals, "upsert")
      BY <2>2 DEF CreateUpload
    <3> QED
      BY <1>3, <1>5, <3>1, <3>2
  <2>3. CASE UpsertUpload(r)
    BY <1>4, <2>3 DEF UpsertUpload, Query, AnswerSays
  <2>4. CASE MultipartRow(r)
    <3>1. pc[r] = "mrow" /\ "assemble" \in StepsOf(call[r].kind)
      BY <1>1, <2>4 DEF MultipartRow, Query, StepsOf
    <3>2. \/ Reply(r, "rejected")
          \/ Reply(r, "duplicate") /\ RowOf(call[r]).status = "stored"
          \/ \E locals : Note(r, locals, "assemble")
      BY <2>4 DEF MultipartRow, IsStored
    <3>3. Reply(r, "duplicate") /\ RowOf(call[r]).status = "stored" => Answers(r)
      BY <1>4, <3>1 DEF AnswerSays
    <3> QED
      BY <1>3, <1>5, <3>1, <3>2, <3>3
  <2>5. CASE Assemble(r)
    <3>1. "app" \in StepsOf(call[r].kind)
      BY <1>1, <2>5 DEF Assemble, StepsOf, AfterApp
    <3>2. Reply(r, "error") \/ Note(r, seen[r], "app")
      BY <2>5 DEF Assemble, Continue
    <3> QED
      BY <1>3, <1>5, <3>1, <3>2
  <2> QED
    BY <1>10, <2>1, <2>2, <2>3, <2>4, <2>5 DEF MultipartStep
<1> QED
  BY <1>7, <1>8, <1>9, <1>10 DEF HandlerStep

\* The values of the slot afterwards.
LEMMA SlotAfter ==
    ASSUME BaseInv, NEW r \in Reqs, HandlerStep(r)
    PROVE  /\ \A q \in Reqs \ {r} : pc'[q] = pc[q] /\ call'[q] = call[q] /\ seen'[q] = seen[q]
           /\ \/ /\ pc'[r] \in StepsOf(call[r].kind) /\ pc'[r] # "done" /\ call' = call
                 /\ pc'[r] = "assemble" => pc[r] = "mrow"
              \/ pc'[r] = "done" /\ call'[r] = NoCall /\ AnswerSays(r, answer'[r].code)
<1>1. /\ pc \in [Reqs -> Steps] /\ answer \in [Reqs -> Answer] /\ seen \in [Reqs -> Seen]
      /\ call \in [Reqs -> Calls \cup {NoCall}]
  BY DEF BaseInv, RowInv, TypeInv, TypeOK
<1>2. CASE GoesOn(r)
  BY <1>1, <1>2 DEF GoesOn, Note, Goto
<1>3. CASE Answers(r)
  BY <1>1, <1>3 DEF Answers, Reply
<1> QED
  BY <1>2, <1>3, HandlerOutcome

\* One slot at a time.
LEMMA SlotStep ==
    ASSUME BaseInv, NEW r \in Reqs, NEW s \in Cli, cli' = [cli EXCEPT ![r] = s],
           posted' \subseteq Apps \X StorageKeys,
           \A q \in Reqs \ {r} : pc'[q] = pc[q] /\ call'[q] = call[q],
           SlotOk(r)', KindOk(r)'
    PROVE  CliInv'
<1>1. cli' \in [Reqs -> Cli] /\ \A q \in Reqs \ {r} : cli'[q] = cli[q]
  BY DEF BaseInv, CliInv
<1>2. ASSUME NEW q \in Reqs \ {r} PROVE SlotOk(q)' /\ KindOk(q)'
  BY <1>1 DEF BaseInv, CliInv, SlotOk, KindOk
<1> QED
  BY <1>1, <1>2 DEF CliInv

\* A request is sent: it is in flight in the slot, or refused.
LEMMA SendKeeps ==
    ASSUME BaseInv, NEW r \in Reqs, NEW c \in Calls, NEW s \in Cli, Send(r, c, s),
           s.project \in Projects,
           \/ s.at = "opening" /\ c = Opening(s.project) /\ s.upload = None
           \/ s.at = "closing" /\ c = Closing(s.project, s.upload) /\ s.upload \in UploadsOf(s.project)
              /\ s.key \in StorageKeys
    PROVE  CliInv'
<1>1. /\ pc \in [Reqs -> Steps] /\ call \in [Reqs -> Calls \cup {NoCall}]
      /\ cli \in [Reqs -> Cli] /\ posted \subseteq Apps \X StorageKeys
  BY DEF BaseInv, RowInv, TypeInv, TypeOK, CliInv
<1>2. CASE Receive(r, c) /\ Step(r, s)
  <2>1. FirstStep(c.kind) \in StepsOf(c.kind) /\ FirstStep(c.kind) # "done"
    <3>1. c.kind \in {"presign", "complete", "init", "multipart"}
      BY ConstantsAssumption DEF Call, Kinds
    <3> QED
      BY <3>1 DEF FirstStep, StepsOf, PresignSteps, AfterApp
  <2>2. /\ pc'[r] = FirstStep(c.kind) /\ call'[r] = c
        /\ \A q \in Reqs \ {r} : pc'[q] = pc[q] /\ call'[q] = call[q]
    BY <1>1, <1>2 DEF Receive, Goto
  <2>3. cli' = [cli EXCEPT ![r] = s] /\ cli'[r] = s /\ posted' = posted
    BY <1>1, <1>2 DEF Step
  <2>4. SlotOk(r)' /\ KindOk(r)'
    BY <2>1, <2>2, <2>3 DEF SlotOk, KindOk
  <2> QED
    BY <1>1, <2>2, <2>3, <2>4, SlotStep
<1>3. CASE Refuse(r, c) /\ Step(r, NoCli)
  <2>1. /\ NoCli \in Cli /\ NoCli.at = "none" /\ cli' = [cli EXCEPT ![r] = NoCli] /\ cli'[r] = NoCli
        /\ posted' = posted
    BY <1>1, <1>3 DEF Step, NoCli, Cli, Phases
  <2>2. pc' = pc /\ call' = call /\ pc[r] = "done"
    BY <1>3 DEF Refuse
  <2>3. SlotOk(r)' /\ KindOk(r)'
    BY <2>1, <2>2 DEF SlotOk, KindOk
  <2> QED
    BY <1>1, <2>1, <2>2, <2>3, SlotStep
<1> QED
  BY <1>2, <1>3 DEF Send

\* What a CLI remembers of the answer to its opening request.
LEMMA OpeningAnswered ==
    ASSUME BaseInv, NEW r \in Reqs, NEW code, cli[r].at = "opening", AnswerSays(r, code)
    PROVE  LET s == OpeningAnswer(r, code) IN
           /\ s \in Cli /\ s.at \in {"none", "put", "deploy", "part"}
           /\ s.at # "none" => s.project = cli[r].project /\ s.key = AnsweredKey(r) /\ s.key \in StorageKeys
           /\ s.at = "put" => /\ code = "url" /\ ~cli[r].project.multipart /\ s.upload = None
           /\ s.at = "deploy" => /\ code = "exists" /\ s.upload = None
           /\ s.at = "part" => /\ code = "upload" /\ cli[r].project.multipart
                               /\ s.upload = seen[r].upload /\ s.upload \in Uploads
<1> DEFINE p == cli[r].project
<1>1. /\ cli[r] \in Cli /\ p \in Projects /\ pc[r] # "done" /\ call[r] = Opening(p)
      /\ cli[r].upload = None /\ pc[r] \in StepsOf(call[r].kind)
  BY DEF BaseInv, CliInv, SlotOk, KindOk
<1>2. /\ call[r].kind = (IF p.multipart THEN "init" ELSE "presign") /\ p.multipart \in BOOLEAN
      /\ OwnKey(call[r]) \in StorageKeys /\ RowOf(call[r]) = artifacts[call[r].digest]
      /\ call[r].digest \in Digests
  BY <1>1, BodyFields, ProjectTyped DEF OwnKey, RowOf
<1>3. /\ pc[r] \in {"lookup", "insert"} => ~p.multipart
      /\ pc[r] = "upsert" => p.multipart
  BY <1>1, <1>2 DEF StepsOf, PresignSteps
<1>4. RowOf(call[r]).status \in {"pending", "stored"} => RowOf(call[r]).key \in StorageKeys
  <2>1. RowOf(call[r]).status \in {"pending", "stored"} => KeyFits(RowOf(call[r]), call[r].digest)
    BY <1>2, KeysFit DEF BaseInv, RowInv
  <2> QED
    BY <1>2, <2>1, ProjectsAssumption DEF KeyFits, StorageKeys
<1>5. pc[r] = "upsert" => seen[r].upload \in Uploads
  BY DEF BaseInv, UploadInv, UpsertsMatched, OpenedFor
<1>6. code \in {"url", "exists", "upload"} => AnsweredKey(r) \in StorageKeys
  BY <1>2, <1>4 DEF AnswerSays, AnsweredKey
<1>7. NoCli \in Cli /\ NoCli.at = "none"
  BY DEF NoCli, Cli, Phases
<1> DEFINE known == [cli[r] EXCEPT !.key = AnsweredKey(r)]
<1>8. CASE code = "url"
  <2>1. OpeningAnswer(r, code) = [known EXCEPT !.at = "put"]
    BY <1>8 DEF OpeningAnswer
  <2> QED
    BY <1>1, <1>3, <1>6, <1>8, <2>1 DEF Cli, Phases, AnswerSays
<1>9. CASE code = "exists"
  <2>1. OpeningAnswer(r, code) = [known EXCEPT !.at = "deploy"]
    BY <1>9 DEF OpeningAnswer
  <2> QED
    BY <1>1, <1>6, <1>9, <2>1 DEF Cli, Phases
<1>10. CASE code = "upload"
  <2>1. OpeningAnswer(r, code) = [known EXCEPT !.at = "part", !.upload = seen[r].upload]
    BY <1>10 DEF OpeningAnswer
  <2> QED
    BY <1>1, <1>3, <1>5, <1>6, <1>10, <2>1 DEF Cli, Phases, AnswerSays
<1>11. CASE code \notin {"url", "exists", "upload"}
  <2>1. OpeningAnswer(r, code) = NoCli
    BY <1>11 DEF OpeningAnswer
  <2> QED
    BY <1>7, <2>1
<1> QED
  BY <1>8, <1>9, <1>10, <1>11

LEMMA HandledKeeps == ASSUME BaseInv, NEW r \in Reqs, Handled(r) PROVE CliInv'
<1> DEFINE code == answer'[r].code
           p == cli[r].project
<1>1. /\ cli \in [Reqs -> Cli] /\ posted \subseteq Apps \X StorageKeys /\ HandlerStep(r)
      /\ cli[r] \in Cli /\ SlotOk(r) /\ cli[r].at \in {"opening", "closing", "none"}
      /\ NoCli \in Cli /\ NoCli.at = "none"
  BY NotDone DEF BaseInv, CliInv, SlotOk, Handled, NoCli, Cli, Phases
<1>2. \A q \in Reqs \ {r} : pc'[q] = pc[q] /\ call'[q] = call[q]
  BY <1>1, SlotAfter
<1>3. CASE pc'[r] \in StepsOf(call[r].kind) /\ pc'[r] # "done" /\ call' = call
  <2>1. cli' = [cli EXCEPT ![r] = cli[r]] /\ posted' = posted /\ cli' = cli
    BY <1>1, <1>3 DEF Handled, Step
  <2>2. SlotOk(r)' /\ KindOk(r)'
    BY <1>1, <1>3, <2>1 DEF SlotOk, KindOk
  <2> QED
    BY <1>1, <1>2, <2>1, <2>2, SlotStep
<1>4. CASE pc'[r] = "done" /\ call'[r] = NoCall /\ AnswerSays(r, code)
  <2>1. KindOk(r)'
    BY <1>4 DEF KindOk
  <2>2. ASSUME NEW s \in Cli, cli' = [cli EXCEPT ![r] = s], posted' = posted, SlotOk(r)' PROVE CliInv'
    BY <1>1, <1>2, <2>1, <2>2, SlotStep
  <2>3. CASE cli[r].at = "none"
    <3>1. cli' = [cli EXCEPT ![r] = cli[r]] /\ cli'[r].at = "none" /\ posted' = posted
      BY <1>1, <2>3 DEF Handled, Step
    <3>2. SlotOk(r)'
      BY <1>4, <3>1 DEF SlotOk
    <3> QED
      BY <1>1, <2>2, <3>1, <3>2
  <2>4. CASE cli[r].at = "opening"
    <3> DEFINE s == OpeningAnswer(r, code)
    <3>1. cli' = [cli EXCEPT ![r] = s] /\ cli'[r] = s /\ posted' = posted
      BY <1>1, <1>4, <2>4 DEF Handled, Step
    <3>2. /\ s \in Cli /\ s.at \in {"none", "put", "deploy", "part"}
          /\ s.at # "none" => s.project = p /\ s.key \in StorageKeys
          /\ s.at = "put" => ~p.multipart /\ s.upload = None
          /\ s.at = "part" => p.multipart /\ s.upload \in Uploads
      BY <1>4, <2>4, OpeningAnswered
    <3> HIDE DEF s
    <3>3. p \in Projects
      BY <1>1, <2>4 DEF SlotOk
    <3>4. SlotOk(r)'
      BY <1>4, <3>1, <3>2, <3>3 DEF SlotOk, UploadsOf
    <3> QED
      BY <2>2, <3>1, <3>2, <3>4
  <2>5. CASE cli[r].at = "closing"
    <3> DEFINE s == IF Accepted(code) THEN [cli[r] EXCEPT !.at = "deploy"] ELSE NoCli
    <3>1. cli' = [cli EXCEPT ![r] = s] /\ cli'[r] = s /\ posted' = posted
      BY <1>1, <1>4, <2>5 DEF Handled, Step
    <3>2. /\ s \in Cli /\ s.at \in {"none", "deploy"}
          /\ s.at # "none" => s.project = p /\ s.key = cli[r].key
      BY <1>1 DEF Cli, Phases
    <3> HIDE DEF s
    <3>3. p \in Projects /\ cli[r].key \in StorageKeys
      BY <1>1, <2>5 DEF SlotOk
    <3>4. SlotOk(r)'
      BY <1>4, <3>1, <3>2, <3>3 DEF SlotOk
    <3> QED
      BY <2>2, <3>1, <3>2, <3>4
  <2> QED
    BY <1>1, <2>3, <2>4, <2>5
<1> QED
  BY <1>1, <1>3, <1>4, SlotAfter

LEMMA MoveKeeps ==
    ASSUME BaseInv, NEW r \in Reqs, NEW phase \in Phases, Move(r, phase),
           UNCHANGED <<pc, call>> \/ Abort(r),
           \/ phase = "none"
           \/ cli[r].at = "put" /\ phase = "uploaded" /\ UNCHANGED <<pc, call>>
           \/ cli[r].at = "part" /\ phase = "putPart" /\ UNCHANGED <<pc, call>>
           \/ cli[r].at = "putPart" /\ phase = "uploaded" /\ UNCHANGED <<pc, call>>
    PROVE  CliInv'
<1>1. /\ cli \in [Reqs -> Cli] /\ posted \subseteq Apps \X StorageKeys /\ SlotOk(r) /\ KindOk(r)
      /\ NoCli \in Cli /\ NoCli.at = "none"
      /\ pc \in [Reqs -> Steps] /\ call \in [Reqs -> Calls \cup {NoCall}]
  BY DEF BaseInv, CliInv, NoCli, Cli, Phases, RowInv, TypeInv, TypeOK
<1> DEFINE s == IF phase = "none" THEN NoCli ELSE [cli[r] EXCEPT !.at = phase]
<1>2. s \in Cli /\ s.at = phase /\ (phase # "none" => s.project = cli[r].project /\ s.key = cli[r].key
        /\ s.upload = cli[r].upload)
  BY <1>1 DEF Cli
<1>3. cli' = [cli EXCEPT ![r] = s] /\ cli'[r] = s /\ posted' = posted
  BY <1>1 DEF Move, Step
<1> HIDE DEF s
<1>4. /\ \A q \in Reqs \ {r} : pc'[q] = pc[q] /\ call'[q] = call[q]
      /\ (pc'[r] = pc[r] /\ call'[r] = call[r]) \/ pc'[r] = "done"
  BY <1>1 DEF Abort
<1>5. KindOk(r)'
  BY <1>1, <1>4 DEF KindOk
<1>6. SlotOk(r)'
  BY <1>1, <1>2, <1>3, <1>4 DEF SlotOk, UploadsOf
<1> QED
  BY <1>1, <1>2, <1>3, <1>4, <1>5, <1>6, SlotStep

LEMMA CliInvNext == BaseInv /\ [CliNext]_cliVars => CliInv'
<1> SUFFICES ASSUME BaseInv, [CliNext]_cliVars PROVE CliInv'
  OBVIOUS
<1>1. CliInv
  BY DEF BaseInv
<1>2. ASSUME UNCHANGED <<cli, posted, pc, call>> PROVE CliInv'
  BY <1>1, <1>2 DEF CliInv, SlotOk, KindOk
<1>3. ASSUME NEW r \in Reqs, NEW p \in Projects, Deploy(r, p) PROVE CliInv'
  <2> DEFINE s == [at |-> "opening", project |-> p, key |-> None, upload |-> None]
  <2>1. s \in Cli
    BY DEF Cli, Phases
  <2> QED
    BY <1>3, <2>1, ProjectTyped, SendKeeps DEF Deploy
<1>4. ASSUME NEW r \in Reqs, Complete(r) PROVE CliInv'
  <2> DEFINE s == [cli[r] EXCEPT !.at = "closing"]
  <2>1. cli[r] \in Cli /\ SlotOk(r) /\ cli[r].at = "uploaded"
    BY <1>1, <1>4 DEF CliInv, Complete
  <2>2. s \in Cli /\ s.at = "closing" /\ s.project = cli[r].project /\ s.upload = cli[r].upload /\ s.key = cli[r].key
    BY <2>1 DEF Cli, Phases
  <2>3. Send(r, Closing(cli[r].project, cli[r].upload), s)
    BY <1>4 DEF Complete
  <2> HIDE DEF s
  <2>4. cli[r].project \in Projects /\ cli[r].upload \in UploadsOf(cli[r].project) /\ cli[r].key \in StorageKeys
    BY <2>1 DEF SlotOk
  <2> QED
    BY <2>2, <2>3, <2>4, ProjectTyped, SendKeeps
<1>5. ASSUME NEW r \in Reqs, Put(r) PROVE CliInv'
  <2>1. UNCHANGED <<pc, call>>
    BY <1>5 DEF Put, PutObject, vars, handler
  <2>2. cli[r].at = "put" /\ (Move(r, "uploaded") \/ Move(r, "none"))
    BY <1>5 DEF Put, PutFails
  <2> QED
    BY <2>1, <2>2, MoveKeeps DEF Phases
<1>6. ASSUME NEW r \in Reqs, AskPartUrl(r) PROVE CliInv'
  <2>1. UNCHANGED <<pc, call>>
    BY <1>6 DEF AskPartUrl, PresignPart, vars, handler
  <2>2. cli[r].at = "part" /\ (Move(r, "putPart") \/ Move(r, "none"))
    BY <1>6 DEF AskPartUrl
  <2> QED
    BY <2>1, <2>2, MoveKeeps DEF Phases
<1>7. ASSUME NEW r \in Reqs, PutThePart(r) PROVE CliInv'
  <2>1. UNCHANGED <<pc, call>>
    BY <1>7 DEF PutThePart, PutPart, vars, handler
  <2>2. cli[r].at = "putPart" /\ (Move(r, "uploaded") \/ Move(r, "none"))
    BY <1>7 DEF PutThePart
  <2> QED
    BY <2>1, <2>2, MoveKeeps DEF Phases
<1>8. ASSUME NEW r \in Reqs, Kill(r) PROVE CliInv'
  <2>1. Move(r, "none") /\ (UNCHANGED <<pc, call>> \/ Abort(r))
    BY <1>8 DEF Kill, vars, handler
  <2> QED
    BY <2>1, MoveKeeps DEF Phases
<1>9. ASSUME NEW r \in Reqs, PostDeployment(r) PROVE CliInv'
  <2>1. cli[r] \in Cli /\ SlotOk(r) /\ KindOk(r) /\ cli[r].at = "deploy" /\ UNCHANGED <<pc, call>>
        /\ cli \in [Reqs -> Cli]
    BY <1>1, <1>9 DEF CliInv, PostDeployment, vars, handler
  <2>2. cli[r].project.app \in Apps /\ cli[r].key \in StorageKeys /\ pc[r] = "done"
    BY <2>1, ProjectTyped DEF SlotOk
  <2>3. posted' \subseteq Apps \X StorageKeys /\ cli' = [cli EXCEPT ![r] = NoCli] /\ cli'[r] = NoCli
    BY <1>1, <1>9, <2>1, <2>2 DEF PostDeployment, CliInv
  <2>4. NoCli \in Cli /\ NoCli.at = "none"
    BY DEF NoCli, Cli, Phases
  <2>5. SlotOk(r)' /\ KindOk(r)'
    BY <2>1, <2>2, <2>3, <2>4 DEF SlotOk, KindOk
  <2> QED
    BY <2>1, <2>3, <2>4, <2>5, SlotStep
<1>10. ASSUME NEW r \in Reqs, Handled(r) PROVE CliInv'
  BY <1>10, HandledKeeps
<1> QED
  BY <1>2, <1>3, <1>4, <1>5, <1>6, <1>7, <1>8, <1>9, <1>10
  DEF CliNext, CliStep, PendingGC, CreateApp, cliVars, vars, handler

LEMMA CliInitBase == CliInit => Init /\ BaseInv /\ DurableInv
<1> SUFFICES ASSUME CliInit PROVE Init /\ BaseInv /\ DurableInv
  OBVIOUS
<1>1. Init
  BY DEF CliInit
<1>2. NoCli \in Cli /\ NoCli.at = "none"
  BY DEF NoCli, Cli, Phases
<1>3. CliInv
  BY <1>1, <1>2 DEF CliInit, Init, CliInv, SlotOk, KindOk
<1>4. UploadInv
  BY <1>1 DEF Init, UploadInv, RowsMatched, Matched, UpsertsMatched, NoRow
<1>5. DurableInv
  BY <1>1 DEF Init, DurableInv, NoAnswer, DurableCodes
<1> QED
  BY <1>1, <1>3, <1>4, <1>5, RowInvInit DEF BaseInv

LEMMA BaseInvNext ==
    BaseInv /\ DurableInv /\ [CliNext]_cliVars => BaseInv' /\ DurableInv' /\ [Next]_vars
BY CliNextRefines, CliInvNext, RowInvNext, UploadInvNext, DurableNext DEF BaseInv

\* The CLIs use the registry as its clients may: with them it behaves like ArtifactRegistry,
\* and every theorem about that module holds.
THEOREM CliUsesRegistry == CliSpec => Spec
BY CliInitBase, BaseInvNext, PTL DEF CliSpec, Spec

\* Every variable of a CLI has its type; a CLI that talks has a project and waits for the
\* request in its slot.
THEOREM CliTypeCorrect == CliSpec => []CliTypeOK
<1>1. BaseInv => CliTypeOK
  BY ProjectsAssumption DEF BaseInv, CliInv, SlotOk, CliTypeOK
<1> QED
  BY <1>1, CliInitBase, BaseInvNext, PTL DEF CliSpec

-----------------------------------------------------------------------------
(***************************************************************************)
(* What is stored can be fetched.  Complete never looks for the object: a  *)
(* request to complete exists only after its CLI's upload succeeded, or    *)
(* S3 assembled the parts; objects are never removed; and all the rows,    *)
(* requests and CLIs of one digest use one storage key.  The last needs    *)
(* that no two applications package the same files: otherwise the row of   *)
(* the one can be completed with the key of the other.                     *)
(***************************************************************************)
OneAppPerDigest == \A p, q \in Projects : p.digest = q.digest => p.app = q.app

HomeOf(p)      == <<p.app, p.digest>>
Home(k)        == \E p \in Projects : k = HomeOf(p)
Present(k)     == objects[k] # None
Packaged(k, x) == (\E p \in Projects : p.digest = k[2] /\ x = p.archive) \/ x \in CutBodies

\* Only archives, or what a cut-off PUT sends of them, are uploaded, under keys of their own digest.
BucketOk ==
    /\ \A k \in StorageKeys : Present(k) => Packaged(k, objects[k])
    /\ \A u \in Uploads : uploads[u].content # None => Packaged(uploads[u].key, uploads[u].content)

RowsOk ==
    \A d \in Digests : /\ artifacts[d].status # "absent" => Home(artifacts[d].key)
                       /\ artifacts[d].status = "stored" => Present(artifacts[d].key)

\* Of a request in flight, whether its CLI still waits or not.
CallOk(r) ==
    pc[r] # "done" =>
        /\ Home(OwnKey(call[r]))
        /\ pc[r] = "assemble" => seen[r].key = OwnKey(call[r])
        /\ call[r].kind \in {"complete", "multipart"} /\ pc[r] \notin {"mrow", "assemble"}
             => Present(OwnKey(call[r]))

CliOk(r) ==
    LET s == cli[r]  p == cli[r].project IN
    /\ s.at \in {"put", "part", "putPart", "uploaded", "closing", "deploy"} => s.key = HomeOf(p)
    /\ s.at \in {"part", "putPart"} => OpenedFor(s.upload, s.key)
    /\ s.at \in {"uploaded", "closing"} /\ ~p.multipart => Present(s.key)
    /\ s.at = "deploy" => Present(s.key) /\ (Retain = 0 => StoredNow(p.digest))

PostedOk == \A q \in posted : Present(q[2]) /\ (Retain = 0 => StoredNow(q[2][2]))

FetchInv ==
    /\ BucketOk /\ RowsOk /\ PostedOk
    /\ \A r \in Reqs : CallOk(r) /\ CliOk(r)

\* What a step never undoes.
ObjectsGrow == \A k \in StorageKeys : objects[k] # None => objects'[k] # None
Kept        == ObjectsGrow /\ UploadsKept /\ (Retain = 0 => StoredStays)

LEMMA HomeTyped == ASSUME NEW k, Home(k) PROVE k \in StorageKeys
BY ProjectTyped DEF Home, HomeOf

LEMMA HomeUnique ==
    ASSUME OneAppPerDigest, NEW k, NEW j, Home(k), Home(j), k[2] = j[2] PROVE k = j
BY DEF OneAppPerDigest, Home, HomeOf

LEMMA CallOkKept ==
    ASSUME ObjectsGrow, NEW q \in Reqs, CallOk(q), pc'[q] = pc[q], call'[q] = call[q], seen'[q] = seen[q]
    PROVE  CallOk(q)'
<1>1. pc[q] # "done" => OwnKey(call[q]) \in StorageKeys
  BY HomeTyped DEF CallOk
<1> QED
  BY <1>1 DEF CallOk, ObjectsGrow, Present, OwnKey

LEMMA CliOkKept ==
    ASSUME Kept, NEW q \in Reqs, SlotOk(q), CliOk(q), cli'[q] = cli[q] PROVE CliOk(q)'
BY DEF Kept, SlotOk, CliOk, ObjectsGrow, UploadsKept, StoredStays, Present, OpenedFor, StoredNow

LEMMA PostedKept ==
    ASSUME Kept, posted \subseteq Apps \X StorageKeys, PostedOk, posted' = posted PROVE PostedOk'
BY DEF Kept, PostedOk, ObjectsGrow, StoredStays, Present, StoredNow, StorageKeys

LEMMA RowWrittenOk ==
    ASSUME ObjectsGrow, RowsOk, artifacts \in [Digests -> Row], NEW d \in Digests, NEW row,
           artifacts' = [artifacts EXCEPT ![d] = row],
           Home(row.key), row.status = "stored" => Present(row.key)
    PROVE  RowsOk'
<1>1. artifacts'[d] = row /\ \A e \in Digests \ {d} : artifacts'[e] = artifacts[e]
  OBVIOUS
<1>2. \A e \in Digests : artifacts[e].status # "absent" => artifacts[e].key \in StorageKeys
  BY HomeTyped DEF RowsOk
<1>3. row.key \in StorageKeys
  BY HomeTyped
<1> HIDE DEF Home
<1> QED
  BY <1>1, <1>2, <1>3 DEF RowsOk, ObjectsGrow, Present, Home

LEMMA RowsUntouched ==
    ASSUME ObjectsGrow, RowsOk,
           \A d \in Digests : artifacts'[d] = artifacts[d] \/ artifacts'[d].status = "absent"
    PROVE  RowsOk'
<1>1. \A d \in Digests : artifacts[d].status # "absent" => artifacts[d].key \in StorageKeys
  BY HomeTyped DEF RowsOk
<1> QED
  BY <1>1 DEF RowsOk, ObjectsGrow, Present, Home

\* The row of a request in flight has the key of the request.
LEMMA RowKey ==
    ASSUME OneAppPerDigest, BaseInv, FetchInv, NEW r \in Reqs, pc[r] # "done",
           RowOf(call[r]).status # "absent"
    PROVE  RowOf(call[r]).key = OwnKey(call[r])
<1>1. call[r].digest \in Digests /\ Home(OwnKey(call[r])) /\ OwnKey(call[r])[2] = call[r].digest
  BY CallTyped DEF BaseInv, RowInv, FetchInv, CallOk, OwnKey
<1>2. Home(RowOf(call[r]).key) /\ RowOf(call[r]).key[2] = call[r].digest
  <2>1. Home(RowOf(call[r]).key) /\ KeyFits(RowOf(call[r]), call[r].digest)
    BY <1>1, KeysFit DEF FetchInv, RowsOk, RowOf, BaseInv, RowInv
  <2> QED
    BY <1>1, <2>1, ProjectsAssumption DEF KeyFits
<1> QED
  BY <1>1, <1>2, HomeUnique

\* No step removes an object.
LEMMA NextObjectsGrow == ASSUME RowInv, [Next]_vars PROVE ObjectsGrow
<1>1. objects \in [StorageKeys -> Contents \cup {None}]
  BY DEF RowInv, TypeInv, TypeOK
<1>2. CASE UNCHANGED objects
  BY <1>2 DEF ObjectsGrow
<1>3. ASSUME NEW r \in Reqs, Assemble(r) PROVE ObjectsGrow
  BY <1>1, <1>3 DEF Assemble, ObjectsGrow
<1>4. ASSUME NEW k, NEW content, PutObject(k, content) PROVE ObjectsGrow
  <2>1. content # None
    BY <1>4, ConstantsAssumption DEF PutObject
  <2> QED
    BY <1>1, <1>4, <2>1 DEF PutObject, ObjectsGrow
<1>5. ASSUME NEW r \in Reqs, HandlerStep(r) PROVE ObjectsGrow
  BY <1>2, <1>3, <1>5
  DEF HandlerStep, PresignStep, CheckStep, StoreStep, MultipartStep, PresignLookup, PresignLink,
      PresignInsert, LinkApp, CompleteRow, CheckRowKey, Backfill, VerifySize,
      VerifyContent, CheckKeyFree, QuotaCount, QuotaBytes, FinalizePending, InsertStored,
      RefuseTakenDigest, FinalizeMultipart, InsertEvent, SelectStale, LogRetention,
      PurgeStale, InitStatus, CreateUpload, UpsertUpload, MultipartRow, bucket
<1> QED
  BY <1>2, <1>4, <1>5
  DEF Next, RequestStep, Receive, Refuse, Abort, PendingGC, Environment, PutPart,
      PresignPart, CreateApp, LegacyInsert, vars, bucket

LEMMA NextKept == ASSUME BaseInv, DurableInv, [Next]_vars PROVE Kept
BY NextObjectsGrow, NextUploadsKept, NextStoredStays DEF BaseInv, Kept

-----------------------------------------------------------------------------
(***************************************************************************)
(* A statement of a handler keeps FetchInv.                                *)
(***************************************************************************)
\* The two statements of a multipart completion that its CLI depends on.
LEMMA HandlerAt ==
    ASSUME NEW r \in Reqs, HandlerStep(r)
    PROVE  /\ pc[r] = "mrow" => MultipartRow(r)
           /\ pc[r] = "assemble" => Assemble(r)
<1>1. PresignStep(r) => pc[r] \notin {"mrow", "assemble"}
  BY DEF PresignStep, PresignLookup, PresignLink, PresignInsert
<1>2. CheckStep(r) => pc[r] \notin {"mrow", "assemble"}
  BY DEF CheckStep, LinkApp, CompleteRow, CheckRowKey, Backfill, VerifySize, VerifyContent,
         CheckKeyFree, QuotaCount, QuotaBytes, Query
<1>3. StoreStep(r) => pc[r] \notin {"mrow", "assemble"}
  BY
  DEF StoreStep, FinalizePending, InsertStored, RefuseTakenDigest, FinalizeMultipart,
      InsertEvent, SelectStale, LogRetention, PurgeStale, Query
<1>4. InitStatus(r) \/ CreateUpload(r) \/ UpsertUpload(r) => pc[r] \notin {"mrow", "assemble"}
  BY DEF InitStatus, CreateUpload, UpsertUpload, Query
<1>5. (MultipartRow(r) => pc[r] = "mrow") /\ (Assemble(r) => pc[r] = "assemble")
  BY DEF MultipartRow, Assemble, Query
<1> QED
  BY <1>1, <1>2, <1>3, <1>4, <1>5 DEF HandlerStep, MultipartStep

LEMMA HandlerBucketOk ==
    ASSUME BaseInv, FetchInv, NEW r \in Reqs, HandlerStep(r) PROVE BucketOk'
<1>1. /\ objects \in [StorageKeys -> Contents \cup {None}] /\ uploads \in [Uploads -> Upload]
      /\ BucketOk
  BY DEF BaseInv, RowInv, TypeInv, TypeOK, FetchInv
<1>2. CASE UNCHANGED <<objects, uploads>>
  BY <1>1, <1>2 DEF BucketOk, Present
<1>3. CASE CreateUpload(r)
  <2>1. ASSUME NEW u \in Uploads, UNCHANGED objects,
               uploads' = [uploads EXCEPT ![u] =
                  [key |-> OwnKey(call[r]), content |-> None, state |-> "open"]]
        PROVE  BucketOk'
    BY <1>1, <2>1 DEF BucketOk, Present
  <2> QED
    BY <1>2, <1>3, <2>1 DEF CreateUpload
<1>4. CASE Assemble(r)
  <2> DEFINE u == call[r].upload
  <2>1. u \in Uploads
    BY <1>4, NotDone, ConstantsAssumption DEF Assemble, BaseInv, RowInv, TypeInv, InFlight
  <2> HIDE DEF u
  <2>2. ASSUME uploads[u].key = seen[r].key, uploads[u].content # None,
               uploads' = [uploads EXCEPT ![u].state = "assembled"],
               objects' = [objects EXCEPT ![seen[r].key] = uploads[u].content]
        PROVE  BucketOk'
    <3>1. Packaged(seen[r].key, uploads[u].content)
      BY <1>1, <2>1, <2>2 DEF BucketOk
    <3>2. \A v \in Uploads : uploads'[v].key = uploads[v].key /\ uploads'[v].content = uploads[v].content
      BY <1>1, <2>1, <2>2 DEF Upload
    <3>3. \A k \in StorageKeys :
            objects'[k] = objects[k] \/ (k = seen[r].key /\ objects'[k] = uploads[u].content)
      BY <1>1, <2>2
    <3> QED
      BY <1>1, <3>1, <3>2, <3>3 DEF BucketOk, Present
  <2> QED
    BY <1>2, <1>4, <2>2 DEF Assemble, u
<1> QED
  BY <1>2, <1>3, <1>4
  DEF HandlerStep, PresignStep, CheckStep, StoreStep, MultipartStep, PresignLookup, PresignLink,
      PresignInsert, LinkApp, CompleteRow, CheckRowKey, Backfill, VerifySize,
      VerifyContent, CheckKeyFree, QuotaCount, QuotaBytes, FinalizePending, InsertStored,
      RefuseTakenDigest, FinalizeMultipart, InsertEvent, SelectStale, LogRetention,
      PurgeStale, InitStatus, UpsertUpload, MultipartRow, bucket

LEMMA HandlerRowsOk ==
    ASSUME OneAppPerDigest, BaseInv, FetchInv, ObjectsGrow, NEW r \in Reqs, HandlerStep(r)
    PROVE  RowsOk'
<1> DEFINE c == call[r]
           d == c.digest
           own == OwnKey(c)
<1>1. /\ artifacts \in [Digests -> Row] /\ d \in Digests /\ RowOf(c) = artifacts[d]
      /\ artifacts[d] \in Row /\ pc[r] # "done" /\ RowsOk /\ CallOk(r)
  BY NotDone, CallTyped DEF BaseInv, RowInv, TypeInv, TypeOK, RowOf, FetchInv
<1>2. Home(own) /\ (artifacts[d].status # "absent" => artifacts[d].key = own)
  BY <1>1, RowKey DEF CallOk
<1>3. pc[r] \in StepsOf(c.kind) /\ c.kind \in Kinds
  BY <1>1, CallTyped DEF BaseInv, RowInv, CliInv, KindOk, Call
<1>4. /\ artifacts[d].status = "absent" <=> artifacts[d].id = 0
      /\ artifacts[d].status = "stored" => Present(own)
      /\ pc[r] = "backfill" => seen[r].row # 0
      /\ pc[r] = "store" /\ c.kind = "multipart" => seen[r].row # 0
  BY <1>1, <1>2 DEF BaseInv, RowInv, RowsWellFormed, KnownRow, RowsOk
<1>5. pc[r] = "store" => Present(own)
  <2>1. pc[r] = "store" => c.kind \in {"complete", "multipart"}
    BY <1>3 DEF StepsOf, AfterApp, PresignSteps, Kinds
  <2> QED
    BY <1>1, <2>1 DEF CallOk
<1> HIDE DEF c
<1>6. ASSUME NEW row, artifacts' = [artifacts EXCEPT ![d] = row],
             row.key = own, row.status = "stored" => Present(own)
      PROVE  RowsOk'
  BY <1>1, <1>2, <1>6, RowWrittenOk
<1>7. CASE UNCHANGED artifacts
  BY <1>1, <1>7, RowsUntouched
<1> HIDE DEF d, own
<1>8. CASE PresignInsert(r)
  <2> DEFINE row == [PendingRow(AppOf(r), own, None) EXCEPT !.id = rowCount + 1]
  <2>1. row.key = own /\ row.status = "pending"
    BY DEF PendingRow, NoRow
  <2>2. UNCHANGED artifacts \/ artifacts' = [artifacts EXCEPT ![d] = row]
    BY <1>8 DEF PresignInsert, InsertRow, c, d, own
  <2> HIDE DEF row
  <2> QED
    BY <1>6, <1>7, <2>1, <2>2
<1>9. CASE Backfill(r)
  <2> DEFINE row == [artifacts[d] EXCEPT !.app = c.app]
  <2>1. row.status = artifacts[d].status /\ row.key = artifacts[d].key
    BY <1>1 DEF Row
  <2>2. UNCHANGED artifacts \/ (artifacts' = [artifacts EXCEPT ![d] = row] /\ artifacts[d].id # 0)
    BY <1>1, <1>4, <1>9 DEF Backfill, Query, c, d
  <2> HIDE DEF row
  <2> QED
    BY <1>2, <1>4, <1>6, <1>7, <2>1, <2>2
<1>10. CASE FinalizePending(r)
  <2> DEFINE row == [artifacts[d] EXCEPT !.app = AppOf(r), !.size = c.size,
                        !.verified = FALSE, !.key = own, !.status = "stored",
                        !.idem = Coalesce(artifacts[d].idem, c.idem)]
  <2>1. row.key = own
    BY <1>1 DEF Row
  <2>2. UNCHANGED artifacts \/ artifacts' = [artifacts EXCEPT ![d] = row]
    BY <1>10 DEF FinalizePending, RowOf, c, d, own
  <2>3. pc[r] = "store"
    BY <1>10 DEF FinalizePending, Query
  <2> HIDE DEF row
  <2> QED
    BY <1>5, <1>6, <1>7, <2>1, <2>2, <2>3
<1>11. CASE FinalizeMultipart(r)
  <2> DEFINE row == [artifacts[d] EXCEPT !.app = AppOf(r), !.size = c.size,
                        !.verified = FALSE, !.status = "stored",
                        !.idem = Coalesce(artifacts[d].idem, c.idem)]
  <2>1. row.key = artifacts[d].key
    BY <1>1 DEF Row
  <2>2. UNCHANGED artifacts \/ (artifacts' = [artifacts EXCEPT ![d] = row] /\ artifacts[d].id = seen[r].row)
    BY <1>11 DEF FinalizeMultipart, RowGone, RowOf, c, d
  <2>3. pc[r] = "store" /\ c.kind = "multipart"
    BY <1>11 DEF FinalizeMultipart, Query, c
  <2> HIDE DEF row
  <2> QED
    BY <1>2, <1>4, <1>5, <1>6, <1>7, <2>1, <2>2, <2>3
<1>12. CASE InsertStored(r)
  <2> DEFINE row == [[NoRow EXCEPT !.app = AppOf(r), !.size = c.size,
                         !.verified = seen[r].verified, !.key = own,
                         !.status = "stored", !.idem = c.idem] EXCEPT !.id = rowCount + 1]
  <2>1. row.key = own
    BY DEF NoRow
  <2>2. UNCHANGED artifacts \/ artifacts' = [artifacts EXCEPT ![d] = row]
    BY <1>12 DEF InsertStored, RefuseTakenDigest, InsertRow, c, d, own
  <2>3. pc[r] = "store"
    BY <1>12 DEF InsertStored, RefuseTakenDigest, Query
  <2> HIDE DEF row
  <2> QED
    BY <1>5, <1>6, <1>7, <2>1, <2>2, <2>3
<1>13. CASE PurgeStale(r)
  <2>1. NoRow.status = "absent"
    BY DEF NoRow
  <2> QED
    BY <1>1, <1>13, <2>1, RowsUntouched DEF PurgeStale, Delete
<1>14. CASE UpsertUpload(r)
  <2> DEFINE new == [PendingRow(None, own, seen[r].upload) EXCEPT !.id = rowCount + 1]
             old == Reinit(artifacts[d], own, seen[r].upload)
  <2>1. /\ new.key = own /\ new.status = "pending"
        /\ old.key = own /\ old.status = artifacts[d].status
    BY <1>1 DEF PendingRow, NoRow, Reinit, Row
  <2>2. \/ artifacts' = [artifacts EXCEPT ![d] = new]
        \/ artifacts' = [artifacts EXCEPT ![d] = old]
        \/ UNCHANGED artifacts
    BY <1>14 DEF UpsertUpload, InsertRow, RowOf, c, d, own
  <2> HIDE DEF new, old
  <2> QED
    BY <1>4, <1>6, <1>7, <2>1, <2>2
<1> QED
  BY <1>7, <1>8, <1>9, <1>10, <1>11, <1>12, <1>13, <1>14
  DEF HandlerStep, PresignStep, CheckStep, StoreStep, MultipartStep, PresignLookup,
      PresignLink, LinkApp, CompleteRow, CheckRowKey, VerifySize, VerifyContent, CheckKeyFree,
      QuotaCount, QuotaBytes, InsertEvent, SelectStale, LogRetention, InitStatus,
      CreateUpload, MultipartRow, Assemble, db

LEMMA HandlerCallOk ==
    ASSUME OneAppPerDigest, BaseInv, FetchInv, ObjectsGrow, NEW r \in Reqs, HandlerStep(r)
    PROVE  \A q \in Reqs : CallOk(q)'
<1>1. /\ pc[r] # "done" /\ CallOk(r) /\ Home(OwnKey(call[r])) /\ OwnKey(call[r]) \in StorageKeys
      /\ objects \in [StorageKeys -> Contents \cup {None}] /\ seen \in [Reqs -> Seen]
  BY NotDone, HomeTyped DEF FetchInv, CallOk, BaseInv, RowInv, TypeInv, TypeOK
<1>2. ASSUME NEW q \in Reqs \ {r} PROVE CallOk(q)'
  BY <1>2, SlotAfter, CallOkKept DEF FetchInv
<1>3. CASE pc'[r] = "done"
  BY <1>2, <1>3 DEF CallOk
<1>4. CASE pc'[r] # "done" /\ call' = call /\ (pc'[r] = "assemble" => pc[r] = "mrow")
  <2>1. pc[r] = "mrow" => pc'[r] = "assemble" /\ seen'[r].key = OwnKey(call[r])
    <3> SUFFICES ASSUME pc[r] = "mrow" PROVE pc'[r] = "assemble" /\ seen'[r].key = OwnKey(call[r])
      OBVIOUS
    <3> DEFINE locals == [seen[r] EXCEPT !.row = RowOf(call[r]).id, !.key = RowOf(call[r]).key]
    <3>1. pc \in [Reqs -> Steps]
      BY DEF BaseInv, RowInv, TypeInv, TypeOK
    <3>2. ASSUME NEW code, Reply(r, code) PROVE FALSE
      BY <1>4, <3>1, <3>2 DEF Reply
    <3>3. RowOf(call[r]).status = "pending" /\ Note(r, locals, "assemble")
      BY <3>2, HandlerAt DEF MultipartRow
    <3>4. locals.key = OwnKey(call[r])
      BY <1>1, <3>3, RowKey DEF Seen
    <3> HIDE DEF locals
    <3> QED
      BY <1>1, <3>1, <3>3, <3>4 DEF Note, Goto
  <2>2. pc[r] = "assemble" => Present(OwnKey(call[r]))'
    <3> SUFFICES ASSUME pc[r] = "assemble" PROVE Present(OwnKey(call[r]))'
      OBVIOUS
    <3>1. pc \in [Reqs -> Steps] /\ seen[r].key = OwnKey(call[r])
      BY <1>1 DEF BaseInv, RowInv, TypeInv, TypeOK, CallOk
    <3>2. ASSUME NEW code, Reply(r, code) PROVE FALSE
      BY <1>4, <3>1, <3>2 DEF Reply
    <3>3. \E x : x # None /\ objects' = [objects EXCEPT ![seen[r].key] = x]
      BY <3>2, HandlerAt DEF Assemble
    <3> QED
      BY <1>1, <1>4, <3>1, <3>3 DEF Present, OwnKey
  <2>3. CallOk(r)'
    BY <1>1, <1>4, <2>1, <2>2 DEF CallOk, ObjectsGrow, Present, OwnKey, Home
  <2> QED
    BY <1>2, <2>3
<1> QED
  BY <1>3, <1>4, SlotAfter

\* What a CLI believes after an answer is so.
LEMMA HandledCliOk ==
    ASSUME OneAppPerDigest, BaseInv, DurableInv, FetchInv, Kept, NEW r \in Reqs, Handled(r)
    PROVE  CliOk(r)'
<1> DEFINE p == cli[r].project
           code == answer'[r].code
<1>1. /\ HandlerStep(r) /\ pc[r] # "done" /\ cli[r].at \in {"opening", "closing", "none"}
      /\ SlotOk(r) /\ CliOk(r) /\ CallOk(r) /\ RowsOk /\ cli \in [Reqs -> Cli] /\ cli[r] \in Cli
      /\ ObjectsGrow /\ UploadsKept /\ (Retain = 0 => StoredStays) /\ NoCli.at = "none"
  BY NotDone DEF Handled, BaseInv, CliInv, SlotOk, FetchInv, Kept, NoCli
<1>2. CASE cli'[r] = cli[r]
  BY <1>1, <1>2, CliOkKept
<1>3. CASE cli'[r].at = "none"
  BY <1>3 DEF CliOk
<1>4. call[r].digest \in Digests /\ RowOf(call[r]) = artifacts[call[r].digest]
  BY <1>1, CallTyped DEF BaseInv, RowInv, RowOf
<1>5. ASSUME RowOf(call[r]).status = "stored"
      PROVE  Present(OwnKey(call[r])) /\ StoredNow(call[r].digest)
  BY <1>1, <1>4, <1>5, RowKey DEF RowsOk, StoredNow
<1>6. ASSUME p \in Projects, OwnKey(call[r]) = HomeOf(p), call[r].digest = p.digest,
             Present(OwnKey(call[r])), Retain = 0 => StoredNow(call[r].digest),
             cli'[r].at = "deploy", cli'[r].project = p, cli'[r].key = HomeOf(p)
      PROVE  CliOk(r)'
  <2>1. HomeOf(p) \in StorageKeys
    BY <1>6, ProjectTyped DEF HomeOf
  <2>2. objects'[HomeOf(p)] # None /\ (Retain = 0 => p.digest \in Digests /\ artifacts'[p.digest].status = "stored")
    BY <1>1, <1>6, <2>1 DEF Present, ObjectsGrow, StoredStays, StoredNow
  <2> QED
    BY <1>6, <2>2 DEF CliOk, Present, StoredNow
<1>7. CASE cli[r].at = "opening" /\ pc'[r] = "done" /\ AnswerSays(r, code)
  <2> DEFINE s == OpeningAnswer(r, code)
  <2>1. cli'[r] = s
    BY <1>1, <1>7 DEF Handled, Step
  <2>2. /\ s.at \in {"none", "put", "deploy", "part"}
        /\ s.at # "none" => s.project = p /\ s.key = AnsweredKey(r)
        /\ s.at = "put" => code = "url"
        /\ s.at = "deploy" => code = "exists"
        /\ s.at = "part" => code = "upload" /\ s.upload = seen[r].upload
    BY <1>7, OpeningAnswered
  <2> HIDE DEF s
  <2>3. p \in Projects /\ OwnKey(call[r]) = HomeOf(p) /\ call[r].digest = p.digest
    BY <1>1, <1>7, BodyFields DEF SlotOk, OwnKey, HomeOf
  <2>4. code \in {"url", "exists", "upload"} => AnsweredKey(r) = HomeOf(p)
    BY <1>1, <1>7, <2>3, RowKey DEF AnswerSays, AnsweredKey
  <2>5. CASE s.at = "deploy"
    BY <1>5, <1>6, <1>7, <2>1, <2>2, <2>3, <2>4, <2>5 DEF AnswerSays
  <2>6. CASE s.at = "part"
    <3>1. OpenedFor(seen[r].upload, HomeOf(p))
      BY <1>7, <2>2, <2>3, <2>6 DEF AnswerSays, BaseInv, UploadInv, UpsertsMatched
    <3>2. OpenedFor(s.upload, s.key) /\ s.key = HomeOf(p)
      BY <2>2, <2>4, <2>6, <3>1
    <3> QED
      BY <1>1, <2>1, <2>2, <2>6, <3>2 DEF CliOk, OpenedFor, UploadsKept
  <2>7. CASE s.at = "put"
    BY <2>1, <2>2, <2>4, <2>7 DEF CliOk
  <2> QED
    BY <1>3, <2>1, <2>2, <2>5, <2>6, <2>7
<1>8. CASE cli[r].at = "closing" /\ pc'[r] = "done" /\ AnswerSays(r, code)
  <2>1. cli'[r] = IF Accepted(code) THEN [cli[r] EXCEPT !.at = "deploy"] ELSE NoCli
    BY <1>1, <1>8 DEF Handled, Step
  <2>2. CASE ~Accepted(code)
    BY <1>1, <1>3, <2>1, <2>2
  <2>3. CASE Accepted(code)
    <3>1. /\ p \in Projects /\ OwnKey(call[r]) = HomeOf(p) /\ call[r].digest = p.digest
          /\ call[r].kind \in {"complete", "multipart"} /\ cli[r].key = HomeOf(p)
      BY <1>1, <1>8, BodyFields DEF SlotOk, OwnKey, HomeOf, CliOk
    <3>2. cli'[r].at = "deploy" /\ cli'[r].project = p /\ cli'[r].key = HomeOf(p)
      BY <1>1, <2>1, <2>3, <3>1 DEF Cli
    <3>3. Present(OwnKey(call[r])) /\ (Retain = 0 => StoredNow(call[r].digest))
      <4>1. CASE code = "stored"
        <5>1. pc[r] \in StoredSteps
          BY <1>8, <4>1 DEF AnswerSays
        <5> QED
          BY <1>1, <3>1, <5>1 DEF StoredSteps, CallOk, DurableInv
      <4>2. CASE code = "duplicate"
        BY <1>5, <1>8, <4>2 DEF AnswerSays
      <4> QED
        BY <2>3, <4>1, <4>2 DEF Accepted
    <3> QED
      BY <1>6, <3>1, <3>2, <3>3
  <2> QED
    BY <2>2, <2>3
<1> QED
  <2>1. pc'[r] # "done" \/ cli[r].at = "none" => cli'[r] = cli[r]
    BY <1>1 DEF Handled, Step
  <2> QED
    BY <1>1, <1>2, <1>7, <1>8, <2>1, SlotAfter

-----------------------------------------------------------------------------
(***************************************************************************)
(* FetchInv is inductive.                                                  *)
(***************************************************************************)
\* A step of one CLI.
LEMMA FetchStep ==
    ASSUME BaseInv, FetchInv, Kept, BucketOk', RowsOk', PostedOk', NEW r \in Reqs,
           \A q \in Reqs \ {r} : pc'[q] = pc[q] /\ call'[q] = call[q] /\ seen'[q] = seen[q]
                                 /\ cli'[q] = cli[q],
           CallOk(r)', CliOk(r)'
    PROVE  FetchInv'
<1>1. ASSUME NEW q \in Reqs \ {r} PROVE CallOk(q)' /\ CliOk(q)'
  BY <1>1, CallOkKept, CliOkKept DEF BaseInv, CliInv, FetchInv, Kept
<1> QED
  BY <1>1 DEF FetchInv

\* A step that leaves the rows and the deployments alone.
LEMMA FetchQuiet ==
    ASSUME BaseInv, FetchInv, Kept, UNCHANGED <<artifacts, posted>>
    PROVE  /\ RowsOk' /\ PostedOk'
           /\ UNCHANGED <<objects, uploads>> => BucketOk'
           /\ \A q \in Reqs : pc'[q] = pc[q] /\ call'[q] = call[q] /\ seen'[q] = seen[q] => CallOk(q)'
<1>1. RowsOk'
  BY RowsUntouched DEF FetchInv, Kept
<1>2. PostedOk'
  BY PostedKept DEF BaseInv, CliInv, FetchInv
<1>3. UNCHANGED <<objects, uploads>> => BucketOk'
  BY DEF FetchInv, BucketOk, Present
<1> QED
  BY <1>1, <1>2, <1>3, CallOkKept DEF FetchInv, Kept

LEMMA SendFetch ==
    ASSUME BaseInv, FetchInv, Kept, NEW r \in Reqs, NEW c \in Calls, NEW s \in Cli, Send(r, c, s),
           Home(OwnKey(c)), c.kind = "complete" => Present(OwnKey(c)),
           \/ s.at = "opening"
           \/ /\ s.at = "closing" /\ s.key = HomeOf(s.project)
              /\ ~s.project.multipart => Present(s.key) /\ s.key \in StorageKeys
    PROVE  FetchInv'
<1>1. /\ pc \in [Reqs -> Steps] /\ call \in [Reqs -> Calls \cup {NoCall}] /\ seen \in [Reqs -> Seen]
      /\ cli \in [Reqs -> Cli] /\ NoCli.at = "none" /\ ObjectsGrow
      /\ OwnKey(c) \in StorageKeys
  BY HomeTyped DEF BaseInv, RowInv, TypeInv, TypeOK, CliInv, NoCli, Kept
<1>2. UNCHANGED <<artifacts, objects, uploads, posted>>
  BY DEF Send, Receive, Refuse, Step, db, bucket
<1>3. CASE Receive(r, c) /\ Step(r, s)
  <2>1. /\ c.kind = "multipart" => FirstStep(c.kind) = "mrow"
        /\ FirstStep(c.kind) # "assemble"
    BY ConstantsAssumption DEF FirstStep, Call, Kinds
  <2>2. /\ pc'[r] = FirstStep(c.kind) /\ call'[r] = c /\ cli'[r] = s
        /\ \A q \in Reqs \ {r} : pc'[q] = pc[q] /\ call'[q] = call[q] /\ seen'[q] = seen[q]
                                 /\ cli'[q] = cli[q]
    BY <1>1, <1>3 DEF Receive, Goto, Step
  <2>3. CallOk(r)'
    BY <1>1, <1>2, <2>1, <2>2 DEF CallOk, Present, OwnKey, Home
  <2>4. CliOk(r)'
    BY <1>2, <2>2 DEF CliOk, Present
  <2> QED
    BY <1>2, <2>2, <2>3, <2>4, FetchStep, FetchQuiet
<1>4. CASE Refuse(r, c) /\ Step(r, NoCli)
  <2>1. /\ UNCHANGED <<pc, call, seen>> /\ cli'[r] = NoCli
        /\ \A q \in Reqs \ {r} : cli'[q] = cli[q]
    BY <1>1, <1>4 DEF Refuse, Step
  <2>2. CliOk(r)'
    BY <1>1, <2>1 DEF CliOk
  <2> QED
    BY <1>2, <2>1, <2>2, FetchStep, FetchQuiet
<1> QED
  BY <1>3, <1>4 DEF Send

\* A CLI uploads its archive, or dies.
LEMMA MoveFetch ==
    ASSUME BaseInv, FetchInv, Kept, NEW r \in Reqs, NEW phase \in Phases, Move(r, phase),
           UNCHANGED artifacts, BucketOk',
           UNCHANGED <<pc, call, seen>> \/ Abort(r),
           \/ phase = "none"
           \/ phase = "putPart" /\ cli[r].at = "part"
           \/ phase = "uploaded" /\ cli[r].at \in {"put", "putPart"}
              /\ (cli[r].at = "put" => Present(cli[r].key)')
    PROVE  FetchInv'
<1> DEFINE s == IF phase = "none" THEN NoCli ELSE [cli[r] EXCEPT !.at = phase]
<1>1. /\ pc \in [Reqs -> Steps] /\ call \in [Reqs -> Calls \cup {NoCall}] /\ seen \in [Reqs -> Seen]
      /\ cli \in [Reqs -> Cli] /\ NoCli.at = "none" /\ SlotOk(r) /\ CliOk(r) /\ UploadsKept
  BY DEF BaseInv, RowInv, TypeInv, TypeOK, CliInv, NoCli, Kept, FetchInv
<1>2. /\ cli'[r] = s /\ posted' = posted /\ \A q \in Reqs \ {r} : cli'[q] = cli[q]
  BY <1>1 DEF Move, Step
<1>3. /\ s.at = phase
      /\ phase # "none" => s.project = cli[r].project /\ s.key = cli[r].key /\ s.upload = cli[r].upload
  BY <1>1 DEF Cli
<1> HIDE DEF s
<1>4. /\ \A q \in Reqs \ {r} : pc'[q] = pc[q] /\ call'[q] = call[q] /\ seen'[q] = seen[q]
      /\ UNCHANGED <<pc, call, seen>> \/ pc'[r] = "done"
  BY <1>1 DEF Abort
<1>5. CallOk(r)'
  BY <1>4, FetchQuiet, <1>2 DEF CallOk
<1>6. CliOk(r)'
  BY <1>1, <1>2, <1>3 DEF CliOk, SlotOk, OpenedFor, UploadsKept, Present
<1> QED
  BY <1>2, <1>4, <1>5, <1>6, FetchStep, FetchQuiet

LEMMA PutFetch == ASSUME BaseInv, FetchInv, Kept, NEW r \in Reqs, Put(r) PROVE FetchInv'
<1> DEFINE p == cli[r].project
<1>1. /\ p \in Projects /\ cli[r].key = HomeOf(p) /\ HomeOf(p) \in StorageKeys
      /\ \A body \in {p.archive} \cup CutBodies : body # None /\ Packaged(HomeOf(p), body)
      /\ objects \in [StorageKeys -> Contents \cup {None}] /\ BucketOk
  BY ProjectTyped, ProjectsAssumption, ConstantsAssumption
  DEF Packaged, Put, BaseInv, CliInv, SlotOk, FetchInv, CliOk, HomeOf, RowInv, TypeInv, TypeOK
<1>2. CASE Move(r, "none") /\ UNCHANGED vars
  BY <1>2, MoveFetch, FetchQuiet DEF vars, db, bucket, handler, Phases, Move, Step
<1>3. ASSUME NEW body \in {p.archive} \cup CutBodies,
             Move(r, "uploaded"), objects[cli[r].key] = body, UNCHANGED vars
      PROVE  FetchInv'
  <2>1. UNCHANGED <<artifacts, objects, uploads, pc, call, seen, posted>>
    BY <1>3 DEF vars, db, bucket, handler, Move, Step
  <2>2. Present(cli[r].key)'
    <3>1. objects'[cli[r].key] # None /\ cli'[r].key = cli[r].key
      BY <1>1, <1>3, <2>1 DEF Move, Step, BaseInv, CliInv, Cli
    <3> QED
      BY <3>1 DEF Present
  <2> QED
    BY <1>3, <2>1, <2>2, MoveFetch, FetchQuiet DEF Put, Phases
<1>4. ASSUME NEW body \in {p.archive} \cup CutBodies,
             Move(r, "uploaded"), PutObject(cli[r].key, body)
      PROVE  FetchInv'
  <2>1. /\ objects' = [objects EXCEPT ![HomeOf(p)] = body]
        /\ UNCHANGED <<artifacts, uploads, pc, call, seen>>
    BY <1>1, <1>4 DEF PutObject, db, handler
  <2>2. Packaged(HomeOf(p), body)
    BY <1>1
  <2>3. BucketOk'
    BY <1>1, <2>1, <2>2 DEF BucketOk, Present
  <2>4. Present(cli[r].key)'
    <3>1. objects'[cli[r].key] # None /\ cli'[r].key = cli[r].key
      BY <1>1, <1>4, <2>1 DEF Move, Step, BaseInv, CliInv, Cli
    <3> QED
      BY <3>1 DEF Present
  <2> QED
    BY <1>4, <2>1, <2>3, <2>4, MoveFetch DEF Put, Phases
<1> QED
  BY <1>2, <1>3, <1>4 DEF Put, PutFails

LEMMA PartFetch ==
    ASSUME BaseInv, FetchInv, Kept, NEW r \in Reqs, AskPartUrl(r) \/ PutThePart(r) PROVE FetchInv'
<1> DEFINE p == cli[r].project
           u == cli[r].upload
<1>1. /\ p \in Projects /\ HomeOf(p) \in StorageKeys /\ HomeOf(p)[2] = p.digest
      /\ u \in Uploads /\ uploads[u].key = HomeOf(p)
      /\ uploads \in [Uploads -> Upload] /\ BucketOk
  BY ProjectTyped
  DEF AskPartUrl, PutThePart, BaseInv, CliInv, SlotOk, FetchInv, CliOk, OpenedFor, HomeOf,
      RowInv, TypeInv, TypeOK
<1>2. CASE Move(r, "none") /\ UNCHANGED vars
  BY <1>2, MoveFetch, FetchQuiet DEF vars, db, bucket, handler, Phases, Move, Step
<1>3. CASE Move(r, "putPart") /\ PresignPart(u) /\ cli[r].at = "part"
  BY <1>3, MoveFetch, FetchQuiet DEF PresignPart, db, handler, Phases, Move, Step
<1>4. CASE Move(r, "uploaded") /\ PutPart(u, p.archive) /\ cli[r].at = "putPart"
  <2>1. /\ uploads' = [uploads EXCEPT ![u].content = p.archive]
        /\ UNCHANGED <<artifacts, objects, pc, call, seen>>
    BY <1>4 DEF PutPart, db, handler
  <2>2. /\ \A v \in Uploads \ {u} : uploads'[v] = uploads[v]
        /\ uploads'[u].key = HomeOf(p) /\ uploads'[u].content = p.archive
    BY <1>1, <2>1 DEF Upload
  <2>3. Packaged(HomeOf(p), p.archive)
    BY <1>1 DEF Packaged
  <2> HIDE DEF p, u
  <2>4. BucketOk'
    BY <1>1, <2>1, <2>2, <2>3 DEF BucketOk, Present
  <2> QED
    BY <1>4, <2>1, <2>4, MoveFetch DEF Phases
<1> QED
  BY <1>2, <1>3, <1>4 DEF AskPartUrl, PutThePart

LEMMA CliStepFetch ==
    ASSUME OneAppPerDigest, BaseInv, DurableInv, FetchInv, Kept, NEW r \in Reqs, CliStep(r)
    PROVE  FetchInv'
<1>1. SlotOk(r) /\ CliOk(r) /\ cli \in [Reqs -> Cli] /\ cli[r] \in Cli
  BY DEF BaseInv, CliInv, FetchInv
<1>2. ASSUME NEW p \in Projects, Deploy(r, p) PROVE FetchInv'
  <2> DEFINE s == [at |-> "opening", project |-> p, key |-> None, upload |-> None]
  <2>1. s \in Cli /\ s.at = "opening" /\ Send(r, Opening(p), s)
    BY <1>2 DEF Cli, Phases, Deploy
  <2>2. Home(OwnKey(Opening(p))) /\ Opening(p).kind # "complete"
    BY BodyFields DEF Home, HomeOf, OwnKey
  <2> HIDE DEF s
  <2> QED
    BY <2>1, <2>2, ProjectTyped, SendFetch
<1>3. CASE Complete(r)
  <2> DEFINE p == cli[r].project
             s == [cli[r] EXCEPT !.at = "closing"]
             c == Closing(p, cli[r].upload)
  <2>1. /\ s \in Cli /\ s.at = "closing" /\ s.project = p /\ s.key = cli[r].key
        /\ cli[r].at = "uploaded" /\ Send(r, c, s)
    BY <1>1, <1>3 DEF Cli, Phases, Complete
  <2>2. p \in Projects /\ cli[r].upload \in UploadsOf(p) /\ cli[r].key \in StorageKeys
    BY <1>1, <2>1 DEF SlotOk
  <2>3. cli[r].key = HomeOf(p) /\ (~p.multipart => Present(cli[r].key))
    BY <1>1, <2>1 DEF CliOk
  <2>4. /\ c \in Calls /\ OwnKey(c) = HomeOf(p) /\ Home(OwnKey(c))
        /\ c.kind = "complete" => ~p.multipart
    BY <2>2, ProjectTyped, BodyFields DEF OwnKey, HomeOf, Home
  <2> HIDE DEF p, s, c
  <2> QED
    BY <2>1, <2>2, <2>3, <2>4, SendFetch
<1>4. CASE Handled(r)
  <2>1. HandlerStep(r) /\ posted' = posted /\ \A q \in Reqs \ {r} : cli'[q] = cli[q]
    BY <1>1, <1>4 DEF Handled, Step
  <2>2. BucketOk' /\ RowsOk' /\ \A q \in Reqs : CallOk(q)'
    BY <2>1, HandlerBucketOk, HandlerRowsOk, HandlerCallOk DEF Kept
  <2>3. PostedOk'
    BY <2>1, PostedKept DEF BaseInv, CliInv, FetchInv
  <2> QED
    BY <1>4, <2>1, <2>2, <2>3, HandledCliOk, SlotAfter, FetchStep
<1>5. CASE Put(r) \/ AskPartUrl(r) \/ PutThePart(r)
  BY <1>5, PutFetch, PartFetch
<1>6. CASE PostDeployment(r)
  <2>1. /\ UNCHANGED <<artifacts, objects, uploads, pc, call, seen>>
        /\ cli'[r] = NoCli /\ \A q \in Reqs \ {r} : cli'[q] = cli[q]
    BY <1>1, <1>6 DEF PostDeployment, vars, db, bucket, handler
  <2>2. BucketOk' /\ RowsOk' /\ CallOk(r)'
    BY <2>1, RowsUntouched, CallOkKept DEF FetchInv, BucketOk, Present, Kept
  <2>3. CliOk(r)'
    BY <2>1 DEF CliOk, NoCli
  <2>4. \A q \in posted' : q \in posted \/ q[2] = cli[r].key
    BY <1>6 DEF PostDeployment
  <2>5. /\ cli[r].key = HomeOf(cli[r].project) /\ Present(cli[r].key)
        /\ Retain = 0 => StoredNow(cli[r].project.digest)
        /\ HomeOf(cli[r].project)[2] = cli[r].project.digest
    BY <1>1, <1>6 DEF PostDeployment, CliOk, HomeOf
  <2>6. PostedOk'
    BY <2>1, <2>4, <2>5 DEF FetchInv, PostedOk, Present, StoredNow
  <2> QED
    BY <2>1, <2>2, <2>3, <2>6, FetchStep
<1>7. CASE Kill(r)
  <2>1. /\ Move(r, "none") /\ UNCHANGED <<artifacts, objects, uploads, posted>>
        /\ UNCHANGED <<pc, call, seen>> \/ Abort(r)
    BY <1>7 DEF Kill, Abort, vars, db, bucket, handler, Move, Step
  <2> QED
    BY <2>1, MoveFetch, FetchQuiet DEF Phases
<1> QED
  BY <1>2, <1>3, <1>4, <1>5, <1>6, <1>7 DEF CliStep

LEMMA FetchInvNext ==
    ASSUME OneAppPerDigest
    PROVE  BaseInv /\ DurableInv /\ FetchInv /\ [CliNext]_cliVars => FetchInv'
<1> SUFFICES ASSUME BaseInv, DurableInv, FetchInv, [CliNext]_cliVars PROVE FetchInv'
  OBVIOUS
<1>1. Kept
  BY BaseInvNext, NextKept
<1>2. ASSUME UNCHANGED <<objects, uploads, pc, call, seen, cli, posted>>,
             \A d \in Digests : artifacts'[d] = artifacts[d] \/ artifacts'[d].status = "absent"
      PROVE  FetchInv'
  <2>1. RowsOk'
    BY <1>1, <1>2, RowsUntouched DEF FetchInv, Kept
  <2>2. BucketOk'
    BY <1>2 DEF FetchInv, BucketOk, Present
  <2>3. PostedOk'
    BY <1>1, <1>2, PostedKept DEF BaseInv, CliInv, FetchInv
  <2>4. \A q \in Reqs : CallOk(q)' /\ CliOk(q)'
    BY <1>1, <1>2, CallOkKept, CliOkKept DEF BaseInv, CliInv, FetchInv, Kept
  <2> QED
    BY <2>1, <2>2, <2>3, <2>4 DEF FetchInv
<1>3. ASSUME NEW i \in RowIds, PendingGC(i), UNCHANGED <<cli, posted>> PROVE FetchInv'
  <2>1. NoRow.status = "absent"
    BY DEF NoRow
  <2> QED
    BY <1>2, <1>3, <2>1 DEF PendingGC, Delete, bucket, handler
<1>4. ASSUME NEW a \in Apps, CreateApp(a), UNCHANGED <<cli, posted>> PROVE FetchInv'
  BY <1>2, <1>4 DEF CreateApp, bucket, handler
<1>5. CASE UNCHANGED cliVars
  BY <1>2, <1>5 DEF cliVars, vars, db, bucket, handler
<1> QED
  BY <1>1, <1>3, <1>4, <1>5, CliStepFetch DEF CliNext

LEMMA FetchInvInvariant == ASSUME OneAppPerDigest PROVE CliSpec => [](BaseInv /\ FetchInv)
<1>1. CliInit => FetchInv
  <2> SUFFICES ASSUME CliInit PROVE FetchInv
    OBVIOUS
  <2>1. NoCli.at = "none" /\ NoRow.status = "absent"
    BY DEF NoCli, NoRow
  <2>2. BucketOk /\ RowsOk /\ PostedOk
    BY <2>1 DEF CliInit, Init, BucketOk, RowsOk, PostedOk, Present
  <2>3. \A r \in Reqs : CallOk(r) /\ CliOk(r)
    BY <2>1 DEF CliInit, Init, CallOk, CliOk
  <2> QED
    BY <2>2, <2>3 DEF FetchInv
<1> QED
  BY <1>1, CliInitBase, BaseInvNext, FetchInvNext, PTL DEF CliSpec

\* What the registry holds as stored can be fetched, however the CLIs' requests, their failures
\* and the GC interleave, as long as no two applications package the same files.
THEOREM StoredRetrievable == ASSUME OneAppPerDigest PROVE CliSpec => []StoredIsRetrievable
<1>1. BaseInv /\ FetchInv => StoredIsRetrievable
  <2> SUFFICES ASSUME BaseInv, FetchInv, NEW d \in Digests, artifacts[d].status = "stored"
               PROVE  Archived(artifacts[d].key)
    BY DEF StoredIsRetrievable
  <2>1. Present(artifacts[d].key) /\ artifacts[d].key \in StorageKeys
    BY HomeTyped DEF FetchInv, RowsOk
  <2> QED
    BY <2>1 DEF FetchInv, BucketOk, Packaged, Archived
<1> QED
  BY <1>1, FetchInvInvariant, PTL

\* Without retention, the artifact of every deployment a CLI asked for is stored, and its
\* archive is in the bucket under the key that the deployment names.
THEOREM DeployedRetrievable == ASSUME OneAppPerDigest PROVE CliSpec => []DeployedIsRetrievable
<1>1. BaseInv /\ FetchInv => DeployedIsRetrievable
  <2> SUFFICES ASSUME BaseInv, FetchInv, Retain = 0, NEW q \in posted
               PROVE  artifacts[q[2][2]].status = "stored" /\ Archived(q[2])
    BY DEF DeployedIsRetrievable
  <2>1. q[2] \in StorageKeys /\ Present(q[2]) /\ StoredNow(q[2][2])
    BY DEF BaseInv, CliInv, FetchInv, PostedOk
  <2> QED
    BY <2>1 DEF FetchInv, BucketOk, Packaged, Archived, StoredNow
<1> QED
  BY <1>1, FetchInvInvariant, PTL
-----------------------------------------------------------------------------
\* All requests are those of CLIs.
OnlyClis ==
    \A c \in Calls : \E p \in Projects, kind \in Kinds, u \in Uploads \cup {None} :
        c = Body(p, kind, u)

\* The key is computed from the digest: the same digest is the same key.
LEMMA KeyOfDigest == ASSUME OnlyClis PROVE OneKeyOfDigest
<1> DEFINE KeyOf(d) == CHOOSE k \in IdemKeys : k[2] = d
<1>1. ASSUME NEW c \in Calls, c.idem # None PROVE c.idem = KeyOf(c.digest)
  <2>1. PICK p \in Projects, kind \in Kinds, u \in Uploads \cup {None} : c = Body(p, kind, u)
    BY DEF OnlyClis
  <2>2. c.digest = p.digest /\ c.idem \in {IdemKey(p), None}
    BY <2>1 DEF Body
  <2>3. IdemKey(p) = KeyOf(p.digest)
    BY DEF IdemKey
  <2> QED
    BY <1>1, <2>2, <2>3
<1> HIDE DEF KeyOf
<1> QED
  BY <1>1 DEF OneKeyOfDigest

\* Where only CLIs use the registry, a completion acknowledged as stored keeps its key and
\* the key names its digest, without any further assumption: CLIs of any projects that race
\* for one digest, or for a key, cannot break it.
THEOREM CliKeysHonoured == ASSUME OnlyClis PROVE CliSpec => []KeyHonoured
BY CliUsesRegistry, KeysHonoured, KeyOfDigest, PTL

\* An answer has the digest and the key of a request that clients send.
AnswersSent == \A r \in Reqs : answer[r].idem # None => Sent(answer[r].digest, answer[r].idem)

LEMMA AnswersSentNext == RowInv /\ AnswersSent /\ [Next]_vars => AnswersSent'
<1> SUFFICES ASSUME RowInv, AnswersSent, [Next]_vars, NEW q \in Reqs, answer'[q].idem # None
             PROVE  Sent(answer'[q].digest, answer'[q].idem)
  BY DEF AnswersSent, Sent
<1> DEFINE Goal == Sent(answer'[q].digest, answer'[q].idem)
<1>1. answer \in [Reqs -> Answer]
  BY DEF RowInv, TypeInv, TypeOK
<1>2. CASE answer'[q] = answer[q]
  BY <1>2 DEF AnswersSent
<1>3. ASSUME NEW r \in Reqs, NEW code, HandlerStep(r), Reply(r, code) PROVE Goal
  <2>1. call[r] \in Calls
    BY <1>3, NotDone DEF RowInv, TypeInv, InFlight
  <2>2. CASE r = q
    BY <1>1, <1>3, <2>1, <2>2 DEF Reply, Sent
  <2>3. CASE r # q
    BY <1>1, <1>2, <1>3, <2>3 DEF Reply
  <2> QED
    BY <2>2, <2>3
<1>4. ASSUME NEW r \in Reqs, HandlerStep(r)
      PROVE  UNCHANGED answer \/ \E code : Reply(r, code)
  BY <1>4
  DEF HandlerStep, PresignStep, CheckStep, StoreStep, MultipartStep, PresignLookup, PresignLink,
      PresignInsert, LinkApp, CompleteRow, CheckRowKey, Backfill, VerifySize, VerifyContent,
      CheckKeyFree, QuotaCount, QuotaBytes, FinalizePending, InsertStored, RefuseTakenDigest,
      FinalizeMultipart, InsertEvent, SelectStale, LogRetention, PurgeStale, InitStatus,
      CreateUpload, UpsertUpload, MultipartRow, Assemble, Continue, Note
<1>5. ASSUME NEW r \in Reqs, NEW c \in Calls, Receive(r, c) PROVE Goal
  BY <1>1, <1>2, <1>5 DEF Receive, NoAnswer
<1>6. ASSUME NEW r \in Reqs, NEW c \in Calls, Refuse(r, c) PROVE Goal
  <2>1. CASE r = q
    BY <1>1, <1>6, <2>1 DEF Refuse, Sent
  <2>2. CASE r # q
    BY <1>1, <1>2, <1>6, <2>2 DEF Refuse
  <2> QED
    BY <2>1, <2>2
<1>7. CASE UNCHANGED answer
  BY <1>2, <1>7
<1>8. ASSUME NEW r \in Reqs, Abort(r) PROVE Goal
  BY <1>7, <1>8 DEF Abort
<1> HIDE DEF Goal
<1>9. ASSUME NEW r \in Reqs, RequestStep(r) PROVE Goal
  <2>1. CASE HandlerStep(r)
    BY <1>3, <1>4, <1>7, <2>1 DEF Goal
  <2> QED
    BY <1>5, <1>6, <1>8, <1>9, <2>1 DEF RequestStep, Goal
<1>10. Goal
  BY <1>7, <1>9
  DEF Goal, Next, PendingGC, Environment, PutObject, PutPart, PresignPart, CreateApp,
      LegacyInsert, vars, handler
<1> QED
  BY <1>10 DEF Goal

\* The key names the digest it was computed from.
LEMMA DigestOfKey ==
    ASSUME OnlyClis, NEW c \in Calls, c.idem # None PROVE c.idem[2] = c.digest
<1>1. PICK p \in Projects, kind \in Kinds, u \in Uploads \cup {None} : c = Body(p, kind, u)
  BY DEF OnlyClis
<1>2. c.digest = p.digest /\ c.idem = IdemKey(p)
  BY <1>1 DEF Body
<1> QED
  BY <1>2, ProjectsAssumption DEF IdemKey

\* No deploy fails because of its idempotency key: the key is computed from the
\* digest, so that CLIs which race for a digest, or repeat a deploy whose answer was
\* lost, find no key but their own.
KeyNeverConflicts ==
    \A r \in Reqs : answer[r].code = "conflict" => answer[r].idem = None

\* Where only CLIs use the registry, no deploy is ever refused for its idempotency key.
THEOREM CliKeysNeverConflict == ASSUME OnlyClis PROVE CliSpec => []KeyNeverConflicts
<1>1. Init => AnswersSent
  BY DEF Init, AnswersSent, NoAnswer
<1>2. ASSUME NEW d, NEW key, key # None, Sent(d, key), Founded(d, key) PROVE FALSE
  <2>1. PICK b \in Calls : b.digest = d /\ b.idem = key
    BY <1>2 DEF Sent
  <2>2. PICK c \in Calls : \/ c.idem = key /\ c.digest # d
                           \/ c.digest = d /\ c.idem \notin {None, key}
    BY <1>2 DEF Founded
  <2>3. key[2] = d
    BY <1>2, <2>1, DigestOfKey
  <2>4. c.idem # None => c.idem[2] = c.digest
    BY DigestOfKey
  <2>5. CASE c.idem = key /\ c.digest # d
    BY <1>2, <2>3, <2>4, <2>5
  <2>6. CASE c.digest = d /\ c.idem \notin {None, key}
    BY <1>2, <2>1, <2>6, KeyOfDigest DEF OneKeyOfDigest
  <2> QED
    BY <2>2, <2>5, <2>6
<1>3. AnswersSent /\ ConflictsFounded => KeyNeverConflicts
  <2> SUFFICES ASSUME AnswersSent, ConflictsFounded, NEW r \in Reqs,
                      answer[r].code = "conflict", answer[r].idem # None
               PROVE  FALSE
    BY DEF KeyNeverConflicts
  <2>1. PICK d, key : d = answer[r].digest /\ key = answer[r].idem
    OBVIOUS
  <2>2. key # None /\ Sent(d, key) /\ Founded(d, key)
    BY <2>1 DEF AnswersSent, ConflictsFounded, Founded
  <2> QED
    BY <1>2, <2>2
<1> QED
  BY <1>1, <1>3, AnswersSentNext, RowInvInvariant, ConflictsJustified, CliUsesRegistry, PTL
  DEF Spec
===============================================================================
