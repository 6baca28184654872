------------------------- MODULE ArtifactLifecycleProofs ----------------------
(***************************************************************************)
(* What becomes of an artifact that was stored, and of the requests about  *)
(* it, in seven parts: the registry implements ArtifactLifecycle,          *)
(* retention included; without retention nobody loses what they were told  *)
(* is stored; with it, the newest rows of an application stay; events are  *)
(* of stored rows, and the rows they mark as removed are surplus; an       *)
(* idempotency key that a client was told is stored names its digest; a    *)
(* request is refused for its key only if clients send it with something   *)
(* else; every request comes to an end.                                    *)
(*                                                                         *)
(* What needs an invariant in the first part: the rows that retention      *)
(* selected two statements before it deletes them are stored (StaleInv),   *)
(* and an answer that says "stored" belongs to a slot with nothing in      *)
(* flight (AnswerInv).                                                     *)
(***************************************************************************)
EXTENDS ArtifactRegistryProofs, WellFoundedInduction

AnswerInvOf(r) ==
    answer[r].code \in DurableCodes => pc[r] = "done" /\ answer[r].digest \in Digests

\* Ids that retention selected are of rows once inserted, and of stored rows if
\* they still are.
StaleInvOf(r) ==
    /\ pc[r] \in {"retain", "log", "purge"} => Retain > 0
    /\ \A i \in seen[r].stale : i <= rowCount
    /\ \A d \in Digests : artifacts[d].id \in seen[r].stale => artifacts[d].status = "stored"

AnswerInv == \A r \in Reqs : AnswerInvOf(r)
StaleInv  == \A r \in Reqs : StaleInvOf(r)
LifeInv == RowInv /\ AnswerInv /\ StaleInv

-----------------------------------------------------------------------------
(***************************************************************************)
(* The steps of ArtifactLifecycle, over the values the registry gives its  *)
(* variables.                                                              *)
(***************************************************************************)
StatusMap == [d \in Digests |-> artifacts[d].status]
Clients   == [r \in Reqs |-> ClientOf(r)]
LifeStep  == [Lifecycle!Next]_(Lifecycle!vars)

Idle            == [at |-> "idle", digest |-> None]
Working(d)      == [at |-> "working", digest |-> d]
Witnessed(d)    == [at |-> "witnessed", digest |-> d]
Acknowledged(d) == [at |-> "acknowledged", digest |-> d]

LEMMA KeepStep == ASSUME StatusMap' = StatusMap, Clients' = Clients PROVE LifeStep
BY DEF LifeStep, Lifecycle!vars, StatusMap, Clients

LEMMA GiveUpStep ==
    ASSUME NEW s \in Reqs, StatusMap' = StatusMap, Clients' = [Clients EXCEPT ![s] = Idle]
    PROVE  LifeStep
<1>1. Lifecycle!GiveUp(s)
  BY DEF Lifecycle!GiveUp, Lifecycle!Moves, Lifecycle!Idle, StatusMap, Clients, Idle
<1> QED
  BY <1>1 DEF Lifecycle!Next, LifeStep

LEMMA BeginStep ==
    ASSUME NEW s \in Reqs, NEW d \in Digests, StatusMap' = StatusMap,
           Clients[s] \in {Idle} \cup {Acknowledged(e) : e \in Digests},
           Clients' = [Clients EXCEPT ![s] = Working(d)]
    PROVE  LifeStep
<1>1. Lifecycle!Begin(s, d)
  BY DEF Lifecycle!Begin, Lifecycle!Moves, Lifecycle!Idle, Lifecycle!Acknowledged,
         Lifecycle!Working, StatusMap, Clients, Idle, Acknowledged, Working
<1> QED
  BY <1>1 DEF Lifecycle!Next, LifeStep

LEMMA AnnounceStep ==
    ASSUME NEW s \in Reqs, NEW d \in Digests, Clients[s] = Working(d),
           StatusMap[d] = "absent", StatusMap' = [StatusMap EXCEPT ![d] = "pending"],
           Clients' = [Clients EXCEPT ![s] = Idle]
    PROVE  LifeStep
<1>1. Lifecycle!Announce(s, d)
  BY DEF Lifecycle!Announce, Lifecycle!Moves, Lifecycle!Idle, Lifecycle!Working,
         StatusMap, Clients, Idle, Working
<1> QED
  BY <1>1 DEF Lifecycle!Next, LifeStep

LEMMA StoringStep ==
    ASSUME NEW s \in Reqs, NEW d \in Digests, Clients[s] = Working(d),
           StatusMap' = [StatusMap EXCEPT ![d] = "stored"],
           Clients' = [Clients EXCEPT ![s] = Witnessed(d)]
    PROVE  LifeStep
<1>1. Lifecycle!Store(s, d)
  BY DEF Lifecycle!Store, Lifecycle!Moves, Lifecycle!Witnessed, Lifecycle!Working,
         StatusMap, Clients, Witnessed, Working
<1> QED
  BY <1>1 DEF Lifecycle!Next, LifeStep

LEMMA AcknowledgeStep ==
    ASSUME NEW s \in Reqs, NEW d \in Digests,
           Clients[s] = Witnessed(d) \/ (Clients[s] = Working(d) /\ StatusMap[d] = "stored"),
           StatusMap' = StatusMap, Clients' = [Clients EXCEPT ![s] = Acknowledged(d)]
    PROVE  LifeStep
<1>1. Lifecycle!Acknowledge(s, d)
  BY DEF Lifecycle!Acknowledge, Lifecycle!Moves, Lifecycle!Witnessed, Lifecycle!Working,
         Lifecycle!Acknowledged, StatusMap, Clients, Witnessed, Working, Acknowledged
<1> QED
  BY <1>1 DEF Lifecycle!Next, LifeStep

LEMMA RetireStep ==
    ASSUME NEW s \in Reqs, NEW d \in Digests, Retain > 0, Clients[s] = Witnessed(d),
           NEW gone \in SUBSET Digests, \A e \in gone : StatusMap[e] = "stored",
           StatusMap' = [e \in Digests |-> IF e \in gone THEN "absent" ELSE StatusMap[e]],
           Clients' = [Clients EXCEPT ![s] = Acknowledged(d)]
    PROVE  LifeStep
<1>1. gone \in SUBSET {e \in Digests : StatusMap[e] = "stored"}
  OBVIOUS
<1>2. Lifecycle!Retire(s, d)
  BY <1>1 DEF Lifecycle!Retire, Lifecycle!Moves, Lifecycle!Witnessed,
         Lifecycle!Acknowledged, StatusMap, Clients, Witnessed, Acknowledged
<1> QED
  BY <1>2 DEF Lifecycle!Next, LifeStep

LEMMA ExpireStep ==
    ASSUME NEW gone \in SUBSET Digests, \A e \in gone : StatusMap[e] = "pending",
           StatusMap' = [e \in Digests |-> IF e \in gone THEN "absent" ELSE StatusMap[e]],
           Clients' = Clients
    PROVE  LifeStep
<1>1. gone \in SUBSET {e \in Digests : StatusMap[e] = "pending"}
  OBVIOUS
<1>2. Lifecycle!Expire
  BY <1>1 DEF Lifecycle!Expire, StatusMap, Clients
<1> QED
  BY <1>2 DEF Lifecycle!Next, LifeStep

LEMMA DepositStep ==
    ASSUME NEW d \in Digests, StatusMap[d] = "absent",
           StatusMap' = [StatusMap EXCEPT ![d] = "stored"], Clients' = Clients
    PROVE  LifeStep
<1>1. Lifecycle!Deposit(d)
  BY DEF Lifecycle!Deposit, StatusMap, Clients
<1> QED
  BY <1>1 DEF Lifecycle!Next, LifeStep

-----------------------------------------------------------------------------
(***************************************************************************)
(* What a client may rely on, before and after a statement of its handler. *)
(***************************************************************************)
LEMMA ClientOfCases ==
    ASSUME NEW r \in Reqs
    PROVE  /\ pc[r] = "done" /\ answer[r].code \in DurableCodes =>
                ClientOf(r) = Acknowledged(answer[r].digest)
           /\ pc[r] = "done" /\ answer[r].code \notin DurableCodes => ClientOf(r) = Idle
           /\ pc[r] \in StoredSteps => ClientOf(r) = Witnessed(call[r].digest)
           /\ pc[r] \notin StoredSteps \cup {"done"} => ClientOf(r) = Working(call[r].digest)
BY DEF ClientOf, StoredSteps, Acknowledged, Idle, Witnessed, Working

LEMMA OthersUnmoved ==
    ASSUME NEW r \in Reqs, NEW to, ClientOf(r)' = to,
           \A q \in Reqs \ {r} : pc'[q] = pc[q] /\ answer'[q] = answer[q] /\ call'[q] = call[q]
    PROVE  Clients' = [Clients EXCEPT ![r] = to]
<1>1. \A q \in Reqs \ {r} : ClientOf(q)' = ClientOf(q)
  BY DEF ClientOf
<1> QED
  BY <1>1 DEF Clients

LEMMA ReplyClients ==
    ASSUME TypeInv, NEW r \in Reqs, NEW code, Reply(r, code)
    PROVE  Clients' = [Clients EXCEPT ![r] =
             IF code \in DurableCodes THEN Acknowledged(call[r].digest) ELSE Idle]
<1>1. /\ pc'[r] = "done" /\ answer'[r].code = code /\ answer'[r].digest = call[r].digest
      /\ \A q \in Reqs \ {r} : pc'[q] = pc[q] /\ answer'[q] = answer[q] /\ call'[q] = call[q]
  BY DEF TypeInv, TypeOK, Reply
<1>2. ClientOf(r)' = IF code \in DurableCodes THEN Acknowledged(call[r].digest) ELSE Idle
  BY <1>1 DEF ClientOf, Acknowledged, Idle, StoredSteps
<1> QED
  BY <1>1, <1>2, OthersUnmoved

LEMMA NoteClients ==
    ASSUME TypeInv, NEW r \in Reqs, NEW locals, NEW step, step # "done", Note(r, locals, step)
    PROVE  Clients' = [Clients EXCEPT ![r] =
             IF step \in StoredSteps THEN Witnessed(call[r].digest) ELSE Working(call[r].digest)]
<1>1. /\ pc'[r] = step /\ answer' = answer /\ call' = call
      /\ \A q \in Reqs \ {r} : pc'[q] = pc[q]
  BY DEF TypeInv, TypeOK, Note, Goto
<1>2. ClientOf(r)' = IF step \in StoredSteps THEN Witnessed(call[r].digest)
                     ELSE Working(call[r].digest)
  BY <1>1 DEF ClientOf, Witnessed, Working, StoredSteps
<1> QED
  BY <1>1, <1>2, OthersUnmoved

\* A handler that goes on without storing anything moves nobody.
LEMMA NoteKeeps ==
    ASSUME TypeInv, NEW r \in Reqs, pc[r] # "done", NEW locals, NEW step, step # "done",
           Note(r, locals, step), step \in StoredSteps <=> pc[r] \in StoredSteps,
           StatusMap' = StatusMap
    PROVE  LifeStep
<1>1. Clients[r] = IF step \in StoredSteps THEN Witnessed(call[r].digest)
                   ELSE Working(call[r].digest)
  BY ClientOfCases DEF Clients
<1>2. Clients' = Clients
  BY <1>1, NoteClients DEF Clients
<1> QED
  BY <1>2, KeepStep

\* An answer is a promise only if the handler has seen the digest stored.
LEMMA ReplyKeeps ==
    ASSUME TypeInv, NEW r \in Reqs, pc[r] # "done", NEW code, Reply(r, code),
           code \in DurableCodes => pc[r] \in StoredSteps \/ artifacts[call[r].digest].status = "stored",
           StatusMap' = StatusMap
    PROVE  LifeStep
<1>1. call[r].digest \in Digests
  BY CallTyped
<1>2. CASE code \notin DurableCodes
  BY <1>2, ReplyClients, GiveUpStep
<1>3. CASE code \in DurableCodes
  <2>1. Clients' = [Clients EXCEPT ![r] = Acknowledged(call[r].digest)]
    BY <1>3, ReplyClients
  <2>2. \/ Clients[r] = Witnessed(call[r].digest)
        \/ (Clients[r] = Working(call[r].digest) /\ StatusMap[call[r].digest] = "stored")
    BY <1>1, <1>3, ClientOfCases DEF Clients, StatusMap
  <2> QED
    BY <1>1, <2>1, <2>2, AcknowledgeStep
<1> QED
  BY <1>2, <1>3

-----------------------------------------------------------------------------
(***************************************************************************)
(* Every statement of a handler is a step of ArtifactLifecycle.            *)
(***************************************************************************)
LEMMA RowWritten ==
    ASSUME artifacts \in [Digests -> Row], NEW d \in Digests, NEW row,
           artifacts' = [artifacts EXCEPT ![d] = row]
    PROVE  StatusMap' = [StatusMap EXCEPT ![d] = row.status]
BY DEF StatusMap

LEMMA StatusUnchanged == UNCHANGED artifacts => StatusMap' = StatusMap
BY DEF StatusMap

LEMMA PresignRefines ==
    ASSUME LifeInv, NEW r \in Reqs, PresignStep(r) PROVE LifeStep
<1>1. TypeInv /\ pc[r] # "done" /\ pc[r] \notin StoredSteps
  BY DEF LifeInv, RowInv, PresignStep, PresignLookup, PresignLink, PresignInsert, StoredSteps
<1>2. call[r].digest \in Digests /\ artifacts \in [Digests -> Row]
  BY <1>1, CallTyped DEF TypeInv, TypeOK
<1>3. CASE PresignLookup(r)
  <2>1. StatusMap' = StatusMap
    BY <1>3, StatusUnchanged DEF PresignLookup, db
  <2>2. \/ Reply(r, "exists") /\ artifacts[call[r].digest].status = "stored"
        \/ Reply(r, "url")
        \/ Note(r, seen[r], "link")
    BY <1>3 DEF PresignLookup, IsStored, RowOf, Continue
  <2> QED
    BY <1>1, <2>1, <2>2, ReplyKeeps, NoteKeeps DEF DurableCodes, StoredSteps
<1>4. CASE PresignLink(r)
  <2>1. (\E locals : Note(r, locals, "insert")) /\ StatusMap' = StatusMap
    BY <1>4, StatusUnchanged, PresignLinkNotes DEF PresignLink, db
  <2> QED
    BY <1>1, <2>1, NoteKeeps DEF StoredSteps
<1>5. CASE PresignInsert(r)
  <2> DEFINE row == [PendingRow(AppOf(r), OwnKey(call[r]), None) EXCEPT !.id = rowCount + 1]
  <2>1. row.status = "pending"
    BY DEF PendingRow, NoRow
  <2>2. /\ Reply(r, "url")
        /\ \/ UNCHANGED artifacts
           \/ /\ artifacts' = [artifacts EXCEPT ![call[r].digest] = row]
              /\ artifacts[call[r].digest].status = "absent"
    BY <1>5 DEF PresignInsert, InsertRow, RowOf
  <2> HIDE DEF row
  <2>3. CASE UNCHANGED artifacts
    BY <1>1, <2>2, <2>3, StatusUnchanged, ReplyKeeps DEF DurableCodes
  <2>4. CASE /\ artifacts' = [artifacts EXCEPT ![call[r].digest] = row]
             /\ artifacts[call[r].digest].status = "absent"
    <3>1. StatusMap' = [StatusMap EXCEPT ![call[r].digest] = "pending"]
      BY <1>2, <2>1, <2>4, RowWritten
    <3>2. Clients' = [Clients EXCEPT ![r] = Idle]
      BY <1>1, <2>2, ReplyClients DEF DurableCodes
    <3>3. Clients[r] = Working(call[r].digest) /\ StatusMap[call[r].digest] = "absent"
      BY <1>1, <1>2, <2>4, ClientOfCases DEF Clients, StatusMap
    <3> QED
      BY <1>2, <3>1, <3>2, <3>3, AnnounceStep
  <2> QED
    BY <2>2, <2>3, <2>4
<1> QED
  BY <1>3, <1>4, <1>5 DEF PresignStep

LEMMA CheckRefines ==
    ASSUME LifeInv, NEW r \in Reqs, CheckStep(r) PROVE LifeStep
<1>1. TypeInv /\ pc[r] # "done" /\ pc[r] \notin StoredSteps
  BY DEF LifeInv, RowInv, CheckStep, LinkApp, CompleteRow, CheckRowKey, Backfill, VerifySize,
         VerifyContent, CheckKeyFree, QuotaCount, QuotaBytes, Query, StoredSteps
<1>2. call[r].digest \in Digests /\ artifacts \in [Digests -> Row]
  BY <1>1, CallTyped DEF TypeInv, TypeOK
<1>3. StatusMap' = StatusMap
  <2>1. CASE Backfill(r)
    <3> DEFINE row == [artifacts[call[r].digest] EXCEPT !.app = call[r].app]
    <3>1. row.status = artifacts[call[r].digest].status
      BY <1>2 DEF Row
    <3>2. UNCHANGED artifacts \/ artifacts' = [artifacts EXCEPT ![call[r].digest] = row]
      BY <2>1 DEF Backfill
    <3> HIDE DEF row
    <3>3. artifacts' = [artifacts EXCEPT ![call[r].digest] = row] => StatusMap' = StatusMap
      BY <1>2, <3>1 DEF StatusMap
    <3> QED
      BY <3>2, <3>3, StatusUnchanged
  <2>2. CASE UNCHANGED artifacts
    BY <2>2, StatusUnchanged
  <2> QED
    BY <2>1, <2>2
    DEF CheckStep, LinkApp, CompleteRow, CheckRowKey, VerifySize, VerifyContent,
        CheckKeyFree, QuotaCount, QuotaBytes, db
<1>4. \A linked : AfterChecks(linked) \in {"count", "store"}
  BY DEF AfterChecks
<1>5. ASSUME NEW code, Reply(r, code),
             code \in DurableCodes => artifacts[call[r].digest].status = "stored"
      PROVE  LifeStep
  BY <1>1, <1>3, <1>5, ReplyKeeps
<1>6. ASSUME NEW locals, NEW step, Note(r, locals, step), step \notin StoredSteps \cup {"done"}
      PROVE  LifeStep
  BY <1>1, <1>3, <1>6, NoteKeeps
<1>7. ASSUME NEW step, Continue(r, step), step \notin StoredSteps \cup {"done"}
      PROVE  LifeStep
  BY <1>6, <1>7 DEF Continue
<1>8. CASE LinkApp(r)
  BY <1>6, <1>8, LinkAppGoes DEF StoredSteps
<1>9. CASE CompleteRow(r)
  BY <1>5, <1>6, <1>7, <1>9 DEF CompleteRow, IsStored, RowOf, DurableCodes, StoredSteps
<1>10. CASE CheckKeyFree(r)
  <2>1. call[r].signed \in BOOLEAN
    BY <1>1, CallTyped DEF Call
  <2>2. Reply(r, "conflict") \/ \E locals : Note(r, locals, AfterChecks(seen[r].linked))
    BY <1>10, <2>1, CheckKeyFreeNotes
  <2> QED
    BY <1>4, <1>5, <1>6, <2>2 DEF DurableCodes, StoredSteps
<1>11. CASE CheckRowKey(r) \/ Backfill(r) \/ QuotaCount(r) \/ QuotaBytes(r)
  BY <1>5, <1>6, <1>7, <1>11
  DEF CheckRowKey, Backfill, QuotaCount, QuotaBytes, DurableCodes, StoredSteps
<1>12. CASE VerifySize(r) \/ VerifyContent(r)
  BY <1>4, <1>5, <1>7, <1>12 DEF VerifySize, VerifyContent, DurableCodes, StoredSteps
<1> QED
  BY <1>8, <1>9, <1>10, <1>11, <1>12 DEF CheckStep

LEMMA MultipartRefines ==
    ASSUME LifeInv, NEW r \in Reqs, MultipartStep(r) PROVE LifeStep
<1>1. TypeInv /\ pc[r] # "done" /\ pc[r] \notin StoredSteps
  BY DEF LifeInv, RowInv, MultipartStep, InitStatus, CreateUpload, UpsertUpload, MultipartRow,
         Assemble, Query, StoredSteps
<1>2. call[r].digest \in Digests /\ artifacts \in [Digests -> Row]
  BY <1>1, CallTyped DEF TypeInv, TypeOK
<1>3. CASE InitStatus(r) \/ Assemble(r)
  <2>1. StatusMap' = StatusMap
    BY <1>3, StatusUnchanged DEF InitStatus, Assemble, db
  <2>2. \/ \E code : Reply(r, code) /\ code \notin DurableCodes
        \/ \E step : Note(r, seen[r], step) /\ step \notin StoredSteps \cup {"done"}
    BY <1>3 DEF InitStatus, Assemble, Continue, DurableCodes, StoredSteps
  <2> QED
    BY <1>1, <2>1, <2>2, ReplyKeeps, NoteKeeps
<1>4. CASE CreateUpload(r)
  <2>1. StatusMap' = StatusMap
    BY <1>4, StatusUnchanged DEF CreateUpload, db
  <2>2. Reply(r, "error") \/ \E locals : Note(r, locals, "upsert")
    BY <1>4 DEF CreateUpload
  <2> QED
    BY <1>1, <2>1, <2>2, ReplyKeeps, NoteKeeps DEF DurableCodes, StoredSteps
<1>5. CASE MultipartRow(r)
  <2>1. StatusMap' = StatusMap
    BY <1>5, StatusUnchanged DEF MultipartRow, db
  <2>2. \/ Reply(r, "rejected")
        \/ Reply(r, "duplicate") /\ artifacts[call[r].digest].status = "stored"
        \/ \E locals : Note(r, locals, "assemble")
    BY <1>5 DEF MultipartRow, IsStored, RowOf
  <2> QED
    BY <1>1, <2>1, <2>2, ReplyKeeps, NoteKeeps DEF DurableCodes, StoredSteps
<1>6. CASE UpsertUpload(r)
  <2> DEFINE d   == call[r].digest
             new == [PendingRow(None, OwnKey(call[r]), seen[r].upload) EXCEPT !.id = rowCount + 1]
             old == Reinit(artifacts[d], OwnKey(call[r]), seen[r].upload)
  <2>1. new.status = "pending" /\ old.status = artifacts[d].status
    BY <1>2 DEF PendingRow, NoRow, Reinit, Row
  <2>2. /\ Reply(r, "upload")
        /\ \/ artifacts[d].status = "absent" /\ artifacts' = [artifacts EXCEPT ![d] = new]
           \/ artifacts' = [artifacts EXCEPT ![d] = old]
           \/ UNCHANGED artifacts
    BY <1>6 DEF UpsertUpload, InsertRow, RowOf
  <2> HIDE DEF new, old
  <2>3. CASE artifacts[d].status = "absent" /\ artifacts' = [artifacts EXCEPT ![d] = new]
    <3>1. StatusMap' = [StatusMap EXCEPT ![d] = new.status]
      BY <1>2, <2>3 DEF StatusMap
    <3>2. Clients' = [Clients EXCEPT ![r] = Idle]
      BY <1>1, <2>2, ReplyClients DEF DurableCodes
    <3>3. Clients[r] = Working(d) /\ StatusMap[d] = "absent"
      BY <1>1, <1>2, <2>3, ClientOfCases DEF Clients, StatusMap
    <3> QED
      BY <1>2, <2>1, <3>1, <3>2, <3>3, AnnounceStep
  <2>4. CASE artifacts' = [artifacts EXCEPT ![d] = old]
    <3>1. \A e \in Digests : artifacts'[e].status = artifacts[e].status
      BY <1>2, <2>1, <2>4
    <3>2. StatusMap' = StatusMap
      BY <3>1 DEF StatusMap
    <3> QED
      BY <1>1, <2>2, <3>2, ReplyKeeps DEF DurableCodes
  <2>5. CASE UNCHANGED artifacts
    BY <1>1, <2>2, <2>5, StatusUnchanged, ReplyKeeps DEF DurableCodes
  <2> QED
    BY <2>2, <2>3, <2>4, <2>5
<1> QED
  BY <1>3, <1>4, <1>5, <1>6 DEF MultipartStep

\* A deletion by ids, seen from outside.
LEMMA DeletedStatus ==
    ASSUME NEW ids, Delete(ids)
    PROVE  StatusMap' = [e \in Digests |->
             IF e \in {d \in Digests : artifacts[d].id \in ids} THEN "absent" ELSE StatusMap[e]]
<1>1. NoRow.status = "absent"
  BY DEF NoRow
<1> QED
  BY <1>1 DEF Delete, StatusMap

\* The three statements that store a row.
LEMMA StoredRefines ==
    ASSUME LifeInv, NEW r \in Reqs, FinalizePending(r) \/ FinalizeMultipart(r) \/ InsertStored(r)
    PROVE  LifeStep
<1> DEFINE d == call[r].digest
           old == artifacts[d]
<1>1. TypeInv /\ pc[r] = "store"
  BY
  DEF LifeInv, RowInv, FinalizePending, FinalizeMultipart, InsertStored, RefuseTakenDigest,
      Query
<1>2. d \in Digests /\ artifacts \in [Digests -> Row] /\ old \in Row
  BY <1>1, CallTyped DEF TypeInv, TypeOK
<1>3. ASSUME UNCHANGED artifacts, NEW code, Reply(r, code), code \notin DurableCodes
      PROVE  LifeStep
  BY <1>1, <1>3, StatusUnchanged, ReplyKeeps
<1>4. ASSUME NEW row, row.status = "stored", artifacts' = [artifacts EXCEPT ![d] = row],
             NEW locals, Note(r, locals, "event")
      PROVE  LifeStep
  <2>1. StatusMap' = [StatusMap EXCEPT ![d] = "stored"]
    BY <1>2, <1>4, RowWritten
  <2>2. Clients' = [Clients EXCEPT ![r] = Witnessed(d)]
    BY <1>1, <1>4, NoteClients DEF StoredSteps
  <2>3. Clients[r] = Working(d)
    BY <1>1, ClientOfCases DEF Clients, StoredSteps
  <2> QED
    BY <1>2, <2>1, <2>2, <2>3, StoringStep
<1>5. CASE FinalizePending(r)
  <2> DEFINE row == [old EXCEPT !.app = AppOf(r), !.size = call[r].size,
                        !.verified = FALSE, !.key = OwnKey(call[r]), !.status = "stored",
                        !.idem = Coalesce(old.idem, call[r].idem)]
  <2>1. row.status = "stored"
    BY <1>2 DEF Row
  <2>2. \/ UNCHANGED artifacts /\ (Reply(r, "error") \/ Reply(r, "conflict"))
        \/ artifacts' = [artifacts EXCEPT ![d] = row] /\ Note(r, seen[r], "event")
    BY <1>5 DEF FinalizePending, RowOf, Continue
  <2> HIDE DEF d, old, row
  <2> QED
    BY <1>3, <1>4, <2>1, <2>2 DEF DurableCodes
<1>6. CASE FinalizeMultipart(r)
  <2> DEFINE row == [old EXCEPT !.app = AppOf(r), !.size = call[r].size,
                        !.verified = FALSE, !.status = "stored",
                        !.idem = Coalesce(old.idem, call[r].idem)]
  <2>1. row.status = "stored"
    BY <1>2 DEF Row
  <2>2. \/ UNCHANGED artifacts /\ Reply(r, "error")
        \/ artifacts' = [artifacts EXCEPT ![d] = row] /\ Note(r, seen[r], "event")
    BY <1>6 DEF FinalizeMultipart, RowOf, Continue
  <2> HIDE DEF d, old, row
  <2> QED
    BY <1>3, <1>4, <2>1, <2>2 DEF DurableCodes
<1>7. CASE InsertStored(r)
  <2> DEFINE row == [[NoRow EXCEPT !.app = AppOf(r), !.size = call[r].size,
                         !.verified = seen[r].verified, !.key = OwnKey(call[r]),
                         !.status = "stored", !.idem = call[r].idem] EXCEPT !.id = rowCount + 1]
             locals == [seen[r] EXCEPT !.row = rowCount + 1]
  <2>1. row.status = "stored"
    BY DEF NoRow
  <2>2. \/ UNCHANGED artifacts /\ (Reply(r, "error") \/ Reply(r, "conflict"))
        \/ artifacts' = [artifacts EXCEPT ![d] = row] /\ Note(r, locals, "event")
    BY <1>7 DEF InsertStored, RefuseTakenDigest, InsertRow
  <2> HIDE DEF d, old, row, locals
  <2> QED
    BY <1>3, <1>4, <2>1, <2>2 DEF DurableCodes
<1> QED
  BY <1>5, <1>6, <1>7

\* The statements after the write, up to the answer.
LEMMA AfterStoreRefines ==
    ASSUME LifeInv, NEW r \in Reqs,
           InsertEvent(r) \/ SelectStale(r) \/ LogRetention(r) \/ PurgeStale(r)
    PROVE  LifeStep
<1>1. TypeInv /\ pc[r] \in StoredSteps /\ pc[r] # "done"
  BY DEF LifeInv, RowInv, InsertEvent, SelectStale, LogRetention, PurgeStale, Query, StoredSteps
<1>2. CASE InsertEvent(r) \/ LogRetention(r)
  <2>1. StatusMap' = StatusMap
    BY <1>2, StatusUnchanged DEF InsertEvent, LogRetention
  <2>2. Reply(r, "stored") \/ \E step \in {"retain", "log", "purge"} : Note(r, seen[r], step)
    BY <1>2 DEF InsertEvent, LogRetention, Continue
  <2> QED
    BY <1>1, <2>1, <2>2, ReplyKeeps, NoteKeeps DEF StoredSteps
<1>3. CASE SelectStale(r)
  <2>1. StatusMap' = StatusMap
    BY <1>3, StatusUnchanged DEF SelectStale, db
  <2>2. Reply(r, "stored") \/ \E locals : Note(r, locals, "log")
    BY <1>3 DEF SelectStale
  <2> QED
    BY <1>1, <2>1, <2>2, ReplyKeeps, NoteKeeps DEF StoredSteps
<1>4. CASE PurgeStale(r) /\ UNCHANGED artifacts
  BY <1>1, <1>4, StatusUnchanged, ReplyKeeps DEF PurgeStale
<1>5. CASE PurgeStale(r) /\ Delete(seen[r].stale)
  <2> DEFINE gone == {d \in Digests : artifacts[d].id \in seen[r].stale}
  <2>1. Delete(seen[r].stale) /\ Reply(r, "stored") /\ pc[r] = "purge"
    BY <1>5 DEF PurgeStale, Query
  <2>2. Retain > 0 /\ \A e \in gone : StatusMap[e] = "stored"
    BY <2>1 DEF LifeInv, StaleInv, StaleInvOf, StatusMap
  <2>3. StatusMap' = [e \in Digests |-> IF e \in gone THEN "absent" ELSE StatusMap[e]]
    BY <2>1, DeletedStatus
  <2>4. Clients' = [Clients EXCEPT ![r] = Acknowledged(call[r].digest)]
    BY <1>1, <2>1, ReplyClients DEF DurableCodes
  <2>5. Clients[r] = Witnessed(call[r].digest) /\ call[r].digest \in Digests
    BY <1>1, ClientOfCases, CallTyped DEF Clients
  <2>6. gone \in SUBSET Digests
    OBVIOUS
  <2> HIDE DEF gone
  <2> QED
    BY <2>2, <2>3, <2>4, <2>5, <2>6, RetireStep
<1> QED
  BY <1>2, <1>3, <1>4, <1>5 DEF PurgeStale

-----------------------------------------------------------------------------
(***************************************************************************)
(* Arrivals, refusals, disconnects, the pending GC and the environment.    *)
(***************************************************************************)
LEMMA EdgeRefines ==
    ASSUME LifeInv, NEW r \in Reqs,
           (\E c \in Calls : Receive(r, c) \/ Refuse(r, c)) \/ Abort(r)
    PROVE  LifeStep
<1>1. TypeInv /\ pc \in [Reqs -> Steps] /\ answer \in [Reqs -> Answer]
      /\ call \in [Reqs -> Calls \cup {NoCall}]
  BY DEF LifeInv, RowInv, TypeInv, TypeOK
<1>2. StatusMap' = StatusMap
  BY StatusUnchanged DEF Receive, Refuse, Abort, db
<1>3. ASSUME NEW c \in Calls, Receive(r, c) PROVE LifeStep
  <2>1. c.digest \in Digests /\ FirstStep(c.kind) \notin StoredSteps \cup {"done"}
    BY ConstantsAssumption DEF Call, Kinds, FirstStep, StoredSteps
  <2>2. /\ pc[r] = "done" /\ pc'[r] = FirstStep(c.kind) /\ call'[r] = c
        /\ \A q \in Reqs \ {r} : pc'[q] = pc[q] /\ answer'[q] = answer[q] /\ call'[q] = call[q]
    BY <1>1, <1>3 DEF Receive, Goto
  <2>3. ClientOf(r)' = Working(c.digest)
    BY <2>1, <2>2 DEF ClientOf, Working, StoredSteps
  <2>4. Clients' = [Clients EXCEPT ![r] = Working(c.digest)]
    BY <2>2, <2>3, OthersUnmoved
  <2>5. Clients[r] \in {Idle} \cup {Acknowledged(e) : e \in Digests}
    BY <2>2, ClientOfCases DEF Clients, LifeInv, AnswerInv, AnswerInvOf
  <2> QED
    BY <1>2, <2>1, <2>4, <2>5, BeginStep
<1>4. ASSUME NEW c \in Calls, Refuse(r, c) PROVE LifeStep
  <2>1. /\ pc[r] = "done" /\ pc' = pc /\ call' = call /\ answer'[r].code \notin DurableCodes
        /\ \A q \in Reqs \ {r} : answer'[q] = answer[q]
    BY <1>1, <1>4 DEF Refuse, DurableCodes
  <2>2. ClientOf(r)' = Idle
    BY <2>1 DEF ClientOf, Idle, StoredSteps
  <2>3. Clients' = [Clients EXCEPT ![r] = Idle]
    BY <2>1, <2>2, OthersUnmoved
  <2> QED
    BY <1>2, <2>3, GiveUpStep
<1>5. ASSUME Abort(r) PROVE LifeStep
  <2>1. /\ pc[r] # "done" /\ pc'[r] = "done" /\ answer' = answer
        /\ \A q \in Reqs \ {r} : pc'[q] = pc[q] /\ call'[q] = call[q]
    BY <1>1, <1>5 DEF Abort
  <2>2. ClientOf(r)' = Idle
    BY <2>1 DEF ClientOf, Idle, StoredSteps, LifeInv, AnswerInv, AnswerInvOf
  <2>3. Clients' = [Clients EXCEPT ![r] = Idle]
    BY <2>1, <2>2, OthersUnmoved
  <2> QED
    BY <1>2, <2>3, GiveUpStep
<1> QED
  BY <1>3, <1>4, <1>5

LEMMA HandlerKept == UNCHANGED handler => Clients' = Clients
BY DEF handler, Clients, ClientOf

\* The ids of rows are unique, so the GC removes the pending rows it selected.
LEMMA PendingGCRefines ==
    ASSUME LifeInv, NEW i \in RowIds, PendingGC(i) PROVE LifeStep
<1> DEFINE ids  == {artifacts[d].id : d \in {e \in Digests : Expired(e, i)}}
           gone == {d \in Digests : artifacts[d].id \in ids}
<1>1. Delete(ids) /\ Clients' = Clients
  BY HandlerKept DEF PendingGC
<1>2. \A d, e \in Digests : Expired(e, i) /\ artifacts[d].id = artifacts[e].id => d = e
  BY DEF LifeInv, RowInv, RowsWellFormed, Expired
<1>3. \A e \in gone : StatusMap[e] = "pending"
  BY <1>2 DEF Expired, StatusMap
<1>4. gone \in SUBSET Digests
  OBVIOUS
<1> HIDE DEF ids
<1>5. StatusMap' = [e \in Digests |-> IF e \in gone THEN "absent" ELSE StatusMap[e]]
  BY <1>1, DeletedStatus
<1> HIDE DEF gone
<1> QED
  BY <1>1, <1>3, <1>4, <1>5, ExpireStep

LEMMA NextRefines == LifeInv /\ [Next]_vars => LifeStep
<1> SUFFICES ASSUME LifeInv, [Next]_vars PROVE LifeStep
  OBVIOUS
<1>1. ASSUME NEW r \in Reqs, RequestStep(r) PROVE LifeStep
  BY <1>1, PresignRefines, CheckRefines, MultipartRefines, StoredRefines, AfterStoreRefines,
     EdgeRefines
  DEF RequestStep, HandlerStep, StoreStep
<1>2. CASE UNCHANGED artifacts /\ UNCHANGED handler
  BY <1>2, HandlerKept, StatusUnchanged, KeepStep
<1>3. ASSUME NEW c \in Legacy, LegacyInsert(c) PROVE LifeStep
  <2>1. PICK row \in Row : /\ row.status = "stored"
                           /\ artifacts' = [artifacts EXCEPT ![c.digest] = row]
    BY <1>3, LegacyRow DEF LifeInv
  <2>2. c.digest \in Digests /\ artifacts \in [Digests -> Row] /\ UNCHANGED handler
    BY <1>3, LegacyRow DEF LifeInv, RowInv, TypeInv, TypeOK
  <2>3. StatusMap[c.digest] = "absent"
    BY <1>3, <2>2 DEF LegacyInsert, StatusMap
  <2> QED
    BY <2>1, <2>2, <2>3, RowWritten, HandlerKept, DepositStep
<1> QED
  BY <1>1, <1>2, <1>3, EnvironmentQuiet, PendingGCRefines DEF Next

-----------------------------------------------------------------------------
(***************************************************************************)
(* The invariant.  New rows get ids nobody has selected, a selected row    *)
(* stays stored while it exists, and only retention selects rows.          *)
(***************************************************************************)
\* A handler's selection: of stored rows, some of which may be gone.
Selection(ids) ==
    /\ ids \subseteq Nat /\ 0 \notin ids
    /\ \A i \in ids : i <= rowCount
    /\ \A d \in Digests : artifacts[d].id \in ids => artifacts[d].status = "stored"

LEMMA SelectionKept ==
    ASSUME RowInv, TableStep, NEW ids, Selection(ids) PROVE Selection(ids)'
<1>1. artifacts \in [Digests -> Row] /\ rowCount \in Nat
  BY DEF RowInv, TypeInv, TypeOK
<1>2. ids \subseteq Nat /\ 0 \notin ids /\ \A i \in ids : i <= rowCount
  BY DEF Selection
<1>3. CASE UNCHANGED <<artifacts, rowCount>>
  BY <1>3 DEF Selection
<1>4. ASSUME NEW d \in Digests, NEW row \in Row, Inserted(d, row) PROVE Selection(ids)'
  <2> DEFINE new == [row EXCEPT !.id = rowCount + 1]
  <2>1. new.id = rowCount + 1 /\ new.id \notin ids
    BY <1>1, <1>2 DEF Row
  <2>2. artifacts' = [artifacts EXCEPT ![d] = new] /\ rowCount' = rowCount + 1
    BY <1>4 DEF Inserted, InsertRow
  <2> HIDE DEF new
  <2> QED
    BY <1>1, <1>2, <2>1, <2>2 DEF Selection
<1>5. ASSUME NEW d \in Digests, NEW row \in Row, Changed(d, row) PROVE Selection(ids)'
  BY <1>1, <1>2, <1>5 DEF Changed, Selection
<1>6. ASSUME NEW gone \in SUBSET Nat, Deleted(gone) PROVE Selection(ids)'
  <2>1. NoRow.id = 0
    BY DEF NoRow
  <2> QED
    BY <1>1, <1>2, <1>6, <2>1 DEF Deleted, Delete, Selection
<1> QED
  BY <1>3, <1>4, <1>5, <1>6 DEF TableStep, InPlaceStep

LEMMA SelectionsOf ==
    ASSUME LifeInv, NEW r \in Reqs PROVE Selection(seen[r].stale)
BY DEF LifeInv, RowInv, TypeInv, TypeOK, Seen, KnownRow, StaleInv, StaleInvOf, Selection

\* What retention selects is a selection.
LEMMA StaleOfSelects == ASSUME RowInv, NEW a PROVE Selection(StaleOf(a))
<1>1. artifacts \in [Digests -> Row]
  BY DEF RowInv, TypeInv, TypeOK
<1>2. \A i \in StaleOf(a) : \E d \in Digests : artifacts[d].status = "stored" /\ artifacts[d].id = i
  BY DEF StaleOf, StoredOf
<1>3. \A d \in Digests :
        /\ artifacts[d].id \in Nat /\ artifacts[d].id <= rowCount
        /\ artifacts[d].status = "stored" => artifacts[d].id # 0
        /\ \A e \in Digests : artifacts[d].status = "stored" /\ artifacts[d].id = artifacts[e].id => d = e
  BY <1>1 DEF RowInv, RowsWellFormed, Row
<1> QED
  BY <1>2, <1>3 DEF Selection

\* The part of the invariant about the other slots survives any step.
LEMMA OthersKept ==
    ASSUME LifeInv, TableStep, NEW q \in Reqs, pc'[q] = pc[q], seen'[q] = seen[q], answer'[q] = answer[q]
    PROVE  StaleInvOf(q)' /\ AnswerInvOf(q)'
<1>1. PICK ids : ids = seen[q].stale
  OBVIOUS
<1>2. Selection(ids)
  BY <1>1, SelectionsOf
<1>3. Selection(ids)'
  BY <1>2, SelectionKept DEF LifeInv
<1>4. seen'[q].stale = ids
  BY <1>1
<1>5. StaleInvOf(q)'
  BY <1>3, <1>4 DEF LifeInv, StaleInv, StaleInvOf, Selection
<1>6. AnswerInvOf(q)'
  BY DEF LifeInv, AnswerInv, AnswerInvOf
<1> QED
  BY <1>5, <1>6

\* Selections of the slot itself: none, the old one, or one just made.
LEMMA OwnSelection ==
    ASSUME LifeInv, TableStep, NEW r \in Reqs,
           \/ seen'[r].stale = {} \/ seen'[r].stale = seen[r].stale
           \/ seen'[r].stale = StaleOf(call[r].app),
           pc'[r] \in {"retain", "log", "purge"} => Retain > 0
    PROVE  StaleInvOf(r)'
<1>1. PICK ids : ids = seen'[r].stale
  OBVIOUS
<1>2. Selection(ids)
  <2>1. Selection(seen[r].stale) /\ Selection(StaleOf(call[r].app))
    BY SelectionsOf, StaleOfSelects DEF LifeInv
  <2>2. Selection({})
    BY DEF Selection
  <2> QED
    BY <1>1, <2>1, <2>2
<1>3. Selection(ids)'
  BY <1>2, SelectionKept DEF LifeInv
<1> QED
  BY <1>1, <1>3 DEF StaleInvOf, Selection

LEMMA HandlerLife ==
    ASSUME LifeInv, TableStep, NEW r \in Reqs, HandlerStep(r) PROVE AnswerInv' /\ StaleInv'
<1>1. /\ TypeInv /\ seen \in [Reqs -> Seen] /\ answer \in [Reqs -> Answer] /\ pc[r] # "done"
      /\ pc \in [Reqs -> Steps] /\ call[r].digest \in Digests
      /\ answer[r].code \notin DurableCodes
  BY NotDone, CallTyped DEF LifeInv, RowInv, TypeInv, TypeOK, AnswerInv, AnswerInvOf
<1>2. ASSUME StaleInvOf(r)', AnswerInvOf(r)',
             \A q \in Reqs \ {r} : pc'[q] = pc[q] /\ seen'[q] = seen[q] /\ answer'[q] = answer[q]
      PROVE  AnswerInv' /\ StaleInv'
  <2>1. \A q \in Reqs : StaleInvOf(q)' /\ AnswerInvOf(q)'
    BY <1>2, OthersKept
  <2> QED
    BY <2>1 DEF StaleInv, AnswerInv
<1>3. ASSUME NEW code, Reply(r, code) PROVE AnswerInv' /\ StaleInv'
  <2>1. /\ pc'[r] = "done" /\ seen'[r].stale = {} /\ answer'[r].digest = call[r].digest
        /\ \A q \in Reqs \ {r} : pc'[q] = pc[q] /\ seen'[q] = seen[q] /\ answer'[q] = answer[q]
    BY <1>1, <1>3 DEF Reply, Fresh
  <2> QED
    BY <1>1, <1>2, <2>1, OwnSelection DEF AnswerInvOf
<1>4. ASSUME NEW locals, NEW step, Note(r, locals, step),
             locals.stale = seen[r].stale \/ locals.stale = StaleOf(call[r].app),
             step \in {"retain", "log", "purge"} => Retain > 0
      PROVE  AnswerInv' /\ StaleInv'
  <2>1. /\ pc'[r] = step /\ seen'[r] = locals /\ answer' = answer
        /\ \A q \in Reqs \ {r} : pc'[q] = pc[q] /\ seen'[q] = seen[q]
    BY <1>1, <1>4 DEF Note, Goto
  <2> QED
    BY <1>1, <1>2, <1>4, <2>1, OwnSelection DEF AnswerInvOf
<1>5. ASSUME NEW step, Continue(r, step), step \in {"retain", "log", "purge"} => Retain > 0
      PROVE  AnswerInv' /\ StaleInv'
  BY <1>4, <1>5 DEF Continue
<1>6. \A linked : AfterChecks(linked) \in {"count", "store"}
  BY DEF AfterChecks
<1>7. \A v : /\ [seen[r] EXCEPT !.linked = v].stale = seen[r].stale
            /\ [seen[r] EXCEPT !.verified = v].stale = seen[r].stale
            /\ [seen[r] EXCEPT !.counted = v].stale = seen[r].stale
            /\ [seen[r] EXCEPT !.upload = v].stale = seen[r].stale
            /\ [seen[r] EXCEPT !.row = v].stale = seen[r].stale
            /\ [seen[r] EXCEPT !.stale = v].stale = v
            /\ \A w : [seen[r] EXCEPT !.row = v, !.key = w].stale = seen[r].stale
  BY <1>1 DEF Seen
<1>8. pc[r] \in {"retain", "log", "purge"} => Retain > 0
  BY DEF LifeInv, StaleInv, StaleInvOf
<1>9. CASE PresignLookup(r) \/ CheckRowKey(r) \/ Backfill(r) \/ QuotaCount(r) \/ QuotaBytes(r)
           \/ FinalizePending(r) \/ FinalizeMultipart(r) \/ InitStatus(r) \/ UpsertUpload(r)
           \/ Assemble(r) \/ PresignInsert(r)
  BY <1>3, <1>4, <1>5, <1>7, <1>9
  DEF PresignLookup, CheckRowKey, Backfill, QuotaCount, QuotaBytes, FinalizePending,
      FinalizeMultipart, InitStatus, UpsertUpload, Assemble, PresignInsert
<1>10. CASE VerifySize(r) \/ VerifyContent(r)
  BY <1>3, <1>5, <1>6, <1>10 DEF VerifySize, VerifyContent
<1>11. CASE InsertEvent(r) \/ LogRetention(r) \/ PurgeStale(r)
  BY <1>3, <1>5, <1>8, <1>11 DEF InsertEvent, LogRetention, PurgeStale, Query
<1>12. CASE PresignLink(r)
  BY <1>4, <1>7, <1>12, PresignLinkNotes
<1>13. CASE LinkApp(r)
  <2>2. PICK linked \in BOOLEAN :
          Note(r, [seen[r] EXCEPT !.linked = linked],
               IF call[r].kind = "multipart" THEN AfterChecks(linked) ELSE "row")
    BY <1>13, LinkAppNotes
  <2> DEFINE locals == [seen[r] EXCEPT !.linked = linked]
             step == IF call[r].kind = "multipart" THEN AfterChecks(linked) ELSE "row"
  <2>1. Note(r, locals, step) /\ step \notin {"retain", "log", "purge"} /\ locals.stale = seen[r].stale
    BY <1>6, <1>7, <2>2
  <2> HIDE DEF locals, step
  <2> QED
    BY <1>4, <2>1
<1>14. CASE CompleteRow(r) \/ MultipartRow(r)
  <2> DEFINE locals == [seen[r] EXCEPT !.row = RowOf(call[r]).id, !.key = RowOf(call[r]).key]
  <2>1. locals.stale = seen[r].stale
    BY <1>7
  <2>2. \/ \E code : Reply(r, code)
        \/ Continue(r, "idem")
        \/ \E step \in {"rowkey", "backfill", "assemble"} : Note(r, locals, step)
    BY <1>14 DEF CompleteRow, MultipartRow
  <2> HIDE DEF locals
  <2> QED
    BY <1>3, <1>4, <1>5, <2>1, <2>2
<1>15. CASE CheckKeyFree(r)
  <2>1. call[r].signed \in BOOLEAN
    BY <1>1, CallTyped DEF Call
  <2> QED
    BY <1>3, <1>4, <1>6, <1>7, <1>15, <2>1, CheckKeyFreeNotes
<1>16. CASE InsertStored(r)
  <2> DEFINE locals == [seen[r] EXCEPT !.row = rowCount + 1]
  <2>1. locals.stale = seen[r].stale
    BY <1>7
  <2>2. (\E code : Reply(r, code)) \/ Note(r, locals, "event")
    BY <1>16 DEF InsertStored, RefuseTakenDigest
  <2> HIDE DEF locals
  <2> QED
    BY <1>3, <1>4, <2>1, <2>2
<1>17. CASE CreateUpload(r)
  BY <1>3, <1>4, <1>7, <1>17 DEF CreateUpload
<1>18. CASE SelectStale(r)
  <2> DEFINE locals == [seen[r] EXCEPT !.stale = StaleOf(call[r].app)]
  <2>1. Reply(r, "stored") \/ Note(r, locals, "log")
    BY <1>18 DEF SelectStale
  <2>2. locals.stale = StaleOf(call[r].app) /\ Retain > 0
    BY <1>7, <1>8, <1>18 DEF SelectStale, Query
  <2> HIDE DEF locals
  <2> QED
    BY <1>3, <1>4, <2>1, <2>2
<1> QED
  BY <1>9, <1>10, <1>11, <1>12, <1>13, <1>14, <1>15, <1>16, <1>17, <1>18
  DEF HandlerStep, PresignStep, CheckStep, StoreStep, MultipartStep

LEMMA LifeInvNext == LifeInv /\ [Next]_vars => AnswerInv' /\ StaleInv'
<1> SUFFICES ASSUME LifeInv, [Next]_vars PROVE AnswerInv' /\ StaleInv'
  OBVIOUS
<1>1. TableStep
  BY NextTableStep DEF LifeInv
<1>2. /\ seen \in [Reqs -> Seen] /\ answer \in [Reqs -> Answer] /\ pc \in [Reqs -> Steps]
  BY DEF LifeInv, RowInv, TypeInv, TypeOK
<1>3. ASSUME \A q \in Reqs : StaleInvOf(q)' /\ AnswerInvOf(q)' PROVE AnswerInv' /\ StaleInv'
  BY <1>3 DEF StaleInv, AnswerInv
<1>4. CASE UNCHANGED handler
  BY <1>1, <1>3, <1>4, OthersKept DEF handler
<1>5. ASSUME NEW r \in Reqs, HandlerStep(r) PROVE AnswerInv' /\ StaleInv'
  BY <1>1, <1>5, HandlerLife
<1>6. ASSUME NEW r \in Reqs,
             \A q \in Reqs \ {r} : pc'[q] = pc[q] /\ seen'[q] = seen[q] /\ answer'[q] = answer[q],
             pc'[r] \notin {"retain", "log", "purge"},
             seen'[r].stale \in {{}, seen[r].stale}, AnswerInvOf(r)'
      PROVE  AnswerInv' /\ StaleInv'
  BY <1>1, <1>3, <1>6, OthersKept, OwnSelection
<1>7. ASSUME NEW r \in Reqs, NEW c \in Calls, Receive(r, c) PROVE AnswerInv' /\ StaleInv'
  <2>1. FirstStep(c.kind) \notin {"retain", "log", "purge"}
    BY ConstantsAssumption DEF Call, Kinds, FirstStep
  <2>2. AnswerInvOf(r)'
    BY <1>2, <1>7 DEF Receive, NoAnswer, AnswerInvOf, DurableCodes
  <2> QED
    BY <1>2, <1>6, <1>7, <2>1, <2>2 DEF Receive, Goto
<1>8. ASSUME NEW r \in Reqs, NEW c \in Calls, Refuse(r, c) PROVE AnswerInv' /\ StaleInv'
  <2>1. AnswerInvOf(r)'
    BY <1>2, <1>8 DEF Refuse, AnswerInvOf, DurableCodes
  <2> QED
    BY <1>2, <1>6, <1>8, <2>1 DEF Refuse
<1>9. ASSUME NEW r \in Reqs, Abort(r) PROVE AnswerInv' /\ StaleInv'
  <2>1. AnswerInvOf(r)'
    BY <1>9 DEF Abort, AnswerInvOf, LifeInv, AnswerInv
  <2>2. pc'[r] = "done" /\ seen'[r].stale = {}
    BY <1>2, <1>9 DEF Abort, Fresh
  <2> QED
    BY <1>2, <1>6, <1>9, <2>1, <2>2 DEF Abort
<1> QED
  BY <1>4, <1>5, <1>7, <1>8, <1>9, EnvironmentQuiet DEF Next, RequestStep, PendingGC

LEMMA LifeInvInvariant == Spec => []LifeInv
<1>1. Init => AnswerInv /\ StaleInv
  BY DEF Init, NoAnswer, DurableCodes, Fresh, AnswerInv, AnswerInvOf, StaleInv, StaleInvOf
<1>2. LifeInv <=> RowInv /\ AnswerInv /\ StaleInv
  BY DEF LifeInv
<1> QED
  BY <1>1, <1>2, LifeInvNext, RowInvInvariant, PTL DEF Spec

\* Clients are told "stored" only about a digest that was stored at some moment of their
\* request; artifacts move only absent-pending-stored-absent; only retention removes a
\* stored one.  With retention on or off, for any number of requests in flight.
THEOREM LifecycleImplemented == Spec => ImplementsLifecycle
<1>1. Init => Lifecycle!Init
  <2> SUFFICES ASSUME Init PROVE Lifecycle!Init
    OBVIOUS
  <2>1. \A r \in Reqs : pc[r] = "done" /\ answer[r].code \notin DurableCodes
    BY DEF Init, NoAnswer, DurableCodes
  <2>2. \A d \in Digests : artifacts[d].status = "absent"
    BY DEF Init, NoRow
  <2>3. \A r \in Reqs : ClientOf(r) = Idle
    BY <2>1, ClientOfCases
  <2> QED
    BY <2>2, <2>3 DEF Lifecycle!Init, Lifecycle!Idle, Idle
<1>2. LifeInv /\ [Next]_vars => [Lifecycle!Next]_(Lifecycle!vars)
  BY NextRefines DEF LifeStep
<1> QED
  BY <1>1, <1>2, LifeInvInvariant, PTL DEF Spec, ImplementsLifecycle, Lifecycle!Spec

-----------------------------------------------------------------------------
(***************************************************************************)
(* Two consequences of the refinement: how the status of a row may change, *)
(* which is what LegacyUpload takes from the endpoints of this module, and *)
(* the promise of ArtifactLifecycle.                                       *)
(***************************************************************************)
\* The moves of LegacyUpload!OtherEndpoints.
RowMoves == {<<"absent", "pending">>, <<"absent", "stored">>, <<"pending", "stored">>,
             <<"pending", "absent">>, <<"stored", "absent">>}

RowsOnlyMove ==
    [][\A d \in Digests : artifacts'[d].status # artifacts[d].status
         => <<artifacts[d].status, artifacts'[d].status>> \in RowMoves]_vars

LEMMA LifeStepMoves ==
    ASSUME RowInv, LifeStep, NEW d \in Digests, artifacts'[d].status # artifacts[d].status
    PROVE  <<artifacts[d].status, artifacts'[d].status>> \in RowMoves
<1>1. /\ StatusMap[d] \in {"absent", "pending", "stored"} /\ StatusMap'[d] # StatusMap[d]
      /\ StatusMap[d] = artifacts[d].status /\ StatusMap'[d] = artifacts'[d].status
  BY DEF RowInv, TypeInv, TypeOK, Row, Statuses, StatusMap
<1>2. StatusMap' # StatusMap
  BY <1>1
<1>3. CASE Lifecycle!Expire
  BY <1>1, <1>3 DEF Lifecycle!Expire, StatusMap, RowMoves
<1>4. ASSUME NEW s \in Reqs, Lifecycle!GiveUp(s) PROVE FALSE
  BY <1>2, <1>4 DEF Lifecycle!GiveUp, StatusMap
<1>5. ASSUME NEW s \in Reqs, NEW e \in Digests, Lifecycle!Begin(s, e) \/ Lifecycle!Acknowledge(s, e)
      PROVE  FALSE
  BY <1>2, <1>5 DEF Lifecycle!Begin, Lifecycle!Acknowledge, StatusMap
<1>6. ASSUME NEW s \in Reqs, NEW e \in Digests, Lifecycle!Announce(s, e) \/ Lifecycle!Store(s, e)
      PROVE  <<StatusMap[d], StatusMap'[d]>> \in RowMoves
  BY <1>1, <1>6 DEF Lifecycle!Announce, Lifecycle!Store, StatusMap, RowMoves
<1>7. ASSUME NEW s \in Reqs, NEW e \in Digests, Lifecycle!Retire(s, e)
      PROVE  <<StatusMap[d], StatusMap'[d]>> \in RowMoves
  BY <1>1, <1>7 DEF Lifecycle!Retire, StatusMap, RowMoves
<1>8. ASSUME NEW e \in Digests, Lifecycle!Deposit(e)
      PROVE  <<StatusMap[d], StatusMap'[d]>> \in RowMoves
  BY <1>1, <1>8 DEF Lifecycle!Deposit, StatusMap, RowMoves
<1> QED
  BY <1>1, <1>2, <1>3, <1>4, <1>5, <1>6, <1>7, <1>8
  DEF LifeStep, Lifecycle!Next, Lifecycle!vars, StatusMap, RowMoves

\* Every statement, GC run, disconnect and crash changes the status of a row only as
\* LegacyUpload assumes of the endpoints that it leaves out.
THEOREM RowsMove == Spec => RowsOnlyMove
<1>1. LifeInv /\ [Next]_vars =>
        \A d \in Digests : artifacts'[d].status # artifacts[d].status
          => <<artifacts[d].status, artifacts'[d].status>> \in RowMoves
  BY NextRefines, LifeStepMoves DEF LifeInv
<1> QED
  BY <1>1, LifeInvInvariant, PTL DEF Spec, RowsOnlyMove

Promise == Lifecycle!AcknowledgedStored

LEMMA PromiseKept == ASSUME LifeInv, Promise, LifeStep PROVE Promise'
<1> SUFFICES ASSUME ~(Retain > 0), NEW s \in Reqs, Clients'[s].at \in {"witnessed", "acknowledged"}
             PROVE  StatusMap'[Clients'[s].digest] = "stored"
  BY DEF Promise, Lifecycle!AcknowledgedStored, StatusMap, Clients
<1>1. ASSUME NEW q \in Reqs, Clients[q].at \in {"witnessed", "acknowledged"}
      PROVE  StatusMap[Clients[q].digest] = "stored" /\ Clients[q].digest \in Digests
  <2>1. StatusMap[Clients[q].digest] = "stored"
    BY <1>1 DEF Promise, Lifecycle!AcknowledgedStored, StatusMap, Clients
  <2>2. CASE pc[q] = "done"
    <3>1. answer[q].code \in DurableCodes /\ Clients[q] = Acknowledged(answer[q].digest)
      BY <1>1, <2>2, ClientOfCases DEF Clients, Idle
    <3> QED
      BY <2>1, <3>1 DEF LifeInv, AnswerInv, AnswerInvOf, Acknowledged
  <2>3. CASE pc[q] # "done"
    <3>1. Clients[q] \in {Witnessed(call[q].digest), Working(call[q].digest)}
      BY <2>3, ClientOfCases DEF Clients
    <3>2. call[q].digest \in Digests
      BY <2>3, CallTyped DEF LifeInv, RowInv
    <3> QED
      BY <2>1, <3>1, <3>2 DEF Witnessed, Working
  <2> QED
    BY <2>2, <2>3
<1>2. CASE StatusMap' = StatusMap /\ Clients' = Clients
  BY <1>1, <1>2
<1>3. CASE Lifecycle!Expire
  <2>1. PICK gone \in SUBSET {e \in Digests : StatusMap[e] = "pending"} :
          StatusMap' = [e \in Digests |-> IF e \in gone THEN "absent" ELSE StatusMap[e]]
    BY <1>3 DEF Lifecycle!Expire, StatusMap
  <2>2. Clients' = Clients
    BY <1>3 DEF Lifecycle!Expire, Clients
  <2> QED
    BY <1>1, <2>1, <2>2
<1>4. ASSUME NEW q \in Reqs, NEW to, Clients' = [Clients EXCEPT ![q] = to],
             to.at \in {"witnessed", "acknowledged"} => StatusMap'[to.digest] = "stored",
             \A e \in Digests : StatusMap[e] = "stored" => StatusMap'[e] = "stored"
      PROVE  StatusMap'[Clients'[s].digest] = "stored"
  <2>1. \A after : after = [Clients EXCEPT ![q] = to] => after[s] = IF s = q THEN to ELSE Clients[s]
    BY DEF Clients
  <2>2. Clients'[s] = IF s = q THEN to ELSE Clients[s]
    BY <1>4, <2>1
  <2> QED
    BY <1>1, <1>4, <2>2
<1>5. ASSUME NEW d \in Digests, NEW value, NEW after, after = [StatusMap EXCEPT ![d] = value]
      PROVE  /\ after[d] = value
             /\ \A e \in Digests : after[e] = IF e = d THEN value ELSE StatusMap[e]
  BY <1>5 DEF StatusMap
<1>6. ASSUME NEW q \in Reqs, Lifecycle!GiveUp(q) PROVE StatusMap'[Clients'[s].digest] = "stored"
  <2>1. StatusMap' = StatusMap /\ Clients' = [Clients EXCEPT ![q] = Idle]
    BY <1>6 DEF Lifecycle!GiveUp, Lifecycle!Moves, Lifecycle!Idle, Idle, StatusMap, Clients
  <2> QED
    BY <1>4, <2>1 DEF Idle
<1>7. ASSUME NEW q \in Reqs, NEW d \in Digests, Lifecycle!Begin(q, d)
      PROVE  StatusMap'[Clients'[s].digest] = "stored"
  <2>1. StatusMap' = StatusMap /\ Clients' = [Clients EXCEPT ![q] = Working(d)]
    BY <1>7 DEF Lifecycle!Begin, Lifecycle!Moves, Lifecycle!Working, Working, StatusMap, Clients
  <2> QED
    BY <1>4, <2>1 DEF Working
<1>8. ASSUME NEW q \in Reqs, NEW d \in Digests, Lifecycle!Announce(q, d)
      PROVE  StatusMap'[Clients'[s].digest] = "stored"
  <2>1. /\ StatusMap' = [StatusMap EXCEPT ![d] = "pending"] /\ StatusMap[d] = "absent"
        /\ Clients' = [Clients EXCEPT ![q] = Idle]
    BY <1>8 DEF Lifecycle!Announce, Lifecycle!Moves, Lifecycle!Idle, Idle, StatusMap, Clients
  <2>2. \A e \in Digests : StatusMap'[e] = IF e = d THEN "pending" ELSE StatusMap[e]
    BY <1>5, <2>1
  <2> QED
    BY <1>4, <2>1, <2>2 DEF Idle
<1>9. ASSUME NEW q \in Reqs, NEW d \in Digests, Lifecycle!Store(q, d)
      PROVE  StatusMap'[Clients'[s].digest] = "stored"
  <2>1. /\ StatusMap' = [StatusMap EXCEPT ![d] = "stored"]
        /\ Clients' = [Clients EXCEPT ![q] = Witnessed(d)]
    BY <1>9 DEF Lifecycle!Store, Lifecycle!Moves, Lifecycle!Witnessed, Witnessed, StatusMap, Clients
  <2>2. \A e \in Digests : StatusMap'[e] = IF e = d THEN "stored" ELSE StatusMap[e]
    BY <1>5, <2>1
  <2> QED
    BY <1>4, <2>1, <2>2 DEF Witnessed
<1>10. ASSUME NEW q \in Reqs, NEW d \in Digests, Lifecycle!Acknowledge(q, d)
       PROVE  StatusMap'[Clients'[s].digest] = "stored"
  <2>1. /\ StatusMap' = StatusMap /\ Clients' = [Clients EXCEPT ![q] = Acknowledged(d)]
        /\ Clients[q] = Witnessed(d) \/ StatusMap[d] = "stored"
    BY <1>10 DEF Lifecycle!Acknowledge, Lifecycle!Moves, Lifecycle!Acknowledged, Lifecycle!Witnessed,
        Acknowledged, Witnessed, StatusMap, Clients
  <2>2. StatusMap[d] = "stored"
    BY <1>1, <2>1 DEF Witnessed
  <2> QED
    BY <1>4, <2>1, <2>2 DEF Acknowledged
<1>11. ASSUME NEW q \in Reqs, NEW d \in Digests, Lifecycle!Retire(q, d) PROVE FALSE
  BY <1>11 DEF Lifecycle!Retire
<1>14. ASSUME NEW d \in Digests, Lifecycle!Deposit(d)
       PROVE  StatusMap'[Clients'[s].digest] = "stored"
  <2>1. StatusMap' = [StatusMap EXCEPT ![d] = "stored"] /\ Clients' = Clients
    BY <1>14 DEF Lifecycle!Deposit, StatusMap, Clients
  <2>2. \A e \in Digests : StatusMap'[e] = IF e = d THEN "stored" ELSE StatusMap[e]
    BY <1>5, <2>1
  <2> QED
    BY <1>1, <2>1, <2>2
<1>12. ~UNCHANGED Lifecycle!vars => Lifecycle!Next
  BY DEF LifeStep
<1>13. UNCHANGED Lifecycle!vars => StatusMap' = StatusMap /\ Clients' = Clients
  BY DEF Lifecycle!vars, StatusMap, Clients
<1> QED
  BY <1>2, <1>3, <1>6, <1>7, <1>8, <1>9, <1>10, <1>11, <1>12, <1>13, <1>14 DEF Lifecycle!Next

\* The promise of ArtifactLifecycle holds of the registry: without retention a digest is stored
\* from the moment a request stores it or reads that it is, through the answer, and for as
\* long as a client holds the answer.
THEOREM PromiseHolds == Spec => []Promise
<1>1. Init => Promise
  <2> SUFFICES ASSUME Init, NEW s \in Reqs PROVE ClientOf(s) = Idle
    BY DEF Promise, Lifecycle!AcknowledgedStored, Idle
  <2> QED
    BY ClientOfCases DEF Init, NoAnswer, DurableCodes
<1>2. LifeInv /\ Promise /\ [Next]_vars => Promise'
  BY NextRefines, PromiseKept
<1> QED
  BY <1>1, <1>2, LifeInvInvariant, PTL DEF Spec

-----------------------------------------------------------------------------
(***************************************************************************)
(* Without retention, an answer that tells a client its digest is stored   *)
(* stays true.  The argument: only the pending GC deletes rows, by ids it  *)
(* takes from pending rows; ids are unique, so no stored row is among      *)
(* them; and a handler answers "stored" only at a point where it has read, *)
(* or written, a stored row of that digest.                                *)
(***************************************************************************)
StoredNow(d) == d \in Digests /\ artifacts[d].status = "stored"

DurableInv ==
    Retain = 0 => \A r \in Reqs :
        /\ answer[r].code \in DurableCodes => StoredNow(answer[r].digest)
        /\ pc[r] = "event" => StoredNow(call[r].digest)
        /\ pc[r] \notin {"retain", "log", "purge"}

\* A stored digest stays stored.
StoredStays == \A d \in Digests : artifacts[d].status = "stored" => artifacts'[d].status = "stored"

LEMMA InPlaceStoredStays == ASSUME RowInv, InPlaceStep PROVE StoredStays
<1>1. artifacts \in [Digests -> Row]
  BY DEF RowInv, TypeInv, TypeOK
<1> QED
  BY <1>1 DEF InPlaceStep, Inserted, InsertRow, Changed, StoredStays

LEMMA NextStoredStays ==
    ASSUME RowInv, DurableInv, Retain = 0, [Next]_vars PROVE StoredStays
<1>1. ASSUME NEW r \in Reqs, HandlerStep(r) PROVE StoredStays
  BY <1>1, HandlerTableStep, InPlaceStoredStays DEF DurableInv
<1>2. ASSUME NEW i \in RowIds, PendingGC(i) PROVE StoredStays
  <2>1. \A d, e \in Digests :
          artifacts[d].status = "stored" /\ Expired(e, i) => artifacts[d].id # artifacts[e].id
    BY DEF RowInv, RowsWellFormed, Expired
  <2> QED
    BY <1>2, <2>1 DEF PendingGC, Delete, StoredStays
<1>3. UNCHANGED artifacts => StoredStays
  BY DEF StoredStays
<1>4. ASSUME NEW r \in Reqs, (\E c \in Calls : Receive(r, c) \/ Refuse(r, c)) \/ Abort(r)
      PROVE  UNCHANGED artifacts
  BY <1>4 DEF Receive, Refuse, Abort, db
<1>5. ASSUME NEW c \in Legacy, LegacyInsert(c) PROVE StoredStays
  BY <1>5, LegacyRow, InPlaceStoredStays DEF InPlaceStep, LegacyInsert
<1> QED
  BY <1>1, <1>2, <1>3, <1>4, <1>5, EnvironmentQuiet DEF Next, RequestStep

\* A statement of a handler establishes what it answers.
LEMMA HandlerDurable ==
    ASSUME RowInv, DurableInv, Retain = 0, StoredStays, NEW r \in Reqs, HandlerStep(r)
    PROVE  DurableInv'
<1> DEFINE c == call[r]
           storedNext == artifacts'[c.digest].status = "stored"
<1>1. /\ answer \in [Reqs -> Answer] /\ pc \in [Reqs -> Steps] /\ call \in [Reqs -> Calls \cup {NoCall}]
      /\ artifacts \in [Digests -> Row] /\ c.digest \in Digests
  BY NotDone, CallTyped DEF RowInv, TypeInv, TypeOK
<1>2. ASSUME NEW code, Reply(r, code), code \in DurableCodes => storedNext
      PROVE  DurableInv'
  <2>1. /\ answer'[r].code = code /\ answer'[r].digest = c.digest /\ pc'[r] = "done"
        /\ \A q \in Reqs \ {r} :
             answer'[q] = answer[q] /\ pc'[q] = pc[q] /\ call'[q] = call[q]
    BY <1>1, <1>2 DEF Reply
  <2> QED
    BY <1>1, <1>2, <2>1 DEF DurableInv, StoredStays, StoredNow
<1>3. ASSUME NEW locals, NEW step, Note(r, locals, step),
             step = "event" => storedNext, step \notin {"retain", "log", "purge"}
      PROVE  DurableInv'
  <2>1. /\ pc'[r] = step /\ answer' = answer /\ call' = call
        /\ \A q \in Reqs \ {r} : pc'[q] = pc[q]
    BY <1>1, <1>3 DEF Note, Goto
  <2> QED
    BY <1>1, <1>3, <2>1 DEF DurableInv, StoredStays, StoredNow
<1>4. ASSUME NEW step, Continue(r, step),
             step = "event" => storedNext, step \notin {"retain", "log", "purge"}
      PROVE  DurableInv'
  BY <1>3, <1>4 DEF Continue
<1>5. /\ pc[r] = "event" => storedNext
      /\ pc[r] \notin {"retain", "log", "purge"}
  BY <1>1 DEF StoredStays, StoredNow, DurableInv
<1>6. \A linked : AfterChecks(linked) \in {"count", "store"}
  BY DEF AfterChecks
<1>7. IsStored(RowOf(call[r])) => storedNext
  BY <1>1 DEF IsStored, RowOf, StoredStays
<1> HIDE DEF c, storedNext
<1>8. CASE PresignStep(r)
  <2>1. CASE PresignLookup(r)
    BY <1>2, <1>4, <1>7, <2>1 DEF PresignLookup, DurableCodes
  <2>2. CASE PresignLink(r)
    <3>1. \E locals : Note(r, locals, "insert")
      BY <2>2, PresignLinkNotes
    <3> QED
      BY <1>3, <3>1
  <2>3. CASE PresignInsert(r)
    BY <1>2, <2>3 DEF PresignInsert, DurableCodes
  <2> QED
    BY <1>8, <2>1, <2>2, <2>3 DEF PresignStep
<1>9. CASE CheckStep(r)
  <2>1. CASE LinkApp(r)
    BY <1>3, <2>1, LinkAppGoes
  <2>2. CASE CompleteRow(r)
    BY <1>2, <1>3, <1>4, <1>7, <2>2 DEF CompleteRow, DurableCodes
  <2>3. CASE CheckKeyFree(r)
    <3>1. call[r].signed \in BOOLEAN
      BY NotDone, CallTyped DEF RowInv, Call
    <3>2. Reply(r, "conflict") \/ \E locals : Note(r, locals, AfterChecks(seen[r].linked))
      BY <2>3, <3>1, CheckKeyFreeNotes
    <3> QED
      BY <1>2, <1>3, <1>6, <3>2 DEF DurableCodes
  <2>4. CASE CheckRowKey(r) \/ Backfill(r) \/ QuotaCount(r) \/ QuotaBytes(r)
    BY <1>2, <1>3, <1>4, <2>4 DEF CheckRowKey, Backfill, QuotaCount, QuotaBytes, DurableCodes
  <2>5. CASE VerifySize(r) \/ VerifyContent(r)
    BY <1>2, <1>4, <1>6, <2>5 DEF VerifySize, VerifyContent, DurableCodes
  <2> QED
    BY <1>9, <2>1, <2>2, <2>3, <2>4, <2>5 DEF CheckStep
<1>10. CASE FinalizePending(r) \/ FinalizeMultipart(r)
  <2>1. ASSUME NEW row, row.status = "stored",
               artifacts' = [artifacts EXCEPT ![call[r].digest] = row]
        PROVE  artifacts'[call[r].digest].status = "stored"
    BY <1>1, <2>1 DEF c
  <2>2. artifacts[call[r].digest] \in Row
    BY <1>1 DEF c
  <2>3. CASE FinalizePending(r)
    <3> DEFINE old == artifacts[call[r].digest]
               row == [old EXCEPT !.app = AppOf(r), !.size = call[r].size,
                          !.verified = FALSE, !.key = OwnKey(call[r]), !.status = "stored",
                          !.idem = Coalesce(old.idem, call[r].idem)]
    <3>1. row.status = "stored"
      BY <2>2 DEF Row
    <3>2. \/ Reply(r, "error") \/ Reply(r, "conflict")
          \/ artifacts' = [artifacts EXCEPT ![call[r].digest] = row] /\ Continue(r, "event")
      BY <2>3 DEF FinalizePending, RowOf
    <3> HIDE DEF row
    <3> QED
      BY <1>2, <1>4, <2>1, <3>1, <3>2 DEF DurableCodes, storedNext, c
  <2>4. CASE FinalizeMultipart(r)
    <3> DEFINE old == artifacts[call[r].digest]
               row == [old EXCEPT !.app = AppOf(r), !.size = call[r].size,
                          !.verified = FALSE, !.status = "stored",
                          !.idem = Coalesce(old.idem, call[r].idem)]
    <3>1. row.status = "stored"
      BY <2>2 DEF Row
    <3>2. \/ Reply(r, "error")
          \/ artifacts' = [artifacts EXCEPT ![call[r].digest] = row] /\ Continue(r, "event")
      BY <2>4 DEF FinalizeMultipart, RowOf
    <3> HIDE DEF row
    <3> QED
      BY <1>2, <1>4, <2>1, <3>1, <3>2 DEF DurableCodes, storedNext, c
  <2> QED
    BY <1>10, <2>3, <2>4
<1>11. CASE InsertStored(r)
  <2> DEFINE row == [NoRow EXCEPT !.app = AppOf(r), !.size = call[r].size,
                        !.verified = seen[r].verified, !.key = OwnKey(call[r]),
                        !.status = "stored", !.idem = call[r].idem]
             locals == [seen[r] EXCEPT !.row = rowCount + 1]
  <2>1. row.status = "stored"
    BY DEF NoRow
  <2>2. [row EXCEPT !.id = rowCount + 1].status = "stored"
    BY <2>1 DEF NoRow
  <2>3. \/ Reply(r, "error") \/ Reply(r, "conflict")
        \/ InsertRow(call[r].digest, row) /\ Note(r, locals, "event")
    BY <1>11 DEF InsertStored, RefuseTakenDigest
  <2> HIDE DEF row, locals
  <2>4. InsertRow(call[r].digest, row) => artifacts'[call[r].digest].status = "stored"
    BY <1>1, <2>2 DEF InsertRow, c
  <2> QED
    BY <1>2, <1>3, <2>3, <2>4 DEF DurableCodes, storedNext, c
<1>12. CASE InsertEvent(r)
  <2>1. Reply(r, "stored") /\ pc[r] = "event"
    BY <1>12 DEF InsertEvent, Query
  <2> QED
    BY <1>2, <1>5, <2>1
<1>13. CASE SelectStale(r) \/ LogRetention(r) \/ PurgeStale(r)
  BY <1>5, <1>13 DEF SelectStale, LogRetention, PurgeStale, Query
<1>14. CASE MultipartStep(r)
  <2>1. CASE InitStatus(r)
    BY <1>2, <1>4, <2>1 DEF InitStatus, DurableCodes
  <2>2. CASE CreateUpload(r)
    <3>1. ASSUME NEW u, Note(r, [seen[r] EXCEPT !.upload = u], "upsert") PROVE DurableInv'
      BY <1>3, <3>1
    <3> QED
      BY <1>2, <2>2, <3>1 DEF CreateUpload, DurableCodes
  <2>3. CASE UpsertUpload(r)
    BY <1>2, <2>3 DEF UpsertUpload, DurableCodes
  <2>4. CASE MultipartRow(r)
    BY <1>2, <1>3, <1>7, <2>4 DEF MultipartRow, DurableCodes
  <2>5. CASE Assemble(r)
    BY <1>2, <1>4, <2>5 DEF Assemble, DurableCodes
  <2> QED
    BY <1>14, <2>1, <2>2, <2>3, <2>4, <2>5 DEF MultipartStep
<1> QED
  BY <1>8, <1>9, <1>10, <1>11, <1>12, <1>13, <1>14 DEF HandlerStep, StoreStep

LEMMA DurableNext == RowInv /\ DurableInv /\ [Next]_vars => DurableInv'
<1> SUFFICES ASSUME RowInv, DurableInv, [Next]_vars, Retain = 0 PROVE DurableInv'
  BY DEF DurableInv
<1>1. StoredStays
  BY NextStoredStays
<1>2. ASSUME UNCHANGED handler PROVE DurableInv'
  BY <1>1, <1>2 DEF DurableInv, StoredNow, StoredStays, handler
<1>3. ASSUME NEW r \in Reqs, NEW c \in Calls, Receive(r, c) PROVE DurableInv'
  <2>1. FirstStep(c.kind) \notin {"event", "retain", "log", "purge"}
    BY ConstantsAssumption DEF FirstStep, Call, Kinds
  <2> QED
    BY <1>1, <1>3, <2>1
    DEF Receive, Goto, DurableInv, StoredNow, StoredStays, NoAnswer, DurableCodes,
        RowInv, TypeInv, TypeOK
<1>4. ASSUME NEW r \in Reqs, NEW c \in Calls, Refuse(r, c) PROVE DurableInv'
  BY <1>1, <1>4
  DEF Refuse, DurableInv, StoredNow, StoredStays, DurableCodes, RowInv, TypeInv, TypeOK
<1>5. ASSUME NEW r \in Reqs, Abort(r) PROVE DurableInv'
  BY <1>1, <1>5 DEF Abort, DurableInv, StoredNow, StoredStays, RowInv, TypeInv, TypeOK
<1>6. ASSUME NEW r \in Reqs, HandlerStep(r) PROVE DurableInv'
  BY <1>1, <1>6, HandlerDurable
<1> QED
  BY <1>2, <1>3, <1>4, <1>5, <1>6, EnvironmentQuiet DEF Next, RequestStep, PendingGC

\* Without retention nobody loses an artifact they were told is stored: not to
\* the pending GC, not to a concurrent presign, multipart init or completion.
THEOREM AnswersDurable == Spec => []AnswerDurable
<1>1. Init => DurableInv
  BY DEF Init, DurableInv, NoAnswer, DurableCodes
<1>2. DurableInv => AnswerDurable
  BY DEF DurableInv, AnswerDurable, StoredNow
<1> QED
  BY <1>1, <1>2, DurableNext, RowInvInvariant, PTL DEF Spec

-----------------------------------------------------------------------------
(***************************************************************************)
(* Retention leaves the newest Retain stored rows of an application alone, *)
(* although it deletes by ids that it selected two statements before, and  *)
(* several requests of the application may be in retention at once.  Each  *)
(* selected row has Retain newer ones for as long as it exists (Behind):   *)
(* another purge may take some of them, but never any that is newer than   *)
(* the newest it takes, which has Retain newer ones itself.                *)
(*                                                                         *)
(* It needs that a stored row stays with its application.  Two             *)
(* applications that complete one digest take it from each other, and a    *)
(* completion that began before its application was registered takes it    *)
(* from both; hence the two assumptions of NewestKept.                     *)
(***************************************************************************)
OneAppOfDigest == \A b, c \in Calls \cup Legacy : b.digest = c.digest => b.app = c.app

LinkedSteps == {"row", "rowkey", "backfill", "size", "hash", "idem", "count", "bytes", "store",
                "event", "retain", "log", "purge"}

\* A stored row belongs to the application that asks for its digest.
Owned == \A d \in Digests : artifacts[d].status = "stored" =>
            \E c \in Calls \cup Legacy : c.digest = d /\ artifacts[d].app = c.app

\* Every completion and POST /artifacts finds its application.
AppsFound == registered = Apps /\ "app" \notin Failing

LinkedInv == AppsFound /\ \A r \in Reqs : pc[r] \in LinkedSteps => seen[r].linked

NewerThan(d) == Newer(d, artifacts[d].app)

\* Enough rows are newer than each of those selected.
Behind(ids) ==
    \A d \in Digests : artifacts[d].id \in ids =>
        artifacts[d].status = "stored" /\ Cardinality(NewerThan(d)) >= Retain

BehindInv == \A r \in Reqs : Behind(seen[r].stale)

RetainInv == LifeInv /\ Owned /\ LinkedInv /\ BehindInv

-----------------------------------------------------------------------------
LEMMA NewerFinite ==
    ASSUME NEW d, NEW a, NEW S, S \subseteq Newer(d, a)
    PROVE  IsFiniteSet(S) /\ Cardinality(S) \in Nat /\ Cardinality(S) <= Cardinality(Newer(d, a))
           /\ Cardinality(Newer(d, a)) \in Nat
<1>1. Newer(d, a) \subseteq Digests
  BY DEF Newer, StoredOf
<1>2. IsFiniteSet(Newer(d, a))
  BY <1>1, ConstantsAssumption, FS_Subset
<1> QED
  BY <1>2, FS_Subset, FS_CardinalityType

\* Of some rows of one application, one is the newest.
LEMMA NewestOf ==
    ASSUME RowInv, NEW a, NEW G, G \subseteq StoredOf(a), G # {}
    PROVE  \E m \in G : Newer(m, a) \cap G = {}
<1> DEFINE T == {Newer(e, a) : e \in G}
<1>1. T \subseteq FiniteSubsetsOf(Digests) /\ T # {}
  <2>1. \A e \in G : Newer(e, a) \subseteq Digests /\ IsFiniteSet(Newer(e, a))
    BY NewerFinite DEF Newer, StoredOf
  <2> QED
    BY <2>1 DEF FiniteSubsetsOf
<1>2. PICK x \in T : \A y \in T : <<y, x>> \notin StrictSubsetOrdering(Digests)
  BY <1>1, FS_StrictSubsetOrderingWellFounded, WFMin
<1>3. PICK m \in G : x = Newer(m, a)
  OBVIOUS
<1>4. ASSUME NEW n \in G, n \in Newer(m, a) PROVE FALSE
  <2>1. \A e \in Digests : artifacts[e].id \in Nat
    BY DEF RowInv, TypeInv, TypeOK, Row
  <2>2. Newer(n, a) \subseteq Newer(m, a) /\ n \notin Newer(n, a)
    BY <1>4, <2>1 DEF Newer, StoredOf
  <2>3. Newer(n, a) \in SUBSET Digests /\ Newer(m, a) \in SUBSET Digests
    BY DEF Newer, StoredOf
  <2>4. <<Newer(n, a), Newer(m, a)>> \in StrictSubsetOrdering(Digests)
    BY <1>4, <2>2, <2>3 DEF StrictSubsetOrdering
  <2> QED
    BY <1>2, <1>3, <2>4
<1> QED
  BY <1>4

\* A purge of rows that have Retain newer ones leaves each row that had as many
\* with as many.
LEMMA PurgeLeaves ==
    ASSUME RowInv, NEW ids, Behind(ids), NEW d \in Digests, artifacts[d].status = "stored",
           Cardinality(NewerThan(d)) >= Retain
    PROVE  Cardinality({n \in NewerThan(d) : artifacts[n].id \notin ids}) >= Retain
<1> DEFINE a == artifacts[d].app
           left == {n \in NewerThan(d) : artifacts[n].id \notin ids}
           G == {n \in NewerThan(d) : artifacts[n].id \in ids}
<1>1. Retain \in Nat /\ \A e \in Digests : artifacts[e].id \in Nat
  BY ConstantsAssumption DEF RowInv, TypeInv, TypeOK, Row
<1>2. CASE G = {}
  <2>1. left = NewerThan(d)
    BY <1>2
  <2> QED
    BY <2>1
<1>3. CASE G # {}
  <2>1. G \subseteq StoredOf(a)
    BY DEF NewerThan, Newer
  <2>2. PICK m \in G : Newer(m, a) \cap G = {}
    BY <1>3, <2>1, NewestOf
  <2>3. /\ m \in Digests /\ artifacts[m].app = a /\ artifacts[m].id > artifacts[d].id
        /\ artifacts[m].id \in ids
    BY DEF NewerThan, Newer, StoredOf
  <2>4. NewerThan(m) \subseteq left
    BY <1>1, <2>2, <2>3 DEF NewerThan, Newer, StoredOf
  <2>5. Cardinality(NewerThan(m)) >= Retain
    BY <2>3 DEF Behind
  <2>6. left \subseteq NewerThan(d)
    OBVIOUS
  <2>7. IsFiniteSet(left) /\ Cardinality(left) \in Nat /\ Cardinality(NewerThan(m)) \in Nat
    BY <2>6, NewerFinite DEF NewerThan
  <2>8. Cardinality(NewerThan(m)) <= Cardinality(left)
    BY <2>4, <2>7, FS_Subset
  <2>9. Cardinality(left) >= Retain
    <3> HIDE DEF left, G, a
    <3> QED
      BY <1>1, <2>5, <2>7, <2>8
  <2> QED
    BY <2>9
<1> QED
  BY <1>2, <1>3

-----------------------------------------------------------------------------
\* Stored rows stay what they are, or are deleted by an id in gone.
StoredButFor(gone) ==
    \A d \in Digests : artifacts[d].status = "stored" =>
        \/ /\ artifacts'[d].status = "stored" /\ artifacts'[d].id = artifacts[d].id
           /\ artifacts'[d].app = artifacts[d].app
        \/ artifacts[d].id \in gone /\ artifacts'[d] = NoRow

\* Rows become stored for an application that asks for them.
StoredForCaller ==
    \A d \in Digests : artifacts[d].status # "stored" /\ artifacts'[d].status = "stored" =>
        \E c \in Calls \cup Legacy : c.digest = d /\ artifacts'[d].app = c.app

LEMMA OwnedKept == ASSUME Owned, NEW gone, StoredButFor(gone), StoredForCaller PROVE Owned'
<1>1. NoRow.status = "absent"
  BY DEF NoRow
<1> QED
  BY <1>1 DEF Owned, StoredButFor, StoredForCaller

\* An id that some step leaves in the table it left in the same row.
LEMMA SameRow ==
    ASSUME RowInv, TableStep, NEW ids, Selection(ids), NEW d \in Digests, artifacts'[d].id \in ids
    PROVE  artifacts[d].id = artifacts'[d].id
<1>1. artifacts \in [Digests -> Row] /\ rowCount \in Nat /\ NoRow.id = 0
  BY DEF RowInv, TypeInv, TypeOK, NoRow
<1>2. ids \subseteq Nat /\ 0 \notin ids /\ \A i \in ids : i <= rowCount
  BY DEF Selection
<1>3. ASSUME NEW e \in Digests, NEW row \in Row, Inserted(e, row)
      PROVE  artifacts[d].id = artifacts'[d].id
  <2> DEFINE new == [row EXCEPT !.id = rowCount + 1]
  <2>1. new.id = rowCount + 1 /\ new.id \notin ids
    BY <1>1, <1>2 DEF Row
  <2>2. artifacts' = [artifacts EXCEPT ![e] = new]
    BY <1>3 DEF Inserted, InsertRow
  <2> HIDE DEF new
  <2> QED
    BY <1>1, <2>1, <2>2
<1>4. ASSUME NEW e \in Digests, NEW row \in Row, Changed(e, row)
      PROVE  artifacts[d].id = artifacts'[d].id
  BY <1>1, <1>4 DEF Changed
<1>5. ASSUME NEW gone, Delete(gone) PROVE artifacts[d].id = artifacts'[d].id
  BY <1>1, <1>2, <1>5 DEF Delete
<1> QED
  BY <1>3, <1>4, <1>5 DEF TableStep, InPlaceStep, Deleted

\* Selected rows stay behind enough others, whatever a step stores or deletes.
LEMMA BehindKept ==
    ASSUME RowInv, TableStep, NEW gone, Behind(gone), StoredButFor(gone),
           NEW ids, Selection(ids), Behind(ids)
    PROVE  Behind(ids)'
<1> SUFFICES ASSUME NEW d \in Digests, artifacts'[d].id \in ids
             PROVE  artifacts'[d].status = "stored" /\ Cardinality(NewerThan(d))' >= Retain
  BY DEF Behind
<1>1. artifacts'[d].status = "stored"
  BY SelectionKept DEF Selection
<1>2. artifacts[d].id \in ids /\ artifacts[d].id = artifacts'[d].id
  BY SameRow
<1>3. artifacts[d].status = "stored" /\ Cardinality(NewerThan(d)) >= Retain
  BY <1>2 DEF Behind
<1> DEFINE left == {n \in NewerThan(d) : artifacts[n].id \notin gone}
<1>4. Cardinality(left) >= Retain
  BY <1>3, PurgeLeaves
<1>5. NoRow.status = "absent" /\ \A n \in left : n \in Digests
  BY DEF NoRow, NewerThan, Newer, StoredOf
<1>6. artifacts'[d].app = artifacts[d].app
  BY <1>1, <1>3, <1>5 DEF StoredButFor
<1>7. \A n \in left : /\ artifacts'[n].status = "stored" /\ artifacts'[n].id = artifacts[n].id
                      /\ artifacts'[n].app = artifacts[n].app
  BY <1>5 DEF StoredButFor, NewerThan, Newer, StoredOf
<1>8. left \subseteq NewerThan(d)'
  BY <1>2, <1>5, <1>6, <1>7 DEF NewerThan, Newer, StoredOf
<1>9. PICK after : after = NewerThan(d)'
  OBVIOUS
<1>10. after \subseteq Digests
  BY <1>9 DEF NewerThan, Newer, StoredOf
<1>11. IsFiniteSet(left) /\ IsFiniteSet(after)
  BY <1>5, <1>10, ConstantsAssumption, FS_Subset
<1>12. Cardinality(left) \in Nat /\ Cardinality(after) \in Nat /\ Cardinality(left) <= Cardinality(after)
  BY <1>8, <1>9, <1>11, FS_Subset, FS_CardinalityType
<1>13. Cardinality(after) >= Retain
  <2> HIDE DEF left
  <2> QED
    BY <1>4, <1>12, ConstantsAssumption
<1> QED
  BY <1>1, <1>9, <1>13

-----------------------------------------------------------------------------
\* What retention selects has Retain newer rows.
LEMMA StaleOfBehind == ASSUME RowInv, NEW a PROVE Behind(StaleOf(a))
<1>1. \A d, e \in Digests : artifacts[e].status = "stored" /\ artifacts[d].id = artifacts[e].id => d = e
  BY DEF RowInv, RowsWellFormed
<1>2. \A i \in StaleOf(a) : \E e \in Digests :
        /\ artifacts[e].status = "stored" /\ artifacts[e].id = i /\ artifacts[e].app = a
        /\ Cardinality(Newer(e, a)) >= Retain
  BY DEF StaleOf, StoredOf
<1> QED
  BY <1>1, <1>2 DEF Behind, NewerThan

\* What a step does to what handlers remember: the one that takes it selects rows at most,
\* and when it gets past its application's lookup it has found it.
Recalls(r) ==
    /\ \/ seen'[r].stale = {} \/ seen'[r].stale = seen[r].stale
       \/ seen'[r].stale = StaleOf(call[r].app)
    /\ pc'[r] \in LinkedSteps => seen'[r].linked
    /\ \A q \in Reqs \ {r} : pc'[q] = pc[q] /\ seen'[q] = seen[q]

LEMMA HandlerRecalls ==
    ASSUME RowInv, LinkedInv, NEW r \in Reqs, HandlerStep(r) PROVE Recalls(r)
<1>1. /\ seen \in [Reqs -> Seen] /\ pc \in [Reqs -> Steps] /\ pc[r] # "done"
      /\ call[r].app \in registered
  BY NotDone, CallTyped DEF RowInv, TypeInv, TypeOK, LinkedInv, AppsFound, Call
<1>2. ASSUME NEW code, Reply(r, code) PROVE Recalls(r)
  BY <1>1, <1>2 DEF Reply, Fresh, LinkedSteps, Recalls
<1>3. ASSUME NEW locals, NEW step, Note(r, locals, step),
             locals.stale = seen[r].stale \/ locals.stale = StaleOf(call[r].app),
             step \in LinkedSteps => locals.linked
      PROVE  Recalls(r)
  BY <1>1, <1>3 DEF Note, Goto, Recalls
<1>4. ASSUME NEW step, Continue(r, step), pc[r] \in LinkedSteps \/ step \notin LinkedSteps PROVE Recalls(r)
  BY <1>3, <1>4 DEF Continue, LinkedInv
<1>5. \A v : /\ [seen[r] EXCEPT !.linked = v].stale = seen[r].stale
            /\ [seen[r] EXCEPT !.verified = v].stale = seen[r].stale
            /\ [seen[r] EXCEPT !.counted = v].stale = seen[r].stale
            /\ [seen[r] EXCEPT !.upload = v].stale = seen[r].stale
            /\ [seen[r] EXCEPT !.row = v].stale = seen[r].stale
            /\ [seen[r] EXCEPT !.stale = v].stale = v
            /\ \A w : [seen[r] EXCEPT !.row = v, !.key = w].stale = seen[r].stale
  BY <1>1 DEF Seen
<1>6. \A v : /\ [seen[r] EXCEPT !.linked = v].linked = v
            /\ [seen[r] EXCEPT !.verified = v].linked = seen[r].linked
            /\ [seen[r] EXCEPT !.counted = v].linked = seen[r].linked
            /\ [seen[r] EXCEPT !.row = v].linked = seen[r].linked
            /\ [seen[r] EXCEPT !.stale = v].linked = seen[r].linked
            /\ \A w : [seen[r] EXCEPT !.row = v, !.key = w].linked = seen[r].linked
  BY <1>1 DEF Seen
<1>7. pc[r] \in LinkedSteps => seen[r].linked
  BY DEF LinkedInv
<1>8. CASE PresignLookup(r) \/ InitStatus(r) \/ UpsertUpload(r) \/ Assemble(r) \/ PresignInsert(r)
  BY <1>2, <1>4, <1>8
  DEF PresignLookup, InitStatus, UpsertUpload, Assemble, PresignInsert, LinkedSteps
<1>9. CASE CheckRowKey(r) \/ Backfill(r) \/ QuotaBytes(r) \/ FinalizePending(r)
           \/ FinalizeMultipart(r) \/ VerifySize(r) \/ VerifyContent(r) \/ InsertEvent(r)
           \/ LogRetention(r) \/ PurgeStale(r)
  <2>1. pc[r] \in LinkedSteps
    BY <1>9 DEF CheckRowKey, Backfill, QuotaBytes, FinalizePending, FinalizeMultipart,
        VerifySize, VerifyContent, InsertEvent, LogRetention, PurgeStale, Query, LinkedSteps
  <2>2. (\E code : Reply(r, code)) \/ (\E step : Continue(r, step))
    BY <1>9 DEF CheckRowKey, Backfill, QuotaBytes, FinalizePending, FinalizeMultipart,
        VerifySize, VerifyContent, InsertEvent, LogRetention, PurgeStale
  <2> QED
    BY <1>2, <1>4, <2>1, <2>2
<1>10. CASE PresignLink(r)
  <2>1. PICK linked \in BOOLEAN : Note(r, [seen[r] EXCEPT !.linked = linked], "insert")
    BY <1>10, PresignLinkNotes
  <2> QED
    BY <1>3, <1>5, <2>1 DEF LinkedSteps
<1>11. CASE LinkApp(r)
  <2> DEFINE found == call[r].app \in registered
             locals == [seen[r] EXCEPT !.linked = found]
  <2>1. Learned(found, Fails(r)) = {found} /\ found = TRUE
    BY <1>1, <1>11 DEF Learned, Fails, LinkApp, Query, LinkedInv, AppsFound
  <2>2. locals.stale = seen[r].stale /\ locals.linked
    BY <1>5, <1>6, <2>1
  <2>3. \E step : Note(r, locals, step)
    BY <1>11, <2>1 DEF LinkApp
  <2> HIDE DEF locals
  <2> QED
    BY <1>3, <2>2, <2>3
<1>12. CASE CompleteRow(r)
  <2> DEFINE locals == [seen[r] EXCEPT !.row = RowOf(call[r]).id, !.key = RowOf(call[r]).key]
  <2>1. locals.stale = seen[r].stale /\ locals.linked /\ pc[r] \in LinkedSteps
    BY <1>5, <1>6, <1>7, <1>12 DEF CompleteRow, Query, LinkedSteps
  <2>2. \/ \E code : Reply(r, code)
        \/ \E step : Continue(r, step)
        \/ \E step : Note(r, locals, step)
    BY <1>12 DEF CompleteRow
  <2> HIDE DEF locals
  <2> QED
    BY <1>2, <1>3, <1>4, <2>1, <2>2
<1>13. CASE MultipartRow(r)
  <2> DEFINE locals == [seen[r] EXCEPT !.row = RowOf(call[r]).id, !.key = RowOf(call[r]).key]
  <2>1. locals.stale = seen[r].stale
    BY <1>5
  <2>2. (\E code : Reply(r, code)) \/ Note(r, locals, "assemble")
    BY <1>13 DEF MultipartRow
  <2> HIDE DEF locals
  <2> QED
    BY <1>2, <1>3, <2>1, <2>2 DEF LinkedSteps
<1>14. CASE CheckKeyFree(r)
  <2>1. call[r].signed \in BOOLEAN
    BY NotDone, CallTyped DEF RowInv, Call
  <2>2. \/ \E code : Reply(r, code)
        \/ \E verified \in BOOLEAN : \E step : Note(r, [seen[r] EXCEPT !.verified = verified], step)
    BY <1>14, <2>1, CheckKeyFreeNotes
  <2>3. seen[r].linked
    BY <1>7, <1>14 DEF CheckKeyFree, Query, LinkedSteps
  <2> QED
    BY <1>2, <1>3, <1>5, <1>6, <2>2, <2>3
<1>15. CASE InsertStored(r)
  <2> DEFINE locals == [seen[r] EXCEPT !.row = rowCount + 1]
  <2>1. locals.stale = seen[r].stale /\ locals.linked
    BY <1>5, <1>6, <1>7, <1>15 DEF InsertStored, RefuseTakenDigest, Query, LinkedSteps
  <2>2. (\E code : Reply(r, code)) \/ Note(r, locals, "event")
    BY <1>15 DEF InsertStored, RefuseTakenDigest
  <2> HIDE DEF locals
  <2> QED
    BY <1>2, <1>3, <2>1, <2>2
<1>16. CASE CreateUpload(r)
  BY <1>2, <1>3, <1>5, <1>16 DEF CreateUpload, LinkedSteps
<1>17. CASE SelectStale(r)
  <2> DEFINE locals == [seen[r] EXCEPT !.stale = StaleOf(call[r].app)]
  <2>1. locals.stale = StaleOf(call[r].app) /\ locals.linked
    BY <1>5, <1>6, <1>7, <1>17 DEF SelectStale, Query, LinkedSteps
  <2>2. Reply(r, "stored") \/ Note(r, locals, "log")
    BY <1>17 DEF SelectStale
  <2> HIDE DEF locals
  <2> QED
    BY <1>2, <1>3, <2>1, <2>2
<1>18. CASE QuotaCount(r)
  <2> DEFINE locals == [seen[r] EXCEPT !.counted = TRUE]
  <2>1. locals.stale = seen[r].stale /\ locals.linked /\ pc[r] \in LinkedSteps
    BY <1>5, <1>6, <1>7, <1>18 DEF QuotaCount, Query, LinkedSteps
  <2>2. Reply(r, "quota") \/ Note(r, locals, "bytes") \/ Continue(r, "bytes")
    BY <1>18 DEF QuotaCount
  <2> HIDE DEF locals
  <2> QED
    BY <1>2, <1>3, <1>4, <2>1, <2>2
<1> QED
  BY <1>8, <1>9, <1>10, <1>11, <1>12, <1>13, <1>14, <1>15, <1>16, <1>17, <1>18
  DEF HandlerStep, PresignStep, CheckStep, StoreStep, MultipartStep

-----------------------------------------------------------------------------
(***************************************************************************)
(* What a step does to stored rows.                                        *)
(***************************************************************************)
LEMMA RowKept ==
    ASSUME artifacts \in [Digests -> Row], NEW d \in Digests, NEW row,
           artifacts' = [artifacts EXCEPT ![d] = row],
           artifacts[d].status = "stored" =>
             row.status = "stored" /\ row.id = artifacts[d].id /\ row.app = artifacts[d].app,
           row.status = "stored" =>
             \/ artifacts[d].status = "stored"
             \/ \E c \in Calls \cup Legacy : c.digest = d /\ row.app = c.app
    PROVE  StoredButFor({}) /\ StoredForCaller
BY DEF StoredButFor, StoredForCaller

LEMMA RowsKept == UNCHANGED artifacts => StoredButFor({}) /\ StoredForCaller
BY DEF StoredButFor, StoredForCaller

LEMMA RowsDeleted == ASSUME NEW gone, Delete(gone) PROVE StoredButFor(gone) /\ StoredForCaller
<1>1. NoRow.status = "absent"
  BY DEF NoRow
<1> QED
  BY <1>1 DEF Delete, StoredButFor, StoredForCaller

\* A completion stores its row for its own application, which has it already if
\* it is stored.
LEMMA StoringKeeps ==
    ASSUME OneAppOfDigest, RetainInv, NEW r \in Reqs,
           FinalizePending(r) \/ FinalizeMultipart(r) \/ InsertStored(r)
    PROVE  StoredButFor({}) /\ StoredForCaller
<1> DEFINE c == call[r]
           d == call[r].digest
           old == artifacts[d]
<1>1. RowInv /\ Owned /\ pc[r] = "store" /\ seen[r].linked
  BY
  DEF RetainInv, LifeInv, LinkedInv, LinkedSteps, FinalizePending, FinalizeMultipart,
      InsertStored, RefuseTakenDigest, Query
<1>2. /\ d \in Digests /\ artifacts \in [Digests -> Row] /\ old \in Row /\ c \in Calls
      /\ AppOf(r) = c.app
  BY <1>1, CallTyped DEF RowInv, TypeInv, TypeOK, InFlight, AppOf
<1>3. old.status = "stored" => old.app = c.app
  BY <1>1, <1>2 DEF Owned, OneAppOfDigest
<1>4. ASSUME NEW row, row.app = c.app, row.status = "stored",
             old.status = "stored" => row.id = old.id,
             artifacts' = [artifacts EXCEPT ![d] = row]
      PROVE  StoredButFor({}) /\ StoredForCaller
  BY <1>2, <1>3, <1>4, RowKept
<1>5. CASE FinalizePending(r)
  <2> DEFINE row == [old EXCEPT !.app = AppOf(r), !.size = c.size, !.verified = FALSE,
                        !.key = OwnKey(c), !.status = "stored", !.idem = Coalesce(old.idem, c.idem)]
  <2>1. row.app = c.app /\ row.status = "stored" /\ row.id = old.id
    BY <1>2 DEF Row
  <2>2. UNCHANGED artifacts \/ artifacts' = [artifacts EXCEPT ![d] = row]
    BY <1>5 DEF FinalizePending, RowOf
  <2> HIDE DEF row
  <2> QED
    BY <1>4, <2>1, <2>2, RowsKept
<1>6. CASE FinalizeMultipart(r)
  <2> DEFINE row == [old EXCEPT !.app = AppOf(r), !.size = c.size, !.verified = FALSE,
                        !.status = "stored", !.idem = Coalesce(old.idem, c.idem)]
  <2>1. row.app = c.app /\ row.status = "stored" /\ row.id = old.id
    BY <1>2 DEF Row
  <2>2. UNCHANGED artifacts \/ artifacts' = [artifacts EXCEPT ![d] = row]
    BY <1>6 DEF FinalizeMultipart, RowOf
  <2> HIDE DEF row
  <2> QED
    BY <1>4, <2>1, <2>2, RowsKept
<1>7. CASE InsertStored(r)
  <2> DEFINE row == [[NoRow EXCEPT !.app = AppOf(r), !.size = c.size, !.verified = seen[r].verified,
                         !.key = OwnKey(c), !.status = "stored", !.idem = c.idem]
                       EXCEPT !.id = rowCount + 1]
  <2>1. row.app = c.app /\ row.status = "stored"
    BY <1>2 DEF NoRow
  <2>2. \/ UNCHANGED artifacts
        \/ old.status = "absent" /\ artifacts' = [artifacts EXCEPT ![d] = row]
    BY <1>7 DEF InsertStored, RefuseTakenDigest, InsertRow, RowOf
  <2> HIDE DEF row
  <2> QED
    BY <1>4, <2>1, <2>2, RowsKept
<1> QED
  BY <1>5, <1>6, <1>7

\* So does POST /artifacts, which stores a row where there was none.
LEMMA LegacyKeeps ==
    ASSUME RetainInv, NEW c \in Legacy, LegacyInsert(c) PROVE StoredButFor({}) /\ StoredForCaller
<1>1. /\ artifacts \in [Digests -> Row] /\ AppsFound
      /\ c.digest \in Digests /\ c.app \in Apps /\ artifacts[c.digest].status = "absent"
  BY ConstantsAssumption
  DEF RetainInv, LifeInv, LinkedInv, RowInv, TypeInv, TypeOK, LegacyCall, LegacyInsert
<1> DEFINE found == c.app \in registered
<1>2. Learned(found, "app" \in Failing) = {found} /\ found = TRUE
  BY <1>1 DEF Learned, AppsFound
<1>3. PICK verified :
        InsertRow(c.digest, [NoRow EXCEPT !.app = IF found THEN c.app ELSE None,
                                !.size = c.size, !.verified = verified, !.status = "stored"])
  BY <1>2 DEF LegacyInsert
<1> DEFINE row == [[NoRow EXCEPT !.app = IF found THEN c.app ELSE None,
                       !.size = c.size, !.verified = verified, !.status = "stored"]
                     EXCEPT !.id = rowCount + 1]
<1>4. row.app = c.app /\ row.status = "stored"
  BY <1>2 DEF NoRow
<1>5. artifacts' = [artifacts EXCEPT ![c.digest] = row]
  BY <1>3 DEF InsertRow
<1> HIDE DEF row
<1> QED
  BY <1>1, <1>4, <1>5, RowKept

\* The statements that write a row without storing it keep the application of a stored one.
LEMMA OtherWritesKeep ==
    ASSUME RetainInv, NEW r \in Reqs, PresignInsert(r) \/ Backfill(r) \/ UpsertUpload(r)
    PROVE  StoredButFor({}) /\ StoredForCaller
<1> DEFINE d == call[r].digest
           old == artifacts[d]
<1>1. RowInv /\ Owned /\ pc[r] # "done"
  BY DEF RetainInv, LifeInv, PresignInsert, Backfill, UpsertUpload, Query
<1>2. d \in Digests /\ artifacts \in [Digests -> Row] /\ old \in Row
  BY <1>1, CallTyped DEF RowInv, TypeInv, TypeOK
<1>3. old.status = "stored" => old.app # None
  BY <1>1, <1>2, ConstantsAssumption DEF Owned, Call, LegacyCall
<1>4. CASE PresignInsert(r)
  <2> DEFINE row == [PendingRow(AppOf(r), OwnKey(call[r]), None) EXCEPT !.id = rowCount + 1]
  <2>1. row.status = "pending"
    BY DEF PendingRow, NoRow
  <2>2. \/ UNCHANGED artifacts
        \/ old.status = "absent" /\ artifacts' = [artifacts EXCEPT ![d] = row]
    BY <1>4 DEF PresignInsert, InsertRow, RowOf
  <2> HIDE DEF row
  <2> QED
    BY <1>2, <2>1, <2>2, RowKept, RowsKept
<1>5. CASE Backfill(r)
  <2> DEFINE row == [old EXCEPT !.app = call[r].app]
  <2>1. row.status = old.status
    BY <1>2 DEF Row
  <2>2. UNCHANGED artifacts \/ (old.app = None /\ artifacts' = [artifacts EXCEPT ![d] = row])
    BY <1>5 DEF Backfill, RowOf
  <2> HIDE DEF row
  <2> QED
    BY <1>2, <1>3, <2>1, <2>2, RowKept, RowsKept
<1>6. CASE UpsertUpload(r)
  <2> DEFINE new == [PendingRow(None, OwnKey(call[r]), seen[r].upload) EXCEPT !.id = rowCount + 1]
             row == Reinit(old, OwnKey(call[r]), seen[r].upload)
  <2>1. new.status = "pending" /\ row.status = old.status /\ row.id = old.id /\ row.app = old.app
    BY <1>2 DEF PendingRow, NoRow, Reinit, Row
  <2>2. \/ UNCHANGED artifacts
        \/ old.status = "absent" /\ artifacts' = [artifacts EXCEPT ![d] = new]
        \/ artifacts' = [artifacts EXCEPT ![d] = row]
    BY <1>6 DEF UpsertUpload, InsertRow, RowOf
  <2> HIDE DEF new, row
  <2> QED
    BY <1>2, <2>1, <2>2, RowKept, RowsKept
<1> QED
  BY <1>4, <1>5, <1>6

\* Only retention takes a stored row away, and only one it has selected.
LEMMA NextStores ==
    ASSUME OneAppOfDigest, RetainInv, [Next]_vars
    PROVE  /\ StoredForCaller
           /\ \/ StoredButFor({})
              \/ \E r \in Reqs : PurgeStale(r) /\ StoredButFor(seen[r].stale)
<1>1. ASSUME NEW r \in Reqs, HandlerStep(r), ~PurgeStale(r) PROVE StoredButFor({}) /\ StoredForCaller
  <2>1. CASE UNCHANGED artifacts
    BY <2>1, RowsKept
  <2>2. \/ UNCHANGED artifacts
        \/ PresignInsert(r) \/ Backfill(r) \/ UpsertUpload(r)
        \/ FinalizePending(r) \/ FinalizeMultipart(r) \/ InsertStored(r)
    BY <1>1
    DEF HandlerStep, PresignStep, CheckStep, StoreStep, MultipartStep, PresignLookup,
        PresignLink, LinkApp, CompleteRow, CheckRowKey, VerifySize, VerifyContent, CheckKeyFree,
        QuotaCount, QuotaBytes, InsertEvent, SelectStale, LogRetention, InitStatus,
        CreateUpload, MultipartRow, Assemble, db
  <2> QED
    BY <2>1, <2>2, StoringKeeps, OtherWritesKeep
<1>2. ASSUME NEW r \in Reqs, PurgeStale(r) PROVE StoredButFor(seen[r].stale) /\ StoredForCaller
  <2>1. PICK ids : ids = seen[r].stale
    OBVIOUS
  <2>2. Delete(ids) \/ UNCHANGED artifacts
    BY <1>2, <2>1 DEF PurgeStale
  <2>3. UNCHANGED artifacts => StoredButFor(ids)
    BY DEF StoredButFor
  <2> QED
    BY <2>1, <2>2, <2>3, RowsDeleted, RowsKept
<1>3. ASSUME NEW i \in RowIds, PendingGC(i) PROVE StoredButFor({}) /\ StoredForCaller
  <2>1. \A d, e \in Digests :
          artifacts[d].status = "stored" /\ Expired(e, i) => artifacts[d].id # artifacts[e].id
    BY DEF RetainInv, LifeInv, RowInv, RowsWellFormed, Expired
  <2>2. NoRow.status = "absent"
    BY DEF NoRow
  <2> QED
    BY <1>3, <2>1, <2>2 DEF PendingGC, Delete, StoredButFor, StoredForCaller
<1>4. ASSUME NEW r \in Reqs, (\E c \in Calls : Receive(r, c) \/ Refuse(r, c)) \/ Abort(r)
      PROVE  UNCHANGED artifacts
  BY <1>4 DEF Receive, Refuse, Abort, db
<1> QED
  BY <1>1, <1>2, <1>3, <1>4, EnvironmentQuiet, LegacyKeeps, RowsKept DEF Next, RequestStep

-----------------------------------------------------------------------------
\* Any step leaves in a slot no rows, those it has, or those it selects now.
LEMMA NextRecalls ==
    ASSUME RetainInv, [Next]_vars
    PROVE  /\ LinkedInv'
           /\ \A q \in Reqs : \/ seen'[q].stale = {} \/ seen'[q].stale = seen[q].stale
                              \/ seen'[q].stale = StaleOf(call[q].app)
<1>1. /\ RowInv /\ LinkedInv /\ seen \in [Reqs -> Seen] /\ pc \in [Reqs -> Steps]
  BY DEF RetainInv, LifeInv, RowInv, TypeInv, TypeOK
<1>2. registered' = registered
  <2>1. CASE UNCHANGED registered
    BY <2>1
  <2>2. ASSUME NEW r \in Reqs, HandlerStep(r) PROVE UNCHANGED registered
    BY <2>2
    DEF HandlerStep, PresignStep, CheckStep, StoreStep, MultipartStep, PresignLookup,
        PresignLink, PresignInsert, LinkApp, CompleteRow, CheckRowKey, Backfill,
        VerifySize, VerifyContent, CheckKeyFree, QuotaCount, QuotaBytes,
        FinalizePending, InsertStored, RefuseTakenDigest, FinalizeMultipart,
        InsertEvent, SelectStale, LogRetention, PurgeStale, InitStatus, CreateUpload,
        UpsertUpload, MultipartRow, Assemble, db
  <2>3. ASSUME NEW a \in Apps, CreateApp(a) PROVE FALSE
    BY <1>1, <2>3 DEF LinkedInv, AppsFound, CreateApp
  <2> QED
    BY <2>1, <2>2, <2>3
    DEF Next, RequestStep, Receive, Refuse, Abort, PendingGC, Environment, PutObject, PutPart,
        PresignPart, LegacyInsert, vars, db
<1>4. ASSUME NEW r \in Reqs, Recalls(r)
      PROVE  /\ \A q \in Reqs : pc'[q] \in LinkedSteps => seen'[q].linked
             /\ \A q \in Reqs : \/ seen'[q].stale = {} \/ seen'[q].stale = seen[q].stale
                                \/ seen'[q].stale = StaleOf(call[q].app)
  BY <1>1, <1>4 DEF Recalls, LinkedInv
<1>5. ASSUME NEW r \in Reqs, HandlerStep(r) PROVE Recalls(r)
  BY <1>1, <1>5, HandlerRecalls
<1>6. ASSUME NEW r \in Reqs, NEW c \in Calls, Receive(r, c) PROVE Recalls(r)
  <2>1. FirstStep(c.kind) \notin LinkedSteps
    BY ConstantsAssumption DEF Call, Kinds, FirstStep, LinkedSteps
  <2> QED
    BY <1>1, <1>6, <2>1 DEF Receive, Goto, Recalls
<1>7. ASSUME NEW r \in Reqs, Abort(r) PROVE Recalls(r)
  BY <1>1, <1>7 DEF Abort, Fresh, Recalls, LinkedSteps
<1>8. CASE UNCHANGED <<pc, seen>>
  BY <1>1, <1>2, <1>8 DEF LinkedInv, AppsFound
<1>9. ASSUME NEW r \in Reqs, Recalls(r) PROVE LinkedInv'
  BY <1>1, <1>2, <1>4, <1>9 DEF LinkedInv, AppsFound
<1> QED
  BY <1>4, <1>5, <1>6, <1>7, <1>8, <1>9
  DEF Next, RequestStep, Refuse, PendingGC, Environment, PutObject, PutPart, PresignPart,
      CreateApp, LegacyInsert, vars, handler

LEMMA RetainInvNext ==
    ASSUME OneAppOfDigest, RetainInv, [Next]_vars
    PROVE  Owned' /\ LinkedInv' /\ BehindInv'
<1>1. RowInv /\ TableStep /\ LifeInv /\ Owned
  BY NextTableStep DEF RetainInv, LifeInv
<1>2. Behind({}) /\ Selection({})
  BY DEF Behind, Selection
<1>3. PICK gone : StoredButFor(gone) /\ Behind(gone)
  BY <1>2, NextStores DEF RetainInv, BehindInv
<1>4. Owned'
  BY <1>1, <1>3, NextStores, OwnedKept
<1>5. ASSUME NEW q \in Reqs PROVE Behind(seen[q].stale)'
  <2>1. PICK ids : ids = seen'[q].stale
    OBVIOUS
  <2>2. Behind(ids) /\ Selection(ids)
    <3>1. Behind(seen[q].stale) /\ Selection(seen[q].stale)
      BY <1>1, SelectionsOf DEF RetainInv, BehindInv
    <3>2. Behind(StaleOf(call[q].app)) /\ Selection(StaleOf(call[q].app))
      BY <1>1, StaleOfBehind, StaleOfSelects
    <3> QED
      BY <1>2, <2>1, <3>1, <3>2, NextRecalls
  <2>3. Behind(ids)'
    BY <1>1, <1>3, <2>2, BehindKept
  <2> QED
    BY <2>1, <2>3 DEF Behind
<1> QED
  BY <1>4, <1>5, NextRecalls DEF BehindInv

\* What a purge takes had Retain newer rows that stay.
LEMMA NextKeepsNewest ==
    ASSUME OneAppOfDigest, RetainInv, [Next]_vars, NEW d \in Digests,
           artifacts[d].status = "stored", artifacts'[d].id # artifacts[d].id
    PROVE  /\ Retain > 0
           /\ LET a == artifacts[d].app IN
              Cardinality({n \in Newer(d, a) : artifacts'[n] = artifacts[n]}) >= Retain
<1>1. PICK r \in Reqs : PurgeStale(r) /\ StoredButFor(seen[r].stale)
  BY NextStores DEF StoredButFor
<1>2. PICK gone : gone = seen[r].stale
  OBVIOUS
<1>3. RowInv /\ Behind(gone) /\ Delete(gone) /\ artifacts[d].id \in gone
  BY <1>1, <1>2 DEF RetainInv, BehindInv, LifeInv, PurgeStale, StoredButFor
<1>4. Retain > 0
  BY <1>1 DEF RetainInv, LifeInv, StaleInv, StaleInvOf, PurgeStale, Query
<1>5. Cardinality(NewerThan(d)) >= Retain
  BY <1>3 DEF Behind
<1>6. Cardinality({n \in NewerThan(d) : artifacts[n].id \notin gone}) >= Retain
  BY <1>3, <1>5, PurgeLeaves
<1>7. 0 \notin gone /\ NoRow.id = 0
  BY <1>2, <1>3 DEF RowInv, KnownRow, NoRow
<1>8. \A n \in Digests : artifacts[n].id \notin gone <=> artifacts'[n] = artifacts[n]
  BY <1>3, <1>7 DEF Delete
<1>9. {n \in NewerThan(d) : artifacts[n].id \notin gone}
        = {n \in NewerThan(d) : artifacts'[n] = artifacts[n]}
  BY <1>8 DEF NewerThan, Newer, StoredOf
<1> QED
  BY <1>4, <1>6, <1>9 DEF NewerThan

\* When a digest belongs to one application, and every completion and POST /artifacts finds
\* its application (registered before, and the SELECT answered), retention removes a stored row only while the Retain newest of its
\* application stay, however many requests of the application are in retention at once.
THEOREM NewestKept ==
    ASSUME OneAppOfDigest, InitApps = Apps, "app" \notin Failing
    PROVE  Spec => RetentionKeepsNewest
<1> DEFINE Keeps ==
      \A d \in Digests :
         artifacts[d].status = "stored" /\ artifacts'[d].id # artifacts[d].id =>
           /\ Retain > 0
           /\ LET a == artifacts[d].app IN
              Cardinality({n \in Newer(d, a) : artifacts'[n] = artifacts[n]}) >= Retain
<1>1. Init => Owned /\ LinkedInv /\ BehindInv
  BY DEF Init, BehindInv, Owned, LinkedInv, AppsFound, LinkedSteps, NoRow, Fresh, Behind
<1>2. RetainInv /\ [Next]_vars => Owned' /\ LinkedInv' /\ BehindInv'
  BY RetainInvNext
<1>3. RetainInv /\ [Next]_vars => Keeps
  BY NextKeepsNewest
<1>4. RetainInv <=> LifeInv /\ Owned /\ LinkedInv /\ BehindInv
  BY DEF RetainInv
<1> QED
  BY <1>1, <1>2, <1>3, <1>4, LifeInvInvariant, PTL DEF Spec, RetentionKeepsNewest

-----------------------------------------------------------------------------
(***************************************************************************)
(* The event log.  An event names its row by an id that a handler has kept *)
(* since it stored or selected the row, so the ids in the log, and those   *)
(* handlers are about to log, select stored rows as retention does; and    *)
(* those marked retention_delete have Retain newer rows, as what retention *)
(* selects.                                                                *)
(***************************************************************************)
Logged  == {e[1] : e \in events}
Marked  == {e[1] : e \in {f \in events : f[2] = "retention_delete"}}
Told(r) == IF pc[r] = "event" THEN {seen[r].row} ELSE {}

EventInv == Selection(Logged) /\ \A r \in Reqs : Selection(Told(r))

LEMMA SelectionPart == ASSUME NEW A, NEW B \in SUBSET A, Selection(A) PROVE Selection(B)
BY DEF Selection

\* What a step adds to the log, a handler knew before.
LEMMA NextLogs ==
    ASSUME [Next]_vars
    PROVE  \A e \in events' \ events : \E r \in Reqs :
             \/ e[1] \in Told(r) /\ e[2] = "stored"
             \/ e[1] \in seen[r].stale /\ e[2] = "retention_delete"
<1>1. ASSUME NEW r \in Reqs, InsertEvent(r)
      PROVE  \A e \in events' \ events : e[1] \in Told(r) /\ e[2] = "stored"
  BY <1>1 DEF InsertEvent, Query, Told
<1>2. ASSUME NEW r \in Reqs, LogRetention(r)
      PROVE  \A e \in events' \ events : e[1] \in seen[r].stale /\ e[2] = "retention_delete"
  <2>1. \A e \in events' \ events : \E d \in Digests :
          artifacts[d].id \in seen[r].stale /\ e = <<artifacts[d].id, "retention_delete">>
    BY <1>2 DEF LogRetention, RemovalOf, Unlogged
  <2> QED
    BY <2>1
<1>3. ASSUME NEW r \in Reqs, HandlerStep(r), ~InsertEvent(r), ~LogRetention(r)
      PROVE  events' \subseteq events
  BY <1>3
  DEF HandlerStep, PresignStep, CheckStep, StoreStep, MultipartStep, PresignLookup, PresignLink,
      PresignInsert, LinkApp, CompleteRow, CheckRowKey, Backfill, VerifySize,
      VerifyContent, CheckKeyFree, QuotaCount, QuotaBytes, FinalizePending, InsertStored,
      RefuseTakenDigest, FinalizeMultipart, SelectStale, PurgeStale, Delete, InitStatus,
      CreateUpload, UpsertUpload, MultipartRow, Assemble, db
<1>4. ASSUME ~\E r \in Reqs : HandlerStep(r) PROVE events' \subseteq events
  BY <1>4
  DEF Next, RequestStep, Receive, Refuse, Abort, PendingGC, Delete, Environment, PutObject,
      PutPart, PresignPart, CreateApp, LegacyInsert, vars, db
<1> QED
  BY <1>1, <1>2, <1>3, <1>4

\* A handler about to log that it stored a row has stored it.
LEMMA StoresTold ==
    ASSUME LifeInv, RowInv', NEW r \in Reqs,
           FinalizePending(r) \/ FinalizeMultipart(r) \/ InsertStored(r), pc'[r] = "event"
    PROVE  /\ artifacts'[call[r].digest].status = "stored"
           /\ artifacts'[call[r].digest].id = seen'[r].row
<1> DEFINE d == call[r].digest
           old == artifacts[d]
<1>1. /\ TypeInv /\ pc[r] = "store"
      /\ seen \in [Reqs -> Seen] /\ pc \in [Reqs -> Steps] /\ rowCount \in Nat
  BY
  DEF LifeInv, RowInv, TypeInv, TypeOK, FinalizePending, FinalizeMultipart, InsertStored,
      RefuseTakenDigest, Query
<1>2. d \in Digests /\ artifacts \in [Digests -> Row] /\ old \in Row
  BY <1>1, CallTyped DEF TypeInv, TypeOK
<1>3. ASSUME NEW code, Reply(r, code) PROVE FALSE
  BY <1>1, <1>3 DEF Reply
<1>4. CASE FinalizePending(r)
  <2> DEFINE row == [old EXCEPT !.app = AppOf(r), !.size = call[r].size, !.verified = FALSE,
                        !.key = OwnKey(call[r]), !.status = "stored",
                        !.idem = Coalesce(old.idem, call[r].idem)]
  <2>1. row.status = "stored" /\ row.id = old.id
    BY <1>2 DEF Row
  <2>2. artifacts' = [artifacts EXCEPT ![d] = row] /\ old.id = seen[r].row /\ Note(r, seen[r], "event")
    BY <1>3, <1>4 DEF FinalizePending, RowOf, RowGone, Continue
  <2> HIDE DEF row
  <2> QED
    BY <1>1, <1>2, <2>1, <2>2 DEF Note
<1>5. CASE FinalizeMultipart(r)
  <2> DEFINE row == [old EXCEPT !.app = AppOf(r), !.size = call[r].size, !.verified = FALSE,
                        !.status = "stored", !.idem = Coalesce(old.idem, call[r].idem)]
  <2>1. row.status = "stored" /\ row.id = old.id
    BY <1>2 DEF Row
  <2>2. artifacts' = [artifacts EXCEPT ![d] = row] /\ old.id = seen[r].row /\ Note(r, seen[r], "event")
    BY <1>3, <1>5 DEF FinalizeMultipart, RowOf, RowGone, Continue
  <2> HIDE DEF row
  <2> QED
    BY <1>1, <1>2, <2>1, <2>2 DEF Note
<1>6. CASE InsertStored(r)
  <2> DEFINE row == [[NoRow EXCEPT !.app = AppOf(r), !.size = call[r].size,
                         !.verified = seen[r].verified, !.key = OwnKey(call[r]),
                         !.status = "stored", !.idem = call[r].idem] EXCEPT !.id = rowCount + 1]
             locals == [seen[r] EXCEPT !.row = rowCount + 1]
  <2>1. row.status = "stored" /\ row.id = rowCount + 1 /\ locals.row = rowCount + 1
    BY <1>1 DEF NoRow, Seen
  <2>2. artifacts' = [artifacts EXCEPT ![d] = row] /\ Note(r, locals, "event")
    BY <1>3, <1>6 DEF InsertStored, RefuseTakenDigest, InsertRow
  <2> HIDE DEF row, locals
  <2> QED
    BY <1>1, <1>2, <2>1, <2>2 DEF Note
<1> QED
  BY <1>4, <1>5, <1>6

\* Nothing else brings a handler there.
LEMMA NextTells ==
    ASSUME RowInv, [Next]_vars, NEW q \in Reqs
    PROVE  \/ Told(q)' \subseteq Told(q)
           \/ /\ FinalizePending(q) \/ FinalizeMultipart(q) \/ InsertStored(q)
              /\ pc'[q] = "event"
<1>1. seen \in [Reqs -> Seen] /\ pc \in [Reqs -> Steps]
  BY DEF RowInv, TypeInv, TypeOK
<1>2. CASE pc'[q] = pc[q] /\ seen'[q] = seen[q]
  BY <1>2 DEF Told
<1>3. CASE pc'[q] # "event"
  BY <1>3 DEF Told
<1>4. ASSUME NEW r \in Reqs, NEW code, Reply(r, code)
      PROVE  pc'[q] # "event" \/ (pc'[q] = pc[q] /\ seen'[q] = seen[q])
  BY <1>1, <1>4 DEF Reply
<1>5. ASSUME NEW r \in Reqs, NEW locals, NEW step, step # "event", Note(r, locals, step)
      PROVE  pc'[q] # "event" \/ (pc'[q] = pc[q] /\ seen'[q] = seen[q])
  BY <1>1, <1>5 DEF Note, Goto
<1>6. \A linked : AfterChecks(linked) \in {"count", "store"}
  BY DEF AfterChecks
<1>7. ASSUME NEW r \in Reqs, HandlerStep(r),
             ~(FinalizePending(r) \/ FinalizeMultipart(r) \/ InsertStored(r))
      PROVE  (\E code : Reply(r, code)) \/ \E locals, step : step # "event" /\ Note(r, locals, step)
  <2>1. CASE PresignStep(r) \/ MultipartStep(r)
    BY <2>1, PresignLinkNotes
    DEF PresignStep, PresignLookup, PresignInsert, MultipartStep, InitStatus,
        CreateUpload, UpsertUpload, MultipartRow, Assemble, Continue
  <2>2. CASE LinkApp(r)
    BY <2>2, LinkAppGoes
  <2>3. CASE CheckKeyFree(r)
    <3>1. (\E code : Reply(r, code)) \/ \E locals : Note(r, locals, AfterChecks(seen[r].linked))
      BY <2>3 DEF CheckKeyFree
    <3> QED
      BY <1>6, <3>1
  <2>4. CASE VerifySize(r) \/ VerifyContent(r)
    BY <1>6, <2>4 DEF VerifySize, VerifyContent, Continue
  <2>5. CASE CompleteRow(r) \/ CheckRowKey(r) \/ Backfill(r) \/ QuotaCount(r) \/ QuotaBytes(r)
    BY <2>5 DEF CompleteRow, CheckRowKey, Backfill, QuotaCount, QuotaBytes, Continue
  <2>6. CASE InsertEvent(r) \/ SelectStale(r) \/ LogRetention(r) \/ PurgeStale(r)
    BY <2>6 DEF InsertEvent, SelectStale, LogRetention, PurgeStale, Continue
  <2> QED
    BY <1>7, <2>1, <2>2, <2>3, <2>4, <2>5, <2>6 DEF HandlerStep, CheckStep, StoreStep
<1>8. ASSUME NEW r \in Reqs, FinalizePending(r) \/ FinalizeMultipart(r) \/ InsertStored(r), r # q
      PROVE  pc'[q] = pc[q] /\ seen'[q] = seen[q]
  BY <1>1, <1>8
  DEF FinalizePending, FinalizeMultipart, InsertStored, RefuseTakenDigest, Reply, Note, Goto,
      Continue
<1>9. ASSUME NEW r \in Reqs, NEW c \in Calls, Receive(r, c)
      PROVE  pc'[q] # "event" \/ (pc'[q] = pc[q] /\ seen'[q] = seen[q])
  <2>1. FirstStep(c.kind) # "event"
    BY ConstantsAssumption DEF Call, Kinds, FirstStep
  <2> QED
    BY <1>1, <1>9, <2>1 DEF Receive, Goto
<1>10. ASSUME NEW r \in Reqs, Abort(r)
       PROVE  pc'[q] # "event" \/ (pc'[q] = pc[q] /\ seen'[q] = seen[q])
  BY <1>1, <1>10 DEF Abort
<1>11. CASE UNCHANGED <<pc, seen>>
  BY <1>2, <1>11
<1> QED
  BY <1>2, <1>3, <1>4, <1>5, <1>7, <1>8, <1>9, <1>10, <1>11
  DEF Next, RequestStep, Refuse, PendingGC, Environment, PutObject, PutPart, PresignPart,
      CreateApp, LegacyInsert, vars, handler

LEMMA EventInvNext == LifeInv /\ LifeInv' /\ EventInv /\ [Next]_vars => EventInv'
<1> SUFFICES ASSUME LifeInv, LifeInv', EventInv, [Next]_vars PROVE EventInv'
  OBVIOUS
<1>1. RowInv /\ RowInv' /\ TableStep
  BY NextTableStep DEF LifeInv
<1>2. Selection(Logged)'
  <2>1. PICK after : after = Logged'
    OBVIOUS
  <2> SUFFICES Selection(after)'
    BY <2>1 DEF Selection
  <2>2. \A i \in after : \E d \in Digests : artifacts'[d].status # "absent" /\ artifacts'[d].id = i
    BY <1>1, <2>1 DEF RowInv, RowsWellFormed, Logged
  <2>3. ASSUME NEW i \in after PROVE Selection({i})
    <3>1. PICK e \in events' : i = e[1]
      BY <2>1, <2>3 DEF Logged
    <3>2. CASE e \in events
      BY <3>1, <3>2, SelectionPart DEF EventInv, Logged
    <3>3. CASE e \notin events
      <4>1. PICK r \in Reqs : i \in Told(r) \cup seen[r].stale
        BY <3>1, <3>3, NextLogs
      <4>2. Selection(Told(r)) /\ Selection(seen[r].stale)
        BY SelectionsOf DEF EventInv
      <4> QED
        BY <4>1, <4>2, SelectionPart
    <3> QED
      BY <3>2, <3>3
  <2>4. \A i \in after : Selection({i})'
    BY <1>1, <2>3, SelectionKept
  <2> QED
    BY <2>4 DEF Selection
<1>3. ASSUME NEW q \in Reqs PROVE Selection(Told(q))'
  <2>1. PICK after : after = Told(q)'
    OBVIOUS
  <2> SUFFICES Selection(after)'
    BY <2>1 DEF Selection
  <2>2. CASE after \subseteq Told(q)
    <3>1. Selection(after)
      BY <2>2, SelectionPart DEF EventInv
    <3> QED
      BY <1>1, <3>1, SelectionKept
  <2>3. CASE /\ FinalizePending(q) \/ FinalizeMultipart(q) \/ InsertStored(q)
             /\ pc'[q] = "event"
    <3>1. PICK d \in Digests : artifacts'[d].status = "stored" /\ after = {artifacts'[d].id}
      <4>1. call[q].digest \in Digests
        BY <1>1, <2>3, CallTyped
        DEF RowInv, FinalizePending, FinalizeMultipart, InsertStored, RefuseTakenDigest, Query
      <4> QED
        BY <1>1, <2>1, <2>3, <4>1, StoresTold DEF Told
    <3>2. /\ artifacts'[d].id \in Nat /\ artifacts'[d].id # 0 /\ artifacts'[d].id <= rowCount'
          /\ \A e \in Digests : artifacts'[e].id = artifacts'[d].id => e = d
      BY <1>1, <3>1 DEF RowInv, TypeInv, TypeOK, Row, RowsWellFormed
    <3> QED
      BY <3>1, <3>2 DEF Selection
  <2> QED
    BY <1>1, <2>1, <2>2, <2>3, NextTells
<1> QED
  BY <1>2, <1>3 DEF EventInv

LEMMA LoggedStored == ASSUME RowInv, EventInv PROVE EventsOfStored
BY DEF RowInv, RowsWellFormed, EventInv, Selection, Logged, EventsOfStored

LEMMA EventInvInvariant == Spec => []EventInv
<1>1. Init => EventInv
  BY DEF Init, EventInv, Selection, Logged, Told
<1> QED
  BY <1>1, EventInvNext, LifeInvInvariant, PTL DEF Spec

\* An event is of a stored row, although its row may be collected, replaced by another of the
\* same digest or completed once more between the write of the row and that of the event.
THEOREM EventsStored == Spec => []EventsOfStored
<1>1. LifeInv /\ EventInv => EventsOfStored
  BY LoggedStored DEF LifeInv
<1> QED
  BY <1>1, EventInvInvariant, LifeInvInvariant, PTL

LEMMA MarkedNext ==
    ASSUME OneAppOfDigest, RetainInv, EventInv, Behind(Marked), [Next]_vars
    PROVE  Behind(Marked)'
<1>1. RowInv /\ TableStep /\ LifeInv
  BY NextTableStep DEF RetainInv, LifeInv
<1>2. PICK gone : StoredButFor(gone) /\ Behind(gone)
  <2>1. Behind({})
    BY DEF Behind
  <2> QED
    BY <2>1, NextStores DEF RetainInv, BehindInv
<1>3. PICK after : after = Marked'
  OBVIOUS
<1> SUFFICES Behind(after)'
  BY <1>3 DEF Behind
<1>4. ASSUME NEW i \in after PROVE Behind({i}) /\ Selection({i})
  <2>1. PICK e \in events' : i = e[1] /\ e[2] = "retention_delete"
    BY <1>3, <1>4 DEF Marked
  <2>2. CASE e \in events
    <3>1. i \in Logged /\ i \in Marked
      BY <2>1, <2>2 DEF Logged, Marked
    <3> QED
      BY <3>1, SelectionPart DEF EventInv, Behind
  <2>3. CASE e \notin events
    <3>1. PICK r \in Reqs : i \in seen[r].stale
      BY <2>1, <2>3, NextLogs
    <3>2. Behind(seen[r].stale) /\ Selection(seen[r].stale)
      BY <1>1, SelectionsOf DEF RetainInv, BehindInv
    <3> QED
      BY <3>1, <3>2, SelectionPart DEF Behind
  <2> QED
    BY <2>2, <2>3
<1>5. \A i \in after : Behind({i})'
  BY <1>1, <1>2, <1>4, BehindKept
<1> QED
  BY <1>5 DEF Behind

\* Under the assumptions of NewestKept a row that a handler marked as deleted by retention,
\* and perhaps never came to delete, has the Retain newest rows of its application before
\* it for as long as it exists: no purge takes so many of those that it becomes one of them.
THEOREM MarkedSurplus ==
    ASSUME OneAppOfDigest, InitApps = Apps, "app" \notin Failing
    PROVE  Spec => []MarkedAreSurplus
<1>1. Init => Owned /\ LinkedInv /\ BehindInv /\ Behind(Marked)
  BY DEF Init, BehindInv, Owned, LinkedInv, AppsFound, LinkedSteps, NoRow, Fresh, Behind, Marked
<1>2. RetainInv /\ [Next]_vars => Owned' /\ LinkedInv' /\ BehindInv'
  BY RetainInvNext
<1>3. RetainInv /\ EventInv /\ Behind(Marked) /\ [Next]_vars => Behind(Marked)'
  BY MarkedNext
<1>4. RetainInv <=> LifeInv /\ Owned /\ LinkedInv /\ BehindInv
  BY DEF RetainInv
<1>5. RetainInv /\ EventInv /\ Behind(Marked) => MarkedAreSurplus
  <2> SUFFICES ASSUME RetainInv, EventInv, Behind(Marked) PROVE MarkedAreSurplus
    OBVIOUS
  <2>1. EventsOfStored
    BY LoggedStored DEF RetainInv, LifeInv
  <2> QED
    BY <2>1 DEF Behind, Marked, NewerThan, MarkedAreSurplus
<1> QED
  BY <1>1, <1>2, <1>3, <1>4, <1>5, LifeInvInvariant, EventInvInvariant, PTL DEF Spec

-----------------------------------------------------------------------------
(***************************************************************************)
(* Without retention, an idempotency key that a client was told is stored  *)
(* names its digest for good.  The row may have got its key from another   *)
(* request, and the handler reads, decides and writes in statements of its *)
(* own.  The argument: every key in the table was sent with its digest, so *)
(* COALESCE finds the handler's own key or none, and nobody else can have  *)
(* a key that a row of another digest holds.                               *)
(***************************************************************************)
\* No digest is completed with two keys.  (The key that the CLI sends is "idem-"
\* followed by the digest.)
OneKeyOfDigest ==
    \A b, c \in Calls : b.digest = c.digest /\ b.idem # None /\ c.idem # None => b.idem = c.idem

\* The key of a row was sent with its digest.
Sent(d, key) == \E c \in Calls : c.digest = d /\ c.idem = key
KeysSent == \A d \in Digests : artifacts[d].idem # None => Sent(d, artifacts[d].idem)

\* The row of digest d has the key, if there is one.
Holds(d, key) == key # None => artifacts[d].idem = key

HeldInv ==
    Retain = 0 => \A r \in Reqs :
        /\ answer[r].code = "stored" => Holds(answer[r].digest, answer[r].idem)
        /\ pc[r] = "event" => Holds(call[r].digest, call[r].idem)

KeyInv == KeysSent /\ HeldInv

LEMMA CoalesceEither == ASSUME NEW old, NEW new PROVE Coalesce(old, new) \in {old, new}
BY DEF Coalesce

\* A row's key is the one it had, none, or the one of the request that writes it.
LEMMA HandlerSends ==
    ASSUME RowInv, NEW r \in Reqs, HandlerStep(r), NEW d \in Digests
    PROVE  \/ artifacts'[d].idem \in {None, artifacts[d].idem}
           \/ d = call[r].digest /\ artifacts'[d].idem = call[r].idem
<1> DEFINE c == call[r]
           old == artifacts[c.digest]
           Goal == \/ artifacts'[d].idem \in {None, artifacts[d].idem}
                   \/ d = call[r].digest /\ artifacts'[d].idem = call[r].idem
<1>1. artifacts \in [Digests -> Row] /\ old \in Row /\ NoRow.idem = None
  BY NotDone, CallTyped DEF RowInv, TypeInv, TypeOK, RowOf, NoRow
<1>2. ASSUME NEW row, artifacts' = [artifacts EXCEPT ![c.digest] = row],
             row.idem \in {None, old.idem, c.idem}
      PROVE  Goal
  BY <1>1, <1>2
<1>3. CASE FinalizePending(r) \/ FinalizeMultipart(r)
  <2> DEFINE idem == Coalesce(old.idem, c.idem)
             pending == [old EXCEPT !.app = AppOf(r), !.size = c.size, !.verified = FALSE,
                            !.key = OwnKey(c), !.status = "stored", !.idem = idem]
             multipart == [old EXCEPT !.app = AppOf(r), !.size = c.size, !.verified = FALSE,
                              !.status = "stored", !.idem = idem]
  <2>1. pending.idem = idem /\ multipart.idem = idem
    BY <1>1 DEF Row
  <2>2. idem \in {old.idem, c.idem}
    BY CoalesceEither
  <2>3. \/ UNCHANGED artifacts
        \/ artifacts' = [artifacts EXCEPT ![c.digest] = pending]
        \/ artifacts' = [artifacts EXCEPT ![c.digest] = multipart]
    BY <1>3 DEF FinalizePending, FinalizeMultipart, RowOf
  <2> HIDE DEF pending, multipart, idem, c
  <2> QED
    BY <1>2, <2>1, <2>2, <2>3
<1>4. CASE InsertStored(r)
  <2> DEFINE row == [[NoRow EXCEPT !.app = AppOf(r), !.size = c.size,
                         !.verified = seen[r].verified, !.key = OwnKey(c),
                         !.status = "stored", !.idem = c.idem] EXCEPT !.id = rowCount + 1]
  <2>1. row.idem = c.idem
    BY DEF NoRow
  <2>2. UNCHANGED artifacts \/ artifacts' = [artifacts EXCEPT ![c.digest] = row]
    BY <1>4 DEF InsertStored, RefuseTakenDigest, InsertRow
  <2> HIDE DEF row, c
  <2> QED
    BY <1>2, <2>1, <2>2
<1>5. CASE PresignInsert(r)
  <2> DEFINE row == [PendingRow(AppOf(r), OwnKey(c), None) EXCEPT !.id = rowCount + 1]
  <2>1. row.idem = None
    BY DEF NoRow, PendingRow
  <2>2. UNCHANGED artifacts \/ artifacts' = [artifacts EXCEPT ![c.digest] = row]
    BY <1>5 DEF PresignInsert, InsertRow
  <2> HIDE DEF row, c
  <2> QED
    BY <1>2, <2>1, <2>2
<1>6. CASE UpsertUpload(r)
  <2> DEFINE new == [PendingRow(None, OwnKey(c), seen[r].upload) EXCEPT !.id = rowCount + 1]
             next == Reinit(old, OwnKey(c), seen[r].upload)
  <2>1. new.idem = None /\ next.idem = old.idem
    BY <1>1 DEF NoRow, PendingRow, Reinit, Row
  <2>2. \/ artifacts' = [artifacts EXCEPT ![c.digest] = new]
        \/ artifacts' = [artifacts EXCEPT ![c.digest] = next]
        \/ UNCHANGED artifacts
    BY <1>6 DEF UpsertUpload, InsertRow, RowOf
  <2> HIDE DEF new, next, c
  <2> QED
    BY <1>2, <2>1, <2>2
<1>7. CASE Backfill(r)
  <2> DEFINE row == [old EXCEPT !.app = c.app]
  <2>1. row.idem = old.idem
    BY <1>1 DEF Row
  <2>2. UNCHANGED artifacts \/ artifacts' = [artifacts EXCEPT ![c.digest] = row]
    BY <1>7 DEF Backfill
  <2> HIDE DEF row, c
  <2> QED
    BY <1>2, <2>1, <2>2
<1>8. CASE PurgeStale(r)
  BY <1>1, <1>8 DEF PurgeStale, Delete
<1>9. UNCHANGED artifacts => Goal
  OBVIOUS
<1> QED
  BY <1>3, <1>4, <1>5, <1>6, <1>7, <1>8, <1>9
  DEF HandlerStep, PresignStep, CheckStep, StoreStep, MultipartStep, PresignLookup,
      PresignLink, LinkApp, CompleteRow, CheckRowKey, VerifySize, VerifyContent, CheckKeyFree,
      QuotaCount, QuotaBytes, InsertEvent, SelectStale, LogRetention, InitStatus,
      CreateUpload, MultipartRow, Assemble, db

LEMMA KeysSentNext == RowInv /\ KeysSent /\ [Next]_vars => KeysSent'
<1> SUFFICES ASSUME RowInv, KeysSent, [Next]_vars PROVE KeysSent'
  OBVIOUS
<1>1. ASSUME NEW r \in Reqs, HandlerStep(r), NEW d \in Digests, artifacts'[d].idem # None
      PROVE  Sent(d, artifacts'[d].idem)
  <2>1. call[r] \in Calls
    BY <1>1, NotDone DEF RowInv, TypeInv, InFlight
  <2>2. CASE artifacts'[d].idem = artifacts[d].idem
    BY <1>1, <2>2 DEF KeysSent
  <2>3. CASE d = call[r].digest /\ artifacts'[d].idem = call[r].idem
    BY <2>1, <2>3 DEF Sent
  <2> QED
    BY <1>1, <2>2, <2>3, HandlerSends
<1>2. ASSUME NEW i \in RowIds, PendingGC(i) PROVE KeysSent'
  <2>1. \A d \in Digests : artifacts'[d] = NoRow \/ artifacts'[d] = artifacts[d]
    BY <1>2 DEF PendingGC, Delete
  <2>2. NoRow.idem = None
    BY DEF NoRow
  <2> QED
    BY <2>1, <2>2 DEF KeysSent, Sent
<1>3. UNCHANGED artifacts => KeysSent'
  BY DEF KeysSent, Sent
<1>4. (\E r \in Reqs : HandlerStep(r)) => KeysSent'
  BY <1>1 DEF KeysSent, Sent
<1>5. ASSUME NEW c \in Legacy, LegacyInsert(c) PROVE KeysSent'
  <2>1. PICK row : row.idem = None /\ artifacts' = [artifacts EXCEPT ![c.digest] = row]
    BY <1>5, LegacyRow
  <2> QED
    BY <2>1 DEF KeysSent, Sent, RowInv, TypeInv, TypeOK
<1> QED
  BY <1>2, <1>3, <1>4, <1>5, EnvironmentQuiet DEF Next, RequestStep, Receive, Refuse, Abort, db

\* A stored row keeps the key it has.
KeysStay ==
    \A d \in Digests : artifacts[d].status = "stored" /\ artifacts[d].idem # None
                         => artifacts'[d].idem = artifacts[d].idem

LEMMA NextKeysStay == ASSUME RowInv, DurableInv, Retain = 0, [Next]_vars PROVE KeysStay
<1>1. TableStep /\ artifacts \in [Digests -> Row] /\ StoredStays
  BY NextTableStep, NextStoredStays DEF RowInv, TypeInv, TypeOK
<1>2. ASSUME NEW d \in Digests, NEW row \in Row, Inserted(d, row) \/ Changed(d, row)
      PROVE  KeysStay
  BY <1>1, <1>2 DEF Inserted, InsertRow, Changed, KeysStay
<1>3. ASSUME NEW gone \in SUBSET Nat, Deleted(gone) PROVE KeysStay
  <2>1. \A d \in Digests : artifacts'[d] = NoRow \/ artifacts'[d] = artifacts[d]
    BY <1>3 DEF Deleted, Delete
  <2>2. NoRow.status # "stored"
    BY DEF NoRow
  <2> QED
    BY <1>1, <2>1, <2>2 DEF StoredStays, KeysStay
<1> QED
  BY <1>1, <1>2, <1>3 DEF TableStep, InPlaceStep, KeysStay

\* The statements that store a row give it the handler's key, or find it there.
LEMMA StoresHeld ==
    ASSUME RowInv, KeysSent, OneKeyOfDigest, NEW r \in Reqs,
           FinalizePending(r) \/ FinalizeMultipart(r) \/ InsertStored(r),
           pc'[r] = "event", call[r].idem # None
    PROVE  artifacts'[call[r].digest].idem = call[r].idem
<1> DEFINE c == call[r]
           old == artifacts[c.digest]
<1>1. /\ pc \in [Reqs -> Steps] /\ pc[r] = "store" /\ artifacts \in [Digests -> Row]
      /\ TypeInv /\ c \in Calls
  BY
  DEF RowInv, TypeInv, TypeOK, InFlight, FinalizePending, FinalizeMultipart, InsertStored,
      RefuseTakenDigest, Query
<1>2. c.digest \in Digests /\ old \in Row
  BY <1>1, CallTyped DEF RowOf
<1>3. Coalesce(old.idem, c.idem) = c.idem
  BY <1>1, <1>2 DEF Coalesce, KeysSent, Sent, OneKeyOfDigest
<1>4. ASSUME NEW code, Reply(r, code) PROVE FALSE
  BY <1>1, <1>4 DEF Reply
<1>5. CASE FinalizePending(r) \/ FinalizeMultipart(r)
  <2> DEFINE idem == Coalesce(old.idem, c.idem)
             pending == [old EXCEPT !.app = AppOf(r), !.size = c.size, !.verified = FALSE,
                            !.key = OwnKey(c), !.status = "stored", !.idem = idem]
             multipart == [old EXCEPT !.app = AppOf(r), !.size = c.size, !.verified = FALSE,
                              !.status = "stored", !.idem = idem]
  <2>1. pending.idem = idem /\ multipart.idem = idem
    BY <1>2 DEF Row
  <2>2. \/ artifacts' = [artifacts EXCEPT ![c.digest] = pending]
        \/ artifacts' = [artifacts EXCEPT ![c.digest] = multipart]
    BY <1>4, <1>5 DEF FinalizePending, FinalizeMultipart, RowOf
  <2> HIDE DEF pending, multipart
  <2> QED
    BY <1>1, <1>2, <1>3, <2>1, <2>2
<1>6. CASE InsertStored(r)
  <2> DEFINE row == [[NoRow EXCEPT !.app = AppOf(r), !.size = c.size,
                         !.verified = seen[r].verified, !.key = OwnKey(c),
                         !.status = "stored", !.idem = c.idem] EXCEPT !.id = rowCount + 1]
  <2>1. row.idem = c.idem
    BY DEF NoRow
  <2>2. artifacts' = [artifacts EXCEPT ![c.digest] = row]
    BY <1>4, <1>6 DEF InsertStored, RefuseTakenDigest, InsertRow
  <2> HIDE DEF row
  <2> QED
    BY <1>1, <1>2, <2>1, <2>2
<1> QED
  BY <1>5, <1>6

\* Only the statements after the write answer that a completion is stored, with
\* the digest and the key it was sent with.
LEMMA NextAnswers ==
    ASSUME RowInv, [Next]_vars, NEW q \in Reqs
    PROVE  \/ answer'[q] = answer[q] \/ answer'[q].code # "stored"
           \/ /\ InsertEvent(q) \/ SelectStale(q) \/ PurgeStale(q)
              /\ answer'[q].digest = call[q].digest /\ answer'[q].idem = call[q].idem
<1> DEFINE Goal == answer'[q] = answer[q] \/ answer'[q].code # "stored"
<1>1. answer \in [Reqs -> Answer]
  BY DEF RowInv, TypeInv, TypeOK
<1>2. ASSUME NEW r \in Reqs, NEW code, Reply(r, code), r # q \/ code # "stored" PROVE Goal
  BY <1>1, <1>2 DEF Reply
<1>3. ASSUME NEW r \in Reqs, HandlerStep(r),
             ~(InsertEvent(r) \/ SelectStale(r) \/ PurgeStale(r))
      PROVE  UNCHANGED answer \/ \E code : code # "stored" /\ Reply(r, code)
  BY <1>3
  DEF HandlerStep, PresignStep, CheckStep, StoreStep, MultipartStep, PresignLookup, PresignLink,
      PresignInsert, LinkApp, CompleteRow, CheckRowKey, Backfill, VerifySize,
      VerifyContent, CheckKeyFree, QuotaCount, QuotaBytes, FinalizePending, InsertStored,
      RefuseTakenDigest, FinalizeMultipart, LogRetention, InitStatus, CreateUpload,
      UpsertUpload, MultipartRow, Assemble, Continue, Note
<1>4. ASSUME NEW r \in Reqs, InsertEvent(r) \/ SelectStale(r) \/ PurgeStale(r)
      PROVE  UNCHANGED answer \/ Reply(r, "stored")
  BY <1>4 DEF InsertEvent, SelectStale, PurgeStale, Continue, Note
<1>5. ASSUME Reply(q, "stored")
      PROVE  answer'[q].digest = call[q].digest /\ answer'[q].idem = call[q].idem
  BY <1>1, <1>5 DEF Reply
<1>6. ASSUME NEW r \in Reqs, NEW c \in Calls, Receive(r, c) \/ Refuse(r, c) PROVE Goal
  BY <1>1, <1>6 DEF Receive, Refuse, NoAnswer
<1>7. UNCHANGED answer => Goal
  OBVIOUS
<1>8. ASSUME NEW r \in Reqs, RequestStep(r)
      PROVE  \/ Goal
             \/ /\ InsertEvent(q) \/ SelectStale(q) \/ PurgeStale(q)
                /\ answer'[q].digest = call[q].digest /\ answer'[q].idem = call[q].idem
  <2>1. CASE HandlerStep(r)
    <3>1. CASE InsertEvent(r) \/ SelectStale(r) \/ PurgeStale(r)
      BY <1>2, <1>4, <1>5, <1>7, <3>1
    <3>2. CASE ~(InsertEvent(r) \/ SelectStale(r) \/ PurgeStale(r))
      BY <1>2, <1>3, <1>7, <2>1, <3>2
    <3> QED
      BY <3>1, <3>2
  <2>2. CASE Abort(r)
    BY <1>7, <2>2 DEF Abort
  <2> QED
    BY <1>6, <1>8, <2>1, <2>2 DEF RequestStep
<1> QED
  BY <1>7, <1>8
  DEF Next, PendingGC, Environment, PutObject, PutPart, PresignPart, CreateApp, LegacyInsert, vars,
      handler

\* A handler goes on with the request it was called with.
LEMMA NextCallKept ==
    ASSUME RowInv, [Next]_vars, NEW q \in Reqs, pc[q] # "done", pc'[q] # "done"
    PROVE  call'[q] = call[q]
<1>1. pc \in [Reqs -> Steps] /\ call \in [Reqs -> Calls \cup {NoCall}]
  BY DEF RowInv, TypeInv, TypeOK
<1>2. ASSUME NEW r \in Reqs, NEW code, Reply(r, code) PROVE call'[q] = call[q]
  BY <1>1, <1>2 DEF Reply
<1>3. ASSUME NEW r \in Reqs, HandlerStep(r) PROVE UNCHANGED call \/ \E code : Reply(r, code)
  BY <1>3
  DEF HandlerStep, PresignStep, CheckStep, StoreStep, MultipartStep, PresignLookup, PresignLink,
      PresignInsert, LinkApp, CompleteRow, CheckRowKey, Backfill, VerifySize,
      VerifyContent, CheckKeyFree, QuotaCount, QuotaBytes, FinalizePending, InsertStored,
      RefuseTakenDigest, FinalizeMultipart, InsertEvent, SelectStale, LogRetention,
      PurgeStale, InitStatus, CreateUpload, UpsertUpload, MultipartRow, Assemble,
      Continue, Note
<1>4. ASSUME NEW r \in Reqs, (\E c \in Calls : Receive(r, c) \/ Refuse(r, c)) \/ Abort(r)
      PROVE  call'[q] = call[q]
  BY <1>1, <1>4 DEF Receive, Refuse, Abort
<1>5. ASSUME NEW r \in Reqs, RequestStep(r) PROVE call'[q] = call[q]
  BY <1>2, <1>3, <1>4, <1>5 DEF RequestStep
<1> QED
  BY <1>5
  DEF Next, PendingGC, Environment, PutObject, PutPart, PresignPart, CreateApp, LegacyInsert, vars,
      handler

LEMMA HeldInvNext ==
    OneKeyOfDigest /\ RowInv /\ DurableInv /\ KeyInv /\ [Next]_vars => HeldInv'
<1> SUFFICES ASSUME OneKeyOfDigest, RowInv, DurableInv, KeysSent, HeldInv, [Next]_vars,
                    Retain = 0, NEW q \in Reqs
             PROVE  /\ answer'[q].code = "stored" => Holds(answer[q].digest, answer[q].idem)'
                    /\ pc'[q] = "event" => Holds(call[q].digest, call[q].idem)'
  BY DEF HeldInv, KeyInv
<1>1. KeysStay
  BY NextKeysStay
<1>2. ASSUME NEW d, NEW key, StoredNow(d), Holds(d, key) PROVE key # None => artifacts'[d].idem = key
  BY <1>1, <1>2 DEF KeysStay, Holds, StoredNow
<1>3. pc[q] = "event" => StoredNow(call[q].digest) /\ Holds(call[q].digest, call[q].idem)
  BY DEF HeldInv, DurableInv
<1>4. ASSUME answer'[q].code = "stored", answer'[q].idem # None
      PROVE  artifacts'[answer'[q].digest].idem = answer'[q].idem
  <2>1. CASE answer'[q] = answer[q]
    <3>1. StoredNow(answer[q].digest) /\ Holds(answer[q].digest, answer[q].idem)
      BY <1>4, <2>1 DEF HeldInv, DurableInv, DurableCodes
    <3> QED
      BY <1>2, <1>4, <2>1, <3>1
  <2>2. CASE /\ InsertEvent(q) \/ SelectStale(q) \/ PurgeStale(q)
             /\ answer'[q].digest = call[q].digest /\ answer'[q].idem = call[q].idem
    <3>1. pc[q] = "event"
      BY <2>2 DEF InsertEvent, SelectStale, PurgeStale, Query, DurableInv
    <3> QED
      BY <1>2, <1>3, <1>4, <2>2, <3>1
  <2> QED
    BY <1>4, <2>1, <2>2, NextAnswers
<1>5. ASSUME pc'[q] = "event", call'[q].idem # None
      PROVE  artifacts'[call'[q].digest].idem = call'[q].idem
  <2>1. CASE pc[q] = "event"
    <3>1. call'[q] = call[q]
      BY <1>5, <2>1, NextCallKept
    <3> QED
      BY <1>2, <1>3, <1>5, <2>1, <3>1
  <2>2. CASE FinalizePending(q) \/ FinalizeMultipart(q) \/ InsertStored(q)
    <3>1. call'[q] = call[q]
      BY <1>5, <2>2, NextCallKept
      DEF FinalizePending, FinalizeMultipart, InsertStored, RefuseTakenDigest, Query
    <3> QED
      BY <1>5, <2>2, <3>1, StoresHeld
  <2> QED
    BY <1>5, <2>1, <2>2, NextTells DEF Told
<1> QED
  BY <1>4, <1>5 DEF Holds

\* Under the one assumption that no digest is completed with two keys, a client that was
\* answered "stored" can count on its key: the row has it, and nobody was told that another
\* digest is stored with it.
THEOREM KeysHonoured == ASSUME OneKeyOfDigest PROVE Spec => []KeyHonoured
<1>1. Init => DurableInv /\ KeyInv
  BY DEF Init, DurableInv, KeyInv, KeysSent, HeldInv, NoAnswer, DurableCodes, NoRow
<1>2. RowInv /\ DurableInv /\ KeyInv => KeyHonoured
  <2> SUFFICES ASSUME RowInv, DurableInv, KeyInv, Retain = 0, NEW r \in Reqs, NEW q \in Reqs,
                      answer[r].code = "stored", answer[r].idem # None
               PROVE  /\ artifacts[answer[r].digest].idem = answer[r].idem
                      /\ answer[q].code = "stored" /\ answer[q].idem = answer[r].idem
                           => answer[q].digest = answer[r].digest
    BY DEF KeyHonoured
  <2>1. StoredNow(answer[r].digest) /\ artifacts[answer[r].digest].idem = answer[r].idem
    BY DEF KeyInv, HeldInv, Holds, DurableInv, DurableCodes
  <2>2. ASSUME answer[q].code = "stored", answer[q].idem = answer[r].idem
        PROVE  StoredNow(answer[q].digest) /\ artifacts[answer[q].digest].idem = answer[q].idem
    BY <2>2 DEF KeyInv, HeldInv, Holds, DurableInv, DurableCodes
  <2> QED
    BY <2>1, <2>2 DEF RowInv, RowsWellFormed, StoredNow
<1>3. RowInv /\ DurableInv /\ KeyInv /\ [Next]_vars => KeyInv'
  BY KeysSentNext, HeldInvNext DEF KeyInv
<1> QED
  BY <1>1, <1>2, <1>3, DurableNext, RowInvInvariant, PTL DEF Spec

-----------------------------------------------------------------------------
(***************************************************************************)
(* A refusal for an idempotency key has a cause in what clients send: the  *)
(* key was sent with another digest, or the digest with another key.       *)
(* Nothing else puts a key in the table (KeysSent), and no row but the     *)
(* handler's own, which the UNIQUE index exempts, holds the key of a       *)
(* request that is only repeated.                                          *)
(***************************************************************************)
\* Some client sends the key with another digest, or the digest with another key.
Founded(d, key) ==
    \E c \in Calls : \/ c.idem = key /\ c.digest # d
                     \/ c.digest = d /\ c.idem \notin {None, key}

\* The handler of multipart init has no key to be refused for.
InitsKeyless == \A r \in Reqs : pc[r] = "istatus" => call[r].idem = None

ConflictInv == KeysSent /\ InitsKeyless /\ ConflictsFounded

LEMMA TakenFounded ==
    ASSUME KeysSent, NEW d \in Digests, NEW key, IdemTaken(key, d) PROVE Founded(d, key)
<1>1. PICK e \in Digests \ {d} : artifacts[e].idem = key /\ key # None
  BY DEF IdemTaken
<1> QED
  BY <1>1 DEF KeysSent, Sent, Founded

\* The five statements that refuse a request as a conflict have a cause for it.
LEMMA RefusalFounded ==
    ASSUME RowInv, KeysSent, InitsKeyless, NEW r \in Reqs,
           \/ CheckRowKey(r) \/ CheckKeyFree(r) \/ FinalizePending(r) \/ InsertStored(r)
           \/ InitStatus(r),
           answer'[r] # answer[r], answer'[r].code = "conflict", call[r].idem # None
    PROVE  Founded(call[r].digest, call[r].idem)
<1> DEFINE d == call[r].digest
           key == call[r].idem
           old == artifacts[d]
<1>1. /\ pc[r] # "done" /\ d \in Digests /\ answer \in [Reqs -> Answer]
      /\ artifacts \in [Digests -> Row]
  <2>1. pc[r] # "done"
    BY DEF CheckRowKey, CheckKeyFree, FinalizePending, InsertStored, InitStatus, Query
  <2> QED
    BY <2>1, CallTyped DEF RowInv, TypeInv, TypeOK
<1>2. ASSUME NEW code, Reply(r, code) PROVE code = "conflict"
  BY <1>1, <1>2 DEF Reply
<1>3. ASSUME NEW locals, NEW step, Note(r, locals, step) PROVE FALSE
  BY <1>3 DEF Note
<1>4. ASSUME NEW step, Continue(r, step) PROVE FALSE
  BY <1>3, <1>4 DEF Continue
<1>5. CASE CheckRowKey(r)
  <2>1. old.idem \notin {None, key}
    BY <1>4, <1>5 DEF CheckRowKey, RowOf
  <2> QED
    BY <1>1, <2>1 DEF KeysSent, Sent, Founded
<1>6. CASE CheckKeyFree(r)
  <2>1. IdemTaken(key, d)
    BY <1>3, <1>6 DEF CheckKeyFree
  <2> QED
    BY <1>1, <2>1, TakenFounded
<1>7. CASE InsertStored(r)
  <2>1. IdemTaken(key, d)
    BY <1>2, <1>3, <1>7 DEF InsertStored, RefuseTakenDigest
  <2> QED
    BY <1>1, <2>1, TakenFounded
<1>8. CASE FinalizePending(r)
  <2>1. old.id # 0 /\ IdemTaken(Coalesce(old.idem, key), d)
    BY <1>2, <1>4, <1>8 DEF FinalizePending, RowGone, RowOf
  <2>2. old.status # "absent"
    BY <1>1, <2>1 DEF RowInv, RowsWellFormed
  <2>3. \A e \in Digests \ {d} : old.idem # None => artifacts[e].idem # old.idem
    BY <1>1, <2>2 DEF RowInv, RowsWellFormed
  <2>4. old.idem = None
    BY <2>1, <2>3 DEF Coalesce, IdemTaken
  <2> QED
    BY <1>1, <2>1, <2>4, TakenFounded DEF Coalesce
<1>9. CASE InitStatus(r)
  BY <1>9 DEF InitStatus, Query, InitsKeyless
<1> QED
  BY <1>5, <1>6, <1>7, <1>8, <1>9

\* Nothing else answers that a request conflicts, and the answer has its digest and key.
LEMMA NextRefuses ==
    ASSUME RowInv, [Next]_vars, NEW q \in Reqs
    PROVE  \/ answer'[q] = answer[q] \/ answer'[q].code # "conflict"
           \/ /\ \/ CheckRowKey(q) \/ CheckKeyFree(q) \/ FinalizePending(q) \/ InsertStored(q)
                 \/ InitStatus(q)
              /\ answer'[q].digest = call[q].digest /\ answer'[q].idem = call[q].idem
<1> DEFINE Refusing(r) == \/ CheckRowKey(r) \/ CheckKeyFree(r) \/ FinalizePending(r)
                          \/ InsertStored(r) \/ InitStatus(r)
           Goal == answer'[q] = answer[q] \/ answer'[q].code # "conflict"
<1>1. answer \in [Reqs -> Answer]
  BY DEF RowInv, TypeInv, TypeOK
<1>2. ASSUME NEW r \in Reqs, NEW code, Reply(r, code), r # q \/ code # "conflict" PROVE Goal
  BY <1>1, <1>2 DEF Reply
<1>3. ASSUME NEW r \in Reqs, HandlerStep(r), ~Refusing(r)
      PROVE  UNCHANGED answer \/ \E code : code # "conflict" /\ Reply(r, code)
  BY <1>3
  DEF HandlerStep, PresignStep, CheckStep, StoreStep, MultipartStep, PresignLookup, PresignLink,
      PresignInsert, LinkApp, CompleteRow, Backfill, VerifySize, VerifyContent, QuotaCount,
      QuotaBytes, FinalizeMultipart, InsertEvent, SelectStale, LogRetention, PurgeStale,
      CreateUpload, UpsertUpload, MultipartRow, Assemble, Continue, Note
<1>4. ASSUME NEW r \in Reqs, Refusing(r) PROVE UNCHANGED answer \/ \E code : Reply(r, code)
  BY <1>4
  DEF CheckRowKey, CheckKeyFree, FinalizePending, InsertStored, RefuseTakenDigest, InitStatus,
      Continue, Note
<1>5. ASSUME NEW code, Reply(q, code)
      PROVE  answer'[q].digest = call[q].digest /\ answer'[q].idem = call[q].idem
  BY <1>1, <1>5 DEF Reply
<1>6. ASSUME NEW r \in Reqs, NEW c \in Calls, Receive(r, c) \/ Refuse(r, c) PROVE Goal
  BY <1>1, <1>6 DEF Receive, Refuse, NoAnswer
<1>7. UNCHANGED answer => Goal
  OBVIOUS
<1>8. ASSUME NEW r \in Reqs, RequestStep(r)
      PROVE  \/ Goal
             \/ /\ Refusing(q)
                /\ answer'[q].digest = call[q].digest /\ answer'[q].idem = call[q].idem
  <2> HIDE DEF Goal, Refusing
  <2>1. CASE HandlerStep(r)
    BY <1>2, <1>3, <1>4, <1>5, <1>7, <2>1
  <2>2. CASE Abort(r)
    BY <1>7, <2>2 DEF Abort
  <2> QED
    BY <1>6, <1>8, <2>1, <2>2 DEF RequestStep
<1> QED
  BY <1>7, <1>8
  DEF Next, PendingGC, Environment, PutObject, PutPart, PresignPart, CreateApp, LegacyInsert, vars,
      handler

LEMMA InitsKeylessNext == RowInv /\ InitsKeyless /\ [Next]_vars => InitsKeyless'
<1> SUFFICES ASSUME RowInv, InitsKeyless, [Next]_vars, NEW q \in Reqs, pc'[q] = "istatus"
             PROVE  call'[q].idem = None
  BY DEF InitsKeyless
<1>1. pc \in [Reqs -> Steps] /\ call \in [Reqs -> Calls \cup {NoCall}]
  BY DEF RowInv, TypeInv, TypeOK
<1>2. CASE pc[q] = "istatus"
  BY <1>2, NextCallKept DEF InitsKeyless
<1>3. ASSUME pc[q] # "istatus", NEW c \in Calls, Receive(q, c) PROVE call'[q].idem = None
  <2>1. FirstStep(c.kind) = "istatus" /\ call'[q] = c
    BY <1>1, <1>3 DEF Receive, Goto
  <2>2. c.kind = "init"
    BY <2>1, ConstantsAssumption DEF Call, Kinds, FirstStep
  <2> QED
    BY <2>1, <2>2, ConstantsAssumption
<1>4. ASSUME NEW r \in Reqs, NEW code, Reply(r, code), pc[q] # "istatus" PROVE FALSE
  BY <1>1, <1>4 DEF Reply
<1>5. ASSUME NEW r \in Reqs, NEW locals, NEW step, step # "istatus", Note(r, locals, step),
             pc[q] # "istatus"
      PROVE  FALSE
  BY <1>1, <1>5 DEF Note, Goto
<1>6. \A linked : AfterChecks(linked) # "istatus"
  BY DEF AfterChecks
<1>7. ASSUME NEW r \in Reqs, HandlerStep(r), pc[q] # "istatus" PROVE FALSE
  BY <1>4, <1>5, <1>6, <1>7
  DEF HandlerStep, PresignStep, CheckStep, StoreStep, MultipartStep, PresignLookup, PresignLink,
      PresignInsert, LinkApp, CompleteRow, CheckRowKey, Backfill, VerifySize, VerifyContent,
      CheckKeyFree, QuotaCount, QuotaBytes, FinalizePending, InsertStored, RefuseTakenDigest,
      FinalizeMultipart, InsertEvent, SelectStale, LogRetention, PurgeStale, InitStatus,
      CreateUpload, UpsertUpload, MultipartRow, Assemble, Continue
<1>8. ASSUME NEW r \in Reqs, NEW c \in Calls, Receive(r, c), r # q, pc[q] # "istatus" PROVE FALSE
  BY <1>1, <1>8 DEF Receive, Goto
<1>9. ASSUME NEW r \in Reqs, Abort(r), pc[q] # "istatus" PROVE FALSE
  BY <1>1, <1>9 DEF Abort
<1>10. UNCHANGED pc /\ pc[q] # "istatus" => FALSE
  OBVIOUS
<1> QED
  BY <1>2, <1>3, <1>7, <1>8, <1>9, <1>10
  DEF Next, RequestStep, Refuse, PendingGC, Environment, PutObject, PutPart, PresignPart,
      CreateApp, LegacyInsert, vars, handler

LEMMA ConflictsFoundedNext ==
    RowInv /\ ConflictInv /\ [Next]_vars => ConflictsFounded'
<1> SUFFICES ASSUME RowInv, KeysSent, InitsKeyless, ConflictsFounded, [Next]_vars,
                    NEW q \in Reqs, answer'[q].code = "conflict", answer'[q].idem # None
             PROVE  Founded(answer'[q].digest, answer'[q].idem)
  BY DEF ConflictInv, ConflictsFounded, Founded
<1>1. CASE answer'[q] = answer[q]
  BY <1>1 DEF ConflictsFounded, Founded
<1>2. CASE answer'[q] # answer[q]
  BY <1>2, NextRefuses, RefusalFounded
<1> QED
  BY <1>1, <1>2

\* For every population of clients, a completion is refused for its idempotency key only if
\* some client sends the key with another digest, or the digest with another key.
THEOREM ConflictsJustified == Spec => []ConflictsFounded
<1>1. Init => ConflictInv
  BY DEF Init, ConflictInv, KeysSent, InitsKeyless, ConflictsFounded, NoAnswer, NoRow
<1>2. RowInv /\ ConflictInv /\ [Next]_vars => ConflictInv'
  BY KeysSentNext, InitsKeylessNext, ConflictsFoundedNext DEF ConflictInv
<1>3. ConflictInv => ConflictsFounded
  BY DEF ConflictInv
<1> QED
  BY <1>1, <1>2, <1>3, RowInvInvariant, PTL DEF Spec

-----------------------------------------------------------------------------
(***************************************************************************)
(* A request ends after a bounded number of statements, whatever the other *)
(* requests and the GC do in between.  The statements of a handler are in  *)
(* an order that no branch takes backwards; the one loop is retention's,   *)
(* and what it has still to log (Unlogged) cannot grow: the ids it         *)
(* selected are never given to new rows (LifeInv), and an event goes only  *)
(* together with its row.                                                  *)
(***************************************************************************)
\* Statements in the order in which a handler runs them.
Onward(here, there) == StatementsFrom[there] < StatementsFrom[here]

\* The bound of a handler at a given statement, with so many rows still to log.
Bound(step, unlogged) ==
    StatementsFrom[step] + (IF step = "log" THEN unlogged
                            ELSE IF step \in {"purge", "done"} THEN 0 ELSE Cardinality(Digests))

LEMMA BoundOf == ASSUME NEW r \in Reqs PROVE StatementsLeft(r) = Bound(pc[r], Cardinality(Unlogged(r)))
BY DEF StatementsLeft, Bound

LEMMA StatementsTyped ==
    \A step \in Steps : /\ StatementsFrom[step] \in 0..15
                        /\ step # "done" => StatementsFrom[step] > 0
BY DEF Steps, PresignSteps, HeldSteps, StatementsFrom

LEMMA UnloggedFinite ==
    ASSUME NEW r \in Reqs, NEW S, S \subseteq Unlogged(r)
    PROVE  /\ IsFiniteSet(S) /\ Cardinality(S) \in Nat /\ Cardinality(S) <= Cardinality(Digests)
           /\ Cardinality(S) <= Cardinality(Unlogged(r))
           /\ IsFiniteSet(Unlogged(r)) /\ Cardinality(Unlogged(r)) \in Nat
           /\ Cardinality(Digests) \in Nat
<1>1. Unlogged(r) \subseteq Digests /\ IsFiniteSet(Digests)
  BY ConstantsAssumption DEF Unlogged
<1>2. IsFiniteSet(Unlogged(r))
  BY <1>1, FS_Subset
<1> QED
  BY <1>1, <1>2, FS_Subset, FS_CardinalityType

\* Going on to a later statement, or to the answer, brings the handler nearer to it.
LEMMA OnwardNearer ==
    ASSUME NEW here \in Steps, NEW there \in Steps, NEW m \in Nat, NEW n \in Nat,
           n <= Cardinality(Digests), Cardinality(Digests) \in Nat, here # "done",
           \/ there = "done"
           \/ here \notin {"purge", "log"} /\ Onward(here, there)
           \/ here = "log" /\ there = "purge"
           \/ here = "log" /\ there = "log" /\ n < m
    PROVE  Bound(there, n) < Bound(here, m)
<1>1. StatementsFrom["done"] = 0 /\ StatementsFrom["purge"] = 1 /\ StatementsFrom["log"] = 2
  BY DEF StatementsFrom
<1>2. /\ StatementsFrom[here] \in Nat /\ StatementsFrom[here] > 0
      /\ StatementsFrom[there] \in Nat
  BY StatementsTyped
<1>3. CASE there = "done"
  BY <1>1, <1>2, <1>3 DEF Bound
<1>4. CASE here \notin {"purge", "log"} /\ Onward(here, there)
  BY <1>1, <1>2, <1>4 DEF Bound, Onward
<1>5. CASE here = "log" /\ there \in {"purge", "log"}
  BY <1>1, <1>5 DEF Bound
<1> QED
  BY <1>3, <1>4, <1>5

\* Rows that a handler has still to log do not appear while its selection stands.
LEMMA UnloggedShrinks ==
    ASSUME LifeInv, [Next]_vars, NEW r \in Reqs, seen'[r] = seen[r]
    PROVE  Unlogged(r)' \subseteq Unlogged(r)
<1> DEFINE ids == seen[r].stale
<1>1. artifacts \in [Digests -> Row] /\ rowCount \in Nat
  BY DEF LifeInv, RowInv, TypeInv, TypeOK
<1>2. 0 \notin ids /\ \A i \in ids : i <= rowCount
  BY SelectionsOf DEF Selection
<1>3. seen'[r].stale = ids
  OBVIOUS
<1> HIDE DEF ids
<1>4. ASSUME events \subseteq events',
             \A d \in Digests : artifacts'[d].id \in ids => artifacts'[d].id = artifacts[d].id
      PROVE  Unlogged(r)' \subseteq Unlogged(r)
  BY <1>3, <1>4 DEF Unlogged, RemovalOf, ids
<1>5. CASE UNCHANGED artifacts /\ events \subseteq events'
  BY <1>4, <1>5
<1>6. ASSUME NEW d \in Digests, NEW row \in Row, Inserted(d, row), events' = events
      PROVE  Unlogged(r)' \subseteq Unlogged(r)
  <2> DEFINE new == [row EXCEPT !.id = rowCount + 1]
  <2>1. new.id = rowCount + 1 /\ new.id \notin ids
    BY <1>1, <1>2 DEF Row
  <2>2. artifacts' = [artifacts EXCEPT ![d] = new]
    BY <1>6 DEF Inserted, InsertRow
  <2> HIDE DEF new
  <2> QED
    BY <1>1, <1>4, <1>6, <2>1, <2>2
<1>7. ASSUME NEW d \in Digests, NEW row \in Row, Changed(d, row), events' = events
      PROVE  Unlogged(r)' \subseteq Unlogged(r)
  BY <1>1, <1>4, <1>7 DEF Changed
<1>8. ASSUME NEW gone \in SUBSET Nat, Deleted(gone) PROVE Unlogged(r)' \subseteq Unlogged(r)
  <2>1. NoRow.id = 0
    BY DEF NoRow
  <2>2. \A d \in Digests : artifacts'[d].id \in ids =>
          artifacts'[d].id = artifacts[d].id /\ artifacts[d].id \notin gone
    BY <1>1, <1>2, <1>8, <2>1 DEF Deleted, Delete
  <2>3. \A e \in events : e[1] \notin gone => e \in events'
    BY <1>8 DEF Deleted, Delete
  <2> QED
    BY <1>3, <2>2, <2>3 DEF Unlogged, RemovalOf, ids
<1>9. TableStep
  BY NextTableStep DEF LifeInv
<1> QED
  BY <1>5, <1>6, <1>7, <1>8, <1>9 DEF TableStep, InPlaceStep

\* Every statement leads onward, but for the ones that log.
LEMMA HandlerOnward ==
    ASSUME TypeInv, NEW r \in Reqs, HandlerStep(r), ~LogRetention(r)
    PROVE  pc'[r] = "done" \/ (pc[r] \notin {"purge", "log"} /\ Onward(pc[r], pc'[r]))
<1>1. pc \in [Reqs -> Steps]
  BY DEF TypeInv, TypeOK
<1>2. ASSUME NEW code, Reply(r, code) PROVE pc'[r] = "done"
  BY <1>1, <1>2 DEF Reply
<1>3. ASSUME NEW locals, NEW step, Note(r, locals, step) PROVE pc'[r] = step
  BY <1>1, <1>3 DEF Note, Goto
<1>4. ASSUME NEW step, Continue(r, step) PROVE pc'[r] = step
  BY <1>3, <1>4 DEF Continue
<1>5. /\ Onward("lookup", "link") /\ Onward("link", "insert") /\ Onward("app", "row")
      /\ Onward("row", "idem") /\ Onward("row", "rowkey") /\ Onward("row", "backfill")
      /\ Onward("rowkey", "backfill") /\ Onward("backfill", "size") /\ Onward("size", "hash")
      /\ Onward("count", "bytes") /\ Onward("bytes", "store") /\ Onward("store", "event")
      /\ Onward("event", "retain") /\ Onward("retain", "log") /\ Onward("istatus", "create")
      /\ Onward("create", "upsert") /\ Onward("mrow", "assemble") /\ Onward("assemble", "app")
  BY DEF Onward, StatementsFrom
<1>6. \A linked : \A step \in {"app", "size", "hash", "idem"} : Onward(step, AfterChecks(linked))
  BY DEF Onward, StatementsFrom, AfterChecks
<1>7. CASE PresignStep(r)
  BY <1>2, <1>3, <1>4, <1>5, <1>7
  DEF PresignStep, PresignLookup, PresignLink, PresignInsert
<1>8. CASE CheckStep(r)
  <2>1. CASE LinkApp(r) \/ CompleteRow(r) \/ CheckKeyFree(r)
    BY <1>2, <1>3, <1>4, <1>5, <1>6, <2>1 DEF LinkApp, CompleteRow, CheckKeyFree, Query
  <2>2. CASE CheckRowKey(r) \/ Backfill(r) \/ QuotaCount(r) \/ QuotaBytes(r)
    BY <1>2, <1>3, <1>4, <1>5, <2>2 DEF CheckRowKey, Backfill, QuotaCount, QuotaBytes, Query
  <2>3. CASE VerifySize(r) \/ VerifyContent(r)
    BY <1>2, <1>4, <1>5, <1>6, <2>3 DEF VerifySize, VerifyContent
  <2> QED
    BY <1>8, <2>1, <2>2, <2>3 DEF CheckStep
<1>9. CASE StoreStep(r)
  <2>1. CASE FinalizePending(r) \/ FinalizeMultipart(r) \/ InsertEvent(r) \/ PurgeStale(r)
    BY <1>2, <1>4, <1>5, <2>1
    DEF FinalizePending, FinalizeMultipart, InsertEvent, PurgeStale, Query
  <2>2. CASE InsertStored(r) \/ SelectStale(r)
    BY <1>2, <1>3, <1>5, <2>2 DEF InsertStored, RefuseTakenDigest, SelectStale, Query
  <2> QED
    BY <1>9, <2>1, <2>2 DEF StoreStep
<1>10. CASE MultipartStep(r)
  BY <1>2, <1>3, <1>4, <1>5, <1>10
  DEF MultipartStep, InitStatus, CreateUpload, UpsertUpload, MultipartRow, Assemble, Query
<1> QED
  BY <1>7, <1>8, <1>9, <1>10 DEF HandlerStep

\* The step of a handler brings it nearer to its answer.
LEMMA OwnStepAdvances ==
    ASSUME LifeInv, TypeInv', [Next]_vars, NEW r \in Reqs, HandlerStep(r)
    PROVE  StatementsLeft(r)' < StatementsLeft(r)
<1> DEFINE m == Cardinality(Unlogged(r))
<1>1. /\ TypeInv /\ pc[r] # "done" /\ pc[r] \in Steps /\ pc'[r] \in Steps
      /\ seen \in [Reqs -> Seen] /\ pc \in [Reqs -> Steps]
  BY NotDone DEF LifeInv, RowInv, TypeInv, TypeOK
<1>2. PICK n : n = Cardinality(Unlogged(r))'
  OBVIOUS
<1>3. m \in Nat /\ n \in Nat /\ n <= Cardinality(Digests) /\ Cardinality(Digests) \in Nat
  <2>1. PICK S : S = Unlogged(r)'
    OBVIOUS
  <2>2. S \subseteq Digests /\ IsFiniteSet(Digests)
    BY <2>1, ConstantsAssumption DEF Unlogged
  <2> QED
    BY <1>2, <2>1, <2>2, UnloggedFinite, FS_Subset, FS_CardinalityType
<1>4. StatementsLeft(r)' = Bound(pc'[r], n) /\ StatementsLeft(r) = Bound(pc[r], m)
  BY <1>2 DEF StatementsLeft, Bound
<1> HIDE DEF m
<1>5. CASE ~LogRetention(r)
  <2>1. PICK there : there = pc'[r]
    OBVIOUS
  <2> QED
    BY <1>1, <1>3, <1>4, <1>5, <2>1, HandlerOnward, OnwardNearer
<1>6. ASSUME NEW d \in Unlogged(r), events' = events \cup {RemovalOf(d)}, Continue(r, "log"),
             pc[r] = "log", UNCHANGED artifacts
      PROVE  StatementsLeft(r)' < StatementsLeft(r)
  <2>1. pc'[r] = "log" /\ seen'[r] = seen[r]
    BY <1>1, <1>6 DEF Continue, Note, Goto
  <2>2. PICK S : S = Unlogged(r)'
    OBVIOUS
  <2>3. S \subseteq Unlogged(r) \ {d}
    BY <1>6, <2>1, <2>2 DEF Unlogged, RemovalOf
  <2>4. n < m
    <3>1. IsFiniteSet(Unlogged(r)) /\ IsFiniteSet(Unlogged(r) \ {d})
      BY UnloggedFinite, FS_Subset
    <3>2. Cardinality(Unlogged(r) \ {d}) = m - 1
      BY <3>1, FS_RemoveElement DEF m
    <3>3. Cardinality(S) <= Cardinality(Unlogged(r) \ {d})
      BY <2>3, <3>1, FS_Subset
    <3> QED
      BY <1>2, <1>3, <2>2, <3>2, <3>3
  <2> QED
    BY <1>1, <1>3, <1>4, <1>6, <2>1, <2>4, OnwardNearer
<1>7. CASE LogRetention(r) /\ ~\E d \in Unlogged(r) : Continue(r, "log")
  <2>1. pc[r] = "log" /\ pc'[r] = "purge"
    BY <1>1, <1>7 DEF LogRetention, Query, Continue, Note, Goto
  <2> QED
    BY <1>1, <1>3, <1>4, <2>1, OnwardNearer
<1>8. CASE LogRetention(r) /\ \E d \in Unlogged(r) : Continue(r, "log")
  <2>1. pc[r] = "log" /\ pc'[r] = "log" /\ UNCHANGED artifacts
    BY <1>1, <1>8 DEF LogRetention, Query, Continue, Note, Goto
  <2>2. PICK d \in Unlogged(r) : events' = events \cup {RemovalOf(d)} /\ Continue(r, "log")
    BY <1>1, <1>8, <2>1 DEF LogRetention, Continue, Note, Goto
  <2> QED
    BY <1>6, <2>1, <2>2
<1> QED
  BY <1>5, <1>7, <1>8

\* What others do leaves a request where it is, unless it is cut off.
LEMMA OtherStepsLeave ==
    ASSUME TypeInv, [Next]_vars, NEW r \in Reqs, pc[r] # "done", ~HandlerStep(r)
    PROVE  pc'[r] = "done" \/ (pc'[r] = pc[r] /\ seen'[r] = seen[r])
<1> DEFINE Goal == pc'[r] = "done" \/ (pc'[r] = pc[r] /\ seen'[r] = seen[r])
<1>1. pc \in [Reqs -> Steps] /\ seen \in [Reqs -> Seen]
  BY DEF TypeInv, TypeOK
<1>2. ASSUME NEW q \in Reqs \ {r}, NEW code, Reply(q, code) PROVE Goal
  BY <1>1, <1>2 DEF Reply
<1>3. ASSUME NEW q \in Reqs \ {r}, NEW locals, NEW step, Note(q, locals, step) PROVE Goal
  BY <1>1, <1>3 DEF Note, Goto
<1>4. ASSUME NEW q \in Reqs, HandlerStep(q)
      PROVE  (\E code : Reply(q, code)) \/ \E locals, step : Note(q, locals, step)
  BY <1>4
  DEF HandlerStep, PresignStep, CheckStep, StoreStep, MultipartStep, PresignLookup, PresignLink,
      PresignInsert, LinkApp, CompleteRow, CheckRowKey, Backfill, VerifySize, VerifyContent,
      CheckKeyFree, QuotaCount, QuotaBytes, FinalizePending, InsertStored, RefuseTakenDigest,
      FinalizeMultipart, InsertEvent, SelectStale, LogRetention, PurgeStale, InitStatus,
      CreateUpload, UpsertUpload, MultipartRow, Assemble, Continue
<1>5. ASSUME NEW q \in Reqs, HandlerStep(q) PROVE Goal
  <2>1. q # r
    BY <1>5
  <2> QED
    BY <1>2, <1>3, <1>4, <1>5, <2>1
<1>6. ASSUME NEW q \in Reqs, NEW c \in Calls, Receive(q, c) PROVE Goal
  BY <1>1, <1>6 DEF Receive, Goto
<1>7. ASSUME NEW q \in Reqs, Abort(q) PROVE Goal
  BY <1>1, <1>7 DEF Abort
<1>8. UNCHANGED <<pc, seen>> => Goal
  OBVIOUS
<1> QED
  BY <1>5, <1>6, <1>7, <1>8
  DEF Next, RequestStep, Refuse, PendingGC, Environment, PutObject, PutPart, PresignPart,
      CreateApp, LegacyInsert, vars, handler

LEMMA NextAdvances ==
    ASSUME LifeInv, TypeInv', [Next]_vars, NEW r \in Reqs, pc[r] # "done"
    PROVE  \/ StatementsLeft(r)' < StatementsLeft(r)
           \/ StatementsLeft(r)' = StatementsLeft(r) /\ ~HandlerStep(r)
<1> DEFINE m == Cardinality(Unlogged(r))
<1>1. TypeInv /\ pc[r] \in Steps
  BY DEF LifeInv, RowInv, TypeInv, TypeOK
<1>2. PICK n : n = Cardinality(Unlogged(r))'
  OBVIOUS
<1>3. StatementsLeft(r)' = Bound(pc'[r], n) /\ StatementsLeft(r) = Bound(pc[r], m)
  BY <1>2 DEF StatementsLeft, Bound
<1>4. m \in Nat /\ Cardinality(Digests) \in Nat
  BY UnloggedFinite
<1> HIDE DEF m
<1>5. CASE HandlerStep(r)
  BY <1>5, OwnStepAdvances
<1>6. CASE pc'[r] = "done"
  <2>1. StatementsFrom["done"] = 0 /\ StatementsFrom[pc[r]] \in Nat /\ StatementsFrom[pc[r]] > 0
    BY <1>1, StatementsTyped DEF StatementsFrom
  <2> QED
    BY <1>3, <1>4, <1>6, <2>1 DEF Bound
<1>7. CASE ~HandlerStep(r) /\ pc'[r] = pc[r] /\ seen'[r] = seen[r]
  <2>1. PICK S : S = Unlogged(r)'
    OBVIOUS
  <2>2. n <= m /\ n \in Nat
    BY <1>2, <1>7, <2>1, UnloggedShrinks, UnloggedFinite DEF m
  <2>3. StatementsFrom[pc[r]] \in Nat
    BY <1>1, StatementsTyped
  <2> QED
    BY <1>3, <1>4, <1>7, <2>2, <2>3 DEF Bound
<1> QED
  BY <1>1, <1>5, <1>6, <1>7, OtherStepsLeave

\* Every statement brings its request nearer to the answer, and nothing that others do sets
\* it back: a request ends after at most 15 + Cardinality(Digests) statements.
THEOREM RequestsAdvancing == Spec => RequestsAdvance
<1>1. LifeInv /\ LifeInv' /\ [Next]_vars =>
        [\A r \in Reqs : pc[r] # "done" =>
           \/ StatementsLeft(r)' < StatementsLeft(r)
           \/ StatementsLeft(r)' = StatementsLeft(r) /\ ~HandlerStep(r)]_vars
  BY NextAdvances DEF LifeInv, RowInv
<1> QED
  BY <1>1, LifeInvInvariant, PTL DEF Spec, RequestsAdvance

\* The bound is one: at most 15 + Cardinality(Digests) statements are left to a request, and
\* none exactly when it has ended.
StatementsBounded ==
    \A r \in Reqs : /\ StatementsLeft(r) \in 0..(15 + Cardinality(Digests))
                    /\ StatementsLeft(r) = 0 <=> pc[r] = "done"

\* A request in flight is never further from its end than that, so that together with
\* RequestsAdvancing no request runs for ever, whatever the others do.
THEOREM RequestsBounded == Spec => []StatementsBounded
<1>1. TypeInv => StatementsBounded
  <2> SUFFICES ASSUME TypeInv, NEW r \in Reqs
               PROVE  /\ StatementsLeft(r) \in 0..(15 + Cardinality(Digests))
                      /\ StatementsLeft(r) = 0 <=> pc[r] = "done"
    BY DEF StatementsBounded
  <2> DEFINE m == Cardinality(Unlogged(r))
  <2>1. m \in Nat /\ m <= Cardinality(Digests) /\ Cardinality(Digests) \in Nat
    BY UnloggedFinite
  <2>2. /\ StatementsFrom[pc[r]] \in 0..15 /\ (pc[r] # "done" => StatementsFrom[pc[r]] > 0)
    BY StatementsTyped DEF TypeInv, TypeOK
  <2>3. StatementsFrom["done"] = 0
    BY DEF StatementsFrom
  <2>4. StatementsLeft(r) = Bound(pc[r], m)
    BY BoundOf
  <2> HIDE DEF m
  <2> QED
    BY <2>1, <2>2, <2>3, <2>4 DEF Bound
<1> QED
  BY <1>1, RowInvInvariant, PTL DEF RowInv
===============================================================================
