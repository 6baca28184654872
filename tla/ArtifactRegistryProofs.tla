------------------------- MODULE ArtifactRegistryProofs -----------------------
(***************************************************************************)
(* Type correctness and the integrity of the artifacts table, for every    *)
(* value of the constants.  Every step of the registry does one of four    *)
(* things to the table (TableStep): nothing, it inserts a row whose key is *)
(* free, it changes one row in place, or it deletes rows.  Each of these   *)
(* keeps RowsWellFormed; that a handler's UPDATE by id never touches an    *)
(* absent row needs KnownRow, which says that the handler has read an id.  *)
(***************************************************************************)
EXTENDS ArtifactRegistryProps, TLAPS, FiniteSetTheorems

-----------------------------------------------------------------------------
\* A request in flight has a body, and a multipart completion an upload id.
InFlight ==
    \A r \in Reqs :
        /\ pc[r] # "done" => call[r] \in Calls
        /\ pc[r] \in {"mrow", "assemble"} => call[r].kind = "multipart"

\* A pending row has a storage key.
Keyed == \A d \in Digests : artifacts[d].status = "pending" => artifacts[d].key \in StorageKeys

TypeInv == TypeOK /\ InFlight /\ Keyed

HandlerTypeOK ==
    /\ call \in [Reqs -> Calls \cup {NoCall}]
    /\ pc \in [Reqs -> Steps]
    /\ seen \in [Reqs -> Seen]
    /\ answer \in [Reqs -> Answer]

\* Answering leaves the handler's variables well typed.
LEMMA ReplyTyped ==
    ASSUME HandlerTypeOK, InFlight, NEW r \in Reqs, pc[r] # "done",
           NEW code \in Codes, Reply(r, code)
    PROVE  HandlerTypeOK' /\ InFlight'
<1>1. call[r] \in Calls /\ call[r] \in Call
  BY ConstantsAssumption DEF InFlight
<1>2. [code |-> code, digest |-> call[r].digest, idem |-> call[r].idem] \in Answer
  BY <1>1 DEF Answer, Call
<1>3. Fresh \in Seen
  BY DEF Fresh, Seen
<1> QED
  BY <1>1, <1>2, <1>3 DEF HandlerTypeOK, InFlight, Reply, Steps

\* So does going on to another step with new locals.
LEMMA NoteTyped ==
    ASSUME HandlerTypeOK, InFlight, NEW r \in Reqs, pc[r] # "done",
           NEW locals \in Seen, NEW step \in Steps, Note(r, locals, step),
           step \in {"mrow", "assemble"} => call[r].kind = "multipart"
    PROVE  HandlerTypeOK' /\ InFlight'
BY DEF HandlerTypeOK, InFlight, Note, Goto

LEMMA ContinueTyped ==
    ASSUME HandlerTypeOK, InFlight, NEW r \in Reqs, pc[r] # "done",
           NEW step \in Steps, Continue(r, step),
           step \in {"mrow", "assemble"} => call[r].kind = "multipart"
    PROVE  HandlerTypeOK' /\ InFlight'
<1>1. seen[r] \in Seen
  BY DEF HandlerTypeOK
<1> QED
  BY <1>1, NoteTyped DEF Continue

\* A SELECT whose errors are dropped answers yes or no.
LEMMA LearnedBoolean ==
    ASSUME NEW truth \in BOOLEAN, NEW failing PROVE Learned(truth, failing) \subseteq BOOLEAN
BY DEF Learned

\* What the handler learns of its application decides where it goes.
LEMMA LinkAppNotes ==
    ASSUME NEW r \in Reqs, LinkApp(r)
    PROVE  \E linked \in BOOLEAN :
             Note(r, [seen[r] EXCEPT !.linked = linked],
                  IF call[r].kind = "multipart" THEN AfterChecks(linked) ELSE "row")
<1> DEFINE known == call[r].app \in registered
<1>1. \E linked \in Learned(known, Fails(r)) :
        Note(r, [seen[r] EXCEPT !.linked = linked],
             IF call[r].kind = "multipart" THEN AfterChecks(linked) ELSE "row")
  BY DEF LinkApp
<1>2. known \in BOOLEAN
  OBVIOUS
<1> HIDE DEF known
<1>3. Learned(known, Fails(r)) \subseteq BOOLEAN
  BY <1>2, LearnedBoolean
<1> QED
  BY <1>1, <1>3

LEMMA LinkAppGoes ==
    ASSUME NEW r \in Reqs, LinkApp(r)
    PROVE  \E locals : \E step \in {"row", "count", "store"} : Note(r, locals, step)
<1>1. PICK linked \in BOOLEAN :
        Note(r, [seen[r] EXCEPT !.linked = linked],
             IF call[r].kind = "multipart" THEN AfterChecks(linked) ELSE "row")
  BY LinkAppNotes
<1> DEFINE step == IF call[r].kind = "multipart" THEN AfterChecks(linked) ELSE "row"
<1>2. step \in {"row", "count", "store"}
  BY DEF AfterChecks
<1>3. Note(r, [seen[r] EXCEPT !.linked = linked], step)
  BY <1>1
<1> HIDE DEF step
<1> QED
  BY <1>2, <1>3

LEMMA PresignLinkNotes ==
    ASSUME NEW r \in Reqs, PresignLink(r)
    PROVE  \E linked \in BOOLEAN : Note(r, [seen[r] EXCEPT !.linked = linked], "insert")
BY LearnedBoolean DEF PresignLink

\* A completion without a row learns whether its signature is good.
LEMMA CheckKeyFreeNotes ==
    ASSUME NEW r \in Reqs, call[r].signed \in BOOLEAN, CheckKeyFree(r)
    PROVE  \/ Reply(r, "conflict") /\ IdemTaken(call[r].idem, call[r].digest)
           \/ \E verified \in BOOLEAN :
                Note(r, [seen[r] EXCEPT !.verified = verified], AfterChecks(seen[r].linked))
BY LearnedBoolean DEF CheckKeyFree

\* Every statement of a handler leaves the handlers' variables well typed.
LEMMA HandlerStepTyped ==
    ASSUME TypeInv, NEW r \in Reqs, HandlerStep(r)
    PROVE  HandlerTypeOK' /\ InFlight'
<1> USE DEF TypeInv, Steps, PresignSteps, HeldSteps, Codes
<1>1. HandlerTypeOK /\ InFlight /\ seen[r] \in Seen
  BY DEF TypeOK, HandlerTypeOK
<1>2. (call[r].digest \in Digests /\ RowOf(call[r]) \in Row) \/ pc[r] = "done"
  BY ConstantsAssumption DEF InFlight, Call, RowOf, TypeOK
<1>3. ASSUME NEW linked PROVE AfterChecks(linked) \in {"count", "store"}
  BY DEF AfterChecks
<1>4. CASE PresignLookup(r)
  BY <1>1, <1>4, ReplyTyped, ContinueTyped DEF PresignLookup
<1>5. CASE PresignLink(r)
  <2>1. ASSUME NEW linked \in BOOLEAN PROVE [seen[r] EXCEPT !.linked = linked] \in Seen
    BY <1>1 DEF Seen
  <2>2. PICK linked \in BOOLEAN : Note(r, [seen[r] EXCEPT !.linked = linked], "insert")
    BY <1>5, PresignLinkNotes
  <2>3. pc[r] = "link"
    BY <1>5 DEF PresignLink
  <2> QED
    BY <1>1, <2>1, <2>2, <2>3, NoteTyped
<1>6. CASE PresignInsert(r)
  BY <1>1, <1>6, ReplyTyped DEF PresignInsert
<1>7. CASE LinkApp(r)
  <2>1. PICK linked \in BOOLEAN :
          Note(r, [seen[r] EXCEPT !.linked = linked],
               IF call[r].kind = "multipart" THEN AfterChecks(linked) ELSE "row")
    BY <1>7, LinkAppNotes
  <2>2. pc[r] = "app"
    BY <1>7 DEF LinkApp, Query
  <2>3. [seen[r] EXCEPT !.linked = linked] \in Seen
    BY <1>1 DEF Seen
  <2> QED
    BY <1>1, <1>3, <2>1, <2>2, <2>3, NoteTyped
<1>8. CASE CompleteRow(r)
  <2>1. pc[r] = "row"
    BY <1>8 DEF CompleteRow, Query
  <2>2. [seen[r] EXCEPT !.row = RowOf(call[r]).id, !.key = RowOf(call[r]).key] \in Seen
    BY <1>1, <1>2, <2>1 DEF Seen, Row
  <2> QED
    BY <1>1, <1>8, <2>1, <2>2, NoteTyped, ReplyTyped, ContinueTyped DEF CompleteRow
<1>9. CASE CheckRowKey(r)
  BY <1>1, <1>9, ReplyTyped, ContinueTyped DEF CheckRowKey, Query
<1>10. CASE Backfill(r)
  BY <1>1, <1>10, ContinueTyped DEF Backfill, Query
<1>11. CASE VerifySize(r)
  BY <1>1, <1>3, <1>11, ReplyTyped, ContinueTyped DEF VerifySize
<1>12. CASE VerifyContent(r)
  BY <1>1, <1>3, <1>12, ReplyTyped, ContinueTyped DEF VerifyContent
<1>13. CASE CheckKeyFree(r)
  <2>1. ASSUME NEW verified \in BOOLEAN PROVE [seen[r] EXCEPT !.verified = verified] \in Seen
    BY <1>1 DEF Seen
  <2>2. \/ Reply(r, "conflict")
        \/ \E verified \in BOOLEAN :
             Note(r, [seen[r] EXCEPT !.verified = verified], AfterChecks(seen[r].linked))
    BY <1>1, <1>13, CheckKeyFreeNotes, ConstantsAssumption DEF CheckKeyFree, Query, InFlight, Call
  <2>3. pc[r] = "idem"
    BY <1>13 DEF CheckKeyFree, Query
  <2> QED
    BY <1>1, <1>3, <2>1, <2>2, <2>3, ReplyTyped, NoteTyped
<1>14. CASE QuotaCount(r)
  <2>1. [seen[r] EXCEPT !.counted = TRUE] \in Seen
    BY <1>1 DEF Seen
  <2> QED
    BY <1>1, <1>14, <2>1, ReplyTyped, NoteTyped, ContinueTyped DEF QuotaCount, Query
<1>15. CASE QuotaBytes(r)
  BY <1>1, <1>15, ReplyTyped, ContinueTyped DEF QuotaBytes, Query
<1>16. CASE FinalizePending(r)
  BY <1>1, <1>16, ReplyTyped, ContinueTyped DEF FinalizePending, Query
<1>17. CASE InsertStored(r)
  <2>1. [seen[r] EXCEPT !.row = rowCount + 1] \in Seen
    BY <1>1 DEF Seen, TypeOK
  <2> QED
    BY <1>1, <1>17, <2>1, ReplyTyped, NoteTyped DEF InsertStored, RefuseTakenDigest, Query
<1>18. CASE FinalizeMultipart(r)
  BY <1>1, <1>18, ReplyTyped, ContinueTyped DEF FinalizeMultipart, Query
<1>19. CASE InsertEvent(r)
  BY <1>1, <1>19, ReplyTyped, ContinueTyped DEF InsertEvent, Query
<1>20. CASE SelectStale(r)
  <2>1. StaleOf(call[r].app) \subseteq Nat
    BY DEF StaleOf, StoredOf, TypeOK, Row
  <2>2. [seen[r] EXCEPT !.stale = StaleOf(call[r].app)] \in Seen
    BY <1>1, <2>1 DEF Seen
  <2> QED
    BY <1>1, <1>20, <2>2, ReplyTyped, NoteTyped DEF SelectStale, Query
<1>21. CASE LogRetention(r)
  BY <1>1, <1>21, ContinueTyped DEF LogRetention, Query
<1>22. CASE PurgeStale(r)
  BY <1>1, <1>22, ReplyTyped DEF PurgeStale, Query
<1>23. CASE InitStatus(r)
  BY <1>1, <1>23, ReplyTyped, ContinueTyped DEF InitStatus, Query
<1>24. CASE CreateUpload(r)
  <2>1. ASSUME NEW u \in Uploads PROVE [seen[r] EXCEPT !.upload = u] \in Seen
    BY <1>1 DEF Seen
  <2> QED
    BY <1>1, <1>24, <2>1, ReplyTyped, NoteTyped DEF CreateUpload
<1>25. CASE UpsertUpload(r)
  BY <1>1, <1>25, ReplyTyped DEF UpsertUpload, Query
<1>26. CASE MultipartRow(r)
  <2>1. pc[r] = "mrow"
    BY <1>26 DEF MultipartRow, Query
  <2>2. [seen[r] EXCEPT !.row = RowOf(call[r]).id, !.key = RowOf(call[r]).key] \in Seen
    BY <1>1, <1>2, <2>1 DEF Seen, Row
  <2> QED
    BY <1>1, <1>26, <2>1, <2>2, NoteTyped, ReplyTyped DEF MultipartRow, InFlight
<1>27. CASE Assemble(r)
  BY <1>1, <1>27, ReplyTyped, ContinueTyped DEF Assemble
<1> QED
  BY <1>4, <1>5, <1>6, <1>7, <1>8, <1>9, <1>10, <1>11, <1>12, <1>13, <1>14, <1>15, <1>16,
     <1>17, <1>18, <1>19, <1>20, <1>21, <1>22, <1>23, <1>24, <1>25, <1>26, <1>27
  DEF HandlerStep, PresignStep, CheckStep, StoreStep, MultipartStep

-----------------------------------------------------------------------------
(***************************************************************************)
(* What a step does to the artifacts table: nothing, or it inserts a row,  *)
(* changes one in place, or deletes some.                                  *)
(***************************************************************************)
\* Handlers that go on to update a row by its id have read one.
KnownRow ==
    \A r \in Reqs :
        /\ pc[r] \in {"rowkey", "backfill", "size", "hash", "assemble", "event"} => seen[r].row # 0
        /\ call[r].kind = "multipart" /\ pc[r] \in {"app", "row", "idem", "count", "bytes", "store"}
             => seen[r].row # 0
        /\ 0 \notin seen[r].stale

RowInv == TypeInv /\ RowsWellFormed /\ KnownRow

\* The row of digest d has a key that names d, or is one of POST /artifacts.
KeyFits(row, d) ==
    \/ row.key \in Apps \X {d}
    \/ row.key = None /\ row.status = "stored" /\ \E c \in Legacy : c.digest = d

WellKeyed(row, d) ==
    /\ row \in Row
    /\ row.status \in {"pending", "stored"}
    /\ KeyFits(row, d)

Inserted(d, row) ==
    /\ artifacts[d].status = "absent"
    /\ WellKeyed(row, d)
    /\ ~IdemTaken(row.idem, d)
    /\ InsertRow(d, row)

Changed(d, row) ==
    /\ artifacts[d].status # "absent"
    /\ WellKeyed(row, d)
    /\ row.id = artifacts[d].id
    /\ artifacts[d].status = "stored" => row.status = "stored"
    /\ artifacts[d].idem # None => row.idem = artifacts[d].idem
    /\ row.idem = artifacts[d].idem \/ ~IdemTaken(row.idem, d)
    /\ artifacts' = [artifacts EXCEPT ![d] = row]
    /\ rowCount' = rowCount

Deleted(gone) ==
    /\ 0 \notin gone
    /\ Delete(gone)
    /\ rowCount' = rowCount

\* Events are added about rows that exist.
EventsOfRows ==
    \A e \in events' \ events :
        /\ e \in Nat \X {"stored", "retention_delete"}
        /\ \E d \in Digests : artifacts[d].status # "absent" /\ artifacts[d].id = e[1]

InPlaceStep ==
    \/ UNCHANGED <<artifacts, rowCount>> /\ events \subseteq events' /\ EventsOfRows
    \/ \E d \in Digests, row \in Row : (Inserted(d, row) \/ Changed(d, row)) /\ events' = events

TableStep == InPlaceStep \/ \E gone \in SUBSET Nat : Deleted(gone)

\* A request in flight names a digest, and its own storage key is well typed.
LEMMA CallTyped ==
    ASSUME TypeInv, NEW r \in Reqs, pc[r] # "done"
    PROVE  /\ call[r] \in Call
           /\ call[r].digest \in Digests
           /\ OwnKey(call[r]) \in Apps \X {call[r].digest}
           /\ OwnKey(call[r]) \in StorageKeys
           /\ AppOf(r) \in Apps \cup {None}
           /\ RowOf(call[r]) \in Row
<1>1. call[r] \in Call
  BY ConstantsAssumption DEF TypeInv, InFlight
<1> QED
  BY <1>1 DEF Call, TypeInv, TypeOK, OwnKey, StorageKeys, AppOf, RowOf

\* The storage key of every row fits it.
LEMMA KeysFit ==
    ASSUME RowsWellFormed, NEW d \in Digests, artifacts[d].status # "absent"
    PROVE  KeyFits(artifacts[d], d)
BY DEF RowsWellFormed, KeyFits

LEMMA HandlerTableStep ==
    ASSUME RowInv, NEW r \in Reqs, HandlerStep(r)
    PROVE  /\ TableStep /\ registered' = registered
           /\ pc[r] # "purge" => InPlaceStep
<1> DEFINE c == call[r]
<1>1. pc[r] # "done"
  BY
  DEF HandlerStep, PresignStep, CheckStep, StoreStep, MultipartStep, PresignLookup, PresignLink,
      PresignInsert, LinkApp, CompleteRow, CheckRowKey, Backfill, VerifySize, VerifyContent,
      CheckKeyFree, QuotaCount, QuotaBytes, FinalizePending, InsertStored, RefuseTakenDigest,
      FinalizeMultipart, InsertEvent, SelectStale, LogRetention, PurgeStale, InitStatus,
      CreateUpload, UpsertUpload, MultipartRow, Assemble, Query
<1>2. /\ c \in Call /\ c.digest \in Digests /\ OwnKey(c) \in Apps \X {c.digest}
      /\ OwnKey(c) \in StorageKeys /\ AppOf(r) \in Apps \cup {None} /\ RowOf(c) \in Row
  BY <1>1, CallTyped DEF RowInv
<1>3. /\ artifacts \in [Digests -> Row] /\ rowCount \in Nat
      /\ RowsWellFormed /\ KnownRow /\ seen[r] \in Seen
  BY DEF RowInv, TypeInv, TypeOK
<1>4. RowOf(c) = artifacts[c.digest]
  BY DEF RowOf
<1>5. NoRow \in Row
  BY DEF NoRow, Row, Statuses
<1>10. CASE \/ PresignLookup(r) \/ PresignLink(r) \/ LinkApp(r) \/ CompleteRow(r)
            \/ CheckRowKey(r) \/ VerifySize(r) \/ VerifyContent(r) \/ CheckKeyFree(r)
            \/ QuotaCount(r) \/ QuotaBytes(r) \/ SelectStale(r) \/ InitStatus(r)
            \/ CreateUpload(r) \/ MultipartRow(r) \/ Assemble(r)
  BY <1>10 DEF PresignLookup, PresignLink, LinkApp, CompleteRow, CheckRowKey, VerifySize,
         VerifyContent, CheckKeyFree, QuotaCount, QuotaBytes, SelectStale, InitStatus,
         CreateUpload, MultipartRow, Assemble, TableStep, InPlaceStep, EventsOfRows, db
<1>6. \A d \in Digests : artifacts[d].id \in Nat /\ (artifacts[d].id # 0 <=> artifacts[d].status # "absent")
  BY <1>3 DEF RowsWellFormed, Row
<1>11. CASE InsertEvent(r)
  <2>1. UNCHANGED <<artifacts, rowCount, registered>> /\ seen[r].row # 0
    BY <1>3, <1>11 DEF InsertEvent, Query, KnownRow
  <2>2. CASE RowOf(c).id = seen[r].row /\ events' = events \cup {<<seen[r].row, "stored">>}
    BY <1>2, <1>3, <1>4, <1>6, <2>1, <2>2 DEF TableStep, InPlaceStep, EventsOfRows
  <2>3. CASE UNCHANGED events
    BY <2>1, <2>3 DEF TableStep, InPlaceStep, EventsOfRows
  <2> QED
    BY <1>11, <2>2, <2>3 DEF InsertEvent
<1>19. CASE LogRetention(r)
  <2>1. UNCHANGED <<artifacts, rowCount, registered>> /\ 0 \notin seen[r].stale
    BY <1>3, <1>19 DEF LogRetention, KnownRow
  <2>2. /\ events \subseteq events'
        /\ \A e \in events' \ events : \E d \in Digests :
             artifacts[d].id \in seen[r].stale /\ e = <<artifacts[d].id, "retention_delete">>
    BY <1>19 DEF LogRetention, RemovalOf, Unlogged
  <2>3. EventsOfRows
    BY <1>6, <2>1, <2>2 DEF EventsOfRows
  <2> QED
    BY <2>1, <2>2, <2>3 DEF TableStep, InPlaceStep
<1>12. CASE PresignInsert(r)
  <2> DEFINE row == PendingRow(AppOf(r), OwnKey(c), None)
  <2>1. WellKeyed(row, c.digest) /\ ~IdemTaken(row.idem, c.digest)
    BY <1>2, <1>5 DEF WellKeyed, KeyFits, PendingRow, IdemTaken, NoRow, Row, Statuses
  <2>2. CASE RowOf(c).status = "absent" /\ InsertRow(c.digest, row)
    <3>1. Inserted(c.digest, row)
      BY <2>1, <2>2, <1>4 DEF Inserted
    <3>2. row \in Row
      BY <2>1 DEF WellKeyed
    <3> QED
      BY <1>2, <3>1, <3>2, <1>12 DEF TableStep, InPlaceStep, PresignInsert
  <2>3. CASE UNCHANGED <<artifacts, rowCount>>
    BY <1>12, <2>3 DEF PresignInsert, TableStep, InPlaceStep, EventsOfRows
  <2> QED
    BY <1>12, <2>2, <2>3 DEF PresignInsert
<1>13. CASE UpsertUpload(r)
  <2>1. seen[r].upload \in Uploads \cup {None}
    BY <1>3 DEF Seen
  <2>2. CASE /\ RowOf(c).status = "absent"
             /\ InsertRow(c.digest, PendingRow(None, OwnKey(c), seen[r].upload))
    <3> DEFINE row == PendingRow(None, OwnKey(c), seen[r].upload)
    <3>1. WellKeyed(row, c.digest) /\ ~IdemTaken(row.idem, c.digest)
      BY <1>2, <1>5, <2>1 DEF WellKeyed, KeyFits, PendingRow, IdemTaken, NoRow, Row, Statuses
    <3>2. Inserted(c.digest, row) /\ row \in Row
      BY <2>2, <3>1, <1>4 DEF Inserted, WellKeyed
    <3> QED
      BY <1>2, <3>2, <1>13 DEF TableStep, InPlaceStep, UpsertUpload
  <2>3. CASE /\ RowOf(c).status # "absent" /\ UNCHANGED rowCount
             /\ artifacts' = [artifacts EXCEPT ![c.digest] = Reinit(@, OwnKey(c), seen[r].upload)]
    <3> DEFINE row == Reinit(RowOf(c), OwnKey(c), seen[r].upload)
    <3>1. WellKeyed(row, c.digest)
      BY <1>2, <2>1, <2>3 DEF WellKeyed, KeyFits, Reinit, Row, Statuses
    <3>2. Changed(c.digest, row) /\ row \in Row
      BY <1>2, <1>3, <1>4, <2>3, <3>1 DEF Changed, WellKeyed, Reinit, Row
    <3> QED
      BY <1>2, <3>2, <1>13 DEF TableStep, InPlaceStep, UpsertUpload
  <2>4. CASE UNCHANGED <<artifacts, rowCount>>
    BY <1>13, <2>4 DEF UpsertUpload, TableStep, InPlaceStep, EventsOfRows
  <2> QED
    BY <1>13, <2>2, <2>3, <2>4 DEF UpsertUpload
<1>14. CASE Backfill(r)
  <2> DEFINE row == [RowOf(c) EXCEPT !.app = c.app]
  <2>1. CASE /\ seen[r].linked /\ RowOf(c).id = seen[r].row /\ RowOf(c).app = None
             /\ artifacts' = [artifacts EXCEPT ![c.digest].app = c.app]
    <3>1. RowOf(c).status # "absent"
      BY <1>2, <1>3, <1>4, <1>14, <2>1 DEF Backfill, Query, KnownRow, RowsWellFormed
    <3>2. WellKeyed(row, c.digest)
      BY <1>2, <1>3, <1>4, <3>1, KeysFit DEF WellKeyed, KeyFits, Row, Statuses, Call
    <3>3. Changed(c.digest, row) /\ row \in Row
      BY <1>2, <1>3, <1>4, <1>14, <2>1, <3>1, <3>2 DEF Backfill, Changed, WellKeyed, Row
    <3> QED
      BY <1>2, <3>3, <1>14 DEF TableStep, InPlaceStep, Backfill
  <2>2. CASE UNCHANGED artifacts
    BY <1>14, <2>2 DEF Backfill, TableStep, InPlaceStep, EventsOfRows
  <2> QED
    BY <1>14, <2>1, <2>2 DEF Backfill
<1>15. CASE FinalizePending(r)
  <2> DEFINE idem == Coalesce(RowOf(c).idem, c.idem)
             row  == [RowOf(c) EXCEPT !.app = AppOf(r), !.size = c.size, !.verified = FALSE,
                                      !.key = OwnKey(c), !.status = "stored", !.idem = idem]
  <2>1. CASE /\ ~RowGone(r) /\ ~IdemTaken(idem, c.digest)
             /\ artifacts' = [artifacts EXCEPT ![c.digest] = row]
    <3>1. RowOf(c).status # "absent"
      BY <1>2, <1>3, <1>4, <1>15, <2>1 DEF FinalizePending, RowGone, RowsWellFormed
    <3>2. idem \in IdemKeys \cup {None}
      BY <1>2 DEF Coalesce, Row, Call
    <3>3. WellKeyed(row, c.digest)
      BY <1>2, <3>2 DEF WellKeyed, KeyFits, Row, Statuses, Call
    <3>4. artifacts' = [artifacts EXCEPT ![c.digest] = row] /\ rowCount' = rowCount
      BY <1>15, <2>1 DEF FinalizePending
    <3>5. Changed(c.digest, row) /\ row \in Row
      BY <1>2, <1>4, <2>1, <3>1, <3>3, <3>4 DEF Changed, WellKeyed, Row, Coalesce
    <3> QED
      BY <1>2, <3>5, <1>15 DEF TableStep, InPlaceStep, FinalizePending
  <2>2. CASE UNCHANGED artifacts
    BY <1>15, <2>2 DEF FinalizePending, TableStep, InPlaceStep, EventsOfRows
  <2>3. CASE artifacts' # artifacts
    <3>1. ~RowGone(r) /\ ~IdemTaken(idem, c.digest)
      BY <1>15, <2>3 DEF FinalizePending
    <3>2. artifacts' = [artifacts EXCEPT ![c.digest] = row]
      BY <1>15, <2>3, <3>1 DEF FinalizePending
    <3> QED
      BY <2>1, <3>1, <3>2
  <2> QED
    BY <2>2, <2>3
<1>16. CASE FinalizeMultipart(r)
  <2> DEFINE idem == Coalesce(RowOf(c).idem, c.idem)
             row  == [RowOf(c) EXCEPT !.app = AppOf(r), !.size = c.size, !.verified = FALSE,
                                      !.status = "stored", !.idem = idem]
  <2>1. CASE /\ ~RowGone(r) /\ ~IdemTaken(idem, c.digest)
             /\ artifacts' = [artifacts EXCEPT ![c.digest] = row]
    <3>1. RowOf(c).status # "absent"
      BY <1>2, <1>3, <1>4, <1>16, <2>1 DEF FinalizeMultipart, Query, RowGone, RowsWellFormed, KnownRow
    <3>2. idem \in IdemKeys \cup {None}
      BY <1>2 DEF Coalesce, Row, Call
    <3>3. WellKeyed(row, c.digest)
      <4>1. KeyFits(RowOf(c), c.digest)
        BY <1>2, <1>3, <1>4, <3>1, KeysFit
      <4>2. row \in Row /\ row.status = "stored" /\ row.key = RowOf(c).key
        BY <1>2, <3>2 DEF Row, Statuses, Call
      <4> HIDE DEF row
      <4> QED
        BY <4>1, <4>2 DEF WellKeyed, KeyFits
    <3>4. artifacts' = [artifacts EXCEPT ![c.digest] = row] /\ rowCount' = rowCount
      BY <1>16, <2>1 DEF FinalizeMultipart
    <3>5. Changed(c.digest, row) /\ row \in Row
      BY <1>2, <1>4, <2>1, <3>1, <3>3, <3>4 DEF Changed, WellKeyed, Row, Coalesce
    <3> QED
      BY <1>2, <3>5, <1>16 DEF TableStep, InPlaceStep, FinalizeMultipart
  <2>2. CASE UNCHANGED artifacts
    BY <1>16, <2>2 DEF FinalizeMultipart, TableStep, InPlaceStep, EventsOfRows
  <2> QED
    BY <1>16, <2>1, <2>2 DEF FinalizeMultipart
<1>17. CASE InsertStored(r)
  <2> DEFINE row == [NoRow EXCEPT !.app = AppOf(r), !.size = c.size,
                 !.verified = seen[r].verified, !.key = OwnKey(c),
                 !.status = "stored", !.idem = c.idem]
  <2>1. CASE /\ RowOf(c).status = "absent" /\ ~IdemTaken(c.idem, c.digest)
             /\ InsertRow(c.digest, row)
    <3>1. WellKeyed(row, c.digest)
      BY <1>2, <1>3, <1>5 DEF WellKeyed, KeyFits, Row, Statuses, Call, NoRow, Seen
    <3>2. InsertRow(c.digest, row) /\ row.idem = c.idem
      BY <2>1 DEF NoRow
    <3>3. Inserted(c.digest, row) /\ row \in Row
      BY <1>4, <2>1, <3>1, <3>2 DEF Inserted, WellKeyed
    <3> QED
      BY <1>2, <3>3, <1>17 DEF TableStep, InPlaceStep, InsertStored, RefuseTakenDigest
  <2>2. CASE UNCHANGED <<artifacts, rowCount>>
    BY <1>17, <2>2 DEF InsertStored, TableStep, InPlaceStep, EventsOfRows
  <2> QED
    BY <1>17, <2>1, <2>2 DEF InsertStored
<1>18. CASE PurgeStale(r)
  <2>1. seen[r].stale \in SUBSET Nat /\ 0 \notin seen[r].stale
    BY <1>3 DEF Seen, KnownRow
  <2>2. CASE Delete(seen[r].stale)
    <3>1. Deleted(seen[r].stale)
      BY <1>18, <2>1, <2>2 DEF PurgeStale, Deleted
    <3> QED
      BY <1>18, <2>1, <3>1 DEF TableStep, PurgeStale, Query
  <2>3. CASE UNCHANGED <<artifacts, events>>
    BY <1>18, <2>3 DEF TableStep, InPlaceStep, EventsOfRows, PurgeStale, Query
  <2> QED
    BY <1>18, <2>2, <2>3 DEF PurgeStale
<1> QED
  BY <1>10, <1>11, <1>12, <1>13, <1>14, <1>15, <1>16, <1>17, <1>18, <1>19
  DEF HandlerStep, PresignStep, CheckStep, StoreStep, MultipartStep

\* The table keeps its type and its uniqueness constraints.
LEMMA TableStepRows ==
    ASSUME RowInv, TableStep
    PROVE  /\ artifacts' \in [Digests -> Row] /\ rowCount' \in Nat
           /\ events' \subseteq Nat \X {"stored", "retention_delete"}
           /\ Keyed' /\ RowsWellFormed'
<1>1. /\ artifacts \in [Digests -> Row] /\ rowCount \in Nat /\ RowsWellFormed
      /\ events \subseteq Nat \X {"stored", "retention_delete"}
  BY DEF RowInv, TypeInv, TypeOK
<1>2. \A d \in Digests : artifacts[d].id \in Nat
  BY <1>1 DEF Row
<1>3. CASE UNCHANGED <<artifacts, rowCount>> /\ events \subseteq events' /\ EventsOfRows
  BY <1>1, <1>3 DEF EventsOfRows, RowsWellFormed, Keyed, RowInv, TypeInv
<1>4. ASSUME NEW d \in Digests, NEW row \in Row, Inserted(d, row), events' = events
      PROVE  /\ artifacts' \in [Digests -> Row] /\ rowCount' \in Nat
             /\ Keyed' /\ RowsWellFormed'
  <2> DEFINE new == [row EXCEPT !.id = rowCount + 1]
  <2>1. /\ new \in Row /\ new.id = rowCount + 1 /\ new.status = row.status
        /\ new.key = row.key /\ new.idem = row.idem
    BY <1>1 DEF Row
  <2>2. artifacts' = [artifacts EXCEPT ![d] = new] /\ rowCount' = rowCount + 1
    BY <1>4 DEF Inserted, InsertRow
  <2>3. /\ artifacts[d].status = "absent" /\ row.status \in {"pending", "stored"}
        /\ KeyFits(row, d)
    BY <1>4 DEF Inserted, WellKeyed
  <2>4. ~IdemTaken(row.idem, d)
    BY <1>4 DEF Inserted
  <2> HIDE DEF new
  <2>5. artifacts'[d] = new /\ \A e \in Digests \ {d} : artifacts'[e] = artifacts[e]
    BY <1>1, <2>2
  <2>6. artifacts' \in [Digests -> Row] /\ rowCount' \in Nat
    BY <1>1, <2>1, <2>2
  <2>7. \A e \in Digests :
          /\ artifacts'[e].status = "absent" <=> artifacts'[e].id = 0
          /\ artifacts'[e].id <= rowCount'
          /\ artifacts'[e].status # "absent" => KeyFits(artifacts'[e], e)
    BY <1>1, <1>2, <2>1, <2>2, <2>3, <2>5, KeysFit DEF RowsWellFormed, KeyFits
  <2>8. \A e, f \in Digests : e # f /\ artifacts'[e].status # "absent" =>
          artifacts'[e].id # artifacts'[f].id
    BY <1>1, <1>2, <2>1, <2>2, <2>3, <2>5 DEF RowsWellFormed
  <2>9. \A e, f \in Digests : e # f /\ artifacts'[e].status # "absent" =>
          artifacts'[e].idem = None \/ artifacts'[e].idem # artifacts'[f].idem
    BY <1>1, <2>1, <2>3, <2>4, <2>5 DEF RowsWellFormed, IdemTaken
  <2>10. \A e \in events' : \E f \in Digests :
           artifacts'[f].status # "absent" /\ artifacts'[f].id = e[1]
    BY <1>1, <1>4, <2>3, <2>5 DEF RowsWellFormed
  <2>11. Keyed'
    BY <2>6, <2>7 DEF Keyed, KeyFits, StorageKeys
  <2> QED
    BY <2>6, <2>7, <2>8, <2>9, <2>10, <2>11, ConstantsAssumption DEF RowsWellFormed, KeyFits, StorageKeys
<1>5. ASSUME NEW d \in Digests, NEW row \in Row, Changed(d, row), events' = events
      PROVE  /\ artifacts' \in [Digests -> Row] /\ rowCount' \in Nat
             /\ Keyed' /\ RowsWellFormed'
  <2>1. /\ artifacts' = [artifacts EXCEPT ![d] = row] /\ rowCount' = rowCount
        /\ artifacts[d].status # "absent" /\ row.status \in {"pending", "stored"}
        /\ KeyFits(row, d) /\ row.id = artifacts[d].id
    BY <1>5 DEF Changed, WellKeyed
  <2>2. row.idem = artifacts[d].idem \/ ~IdemTaken(row.idem, d)
    BY <1>5 DEF Changed
  <2>3. artifacts'[d] = row /\ \A e \in Digests \ {d} : artifacts'[e] = artifacts[e]
    BY <1>1, <2>1
  <2>4. artifacts' \in [Digests -> Row] /\ rowCount' \in Nat
    BY <1>1, <2>1
  <2>5. \A e \in Digests :
          /\ artifacts'[e].status = "absent" <=> artifacts'[e].id = 0
          /\ artifacts'[e].id <= rowCount'
          /\ artifacts'[e].status # "absent" => KeyFits(artifacts'[e], e)
    BY <1>1, <1>2, <2>1, <2>3, KeysFit DEF RowsWellFormed
  <2>6. \A e, f \in Digests : e # f /\ artifacts'[e].status # "absent" =>
          artifacts'[e].id # artifacts'[f].id
    BY <1>1, <2>1, <2>3 DEF RowsWellFormed
  <2>7. \A e, f \in Digests : e # f /\ artifacts'[e].status # "absent" =>
          artifacts'[e].idem = None \/ artifacts'[e].idem # artifacts'[f].idem
    BY <1>1, <2>1, <2>2, <2>3 DEF RowsWellFormed, IdemTaken
  <2>8. \A e \in events' : \E f \in Digests :
          artifacts'[f].status # "absent" /\ artifacts'[f].id = e[1]
    BY <1>1, <1>5, <2>1, <2>3 DEF RowsWellFormed
  <2>9. Keyed'
    BY <2>4, <2>5 DEF Keyed, KeyFits, StorageKeys
  <2> QED
    BY <2>4, <2>5, <2>6, <2>7, <2>8, <2>9, ConstantsAssumption DEF RowsWellFormed, KeyFits, StorageKeys
<1>6. ASSUME NEW gone \in SUBSET Nat, Deleted(gone)
      PROVE  /\ artifacts' \in [Digests -> Row] /\ rowCount' \in Nat
             /\ events' \subseteq events
             /\ Keyed' /\ RowsWellFormed'
  <2>1. /\ artifacts' = [d \in Digests |-> IF artifacts[d].id \in gone THEN NoRow ELSE artifacts[d]]
        /\ events' = {e \in events : e[1] \notin gone} /\ rowCount' = rowCount
    BY <1>6 DEF Deleted, Delete
  <2>2. NoRow \in Row /\ NoRow.status = "absent" /\ NoRow.id = 0 /\ NoRow.idem = None
    BY DEF NoRow, Row, Statuses
  <2>3. \A d \in Digests : artifacts'[d] = NoRow \/ artifacts'[d] = artifacts[d]
    BY <2>1
  <2>4. artifacts' \in [Digests -> Row] /\ rowCount' \in Nat
    BY <1>1, <2>1, <2>2
  <2>5. \A e \in Digests :
          /\ artifacts'[e].status = "absent" <=> artifacts'[e].id = 0
          /\ artifacts'[e].id <= rowCount'
          /\ artifacts'[e].status # "absent" => KeyFits(artifacts'[e], e)
    BY <1>1, <2>1, <2>2, <2>3, KeysFit DEF RowsWellFormed
  <2>6. \A e, f \in Digests : e # f /\ artifacts'[e].status # "absent" =>
          /\ artifacts'[e].id # artifacts'[f].id
          /\ artifacts'[e].idem = None \/ artifacts'[e].idem # artifacts'[f].idem
    BY <1>1, <2>2, <2>3, <2>5 DEF RowsWellFormed
  <2>7. \A e \in events' : \E f \in Digests :
          artifacts'[f].status # "absent" /\ artifacts'[f].id = e[1]
    BY <1>1, <2>1, <2>3 DEF RowsWellFormed
  <2>8. Keyed'
    BY <2>4, <2>5 DEF Keyed, KeyFits, StorageKeys
  <2> QED
    BY <2>1, <2>4, <2>5, <2>6, <2>7, <2>8, ConstantsAssumption DEF RowsWellFormed, KeyFits, StorageKeys
<1> QED
  BY <1>1, <1>3, <1>4, <1>5, <1>6 DEF TableStep, InPlaceStep

-----------------------------------------------------------------------------
(***************************************************************************)
(* The invariant is inductive.                                             *)
(***************************************************************************)
BucketTypeOK ==
    /\ objects \in [StorageKeys -> Contents \cup {None}]
    /\ issued \subseteq StorageKeys
    /\ uploads \in [Uploads -> Upload]
    /\ partUrls \subseteq Uploads

LEMMA NotDone ==
    ASSUME NEW r \in Reqs, HandlerStep(r) PROVE pc[r] # "done"
BY
DEF HandlerStep, PresignStep, CheckStep, StoreStep, MultipartStep, PresignLookup, PresignLink,
    PresignInsert, LinkApp, CompleteRow, CheckRowKey, Backfill, VerifySize, VerifyContent,
    CheckKeyFree, QuotaCount, QuotaBytes, FinalizePending, InsertStored, RefuseTakenDigest,
    FinalizeMultipart, InsertEvent, SelectStale, LogRetention, PurgeStale, InitStatus,
    CreateUpload, UpsertUpload, MultipartRow, Assemble, Query

\* Handlers only write well-typed values to the bucket.
LEMMA HandlerBucketTyped ==
    ASSUME TypeInv, NEW r \in Reqs, HandlerStep(r)
    PROVE  BucketTypeOK'
<1>1. /\ call[r] \in Call /\ OwnKey(call[r]) \in StorageKeys
      /\ RowOf(call[r]).status = "pending" => RowOf(call[r]).key \in StorageKeys
  BY NotDone, CallTyped DEF TypeInv, Keyed, RowOf
<1>2. BucketTypeOK
  BY DEF TypeInv, TypeOK, BucketTypeOK
<1>3. CASE PresignLookup(r) \/ PresignInsert(r)
  BY <1>1, <1>2, <1>3 DEF PresignLookup, PresignInsert, IssuePut, BucketTypeOK
<1>4. CASE CreateUpload(r)
  <2>1. ASSUME NEW u \in Uploads
        PROVE  [key |-> OwnKey(call[r]), content |-> None, state |-> "open"] \in Upload
    BY <1>1 DEF Upload
  <2> QED
    BY <1>2, <1>4, <2>1 DEF CreateUpload, BucketTypeOK
<1>5. CASE Assemble(r)
  <2> DEFINE u == call[r].upload
  <2>1. u \in Uploads
    BY <1>1, <1>5, NotDone, ConstantsAssumption DEF Assemble, TypeInv, InFlight
  <2>2. uploads[u] \in Upload
    BY <1>2, <2>1 DEF BucketTypeOK
  <2>3. [uploads EXCEPT ![u].state = "assembled"] \in [Uploads -> Upload]
    BY <1>2, <2>1, <2>2 DEF BucketTypeOK, Upload
  <2>4. uploads[u].content # None =>
          [objects EXCEPT ![seen[r].key] = uploads[u].content]
            \in [StorageKeys -> Contents \cup {None}]
    BY <1>2, <2>2 DEF BucketTypeOK, Upload
  <2> QED
    BY <1>2, <1>5, <2>3, <2>4 DEF Assemble, BucketTypeOK
<1>6. CASE UNCHANGED bucket
  BY <1>2, <1>6 DEF BucketTypeOK, bucket
<1> QED
  BY <1>3, <1>4, <1>5, <1>6
  DEF HandlerStep, PresignStep, CheckStep, StoreStep, MultipartStep, PresignLink, LinkApp,
      CompleteRow, CheckRowKey, Backfill, VerifySize, VerifyContent, CheckKeyFree,
      QuotaCount, QuotaBytes, FinalizePending, InsertStored, RefuseTakenDigest,
      FinalizeMultipart, InsertEvent, SelectStale, LogRetention, PurgeStale, InitStatus,
      UpsertUpload, MultipartRow, bucket

\* A handler that updates a row by its id has read the id of a row.
LEMMA HandlerKnownRow ==
    ASSUME RowInv, NEW r \in Reqs, HandlerStep(r)
    PROVE  KnownRow'
<1>1. /\ seen \in [Reqs -> Seen] /\ pc \in [Reqs -> Steps] /\ call \in [Reqs -> Calls \cup {NoCall}]
      /\ KnownRow /\ rowCount \in Nat
  BY DEF RowInv, TypeInv, TypeOK
<1>2. Fresh.stale = {} /\ seen[r] \in Seen
  BY <1>1 DEF Fresh
<1>3. call[r].digest \in Digests /\ RowOf(call[r]) \in Row
  BY NotDone, CallTyped DEF RowInv
<1>4. /\ RowOf(call[r]).status # "absent" => RowOf(call[r]).id # 0
      /\ 0 \notin StaleOf(call[r].app)
  BY <1>3 DEF RowInv, RowsWellFormed, RowOf, StaleOf, StoredOf
<1>5. ASSUME NEW code, Reply(r, code) PROVE KnownRow'
  BY <1>1, <1>2, <1>5 DEF Reply, KnownRow
<1>6. ASSUME NEW locals \in Seen, NEW step, Note(r, locals, step), 0 \notin locals.stale,
             step \in {"rowkey", "backfill", "size", "hash", "assemble", "event"}
               => locals.row # 0,
             call[r].kind = "multipart" /\ step \in {"app", "row", "idem", "count", "bytes", "store"}
               => locals.row # 0
      PROVE  KnownRow'
  BY <1>1, <1>6 DEF Note, Goto, KnownRow
<1>7. ASSUME NEW step, Continue(r, step),
             step \in {"rowkey", "backfill", "size", "hash", "assemble", "event"}
               => seen[r].row # 0,
             call[r].kind = "multipart" /\ step \in {"app", "row", "idem", "count", "bytes", "store"}
               => seen[r].row # 0
      PROVE  KnownRow'
  BY <1>1, <1>2, <1>6, <1>7 DEF Continue, KnownRow
<1>8. ASSUME NEW linked PROVE AfterChecks(linked) \in {"count", "store"}
  BY DEF AfterChecks
<1>9. KnownRow /\ seen[r].row \in Nat /\ 0 \notin seen[r].stale
  BY <1>1, <1>2 DEF Seen, KnownRow
<1>10. CASE PresignStep(r)
  <2>1. CASE PresignLookup(r)
    BY <1>5, <1>7, <2>1 DEF PresignLookup
  <2>2. CASE PresignLink(r)
    <3>1. PICK linked \in BOOLEAN : Note(r, [seen[r] EXCEPT !.linked = linked], "insert")
      BY <2>2, PresignLinkNotes
    <3> DEFINE locals == [seen[r] EXCEPT !.linked = linked]
    <3>2. locals \in Seen /\ locals.stale = seen[r].stale
      BY <1>2 DEF Seen
    <3> QED
      BY <1>6, <1>9, <3>1, <3>2
  <2>3. CASE PresignInsert(r)
    BY <1>5, <2>3 DEF PresignInsert
  <2> QED
    BY <1>10, <2>1, <2>2, <2>3 DEF PresignStep
<1>11. CASE CheckStep(r)
  <2>1. CASE LinkApp(r)
    <3>1. PICK linked \in BOOLEAN :
            Note(r, [seen[r] EXCEPT !.linked = linked],
                 IF call[r].kind = "multipart" THEN AfterChecks(linked) ELSE "row")
      BY <2>1, LinkAppNotes
    <3>2. call[r].kind = "multipart" => seen[r].row # 0
      BY <1>9, <2>1 DEF LinkApp, Query, KnownRow
    <3> DEFINE locals == [seen[r] EXCEPT !.linked = linked]
    <3>3. locals \in Seen /\ locals.stale = seen[r].stale /\ locals.row = seen[r].row
      BY <1>2 DEF Seen
    <3> HIDE DEF locals
    <3> QED
      BY <1>6, <1>8, <1>9, <3>1, <3>2, <3>3 DEF locals
  <2>2. CASE CompleteRow(r)
    <3> DEFINE locals == [seen[r] EXCEPT !.row = RowOf(call[r]).id, !.key = RowOf(call[r]).key]
    <3>1. /\ locals \in Seen /\ locals.stale = seen[r].stale /\ locals.row = RowOf(call[r]).id
      BY <1>2, <1>3 DEF Seen, Row
    <3>2. pc[r] = "row"
      BY <2>2 DEF CompleteRow, Query
    <3>3. call[r].kind = "multipart" => seen[r].row # 0
      BY <1>9, <3>2 DEF KnownRow
    <3>4. CASE Reply(r, "rejected") \/ Reply(r, "duplicate")
      BY <1>5, <3>4
    <3>5. CASE Continue(r, "idem")
      BY <1>7, <3>3, <3>5
    <3> HIDE DEF locals
    <3>6. CASE /\ RowOf(call[r]).status = "pending"
               /\ Note(r, locals, IF call[r].idem # None THEN "rowkey" ELSE "backfill")
      BY <1>4, <1>6, <1>9, <3>1, <3>6
    <3> QED
      BY <2>2, <3>4, <3>5, <3>6 DEF CompleteRow, locals
  <2>3. CASE CheckRowKey(r) \/ Backfill(r) \/ VerifySize(r) \/ VerifyContent(r)
    BY <1>5, <1>7, <1>8, <1>9, <2>3
    DEF CheckRowKey, Backfill, VerifySize, VerifyContent, Query, KnownRow
  <2>4. CASE CheckKeyFree(r)
    <3>1. ASSUME NEW verified PROVE LET locals == [seen[r] EXCEPT !.verified = verified] IN
            /\ verified \in BOOLEAN => locals \in Seen
            /\ locals.stale = seen[r].stale /\ locals.row = seen[r].row
      BY <1>2 DEF Seen
    <3>2. \/ Reply(r, "conflict")
          \/ \E verified \in BOOLEAN :
               Note(r, [seen[r] EXCEPT !.verified = verified], AfterChecks(seen[r].linked))
      BY <2>4, CheckKeyFreeNotes, CallTyped DEF CheckKeyFree, Query, RowInv, Call
    <3>3. pc[r] = "idem"
      BY <2>4 DEF CheckKeyFree, Query
    <3>4. call[r].kind = "multipart" => seen[r].row # 0
      BY <1>9, <3>3 DEF KnownRow
    <3> QED
      BY <1>5, <1>6, <1>8, <1>9, <3>1, <3>2, <3>4
  <2>5. CASE QuotaCount(r)
    <3>1. LET locals == [seen[r] EXCEPT !.counted = TRUE] IN
            locals \in Seen /\ locals.stale = seen[r].stale /\ locals.row = seen[r].row
      BY <1>2 DEF Seen
    <3> QED
      BY <1>5, <1>6, <1>7, <1>9, <2>5, <3>1 DEF QuotaCount, Query, KnownRow
  <2>6. CASE QuotaBytes(r)
    BY <1>5, <1>7, <1>9, <2>6 DEF QuotaBytes, Query, KnownRow
  <2> QED
    BY <1>11, <2>1, <2>2, <2>3, <2>4, <2>5, <2>6 DEF CheckStep
<1>12. CASE StoreStep(r)
  <2>1. CASE FinalizePending(r) \/ FinalizeMultipart(r)
    BY <1>5, <1>7, <1>9, <2>1 DEF FinalizePending, FinalizeMultipart, Query, KnownRow
  <2>2. CASE InsertStored(r)
    <3> DEFINE locals == [seen[r] EXCEPT !.row = rowCount + 1]
    <3>1. locals \in Seen /\ locals.stale = seen[r].stale /\ locals.row # 0
      BY <1>1, <1>2 DEF Seen
    <3> QED
      BY <1>5, <1>6, <1>9, <2>2, <3>1 DEF InsertStored, RefuseTakenDigest
  <2>3. CASE InsertEvent(r) \/ LogRetention(r) \/ PurgeStale(r)
    BY <1>5, <1>7, <1>9, <2>3 DEF InsertEvent, LogRetention, PurgeStale
  <2>4. CASE SelectStale(r)
    <3> DEFINE locals == [seen[r] EXCEPT !.stale = StaleOf(call[r].app)]
    <3>1. StaleOf(call[r].app) \subseteq Nat
      BY DEF StaleOf, StoredOf, RowInv, TypeInv, TypeOK, Row
    <3>2. locals \in Seen /\ locals.stale = StaleOf(call[r].app)
      BY <1>2, <3>1 DEF Seen
    <3> QED
      BY <1>4, <1>5, <1>6, <2>4, <3>2 DEF SelectStale
  <2> QED
    BY <1>12, <2>1, <2>2, <2>3, <2>4 DEF StoreStep
<1>13. CASE MultipartStep(r)
  <2>1. CASE InitStatus(r) \/ UpsertUpload(r) \/ Assemble(r)
    BY <1>5, <1>7, <1>9, <2>1 DEF InitStatus, UpsertUpload, Assemble, KnownRow
  <2>2. CASE CreateUpload(r)
    <3>1. ASSUME NEW u \in Uploads
          PROVE  /\ [seen[r] EXCEPT !.upload = u] \in Seen
                 /\ [seen[r] EXCEPT !.upload = u].stale = seen[r].stale
      BY <1>2 DEF Seen
    <3> QED
      BY <1>5, <1>6, <1>9, <2>2, <3>1 DEF CreateUpload
  <2>3. CASE MultipartRow(r)
    <3> DEFINE locals == [seen[r] EXCEPT !.row = RowOf(call[r]).id, !.key = RowOf(call[r]).key]
    <3>1. /\ locals \in Seen /\ locals.stale = seen[r].stale /\ locals.row = RowOf(call[r]).id
      BY <1>2, <1>3 DEF Seen, Row
    <3> QED
      BY <1>4, <1>5, <1>6, <1>9, <2>3, <3>1 DEF MultipartRow
  <2> QED
    BY <1>13, <2>1, <2>2, <2>3 DEF MultipartStep
<1> QED
  BY <1>10, <1>11, <1>12, <1>13 DEF HandlerStep

\* Arrivals, refusals and disconnects only touch the handler's variables.
LEMMA RequestEdgeTyped ==
    ASSUME RowInv, NEW r \in Reqs,
           (\E c \in Calls : Receive(r, c) \/ Refuse(r, c)) \/ Abort(r)
    PROVE  HandlerTypeOK' /\ InFlight' /\ KnownRow' /\ UNCHANGED <<db, bucket>>
<1> USE DEF Steps, PresignSteps, HeldSteps, Codes
<1>1. HandlerTypeOK /\ InFlight /\ KnownRow
  BY DEF RowInv, TypeInv, TypeOK, HandlerTypeOK
<1>2. ASSUME NEW c \in Calls, Receive(r, c)
      PROVE  HandlerTypeOK' /\ InFlight' /\ KnownRow'
  <2>1. c \in Call /\ c.kind \in Kinds
    BY ConstantsAssumption DEF Call
  <2>2. /\ FirstStep(c.kind) \in Steps \ {"done", "assemble", "row", "rowkey", "idem", "backfill",
                                       "size", "hash", "event", "count", "bytes", "store"}
        /\ FirstStep(c.kind) = "mrow" <=> c.kind = "multipart"
        /\ FirstStep(c.kind) = "app" => c.kind = "complete"
    BY <2>1 DEF FirstStep, Kinds
  <2>3. NoAnswer \in Answer
    BY DEF NoAnswer, Answer
  <2>4. /\ call' = [call EXCEPT ![r] = c] /\ pc' = [pc EXCEPT ![r] = FirstStep(c.kind)]
        /\ answer' = [answer EXCEPT ![r] = NoAnswer] /\ seen' = seen
    BY <1>2 DEF Receive, Goto
  <2>5. HandlerTypeOK' /\ InFlight'
    BY <1>1, <2>2, <2>3, <2>4 DEF HandlerTypeOK, InFlight
  <2>6. KnownRow'
    BY <1>1, <2>2, <2>4 DEF HandlerTypeOK, KnownRow
  <2> QED
    BY <2>5, <2>6
<1>3. ASSUME NEW c \in Calls, Refuse(r, c)
      PROVE  HandlerTypeOK' /\ InFlight' /\ KnownRow'
  <2>1. c \in Call
    BY ConstantsAssumption
  <2>2. [code |-> IF TooLarge(c) THEN "rejected" ELSE "error", digest |-> c.digest,
         idem |-> c.idem] \in Answer
    BY <2>1 DEF Answer, Call
  <2> QED
    BY <1>1, <1>3, <2>2 DEF Refuse, HandlerTypeOK, InFlight, KnownRow
<1>4. CASE Abort(r)
  <2>1. Fresh \in Seen /\ Fresh.stale = {}
    BY DEF Fresh, Seen
  <2> QED
    BY <1>1, <1>4, <2>1 DEF Abort, HandlerTypeOK, InFlight, KnownRow
<1> QED
  BY <1>2, <1>3, <1>4 DEF Receive, Refuse, Abort

LEMMA RowInvInit == Init => RowInv
<1> SUFFICES ASSUME Init PROVE RowInv
  OBVIOUS
<1> USE ConstantsAssumption DEF Init
<1>1. NoRow \in Row /\ NoRow.status = "absent" /\ NoRow.id = 0
  BY DEF NoRow, Row, Statuses
<1>2. Fresh \in Seen /\ Fresh.stale = {} /\ NoAnswer \in Answer
  BY DEF Fresh, Seen, NoAnswer, Answer, Codes
<1>3. [key |-> None, content |-> None, state |-> "unused"] \in Upload
  BY DEF Upload
<1>4. TypeOK
  BY <1>1, <1>2, <1>3 DEF TypeOK, Steps
<1>5. InFlight /\ Keyed /\ RowsWellFormed
  BY <1>1 DEF InFlight, Keyed, RowsWellFormed
<1>6. KnownRow
  BY <1>2 DEF KnownRow
<1> QED
  BY <1>4, <1>5, <1>6 DEF RowInv, TypeInv

\* POST /artifacts inserts a row, without a storage key.
LEMMA LegacyRow ==
    ASSUME RowInv, NEW c \in Legacy, LegacyInsert(c)
    PROVE  /\ c.digest \in Digests
           /\ \E row \in Row : Inserted(c.digest, row) /\ row.status = "stored" /\ row.key = None
           /\ \E row \in Row : /\ row.status = "stored" /\ row.idem = None
                             /\ artifacts' = [artifacts EXCEPT ![c.digest] = row]
           /\ UNCHANGED <<registered, events, bucket, handler>>
<1>1. c \in LegacyCall /\ c.digest \in Digests /\ c.app \in Apps /\ c.size \in Nat /\ c.signed \in BOOLEAN
  BY ConstantsAssumption DEF LegacyCall
<1>2. PICK linked \in BOOLEAN, verified \in BOOLEAN :
        InsertRow(c.digest, [NoRow EXCEPT !.app = IF linked THEN c.app ELSE None,
                                !.size = c.size, !.verified = verified, !.status = "stored"])
  BY <1>1, LearnedBoolean DEF LegacyInsert
<1> DEFINE row == [NoRow EXCEPT !.app = IF linked THEN c.app ELSE None,
                      !.size = c.size, !.verified = verified, !.status = "stored"]
<1>3. row \in Row /\ row.status = "stored" /\ row.key = None /\ row.idem = None
  BY <1>1 DEF NoRow, Row, Statuses
<1>4. InsertRow(c.digest, row) /\ artifacts[c.digest].status = "absent" /\ rowCount \in Nat
  BY <1>2 DEF LegacyInsert, RowInv, TypeInv, TypeOK
<1> HIDE DEF row
<1>5. Inserted(c.digest, row)
  BY <1>3, <1>4 DEF Inserted, WellKeyed, KeyFits, IdemTaken
<1>6. /\ [row EXCEPT !.id = rowCount + 1] \in Row
      /\ [row EXCEPT !.id = rowCount + 1].status = "stored"
      /\ [row EXCEPT !.id = rowCount + 1].idem = None
  BY <1>3, <1>4 DEF Row
<1> QED
  BY <1>1, <1>3, <1>4, <1>5, <1>6 DEF InsertRow, LegacyInsert

\* Of what the environment does, that alone touches the tables of artifacts.
LEMMA EnvironmentQuiet ==
    ASSUME Environment \/ UNCHANGED vars
    PROVE  /\ UNCHANGED handler
           /\ \/ UNCHANGED <<artifacts, rowCount, events, uncounted>>
              \/ \E c \in Legacy : LegacyInsert(c)
BY DEF Environment, PutObject, PresignPart, PutPart, CreateApp, LegacyInsert, vars, db

\* Every step of the registry is a step of its table.
LEMMA NextTableStep == RowInv /\ [Next]_vars => TableStep
<1> SUFFICES ASSUME RowInv, [Next]_vars PROVE TableStep
  OBVIOUS
<1>1. CASE UNCHANGED <<artifacts, rowCount, events>>
  BY <1>1 DEF TableStep, InPlaceStep, EventsOfRows
<1>2. ASSUME NEW r \in Reqs, HandlerStep(r) PROVE TableStep
  BY <1>2, HandlerTableStep
<1>3. ASSUME NEW i \in RowIds, PendingGC(i) PROVE TableStep
  <2> DEFINE gone == {artifacts[d].id : d \in {e \in Digests : Expired(e, i)}}
  <2>1. \A d \in Digests : artifacts[d].id \in Nat /\ (artifacts[d].id = 0 <=> artifacts[d].status = "absent")
    BY DEF RowInv, RowsWellFormed, TypeInv, TypeOK, Row
  <2>2. gone \in SUBSET Nat /\ 0 \notin gone
    BY <2>1 DEF Expired
  <2>3. Deleted(gone)
    BY <1>3, <2>2 DEF PendingGC, Deleted
  <2> QED
    BY <2>2, <2>3 DEF TableStep
<1>4. ASSUME NEW r \in Reqs, (\E c \in Calls : Receive(r, c) \/ Refuse(r, c)) \/ Abort(r)
      PROVE  UNCHANGED <<artifacts, rowCount, events>>
  BY <1>4 DEF Receive, Refuse, Abort, db
<1>5. ASSUME NEW c \in Legacy, LegacyInsert(c) PROVE TableStep
  BY <1>5, LegacyRow DEF TableStep, InPlaceStep
<1> QED
  BY <1>1, <1>2, <1>3, <1>4, <1>5, EnvironmentQuiet DEF Next, RequestStep

\* The history of uncounted artifacts holds digests.
LEMMA NextAccount ==
    ASSUME RowInv, [Next]_vars PROVE uncounted' \subseteq Digests
<1>1. uncounted \subseteq Digests
  BY DEF RowInv, TypeInv, TypeOK
<1>2. ASSUME NEW d \in Digests, NEW counted, Account(d, counted) PROVE uncounted' \subseteq Digests
  BY <1>1, <1>2 DEF Account
<1>3. ASSUME NEW r \in Reqs, HandlerStep(r) PROVE uncounted' \subseteq Digests
  <2>1. call[r].digest \in Digests
    BY <1>3, NotDone, CallTyped DEF RowInv
  <2>2. UNCHANGED uncounted \/ \E counted : Account(call[r].digest, counted)
    BY <1>3
    DEF HandlerStep, PresignStep, CheckStep, StoreStep, MultipartStep, PresignLookup,
        PresignLink, PresignInsert, LinkApp, CompleteRow, CheckRowKey, Backfill, VerifySize,
        VerifyContent, CheckKeyFree, QuotaCount, QuotaBytes, FinalizePending, InsertStored,
        FinalizeMultipart, InsertEvent, SelectStale, LogRetention, PurgeStale, InitStatus,
        CreateUpload, UpsertUpload, MultipartRow, Assemble, db
  <2> QED
    BY <1>1, <1>2, <2>1, <2>2
<1>4. ASSUME NEW c \in Legacy, LegacyInsert(c) PROVE uncounted' \subseteq Digests
  BY <1>2, <1>4, ConstantsAssumption DEF LegacyInsert, LegacyCall
<1> QED
  BY <1>1, <1>3, <1>4
  DEF Next, RequestStep, Receive, Refuse, Abort, PendingGC, Environment, PutObject,
      PresignPart, PutPart, CreateApp, vars, db

LEMMA RowInvNext == RowInv /\ [Next]_vars => RowInv'
<1> SUFFICES ASSUME RowInv, [Next]_vars PROVE RowInv'
  OBVIOUS
<1>1. /\ artifacts' \in [Digests -> Row] /\ rowCount' \in Nat
      /\ events' \subseteq Nat \X {"stored", "retention_delete"}
      /\ Keyed' /\ RowsWellFormed'
  BY NextTableStep, TableStepRows
<1>2. HandlerTypeOK /\ InFlight /\ KnownRow /\ BucketTypeOK /\ registered \subseteq Apps
  BY DEF RowInv, TypeInv, TypeOK, HandlerTypeOK, BucketTypeOK
<1>20. uncounted' \subseteq Digests
  BY NextAccount
<1>3. ASSUME HandlerTypeOK', InFlight', KnownRow', BucketTypeOK', (registered \subseteq Apps)'
      PROVE  RowInv'
  BY <1>1, <1>3, <1>20 DEF RowInv, TypeInv, TypeOK, HandlerTypeOK, BucketTypeOK
<1>4. ASSUME UNCHANGED handler PROVE HandlerTypeOK' /\ InFlight' /\ KnownRow'
  BY <1>2, <1>4 DEF HandlerTypeOK, InFlight, KnownRow, handler
<1>5. CASE UNCHANGED vars
  BY <1>2, <1>3, <1>4, <1>5 DEF vars, db, bucket, BucketTypeOK
<1>6. ASSUME NEW r \in Reqs, HandlerStep(r) PROVE RowInv'
  BY <1>2, <1>3, <1>6, HandlerStepTyped, HandlerBucketTyped, HandlerKnownRow, HandlerTableStep
  DEF RowInv
<1>7. ASSUME NEW r \in Reqs, (\E c \in Calls : Receive(r, c) \/ Refuse(r, c)) \/ Abort(r)
      PROVE  RowInv'
  <2>1. HandlerTypeOK' /\ InFlight' /\ KnownRow' /\ UNCHANGED <<db, bucket>>
    BY <1>7, RequestEdgeTyped
  <2> QED
    BY <1>2, <1>3, <2>1 DEF db, bucket, BucketTypeOK
<1>8. ASSUME NEW i \in RowIds, PendingGC(i) PROVE RowInv'
  BY <1>2, <1>3, <1>4, <1>8 DEF PendingGC, bucket, BucketTypeOK
<1>9. CASE Environment
  <2>1. UNCHANGED handler /\ (registered \subseteq Apps)'
    BY <1>2, <1>9 DEF Environment, PutObject, PresignPart, PutPart, CreateApp, LegacyInsert, db
  <2>2. ASSUME NEW put \in Puts, PutObject(put[1], put[2]) PROVE BucketTypeOK'
    BY <1>2, <2>2, ConstantsAssumption DEF PutObject, BucketTypeOK
  <2>3. ASSUME NEW u \in Uploads, PresignPart(u) PROVE BucketTypeOK'
    BY <1>2, <2>3 DEF PresignPart, BucketTypeOK
  <2>4. ASSUME NEW u \in Uploads, NEW put \in Puts, PutPart(u, put[2]) PROVE BucketTypeOK'
    <3>1. uploads[u] \in Upload /\ put[2] \in Contents
      BY <1>2, ConstantsAssumption DEF BucketTypeOK
    <3> QED
      BY <1>2, <2>4, <3>1 DEF PutPart, BucketTypeOK, Upload
  <2>5. ASSUME NEW a \in Apps, CreateApp(a) PROVE BucketTypeOK'
    BY <1>2, <2>5 DEF CreateApp, bucket, BucketTypeOK
  <2>6. ASSUME NEW c \in Legacy, LegacyInsert(c) PROVE BucketTypeOK'
    BY <1>2, <2>6 DEF LegacyInsert, bucket, BucketTypeOK
  <2> QED
    BY <1>3, <1>4, <1>9, <2>1, <2>2, <2>3, <2>4, <2>5, <2>6 DEF Environment
<1> QED
  BY <1>5, <1>6, <1>7, <1>8, <1>9 DEF Next, RequestStep

LEMMA RowInvInvariant == Spec => []RowInv
<1> QED
  BY RowInvInit, RowInvNext, PTL DEF Spec

\* Every variable of the registry always has its type.
THEOREM TypeCorrect == Spec => []TypeOK
<1>1. RowInv => TypeOK
  BY DEF RowInv, TypeInv
<1> QED
  BY <1>1, RowInvInvariant, PTL

\* Digests, ids and idempotency keys stay unique, storage keys name the row's
\* own digest, and no event outlives its row, whatever requests and the GC do.
THEOREM RowsCorrect == Spec => []RowsWellFormed
<1>1. RowInv => RowsWellFormed
  BY DEF RowInv
<1> QED
  BY <1>1, RowInvInvariant, PTL

\* A row that exists keeps its state and its idempotency key: no pending row
\* overwrites a stored one and no request takes over another's key.
THEOREM RowsMonotonic == Spec => RowMonotonic
<1> DEFINE Kept ==
      \A d \in Digests :
         artifacts[d].status # "absent" /\ artifacts'[d].id = artifacts[d].id =>
           /\ artifacts[d].status = "stored" => artifacts'[d].status = "stored"
           /\ artifacts[d].idem # None => artifacts'[d].idem = artifacts[d].idem
<1>1. RowInv /\ [Next]_vars => Kept
  <2> SUFFICES ASSUME RowInv, [Next]_vars PROVE Kept
    OBVIOUS
  <2>1. TableStep /\ artifacts \in [Digests -> Row] /\ RowsWellFormed
    BY NextTableStep DEF RowInv, TypeInv, TypeOK
  <2>2. ASSUME NEW d \in Digests, NEW row \in Row, Inserted(d, row) PROVE Kept
    BY <2>1, <2>2 DEF Inserted, InsertRow
  <2>3. ASSUME NEW d \in Digests, NEW row \in Row, Changed(d, row) PROVE Kept
    BY <2>1, <2>3 DEF Changed
  <2>4. ASSUME NEW gone \in SUBSET Nat, Deleted(gone) PROVE Kept
    <3>1. \A d \in Digests : artifacts'[d] = NoRow \/ artifacts'[d] = artifacts[d]
      BY <2>4 DEF Deleted, Delete
    <3>2. NoRow.id = 0
      BY DEF NoRow
    <3> QED
      BY <2>1, <3>1, <3>2 DEF RowsWellFormed
  <2> QED
    BY <2>1, <2>2, <2>3, <2>4 DEF TableStep, InPlaceStep
<1> QED
  BY <1>1, RowInvInvariant, PTL DEF Spec, RowMonotonic

-----------------------------------------------------------------------------
(***************************************************************************)
(* The multipart upload a pending row names was opened for the storage key *)
(* of that row.  Two inits of one digest may interleave: each opens an     *)
(* upload, then one INSERT ... ON CONFLICT DO UPDATE runs after the other. *)
(* The argument: an upload that S3 has opened keeps its key, a handler     *)
(* about to upsert remembers an upload opened for the key it will write,   *)
(* and no other statement writes either column of a row that stays         *)
(* pending.                                                                *)
(***************************************************************************)
OpenedFor(u, k) == u \in Uploads /\ uploads[u].state # "unused" /\ uploads[u].key = k

\* The row names no upload, or one opened for its key.
Matched(d) ==
    artifacts[d].status = "pending" /\ artifacts[d].upload # None
      => OpenedFor(artifacts[d].upload, artifacts[d].key)

RowsMatched    == \A d \in Digests : Matched(d)
UpsertsMatched == \A r \in Reqs : pc[r] = "upsert" => OpenedFor(seen[r].upload, OwnKey(call[r]))
UploadInv      == RowsMatched /\ UpsertsMatched

\* An opened upload stays opened, and for the same key.
UploadsKept ==
    \A u \in Uploads : uploads[u].state # "unused" =>
        uploads'[u].state # "unused" /\ uploads'[u].key = uploads[u].key

LEMMA OpenedKept ==
    ASSUME UploadsKept, NEW u, NEW k, OpenedFor(u, k) PROVE OpenedFor(u, k)'
BY DEF UploadsKept, OpenedFor

LEMMA NextUploadsKept == ASSUME RowInv, [Next]_vars PROVE UploadsKept
<1>1. uploads \in [Uploads -> Upload]
  BY DEF RowInv, TypeInv, TypeOK
<1>2. CASE UNCHANGED uploads
  BY <1>2 DEF UploadsKept
<1>3. ASSUME NEW r \in Reqs, CreateUpload(r) PROVE UploadsKept
  BY <1>1, <1>3 DEF CreateUpload, UploadsKept
<1>4. ASSUME NEW r \in Reqs, Assemble(r) PROVE UploadsKept
  BY <1>1, <1>4 DEF Assemble, UploadsKept, Upload
<1>5. ASSUME NEW u \in Uploads, NEW content, PutPart(u, content) PROVE UploadsKept
  BY <1>1, <1>5 DEF PutPart, UploadsKept, Upload
<1>6. ASSUME NEW r \in Reqs, HandlerStep(r) PROVE UploadsKept
  BY <1>2, <1>3, <1>4, <1>6
  DEF HandlerStep, PresignStep, CheckStep, StoreStep, MultipartStep, PresignLookup, PresignLink,
      PresignInsert, LinkApp, CompleteRow, CheckRowKey, Backfill, VerifySize,
      VerifyContent, CheckKeyFree, QuotaCount, QuotaBytes, FinalizePending, InsertStored,
      RefuseTakenDigest, FinalizeMultipart, InsertEvent, SelectStale, LogRetention,
      PurgeStale, InitStatus, UpsertUpload, MultipartRow, bucket
<1> QED
  BY <1>2, <1>5, <1>6
  DEF Next, RequestStep, Receive, Refuse, Abort, PendingGC, Environment, PutObject,
      PresignPart, CreateApp, LegacyInsert, vars, bucket

\* Rows that a step leaves alone, makes stored or takes away stay matched.
LEMMA RowsStayMatched ==
    ASSUME RowsMatched, UploadsKept,
           \A d \in Digests :
               \/ artifacts'[d].status # "pending" \/ artifacts'[d].upload = None
               \/ /\ artifacts[d].status = "pending"
                  /\ artifacts'[d].upload = artifacts[d].upload
                  /\ artifacts'[d].key = artifacts[d].key
    PROVE  RowsMatched'
<1> SUFFICES ASSUME NEW d \in Digests, artifacts'[d].status = "pending", artifacts'[d].upload # None
             PROVE  OpenedFor(artifacts[d].upload, artifacts[d].key)'
  BY DEF RowsMatched, Matched
<1>1. OpenedFor(artifacts[d].upload, artifacts[d].key)
  BY DEF RowsMatched, Matched
<1> QED
  BY <1>1 DEF OpenedFor, UploadsKept

\* Only the upsert of a multipart init gives a pending row an upload.
LEMMA HandlerRowsMatched ==
    ASSUME RowInv, UploadInv, UploadsKept, NEW r \in Reqs, HandlerStep(r)
    PROVE  RowsMatched'
<1> DEFINE c == call[r]
<1>1. /\ artifacts \in [Digests -> Row] /\ c.digest \in Digests /\ RowOf(c) = artifacts[c.digest]
      /\ artifacts[c.digest] \in Row
  BY NotDone, CallTyped DEF RowInv, TypeInv, TypeOK, RowOf
<1>2. RowsMatched
  BY DEF UploadInv
<1> HIDE DEF c
<1>3. ASSUME NEW row, artifacts' = [artifacts EXCEPT ![c.digest] = row],
             \/ row.status = "stored" \/ row.upload = None
             \/ /\ artifacts[c.digest].status = "pending"
                /\ row.upload = artifacts[c.digest].upload
                /\ row.key = artifacts[c.digest].key
      PROVE  RowsMatched'
  BY <1>1, <1>2, <1>3, RowsStayMatched
<1>4. CASE UNCHANGED artifacts
  BY <1>2, <1>4, RowsStayMatched
<1>5. CASE PresignInsert(r)
  <2> DEFINE row == [PendingRow(AppOf(r), OwnKey(c), None) EXCEPT !.id = rowCount + 1]
  <2>1. row.upload = None
    BY DEF PendingRow, NoRow
  <2>2. UNCHANGED artifacts \/ artifacts' = [artifacts EXCEPT ![c.digest] = row]
    BY <1>5 DEF PresignInsert, InsertRow, c
  <2> HIDE DEF row
  <2> QED
    BY <1>3, <1>4, <2>1, <2>2
<1>6. CASE Backfill(r)
  <2> DEFINE row == [artifacts[c.digest] EXCEPT !.app = c.app]
  <2>1. /\ row.status = artifacts[c.digest].status /\ row.upload = artifacts[c.digest].upload
        /\ row.key = artifacts[c.digest].key
    BY <1>1 DEF Row
  <2>2. UNCHANGED artifacts \/ artifacts' = [artifacts EXCEPT ![c.digest] = row]
    BY <1>6 DEF Backfill, c
  <2> HIDE DEF row
  <2>3. CASE artifacts' = [artifacts EXCEPT ![c.digest] = row]
    BY <1>1, <1>2, <2>1, <2>3, RowsStayMatched
  <2> QED
    BY <1>4, <2>2, <2>3
<1>7. CASE FinalizePending(r) \/ FinalizeMultipart(r)
  <2>1. ASSUME NEW app, NEW key, NEW idem
        PROVE  /\ [artifacts[c.digest] EXCEPT !.app = app, !.size = c.size, !.verified = FALSE,
                      !.key = key, !.status = "stored", !.idem = idem].status = "stored"
               /\ [artifacts[c.digest] EXCEPT !.app = app, !.size = c.size, !.verified = FALSE,
                      !.status = "stored", !.idem = idem].status = "stored"
    BY <1>1 DEF Row
  <2>2. CASE FinalizePending(r)
    <3> DEFINE row == [artifacts[c.digest] EXCEPT !.app = AppOf(r), !.size = c.size,
                          !.verified = FALSE, !.key = OwnKey(c), !.status = "stored",
                          !.idem = Coalesce(artifacts[c.digest].idem, c.idem)]
    <3>1. UNCHANGED artifacts \/ artifacts' = [artifacts EXCEPT ![c.digest] = row]
      BY <2>2 DEF FinalizePending, RowOf, c
    <3>2. row.status = "stored"
      BY <2>1
    <3> HIDE DEF row
    <3> QED
      BY <1>3, <1>4, <3>1, <3>2
  <2>3. CASE FinalizeMultipart(r)
    <3> DEFINE row == [artifacts[c.digest] EXCEPT !.app = AppOf(r), !.size = c.size,
                          !.verified = FALSE, !.status = "stored",
                          !.idem = Coalesce(artifacts[c.digest].idem, c.idem)]
    <3>1. UNCHANGED artifacts \/ artifacts' = [artifacts EXCEPT ![c.digest] = row]
      BY <2>3 DEF FinalizeMultipart, RowOf, c
    <3>2. row.status = "stored"
      BY <2>1
    <3> HIDE DEF row
    <3> QED
      BY <1>3, <1>4, <3>1, <3>2
  <2> QED
    BY <1>7, <2>2, <2>3
<1>8. CASE InsertStored(r)
  <2> DEFINE row == [[NoRow EXCEPT !.app = AppOf(r), !.size = c.size,
                         !.verified = seen[r].verified, !.key = OwnKey(c),
                         !.status = "stored", !.idem = c.idem] EXCEPT !.id = rowCount + 1]
  <2>1. row.status = "stored"
    BY DEF NoRow
  <2>2. UNCHANGED artifacts \/ artifacts' = [artifacts EXCEPT ![c.digest] = row]
    BY <1>8 DEF InsertStored, RefuseTakenDigest, InsertRow, c
  <2> HIDE DEF row
  <2> QED
    BY <1>3, <1>4, <2>1, <2>2
<1>9. CASE PurgeStale(r)
  <2>1. NoRow.status = "absent"
    BY DEF NoRow
  <2>2. UNCHANGED artifacts \/ \A d \in Digests : artifacts'[d] \in {NoRow, artifacts[d]}
    BY <1>9 DEF PurgeStale, Delete
  <2> QED
    BY <1>2, <1>4, <2>1, <2>2, RowsStayMatched
<1>10. CASE UpsertUpload(r)
  <2> DEFINE u   == seen[r].upload
             k   == OwnKey(c)
             new == [PendingRow(None, k, u) EXCEPT !.id = rowCount + 1]
             old == Reinit(artifacts[c.digest], k, u)
  <2>1. OpenedFor(u, k)
    BY <1>10 DEF UpsertUpload, Query, UploadInv, UpsertsMatched, c
  <2>2. new.upload = u /\ new.key = k /\ old.upload = u /\ old.key = k
    BY <1>1 DEF PendingRow, NoRow, Reinit, Row
  <2>3. \/ artifacts' = [artifacts EXCEPT ![c.digest] = new]
        \/ artifacts' = [artifacts EXCEPT ![c.digest] = old]
        \/ UNCHANGED artifacts
    BY <1>10 DEF UpsertUpload, InsertRow, RowOf, c
  <2> HIDE DEF u, k, new, old
  <2>4. \A d \in Digests : \/ artifacts'[d] = artifacts[d]
                           \/ artifacts'[d].upload = u /\ artifacts'[d].key = k
    BY <1>1, <2>2, <2>3
  <2>5. u \in Uploads /\ uploads'[u].state # "unused" /\ uploads'[u].key = k
    BY <2>1 DEF OpenedFor, UploadsKept
  <2>6. ASSUME NEW d \in Digests PROVE Matched(d)'
    BY <1>2, <2>4, <2>5 DEF RowsMatched, Matched, OpenedFor, UploadsKept
  <2> QED
    BY <2>6 DEF RowsMatched
<1> QED
  BY <1>4, <1>5, <1>6, <1>7, <1>8, <1>9, <1>10
  DEF HandlerStep, PresignStep, CheckStep, StoreStep, MultipartStep, PresignLookup,
      PresignLink, LinkApp, CompleteRow, CheckRowKey, VerifySize, VerifyContent, CheckKeyFree,
      QuotaCount, QuotaBytes, InsertEvent, SelectStale, LogRetention, InitStatus,
      CreateUpload, MultipartRow, Assemble, db

\* Only CreateUpload brings a handler to its upsert, with the upload it opened.
LEMMA HandlerUpsertsMatched ==
    ASSUME RowInv, UploadInv, UploadsKept, NEW r \in Reqs, HandlerStep(r)
    PROVE  UpsertsMatched'
<1>1. /\ pc \in [Reqs -> Steps] /\ seen \in [Reqs -> Seen] /\ call \in [Reqs -> Calls \cup {NoCall}]
      /\ uploads \in [Uploads -> Upload]
  BY DEF RowInv, TypeInv, TypeOK
<1>2. UpsertsMatched
  BY DEF UploadInv
<1>3. ASSUME NEW q \in Reqs, pc'[q] = "upsert", pc[q] = "upsert", seen'[q] = seen[q], call'[q] = call[q]
      PROVE  OpenedFor(seen[q].upload, OwnKey(call[q]))'
  <2>1. OpenedFor(seen[q].upload, OwnKey(call[q]))
    BY <1>2, <1>3 DEF UpsertsMatched
  <2> QED
    BY <1>3, <2>1 DEF OpenedFor, UploadsKept, OwnKey
<1>4. ASSUME pc'[r] # "upsert", \A q \in Reqs \ {r} : pc'[q] = pc[q] /\ seen'[q] = seen[q] /\ call'[q] = call[q]
      PROVE  UpsertsMatched'
  BY <1>3, <1>4 DEF UpsertsMatched
<1>5. ASSUME NEW code, Reply(r, code) PROVE UpsertsMatched'
  BY <1>1, <1>4, <1>5 DEF Reply
<1>6. ASSUME NEW locals, NEW step, Note(r, locals, step), step # "upsert" PROVE UpsertsMatched'
  BY <1>1, <1>4, <1>6 DEF Note, Goto
<1>7. ASSUME NEW step, Continue(r, step), step # "upsert" PROVE UpsertsMatched'
  BY <1>6, <1>7 DEF Continue
<1>8. \A linked : AfterChecks(linked) # "upsert"
  BY DEF AfterChecks
<1>9. CASE CreateUpload(r)
  <2>1. ASSUME NEW u \in Uploads,
               uploads' = [uploads EXCEPT ![u] =
                  [key |-> OwnKey(call[r]), content |-> None, state |-> "open"]],
               Note(r, [seen[r] EXCEPT !.upload = u], "upsert")
        PROVE  UpsertsMatched'
    <3>1. /\ seen'[r].upload = u /\ call' = call
          /\ \A q \in Reqs \ {r} : pc'[q] = pc[q] /\ seen'[q] = seen[q]
      BY <1>1, <2>1 DEF Note, Goto, Seen
    <3>2. OpenedFor(seen[r].upload, OwnKey(call[r]))'
      BY <1>1, <2>1, <3>1 DEF OpenedFor, OwnKey
    <3> QED
      BY <1>3, <3>1, <3>2 DEF UpsertsMatched
  <2> QED
    BY <1>5, <1>9, <2>1 DEF CreateUpload
<1>10. CASE PresignStep(r)
  BY <1>5, <1>6, <1>7, <1>10 DEF PresignStep, PresignLookup, PresignLink, PresignInsert
<1>11. CASE CheckStep(r)
  <2>1. CASE LinkApp(r)
    BY <1>6, <1>8, <2>1 DEF LinkApp
  <2>2. CASE CompleteRow(r)
    BY <1>5, <1>6, <1>7, <2>2 DEF CompleteRow
  <2>3. CASE CheckKeyFree(r)
    BY <1>5, <1>6, <1>8, <2>3 DEF CheckKeyFree
  <2>4. CASE CheckRowKey(r) \/ Backfill(r) \/ QuotaCount(r) \/ QuotaBytes(r)
    BY <1>5, <1>6, <1>7, <2>4 DEF CheckRowKey, Backfill, QuotaCount, QuotaBytes
  <2>5. CASE VerifySize(r) \/ VerifyContent(r)
    BY <1>5, <1>7, <1>8, <2>5 DEF VerifySize, VerifyContent
  <2> QED
    BY <1>11, <2>1, <2>2, <2>3, <2>4, <2>5 DEF CheckStep
<1>12. CASE StoreStep(r)
  <2>1. CASE InsertStored(r)
    BY <1>5, <1>6, <2>1 DEF InsertStored, RefuseTakenDigest
  <2>2. CASE FinalizePending(r) \/ FinalizeMultipart(r)
    BY <1>5, <1>7, <2>2 DEF FinalizePending, FinalizeMultipart
  <2>3. CASE InsertEvent(r) \/ LogRetention(r) \/ PurgeStale(r)
    BY <1>5, <1>7, <2>3 DEF InsertEvent, LogRetention, PurgeStale
  <2>4. CASE SelectStale(r)
    BY <1>5, <1>6, <2>4 DEF SelectStale
  <2> QED
    BY <1>12, <2>1, <2>2, <2>3, <2>4 DEF StoreStep
<1>13. CASE InitStatus(r) \/ UpsertUpload(r) \/ MultipartRow(r) \/ Assemble(r)
  BY <1>5, <1>6, <1>7, <1>13 DEF InitStatus, UpsertUpload, MultipartRow, Assemble
<1> QED
  BY <1>9, <1>10, <1>11, <1>12, <1>13 DEF HandlerStep, MultipartStep

LEMMA UploadInvNext == RowInv /\ UploadInv /\ [Next]_vars => UploadInv'
<1> SUFFICES ASSUME RowInv, UploadInv, [Next]_vars PROVE UploadInv'
  OBVIOUS
<1>1. UploadsKept
  BY NextUploadsKept
<1>2. /\ pc \in [Reqs -> Steps] /\ call \in [Reqs -> Calls \cup {NoCall}]
      /\ RowsMatched /\ UpsertsMatched
  BY DEF RowInv, TypeInv, TypeOK, UploadInv
<1>3. UNCHANGED artifacts => RowsMatched'
  BY <1>1, <1>2, RowsStayMatched
<1>4. ASSUME NEW q \in Reqs, pc[q] = "upsert", seen'[q] = seen[q], call'[q] = call[q]
      PROVE  OpenedFor(seen[q].upload, OwnKey(call[q]))'
  BY <1>1, <1>2, <1>4 DEF UpsertsMatched, OpenedFor, UploadsKept, OwnKey
<1>5. UNCHANGED handler => UpsertsMatched'
  BY <1>4 DEF UpsertsMatched, handler
<1>6. ASSUME NEW r \in Reqs, HandlerStep(r) PROVE UploadInv'
  BY <1>1, <1>6, HandlerRowsMatched, HandlerUpsertsMatched DEF UploadInv
<1>7. ASSUME NEW i \in RowIds, PendingGC(i) PROVE UploadInv'
  <2>1. NoRow.status = "absent"
    BY DEF NoRow
  <2>2. RowsMatched'
    BY <1>1, <1>2, <1>7, <2>1, RowsStayMatched DEF PendingGC, Delete
  <2> QED
    BY <1>5, <1>7, <2>2 DEF PendingGC, UploadInv
<1>8. ASSUME NEW r \in Reqs, NEW c \in Calls, Receive(r, c) PROVE UploadInv'
  <2>1. FirstStep(c.kind) # "upsert"
    BY ConstantsAssumption DEF FirstStep, Call, Kinds
  <2>2. /\ pc'[r] # "upsert" /\ seen' = seen /\ UNCHANGED artifacts
        /\ \A q \in Reqs \ {r} : pc'[q] = pc[q] /\ call'[q] = call[q]
    BY <1>2, <1>8, <2>1 DEF Receive, Goto, db
  <2> QED
    BY <1>3, <1>4, <2>2 DEF UploadInv, UpsertsMatched
<1>9. ASSUME NEW r \in Reqs, Abort(r) PROVE UploadInv'
  <2>1. seen \in [Reqs -> Seen]
    BY DEF RowInv, TypeInv, TypeOK
  <2>2. /\ pc'[r] # "upsert" /\ UNCHANGED artifacts
        /\ \A q \in Reqs \ {r} : pc'[q] = pc[q] /\ call'[q] = call[q] /\ seen'[q] = seen[q]
    BY <1>2, <1>9, <2>1 DEF Abort, db
  <2> QED
    BY <1>3, <1>4, <2>2 DEF UploadInv, UpsertsMatched
<1>10. ASSUME NEW r \in Reqs, NEW c \in Calls, Refuse(r, c) PROVE UploadInv'
  BY <1>3, <1>4, <1>10 DEF Refuse, UploadInv, UpsertsMatched, db
<1>11. CASE UNCHANGED <<artifacts, handler>>
  BY <1>3, <1>5, <1>11 DEF UploadInv
<1>12. ASSUME NEW c \in Legacy, LegacyInsert(c) PROVE UploadInv'
  <2>1. PICK row \in Row : /\ row.status = "stored"
                           /\ artifacts' = [artifacts EXCEPT ![c.digest] = row]
    BY <1>12, LegacyRow
  <2>2. RowsMatched'
    BY <1>1, <1>2, <2>1, RowsStayMatched DEF RowInv, TypeInv, TypeOK
  <2> QED
    BY <1>5, <1>12, <2>2 DEF LegacyInsert, UploadInv
<1> QED
  BY <1>6, <1>7, <1>8, <1>9, <1>10, <1>11, <1>12, EnvironmentQuiet DEF Next, RequestStep

\* The storage key and the multipart upload of a pending row belong together,
\* however inits of one digest and the pending GC interleave.
THEOREM UploadsMatchKeys == Spec => []UploadMatchesKey
<1>1. Init => UploadInv
  BY DEF Init, UploadInv, RowsMatched, Matched, UpsertsMatched, NoRow
<1>2. UploadInv => UploadMatchesKey
  BY DEF UploadInv, RowsMatched, Matched, OpenedFor, UploadMatchesKey
<1> QED
  BY <1>1, <1>2, UploadInvNext, RowInvInvariant, PTL DEF Spec
===============================================================================
