----------------------------- MODULE DevHotIngest ------------------------------
(***************************************************************************)
(* The log ingestion of the control plane next to the fetcher: it reads    *)
(* the tail of the fetcher's log again and again and counts the marker     *)
(* lines whose hash it has not seen.  A line stands for its hash.  A poll  *)
(* whose pod list or log request fails changes nothing.                    *)
(***************************************************************************)
EXTENDS DevHotFetcher

CONSTANTS
    Cap,     \* hashes kept for a pod
    Drained  \* hashes dropped when there are more

ASSUME IngestAssumption == Cap \in Nat /\ Drained \in 1..Cap

VARIABLES
    text,  \* the lines of the last answer that are still to be handled
    seen   \* the hashes of the pod

ingest == <<text, seen>>
vars   == <<fetcherVars, ingest>>

-----------------------------------------------------------------------------
\* pods.list and pods.logs; a pod without the annotations is passed over.
ReadLog ==
    /\ text = <<>> /\ ann # None
    /\ text' = log
    /\ UNCHANGED <<fetcherVars, seen>>

\* parse_and_record is called: one more refresh, or failure, in the metrics.
Counted == text # <<>> /\ Head(text) \notin seen

RestUntilSeen == IF Counted THEN Tail(text) ELSE <<>>  \* faulty: break instead of continue
Rest          == Tail(text)

WithLine == seen \cup {Head(text)}

ShrunkByNone == {0}        \* faulty: the set grows
ShrunkByOne  == {1}        \* faulty: only what is too much is dropped
ShrunkBy     == {Drained}

\* Once per hash; at the cap arbitrary hashes are dropped, the line's own perhaps.
HandleLine ==
    /\ text # <<>>
    /\ text' = Rest
    /\ IF ~Counted THEN UNCHANGED seen
       ELSE IF Cardinality(WithLine) <= Cap THEN seen' = WithLine
       ELSE \E drain \in SUBSET WithLine :
              Cardinality(drain) \in ShrunkBy /\ seen' = WithLine \ drain
    /\ UNCHANGED fetcherVars

\* The control plane restarts, its metrics with it.
Restart ==
    /\ Fault
    /\ text' = <<>> /\ seen' = {}
    /\ Inside /\ UNCHANGED shell

-----------------------------------------------------------------------------
Init == FetcherInit /\ text = <<>> /\ seen = {}

IngestStep == ReadLog \/ HandleLine
Next       == (FetcherNext /\ UNCHANGED ingest) \/ IngestStep \/ Restart

\* The kubelet restarts the script and the shell goes on; the loop polls again.
Spec == Init /\ [][Next]_vars
             /\ WF_vars(ScriptStep /\ UNCHANGED ingest) /\ WF_vars(IngestStep)

-----------------------------------------------------------------------------
\* Every variable has its type.
TypeOK ==
    /\ FetcherTypeOK
    /\ text \in Seq(Lines) /\ Len(text) <= TailLines
    /\ seen \subseteq Lines /\ Cardinality(seen) <= Cap

\* A marker that stays in the tail of the log of an annotated pod is counted and
\* remembered, however the hashes of other lines fill the set.
TailCounted == \A l \in Lines :
    ([]<>(ann # None) /\ <>[](\E i \in DOMAIN log : log[i] = l)) => []<>(l \in seen)

\* Once the fetcher writes nothing more, nothing more is counted: the hashes that
\* the cap dropped do not make the same tail be counted over and over.
CountsSettle == <>[][log' = log]_log => <>[]~Counted
===============================================================================
