--------------------------- MODULE ArtifactLifecycle --------------------------
(***************************************************************************)
(* What the registry promises its clients, without rows, connections or    *)
(* buckets: an artifact is absent, pending or stored, and a client is told *)
(* "stored" only about a digest that was stored at some moment between its *)
(* request and the answer.  A stored artifact only ever leaves through     *)
(* retention, a pending one may expire.                                    *)
(***************************************************************************)
CONSTANTS Digests, Slots, None, Retention

VARIABLES
    status,  \* digest -> "absent", "pending" or "stored"
    client   \* slot -> what the client in that slot may rely on

vars == <<status, client>>

Working(d)      == [at |-> "working", digest |-> d]
Witnessed(d)    == [at |-> "witnessed", digest |-> d]
Acknowledged(d) == [at |-> "acknowledged", digest |-> d]
Idle            == [at |-> "idle", digest |-> None]

TypeOK ==
    /\ status \in [Digests -> {"absent", "pending", "stored"}]
    /\ client \in [Slots -> {Idle} \cup [at : {"working", "witnessed", "acknowledged"},
                                         digest : Digests]]

Init == status = [d \in Digests |-> "absent"] /\ client = [s \in Slots |-> Idle]

Moves(s, to) == client' = [client EXCEPT ![s] = to]

\* A request about d arrives at a free slot.
Begin(s, d) ==
    client[s] \in {Idle} \cup {Acknowledged(e) : e \in Digests}
    /\ Moves(s, Working(d)) /\ UNCHANGED status

\* Any request may fail, or its client go away.
GiveUp(s) == Moves(s, Idle) /\ UNCHANGED status

\* The digest is announced, and the request goes on or ends.
Announce(s, d) ==
    /\ client[s] = Working(d) /\ status[d] = "absent"
    /\ status' = [status EXCEPT ![d] = "pending"]
    /\ Moves(s, Idle)

\* The request itself stores its digest, and is acknowledged later.
Store(s, d) ==
    /\ client[s] = Working(d)
    /\ status' = [status EXCEPT ![d] = "stored"]
    /\ Moves(s, Witnessed(d))

Acknowledge(s, d) ==
    /\ \/ client[s] = Witnessed(d)
       \/ client[s] = Working(d) /\ status[d] = "stored"
    /\ Moves(s, Acknowledged(d))
    /\ UNCHANGED status

\* Retention removes other artifacts, possibly its own, as it acknowledges.
Retire(s, d) ==
    /\ Retention
    /\ client[s] = Witnessed(d)
    /\ \E gone \in SUBSET {e \in Digests : status[e] = "stored"} :
         status' = [e \in Digests |-> IF e \in gone THEN "absent" ELSE status[e]]
    /\ Moves(s, Acknowledged(d))

Expire ==
    /\ \E gone \in SUBSET {e \in Digests : status[e] = "pending"} :
         status' = [e \in Digests |-> IF e \in gone THEN "absent" ELSE status[e]]
    /\ UNCHANGED client

\* Another endpoint stores an artifact that is absent, for nobody who asks here.
Deposit(d) ==
    /\ status[d] = "absent"
    /\ status' = [status EXCEPT ![d] = "stored"]
    /\ UNCHANGED client

Next ==
    \/ \E s \in Slots :
         \/ GiveUp(s)
         \/ \E d \in Digests : \/ Begin(s, d) \/ Announce(s, d) \/ Store(s, d)
                               \/ Acknowledge(s, d) \/ Retire(s, d)
    \/ Expire
    \/ \E d \in Digests : Deposit(d)

Spec == Init /\ [][Next]_vars

\* Without retention an acknowledgement is a promise for good: while a client
\* holds it, the digest is stored.
AcknowledgedStored ==
    ~Retention => \A s \in Slots : client[s].at \in {"witnessed", "acknowledged"}
                                     => status[client[s].digest] = "stored"
===============================================================================
