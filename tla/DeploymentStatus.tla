--------------------------- MODULE DeploymentStatus ---------------------------
(***************************************************************************)
(* The life of a deployment as its clients see it through                  *)
(* GET /deployments/{id}: it is created pending, becomes running or failed *)
(* once (or, if Rejudged, again and again, but never pending), and is      *)
(* forgotten only when it failed and a later deployment of the same        *)
(* application runs.                                                       *)
(***************************************************************************)
EXTENDS Naturals

CONSTANTS
    Ids, Apps, None,
    Rejudged  \* a verdict may be replaced by another one

VARIABLES
    status,  \* id -> "none", "pending", "running" or "failed"
    owner    \* id -> the application it deploys

vars == <<status, owner>>

Init == status = [i \in Ids |-> "none"] /\ owner = [i \in Ids |-> None]

Create(i, a) ==
    /\ status[i] = "none" /\ \A j \in Ids : j > i => status[j] = "none"
    /\ status' = [status EXCEPT ![i] = "pending"]
    /\ owner' = [owner EXCEPT ![i] = a]

Resolve(i, outcome) ==
    /\ status[i] = "pending" \/ (Rejudged /\ status[i] # "none")
    /\ status' = [status EXCEPT ![i] = outcome]
    /\ UNCHANGED owner

Superseded(i) == \E j \in Ids : j > i /\ status[j] = "running" /\ owner[j] = owner[i]

Forget(gone) ==
    /\ \A i \in gone : status[i] = "failed" /\ Superseded(i)
    /\ status' = [i \in Ids |-> IF i \in gone THEN "none" ELSE status[i]]
    /\ owner' = [i \in Ids |-> IF i \in gone THEN None ELSE owner[i]]

Next ==
    \/ \E i \in Ids : \/ \E a \in Apps : Create(i, a)
                      \/ \E outcome \in {"running", "failed"} : Resolve(i, outcome)
    \/ \E gone \in SUBSET Ids : Forget(gone)

Spec == Init /\ [][Next]_vars
===============================================================================
