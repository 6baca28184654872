--------------------------- MODULE DeploymentClaims ---------------------------
(***************************************************************************)
(* What the repository's documents say of deployments and the code of      *)
(* DeploymentController does not do.                                       *)
(***************************************************************************)
EXTENDS DeploymentController

\* docs/issues/04, K3: the controller detects a failed init container, failed
\* progress or a timeout, so a deployment does not stay pending.
PendingResolves ==
    \A i \in Ids : deployments[i].status = "pending" ~> deployments[i].status # "pending"
===============================================================================
