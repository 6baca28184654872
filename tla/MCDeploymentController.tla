------------------------- MODULE MCDeploymentController -----------------------
(***************************************************************************)
(* Instances of DeploymentController for TLC.                              *)
(***************************************************************************)
EXTENDS DeploymentClaims, TLC

CONSTANTS a1, a2, d1, d2, u1, u2, u3, p1, p2

\* The third url carries no digest.
MCDigestIn == [u \in Urls |-> CASE u = u1 -> d1 [] u = u2 -> d2 [] OTHER -> None]

Post(a, u, signature) == [app |-> a, url |-> u, signature |-> signature]

\* A signed deployment and one without a digest, which compete for the status
\* of one application; requests that must be refused.
SafetyRequests == {Post(a1, u1, "valid"), Post(a1, u3, "none"), Post(a1, u3, "valid"),
                   Post(a1, u2, "invalid")}

\* One artifact, deployed again and again.
SameRequests == {Post(a1, u1, "none")}
===============================================================================
