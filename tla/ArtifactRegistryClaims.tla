------------------------ MODULE ArtifactRegistryClaims ------------------------
(***************************************************************************)
(* What the documentation says of the registry and the code does not do.   *)
(* TLC refutes the claim; the finding that goes with it quotes the         *)
(* sentence.                                                               *)
(***************************************************************************)
EXTENDS ArtifactRegistryProps

\* Summary of POST /artifacts/complete: the object whose integrity was checked
\* is the one the finalized row refers to.
CheckedKeyIsStored ==
    [][\A r \in Reqs :
         pc[r] = "store" /\ pc'[r] = "event" /\ seen[r].row # 0
           => artifacts'[call[r].digest].key = seen[r].key]_vars
===============================================================================
