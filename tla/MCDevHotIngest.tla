---------------------------- MODULE MCDevHotIngest ----------------------------
(***************************************************************************)
(* Instance of DevHotIngest, and of DevHotFetcher in it, for TLC.          *)
(***************************************************************************)
EXTENDS DevHotIngest, TLC

CONSTANTS d1, d2, f1, f2, f3

\* The two archives share a file and each has one of its own.
Overlapping == d1 :> {f1, f2} @@ d2 :> {f2, f3}
===============================================================================
