---------------------------- MODULE MCLegacyUpload ----------------------------
(***************************************************************************)
(* Instances of LegacyUpload for TLC.                                      *)
(***************************************************************************)
EXTENDS LegacyUpload

CONSTANTS d1, d2, junk
===============================================================================
