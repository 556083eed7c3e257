----------------------------- MODULE MCSetupVerify -----------------------------
(***************************************************************************)
(* Instances of SetupVerify for TLC.                                       *)
(***************************************************************************)
EXTENDS SetupVerify

CONSTANTS c1, c2

================================================================================
