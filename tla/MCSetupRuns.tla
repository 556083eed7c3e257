------------------------------ MODULE MCSetupRuns ------------------------------
(***************************************************************************)
(* Instances of SetupRuns for TLC.                                         *)
(***************************************************************************)
EXTENDS SetupRuns

CONSTANTS k1, d1

================================================================================
