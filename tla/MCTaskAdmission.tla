--------------------------- MODULE MCTaskAdmission ---------------------------
(***************************************************************************)
(* Instances of TaskAdmission for TLC.                                     *)
(***************************************************************************)
EXTENDS TaskAdmission

CONSTANTS r1, f1

MCThreadOf == [f \in FollowUps |-> r1]

================================================================================
