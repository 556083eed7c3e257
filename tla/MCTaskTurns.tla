------------------------------ MODULE MCTaskTurns ------------------------------
(***************************************************************************)
(* Instances of TaskTurns for TLC: the turns of each task are consecutive  *)
(* numbers, handlers are interchangeable.                                  *)
(***************************************************************************)
EXTENDS TaskTurns, TLC

CONSTANTS t1, h1, h2

MCTaskOf == [u \in Turns |-> t1]

Symmetry == Permutations(Handlers)

================================================================================
