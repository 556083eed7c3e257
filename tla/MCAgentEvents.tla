----------------------------- MODULE MCAgentEvents -----------------------------
(***************************************************************************)
(* Instances of AgentEvents for TLC.                                       *)
(***************************************************************************)
EXTENDS AgentEvents

CONSTANTS plain, command

MCTextLength == [t \in {plain, command} |-> IF t = plain THEN 2 ELSE 4]
MCHeader == [t \in {plain, command} |-> IF t = plain THEN 0 ELSE 1]

================================================================================
