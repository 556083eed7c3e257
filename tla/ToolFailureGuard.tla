--------------------------- MODULE ToolFailureGuard ---------------------------
(***************************************************************************)
(* The counters of src/flue/tool-failure-guard.ts for one agent instance.  *)
(* A state that was deleted and one that was never made behave alike.      *)
(***************************************************************************)
EXTENDS Naturals

CONSTANTS MaxFailures,           \* AGENT_MAX_TOOL_FAILURES
          MaxValidationFailures  \* AGENT_MAX_VALIDATION_FAILURES

ASSUME Thresholds == MaxFailures \in Nat \ {0} /\ MaxValidationFailures \in Nat \ {0}

Results == {"ok", "error", "invalid"}  \* "invalid": an error the guard takes for a schema error

Guards == [failures : Nat, validation : Nat, tripped : BOOLEAN, delivered : BOOLEAN]
NoGuard == [failures |-> 0, validation |-> 0, tripped |-> FALSE, delivered |-> FALSE]

\* Mutant: a success leaves the streak of schema errors.
CountedForgetful(g, result) ==
  IF result = "ok" THEN [g EXCEPT !.failures = 0]
  ELSE IF g.tripped THEN g
  ELSE [g EXCEPT !.failures = @ + 1,
                 !.validation = IF result = "invalid" THEN @ + 1 ELSE 0]

Counted(g, result) ==
  IF result = "ok" THEN [g EXCEPT !.failures = 0, !.validation = 0]
  ELSE IF g.tripped THEN g
  ELSE [g EXCEPT !.failures = @ + 1,
                 !.validation = IF result = "invalid" THEN @ + 1 ELSE 0]

\* Does the result trip a guard that was g before it was counted?
Trips(g, result) ==
  /\ result # "ok" /\ ~g.tripped
  /\ \/ /\ result = "invalid"
        /\ Counted(g, result).validation >= MaxValidationFailures
        /\ MaxValidationFailures <= MaxFailures
     \/ Counted(g, result).failures >= MaxFailures

ShouldSkip(g) == g.delivered

================================================================================
