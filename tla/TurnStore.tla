------------------------------- MODULE TurnStore -------------------------------
(***************************************************************************)
(* The statements of src/task/turn-store.ts on one row of task_turns, as   *)
(* functions from the row before to the row after.  A guarded UPDATE that  *)
(* matches nothing returns the row unchanged, which is how its caller      *)
(* learns that it lost a race.                                             *)
(***************************************************************************)
EXTENDS Naturals

TurnStatus == {"queued", "running", "completed", "failed", "cancelled"}

TerminalTurnStatuses == {"completed", "failed", "cancelled"}

\* A row that insertTurn has not written yet has status "none".
Row == [status : TurnStatus \cup {"none"}, cancelReq : BOOLEAN, attempts : Nat]

NoRow == [status |-> "none", cancelReq |-> FALSE, attempts |-> 0]

InsertTurn(row) ==
  IF row.status = "none" THEN [row EXCEPT !.status = "queued"] ELSE row

--------------------------------------------------------------------------------
\* WHERE status = 'queued' AND cancel_requested_at IS NULL
Claimable(row) == row.status = "queued" /\ ~row.cancelReq

\* WHERE status = 'running' AND cancel_requested_at IS NULL
Unstopped(row) == row.status = "running" /\ ~row.cancelReq

ClaimQueuedTurn(row) ==
  IF Claimable(row)
  THEN [row EXCEPT !.status = "running", !.attempts = @ + 1]
  ELSE row

\* Mutant: the guard forgets cancel_requested_at.
MarkTurnCompletedUngated(row) ==
  IF row.status = "running" THEN [row EXCEPT !.status = "completed"] ELSE row

MarkTurnCompleted(row) ==
  IF Unstopped(row) THEN [row EXCEPT !.status = "completed"] ELSE row

MarkTurnFailed(row) ==
  IF Unstopped(row) THEN [row EXCEPT !.status = "failed"] ELSE row

\* Mutant: a status that no reader of the row knows.
MarkTurnRetryingAsStatus(row) ==
  IF Unstopped(row) THEN [row EXCEPT !.status = "retrying"] ELSE row

\* Back to the queue; the next claim counts the attempt, not this statement.
MarkTurnRetrying(row) ==
  IF Unstopped(row) THEN [row EXCEPT !.status = "queued"] ELSE row

\* Unconditional: cancellation is a gate, not a status.
RequestCancel(row) == [row EXCEPT !.cancelReq = TRUE]

\* Clean-up: a row that is already terminal keeps its status.
MarkTurnCancelled(row) ==
  IF row.status \in {"queued", "running"}
  THEN [row EXCEPT !.status = "cancelled"]
  ELSE row

CancelPending(row) ==
  IF row.status = "queued" THEN [row EXCEPT !.status = "cancelled"] ELSE row

\* Boot recovery: ignores the cancel gate and keeps the attempt count.
RequeueInterruptedTurn(row) ==
  IF row.status = "running" THEN [row EXCEPT !.status = "queued"] ELSE row

ShouldSkipTurn(row) ==
  row.status \in TerminalTurnStatuses \cup {"none"} \/ row.cancelReq

================================================================================
