------------------------------- MODULE TurnQueue -------------------------------
(***************************************************************************)
(* The pg-boss queue "task-turn" as src/task/boss.ts configures and uses   *)
(* it (pg-boss is a library, not part of the repository).  A job carries a *)
(* turn; its singleton key is the turn's task.  Policy key_strict_fifo:    *)
(* at most one active job per key, first in first out within the key; a    *)
(* job that waits to be retried keeps its place.                           *)
(*                                                                         *)
(* jobs is the sequence of every job ever sent, in the order of sending:   *)
(* a job is its index, and a terminal job stays, as it does in the table.  *)
(***************************************************************************)
EXTENDS Naturals, Sequences

LiveJobStates == {"created", "active", "retry"}

JobState == LiveJobStates \cup {"completed", "cancelled", "failed"}

Live(jobs, j) == jobs[j].state \in LiveJobStates

\* The live jobs whose key is shared by the turns in keyed.
LiveJobs(jobs, keyed) ==
  {j \in DOMAIN jobs : jobs[j].turn \in keyed /\ Live(jobs, j)}

Send(jobs, u) == Append(jobs, [turn |-> u, state |-> "created", retries |-> 0])

\* Mutant: a job that waits for its retry loses its place.
DeliverablePastRetry(jobs, j, keyed) ==
  /\ jobs[j].state \in {"created", "retry"}
  /\ \A i \in LiveJobs(jobs, keyed) : jobs[i].state = "retry" \/ j <= i

\* Job j may be delivered: no live job of its key was sent before it.
Deliverable(jobs, j, keyed) ==
  /\ jobs[j].state \in {"created", "retry"}
  /\ \A i \in LiveJobs(jobs, keyed) : j <= i

\* A redelivery is what pg-boss counts as a retry.
Deliver(jobs, j) ==
  [jobs EXCEPT ![j].state = "active",
               ![j].retries = IF jobs[j].state = "retry" THEN @ + 1 ELSE @]

CompleteJob(jobs, j) ==
  IF jobs[j].state = "active"
  THEN [jobs EXCEPT ![j].state = "completed"]
  ELSE jobs

\* The handler threw, or the job was not heard of for too long.
FailJob(jobs, j, limit) ==
  IF jobs[j].state = "active"
  THEN [jobs EXCEPT ![j].state =
          IF jobs[j].retries < limit THEN "retry" ELSE "failed"]
  ELSE jobs

\* Cancels every job of the key that is not terminal, active ones included.
\* A handler that runs for a cancelled job is not interrupted.
ReleaseTaskSingleton(jobs, keyed) ==
  [j \in DOMAIN jobs |->
     IF j \in LiveJobs(jobs, keyed)
     THEN [jobs[j] EXCEPT !.state = "cancelled"]
     ELSE jobs[j]]

================================================================================
