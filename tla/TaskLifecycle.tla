----------------------------- MODULE TaskLifecycle -----------------------------
(***************************************************************************)
(* What the store promises about tasks.status and task_turns.status        *)
(* whatever the handlers, controls and recoveries of TaskTurns do and      *)
(* however they interleave: the two status machines, the cancel gate of a  *)
(* turn, and the one coupling between them that every step keeps: a turn   *)
(* is gated only in a task that was cancelled.                             *)
(***************************************************************************)
CONSTANTS Tasks, Turns, TaskOf

VARIABLES
  task,    \* status of each task
  turn,    \* status of each turn, "none" before its row exists
  gated    \* the turns whose cancellation was requested

vars == <<task, turn, gated>>

\* The edges of the task machine once the thread is attached.
TaskEdges ==
  {<<"queued", "running">>, <<"waiting", "running">>,
   <<"running", "waiting">>, <<"running", "queued">>, <<"running", "failed">>,
   <<"queued", "cancelled">>, <<"waiting", "cancelled">>, <<"running", "cancelled">>,
   <<"queued", "completed">>, <<"waiting", "completed">>}

TurnEdges ==
  {<<"none", "queued">>, <<"queued", "running">>, <<"running", "queued">>,
   <<"running", "completed">>, <<"running", "failed">>,
   <<"queued", "cancelled">>, <<"running", "cancelled">>}

\* A gated turn is not started, completed, failed or retried any more; a
\* restart may put it back into the queue.
GatedEdges ==
  {<<"queued", "cancelled">>, <<"running", "cancelled">>, <<"running", "queued">>}

Init ==
  /\ task = [t \in Tasks |-> "queued"]
  /\ turn = [u \in Turns |-> "none"]
  /\ gated = {}

MoveTask(t) ==
  /\ \E edge \in TaskEdges :
       task[t] = edge[1] /\ task' = [task EXCEPT ![t] = edge[2]]
  /\ UNCHANGED <<turn, gated>>

MoveTurn(u) ==
  /\ \E edge \in IF u \in gated THEN GatedEdges ELSE TurnEdges :
       turn[u] = edge[1] /\ turn' = [turn EXCEPT ![u] = edge[2]]
  /\ UNCHANGED <<task, gated>>

\* The queued turns of a stopped task are cancelled in one statement.
CancelQueued(t) ==
  /\ task[t] \in {"cancelled", "completed", "failed"}
  /\ turn' = [u \in Turns |->
       IF TaskOf[u] = t /\ turn[u] = "queued" THEN "cancelled" ELSE turn[u]]
  /\ UNCHANGED <<task, gated>>

Gate(u) ==
  /\ task[TaskOf[u]] = "cancelled"
  /\ turn[u] # "none"
  /\ gated' = gated \cup {u}
  /\ UNCHANGED <<task, turn>>

Next ==
  \/ \E t \in Tasks : MoveTask(t) \/ CancelQueued(t)
  \/ \E u \in Turns : MoveTurn(u) \/ Gate(u)

Spec == Init /\ [][Next]_vars

================================================================================
