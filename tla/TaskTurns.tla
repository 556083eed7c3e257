------------------------------- MODULE TaskTurns -------------------------------
(***************************************************************************)
(* How a task's turns are queued, delivered, executed, settled, stopped    *)
(* and recovered: src/task/turn-executor.ts composed with turn-store.ts,   *)
(* turn-completion.ts, boss.ts, abort-thread-task.ts, the control and      *)
(* restart paths of orchestrator.ts and the outcome path of                *)
(* observe-bridge.ts.                                                      *)
(*                                                                         *)
(* The program is one JavaScript process over PostgreSQL.  One step is one *)
(* awaited statement or call together with the synchronous code that runs  *)
(* when it returns, up to the next await; steps of different handlers,     *)
(* controls, events and of the restart recovery interleave freely.  A      *)
(* crash loses what is in memory and keeps what is in the database.        *)
(*                                                                         *)
(* The life of a task starts here when attachAndPromote has made it        *)
(* "queued"; its first turn then takes the same intake as a follow-up.  A  *)
(* turn is a number: turns of one task are numbered in the order in which  *)
(* their rows are inserted.                                                *)
(***************************************************************************)
EXTENDS Naturals, Sequences, TurnStore, TurnQueue, TurnCompletion

CONSTANTS
  Tasks,        \* tasks; each has one Discord thread and one Flue instance
  Turns,        \* task_turns rows that may be created
  TaskOf,       \* the task of each turn
  Handlers,     \* invocations of executeTurnJob that may be alive at once
  RetryLimit,   \* QUEUE_RETRY_LIMIT
  MaxCrashes,   \* bound: how often the process may crash
  MaxTimeouts,  \* bound: how often a job is given up while its handler lives
  ErrsEarly,    \* may an agent report an error and go on running?
  Commands      \* the thread controls that users press in this instance

ASSUME TurnsAssumption == Turns \subseteq Nat \ {0}
ASSUME TaskOfAssumption == TaskOf \in [Turns -> Tasks]
ASSUME BoundsAssumption ==
  RetryLimit \in Nat /\ MaxCrashes \in Nat /\ MaxTimeouts \in Nat
ASSUME ErrsEarlyAssumption == ErrsEarly \in BOOLEAN
ASSUME CommandsAssumption == Commands \subseteq {"abort", "cancel", "done"}

VARIABLES
  task,         \* tasks.status                                  (database)
  turns,        \* the rows of task_turns                        (database)
  jobs,         \* the jobs of queue task-turn                   (database)
  pc,           \* where each handler is                         (memory)
  run,          \* the local variables of each handler           (memory)
  waiter,       \* the outcome waiter of each Flue instance      (memory)
  submissions,  \* agent work admitted by Flue, first is running (memory)
  events,       \* observed events queued for each instance      (memory)
  received,     \* thread messages between check and transaction (memory)
  control,      \* the abort, cancel or done under way per task  (memory)
  boot,         \* the recovery started by the last restart      (memory)
  crashes,      \* crashes so far
  timeouts      \* jobs given up so far while their handler lived

database == <<task, turns, jobs>>
handlers == <<pc, run>>
flue == <<submissions, events>>
counters == <<crashes, timeouts>>
vars == <<task, turns, jobs, pc, run, waiter, submissions, events, received,
          control, boot, crashes, timeouts>>

TaskStatus == {"queued", "running", "waiting", "completed", "failed", "cancelled"}
TerminalTaskStatuses == {"completed", "failed", "cancelled"}

\* await points of executeTurnJob, settleOutcome and handleTurnError
Steps == {"claim", "resume", "reread", "probe", "begin", "discard",
          "checkpoint", "stopped", "release", "recheck", "dispatch", "await",
          "abandon", "toWaiting", "error", "retryTurn", "retryTask", "throw",
          "failTurn", "failTask", "return"}

NoRun == [job |-> 0, turn |-> 0, tries |-> 0, resumed |-> FALSE,
          dispatched |-> FALSE, outcome |-> "none"]
NoControl == [pc |-> "idle", gate |-> {}, abort |-> FALSE]
NoBoot == [pc |-> "done", found |-> {}, todo |-> {}, orphans |-> {}]

TurnsOf(t) == {u \in Turns : TaskOf[u] = t}
T(h) == run[h].turn            \* the turn handler h executes
K(h) == TaskOf[run[h].turn]    \* and its task

\* Guarded UPDATE of tasks.status.
Transition(t, from, to) ==
  IF task[t] \in from THEN [task EXCEPT ![t] = to] ELSE task

Goto(h, step) == pc' = [pc EXCEPT ![h] = step]

Init ==
  /\ task = [t \in Tasks |-> "queued"]
  /\ turns = [u \in Turns |-> NoRow]
  /\ jobs = <<>>
  /\ pc = [h \in Handlers |-> "idle"]
  /\ run = [h \in Handlers |-> NoRun]
  /\ waiter = [t \in Tasks |-> NoWaiter]
  /\ submissions = [t \in Tasks |-> <<>>]
  /\ events = [t \in Tasks |-> <<>>]
  /\ received = {}
  /\ control = [t \in Tasks |-> NoControl]
  /\ boot = NoBoot
  /\ crashes = 0
  /\ timeouts = 0

--------------------------------------------------------------------------------
\* Intake of a thread message (the first turn of a task passes the same
\* transaction): the status is read first, the row and its job are written
\* later, both in one transaction.

ReceiveMessage(u) ==
  /\ turns[u] = NoRow /\ u \notin received
  /\ \A v \in TurnsOf(TaskOf[u]) : v < u => v \in received \/ turns[v] # NoRow
  /\ task[TaskOf[u]] \notin TerminalTaskStatuses
  /\ received' = received \cup {u}
  /\ UNCHANGED <<database, handlers, waiter, flue, control, boot, counters>>

IntakeTurn(u) ==
  /\ u \in received
  /\ \A v \in TurnsOf(TaskOf[u]) : v < u => turns[v] # NoRow
  /\ received' = received \ {u}
  /\ turns' = [turns EXCEPT ![u] = InsertTurn(@)]
  /\ jobs' = Send(jobs, u)
  /\ UNCHANGED <<task, handlers, waiter, flue, control, boot, counters>>

--------------------------------------------------------------------------------
\* executeTurnJob

DeliverJob(h, j) ==
  /\ pc[h] = "idle"
  /\ Deliverable(jobs, j, TurnsOf(TaskOf[jobs[j].turn]))
  /\ jobs' = Deliver(jobs, j)
  /\ run' = [run EXCEPT ![h] = [NoRun EXCEPT
               !.job = j, !.turn = jobs[j].turn, !.tries = jobs'[j].retries]]
  /\ Goto(h, "claim")
  /\ UNCHANGED <<task, turns, waiter, flue, received, control, boot, counters>>

Claim(h) ==
  /\ pc[h] = "claim"
  /\ turns' = [turns EXCEPT ![T(h)] = ClaimQueuedTurn(@)]
  /\ Goto(h, IF Claimable(turns[T(h)]) THEN "begin" ELSE "resume")
  /\ UNCHANGED <<task, jobs, run, waiter, flue, received, control, boot, counters>>

\* The resume path registers the waiter as soon as it owns the turn.
BecomeResumed(h) ==
  /\ run' = [run EXCEPT ![h].resumed = TRUE]
  /\ waiter' = [waiter EXCEPT ![K(h)] = WaitForTurnOutcome(@, h)]
  /\ Goto(h, "probe")

\* resumeTurnForExecution: a second attempt to claim, then a read of the row.
Resume(h) ==
  /\ pc[h] = "resume"
  /\ turns' = [turns EXCEPT ![T(h)] = ClaimQueuedTurn(@)]
  /\ IF Claimable(turns[T(h)])
     THEN BecomeResumed(h)
     ELSE Goto(h, "reread") /\ UNCHANGED <<run, waiter>>
  /\ UNCHANGED <<task, jobs, flue, received, control, boot, counters>>

Reread(h) ==
  /\ pc[h] = "reread"
  /\ IF Unstopped(turns[T(h)])
     THEN BecomeResumed(h)
     ELSE Goto(h, "return") /\ UNCHANGED <<run, waiter>>
  /\ UNCHANGED <<database, flue, received, control, boot, counters>>

\* isFlueInstanceRunning: wait for a live agent instead of dispatching again.
Probe(h) ==
  /\ pc[h] = "probe"
  /\ Goto(h, IF submissions[K(h)] # <<>> THEN "await" ELSE "begin")
  /\ UNCHANGED <<database, run, waiter, flue, received, control, boot, counters>>

\* Mutant: a waiting task is not taken up.
BeginFromQueued(h) ==
  /\ pc[h] = "begin"
  /\ task' = Transition(K(h), {"queued"}, "running")
  /\ Goto(h, IF task' # task \/ run[h].resumed THEN "checkpoint" ELSE "discard")
  /\ UNCHANGED <<turns, jobs, run, waiter, flue, received, control, boot, counters>>

Begin(h) ==
  /\ pc[h] = "begin"
  /\ task' = Transition(K(h), {"queued", "waiting"}, "running")
  /\ Goto(h, IF task' # task \/ run[h].resumed THEN "checkpoint" ELSE "discard")
  /\ UNCHANGED <<turns, jobs, run, waiter, flue, received, control, boot, counters>>

\* The task was stopped or failed since the claim.
Discard(h) ==
  /\ pc[h] = "discard"
  /\ turns' = [turns EXCEPT ![T(h)] = MarkTurnCancelled(@)]
  /\ Goto(h, "return")
  /\ UNCHANGED <<task, jobs, run, waiter, flue, received, control, boot, counters>>

\* After the checkout is ready.
Checkpoint(h) ==
  /\ pc[h] = "checkpoint"
  /\ Goto(h, IF ShouldSkipTurn(turns[T(h)]) THEN "stopped" ELSE "recheck")
  /\ UNCHANGED <<database, run, waiter, flue, received, control, boot, counters>>

Stopped(h) ==
  /\ pc[h] = "stopped"
  /\ turns' = [turns EXCEPT ![T(h)] = MarkTurnCancelled(@)]
  /\ waiter' = [waiter EXCEPT ![K(h)] = ClearTurnWaiter(@)]
  /\ Goto(h, "release")
  /\ UNCHANGED <<task, jobs, run, flue, received, control, boot, counters>>

ReleaseTask(h) ==
  /\ pc[h] = "release"
  /\ task' = Transition(K(h), {"running"}, "waiting")
  /\ Goto(h, "return")
  /\ UNCHANGED <<turns, jobs, run, waiter, flue, received, control, boot, counters>>

\* Mutant: the waiter is not registered before the dispatch.
RecheckWithoutWaiter(h) ==
  /\ pc[h] = "recheck"
  /\ Goto(h, IF task[K(h)] = "running" THEN "dispatch" ELSE "return")
  /\ UNCHANGED <<database, run, waiter, flue, received, control, boot, counters>>

\* The last look at the task; then the waiter is registered.
Recheck(h) ==
  /\ pc[h] = "recheck"
  /\ IF task[K(h)] = "running"
     THEN /\ waiter' = [waiter EXCEPT ![K(h)] = WaitForTurnOutcome(@, h)]
          /\ run' = [run EXCEPT ![h].outcome = "none"]
          /\ Goto(h, "dispatch")
     ELSE /\ waiter' = IF run[h].resumed
                       THEN [waiter EXCEPT ![K(h)] = ClearTurnWaiter(@)]
                       ELSE waiter
          /\ run' = run
          /\ Goto(h, "return")
  /\ UNCHANGED <<database, flue, received, control, boot, counters>>

Dispatch(h) ==
  /\ pc[h] = "dispatch"
  /\ submissions' = [submissions EXCEPT
                       ![K(h)] = Append(@, [turn |-> T(h), erred |-> FALSE])]
  /\ run' = [run EXCEPT ![h].dispatched = TRUE]
  /\ Goto(h, "await")
  /\ UNCHANGED <<database, waiter, events, received, control, boot, counters>>

\* The catch clause: a resumed handler that gives up before dispatching
\* clears the waiter it registered.
CatchError(h) ==
  /\ waiter' = IF run[h].resumed /\ ~run[h].dispatched
               THEN [waiter EXCEPT ![K(h)] = ClearTurnWaiter(@)]
               ELSE waiter
  /\ Goto(h, "error")

\* The checkout, the setup profile, the install command or the dispatch fails.
StepThrows(h) ==
  /\ pc[h] \in {"checkpoint", "recheck", "dispatch"}
  /\ CatchError(h)
  /\ UNCHANGED <<database, run, flue, received, control, boot, counters>>

--------------------------------------------------------------------------------
\* settleOutcome

SettleCompleted(h) ==
  /\ pc[h] = "await" /\ run[h].outcome = "completed"
  /\ turns' = [turns EXCEPT ![T(h)] = MarkTurnCompleted(@)]
  /\ Goto(h, IF turns' # turns THEN "toWaiting" ELSE "abandon")
  /\ UNCHANGED <<task, jobs, run, waiter, flue, received, control, boot, counters>>

ToWaiting(h) ==
  /\ pc[h] = "toWaiting"
  /\ task' = Transition(K(h), {"running"}, "waiting")
  /\ Goto(h, "return")
  /\ UNCHANGED <<turns, jobs, run, waiter, flue, received, control, boot, counters>>

\* Also the clean-up of a completion that lost to a cancel, and of an error
\* in a turn that was stopped.  The task is left to whoever stopped it.
Abandon(h) ==
  /\ pc[h] = "abandon" \/ (pc[h] = "await" /\ run[h].outcome = "cancelled")
  /\ turns' = [turns EXCEPT ![T(h)] = MarkTurnCancelled(@)]
  /\ waiter' = [waiter EXCEPT ![K(h)] = ClearTurnWaiter(@)]
  /\ Goto(h, "return")
  /\ UNCHANGED <<task, jobs, run, flue, received, control, boot, counters>>

SettleFailed(h) ==
  /\ pc[h] = "await" /\ run[h].outcome = "failed"
  /\ CatchError(h)
  /\ UNCHANGED <<database, run, flue, received, control, boot, counters>>

--------------------------------------------------------------------------------
\* handleTurnError

\* Mutant: the last delivery is not used.
HandleTurnErrorEarly(h) ==
  /\ pc[h] = "error"
  /\ Goto(h, IF ShouldSkipTurn(turns[T(h)]) THEN "abandon"
             ELSE IF run[h].tries + 1 < RetryLimit THEN "retryTurn" ELSE "failTurn")
  /\ UNCHANGED <<database, run, waiter, flue, received, control, boot, counters>>

HandleTurnError(h) ==
  /\ pc[h] = "error"
  /\ Goto(h, IF ShouldSkipTurn(turns[T(h)]) THEN "abandon"
             ELSE IF run[h].tries < RetryLimit THEN "retryTurn" ELSE "failTurn")
  /\ UNCHANGED <<database, run, waiter, flue, received, control, boot, counters>>

RetryTurn(h) ==
  /\ pc[h] = "retryTurn"
  /\ turns' = [turns EXCEPT ![T(h)] = MarkTurnRetrying(@)]
  /\ Goto(h, "retryTask")
  /\ UNCHANGED <<task, jobs, run, waiter, flue, received, control, boot, counters>>

\* Mutant: the task is not given back.
RetryTaskKept(h) ==
  /\ pc[h] = "retryTask"
  /\ Goto(h, "throw")
  /\ UNCHANGED <<database, run, waiter, flue, received, control, boot, counters>>

RetryTask(h) ==
  /\ pc[h] = "retryTask"
  /\ task' = Transition(K(h), {"running"}, "queued")
  /\ Goto(h, "throw")
  /\ UNCHANGED <<turns, jobs, run, waiter, flue, received, control, boot, counters>>

\* Mutant: the turn is put back as if it were to be retried.
FailTurnAsRetry(h) ==
  /\ pc[h] = "failTurn"
  /\ turns' = [turns EXCEPT ![T(h)] = MarkTurnRetrying(@)]
  /\ Goto(h, "failTask")
  /\ UNCHANGED <<task, jobs, run, waiter, flue, received, control, boot, counters>>

FailTurn(h) ==
  /\ pc[h] = "failTurn"
  /\ turns' = [turns EXCEPT ![T(h)] = MarkTurnFailed(@)]
  /\ Goto(h, "failTask")
  /\ UNCHANGED <<task, jobs, run, waiter, flue, received, control, boot, counters>>

\* Mutant: the transition does not look where the task is.
FailTaskAlways(h) ==
  /\ pc[h] = "failTask"
  /\ task' = Transition(K(h), TaskStatus, "failed")
  /\ waiter' = [waiter EXCEPT ![K(h)] = ClearTurnWaiter(@)]
  /\ Goto(h, "return")
  /\ UNCHANGED <<turns, jobs, run, flue, received, control, boot, counters>>

FailTask(h) ==
  /\ pc[h] = "failTask"
  /\ task' = Transition(K(h), {"running"}, "failed")
  /\ waiter' = [waiter EXCEPT ![K(h)] = ClearTurnWaiter(@)]
  /\ Goto(h, "return")
  /\ UNCHANGED <<turns, jobs, run, flue, received, control, boot, counters>>

\* The handler returns, or rethrows so that pg-boss retries the job.
Leave(h) ==
  /\ pc' = [pc EXCEPT ![h] = "idle"]
  /\ run' = [run EXCEPT ![h] = NoRun]
  /\ waiter' = [waiter EXCEPT ![K(h)] = Forget(@, h)]
  /\ UNCHANGED <<task, turns, flue, received, control, boot, counters>>

Return(h) ==
  /\ pc[h] = "return"
  /\ jobs' = CompleteJob(jobs, run[h].job)
  /\ Leave(h)

\* Mutant: the error is swallowed.
RethrowNothing(h) ==
  /\ pc[h] = "throw"
  /\ jobs' = CompleteJob(jobs, run[h].job)
  /\ Leave(h)

Rethrow(h) ==
  /\ pc[h] = "throw"
  /\ jobs' = FailJob(jobs, run[h].job, RetryLimit)
  /\ Leave(h)

--------------------------------------------------------------------------------
\* Flue runs the submissions of an instance one after another and reports
\* what happens; the bridge handles the reports of an instance in order.  A
\* report names the instance only: the turn in it is there for the properties.

Report(t, kind) ==
  events' = [events EXCEPT
    ![t] = Append(@, [kind |-> kind, turn |-> Head(submissions[t]).turn])]

\* The end of an agent whose failure was already handed over (by the tool
\* guard, which then skips the others) may go unreported.
AgentEnds(t) ==
  /\ submissions[t] # <<>>
  /\ \/ \E kind \in {"completed", "failed"} : Report(t, kind)
     \/ Head(submissions[t]).erred /\ events' = events
  /\ submissions' = [submissions EXCEPT ![t] = Tail(@)]
  /\ UNCHANGED <<database, handlers, waiter, received, control, boot, counters>>

\* A model turn or an operation of the agent fails; the agent is still there.
AgentErrs(t) ==
  /\ ErrsEarly
  /\ submissions[t] # <<>> /\ ~Head(submissions[t]).erred
  /\ Report(t, "failed")
  /\ submissions' = [submissions EXCEPT ![t] =
       <<[Head(@) EXCEPT !.erred = TRUE]>> \o Tail(@)]
  /\ UNCHANGED <<database, handlers, waiter, received, control, boot, counters>>

ResolveTurnOutcome(t, kind) ==
  /\ waiter' = [waiter EXCEPT ![t] = ResolvedEntry(@)]
  /\ run' = [h \in Handlers |-> [run[h] EXCEPT
               !.outcome = ResolvedFor(waiter[t], h, kind, @)]]

\* Mutant: failures are rendered but not handed over.
HandleEventUnlessFailed(t) ==
  /\ events[t] # <<>>
  /\ IF Head(events[t]).kind = "failed"
     THEN UNCHANGED <<run, waiter>>
     ELSE ResolveTurnOutcome(t, Head(events[t]).kind)
  /\ events' = [events EXCEPT ![t] = Tail(@)]
  /\ UNCHANGED <<database, pc, submissions, received, control, boot, counters>>

\* onAgentEnd and onAgentFailure
HandleEvent(t) ==
  /\ events[t] # <<>>
  /\ ResolveTurnOutcome(t, Head(events[t]).kind)
  /\ events' = [events EXCEPT ![t] = Tail(@)]
  /\ UNCHANGED <<database, pc, submissions, received, control, boot, counters>>

--------------------------------------------------------------------------------
\* abort and cancel (stopTaskWork) and done (executeThreadControl).  Only the
\* control that changes the status goes on, so there is one per task.

StopTask(t) ==
  /\ control[t].pc = "idle"
  /\ task[t] \in {"queued", "waiting", "running"}
  /\ task' = [task EXCEPT ![t] = "cancelled"]
  /\ \E command \in Commands \ {"done"} :
       control' = [control EXCEPT ![t] =
         [NoControl EXCEPT !.pc = "list", !.abort = (command = "abort")]]
  /\ UNCHANGED <<turns, jobs, handlers, waiter, flue, received, boot, counters>>

\* The turns of the task that are running now...
ListRunning(t) ==
  /\ control[t].pc = "list"
  /\ control' = [control EXCEPT ![t].pc = "gate",
       ![t].gate = {u \in TurnsOf(t) : turns[u].status = "running"}]
  /\ UNCHANGED <<database, handlers, waiter, flue, received, boot, counters>>

\* ... are gated one by one.
GateTurn(t) ==
  /\ control[t].pc = "gate"
  /\ \E u \in control[t].gate :
       /\ turns' = [turns EXCEPT ![u] = RequestCancel(@)]
       /\ control' = [control EXCEPT ![t].gate = @ \ {u}]
  /\ UNCHANGED <<task, jobs, handlers, waiter, flue, received, boot, counters>>

DoneTask(t) ==
  /\ "done" \in Commands
  /\ control[t].pc = "idle"
  /\ task[t] \in {"waiting", "queued"}
  /\ task' = [task EXCEPT ![t] = "completed"]
  /\ control' = [control EXCEPT ![t].pc = "gate"]
  /\ UNCHANGED <<turns, jobs, handlers, waiter, flue, received, boot, counters>>

CancelPendingTurns(t) ==
  /\ control[t].pc = "gate" /\ control[t].gate = {}
  /\ turns' = [u \in Turns |->
       IF TaskOf[u] = t THEN CancelPending(turns[u]) ELSE turns[u]]
  /\ control' = [control EXCEPT ![t].pc = "jobs"]
  /\ UNCHANGED <<task, jobs, handlers, waiter, flue, received, boot, counters>>

CancelJobs(t) ==
  /\ control[t].pc = "jobs"
  /\ jobs' = ReleaseTaskSingleton(jobs, TurnsOf(t))
  /\ control' = [control EXCEPT ![t] =
       IF @.abort THEN [@ EXCEPT !.pc = "abort"] ELSE NoControl]
  /\ UNCHANGED <<task, turns, handlers, waiter, flue, received, boot, counters>>

\* abortAgentWorkForInstance; the failed submission may still be reported.
AbortAgentWork(t) ==
  /\ control[t].pc = "abort"
  /\ submissions' = [submissions EXCEPT ![t] = <<>>]
  /\ \/ events' = events
     \/ submissions[t] # <<>> /\ Report(t, "failed")
  /\ control' = [control EXCEPT ![t].pc = "resolve"]
  /\ UNCHANGED <<database, handlers, waiter, received, boot, counters>>

\* Mutant: the abort leaves the waiter to the agent, which is gone.
ResolveNothing(t) ==
  /\ control[t].pc = "resolve"
  /\ control' = [control EXCEPT ![t] = NoControl]
  /\ UNCHANGED <<database, handlers, waiter, flue, received, boot, counters>>

ResolveCancelled(t) ==
  /\ control[t].pc = "resolve"
  /\ ResolveTurnOutcome(t, "cancelled")
  /\ control' = [control EXCEPT ![t] = NoControl]
  /\ UNCHANGED <<database, pc, flue, received, boot, counters>>

--------------------------------------------------------------------------------
\* Mutant: the worker does not refresh the jobs it works on.
JobTimesOutUnrefreshed(j) ==
  /\ jobs[j].state = "active"
  /\ jobs' = FailJob(jobs, j, RetryLimit)
  /\ UNCHANGED <<task, turns, handlers, waiter, flue, received, control, boot, counters>>

\* pg-boss gives an active job up: nobody refreshes it any more, or its
\* handler has been busy for too long and goes on without it.
JobTimesOut(j) ==
  /\ jobs[j].state = "active"
  /\ jobs' = FailJob(jobs, j, RetryLimit)
  /\ IF \E h \in Handlers : pc[h] # "idle" /\ run[h].job = j
     THEN timeouts < MaxTimeouts /\ timeouts' = timeouts + 1
     ELSE timeouts' = timeouts
  /\ UNCHANGED <<task, turns, handlers, waiter, flue, received, control, boot, crashes>>

RunningTurns == {u \in Turns : turns[u].status = "running"}

\* The process dies and starts again.  resumeAfterRestart begins by listing
\* the running turns, before the worker is registered.
CrashAndRestart ==
  /\ crashes < MaxCrashes
  /\ crashes' = crashes + 1
  /\ pc' = [h \in Handlers |-> "idle"]
  /\ run' = [h \in Handlers |-> NoRun]
  /\ waiter' = [t \in Tasks |-> NoWaiter]
  /\ submissions' = [t \in Tasks |-> <<>>]
  /\ events' = [t \in Tasks |-> <<>>]
  /\ received' = {}
  /\ control' = [t \in Tasks |-> NoControl]
  /\ boot' = [pc |-> IF RunningTurns = {} THEN "queued" ELSE "release",
              found |-> RunningTurns, todo |-> RunningTurns, orphans |-> {}]
  /\ UNCHANGED <<database, timeouts>>

--------------------------------------------------------------------------------
\* resumeAfterRestart, beside the worker.  Interrupted turns first, by age:

NextInterrupted(u) == u \in boot.todo /\ \A v \in boot.todo : u <= v

BootRelease ==
  /\ boot.pc = "release"
  /\ \E u \in boot.todo : NextInterrupted(u)
       /\ jobs' = ReleaseTaskSingleton(jobs, TurnsOf(TaskOf[u]))
  /\ boot' = [boot EXCEPT !.pc = "requeue"]
  /\ UNCHANGED <<task, turns, handlers, waiter, flue, received, control, counters>>

BootRequeue ==
  /\ boot.pc = "requeue"
  /\ \E u \in boot.todo : NextInterrupted(u)
       /\ turns' = [turns EXCEPT ![u] = RequeueInterruptedTurn(@)]
  /\ boot' = [boot EXCEPT !.pc = "task"]
  /\ UNCHANGED <<task, jobs, handlers, waiter, flue, received, control, counters>>

BootTask ==
  /\ boot.pc = "task"
  /\ \E u \in boot.todo : NextInterrupted(u)
       /\ task' = Transition(TaskOf[u], {"running"}, "queued")
  /\ boot' = [boot EXCEPT !.pc = "send"]
  /\ UNCHANGED <<turns, jobs, handlers, waiter, flue, received, control, counters>>

BootSend ==
  /\ boot.pc = "send"
  /\ \E u \in boot.todo : NextInterrupted(u)
       /\ jobs' = Send(jobs, u)
       /\ boot' = [boot EXCEPT !.todo = @ \ {u},
                     !.pc = IF boot.todo = {u} THEN "queued" ELSE "release"]
  /\ UNCHANGED <<task, turns, handlers, waiter, flue, received, control, counters>>

\* then the queued turns that no live job represents, task by task.
BootListQueued ==
  /\ boot.pc = "queued"
  /\ boot' = [boot EXCEPT !.pc = "find",
                !.todo = {u \in Turns : turns[u].status = "queued"}]
  /\ UNCHANGED <<database, handlers, waiter, flue, received, control, counters>>

\* Mutant: the jobs that exist are not looked up.
BootFindNoJobs ==
  /\ boot.pc = "find"
  /\ IF boot.todo = {}
     THEN boot' = [boot EXCEPT !.pc = "done"]
     ELSE \E u \in boot.todo : NextInterrupted(u) /\
            LET mine == TurnsOf(TaskOf[u])
            IN  boot' = [boot EXCEPT !.pc = "orphans", !.todo = @ \ mine,
                           !.orphans = boot.todo \cap mine]
  /\ UNCHANGED <<database, handlers, waiter, flue, received, control, counters>>

\* Mutant: the live jobs are released here as in the first pass.
BootFindReleased ==
  /\ boot.pc = "find"
  /\ IF boot.todo = {}
     THEN boot' = [boot EXCEPT !.pc = "done"] /\ jobs' = jobs
     ELSE \E u \in boot.todo : NextInterrupted(u) /\
            LET mine == TurnsOf(TaskOf[u])
            IN  /\ jobs' = ReleaseTaskSingleton(jobs, mine)
                /\ boot' = [boot EXCEPT !.pc = "orphans", !.todo = @ \ mine,
                              !.orphans = boot.todo \cap mine]
  /\ UNCHANGED <<task, turns, handlers, waiter, flue, received, control, counters>>

BootFindJobs ==
  /\ boot.pc = "find"
  /\ IF boot.todo = {}
     THEN boot' = [boot EXCEPT !.pc = "done"]
     ELSE \E u \in boot.todo : NextInterrupted(u) /\
            LET mine == TurnsOf(TaskOf[u])
                represented == {jobs[j].turn : j \in LiveJobs(jobs, mine)}
            IN  boot' = [boot EXCEPT !.pc = "orphans", !.todo = @ \ mine,
                           !.orphans = (boot.todo \cap mine) \ represented]
  /\ UNCHANGED <<database, handlers, waiter, flue, received, control, counters>>

BootSendOrphan ==
  /\ boot.pc = "orphans"
  /\ IF boot.orphans = {}
     THEN boot' = [boot EXCEPT !.pc = "find"] /\ jobs' = jobs
     ELSE \E u \in boot.orphans :
            /\ \A v \in boot.orphans : u <= v
            /\ jobs' = Send(jobs, u)
            /\ boot' = [boot EXCEPT !.orphans = @ \ {u}]
  /\ UNCHANGED <<task, turns, handlers, waiter, flue, received, control, counters>>

--------------------------------------------------------------------------------
HandlerStep(h) ==
  \/ Claim(h) \/ Resume(h) \/ Reread(h) \/ Probe(h) \/ Begin(h) \/ Discard(h)
  \/ Checkpoint(h) \/ Stopped(h) \/ ReleaseTask(h) \/ Recheck(h) \/ Dispatch(h)
  \/ SettleCompleted(h) \/ ToWaiting(h) \/ Abandon(h) \/ SettleFailed(h)
  \/ HandleTurnError(h) \/ RetryTurn(h) \/ RetryTask(h) \/ FailTurn(h)
  \/ FailTask(h) \/ Return(h) \/ Rethrow(h)

ControlStep(t) ==
  \/ ListRunning(t) \/ GateTurn(t) \/ CancelPendingTurns(t) \/ CancelJobs(t)
  \/ AbortAgentWork(t) \/ ResolveCancelled(t)

BootStep ==
  \/ BootRelease \/ BootRequeue \/ BootTask \/ BootSend
  \/ BootListQueued \/ BootFindJobs \/ BootSendOrphan

Next ==
  \/ \E u \in Turns : ReceiveMessage(u) \/ IntakeTurn(u)
  \/ \E h \in Handlers : HandlerStep(h) \/ StepThrows(h)
  \/ \E h \in Handlers, j \in DOMAIN jobs : DeliverJob(h, j)
  \/ \E t \in Tasks : AgentEnds(t) \/ AgentErrs(t) \/ HandleEvent(t)
  \/ \E t \in Tasks : StopTask(t) \/ DoneTask(t) \/ ControlStep(t)
  \/ \E j \in DOMAIN jobs : JobTimesOut(j)
  \/ CrashAndRestart
  \/ BootStep

Spec == Init /\ [][Next]_vars

\* What goes on by itself: started handlers and controls run, intake
\* transactions commit, pg-boss delivers while a worker slot is free, agents
\* end, reports are handled in order, and the recovery proceeds.  Nobody is
\* obliged to write a message, press a button, fail, time out or crash.
Fairness ==
  /\ \A u \in Turns : WF_vars(IntakeTurn(u))
  /\ \A h \in Handlers : WF_vars(HandlerStep(h))
  /\ \A t \in Tasks :
       /\ WF_vars(\E h \in Handlers, j \in DOMAIN jobs :
                    jobs[j].turn \in TurnsOf(t) /\ DeliverJob(h, j))
       /\ WF_vars(AgentEnds(t))
       /\ WF_vars(HandleEvent(t))
       /\ WF_vars(ControlStep(t))
  /\ WF_vars(BootStep)

FairSpec == Spec /\ Fairness

--------------------------------------------------------------------------------
\* Types.

Job == [turn : Turns, state : JobState, retries : Nat]
RunRecord == [job : Nat, turn : Turns \cup {0}, tries : Nat, resumed : BOOLEAN,
              dispatched : BOOLEAN, outcome : TurnOutcome \cup {"none"}]
Waiter == [open : BOOLEAN, held : SUBSET Handlers]
Submission == [turn : Turns, erred : BOOLEAN]
Event == [kind : {"completed", "failed"}, turn : Turns]
Control == [pc : {"idle", "list", "gate", "jobs", "abort", "resolve"},
            gate : SUBSET Turns, abort : BOOLEAN]
Boot == [pc : {"done", "release", "requeue", "task", "send",
               "queued", "find", "orphans"},
         found : SUBSET Turns, todo : SUBSET Turns, orphans : SUBSET Turns]

StoreOK == task \in [Tasks -> TaskStatus] /\ turns \in [Turns -> Row]

\* A busy handler has a job and executes that job's turn.
HandlersOK ==
  /\ pc \in [Handlers -> Steps \cup {"idle"}]
  /\ run \in [Handlers -> RunRecord]
  /\ \A h \in Handlers : pc[h] # "idle" =>
       run[h].job \in DOMAIN jobs /\ run[h].turn = jobs[run[h].job].turn

AgentsOK ==
  /\ waiter \in [Tasks -> Waiter]
  /\ submissions \in [Tasks -> Seq(Submission)]
  /\ events \in [Tasks -> Seq(Event)]

\* The type invariant.
TypeOK ==
  /\ StoreOK
  /\ jobs \in Seq(Job)
  /\ HandlersOK
  /\ AgentsOK
  /\ received \subseteq Turns
  /\ control \in [Tasks -> Control]
  /\ boot \in Boot
  /\ crashes \in 0..MaxCrashes
  /\ timeouts \in 0..MaxTimeouts

--------------------------------------------------------------------------------
\* Safety.

\* Between the transition that makes the task running and the one that gives
\* it back, a handler owns the task.
OwnerSteps == {"checkpoint", "stopped", "release", "recheck", "dispatch", "await",
               "toWaiting", "error", "retryTurn", "retryTask", "failTurn", "failTask"}
Owns(h, t) == pc[h] \in OwnerSteps /\ K(h) = t

Unsettled(u) == turns[u].status \in {"queued", "running"}
Ended(t) == task[t] \in TerminalTaskStatuses

\* Someone will still work on turn u: a handler has it, or pg-boss has its job.
Carried(u) ==
  \/ \E h \in Handlers : pc[h] # "idle" /\ T(h) = u
  \/ \E j \in DOMAIN jobs : jobs[j].turn = u /\ Live(jobs, j)

\* The completion bridge assumes one turn in flight per Flue instance: no two
\* handlers own a task at the same time.
OneOwner ==
  \A h, g \in Handlers, t \in Tasks : Owns(h, t) /\ Owns(g, t) => h = g

\* A task does not stay "running" without a handler that will move it on.
RunningTaskIsOwned ==
  \A t \in Tasks : task[t] = "running" => \E h \in Handlers : Owns(h, t)

\* No lost wake-up: a handler that awaits an outcome holds the registered
\* promise, and an agent, a queued report or an abort is about to resolve it.
NoLostOutcome ==
  \A h \in Handlers : pc[h] = "await" /\ run[h].outcome = "none" =>
    /\ h \in waiter[K(h)].held
    /\ submissions[K(h)] # <<>> \/ events[K(h)] # <<>> \/ control[K(h)].abort

\* Retries, lost races and controls never leave a turn of a live task behind
\* without a job and without a handler.
NoStrandedTurn ==
  \A u \in Turns : Unsettled(u) /\ ~Ended(TaskOf[u]) => Carried(u)

\* A queued follow-up runs unless the task was stopped or failed: executor
\* clean-up (markTurnCancelled) never discards a turn of a live task.
CancelledOnlyByStop ==
  \A u \in Turns : turns[u].status = "cancelled" => Ended(TaskOf[u])

\* A turn fails for good only when every delivery pg-boss grants was used.
FailsAfterLastRetry ==
  \A u \in Turns : turns[u].status = "failed" => turns[u].attempts = RetryLimit + 1

\* The task and its turn fail together: handleTurnError ignores the results of
\* its two updates, and still no task fails whose turn was settled otherwise.
FailedTaskHasFailedTurn ==
  \A t \in Tasks : task[t] = "failed" =>
    \E u \in TurnsOf(t) : turns[u].status = "failed"

\* Follow-ups queue behind the turns sent before them: no turn of a live task is
\* claimed while an earlier turn of that task waits to be claimed.
StartsInOrder ==
  [][\A u, v \in Turns :
       /\ TaskOf[u] = TaskOf[v] /\ v < u /\ ~Ended(TaskOf[u])
       /\ turns[u].status = "queued" /\ turns'[u].status = "running"
       => ~Claimable(turns[v])]_vars

\* Once a turn is gated, nothing but its cancellation or a requeue at boot
\* happens to it: it does not start, complete, fail or return for a retry.
StopGate ==
  [][\A u \in Turns :
       turns[u].cancelReq /\ turns'[u] # turns[u] =>
         /\ turns'[u].cancelReq
         /\ turns'[u].status \notin {"running", "completed", "failed"}]_vars

\* Nothing is dispatched for a task after the control that stopped it is over.
NoDispatchAfterStop ==
  [][\A t \in Tasks : Ended(t) /\ control[t].pc = "idle" =>
       Len(submissions'[t]) <= Len(submissions[t])]_vars

\* What README.md:306-308 says of a restart: every turn that it found running
\* is carried on when the recovery is over (orchestrator.ts:248-271), unless it
\* was settled or stopped, or pg-boss gave its job up for good.
RestartRequeues ==
  boot.pc = "done" =>
    \A u \in boot.found : Unsettled(u) /\ ~Ended(TaskOf[u]) =>
      Carried(u) \/ \E j \in DOMAIN jobs : jobs[j].turn = u /\ jobs[j].state = "failed"

\* The old job of turn u was delivered again to this process before the
\* recovery came to cancel it (orchestrator.ts:254), which its handler ignores.
CancelledUnderHandler(u) ==
  \E j \in DOMAIN jobs :
    jobs[j].turn = u /\ jobs[j].state = "cancelled" /\ jobs[j].retries > 0

\* The same for what the recovery does by itself: an interrupted turn whose
\* old job was not delivered before it was cancelled is not lost.
RestartCarries ==
  boot.pc = "done" =>
    \A u \in boot.found : Unsettled(u) /\ ~Ended(TaskOf[u]) =>
      \/ Carried(u)
      \/ CancelledUnderHandler(u)
      \/ \E j \in DOMAIN jobs : jobs[j].turn = u /\ jobs[j].state = "failed"

\* The recovery, which runs beside the worker and the intake, never gives a
\* turn a second live job.
OneLiveJobPerTurn ==
  \A i, j \in DOMAIN jobs :
    jobs[i].turn = jobs[j].turn /\ Live(jobs, i) /\ Live(jobs, j) => i = j

--------------------------------------------------------------------------------
\* Liveness, under Fairness and without crashes.

\* A queued turn of a task is settled, or its task is stopped.
TurnsSettle ==
  \A u \in Turns : turns[u].status = "queued" ~>
    turns[u].status \in TerminalTurnStatuses \/ Ended(TaskOf[u])

\* No worker slot is held for ever: every handler returns.
HandlersReturn == \A h \in Handlers : pc[h] # "idle" ~> pc[h] = "idle"

--------------------------------------------------------------------------------
\* The abstract lifecycle that this module implements.

Lifecycle == INSTANCE TaskLifecycle WITH
  turn <- [u \in Turns |-> turns[u].status],
  gated <- {u \in Turns : turns[u].cancelReq}

ImplementsLifecycle == Lifecycle!Spec

================================================================================
