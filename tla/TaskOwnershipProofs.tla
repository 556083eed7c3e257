-------------------------- MODULE TaskOwnershipProofs --------------------------
(***************************************************************************)
(* Proofs about TaskTurns as long as the process does not crash and no job *)
(* is given up while its handler lives: a task has one owner, no turn is   *)
(* stranded, no outcome is lost, nothing fails or is cancelled without a   *)
(* reason, and turns start in order.  They hold for any tasks, turns,      *)
(* handlers and retry limit, whatever the users press and the agents do.   *)
(***************************************************************************)
EXTENDS TaskTurnsProofs

\* So far no crash, and no handler was left behind by its job.
Calm == crashes = 0 /\ timeouts = 0

--------------------------------------------------------------------------------
\* The inductive invariant, part by part.

Busy(h) == pc[h] # "idle"
JobOf(h) == run[h].job
SameKey(i, j) == TaskOf[jobs[i].turn] = TaskOf[jobs[j].turn]
Written(u) == turns[u].status # "none"

\* Rows are written in the order of the turns of a task, each before its job.
IntakeInv ==
  /\ \A u \in Turns : ~Written(u) => turns[u] = NoRow
  /\ \A u \in received : ~Written(u)
  /\ \A u, v \in Turns :
       TaskOf[u] = TaskOf[v] /\ v < u /\ Written(u) => Written(v)
  /\ \A j \in DOMAIN jobs : Written(jobs[j].turn)

\* So the jobs of a task are in the order of its turns, one for each turn, and
\* the active one is the first of those that are not over.
QueueInv ==
  /\ \A i, j \in DOMAIN jobs :
       SameKey(i, j) /\ i < j => jobs[i].turn < jobs[j].turn
  /\ \A i, j \in DOMAIN jobs :
       SameKey(i, j) /\ jobs[i].state = "active" /\ Live(jobs, j) => i <= j

\* A row that waits for its claim number n + 1, and one that no claim, retry or
\* completion will touch any more.
Awaits(row, n) == Claimable(row) /\ row.attempts = n
Over(row) == row.status \in TerminalTurnStatuses \/ row.cancelReq

\* The row of a job that waits to be delivered.
JobInv ==
  \A j \in DOMAIN jobs :
    /\ jobs[j].state = "created" =>
         /\ jobs[j].retries = 0
         /\ Awaits(turns[jobs[j].turn], 0) \/ Over(turns[jobs[j].turn])
    /\ jobs[j].state = "retry" =>
         /\ jobs[j].retries < RetryLimit
         /\ \/ Awaits(turns[jobs[j].turn], jobs[j].retries + 1)
            \/ Over(turns[jobs[j].turn])

\* Steps of a handler whose turn is running, and steps that only a handler
\* takes whose task was stopped or failed.
RunningSteps == {"begin", "discard", "checkpoint", "stopped", "recheck", "dispatch",
                 "await", "abandon", "error", "retryTurn", "failTurn"}
EndedSteps == {"discard", "stopped", "release", "abandon"}

\* What a handler at a step knows of its row, its delivery and its task.
RowFits(step, row, tries, ended) ==
  /\ step # "probe"
  /\ step = "claim" => Awaits(row, tries) \/ Over(row)
  /\ step \in {"resume", "reread"} => Over(row)
  /\ step \in RunningSteps => row.status = "running" /\ row.attempts = tries + 1
  /\ step \in {"retryTurn", "retryTask", "throw"} => tries < RetryLimit
  /\ step \in {"retryTask", "throw"} => Awaits(row, tries + 1) \/ Over(row)
  /\ step = "failTurn" => tries = RetryLimit
  /\ step = "failTask" => row.status = "failed" \/ ended
  /\ step = "toWaiting" => row.status \in TerminalTurnStatuses
  /\ step \in EndedSteps => ended
  /\ step = "return" => row.status \in TerminalTurnStatuses \/ ended

\* A busy handler works on the active job of its turn, or its task was stopped
\* and the job cancelled under it.
HandlerFits(h) ==
  /\ \/ jobs[JobOf(h)].state = "active"
     \/ jobs[JobOf(h)].state = "cancelled" /\ Ended(K(h))
  /\ run[h].tries = jobs[JobOf(h)].retries /\ run[h].tries <= RetryLimit
  /\ ~run[h].resumed
  /\ RowFits(pc[h], turns[T(h)], run[h].tries, Ended(K(h)))

HandlerInv ==
  /\ \A h \in Handlers : Busy(h) => HandlerFits(h)
  /\ \A h, g \in Handlers : Busy(h) /\ Busy(g) /\ JobOf(h) = JobOf(g) => h = g
  /\ \A j \in DOMAIN jobs : jobs[j].state = "active" =>
       \E h \in Handlers : Busy(h) /\ JobOf(h) = j

\* Every row of the store has the reason for its status.
RowInv ==
  \A u \in Turns :
    /\ turns[u].cancelReq => Ended(TaskOf[u])
    /\ turns[u].status = "cancelled" => Ended(TaskOf[u])
    /\ turns[u].status = "failed" => turns[u].attempts = RetryLimit + 1
    /\ Unsettled(u) =>
         \/ Ended(TaskOf[u])
         \/ \E j \in DOMAIN jobs : jobs[j].turn = u /\ Live(jobs, j)

\* The owner of a task, or the handler that still cleans up after it was
\* stopped, is the only one, and its task is running or ended.
HolderSteps == OwnerSteps \cup {"abandon"}
Holds(h, t) == pc[h] \in HolderSteps /\ K(h) = t

OwnerInv ==
  /\ \A h \in Handlers, t \in Tasks :
       Holds(h, t) => task[t] = "running" \/ Ended(t)
  /\ \A h, g \in Handlers, t \in Tasks : Holds(h, t) /\ Holds(g, t) => h = g
  /\ RunningTaskIsOwned

\* The promise of a handler is held in the entry of its own instance; while it
\* has no outcome it is held there, and something is left that resolves it.
Coming(t) ==
  \/ control[t].abort
  \/ events[t] # <<>>
  \/ submissions[t] # <<>> /\ ~submissions[t][Len(submissions[t])].erred

ControlFits(t) ==
  /\ control[t].pc \in {"abort", "resolve"} => control[t].abort
  /\ control[t].abort => control[t].pc # "idle"

WaiterInv ==
  /\ \A t \in Tasks : \A h \in waiter[t].held : Busy(h) /\ K(h) = t
  /\ \A h \in Handlers : Busy(h) /\ run[h].outcome = "cancelled" => Ended(K(h))
  /\ \A h \in Handlers :
       pc[h] \in {"dispatch", "await"} /\ run[h].outcome = "none" =>
         h \in waiter[K(h)].held
  /\ \A h \in Handlers :
       pc[h] = "await" /\ run[h].outcome = "none" => Coming(K(h))
  /\ \A t \in Tasks : ControlFits(t)

CalmInv ==
  /\ boot.pc = "done"
  /\ IntakeInv
  /\ QueueInv
  /\ JobInv
  /\ HandlerInv
  /\ RowInv
  /\ FailedTaskHasFailedTurn
  /\ OwnerInv
  /\ WaiterInv

--------------------------------------------------------------------------------
\* What the parts say of one handler, one row and one job.

LEMMA HandlerFacts ==
  ASSUME TypeOK, NEW h \in Handlers, Busy(h)
  PROVE  /\ JobOf(h) \in DOMAIN jobs /\ jobs[JobOf(h)] \in Job
         /\ jobs[JobOf(h)].turn = T(h)
         /\ T(h) \in Turns /\ turns[T(h)] \in Row
         /\ K(h) = TaskOf[T(h)] /\ K(h) \in Tasks
         /\ run[h] \in RunRecord
<1>1. run[h] \in RunRecord /\ jobs[JobOf(h)].turn = T(h) /\ K(h) = TaskOf[T(h)]
  BY DEF TypeOK, HandlersOK, Busy, JobOf, T, K
<1>2. JobOf(h) \in DOMAIN jobs /\ T(h) \in Turns /\ K(h) \in Tasks /\ turns[T(h)] \in Row
  BY BusyHandler DEF Busy, JobOf
<1>3. QED
  BY <1>1, <1>2 DEF TypeOK

LEMMA JobFacts ==
  ASSUME TypeOK, NEW j \in DOMAIN jobs
  PROVE  /\ j \in Nat /\ jobs[j] \in Job
         /\ jobs[j].turn \in Turns /\ jobs[j].turn \in Nat /\ turns[jobs[j].turn] \in Row
         /\ TaskOf[jobs[j].turn] \in Tasks
         /\ jobs[j].retries \in Nat
<1>1. j \in Nat /\ jobs[j] \in Job
  BY DEF TypeOK
<1>2. jobs[j].turn \in Turns /\ jobs[j].retries \in Nat
  BY <1>1 DEF Job
<1>3. QED
  BY <1>1, <1>2, TurnsAssumption, TaskOfAssumption DEF TypeOK, StoreOK

\* A turn has one job.
LEMMA OneJob ==
  ASSUME TypeOK, QueueInv, NEW i \in DOMAIN jobs, NEW j \in DOMAIN jobs,
         jobs[i].turn = jobs[j].turn
  PROVE  i = j
<1>1. i \in Nat /\ j \in Nat /\ jobs[i].turn \in Nat /\ jobs[j].turn \in Nat
  BY JobFacts
<1>2. SameKey(i, j) /\ SameKey(j, i)
  BY DEF SameKey
<1>3. ~(i < j) /\ ~(j < i)
  BY <1>1, <1>2 DEF QueueInv
<1>4. QED
  BY <1>1, <1>3

\* A turn has one handler.
LEMMA OneHandler ==
  ASSUME TypeOK, QueueInv, HandlerInv,
         NEW h \in Handlers, NEW g \in Handlers, Busy(h), Busy(g), T(h) = T(g)
  PROVE  h = g
<1>1. JobOf(h) = JobOf(g)
  BY HandlerFacts, OneJob
<1>2. QED
  BY <1>1 DEF HandlerInv

\* A task that was not stopped has one busy handler.
LEMMA OneActive ==
  ASSUME TypeOK, QueueInv, HandlerInv,
         NEW h \in Handlers, NEW g \in Handlers, Busy(h), Busy(g),
         K(h) = K(g), ~Ended(K(h))
  PROVE  h = g
<1>1. /\ jobs[JobOf(h)].state = "active"
      /\ jobs[JobOf(g)].state = "active"
  BY DEF HandlerInv, HandlerFits
<1>2. /\ SameKey(JobOf(h), JobOf(g)) /\ SameKey(JobOf(g), JobOf(h))
      /\ Live(jobs, JobOf(h)) /\ Live(jobs, JobOf(g))
  BY <1>1, HandlerFacts DEF SameKey, Live, LiveJobStates
<1>3. JobOf(h) \in Nat /\ JobOf(g) \in Nat
  BY HandlerFacts, JobFacts
<1>4. JobOf(h) = JobOf(g)
  BY <1>1, <1>2, <1>3, HandlerFacts DEF QueueInv
<1>5. QED
  BY <1>4 DEF HandlerInv

\* What a control does to a row takes nothing from a handler or a job.
Outside(row, after) ==
  after = row \/ after = RequestCancel(row) \/ after = CancelPending(row)

LEMMA OutsideFits ==
  ASSUME NEW row \in Row, NEW after, Outside(row, after)
  PROVE  /\ after.attempts = row.attempts
         /\ row.status = "running" => after.status = "running"
         /\ row.status \in TerminalTurnStatuses => after.status = row.status
         /\ Over(row) => Over(after)
         /\ \A n : Awaits(row, n) => Awaits(after, n) \/ Over(after)
BY DEF Outside, Row, RequestCancel, CancelPending, Over, Awaits, Claimable,
       TerminalTurnStatuses, TurnStatus

LEMMA RowFitsStays ==
  ASSUME NEW step, NEW row \in Row, NEW after, NEW tries, NEW ended, NEW later,
         Outside(row, after), ended => later, RowFits(step, row, tries, ended)
  PROVE  RowFits(step, after, tries, later)
<1>1. /\ after.attempts = row.attempts
      /\ row.status = "running" => after.status = "running"
      /\ row.status \in TerminalTurnStatuses => after.status = row.status
      /\ Over(row) => Over(after)
      /\ \A n : Awaits(row, n) => Awaits(after, n) \/ Over(after)
  BY OutsideFits
<1>2. row.status = "failed" => after.status = "failed"
  BY <1>1 DEF TerminalTurnStatuses
<1>3. QED
  BY <1>1, <1>2 DEF RowFits

--------------------------------------------------------------------------------
\* The steps of a handler between its first claim and its return.

LocalAction(h) ==
  \/ Claim(h) \/ Resume(h) \/ Reread(h) \/ Probe(h) \/ Begin(h) \/ Discard(h)
  \/ Checkpoint(h) \/ Stopped(h) \/ ReleaseTask(h) \/ Recheck(h) \/ Dispatch(h)
  \/ SettleCompleted(h) \/ ToWaiting(h) \/ Abandon(h) \/ SettleFailed(h)
  \/ HandleTurnError(h) \/ RetryTurn(h) \/ RetryTask(h) \/ FailTurn(h)
  \/ FailTask(h) \/ StepThrows(h)

\* They change the handler's own step, turn and task and leave its job alone.
LocalStep(h) ==
  /\ Busy(h) /\ pc' = [pc EXCEPT ![h] = pc'[h]] /\ pc'[h] \in Steps
  /\ \A g \in Handlers : g # h => run'[g] = run[g]
  /\ run'[h].job = run[h].job /\ run'[h].turn = run[h].turn
  /\ run'[h].tries = run[h].tries /\ run'[h].resumed = run[h].resumed
  /\ \A u \in Turns : u # T(h) => turns'[u] = turns[u]
  /\ \A t \in Tasks : t # K(h) => task'[t] = task[t]
  /\ UNCHANGED <<jobs, received, events, control, boot>>

\* What they make of the row of the turn.
RowGood(h) ==
  LET row == turns[T(h)]
      after == turns'[T(h)]
  IN  /\ after.status = "cancelled" => row.status = "cancelled" \/ Ended(K(h))
      /\ after.status = "failed" =>
           \/ row.status = "failed" /\ after.attempts = row.attempts
           \/ after.attempts = RetryLimit + 1
      /\ after.status \in {"queued", "running"} => row.status \in {"queued", "running"}

After(h) ==
  /\ RowGood(h)
  /\ RowFits(pc'[h], turns'[T(h)], run[h].tries, task'[K(h)] \in TerminalTaskStatuses)

\* The step itself, where nothing is looked up but the handler's own state.
LEMMA Moves ==
  ASSUME TypeOK, NEW h \in Handlers, Busy(h), NEW step \in Steps, Goto(h, step)
  PROVE  /\ pc' = [pc EXCEPT ![h] = pc'[h]] /\ pc'[h] = step
         /\ pc'[h] \in Steps
BY DEF Goto, TypeOK, HandlersOK

LEMMA TransitionElsewhere ==
  ASSUME TypeOK, NEW t \in Tasks, NEW from, NEW to, task' = Transition(t, from, to)
  PROVE  /\ \A s \in Tasks : s # t => task'[s] = task[s]
         /\ task'[t] = IF task[t] \in from THEN to ELSE task[t]
BY DEF Transition, TypeOK, StoreOK

\* A handler whose record says so did not resume, so it only takes the path of
\* a fresh delivery.
LEMMA NotResumed ==
  ASSUME TypeOK, HandlerInv, NEW h \in Handlers, Busy(h)
  PROVE  /\ run[h].resumed = FALSE
         /\ RowFits(pc[h], turns[T(h)], run[h].tries, Ended(K(h)))
         /\ run[h].tries \in Nat /\ run[h].tries <= RetryLimit
<1>1. ~run[h].resumed
  BY DEF HandlerInv, HandlerFits
<1>2. run[h].resumed \in BOOLEAN /\ run[h].tries \in Nat
  BY HandlerFacts DEF RunRecord
<1>3. QED
  BY <1>1, <1>2 DEF HandlerInv, HandlerFits

\* One action after the other is such a step, except those that look at a row
\* again, which may register the handler as resumed.
LEMMA FreshSteps ==
  ASSUME TypeOK, NEW h \in Handlers, LocalAction(h), ~Resume(h), ~Reread(h)
  PROVE  LocalStep(h)
<1>0. turns \in [Turns -> Row] /\ task \in [Tasks -> TaskStatus] /\ run \in [Handlers -> RunRecord]
  BY DEF TypeOK, StoreOK, HandlersOK
<1>1. CASE Claim(h)
  BY <1>0, <1>1, Moves DEF Claim, LocalStep, Busy, Steps, database, flue, counters
<1>2. CASE Discard(h)
  BY <1>0, <1>2, Moves DEF Discard, LocalStep, Busy, Steps, database, flue, counters
<1>3. CASE SettleCompleted(h)
  BY <1>0, <1>3, Moves DEF SettleCompleted, LocalStep, Busy, Steps, database, flue, counters
<1>4. CASE RetryTurn(h)
  BY <1>0, <1>4, Moves DEF RetryTurn, LocalStep, Busy, Steps, database, flue, counters
<1>5. CASE FailTurn(h)
  BY <1>0, <1>5, Moves DEF FailTurn, LocalStep, Busy, Steps, database, flue, counters
<1>6. CASE Stopped(h)
  BY <1>0, <1>6, Moves DEF Stopped, LocalStep, Busy, Steps, database, flue, counters
<1>7. CASE Abandon(h)
  BY <1>0, <1>7, Moves DEF Abandon, LocalStep, Busy, Steps, database, flue, counters
<1>8. CASE Begin(h)
  <2>1. Busy(h)
    BY <1>8 DEF Begin, Busy
  <2>2. \A t \in Tasks : t # K(h) => task'[t] = task[t]
    BY <1>8, <2>1, HandlerFacts, TransitionElsewhere DEF Begin
  <2>3. QED
    BY <1>0, <1>8, <2>1, <2>2, Moves
    DEF Begin, LocalStep, Steps, flue
<1>9. CASE ReleaseTask(h)
  <2>1. Busy(h)
    BY <1>9 DEF ReleaseTask, Busy
  <2>2. \A t \in Tasks : t # K(h) => task'[t] = task[t]
    BY <1>9, <2>1, HandlerFacts, TransitionElsewhere DEF ReleaseTask
  <2>3. QED
    BY <1>0, <1>9, <2>1, <2>2, Moves
    DEF ReleaseTask, LocalStep, Steps, flue
<1>10. CASE ToWaiting(h)
  <2>1. Busy(h)
    BY <1>10 DEF ToWaiting, Busy
  <2>2. \A t \in Tasks : t # K(h) => task'[t] = task[t]
    BY <1>10, <2>1, HandlerFacts, TransitionElsewhere DEF ToWaiting
  <2>3. QED
    BY <1>0, <1>10, <2>1, <2>2, Moves
    DEF ToWaiting, LocalStep, Steps, flue
<1>11. CASE RetryTask(h)
  <2>1. Busy(h)
    BY <1>11 DEF RetryTask, Busy
  <2>2. \A t \in Tasks : t # K(h) => task'[t] = task[t]
    BY <1>11, <2>1, HandlerFacts, TransitionElsewhere DEF RetryTask
  <2>3. QED
    BY <1>0, <1>11, <2>1, <2>2, Moves
    DEF RetryTask, LocalStep, Steps, flue
<1>12. CASE FailTask(h)
  <2>1. Busy(h)
    BY <1>12 DEF FailTask, Busy
  <2>2. \A t \in Tasks : t # K(h) => task'[t] = task[t]
    BY <1>12, <2>1, HandlerFacts, TransitionElsewhere DEF FailTask
  <2>3. QED
    BY <1>0, <1>12, <2>1, <2>2, Moves
    DEF FailTask, LocalStep, Steps, flue
<1>13. CASE Probe(h)
  BY <1>0, <1>13, Moves DEF Probe, LocalStep, Busy, Steps, database, flue, counters
<1>14. CASE Checkpoint(h)
  BY <1>0, <1>14, Moves DEF Checkpoint, LocalStep, Busy, Steps, database, flue, counters
<1>15. CASE HandleTurnError(h)
  BY <1>0, <1>15, Moves DEF HandleTurnError, LocalStep, Busy, Steps, database, flue, counters
<1>16. CASE SettleFailed(h)
  BY <1>0, <1>16, Moves DEF SettleFailed, LocalStep, Busy, Steps, database, flue, counters, CatchError
<1>17. CASE StepThrows(h)
  BY <1>0, <1>17, Moves DEF StepThrows, LocalStep, Busy, Steps, database, flue, counters, CatchError
<1>18. CASE Recheck(h)
  <2>1. \E step \in {"dispatch", "return"} : Goto(h, step)
    BY <1>18 DEF Recheck
  <2>2. \/ run' = run
        \/ run' = [run EXCEPT ![h] = [run[h] EXCEPT !.outcome = "none"]]
    BY <1>18 DEF Recheck
  <2>3. /\ \A g \in Handlers : g # h => run'[g] = run[g]
        /\ run'[h].job = run[h].job /\ run'[h].turn = run[h].turn
        /\ run'[h].tries = run[h].tries /\ run'[h].resumed = run[h].resumed
    <3> DEFINE r == [run[h] EXCEPT !.outcome = "none"]
    <3>1. run[h] \in RunRecord
      BY <1>0
    <3>2. /\ r.job = run[h].job /\ r.turn = run[h].turn
          /\ r.tries = run[h].tries /\ r.resumed = run[h].resumed
      BY <3>1 DEF RunRecord
    <3>3. run' = run \/ run' = [run EXCEPT ![h] = r]
      BY <2>2
    <3> HIDE DEF r
    <3>4. QED
      BY <1>0, <3>2, <3>3
  <2>4. QED
    BY <1>0, <1>18, <2>1, <2>3, Moves
    DEF Recheck, LocalStep, Busy, Steps, database, flue
<1>19. CASE Dispatch(h)
  BY <1>0, <1>19, Moves DEF Dispatch, LocalStep, Busy, Steps, database, flue, counters
<1>20. QED
  BY <1>1, <1>2, <1>3, <1>4, <1>5, <1>6, <1>7, <1>8, <1>9, <1>10, <1>11, <1>12, <1>13, <1>14, <1>15, <1>16, <1>17, <1>18, <1>19 DEF LocalAction

LEMMA LocalSteps ==
  ASSUME TypeOK, HandlerInv, NEW h \in Handlers, LocalAction(h)
  PROVE  LocalStep(h)
<1>1. CASE Resume(h)
  <2>1. ~Claimable(turns[T(h)])
    BY <1>1, NotResumed, HandlerFacts
    DEF Resume, RowFits, Over, Claimable, Busy, TerminalTurnStatuses
  <2>2. QED
    BY <1>1, <2>1, Moves DEF Resume, LocalStep, Busy, Steps, flue, TypeOK, StoreOK
<1>2. CASE Reread(h)
  <2>1. ~Unstopped(turns[T(h)])
    BY <1>2, NotResumed, HandlerFacts
    DEF Reread, RowFits, Over, Unstopped, Busy, TerminalTurnStatuses
  <2>2. QED
    BY <1>2, <2>1, Moves DEF Reread, LocalStep, Busy, Steps, database, flue
<1>3. QED
  BY <1>1, <1>2, FreshSteps

\* The statements on a row, against what a handler knows of it.
LEMMA RowMoves ==
  ASSUME NEW row \in Row, NEW tries \in Nat, NEW ended, row.cancelReq => ended
  PROVE  /\ RowFits("claim", row, tries, ended) =>
              RowFits(IF Claimable(row) THEN "begin" ELSE "resume",
                      ClaimQueuedTurn(row), tries, ended)
         /\ RowFits("recheck", row, tries, ended) => RowFits("dispatch", row, tries, ended)
         /\ RowFits("dispatch", row, tries, ended) => RowFits("await", row, tries, ended)
         /\ RowFits("checkpoint", row, tries, ended) =>
              RowFits(IF ShouldSkipTurn(row) THEN "stopped" ELSE "recheck",
                      row, tries, ended)
         /\ RowFits("retryTurn", row, tries, ended) =>
              RowFits("retryTask", MarkTurnRetrying(row), tries, ended)
         /\ RowFits("failTurn", row, tries, ended) =>
              RowFits("failTask", MarkTurnFailed(row), tries, ended)
<1> USE DEF RowFits, RunningSteps, EndedSteps, Row, TerminalTurnStatuses, TurnStatus,
            Claimable, Over, Awaits, Unstopped
<1>1. RowFits("claim", row, tries, ended) =>
        RowFits(IF Claimable(row) THEN "begin" ELSE "resume",
                ClaimQueuedTurn(row), tries, ended)
  BY DEF ClaimQueuedTurn
<1>2. RowFits("recheck", row, tries, ended) => RowFits("dispatch", row, tries, ended)
  OBVIOUS
<1>3. RowFits("dispatch", row, tries, ended) => RowFits("await", row, tries, ended)
  OBVIOUS
<1>4. RowFits("checkpoint", row, tries, ended) =>
        RowFits(IF ShouldSkipTurn(row) THEN "stopped" ELSE "recheck", row, tries, ended)
  BY DEF ShouldSkipTurn
<1>5. RowFits("retryTurn", row, tries, ended) =>
        RowFits("retryTask", MarkTurnRetrying(row), tries, ended)
  BY DEF MarkTurnRetrying
<1>6. RowFits("failTurn", row, tries, ended) =>
        RowFits("failTask", MarkTurnFailed(row), tries, ended)
  BY DEF MarkTurnFailed
<1>7. QED
  BY <1>1, <1>2, <1>3, <1>4, <1>5, <1>6

\* After each of them the handler still knows its row and its task.
LEMMA LocalAfter ==
  ASSUME TypeOK, TypeOK', StopInv, StoreStep, QueueInv, HandlerInv, RowInv, OwnerInv,
         WaiterInv, NEW h \in Handlers, LocalAction(h)
  PROVE  After(h)
<1> DEFINE row == turns[T(h)]
           after == turns'[T(h)]
           tries == run[h].tries
           ended == Ended(K(h))
           later == task'[K(h)] \in TerminalTaskStatuses
<1>1. Busy(h) /\ LocalStep(h)
  BY LocalSteps DEF LocalStep
<1>2. /\ row \in Row /\ after \in Row /\ T(h) \in Turns /\ K(h) \in Tasks
      /\ tries \in Nat /\ tries <= RetryLimit /\ run[h].resumed = FALSE
      /\ RowFits(pc[h], row, tries, ended)
      /\ row.cancelReq => ended
      /\ pc \in [Handlers -> Steps \cup {"idle"}] /\ turns \in [Turns -> Row]
  <2>1. K(h) = TaskOf[T(h)] /\ T(h) \in Turns /\ row \in Row /\ K(h) \in Tasks
    BY <1>1, HandlerFacts
  <2>2. row.cancelReq => ended
    BY <2>1 DEF RowInv
  <2>3. QED
    BY <1>1, <2>1, <2>2, NotResumed DEF TypeOK, StoreOK, HandlersOK
<1>3. ended => later
  BY <1>2, EndedStays DEF Ended
<1>4. ASSUME RowFits(pc'[h], after, tries, ended), RowGood(h)
      PROVE  After(h)
  <2>1. Outside(after, after)
    BY DEF Outside
  <2>2. RowFits(pc'[h], after, tries, later)
    BY <1>2, <1>3, <1>4, <2>1, RowFitsStays
  <2>3. QED
    BY <1>4, <2>2 DEF After
<1>5. ASSUME after = row, RowFits(pc'[h], row, tries, ended)
      PROVE  After(h)
  <2>1. RowGood(h)
    BY <1>5 DEF RowGood
  <2>2. QED
    BY <1>4, <1>5, <2>1
<1> HIDE DEF row, after, tries, ended, later
<1>6. ASSUME NEW step \in Steps, Goto(h, step)
      PROVE  pc'[h] = step
  BY <1>1, <1>6, Moves
<1>7. ASSUME NEW new, turns' = [turns EXCEPT ![T(h)] = new]
      PROVE  after = new
  BY <1>2, <1>7 DEF after
<1>8. UNCHANGED turns => after = row
  BY DEF after, row
<1>9. ASSUME ended, pc'[h] \notin RunningSteps,
             pc'[h] \in {"return", "release"}, after = MarkTurnCancelled(row)
      PROVE  After(h)
  <2>1. RowFits(pc'[h], after, tries, ended)
    BY <1>9 DEF RowFits
  <2>2. RowGood(h)
    BY <1>2, <1>9 DEF RowGood, MarkTurnCancelled, row, after, ended
  <2>3. QED
    BY <1>4, <2>1, <2>2
<1>10. CASE Claim(h)
  <2>1. after = ClaimQueuedTurn(row) /\ pc[h] = "claim"
        /\ pc'[h] = IF Claimable(row) THEN "begin" ELSE "resume"
    BY <1>6, <1>7, <1>10 DEF Claim, Steps, row
  <2>2. RowFits(pc'[h], after, tries, ended)
    BY <1>2, <2>1, RowMoves
  <2>3. RowGood(h)
    BY <1>2, <2>1 DEF RowGood, ClaimQueuedTurn, Claimable, row, after
  <2>4. QED
    BY <1>4, <2>2, <2>3
<1>11. CASE Resume(h)
  <2>1. ~Claimable(row)
    BY <1>2, <1>11 DEF Resume, RowFits, Over, Claimable, TerminalTurnStatuses
  <2>2. after = row /\ pc[h] = "resume" /\ pc'[h] = "reread"
    BY <1>6, <1>7, <1>11, <2>1 DEF Resume, ClaimQueuedTurn, Steps, row
  <2>3. RowFits(pc'[h], row, tries, ended)
    BY <1>2, <2>2 DEF RowFits, RunningSteps, EndedSteps
  <2>4. QED
    BY <1>5, <2>2, <2>3
<1>12. CASE Reread(h)
  <2>1. ~Unstopped(row)
    BY <1>2, <1>12 DEF Reread, RowFits, Over, Unstopped, TerminalTurnStatuses
  <2>2. after = row /\ pc[h] = "reread" /\ pc'[h] = "return"
    BY <1>6, <1>8, <1>12, <2>1 DEF Reread, Steps, row, database
  <2>3. RowFits(pc'[h], row, tries, ended)
    BY <1>2, <2>2 DEF RowFits, RunningSteps, EndedSteps, Over
  <2>4. QED
    BY <1>5, <2>2, <2>3
<1>13. CASE Probe(h)
  <2>1. pc[h] # "probe"
    BY <1>2 DEF RowFits
  <2>2. QED
    BY <1>13, <2>1 DEF Probe
<1>14. CASE Begin(h)
  <2>1. pc[h] = "begin" /\ after = row
    BY <1>8, <1>14 DEF Begin
  <2>2. pc'[h] = IF task' # task THEN "checkpoint" ELSE "discard"
    BY <1>2, <1>6, <1>14 DEF Begin, Steps
  <2>3. CASE task' # task
    BY <1>2, <1>5, <2>1, <2>2, <2>3 DEF RowFits, RunningSteps, EndedSteps
  <2>4. CASE task' = task
    <3>1. task[K(h)] \notin {"queued", "waiting"}
      BY <1>2, <1>14, <2>4, TransitionElsewhere DEF Begin
    <3>2. task[K(h)] # "running"
      <4> SUFFICES ASSUME task[K(h)] = "running"
                   PROVE  FALSE
        OBVIOUS
      <4>1. PICK g \in Handlers : Owns(g, K(h))
        BY <1>2 DEF OwnerInv, RunningTaskIsOwned
      <4>2. Busy(g) /\ K(g) = K(h) /\ pc[g] # "begin"
        BY <4>1 DEF Owns, OwnerSteps, Busy
      <4>3. ~Ended(K(h))
        BY DEF Ended, TerminalTaskStatuses
      <4>4. g = h
        BY <1>1, <4>2, <4>3, OneActive
      <4>5. QED
        BY <2>1, <4>2, <4>4
    <3>3. ended
      BY <1>2, <3>1, <3>2 DEF ended, Ended, TypeOK, StoreOK, TaskStatus, TerminalTaskStatuses
    <3>4. RowFits("discard", row, tries, ended)
      BY <1>2, <2>1, <3>3 DEF RowFits, RunningSteps
    <3>5. QED
      BY <1>5, <2>1, <2>2, <2>4, <3>4
  <2>5. QED
    BY <2>3, <2>4
<1>15. CASE Discard(h)
  <2>1. after = MarkTurnCancelled(row) /\ pc[h] = "discard" /\ pc'[h] = "return"
    BY <1>6, <1>7, <1>15 DEF Discard, Steps, row
  <2>2. ended
    BY <1>2, <2>1 DEF RowFits, EndedSteps
  <2>3. QED
    BY <1>9, <2>1, <2>2 DEF RunningSteps
<1>16. CASE Checkpoint(h)
  <2>1. /\ after = row /\ pc[h] = "checkpoint"
        /\ pc'[h] = IF ShouldSkipTurn(row) THEN "stopped" ELSE "recheck"
    BY <1>6, <1>8, <1>16 DEF Checkpoint, Steps, row, database
  <2>2. QED
    BY <1>2, <1>5, <2>1, RowMoves
<1>17. CASE Stopped(h)
  <2>1. after = MarkTurnCancelled(row) /\ pc[h] = "stopped" /\ pc'[h] = "release"
    BY <1>6, <1>7, <1>17 DEF Stopped, Steps, row
  <2>2. ended
    BY <1>2, <2>1 DEF RowFits, EndedSteps
  <2>3. QED
    BY <1>9, <2>1, <2>2 DEF RunningSteps
<1>18. CASE ReleaseTask(h)
  <2>1. after = row /\ pc[h] = "release" /\ pc'[h] = "return"
    BY <1>6, <1>8, <1>18 DEF ReleaseTask, Steps
  <2>2. QED
    BY <1>2, <1>5, <2>1 DEF RowFits, RunningSteps, EndedSteps
<1>19. CASE Recheck(h)
  <2>1. /\ after = row /\ pc[h] = "recheck"
        /\ pc'[h] = IF task[K(h)] = "running" THEN "dispatch" ELSE "return"
    BY <1>6, <1>8, <1>19 DEF Recheck, Steps, database
  <2>2. task[K(h)] = "running" \/ ended
    BY <1>2, <2>1 DEF OwnerInv, Holds, HolderSteps, OwnerSteps, ended
  <2>3. CASE task[K(h)] = "running"
    BY <1>2, <1>5, <2>1, <2>3, RowMoves
  <2>4. CASE task[K(h)] # "running"
    BY <1>2, <1>5, <2>1, <2>2, <2>4 DEF RowFits, RunningSteps, EndedSteps
  <2>5. QED
    BY <2>3, <2>4
<1>20. CASE Dispatch(h)
  <2>1. after = row /\ pc[h] = "dispatch" /\ pc'[h] = "await"
    BY <1>6, <1>8, <1>20 DEF Dispatch, Steps, database
  <2>2. QED
    BY <1>2, <1>5, <2>1, RowMoves
<1>21. CASE SettleFailed(h) \/ StepThrows(h)
  <2>1. /\ after = row /\ pc'[h] = "error"
        /\ pc[h] \in {"await", "checkpoint", "recheck", "dispatch"}
    BY <1>6, <1>8, <1>21 DEF SettleFailed, StepThrows, CatchError, Steps, database
  <2>2. QED
    BY <1>2, <1>5, <2>1 DEF RowFits, RunningSteps, EndedSteps
<1>22. CASE SettleCompleted(h)
  <2>1. /\ after = MarkTurnCompleted(row) /\ pc[h] = "await"
        /\ pc'[h] = IF after # row THEN "toWaiting" ELSE "abandon"
    <3>1. after = MarkTurnCompleted(row) /\ (turns' # turns <=> after # row)
      BY <1>2, <1>7, <1>22 DEF SettleCompleted, row, after
    <3>2. QED
      BY <1>6, <1>22, <3>1 DEF SettleCompleted, Steps
  <2>2. row.status = "running" /\ row.attempts = tries + 1
    BY <1>2, <2>1 DEF RowFits, RunningSteps
  <2>3. CASE Unstopped(row)
    <3>1. after.status = "completed" /\ after # row
      BY <1>2, <2>1, <2>2, <2>3 DEF MarkTurnCompleted, Row
    <3>2. RowFits(pc'[h], after, tries, ended)
      BY <2>1, <3>1 DEF RowFits, RunningSteps, EndedSteps, TerminalTurnStatuses
    <3>3. RowGood(h)
      BY <3>1 DEF RowGood, after
    <3>4. QED
      BY <1>4, <3>2, <3>3
  <2>4. CASE ~Unstopped(row)
    <3>1. after = row /\ pc'[h] = "abandon"
      BY <2>1, <2>4 DEF MarkTurnCompleted
    <3>2. ended
      BY <1>2, <2>2, <2>4 DEF Unstopped
    <3>3. RowFits("abandon", row, tries, ended)
      BY <2>2, <3>2 DEF RowFits
    <3>4. QED
      BY <1>5, <3>1, <3>3
  <2>5. QED
    BY <2>3, <2>4
<1>23. CASE ToWaiting(h)
  <2>1. after = row /\ pc[h] = "toWaiting" /\ pc'[h] = "return"
    BY <1>6, <1>8, <1>23 DEF ToWaiting, Steps
  <2>2. QED
    BY <1>2, <1>5, <2>1 DEF RowFits, RunningSteps, EndedSteps
<1>24. CASE Abandon(h)
  <2>1. after = MarkTurnCancelled(row) /\ pc'[h] = "return"
    BY <1>6, <1>7, <1>24 DEF Abandon, Steps, row
  <2>2. ended
    BY <1>1, <1>2, <1>24 DEF Abandon, RowFits, EndedSteps, WaiterInv, ended
  <2>3. QED
    BY <1>9, <2>1, <2>2 DEF RunningSteps
<1>25. CASE HandleTurnError(h)
  <2>1. /\ after = row /\ pc[h] = "error"
        /\ pc'[h] = IF ShouldSkipTurn(row) THEN "abandon"
                    ELSE IF tries < RetryLimit THEN "retryTurn" ELSE "failTurn"
    BY <1>6, <1>8, <1>25 DEF HandleTurnError, Steps, row, tries, database
  <2>2. row.status = "running" /\ row.attempts = tries + 1
    BY <1>2, <2>1 DEF RowFits, RunningSteps
  <2>3. CASE ShouldSkipTurn(row)
    <3>1. ended
      BY <1>2, <2>2, <2>3 DEF ShouldSkipTurn, TerminalTurnStatuses
    <3>2. RowFits("abandon", row, tries, ended)
      BY <2>2, <3>1 DEF RowFits
    <3>3. QED
      BY <1>5, <2>1, <2>3, <3>2
  <2>4. CASE ~ShouldSkipTurn(row)
    <3>1. CASE tries < RetryLimit
      BY <1>5, <2>1, <2>2, <2>4, <3>1 DEF RowFits, EndedSteps
    <3>2. CASE ~(tries < RetryLimit)
      <4>1. tries = RetryLimit
        BY <1>2, <3>2, BoundsAssumption
      <4>2. QED
        BY <1>5, <2>1, <2>2, <2>4, <3>2, <4>1 DEF RowFits, EndedSteps
    <3>3. QED
      BY <3>1, <3>2
  <2>5. QED
    BY <2>3, <2>4
<1>26. CASE RetryTurn(h)
  <2>1. after = MarkTurnRetrying(row) /\ pc[h] = "retryTurn" /\ pc'[h] = "retryTask"
    BY <1>6, <1>7, <1>26 DEF RetryTurn, Steps, row
  <2>2. RowGood(h)
    BY <1>2, <2>1 DEF RowGood, MarkTurnRetrying, Unstopped, row, after
  <2>3. QED
    BY <1>2, <1>4, <2>1, <2>2, RowMoves
<1>27. CASE RetryTask(h)
  <2>1. after = row /\ pc[h] = "retryTask" /\ pc'[h] = "throw"
    BY <1>6, <1>8, <1>27 DEF RetryTask, Steps
  <2>2. QED
    BY <1>2, <1>5, <2>1 DEF RowFits, RunningSteps, EndedSteps
<1>28. CASE FailTurn(h)
  <2>1. after = MarkTurnFailed(row) /\ pc[h] = "failTurn" /\ pc'[h] = "failTask"
    BY <1>6, <1>7, <1>28 DEF FailTurn, Steps, row
  <2>2. row.attempts = RetryLimit + 1 /\ row.status = "running"
    BY <1>2, <2>1 DEF RowFits, RunningSteps
  <2>3. after.attempts = RetryLimit + 1 /\ after.status \in {"running", "failed"}
    BY <1>2, <2>1, <2>2 DEF MarkTurnFailed, Row
  <2>4. RowGood(h)
    BY <2>2, <2>3 DEF RowGood, row, after
  <2>5. QED
    BY <1>2, <1>4, <2>1, <2>4, RowMoves
<1>29. CASE FailTask(h)
  <2>1. after = row /\ pc[h] = "failTask" /\ pc'[h] = "return"
    BY <1>6, <1>8, <1>29 DEF FailTask, Steps
  <2>2. RowFits("return", row, tries, ended)
    BY <1>2, <2>1 DEF RowFits, RunningSteps, EndedSteps, TerminalTurnStatuses
  <2>3. QED
    BY <1>5, <2>1, <2>2
<1>30. QED
  BY <1>10, <1>11, <1>12, <1>13, <1>14, <1>15, <1>16, <1>17, <1>18, <1>19, <1>20,
     <1>21, <1>22, <1>23, <1>24, <1>25, <1>26, <1>27, <1>28, <1>29 DEF LocalAction

--------------------------------------------------------------------------------
\* What every step does to the parts of the invariant, whoever takes it.

\* Intake: a step that writes no new row and sends no job.
LEMMA IntakeStays ==
  ASSUME TypeOK, StopInv, StoreStep, IntakeInv,
         \A u \in Turns : Written(u)' => Written(u),
         received' \subseteq received,
         DOMAIN jobs' = DOMAIN jobs,
         \A j \in DOMAIN jobs : jobs'[j].turn = jobs[j].turn
  PROVE  IntakeInv'
<1>1. \A u \in Turns : Written(u)' <=> Written(u)
  BY WrittenStays DEF Written
<1>2. ASSUME NEW u \in Turns, ~Written(u)'
      PROVE  turns'[u] = NoRow
  <2>1. turns[u] = NoRow
    BY <1>1, <1>2 DEF IntakeInv
  <2>2. \A t \in Tasks : u \notin control[t].gate
    BY <1>1, <1>2 DEF StopInv, Written
  <2>3. FollowsEdges(turns[u], turns'[u])
    BY <2>2, RowAfter
  <2>4. \A edge \in Lifecycle!GatedEdges \cup Lifecycle!TurnEdges : edge[2] # "none"
    BY DEF Lifecycle!GatedEdges, Lifecycle!TurnEdges
  <2>5. QED
    BY <1>2, <2>1, <2>3, <2>4 DEF FollowsEdges, Written
<1>3. \A u \in received' : ~Written(u)'
  BY <1>1 DEF IntakeInv, TypeOK
<1>4. \A u, v \in Turns :
        TaskOf[u] = TaskOf[v] /\ v < u /\ Written(u)' => Written(v)'
  BY <1>1 DEF IntakeInv
<1>5. \A j \in DOMAIN jobs' : turns'[jobs'[j].turn].status # "none"
  <2> SUFFICES ASSUME NEW j \in DOMAIN jobs
               PROVE  turns'[jobs[j].turn].status # "none"
    OBVIOUS
  <2>1. Written(jobs[j].turn) /\ jobs[j].turn \in Turns
    BY JobFacts DEF IntakeInv
  <2>2. QED
    BY <1>1, <2>1 DEF Written
<1>6. QED
  BY <1>2, <1>3, <1>4, <1>5 DEF IntakeInv, Written

\* The queue: a step that sends and delivers nothing.
LEMMA QueueStays ==
  ASSUME TypeOK, QueueInv,
         DOMAIN jobs' = DOMAIN jobs,
         \A j \in DOMAIN jobs :
           /\ jobs'[j].turn = jobs[j].turn
           /\ jobs'[j].state = "active" => jobs[j].state = "active"
           /\ Live(jobs', j) => Live(jobs, j)
  PROVE  QueueInv'
BY DEF QueueInv, SameKey

\* A row that a job waits for.
LEMMA JobsStay ==
  ASSUME TypeOK, JobInv,
         DOMAIN jobs' = DOMAIN jobs,
         \A j \in DOMAIN jobs :
           /\ jobs'[j] = jobs[j] \/ jobs'[j].state \notin {"created", "retry"}
           /\ jobs[j].state \in {"created", "retry"} =>
                Outside(turns[jobs[j].turn], turns'[jobs[j].turn])
  PROVE  JobInv'
<1> SUFFICES ASSUME NEW j \in DOMAIN jobs, jobs'[j].state \in {"created", "retry"}
             PROVE  /\ jobs'[j].state = "created" =>
                         /\ jobs'[j].retries = 0
                         /\ \/ Awaits(turns'[jobs'[j].turn], 0)
                            \/ Over(turns'[jobs'[j].turn])
                    /\ jobs'[j].state = "retry" =>
                         /\ jobs'[j].retries < RetryLimit
                         /\ \/ Awaits(turns'[jobs'[j].turn], jobs'[j].retries + 1)
                            \/ Over(turns'[jobs'[j].turn])
  BY DEF JobInv
<1>1. jobs'[j] = jobs[j] /\ Outside(turns[jobs[j].turn], turns'[jobs[j].turn])
  OBVIOUS
<1>2. turns[jobs[j].turn] \in Row
  BY JobFacts
<1>3. /\ \A n : Awaits(turns[jobs[j].turn], n) =>
           Awaits(turns'[jobs[j].turn], n) \/ Over(turns'[jobs[j].turn])
      /\ Over(turns[jobs[j].turn]) => Over(turns'[jobs[j].turn])
  BY <1>1, <1>2, OutsideFits
<1>4. QED
  BY <1>1, <1>3 DEF JobInv

\* A handler that does not move itself.
LEMMA HandlerStays ==
  ASSUME TypeOK, StoreStep, HandlerInv, NEW g \in Handlers, Busy(g),
         pc'[g] = pc[g], run'[g].job = run[g].job, run'[g].turn = run[g].turn,
         run'[g].tries = run[g].tries, run'[g].resumed = run[g].resumed,
         Outside(turns[T(g)], turns'[T(g)]),
         \/ jobs'[JobOf(g)].state = jobs[JobOf(g)].state
         \/ jobs'[JobOf(g)].state = "cancelled" /\ Ended(K(g)),
         jobs'[JobOf(g)].retries = jobs[JobOf(g)].retries
  PROVE  HandlerFits(g)'
<1>1. HandlerFits(g)
  BY DEF HandlerInv
<1>2. K(g) \in Tasks /\ turns[T(g)] \in Row
  BY HandlerFacts
<1>3. Ended(K(g)) => task'[K(g)] \in TerminalTaskStatuses
  BY <1>2, EndedStays DEF Ended
<1>4. RowFits(pc[g], turns[T(g)], run[g].tries, Ended(K(g)))
  BY <1>1 DEF HandlerFits
<1>5. RowFits(pc[g], turns'[T(g)], run[g].tries, task'[K(g)] \in TerminalTaskStatuses)
  BY <1>2, <1>3, <1>4, RowFitsStays
<1>6. \/ jobs'[JobOf(g)].state = "active"
      \/ jobs'[JobOf(g)].state = "cancelled" /\ task'[K(g)] \in TerminalTaskStatuses
  BY <1>1, <1>3 DEF HandlerFits
<1>7. run[g].tries = jobs[JobOf(g)].retries /\ run[g].tries <= RetryLimit
  BY <1>1 DEF HandlerFits
<1>8. ~run'[g].resumed
  BY <1>1 DEF HandlerFits
<1>9. JobOf(g)' = JobOf(g) /\ T(g)' = T(g) /\ K(g)' = K(g)
  BY DEF JobOf, T, K
<1>10. QED
  BY <1>5, <1>6, <1>7, <1>8, <1>9 DEF HandlerFits, Ended

\* The reasons for the status of a row: a step that sends, delivers and ends no
\* job, as long as the row itself is treated well.
LEMMA RowStays ==
  ASSUME TypeOK, TypeOK', StopInv, StoreStep, RowInv, NEW u \in Turns,
         turns'[u].status = "cancelled" =>
           turns[u].status = "cancelled" \/ Ended(TaskOf[u]),
         turns'[u].status = "failed" =>
           \/ turns[u].status = "failed" /\ turns'[u].attempts = turns[u].attempts
           \/ turns'[u].attempts = RetryLimit + 1,
         turns'[u].status \in {"queued", "running"} =>
           \/ Ended(TaskOf[u])
           \/ \E j \in DOMAIN jobs' : jobs'[j].turn = u /\ Live(jobs', j)
  PROVE  /\ turns'[u].cancelReq => task'[TaskOf[u]] \in TerminalTaskStatuses
         /\ turns'[u].status = "cancelled" => task'[TaskOf[u]] \in TerminalTaskStatuses
         /\ turns'[u].status = "failed" => turns'[u].attempts = RetryLimit + 1
         /\ turns'[u].status \in {"queued", "running"} =>
              \/ task'[TaskOf[u]] \in TerminalTaskStatuses
              \/ \E j \in DOMAIN jobs' : jobs'[j].turn = u /\ Live(jobs', j)
<1>1. TaskOf[u] \in Tasks
  BY TaskOfAssumption
<1>2. Ended(TaskOf[u]) => task'[TaskOf[u]] \in TerminalTaskStatuses
  BY <1>1, EndedStays DEF Ended
<1>3. ASSUME turns'[u].cancelReq
      PROVE  Ended(TaskOf[u])
  <2>1. CASE FollowsEdges(turns[u], turns'[u])
    BY <1>3, <2>1 DEF FollowsEdges, RowInv
  <2>2. CASE \E t \in Tasks : u \in control[t].gate
    <3>1. PICK t \in Tasks : u \in control[t].gate
      BY <2>2
    <3>2. u \in TurnsOf(t) /\ task[t] = "cancelled"
      BY <3>1 DEF StopInv
    <3>3. QED
      BY <3>2 DEF TurnsOf, Ended, TerminalTaskStatuses
  <2>3. QED
    BY <2>1, <2>2, RowAfter
<1>4. QED
  BY <1>2, <1>3 DEF RowInv

LEMMA FailedStays ==
  ASSUME TypeOK, StoreStep, FailedTaskHasFailedTurn,
         \A t \in Tasks : task'[t] = "failed" =>
           \/ task[t] = "failed"
           \/ \E u \in TurnsOf(t) : turns[u].status = "failed"
  PROVE  FailedTaskHasFailedTurn'
<1>1. ASSUME NEW u \in Turns, turns[u].status = "failed"
      PROVE  turns'[u].status = "failed"
  <2>0. turns[u] \in Row
    BY DEF TypeOK, StoreOK
  <2>1. CASE turns'[u] = RequestCancel(turns[u])
    BY <1>1, <2>0, <2>1 DEF RequestCancel, Row
  <2>2. CASE FollowsEdges(turns[u], turns'[u])
    BY <1>1, <2>2 DEF FollowsEdges, Lifecycle!GatedEdges, Lifecycle!TurnEdges
  <2>3. QED
    BY <2>1, <2>2, RowAfter
<1>2. QED
  BY <1>1 DEF FailedTaskHasFailedTurn, TurnsOf

\* The steps of a handler between claim and return, together.
LEMMA LocalKeeps ==
  ASSUME TypeOK, TypeOK', StopInv, StoreStep, IntakeInv, QueueInv, JobInv, HandlerInv,
         RowInv, FailedTaskHasFailedTurn, OwnerInv, WaiterInv,
         NEW h \in Handlers, LocalAction(h)
  PROVE  /\ IntakeInv' /\ QueueInv' /\ JobInv' /\ HandlerInv' /\ RowInv'
         /\ FailedTaskHasFailedTurn'
<1>1. LocalStep(h) /\ After(h) /\ Busy(h)
  BY LocalSteps, LocalAfter DEF LocalStep
<1>2. /\ T(h) \in Turns /\ K(h) = TaskOf[T(h)] /\ K(h) \in Tasks
      /\ JobOf(h) \in DOMAIN jobs /\ jobs[JobOf(h)].turn = T(h)
      /\ pc \in [Handlers -> Steps \cup {"idle"}]
  BY <1>1, HandlerFacts DEF TypeOK, HandlersOK
<1>3. JobOf(h)' = JobOf(h) /\ T(h)' = T(h) /\ K(h)' = K(h)
  BY <1>1 DEF LocalStep, JobOf, T, K
<1>4. UNCHANGED <<jobs, received>>
  BY <1>1 DEF LocalStep
<1>5. IntakeInv'
  <2>1. \A u \in Turns : Written(u)' => Written(u)
    <3>1. Written(T(h))
      BY <1>2 DEF IntakeInv
    <3>2. QED
      BY <1>1, <3>1 DEF LocalStep, Written
  <2>2. QED
    BY <1>4, <2>1, IntakeStays
<1>6. QueueInv'
  BY <1>4, QueueStays DEF Live
<1>7. JobInv'
  <2>1. ASSUME NEW j \in DOMAIN jobs, jobs[j].state \in {"created", "retry"}
        PROVE  Outside(turns[jobs[j].turn], turns'[jobs[j].turn])
    <3>1. j # JobOf(h)
      BY <1>1, <2>1 DEF HandlerInv, HandlerFits
    <3>2. jobs[j].turn # T(h)
      BY <1>2, <3>1, OneJob
    <3>3. jobs[j].turn \in Turns
      BY JobFacts
    <3>4. QED
      BY <1>1, <3>2, <3>3 DEF LocalStep, Outside
  <2>2. QED
    BY <1>4, <2>1, JobsStay
<1>8. HandlerInv'
  <2>1. HandlerFits(h)'
    <3>1. RowFits(pc'[h], turns'[T(h)], run[h].tries, task'[K(h)] \in TerminalTaskStatuses)
      BY <1>1 DEF After
    <3>2. /\ \/ jobs[JobOf(h)].state = "active"
             \/ jobs[JobOf(h)].state = "cancelled" /\ Ended(K(h))
          /\ run[h].tries = jobs[JobOf(h)].retries /\ run[h].tries <= RetryLimit
          /\ ~run[h].resumed
      BY <1>1 DEF HandlerInv, HandlerFits
    <3>3. Ended(K(h)) => task'[K(h)] \in TerminalTaskStatuses
      BY <1>2, EndedStays DEF Ended
    <3>4. run'[h].tries = run[h].tries /\ ~run'[h].resumed
      BY <1>1, <3>2 DEF LocalStep
    <3>5. QED
      BY <1>3, <1>4, <3>1, <3>2, <3>3, <3>4 DEF HandlerFits, Ended
  <2>2. ASSUME NEW g \in Handlers, g # h
        PROVE  /\ Busy(g)' <=> Busy(g)
               /\ JobOf(g)' = JobOf(g)
               /\ Busy(g) => HandlerFits(g)'
    <3>1. pc'[g] = pc[g] /\ run'[g] = run[g]
      BY <1>1, <1>2, <2>2 DEF LocalStep
    <3>2. ASSUME Busy(g)
          PROVE  HandlerFits(g)'
      <4>1. T(g) # T(h) /\ T(g) \in Turns
        BY <1>1, <2>2, <3>2, HandlerFacts, OneHandler
      <4>2. Outside(turns[T(g)], turns'[T(g)])
        BY <1>1, <4>1 DEF LocalStep, Outside
      <4>3. QED
        BY <1>4, <3>1, <3>2, <4>2, HandlerStays
    <3>3. QED
      BY <3>1, <3>2 DEF Busy, JobOf
  <2>3. Busy(h)'
    BY <1>1 DEF LocalStep, Busy, Steps
  <2>4. \A g \in Handlers : (Busy(g)' <=> Busy(g)) /\ JobOf(g)' = JobOf(g)
    BY <1>1, <1>3, <2>2, <2>3
  <2>5. \A g \in Handlers : Busy(g)' => HandlerFits(g)'
    BY <2>1, <2>2
  <2>6. QED
    BY <1>4, <2>4, <2>5 DEF HandlerInv
<1>9. RowInv'
  <2> SUFFICES ASSUME NEW u \in Turns
               PROVE  /\ turns'[u].cancelReq => task'[TaskOf[u]] \in TerminalTaskStatuses
                      /\ turns'[u].status = "cancelled" =>
                           task'[TaskOf[u]] \in TerminalTaskStatuses
                      /\ turns'[u].status = "failed" =>
                           turns'[u].attempts = RetryLimit + 1
                      /\ turns'[u].status \in {"queued", "running"} =>
                           \/ task'[TaskOf[u]] \in TerminalTaskStatuses
                           \/ \E j \in DOMAIN jobs' :
                                jobs'[j].turn = u /\ Live(jobs', j)
    BY DEF RowInv, Ended, Unsettled
  <2>1. turns'[u] = turns[u] \/ u = T(h)
    BY <1>1 DEF LocalStep
  <2>2. /\ turns'[u].status = "cancelled" =>
             turns[u].status = "cancelled" \/ Ended(TaskOf[u])
        /\ turns'[u].status = "failed" =>
             \/ turns[u].status = "failed" /\ turns'[u].attempts = turns[u].attempts
             \/ turns'[u].attempts = RetryLimit + 1
        /\ turns'[u].status \in {"queued", "running"} =>
             turns[u].status \in {"queued", "running"}
    BY <1>1, <1>2, <2>1 DEF After, RowGood
  <2>3. turns'[u].status \in {"queued", "running"} =>
           \/ Ended(TaskOf[u])
           \/ \E j \in DOMAIN jobs' : jobs'[j].turn = u /\ Live(jobs', j)
    BY <1>4, <2>2 DEF RowInv, Unsettled, Live
  <2>4. QED
    BY <2>2, <2>3, RowStays
<1>10. FailedTaskHasFailedTurn'
  <2>1. ASSUME NEW t \in Tasks, task'[t] = "failed", task[t] # "failed"
        PROVE  \E u \in TurnsOf(t) : turns[u].status = "failed"
    <3>1. t = K(h) /\ pc[h] = "failTask" /\ ~Ended(K(h))
      <4>1. t = K(h)
        BY <1>1, <2>1 DEF LocalStep
      <4>2. ~Ended(K(h))
        BY <1>2, <2>1, <4>1, EndedStays DEF Ended
      <4>3. pc[h] = "failTask"
        <5>1. FailTask(h) \/ UNCHANGED task
              \/ \E from, to : to # "failed" /\ task' = Transition(K(h), from, to)
          BY DEF LocalAction, Claim, Resume, Reread, Probe, Begin, Discard, Checkpoint,
                 Stopped, ReleaseTask, Recheck, Dispatch, SettleCompleted, ToWaiting,
                 Abandon, SettleFailed, HandleTurnError, RetryTurn, RetryTask, FailTurn,
                 StepThrows, database
        <5>2. QED
          BY <1>2, <2>1, <4>1, <5>1, TransitionElsewhere DEF FailTask
      <4>4. QED
        BY <4>1, <4>2, <4>3
    <3>2. turns[T(h)].status = "failed"
      BY <1>1, <3>1, NotResumed DEF RowFits
    <3>3. QED
      BY <1>2, <3>1, <3>2 DEF TurnsOf
  <2>2. QED
    BY <2>1, FailedStays
<1>11. QED
  BY <1>5, <1>6, <1>7, <1>8, <1>9, <1>10

\* The owner of a task under such a step: it stays, or it goes because the task
\* is not running any more, or nobody was there when it came.
OwnerMoves(h) ==
  \/ /\ UNCHANGED task
     /\ pc'[h] \in HolderSteps => pc[h] \in HolderSteps
     /\ pc[h] \in OwnerSteps /\ pc'[h] \notin OwnerSteps => task[K(h)] # "running"
  \/ /\ pc[h] \in OwnerSteps /\ pc'[h] \notin HolderSteps
     /\ task'[K(h)] # "running"
  \/ /\ task[K(h)] \in {"queued", "waiting"} /\ task'[K(h)] = "running"
     /\ pc'[h] \in OwnerSteps

LEMMA OwnerMoved ==
  ASSUME TypeOK, StoreStep, OwnerInv, NEW h \in Handlers, LocalStep(h), OwnerMoves(h)
  PROVE  OwnerInv'
<1>1. /\ K(h) \in Tasks /\ K(h)' = K(h)
      /\ \A g \in Handlers : g # h => pc'[g] = pc[g] /\ K(g)' = K(g)
  <2>1. K(h) \in Tasks /\ pc \in [Handlers -> Steps \cup {"idle"}]
    BY HandlerFacts DEF LocalStep, TypeOK, HandlersOK
  <2>2. QED
    BY <2>1 DEF LocalStep, K
<1>2. \A g \in Handlers, t \in Tasks : g # h =>
        /\ Holds(g, t)' <=> Holds(g, t)
        /\ Owns(g, t)' <=> Owns(g, t)
  BY <1>1 DEF Holds, Owns
<1>3. \A t \in Tasks : t # K(h) =>
        /\ ~Holds(h, t) /\ ~Holds(h, t)' /\ ~Owns(h, t) /\ ~Owns(h, t)'
        /\ task'[t] = task[t]
  BY <1>1 DEF Holds, Owns, LocalStep
<1>4. \A g \in Handlers, t \in Tasks : Owns(g, t) => Holds(g, t)
  BY DEF Owns, Holds, HolderSteps
<1>5. \A t \in Tasks : Ended(t) => Ended(t)'
  BY EndedStays DEF Ended
<1>6. ASSUME NEW t \in Tasks, t # K(h)
      PROVE  /\ \A g \in Handlers : Holds(g, t)' => task'[t] = "running" \/ Ended(t)'
             /\ \A g, f \in Handlers : Holds(g, t)' /\ Holds(f, t)' => g = f
             /\ task'[t] = "running" => \E g \in Handlers : Owns(g, t)'
  BY <1>2, <1>3, <1>5, <1>6 DEF OwnerInv, RunningTaskIsOwned
<1>7. ASSUME NEW k \in Tasks, k = K(h)
      PROVE  /\ \A g \in Handlers : Holds(g, k)' => task'[k] = "running" \/ Ended(k)'
             /\ \A g, f \in Handlers : Holds(g, k)' /\ Holds(f, k)' => g = f
             /\ task'[k] = "running" => \E g \in Handlers : Owns(g, k)'
  <2>0. /\ \A g \in Handlers : Holds(g, k) => task[k] = "running" \/ Ended(k)
        /\ \A g, f \in Handlers : Holds(g, k) /\ Holds(f, k) => g = f
        /\ task[k] = "running" => \E g \in Handlers : Owns(g, k)
    BY DEF OwnerInv, RunningTaskIsOwned
  <2>1. /\ Holds(h, k) <=> pc[h] \in HolderSteps
        /\ Holds(h, k)' <=> pc'[h] \in HolderSteps
        /\ Owns(h, k) <=> pc[h] \in OwnerSteps
        /\ Owns(h, k)' <=> pc'[h] \in OwnerSteps
    BY <1>1, <1>7 DEF Holds, Owns
  <2>2. CASE /\ UNCHANGED task
             /\ Holds(h, k)' => Holds(h, k)
             /\ Owns(h, k) /\ ~Owns(h, k)' => task[k] # "running"
    BY <1>2, <1>5, <2>0, <2>2
  <2>3. CASE /\ Owns(h, k) /\ ~Holds(h, k)'
             /\ task'[k] # "running"
    BY <1>2, <1>4, <2>0, <2>3
  <2>4. CASE /\ task[k] \in {"queued", "waiting"} /\ task'[k] = "running"
             /\ Owns(h, k)'
    <3>1. \A g \in Handlers : ~Holds(g, k)
      BY <2>0, <2>4 DEF Ended, TerminalTaskStatuses
    <3>2. QED
      BY <1>2, <2>0, <2>4, <3>1
  <2>5. QED
    BY <1>7, <2>1, <2>2, <2>3, <2>4 DEF OwnerMoves
<1>8. \A t \in Tasks :
        /\ \A g \in Handlers : Holds(g, t)' => task'[t] = "running" \/ Ended(t)'
        /\ \A g, f \in Handlers : Holds(g, t)' /\ Holds(f, t)' => g = f
        /\ task'[t] = "running" => \E g \in Handlers : Owns(g, t)'
  BY <1>6, <1>7
<1>9. QED
  BY <1>8 DEF OwnerInv, RunningTaskIsOwned

LEMMA LocalOwner ==
  ASSUME TypeOK, TypeOK', StopInv, StoreStep, QueueInv, HandlerInv, RowInv, OwnerInv,
         WaiterInv, NEW h \in Handlers, LocalAction(h)
  PROVE  OwnerInv'
<1>1. LocalStep(h) /\ Busy(h) /\ After(h) /\ K(h) \in Tasks
  BY LocalSteps, LocalAfter, HandlerFacts DEF LocalStep
<1>2. ASSUME NEW step \in Steps, Goto(h, step)
      PROVE  pc'[h] = step
  BY <1>1, <1>2, Moves
<1>3. ASSUME Ended(K(h))
      PROVE  task[K(h)] # "running"
  BY <1>3 DEF Ended, TerminalTaskStatuses
<1>4. run[h].resumed = FALSE
  BY <1>1, NotResumed
<1>5. OwnerMoves(h)
  <2> USE DEF OwnerMoves, OwnerSteps, HolderSteps, Steps
  <2>1. CASE Claim(h) \/ Discard(h) \/ RetryTurn(h) \/ FailTurn(h)
    BY <1>2, <2>1 DEF Claim, Discard, RetryTurn, FailTurn
  <2>2. CASE Resume(h) \/ Reread(h) \/ Probe(h)
    <3>1. pc[h] \notin HolderSteps /\ UNCHANGED task
      BY <2>2 DEF Resume, Reread, Probe, database
    <3>2. pc'[h] \notin HolderSteps
      <4>1. pc[h] # "probe"
        BY <1>1, NotResumed DEF RowFits
      <4>2. pc'[h] \in {"reread", "return", "probe"}
        BY <1>2, <2>2, <4>1 DEF Resume, Reread, Probe, BecomeResumed
      <4>3. QED
        BY <4>2
    <3>3. QED
      BY <3>1, <3>2
  <2>3. CASE Begin(h)
    <3>1. CASE task' # task
      <4>1. task[K(h)] \in {"queued", "waiting"} /\ task'[K(h)] = "running"
        <5>1. task' = Transition(K(h), {"queued", "waiting"}, "running")
          BY <2>3 DEF Begin
        <5>2. task[K(h)] \in {"queued", "waiting"}
          BY <3>1, <5>1 DEF Transition
        <5>3. QED
          BY <1>1, <5>1, <5>2, TransitionElsewhere
      <4>2. pc'[h] = "checkpoint"
        BY <1>2, <2>3, <3>1 DEF Begin
      <4>3. QED
        BY <4>1, <4>2
    <3>2. CASE task' = task
      <4>1. pc'[h] = "discard" /\ pc[h] = "begin"
        BY <1>2, <1>4, <2>3, <3>2 DEF Begin
      <4>2. QED
        BY <3>2, <4>1
    <3>3. QED
      BY <3>1, <3>2
  <2>4. CASE Checkpoint(h) \/ Stopped(h) \/ Dispatch(h) \/ SettleFailed(h) \/ StepThrows(h)
    BY <1>2, <2>4
    DEF Checkpoint, Stopped, Dispatch, SettleFailed, StepThrows, CatchError, database
  <2>5. CASE Recheck(h)
    BY <1>2, <2>5 DEF Recheck, database
  <2>6. CASE ReleaseTask(h) \/ ToWaiting(h) \/ RetryTask(h) \/ FailTask(h)
    <3>1. pc[h] \in OwnerSteps /\ pc'[h] \in {"return", "throw"}
      BY <1>2, <2>6 DEF ReleaseTask, ToWaiting, RetryTask, FailTask
    <3>2. \E to \in {"waiting", "queued", "failed"} :
            task' = Transition(K(h), {"running"}, to)
      BY <2>6 DEF ReleaseTask, ToWaiting, RetryTask, FailTask
    <3>3. task'[K(h)] # "running"
      BY <1>1, <3>2, TransitionElsewhere
    <3>4. QED
      BY <3>1, <3>3
  <2>7. CASE SettleCompleted(h) \/ HandleTurnError(h)
    <3>1. /\ UNCHANGED task /\ pc[h] \in {"await", "error"}
          /\ pc'[h] \in {"toWaiting", "abandon", "retryTurn", "failTurn"}
      BY <1>2, <2>7 DEF SettleCompleted, HandleTurnError, database
    <3>2. pc'[h] = "abandon" => task[K(h)] \in TerminalTaskStatuses
      BY <1>1, <3>1 DEF After, RowFits, EndedSteps
    <3>3. QED
      BY <1>3, <3>1, <3>2 DEF Ended
  <2>8. CASE Abandon(h)
    <3>1. UNCHANGED task /\ pc'[h] = "return"
      BY <1>2, <2>8 DEF Abandon
    <3>2. Ended(K(h))
      BY <1>1, <2>8, NotResumed DEF Abandon, RowFits, EndedSteps, WaiterInv
    <3>3. QED
      BY <1>3, <3>1, <3>2
  <2>9. QED
    BY <2>1, <2>2, <2>3, <2>4, <2>5, <2>6, <2>7, <2>8 DEF LocalAction
<1>6. QED
  BY <1>1, <1>5, OwnerMoved

\* What such a step does to the promises of an instance.
WaiterMoves(h) ==
  /\ \/ waiter' = waiter
     \/ waiter' = [waiter EXCEPT ![K(h)] = WaitForTurnOutcome(@, h)]
     \/ /\ Holds(h, K(h)) /\ pc'[h] \notin {"dispatch", "await"}
        /\ waiter' = [waiter EXCEPT ![K(h)] = ClearTurnWaiter(@)]
  /\ run'[h].outcome \in {run[h].outcome, "none"}
  /\ \/ pc'[h] \notin {"dispatch", "await"}
     \/ /\ pc'[h] = "dispatch"
        /\ waiter' = [waiter EXCEPT ![K(h)] = WaitForTurnOutcome(@, h)]
     \/ /\ pc[h] = "dispatch" /\ waiter' = waiter
        /\ run'[h].outcome = run[h].outcome
  /\ \/ submissions' = submissions /\ pc'[h] # "await"
     \/ submissions' = [submissions EXCEPT
          ![K(h)] = Append(@, [turn |-> T(h), erred |-> FALSE])]

LEMMA LocalWaiter ==
  ASSUME TypeOK, HandlerInv, NEW h \in Handlers, LocalAction(h)
  PROVE  WaiterMoves(h)
<1>1. LocalStep(h) /\ Busy(h) /\ run[h].resumed = FALSE
  BY LocalSteps, NotResumed DEF LocalStep
<1>2. ASSUME NEW step \in Steps, Goto(h, step)
      PROVE  pc'[h] = step
  BY <1>1, <1>2, Moves
<1>3. CASE Claim(h) \/ Discard(h) \/ RetryTurn(h) \/ FailTurn(h) \/ SettleCompleted(h)
  BY <1>2, <1>3
  DEF Claim, Discard, RetryTurn, FailTurn, SettleCompleted, WaiterMoves, Steps, flue
<1>4. CASE Begin(h) \/ ReleaseTask(h) \/ ToWaiting(h) \/ RetryTask(h)
  BY <1>2, <1>4
  DEF Begin, ReleaseTask, ToWaiting, RetryTask, WaiterMoves, Steps, flue
<1>5. CASE Checkpoint(h) \/ HandleTurnError(h)
  BY <1>2, <1>5 DEF Checkpoint, HandleTurnError, WaiterMoves, Steps, flue
<1>6. CASE SettleFailed(h) \/ StepThrows(h)
  <2>1. UNCHANGED <<waiter, run, submissions>> /\ pc'[h] = "error"
    BY <1>1, <1>2, <1>6 DEF SettleFailed, StepThrows, CatchError, Steps, flue
  <2>2. QED
    BY <2>1 DEF WaiterMoves
<1>7. CASE Resume(h) \/ Reread(h) \/ Probe(h)
  <2>1. RowFits(pc[h], turns[T(h)], run[h].tries, Ended(K(h)))
    BY <1>1, NotResumed
  <2>2. pc[h] # "probe" /\ ~Claimable(turns[T(h)]) /\ ~Unstopped(turns[T(h)])
    <3>1. turns[T(h)] \in Row
      BY <1>1, HandlerFacts
    <3>2. pc[h] # "probe"
      BY <2>1 DEF RowFits
    <3>3. Over(turns[T(h)])
      BY <1>7, <2>1, <3>2 DEF RowFits, Resume, Reread, Probe
    <3>4. QED
      BY <3>1, <3>2, <3>3 DEF Over, Claimable, Unstopped, TerminalTurnStatuses
  <2>3. UNCHANGED <<waiter, run, submissions>> /\ pc'[h] \in {"reread", "return"}
    BY <1>2, <1>7, <2>2 DEF Resume, Reread, Probe, Steps, flue
  <2>4. QED
    BY <2>3 DEF WaiterMoves
<1>8. CASE Stopped(h) \/ Abandon(h) \/ FailTask(h)
  <2>1. /\ UNCHANGED <<run, submissions>>
        /\ waiter' = [waiter EXCEPT ![K(h)] = ClearTurnWaiter(@)]
        /\ pc'[h] \in {"release", "return"}
        /\ pc[h] \in {"stopped", "abandon", "await", "failTask"}
    BY <1>2, <1>8 DEF Stopped, Abandon, FailTask, Steps, flue
  <2>2. QED
    BY <2>1 DEF WaiterMoves, Holds, HolderSteps, OwnerSteps
<1>9. CASE Recheck(h)
  <2>1. CASE task[K(h)] = "running"
    <3>1. /\ waiter' = [waiter EXCEPT ![K(h)] = WaitForTurnOutcome(@, h)]
          /\ run' = [run EXCEPT ![h] = [run[h] EXCEPT !.outcome = "none"]]
          /\ pc'[h] = "dispatch" /\ submissions' = submissions
      BY <1>2, <1>9, <2>1 DEF Recheck, Steps, flue
    <3>2. run'[h].outcome = "none"
      <4>1. run[h] \in RunRecord /\ run \in [Handlers -> RunRecord]
        BY <1>1, HandlerFacts DEF TypeOK, HandlersOK
      <4>2. [run[h] EXCEPT !.outcome = "none"].outcome = "none"
        BY <4>1 DEF RunRecord
      <4>3. QED
        BY <3>1, <4>1, <4>2
    <3>3. QED
      BY <3>1, <3>2 DEF WaiterMoves
  <2>2. CASE task[K(h)] # "running"
    <3>1. UNCHANGED <<waiter, run, submissions>> /\ pc'[h] = "return"
      BY <1>1, <1>2, <1>9, <2>2 DEF Recheck, Steps, flue
    <3>2. QED
      BY <3>1 DEF WaiterMoves
  <2>3. QED
    BY <2>1, <2>2
<1>10. CASE Dispatch(h)
  <2>1. /\ pc[h] = "dispatch" /\ waiter' = waiter /\ pc'[h] = "await"
        /\ submissions' = [submissions EXCEPT
             ![K(h)] = Append(@, [turn |-> T(h), erred |-> FALSE])]
        /\ run' = [run EXCEPT ![h] = [run[h] EXCEPT !.dispatched = TRUE]]
    BY <1>2, <1>10 DEF Dispatch, Steps
  <2>2. run'[h].outcome = run[h].outcome
    <3>1. run[h] \in RunRecord /\ run \in [Handlers -> RunRecord]
      BY <1>1, HandlerFacts DEF TypeOK, HandlersOK
    <3>2. [run[h] EXCEPT !.dispatched = TRUE].outcome = run[h].outcome
      BY <3>1 DEF RunRecord
    <3>3. QED
      BY <2>1, <3>1, <3>2
  <2>3. QED
    BY <2>1, <2>2 DEF WaiterMoves
<1>11. QED
  BY <1>3, <1>4, <1>5, <1>6, <1>7, <1>8, <1>9, <1>10 DEF LocalAction

LEMMA WaiterMoved ==
  ASSUME TypeOK, TypeOK', StoreStep, OwnerInv, WaiterInv, NEW h \in Handlers,
         LocalStep(h), WaiterMoves(h)
  PROVE  WaiterInv'
<1>1. /\ Busy(h) /\ Busy(h)' /\ K(h) \in Tasks
      /\ pc \in [Handlers -> Steps \cup {"idle"}]
      /\ waiter \in [Tasks -> Waiter]
      /\ submissions \in [Tasks -> Seq(Submission)]
  BY HandlerFacts DEF LocalStep, TypeOK, HandlersOK, AgentsOK, Busy, Steps
<1>2. /\ \A g \in Handlers : K(g)' = K(g)
      /\ \A g \in Handlers : g # h => pc'[g] = pc[g] /\ run'[g] = run[g]
      /\ \A g \in Handlers : Busy(g)' <=> Busy(g)
  BY <1>1 DEF LocalStep, K, Busy
<1>3. \A t \in Tasks, g \in Handlers : g \in waiter'[t].held => Busy(g)' /\ K(g)' = t
  <2>1. \A t \in Tasks, g \in Handlers :
          g \in waiter'[t].held => g \in waiter[t].held \/ (g = h /\ t = K(h))
    BY <1>1 DEF WaiterMoves, WaitForTurnOutcome, ClearTurnWaiter, NoWaiter
  <2>2. QED
    BY <1>1, <1>2, <2>1 DEF WaiterInv
<1>4. \A g \in Handlers : Busy(g)' /\ run'[g].outcome = "cancelled" => Ended(K(g))'
  <2> SUFFICES ASSUME NEW g \in Handlers, Busy(g)', run'[g].outcome = "cancelled"
               PROVE  Ended(K(g))'
    OBVIOUS
  <2>1. run[g].outcome = "cancelled" /\ Busy(g)
    BY <1>2 DEF WaiterMoves
  <2>2. K(g) \in Tasks /\ task[K(g)] \in TerminalTaskStatuses
    BY <2>1, HandlerFacts DEF WaiterInv, Ended
  <2>3. QED
    BY <1>2, <2>2, EndedStays DEF Ended
<1>5. ASSUME NEW g \in Handlers, pc'[g] \in {"dispatch", "await"}, run'[g].outcome = "none"
      PROVE  g \in waiter'[K(g)].held
  <2>1. CASE g = h
    <3>1. CASE waiter' = [waiter EXCEPT ![K(h)] = WaitForTurnOutcome(@, h)]
      BY <1>1, <2>1, <3>1 DEF WaitForTurnOutcome
    <3>2. CASE /\ pc[h] = "dispatch" /\ waiter' = waiter
               /\ run'[h].outcome = run[h].outcome
      BY <1>5, <2>1, <3>2 DEF WaiterInv
    <3>3. QED
      BY <1>5, <2>1, <3>1, <3>2 DEF WaiterMoves
  <2>2. CASE g # h
    <3>1. pc[g] \in {"dispatch", "await"} /\ run[g].outcome = "none"
      BY <1>2, <1>5, <2>2
    <3>2. g \in waiter[K(g)].held /\ Holds(g, K(g)) /\ K(g) \in Tasks
      <4>1. Busy(g)
        BY <3>1 DEF Busy
      <4>2. QED
        BY <3>1, <4>1, HandlerFacts DEF WaiterInv, Holds, HolderSteps, OwnerSteps
    <3>3. CASE K(g) = K(h)
      <4>1. ~Holds(h, K(h))
        BY <1>1, <2>2, <3>2, <3>3 DEF OwnerInv
      <4>2. \/ waiter' = waiter
            \/ waiter' = [waiter EXCEPT ![K(h)] = WaitForTurnOutcome(@, h)]
        BY <4>1 DEF WaiterMoves
      <4>3. QED
        BY <1>1, <3>2, <4>2 DEF WaitForTurnOutcome
    <3>4. CASE K(g) # K(h)
      BY <1>1, <3>2, <3>4 DEF WaiterMoves
    <3>5. QED
      BY <3>3, <3>4
  <2>3. QED
    BY <2>1, <2>2
<1>6. ASSUME NEW g \in Handlers, pc'[g] = "await", run'[g].outcome = "none"
      PROVE  Coming(K(g))'
  <2>1. UNCHANGED <<events, control>>
    BY DEF LocalStep
  <2>2. K(g) \in Tasks
    BY <1>2, <1>6, HandlerFacts DEF Busy
  <2>3. CASE submissions' = [submissions EXCEPT
               ![K(h)] = Append(@, [turn |-> T(h), erred |-> FALSE])]
    <3>1. CASE K(g) = K(h)
      <4> DEFINE s == submissions[K(h)]
                 new == [turn |-> T(h), erred |-> FALSE]
      <4>1. s \in Seq(Submission) /\ submissions'[K(h)] = Append(s, new)
        BY <1>1, <2>3
      <4>2. new \in Submission
        BY <1>1, HandlerFacts DEF Submission
      <4>3. new.erred = FALSE
        OBVIOUS
      <4> HIDE DEF s, new
      <4>4. /\ Append(s, new) # <<>> /\ Append(s, new)[Len(Append(s, new))] = new
        BY <4>1, <4>2
      <4>5. submissions'[K(g)] # <<>> /\ ~submissions'[K(g)][Len(submissions'[K(g)])].erred
        BY <3>1, <4>1, <4>3, <4>4
      <4>6. QED
        BY <1>2, <4>5 DEF Coming
    <3>2. CASE K(g) # K(h)
      <4>1. pc[g] = "await" /\ run[g].outcome = "none"
        BY <1>2, <1>6, <3>2
      <4>2. Coming(K(g)) /\ submissions'[K(g)] = submissions[K(g)]
        BY <1>1, <2>2, <2>3, <3>2, <4>1 DEF WaiterInv
      <4>3. QED
        BY <1>2, <2>1, <4>2 DEF Coming
    <3>3. QED
      BY <3>1, <3>2
  <2>4. CASE submissions' = submissions /\ pc'[h] # "await"
    <3>1. pc[g] = "await" /\ run[g].outcome = "none"
      BY <1>2, <1>6, <2>4
    <3>2. Coming(K(g))
      BY <3>1 DEF WaiterInv
    <3>3. QED
      BY <1>2, <2>1, <2>4, <3>2 DEF Coming
  <2>5. QED
    BY <2>3, <2>4 DEF WaiterMoves
<1>7. \A t \in Tasks : ControlFits(t)'
  BY DEF LocalStep, WaiterInv, ControlFits
<1>8. QED
  <2>1. \A t \in Tasks : \A g \in waiter'[t].held : Busy(g)' /\ K(g)' = t
    BY <1>3 DEF TypeOK, AgentsOK, Waiter
  <2>2. \A g \in Handlers :
          pc'[g] \in {"dispatch", "await"} /\ run'[g].outcome = "none" =>
            g \in waiter'[K(g)'].held
    BY <1>2, <1>5
  <2>3. QED
    BY <2>1, <1>4, <2>2, <1>6, <1>7 DEF WaiterInv, Ended, Coming

--------------------------------------------------------------------------------
\* The steps that leave the handlers where they are: agents and controls.

LEMMA OwnerStays ==
  ASSUME TypeOK, StoreStep, OwnerInv,
         \A g \in Handlers :
           \/ pc'[g] = pc[g] /\ K(g)' = K(g)
           \/ pc[g] \notin HolderSteps /\ pc'[g] \notin HolderSteps,
         \A t \in Tasks : task'[t] = task[t] \/ task'[t] \in TerminalTaskStatuses
  PROVE  OwnerInv'
<1>1. \A g \in Handlers, t \in Tasks :
        (Holds(g, t)' <=> Holds(g, t)) /\ (Owns(g, t)' <=> Owns(g, t))
  BY DEF Holds, Owns, HolderSteps
<1>2. \A t \in Tasks : Ended(t) => Ended(t)'
  BY EndedStays DEF Ended
<1>3. \A t \in Tasks : task'[t] = "running" => task[t] = "running"
  BY DEF TerminalTaskStatuses
<1>4. \A t \in Tasks : task[t] = "running" => task'[t] = "running" \/ Ended(t)'
  BY DEF Ended
<1>5. QED
  BY <1>1, <1>2, <1>3, <1>4 DEF OwnerInv, RunningTaskIsOwned

LEMMA OutsideKeeps ==
  ASSUME TypeOK, TypeOK', StopInv, StoreStep, IntakeInv, QueueInv, JobInv, HandlerInv,
         RowInv, FailedTaskHasFailedTurn, OwnerInv, UNCHANGED <<pc, received>>,
         \A g \in Handlers :
           /\ run'[g].job = run[g].job /\ run'[g].turn = run[g].turn
           /\ run'[g].tries = run[g].tries /\ run'[g].resumed = run[g].resumed,
         \A u \in Turns :
           /\ Outside(turns[u], turns'[u])
           /\ turns'[u] = turns[u] \/ turns'[u].status # "cancelled" \/ Ended(TaskOf[u]),
         DOMAIN jobs' = DOMAIN jobs,
         \A j \in DOMAIN jobs :
           \/ jobs'[j] = jobs[j]
           \/ /\ jobs'[j].turn = jobs[j].turn /\ jobs'[j].retries = jobs[j].retries
              /\ jobs'[j].state = "cancelled" /\ Ended(TaskOf[jobs[j].turn]),
         \A t \in Tasks : task'[t] = task[t] \/ task'[t] \in {"cancelled", "completed"}
  PROVE  /\ IntakeInv' /\ QueueInv' /\ JobInv' /\ HandlerInv' /\ RowInv'
         /\ FailedTaskHasFailedTurn' /\ OwnerInv'
<1>1. \A u \in Turns :
        /\ turns[u] \in Row
        /\ turns'[u].attempts = turns[u].attempts
        /\ \/ turns'[u].status = turns[u].status
           \/ turns[u].status = "queued" /\ turns'[u].status = "cancelled"
  <2> SUFFICES ASSUME NEW u \in Turns
               PROVE  /\ turns[u] \in Row
                      /\ turns'[u].attempts = turns[u].attempts
                      /\ \/ turns'[u].status = turns[u].status
                         \/ turns[u].status = "queued" /\ turns'[u].status = "cancelled"
    OBVIOUS
  <2>1. turns[u] \in Row /\ Outside(turns[u], turns'[u])
    BY DEF TypeOK, StoreOK
  <2>2. QED
    BY <2>1 DEF Row, Outside, RequestCancel, CancelPending
<1>2. \A g \in Handlers :
        JobOf(g)' = JobOf(g) /\ T(g)' = T(g) /\ K(g)' = K(g) /\ (Busy(g)' <=> Busy(g))
  BY DEF JobOf, T, K, Busy
<1>3. \A j \in DOMAIN jobs : jobs[j].turn \in Turns
  BY JobFacts
<1>4. IntakeInv'
  <2>1. \A u \in Turns : Written(u)' => Written(u)
    BY <1>1 DEF Written
  <2>2. QED
    BY <2>1, IntakeStays
<1>5. QueueInv'
  BY QueueStays DEF Live, LiveJobStates
<1>6. JobInv'
  BY <1>3, JobsStay
<1>7. HandlerInv'
  <2>1. ASSUME NEW g \in Handlers, Busy(g)
        PROVE  HandlerFits(g)'
    BY <1>2, <2>1, HandlerFacts, HandlerStays
  <2>2. \A j \in DOMAIN jobs : jobs'[j].state = "active" => jobs[j].state = "active"
    OBVIOUS
  <2>3. QED
    BY <1>2, <2>1, <2>2 DEF HandlerInv
<1>8. RowInv'
  <2> SUFFICES ASSUME NEW u \in Turns
               PROVE  /\ turns'[u].cancelReq => task'[TaskOf[u]] \in TerminalTaskStatuses
                      /\ turns'[u].status = "cancelled" =>
                           task'[TaskOf[u]] \in TerminalTaskStatuses
                      /\ turns'[u].status = "failed" =>
                           turns'[u].attempts = RetryLimit + 1
                      /\ turns'[u].status \in {"queued", "running"} =>
                           \/ task'[TaskOf[u]] \in TerminalTaskStatuses
                           \/ \E j \in DOMAIN jobs' :
                                jobs'[j].turn = u /\ Live(jobs', j)
    BY DEF RowInv, Ended, Unsettled
  <2>1. turns'[u].status \in {"queued", "running"} =>
           \/ Ended(TaskOf[u])
           \/ \E j \in DOMAIN jobs' : jobs'[j].turn = u /\ Live(jobs', j)
    BY <1>1 DEF RowInv, Unsettled, Live
  <2>2. /\ turns'[u].status = "cancelled" =>
             turns[u].status = "cancelled" \/ Ended(TaskOf[u])
        /\ turns'[u].status = "failed" =>
             turns[u].status = "failed" /\ turns'[u].attempts = turns[u].attempts
    BY <1>1
  <2>3. QED
    BY <2>1, <2>2, RowStays
<1>9. FailedTaskHasFailedTurn'
  BY FailedStays
<1>10. OwnerInv'
  BY <1>2, OwnerStays DEF TerminalTaskStatuses
<1>11. QED
  BY <1>4, <1>5, <1>6, <1>7, <1>8, <1>9, <1>10

\* The promises, in a step that resolves none.
LEMMA WaiterStays ==
  ASSUME TypeOK, TypeOK', StoreStep, WaiterInv,
         \A g \in Handlers :
           \/ /\ pc'[g] = pc[g] /\ run'[g] = run[g]
              /\ \A t \in Tasks : g \in waiter'[t].held <=> g \in waiter[t].held
           \/ /\ pc'[g] \notin {"dispatch", "await"} /\ run'[g].outcome = "none"
              /\ \A t \in Tasks : g \notin waiter'[t].held,
         \A t \in Tasks : Coming(t) => Coming(t)',
         \A t \in Tasks : ControlFits(t)'
  PROVE  WaiterInv'
<1>1. ASSUME NEW g \in Handlers, pc'[g] = pc[g], run'[g] = run[g],
             \A t \in Tasks : g \in waiter'[t].held <=> g \in waiter[t].held
      PROVE  /\ \A t \in Tasks : g \in waiter'[t].held => Busy(g)' /\ K(g)' = t
             /\ Busy(g)' /\ run'[g].outcome = "cancelled" => Ended(K(g))'
             /\ pc'[g] \in {"dispatch", "await"} /\ run'[g].outcome = "none" =>
                  g \in waiter'[K(g)'].held
             /\ pc'[g] = "await" /\ run'[g].outcome = "none" => Coming(K(g))'
  <2>1. K(g)' = K(g) /\ (Busy(g)' <=> Busy(g)) /\ (Busy(g) => K(g) \in Tasks)
    BY <1>1, HandlerFacts DEF K, Busy
  <2>2. \A t \in Tasks : g \in waiter'[t].held => Busy(g)' /\ K(g)' = t
    BY <1>1, <2>1 DEF WaiterInv
  <2>3. Busy(g)' /\ run'[g].outcome = "cancelled" => Ended(K(g))'
    BY <1>1, <2>1, EndedStays DEF WaiterInv, Ended
  <2>4. pc'[g] \in {"dispatch", "await"} /\ run'[g].outcome = "none" =>
          g \in waiter'[K(g)'].held
    BY <1>1, <2>1 DEF WaiterInv, Busy
  <2>5. pc'[g] = "await" /\ run'[g].outcome = "none" => Coming(K(g))'
    <3>1. SUFFICES ASSUME pc'[g] = "await", run'[g].outcome = "none"
                   PROVE  Coming(K(g))'
      OBVIOUS
    <3>2. Coming(K(g)) /\ K(g) \in Tasks
      BY <1>1, <2>1, <3>1 DEF WaiterInv, Busy
    <3>3. PICK t \in Tasks : t = K(g)
      BY <3>2
    <3>4. Coming(t)'
      BY <3>2, <3>3
    <3>5. QED
      BY <2>1, <3>3, <3>4 DEF Coming
  <2>6. QED
    BY <2>2, <2>3, <2>4, <2>5
<1>2. ASSUME NEW g \in Handlers, pc'[g] \notin {"dispatch", "await"},
             run'[g].outcome = "none", \A t \in Tasks : g \notin waiter'[t].held
      PROVE  /\ \A t \in Tasks : g \in waiter'[t].held => Busy(g)' /\ K(g)' = t
             /\ Busy(g)' /\ run'[g].outcome = "cancelled" => Ended(K(g))'
             /\ pc'[g] \in {"dispatch", "await"} /\ run'[g].outcome = "none" =>
                  g \in waiter'[K(g)'].held
             /\ pc'[g] = "await" /\ run'[g].outcome = "none" => Coming(K(g))'
  BY <1>2
<1>3. \A g \in Handlers :
        /\ \A t \in Tasks : g \in waiter'[t].held => Busy(g)' /\ K(g)' = t
        /\ Busy(g)' /\ run'[g].outcome = "cancelled" => Ended(K(g))'
        /\ pc'[g] \in {"dispatch", "await"} /\ run'[g].outcome = "none" =>
             g \in waiter'[K(g)'].held
        /\ pc'[g] = "await" /\ run'[g].outcome = "none" => Coming(K(g))'
  BY <1>1, <1>2
<1>4. \A t \in Tasks : waiter'[t].held \subseteq Handlers
  BY DEF TypeOK, AgentsOK, Waiter
<1>5. QED
  BY <1>3, <1>4 DEF WaiterInv

\* The reports of agents: nothing moves but what is coming.
LEMMA AppendLast ==
  ASSUME NEW S, NEW q \in Seq(S), NEW x \in S
  PROVE  Append(q, x) # <<>> /\ Append(q, x)[Len(Append(q, x))] = x
OBVIOUS

LEMMA AboveOne ==
  ASSUME NEW n \in Nat, n # 0, n # 1
  PROVE  n - 1 \in 1 .. n - 1 /\ (n - 1) + 1 = n /\ n - 1 # 0
OBVIOUS

LEMMA TailLast ==
  ASSUME NEW S, NEW q \in Seq(S), q # <<>>, Len(q) # 1
  PROVE  Tail(q) # <<>> /\ Tail(q)[Len(Tail(q))] = q[Len(q)]
<1>1. Len(q) \in Nat /\ Len(q) # 0
  BY EmptySeq
<1>2. Len(Tail(q)) = Len(q) - 1 /\ \A i \in 1 .. Len(Tail(q)) : Tail(q)[i] = q[i + 1]
  BY HeadTailProperties
<1>3. Len(q) - 1 \in 1 .. Len(q) - 1 /\ (Len(q) - 1) + 1 = Len(q) /\ Len(q) - 1 # 0
  BY <1>1, AboveOne
<1>4. Tail(q)[Len(Tail(q))] = q[Len(q)]
  BY <1>2, <1>3, Zenon
<1>5. Tail(q) # <<>>
  BY <1>2, <1>3, EmptySeq, Zenon
<1>6. QED
  BY <1>4, <1>5

LEMMA AgentComing ==
  ASSUME TypeOK, NEW t \in Tasks, AgentEnds(t) \/ AgentErrs(t), Coming(t)
  PROVE  \/ control[t].abort
         \/ events'[t] # <<>>
         \/ submissions'[t] # <<>> /\ ~submissions'[t][Len(submissions'[t])].erred
<1> DEFINE s == submissions[t]
           e == events[t]
<1>1. /\ s \in Seq(Submission) /\ e \in Seq(Event) /\ s # <<>> /\ Head(s) = s[1]
      /\ s[1] \in Submission
      /\ events \in [Tasks -> Seq(Event)] /\ submissions \in [Tasks -> Seq(Submission)]
  BY DEF TypeOK, AgentsOK, AgentEnds, AgentErrs
<1>2. ASSUME NEW kind \in {"completed", "failed"}, Report(t, kind)
      PROVE  events'[t] # <<>>
  <2> DEFINE new == [kind |-> kind, turn |-> Head(s).turn]
  <2>1. new \in Event
    BY <1>1 DEF Event, Submission
  <2>2. events'[t] = Append(e, new)
    BY <1>1, <1>2 DEF Report
  <2> HIDE DEF s, e, new
  <2>3. QED
    BY <1>1, <2>1, <2>2, AppendLast
<1>3. CASE AgentErrs(t)
  BY <1>2, <1>3 DEF AgentErrs
<1>4. CASE AgentEnds(t) /\ \E kind \in {"completed", "failed"} : Report(t, kind)
  BY <1>2, <1>4
<1>5. CASE AgentEnds(t) /\ Head(s).erred /\ events' = events
  <2>1. submissions'[t] = Tail(s) /\ Head(s) = s[1] /\ s[1].erred
    BY <1>1, <1>5 DEF AgentEnds
  <2>2. control[t].abort \/ e # <<>> \/ ~s[Len(s)].erred
    BY DEF Coming
  <2>3. e # <<>> => events'[t] # <<>>
    BY <1>5
  <2> HIDE DEF s, e
  <2>4. CASE ~s[Len(s)].erred
    <3>1. Len(s) # 1
      BY <2>1, <2>4
    <3>2. Tail(s) # <<>> /\ Tail(s)[Len(Tail(s))] = s[Len(s)]
      BY <1>1, <3>1, TailLast
    <3>3. QED
      BY <2>1, <2>4, <3>2
  <2>5. QED
    BY <2>2, <2>3, <2>4
<1>6. QED
  BY <1>3, <1>4, <1>5 DEF AgentEnds

LEMMA AgentWaiter ==
  ASSUME TypeOK, TypeOK', StoreStep, WaiterInv, NEW t \in Tasks,
         AgentEnds(t) \/ AgentErrs(t)
  PROVE  WaiterInv'
<1>1. UNCHANGED <<pc, run, waiter, control>>
  BY DEF AgentEnds, AgentErrs, handlers
<1>2. \A s \in Tasks : s # t => events'[s] = events[s] /\ submissions'[s] = submissions[s]
  BY DEF AgentEnds, AgentErrs, Report, TypeOK, AgentsOK
<1>3. \A s \in Tasks : Coming(s) => Coming(s)'
  <2> SUFFICES ASSUME NEW s \in Tasks, Coming(s)
               PROVE  Coming(s)'
    OBVIOUS
  <2>1. CASE s = t
    BY <1>1, <2>1, AgentComing DEF Coming
  <2>2. CASE s # t
    BY <1>1, <1>2, <2>2 DEF Coming
  <2>3. QED
    BY <2>1, <2>2
<1>4. \A s \in Tasks : ControlFits(s)'
  BY <1>1 DEF WaiterInv, ControlFits
<1>5. QED
  BY <1>1, <1>3, <1>4, WaiterStays

LEMMA OutcomeUpdate ==
  ASSUME NEW r \in RunRecord, NEW kind
  PROVE  /\ [r EXCEPT !.outcome = kind].job = r.job
         /\ [r EXCEPT !.outcome = kind].turn = r.turn
         /\ [r EXCEPT !.outcome = kind].tries = r.tries
         /\ [r EXCEPT !.outcome = kind].resumed = r.resumed
         /\ [r EXCEPT !.outcome = kind].outcome = kind
BY DEF RunRecord

\* Resolving the promises of an instance.
LEMMA Resolves ==
  ASSUME TypeOK, TypeOK', StoreStep, WaiterInv, NEW t \in Tasks, NEW kind \in TurnOutcome,
         ResolveTurnOutcome(t, kind), UNCHANGED pc,
         kind = "cancelled" => Ended(t),
         \A s \in Tasks : s # t => (Coming(s) => Coming(s)'),
         \A s \in Tasks : ControlFits(s)'
  PROVE  /\ WaiterInv'
         /\ \A g \in Handlers :
              /\ run'[g].job = run[g].job /\ run'[g].turn = run[g].turn
              /\ run'[g].tries = run[g].tries /\ run'[g].resumed = run[g].resumed
<1>0. run \in [Handlers -> RunRecord] /\ waiter \in [Tasks -> Waiter]
  BY DEF TypeOK, HandlersOK, AgentsOK
<1>1. \A g \in Handlers :
        run'[g] = [run[g] EXCEPT !.outcome =
                     IF g \in waiter[t].held THEN kind ELSE run[g].outcome]
  BY DEF ResolveTurnOutcome, ResolvedFor
<1>2. \A g \in Handlers :
        /\ run'[g].job = run[g].job /\ run'[g].turn = run[g].turn
        /\ run'[g].tries = run[g].tries /\ run'[g].resumed = run[g].resumed
        /\ run'[g].outcome = IF g \in waiter[t].held THEN kind ELSE run[g].outcome
  <2> SUFFICES ASSUME NEW g \in Handlers
               PROVE  /\ run'[g].job = run[g].job /\ run'[g].turn = run[g].turn
                      /\ run'[g].tries = run[g].tries /\ run'[g].resumed = run[g].resumed
                      /\ run'[g].outcome =
                           IF g \in waiter[t].held THEN kind ELSE run[g].outcome
    OBVIOUS
  <2> DEFINE after == IF g \in waiter[t].held THEN kind ELSE run[g].outcome
  <2>1. run'[g] = [run[g] EXCEPT !.outcome = after] /\ run[g] \in RunRecord
    BY <1>0, <1>1
  <2> HIDE DEF after
  <2>2. /\ run'[g].job = run[g].job /\ run'[g].turn = run[g].turn
        /\ run'[g].tries = run[g].tries /\ run'[g].resumed = run[g].resumed
        /\ run'[g].outcome = after
    BY <2>1, OutcomeUpdate
  <2>3. QED
    BY <2>2 DEF after
<1>3. /\ waiter'[t].held = {}
      /\ \A s \in Tasks : s # t => waiter'[s] = waiter[s]
  BY <1>0 DEF ResolveTurnOutcome, ResolvedEntry, NoWaiter
<1>4. \A g \in Handlers : K(g)' = K(g) /\ (Busy(g)' <=> Busy(g))
  BY <1>2 DEF K, Busy
<1>5. ASSUME NEW s \in Tasks, NEW g \in waiter'[s].held
      PROVE  Busy(g)' /\ K(g)' = s
  <2>1. s # t /\ g \in waiter[s].held /\ g \in Handlers
    BY <1>0, <1>3, <1>5 DEF Waiter
  <2>2. QED
    BY <1>4, <2>1 DEF WaiterInv
<1>6. ASSUME NEW g \in Handlers, Busy(g)', run'[g].outcome = "cancelled"
      PROVE  Ended(K(g))'
  <2>1. Ended(K(g)) /\ K(g) \in Tasks
    BY <1>2, <1>4, <1>6, HandlerFacts DEF WaiterInv
  <2>2. QED
    BY <1>4, <2>1, EndedStays DEF Ended
<1>7. ASSUME NEW g \in Handlers, pc'[g] \in {"dispatch", "await"}, run'[g].outcome = "none"
      PROVE  /\ run[g].outcome = "none" /\ g \notin waiter[t].held
             /\ g \in waiter[K(g)].held /\ K(g) # t /\ K(g) \in Tasks
  <2>1. run[g].outcome = "none" /\ g \notin waiter[t].held
    BY <1>2, <1>7 DEF TurnOutcome
  <2>2. g \in waiter[K(g)].held
    BY <1>7, <2>1 DEF WaiterInv
  <2>3. K(g) \in Tasks
    BY <1>7, HandlerFacts DEF Busy
  <2>4. QED
    BY <2>1, <2>2, <2>3
<1>8. \A g \in Handlers :
        pc'[g] \in {"dispatch", "await"} /\ run'[g].outcome = "none" =>
          g \in waiter'[K(g)'].held
  BY <1>3, <1>4, <1>7
<1>9. ASSUME NEW g \in Handlers, pc'[g] = "await", run'[g].outcome = "none"
      PROVE  Coming(K(g))'
  <2>1. Coming(K(g)) /\ K(g) # t /\ K(g) \in Tasks
    BY <1>7, <1>9 DEF WaiterInv
  <2>2. PICK s \in Tasks : s = K(g)
    BY <2>1
  <2>3. Coming(s)'
    BY <2>1, <2>2
  <2>4. QED
    BY <1>4, <2>2, <2>3 DEF Coming
<1>10. WaiterInv'
  <2>1. \A s \in Tasks : \A g \in waiter'[s].held : Busy(g)' /\ K(g)' = s
    BY <1>5
  <2>2. QED
    BY <1>6, <1>8, <1>9, <2>1 DEF WaiterInv
<1>11. QED
  BY <1>2, <1>10

\* The agents and the bridge, together.
LEMMA AgentKeeps ==
  ASSUME TypeOK, TypeOK', StopInv, StoreStep, CalmInv, NEW t \in Tasks,
         AgentEnds(t) \/ AgentErrs(t) \/ HandleEvent(t)
  PROVE  CalmInv'
<1>0. \A u \in Turns : Outside(turns[u], turns[u])
  BY DEF Outside
<1>1. /\ UNCHANGED <<pc, task, turns, jobs, received, boot>>
      /\ \A g \in Handlers :
           /\ run'[g].job = run[g].job /\ run'[g].turn = run[g].turn
           /\ run'[g].tries = run[g].tries /\ run'[g].resumed = run[g].resumed
      /\ WaiterInv'
  <2>1. CASE AgentEnds(t) \/ AgentErrs(t)
    <3>1. UNCHANGED <<pc, run, task, turns, jobs, received, boot>>
      BY <2>1 DEF AgentEnds, AgentErrs, database, handlers
    <3>2. WaiterInv'
      BY <2>1, AgentWaiter DEF CalmInv
    <3>3. QED
      BY <3>1, <3>2
  <2>2. CASE HandleEvent(t)
    <3>1. UNCHANGED <<pc, task, turns, jobs, submissions, received, control, boot>>
      BY <2>2 DEF HandleEvent, database
    <3>2. Head(events[t]).kind \in {"completed", "failed"}
      <4>1. events[t] \in Seq(Event) /\ events[t] # <<>>
        BY <2>2 DEF HandleEvent, TypeOK, AgentsOK
      <4>2. Head(events[t]) \in Event
        BY <4>1, HeadTailProperties
      <4>3. QED
        BY <4>2 DEF Event
    <3>3. \A s \in Tasks : s # t => events'[s] = events[s]
      BY <2>2 DEF HandleEvent, TypeOK, AgentsOK
    <3>4. \A s \in Tasks : s # t => (Coming(s) => Coming(s)')
      BY <3>1, <3>3 DEF Coming
    <3>5. \A s \in Tasks : ControlFits(s)'
      BY <3>1 DEF CalmInv, WaiterInv, ControlFits
    <3>6. ResolveTurnOutcome(t, Head(events[t]).kind)
      BY <2>2 DEF HandleEvent
    <3>7. Head(events[t]).kind \in TurnOutcome /\ Head(events[t]).kind # "cancelled"
      BY <3>2 DEF TurnOutcome
    <3>8. WaiterInv
      BY DEF CalmInv
    <3>9. QED
      BY <3>1, <3>4, <3>5, <3>6, <3>7, <3>8, Resolves
  <2>3. QED
    BY <2>1, <2>2
<1>2. /\ IntakeInv' /\ QueueInv' /\ JobInv' /\ HandlerInv' /\ RowInv'
      /\ FailedTaskHasFailedTurn' /\ OwnerInv'
  BY <1>0, <1>1, OutsideKeeps DEF CalmInv
<1>3. QED
  BY <1>1, <1>2 DEF CalmInv

\* The controls keep what is coming to a handler, or resolve it.
LEMMA ControlWaiter ==
  ASSUME TypeOK, TypeOK', StopInv, StoreStep, WaiterInv, NEW t \in Tasks,
         StopTask(t) \/ DoneTask(t) \/ ControlStep(t)
  PROVE  /\ WaiterInv'
         /\ \A g \in Handlers :
              /\ run'[g].job = run[g].job /\ run'[g].turn = run[g].turn
              /\ run'[g].tries = run[g].tries /\ run'[g].resumed = run[g].resumed
<1>0. control \in [Tasks -> Control] /\ ControlFits(t)
  BY DEF TypeOK, WaiterInv
<1>1. ASSUME UNCHANGED <<pc, run, waiter>>,
             \A s \in Tasks : s # t => control'[s] = control[s]
                                       /\ events'[s] = events[s]
                                       /\ submissions'[s] = submissions[s],
             Coming(t) => Coming(t)', ControlFits(t)'
      PROVE  WaiterInv'
  <2>1. \A s \in Tasks : ControlFits(s)'
    BY <1>1 DEF WaiterInv, ControlFits
  <2>2. \A s \in Tasks : Coming(s) => Coming(s)'
    BY <1>1 DEF Coming
  <2>3. QED
    BY <1>1, <2>1, <2>2, WaiterStays
<1>2. ASSUME UNCHANGED <<pc, run, waiter, events, submissions>>, NEW c \in Control,
             control' = [control EXCEPT ![t] = c],
             control[t].abort => c.abort,
             c.pc \in {"abort", "resolve"} => c.abort,
             c.abort => c.pc # "idle"
      PROVE  WaiterInv'
  <2>1. control'[t] = c /\ \A s \in Tasks : s # t => control'[s] = control[s]
    BY <1>0, <1>2
  <2>2. Coming(t) => Coming(t)'
    BY <1>2, <2>1 DEF Coming
  <2>3. ControlFits(t)'
    BY <1>2, <2>1 DEF ControlFits
  <2>4. QED
    BY <1>1, <1>2, <2>1, <2>2, <2>3
<1>3. CASE StopTask(t)
  <2>1. PICK command \in Commands \ {"done"} :
          control' = [control EXCEPT ![t] =
            [NoControl EXCEPT !.pc = "list", !.abort = (command = "abort")]]
    BY <1>3 DEF StopTask
  <2> DEFINE c == [NoControl EXCEPT !.pc = "list", !.abort = (command = "abort")]
  <2>2. c \in Control /\ c.pc = "list"
    BY DEF NoControl, Control
  <2>3. ~control[t].abort
    BY <1>0, <1>3 DEF ControlFits, StopTask
  <2>4. control' = [control EXCEPT ![t] = c]
    BY <2>1
  <2>5. UNCHANGED <<pc, run, waiter, events, submissions>>
    BY <1>3 DEF StopTask, handlers, flue
  <2> HIDE DEF c
  <2>6. QED
    BY <1>2, <2>2, <2>3, <2>4, <2>5

<1>4. CASE DoneTask(t)
  <2> DEFINE c == [control[t] EXCEPT !.pc = "gate"]
  <2>1. c \in Control /\ c.pc = "gate" /\ c.abort = control[t].abort
    BY <1>0 DEF Control
  <2>2. control' = [control EXCEPT ![t] = c]
    BY <1>4 DEF DoneTask
  <2>3. UNCHANGED <<pc, run, waiter, events, submissions>>
    BY <1>4 DEF DoneTask, handlers, flue
  <2> HIDE DEF c
  <2>4. QED
    BY <1>2, <2>1, <2>2, <2>3
<1>5. CASE ListRunning(t)
  <2> DEFINE c == [control[t] EXCEPT !.pc = "gate",
                     !.gate = {u \in TurnsOf(t) : turns[u].status = "running"}]
  <2>1. c \in Control /\ c.pc = "gate" /\ c.abort = control[t].abort
    BY <1>0 DEF Control, TurnsOf
  <2>2. control' = [control EXCEPT ![t] = c]
    BY <1>0, <1>5 DEF ListRunning
  <2>3. UNCHANGED <<pc, run, waiter, events, submissions>>
    BY <1>5 DEF ListRunning, handlers, flue
  <2> HIDE DEF c
  <2>4. QED
    BY <1>2, <2>1, <2>2, <2>3
<1>6. CASE GateTurn(t)
  <2>1. PICK u \in control[t].gate : control' = [control EXCEPT ![t].gate = @ \ {u}]
    BY <1>6 DEF GateTurn
  <2> DEFINE c == [control[t] EXCEPT !.gate = control[t].gate \ {u}]
  <2>2. c \in Control /\ c.pc = "gate" /\ c.abort = control[t].abort
    BY <1>0, <1>6 DEF Control, GateTurn
  <2>3. control' = [control EXCEPT ![t] = c]
    BY <2>1
  <2>4. UNCHANGED <<pc, run, waiter, events, submissions>>
    BY <1>6 DEF GateTurn, handlers, flue
  <2> HIDE DEF c
  <2>5. QED
    BY <1>2, <2>2, <2>3, <2>4
<1>7. CASE CancelPendingTurns(t)
  <2> DEFINE c == [control[t] EXCEPT !.pc = "jobs"]
  <2>1. c \in Control /\ c.pc = "jobs" /\ c.abort = control[t].abort
    BY <1>0 DEF Control
  <2>2. control' = [control EXCEPT ![t] = c]
    BY <1>7 DEF CancelPendingTurns
  <2>3. UNCHANGED <<pc, run, waiter, events, submissions>>
    BY <1>7 DEF CancelPendingTurns, handlers, flue
  <2> HIDE DEF c
  <2>4. QED
    BY <1>2, <2>1, <2>2, <2>3
<1>8. CASE CancelJobs(t)
  <2> DEFINE c == IF control[t].abort THEN [control[t] EXCEPT !.pc = "abort"] ELSE NoControl
  <2>1. /\ c \in Control /\ (control[t].abort => c.abort)
        /\ c.pc \in {"abort", "resolve"} => c.abort
        /\ c.abort => c.pc # "idle"
    BY <1>0 DEF Control, NoControl
  <2>2. control' = [control EXCEPT ![t] = c]
    BY <1>8 DEF CancelJobs
  <2>3. UNCHANGED <<pc, run, waiter, events, submissions>>
    BY <1>8 DEF CancelJobs, handlers, flue
  <2> HIDE DEF c
  <2>4. QED
    BY <1>2, <2>1, <2>2, <2>3
<1>9. CASE AbortAgentWork(t)
  <2> DEFINE c == [control[t] EXCEPT !.pc = "resolve"]
  <2>1. control[t].abort
    BY <1>0, <1>9 DEF AbortAgentWork, ControlFits
  <2>2. c.pc = "resolve" /\ c.abort = control[t].abort
    BY <1>0 DEF Control
  <2>3. control' = [control EXCEPT ![t] = c]
    BY <1>9 DEF AbortAgentWork
  <2> HIDE DEF c
  <2>4. control'[t] = c /\ \A s \in Tasks : s # t => control'[s] = control[s]
    BY <1>0, <2>3
  <2>5. control'[t].abort /\ control'[t].pc = "resolve"
    BY <2>1, <2>2, <2>4
  <2>6. \A s \in Tasks : s # t => events'[s] = events[s] /\ submissions'[s] = submissions[s]
    BY <1>9 DEF AbortAgentWork, Report, TypeOK, AgentsOK
  <2>7. UNCHANGED <<pc, run, waiter>>
    BY <1>9 DEF AbortAgentWork, handlers
  <2>8. Coming(t)' /\ ControlFits(t)'
    BY <2>5 DEF Coming, ControlFits
  <2>9. QED
    BY <1>1, <2>4, <2>6, <2>7, <2>8
<1>10. CASE ResolveCancelled(t)
  <2>1. Ended(t)
    BY <1>10 DEF ResolveCancelled, StopInv, Ended
  <2>2. UNCHANGED <<pc, events, submissions>>
    BY <1>10 DEF ResolveCancelled, flue
  <2>3. control'[t] = NoControl /\ \A s \in Tasks : s # t => control'[s] = control[s]
    BY <1>0, <1>10 DEF ResolveCancelled
  <2>4. \A s \in Tasks : ControlFits(s)'
    BY <2>3 DEF WaiterInv, ControlFits, NoControl
  <2>5. \A s \in Tasks : s # t => (Coming(s) => Coming(s)')
    BY <2>2, <2>3 DEF Coming
  <2>6. ResolveTurnOutcome(t, "cancelled") /\ "cancelled" \in TurnOutcome
    BY <1>10 DEF ResolveCancelled, TurnOutcome
  <2>7. QED
    BY <2>1, <2>2, <2>4, <2>5, <2>6, Resolves
<1>11. CASE ~ResolveCancelled(t)
  <2>1. WaiterInv'
    BY <1>3, <1>4, <1>5, <1>6, <1>7, <1>8, <1>9, <1>11 DEF ControlStep
  <2>2. UNCHANGED run
    BY <1>11 DEF StopTask, DoneTask, ControlStep, ListRunning, GateTurn, CancelPendingTurns,
                 CancelJobs, AbortAgentWork, handlers
  <2>3. QED
    BY <2>1, <2>2
<1>12. QED
  BY <1>10, <1>11

\* The controls, together.
LEMMA ControlKeeps ==
  ASSUME TypeOK, TypeOK', StopInv, StoreStep, CalmInv, NEW t \in Tasks,
         StopTask(t) \/ DoneTask(t) \/ ControlStep(t)
  PROVE  CalmInv'
<1>0. turns \in [Turns -> Row] /\ task \in [Tasks -> TaskStatus]
  BY DEF TypeOK, StoreOK
<1>1. UNCHANGED <<pc, received, boot>>
  BY DEF StopTask, DoneTask, ControlStep, ListRunning, GateTurn, CancelPendingTurns,
         CancelJobs, AbortAgentWork, ResolveCancelled, handlers
<1>2. /\ WaiterInv'
      /\ \A g \in Handlers :
           /\ run'[g].job = run[g].job /\ run'[g].turn = run[g].turn
           /\ run'[g].tries = run[g].tries /\ run'[g].resumed = run[g].resumed
  BY ControlWaiter DEF CalmInv
<1>3. ASSUME NEW u \in Turns
      PROVE  /\ Outside(turns[u], turns'[u])
             /\ turns'[u] = turns[u] \/ turns'[u].status # "cancelled" \/ Ended(TaskOf[u])
  <2>0. turns[u] \in Row /\ TaskOf[u] \in Tasks
    BY <1>0, TaskOfAssumption
  <2>1. CASE GateTurn(t)
    <3>1. PICK v \in control[t].gate : turns' = [turns EXCEPT ![v] = RequestCancel(@)]
      BY <2>1 DEF GateTurn
    <3>2. CASE u = v
      <4>1. turns'[u] = RequestCancel(turns[u])
        BY <1>0, <3>1, <3>2
      <4>2. turns'[u].status = turns[u].status
        BY <2>0, <4>1 DEF RequestCancel, Row
      <4>3. turns[u].status = "cancelled" => Ended(TaskOf[u])
        BY DEF CalmInv, RowInv
      <4>4. QED
        BY <4>1, <4>2, <4>3 DEF Outside
    <3>3. CASE u # v
      BY <1>0, <3>1, <3>3 DEF Outside
    <3>4. QED
      BY <3>2, <3>3
  <2>2. CASE CancelPendingTurns(t)
    <3>1. Ended(t)
      BY <2>2 DEF CancelPendingTurns, StopInv, Ended
    <3>2. turns'[u] = IF TaskOf[u] = t THEN CancelPending(turns[u]) ELSE turns[u]
      BY <2>2 DEF CancelPendingTurns
    <3>3. QED
      BY <3>1, <3>2 DEF Outside
  <2>3. CASE ~GateTurn(t) /\ ~CancelPendingTurns(t)
    <3>1. UNCHANGED turns
      BY <2>3 DEF StopTask, DoneTask, ControlStep, ListRunning, CancelJobs, AbortAgentWork,
                  ResolveCancelled, database
    <3>2. QED
      BY <3>1 DEF Outside
  <2>4. QED
    BY <2>1, <2>2, <2>3
<1>4. /\ DOMAIN jobs' = DOMAIN jobs
      /\ \A j \in DOMAIN jobs :
           \/ jobs'[j] = jobs[j]
           \/ /\ jobs'[j].turn = jobs[j].turn /\ jobs'[j].retries = jobs[j].retries
              /\ jobs'[j].state = "cancelled" /\ Ended(TaskOf[jobs[j].turn])
  <2>1. CASE CancelJobs(t)
    <3>1. jobs' = ReleaseTaskSingleton(jobs, TurnsOf(t)) /\ Ended(t)
      BY <2>1 DEF CancelJobs, StopInv, Ended
    <3>2. DOMAIN jobs' = DOMAIN jobs
      BY <3>1 DEF ReleaseTaskSingleton
    <3>3. ASSUME NEW j \in DOMAIN jobs, jobs'[j] # jobs[j]
          PROVE  /\ jobs'[j].turn = jobs[j].turn /\ jobs'[j].retries = jobs[j].retries
                 /\ jobs'[j].state = "cancelled" /\ Ended(TaskOf[jobs[j].turn])
      <4>1. jobs'[j] = [jobs[j] EXCEPT !.state = "cancelled"] /\ j \in LiveJobs(jobs, TurnsOf(t))
        BY <3>1, <3>3 DEF ReleaseTaskSingleton
      <4>2. jobs[j] \in Job
        BY JobFacts
      <4>3. /\ jobs'[j].turn = jobs[j].turn /\ jobs'[j].retries = jobs[j].retries
            /\ jobs'[j].state = "cancelled"
        BY <4>1, <4>2 DEF Job
      <4>4. TaskOf[jobs[j].turn] = t
        BY <4>1 DEF LiveJobs, TurnsOf
      <4>5. QED
        BY <3>1, <4>3, <4>4
    <3>4. QED
      BY <3>2, <3>3
  <2>2. CASE ~CancelJobs(t)
    <3>1. UNCHANGED jobs
      BY <2>2 DEF StopTask, DoneTask, ControlStep, ListRunning, GateTurn,
                  CancelPendingTurns, AbortAgentWork, ResolveCancelled, database
    <3>2. QED
      BY <3>1
  <2>3. QED
    BY <2>1, <2>2
<1>5. \A s \in Tasks : task'[s] = task[s] \/ task'[s] \in {"cancelled", "completed"}
  <2>1. \/ UNCHANGED task
        \/ task' = [task EXCEPT ![t] = "cancelled"]
        \/ task' = [task EXCEPT ![t] = "completed"]
    BY DEF StopTask, DoneTask, ControlStep, ListRunning, GateTurn, CancelPendingTurns,
           CancelJobs, AbortAgentWork, ResolveCancelled, database
  <2>2. QED
    BY <1>0, <2>1
<1>6. /\ IntakeInv' /\ QueueInv' /\ JobInv' /\ HandlerInv' /\ RowInv'
      /\ FailedTaskHasFailedTurn' /\ OwnerInv'
  BY <1>1, <1>2, <1>3, <1>4, <1>5, OutsideKeeps DEF CalmInv
<1>7. QED
  BY <1>1, <1>2, <1>6 DEF CalmInv

--------------------------------------------------------------------------------
\* The intake: a received message is not written yet; its row and its job come
\* last of its task.

LEMMA ReceiveKeeps ==
  ASSUME TypeOK, TypeOK', StopInv, StoreStep, CalmInv, NEW u \in Turns,
         ReceiveMessage(u)
  PROVE  CalmInv'
<1>1. /\ UNCHANGED <<task, turns, jobs, pc, run, waiter, submissions, events, control, boot>>
      /\ received' = received \cup {u} /\ turns[u] = NoRow
  BY DEF ReceiveMessage, database, handlers, flue
<1>2. IntakeInv'
  <2>1. ~Written(u)
    BY <1>1 DEF Written, NoRow
  <2>2. QED
    BY <1>1, <2>1 DEF CalmInv, IntakeInv, Written
<1>3. QueueInv' /\ JobInv'
  BY <1>1 DEF CalmInv, QueueInv, JobInv, SameKey, Live
<1>4. HandlerInv'
  BY <1>1 DEF CalmInv, HandlerInv, HandlerFits, Busy, JobOf, T, K, Ended
<1>5. RowInv' /\ FailedTaskHasFailedTurn'
  BY <1>1 DEF CalmInv, RowInv, FailedTaskHasFailedTurn, Unsettled, Ended, Live
<1>6. OwnerInv'
  BY <1>1 DEF CalmInv, OwnerInv, RunningTaskIsOwned, Holds, Owns, K, Ended
<1>7. WaiterInv'
  BY <1>1 DEF CalmInv, WaiterInv, Busy, K, Ended, Coming, ControlFits
<1>8. QED
  BY <1>1, <1>2, <1>3, <1>4, <1>5, <1>6, <1>7 DEF CalmInv

LEMMA IntakeKeeps ==
  ASSUME TypeOK, TypeOK', StopInv, StoreStep, CalmInv, NEW u \in Turns, IntakeTurn(u)
  PROVE  CalmInv'
<1> DEFINE n == Len(jobs)
           job == [turn |-> u, state |-> "created", retries |-> 0]
<1>1. /\ UNCHANGED <<task, pc, run, waiter, submissions, events, control, boot>>
      /\ received' = received \ {u} /\ u \in received
      /\ turns' = [turns EXCEPT ![u] = InsertTurn(turns[u])]
      /\ jobs' = Append(jobs, job)
      /\ \A v \in TurnsOf(TaskOf[u]) : v < u => turns[v] # NoRow
  BY DEF IntakeTurn, Send, handlers, flue
<1>2. turns \in [Turns -> Row] /\ jobs \in Seq(Job) /\ ~Written(u) /\ turns[u] = NoRow
  BY DEF TypeOK, StoreOK, CalmInv, IntakeInv, IntakeTurn
<1>3. /\ n \in Nat /\ DOMAIN jobs = 1 .. n /\ DOMAIN jobs' = 1 .. n + 1
      /\ n + 1 \notin DOMAIN jobs
      /\ \A j \in DOMAIN jobs : jobs'[j] = jobs[j]
      /\ jobs'[n + 1] = job
  <2>1. job \in Job
    BY DEF Job, JobState, LiveJobStates
  <2> HIDE DEF job
  <2>2. QED
    BY <1>1, <1>2, <2>1
<1>4. /\ job.turn = u /\ job.state = "created" /\ job.retries = 0
  OBVIOUS
<1>5. /\ turns'[u].status = "queued" /\ Awaits(turns'[u], 0)
      /\ \A v \in Turns : v # u => turns'[v] = turns[v]
  BY <1>1, <1>2 DEF InsertTurn, NoRow, Awaits, Claimable
<1>6. \A j \in DOMAIN jobs :
        /\ jobs[j].turn \in Turns /\ jobs[j].turn \in Nat /\ u \in Nat
        /\ jobs[j].turn # u /\ Written(jobs[j].turn)
        /\ TaskOf[jobs[j].turn] = TaskOf[u] => jobs[j].turn < u
  <2> SUFFICES ASSUME NEW j \in DOMAIN jobs
               PROVE  /\ jobs[j].turn \in Turns /\ jobs[j].turn \in Nat /\ u \in Nat
                      /\ jobs[j].turn # u /\ Written(jobs[j].turn)
                      /\ TaskOf[jobs[j].turn] = TaskOf[u] => jobs[j].turn < u
    OBVIOUS
  <2>1. /\ jobs[j].turn \in Turns /\ jobs[j].turn \in Nat /\ u \in Nat
        /\ Written(jobs[j].turn)
    BY JobFacts, TurnsAssumption DEF CalmInv, IntakeInv
  <2>2. jobs[j].turn # u
    BY <1>2, <2>1
  <2>3. TaskOf[jobs[j].turn] = TaskOf[u] => ~(u < jobs[j].turn)
    BY <1>2, <2>1 DEF CalmInv, IntakeInv
  <2>4. QED
    BY <2>1, <2>2, <2>3
<1> HIDE DEF n, job
<1>7. \A j \in DOMAIN jobs' : j = n + 1 \/ j \in DOMAIN jobs
  BY <1>3
<1>8. IntakeInv'
  <2>1. \A v \in Turns : v # u => (Written(v)' <=> Written(v))
    BY <1>5 DEF Written
  <2>2. Written(u)'
    BY <1>5 DEF Written
  <2>3. \A v \in Turns : ~Written(v)' => turns'[v] = NoRow
    BY <1>5, <2>1, <2>2 DEF CalmInv, IntakeInv
  <2>4. \A v \in received' : ~Written(v)'
    BY <1>1, <2>1 DEF CalmInv, IntakeInv, TypeOK
  <2>5. ASSUME NEW v \in Turns, NEW w \in Turns, TaskOf[v] = TaskOf[w], w < v, Written(v)'
        PROVE  Written(w)'
    <3>1. CASE w = u
      BY <2>2, <3>1
    <3>2. CASE v = u /\ w # u
      <4>1. turns[w] # NoRow
        BY <1>1, <2>5, <3>2 DEF TurnsOf
      <4>2. Written(w)
        BY <4>1 DEF CalmInv, IntakeInv
      <4>3. QED
        BY <2>1, <3>2, <4>2
    <3>3. CASE v # u /\ w # u
      BY <2>1, <2>5, <3>3 DEF CalmInv, IntakeInv
    <3>4. QED
      BY <3>1, <3>2, <3>3
  <2>6. ASSUME NEW j \in DOMAIN jobs'
        PROVE  turns'[jobs'[j].turn].status # "none"
    <3>1. CASE j = n + 1
      BY <1>3, <1>4, <1>5, <3>1
    <3>2. CASE j \in DOMAIN jobs
      BY <1>3, <1>5, <1>6, <3>2 DEF Written
    <3>3. QED
      BY <1>7, <3>1, <3>2
  <2>7. QED
    BY <2>3, <2>4, <2>5, <2>6 DEF IntakeInv, Written
<1>9. QueueInv'
  <2>1. \A i, j \in DOMAIN jobs :
          /\ SameKey(i, j) /\ i < j => jobs[i].turn < jobs[j].turn
          /\ SameKey(i, j) /\ jobs[i].state = "active" /\ Live(jobs, j) => i <= j
    BY DEF CalmInv, QueueInv
  <2>2. ASSUME NEW i \in DOMAIN jobs', NEW j \in DOMAIN jobs',
               TaskOf[jobs'[i].turn] = TaskOf[jobs'[j].turn]
        PROVE  /\ i < j => jobs'[i].turn < jobs'[j].turn
               /\ jobs'[i].state = "active" /\ Live(jobs', j) => i <= j
    <3>1. CASE i \in DOMAIN jobs /\ j \in DOMAIN jobs
      BY <1>3, <2>1, <2>2, <3>1 DEF SameKey, Live
    <3>2. CASE i \in DOMAIN jobs /\ j = n + 1
      BY <1>3, <1>4, <1>6, <2>2, <3>2
    <3>3. CASE i = n + 1
      <4>1. ~(i < j) /\ jobs'[i].state # "active"
        BY <1>3, <1>4, <3>3
      <4>2. QED
        BY <4>1
    <3>4. QED
      BY <1>7, <3>1, <3>2, <3>3
  <2>3. QED
    BY <2>2 DEF QueueInv, SameKey
<1>10. JobInv'
  <2>1. ASSUME NEW j \in DOMAIN jobs'
        PROVE  /\ jobs'[j].state = "created" =>
                    /\ jobs'[j].retries = 0
                    /\ Awaits(turns'[jobs'[j].turn], 0) \/ Over(turns'[jobs'[j].turn])
               /\ jobs'[j].state = "retry" =>
                    /\ jobs'[j].retries < RetryLimit
                    /\ \/ Awaits(turns'[jobs'[j].turn], jobs'[j].retries + 1)
                       \/ Over(turns'[jobs'[j].turn])
    <3>1. CASE j = n + 1
      BY <1>3, <1>4, <1>5, <3>1
    <3>2. CASE j \in DOMAIN jobs
      BY <1>3, <1>5, <1>6, <3>2 DEF CalmInv, JobInv
    <3>3. QED
      BY <1>7, <3>1, <3>2
  <2>2. QED
    BY <2>1 DEF JobInv
<1>11. HandlerInv'
  <2>1. ASSUME NEW g \in Handlers, Busy(g)
        PROVE  HandlerFits(g)'
    <3>1. JobOf(g) \in DOMAIN jobs /\ jobs[JobOf(g)].turn = T(g)
      BY <2>1, HandlerFacts
    <3>2. jobs'[JobOf(g)] = jobs[JobOf(g)] /\ turns'[T(g)] = turns[T(g)]
      BY <1>3, <1>5, <1>6, <3>1
    <3>3. QED
      BY <1>1, <2>1, <3>2, HandlerStays DEF CalmInv, Outside
  <2>2. \A g \in Handlers : (Busy(g)' <=> Busy(g)) /\ JobOf(g)' = JobOf(g)
    BY <1>1 DEF Busy, JobOf
  <2>3. \A j \in DOMAIN jobs' :
          jobs'[j].state = "active" => j \in DOMAIN jobs /\ jobs[j].state = "active"
    BY <1>3, <1>4, <1>7
  <2>4. QED
    BY <2>1, <2>2, <2>3 DEF CalmInv, HandlerInv
<1>12. RowInv'
  <2> SUFFICES ASSUME NEW v \in Turns
               PROVE  /\ turns'[v].cancelReq => task'[TaskOf[v]] \in TerminalTaskStatuses
                      /\ turns'[v].status = "cancelled" =>
                           task'[TaskOf[v]] \in TerminalTaskStatuses
                      /\ turns'[v].status = "failed" =>
                           turns'[v].attempts = RetryLimit + 1
                      /\ turns'[v].status \in {"queued", "running"} =>
                           \/ task'[TaskOf[v]] \in TerminalTaskStatuses
                           \/ \E j \in DOMAIN jobs' :
                                jobs'[j].turn = v /\ Live(jobs', j)
    BY DEF RowInv, Ended, Unsettled
  <2>1. turns'[v].status \in {"queued", "running"} =>
           \/ Ended(TaskOf[v])
           \/ \E j \in DOMAIN jobs' : jobs'[j].turn = v /\ Live(jobs', j)
    <3>1. CASE v = u
      <4>1. n + 1 \in DOMAIN jobs' /\ jobs'[n + 1].turn = v /\ Live(jobs', n + 1)
        BY <1>3, <1>4, <3>1 DEF Live, LiveJobStates
      <4>2. QED
        BY <4>1
    <3>2. CASE v # u
      <4>1. \A j \in DOMAIN jobs :
              /\ j \in DOMAIN jobs' /\ jobs'[j].turn = jobs[j].turn
              /\ Live(jobs, j) => Live(jobs', j)
        BY <1>3 DEF Live
      <4>2. QED
        BY <1>5, <3>2, <4>1 DEF CalmInv, RowInv, Unsettled
    <3>3. QED
      BY <3>1, <3>2
  <2>2. /\ turns'[v].status = "cancelled" =>
             turns[v].status = "cancelled" \/ Ended(TaskOf[v])
        /\ turns'[v].status = "failed" =>
             turns[v].status = "failed" /\ turns'[v].attempts = turns[v].attempts
    BY <1>5
  <2>3. QED
    BY <2>1, <2>2, RowStays DEF CalmInv
<1>13. FailedTaskHasFailedTurn'
  BY <1>1, FailedStays DEF CalmInv
<1>14. OwnerInv'
  BY <1>1, OwnerStays DEF CalmInv, K
<1>15. WaiterInv'
  BY <1>1, WaiterStays DEF CalmInv, WaiterInv, Coming, ControlFits
<1>16. QED
  BY <1>1, <1>8, <1>9, <1>10, <1>11, <1>12, <1>13, <1>14, <1>15 DEF CalmInv

--------------------------------------------------------------------------------
\* A handler between its claim and its return, the delivery before and the
\* return after it.

LEMMA LocalCalm ==
  ASSUME TypeOK, TypeOK', StopInv, StoreStep, CalmInv, NEW h \in Handlers, LocalAction(h)
  PROVE  CalmInv'
<1>1. LocalStep(h)
  BY LocalSteps DEF CalmInv
<1>2. /\ IntakeInv' /\ QueueInv' /\ JobInv' /\ HandlerInv' /\ RowInv'
      /\ FailedTaskHasFailedTurn'
  BY LocalKeeps DEF CalmInv
<1>3. OwnerInv'
  BY LocalOwner DEF CalmInv
<1>4. WaiterInv'
  <2>1. WaiterMoves(h)
    BY LocalWaiter DEF CalmInv
  <2>2. QED
    BY <1>1, <2>1, WaiterMoved DEF CalmInv
<1>5. boot'.pc = "done"
  BY <1>1 DEF LocalStep, CalmInv
<1>6. QED
  BY <1>2, <1>3, <1>4, <1>5 DEF CalmInv

LEMMA DeliverCalm ==
  ASSUME TypeOK, TypeOK', StopInv, StoreStep, CalmInv, NEW h \in Handlers,
         NEW j \in DOMAIN jobs, DeliverJob(h, j)
  PROVE  CalmInv'
<1> DEFINE tries == IF jobs[j].state = "retry" THEN jobs[j].retries + 1
                    ELSE jobs[j].retries
           key == TurnsOf(TaskOf[jobs[j].turn])
<1>1. /\ pc[h] = "idle" /\ Deliverable(jobs, j, key) /\ jobs' = Deliver(jobs, j)
      /\ run' = [run EXCEPT ![h] = [NoRun EXCEPT
                   !.job = j, !.turn = jobs[j].turn, !.tries = jobs'[j].retries]]
      /\ pc' = [pc EXCEPT ![h] = "claim"]
      /\ UNCHANGED <<task, turns, waiter, submissions, events, received, control, boot>>
  BY DEF DeliverJob, Goto, flue
<1>2. /\ pc \in [Handlers -> Steps \cup {"idle"}] /\ run \in [Handlers -> RunRecord]
      /\ jobs \in Seq(Job) /\ jobs[j] \in Job
  BY DEF TypeOK, HandlersOK
<1>3. /\ DOMAIN jobs' = DOMAIN jobs
      /\ jobs'[j].turn = jobs[j].turn /\ jobs'[j].state = "active"
      /\ jobs'[j].retries = tries
      /\ \A i \in DOMAIN jobs : i # j => jobs'[i] = jobs[i]
  <2> DEFINE job == [jobs[j] EXCEPT !.state = "active", !.retries = tries]
  <2>1. jobs' = [jobs EXCEPT ![j] = job]
    BY <1>1 DEF Deliver
  <2>2. job.turn = jobs[j].turn /\ job.state = "active" /\ job.retries = tries
    BY <1>2 DEF Job
  <2> HIDE DEF job
  <2>3. QED
    BY <1>2, <2>1, <2>2
<1> HIDE DEF tries
<1>4. /\ run'[h].job = j /\ run'[h].turn = jobs[j].turn /\ run'[h].tries = tries
      /\ run'[h].resumed = FALSE /\ run'[h].outcome = "none"
      /\ \A g \in Handlers : g # h => run'[g] = run[g]
  <2> DEFINE r == [NoRun EXCEPT !.job = j, !.turn = jobs[j].turn,
                                !.tries = jobs'[j].retries]
  <2>1. /\ r.job = j /\ r.turn = jobs[j].turn /\ r.tries = tries
        /\ r.resumed = FALSE /\ r.outcome = "none"
    BY <1>3 DEF NoRun
  <2>2. run' = [run EXCEPT ![h] = r]
    BY <1>1
  <2> HIDE DEF r
  <2>3. QED
    BY <1>2, <2>1, <2>2
<1>5. /\ pc'[h] = "claim" /\ \A g \in Handlers : g # h => pc'[g] = pc[g]
  BY <1>1, <1>2
<1>6. /\ jobs[j].state \in {"created", "retry"}
      /\ \A i \in DOMAIN jobs : Live(jobs, i) /\ SameKey(j, i) => j <= i
      /\ \A i \in DOMAIN jobs : Live(jobs', i) <=> Live(jobs, i)
      /\ \A i \in DOMAIN jobs : jobs'[i].turn = jobs[i].turn
  <2>1. \A i \in DOMAIN jobs : SameKey(j, i) => jobs[i].turn \in key
    BY JobFacts DEF SameKey, TurnsOf
  <2>2. QED
    BY <1>1, <1>3, <2>1 DEF Deliverable, LiveJobs, Live, LiveJobStates
<1> HIDE DEF key
<1>7. IntakeInv'
  BY <1>1, <1>3, <1>6, IntakeStays DEF CalmInv, Written
<1>8. QueueInv'
  <2> SUFFICES ASSUME NEW i \in DOMAIN jobs, NEW k \in DOMAIN jobs,
                      TaskOf[jobs'[i].turn] = TaskOf[jobs'[k].turn]
               PROVE  /\ i < k => jobs'[i].turn < jobs'[k].turn
                      /\ jobs'[i].state = "active" /\ Live(jobs', k) => i <= k
    BY <1>3 DEF QueueInv, SameKey
  <2>1. SameKey(i, k)
    BY <1>6 DEF SameKey
  <2>2. i < k => jobs'[i].turn < jobs'[k].turn
    BY <1>6, <2>1 DEF CalmInv, QueueInv
  <2>3. CASE i = j
    BY <1>6, <2>1, <2>2, <2>3
  <2>4. CASE i # j
    BY <1>3, <1>6, <2>1, <2>2, <2>4 DEF CalmInv, QueueInv
  <2>5. QED
    BY <2>3, <2>4
<1>9. JobInv'
  BY <1>1, <1>3, JobsStay DEF CalmInv, Outside
<1>10. ASSUME NEW g \in Handlers, g # h, Busy(g)
       PROVE  HandlerFits(g)' /\ JobOf(g) # j /\ JobOf(g)' = JobOf(g) /\ Busy(g)'
  <2>1. JobOf(g) # j /\ JobOf(g) \in DOMAIN jobs
    BY <1>6, <1>10, HandlerFacts DEF CalmInv, HandlerInv, HandlerFits
  <2>2. jobs'[JobOf(g)] = jobs[JobOf(g)]
    BY <1>3, <2>1
  <2>3. HandlerFits(g)'
    BY <1>1, <1>4, <1>5, <1>10, <2>2, HandlerStays DEF CalmInv, Outside
  <2>4. QED
    BY <1>4, <1>5, <1>10, <2>1, <2>3 DEF JobOf, Busy
<1>11. HandlerFits(h)'
  <2>1. /\ tries <= RetryLimit
        /\ Awaits(turns[jobs[j].turn], tries) \/ Over(turns[jobs[j].turn])
    <3>1. jobs[j].retries \in Nat
      BY JobFacts
    <3>2. QED
      BY <1>6, <3>1, BoundsAssumption DEF CalmInv, JobInv, tries
  <2>2. RowFits("claim", turns[jobs[j].turn], tries, Ended(K(h))')
    BY <2>1 DEF RowFits, RunningSteps, EndedSteps
  <2>3. T(h)' = jobs[j].turn /\ JobOf(h)' = j
    BY <1>4 DEF T, JobOf
  <2>4. QED
    BY <1>1, <1>3, <1>4, <1>5, <2>1, <2>2, <2>3 DEF HandlerFits
<1>12. JobOf(h)' = j /\ Busy(h)' /\ ~Busy(h)
  BY <1>1, <1>4, <1>5 DEF JobOf, Busy
<1>13. \A g \in Handlers : g # h /\ Busy(g)' => Busy(g)
  BY <1>5 DEF Busy
<1>14. HandlerInv'
  <2>1. \A g \in Handlers : Busy(g)' => HandlerFits(g)'
    BY <1>10, <1>11, <1>13
  <2>2. ASSUME NEW f \in Handlers, NEW g \in Handlers,
               Busy(f)', Busy(g)', JobOf(f)' = JobOf(g)'
        PROVE  f = g
    <3>1. CASE f # h /\ g # h
      BY <1>10, <1>13, <2>2, <3>1 DEF CalmInv, HandlerInv
    <3>2. CASE f = h \/ g = h
      BY <1>10, <1>12, <1>13, <2>2, <3>2
    <3>3. QED
      BY <3>1, <3>2
  <2>3. ASSUME NEW i \in DOMAIN jobs', jobs'[i].state = "active"
        PROVE  \E g \in Handlers : Busy(g)' /\ JobOf(g)' = i
    <3>1. CASE i = j
      BY <1>12, <3>1
    <3>2. CASE i # j
      <4>1. PICK g \in Handlers : Busy(g) /\ JobOf(g) = i
        BY <1>3, <2>3, <3>2 DEF CalmInv, HandlerInv
      <4>2. g # h
        BY <1>12, <4>1
      <4>3. QED
        BY <1>10, <4>1, <4>2
    <3>3. QED
      BY <3>1, <3>2
  <2>4. QED
    BY <2>1, <2>2, <2>3 DEF HandlerInv
<1>15. RowInv'
  <2> SUFFICES ASSUME NEW v \in Turns
               PROVE  /\ turns'[v].cancelReq => task'[TaskOf[v]] \in TerminalTaskStatuses
                      /\ turns'[v].status = "cancelled" =>
                           task'[TaskOf[v]] \in TerminalTaskStatuses
                      /\ turns'[v].status = "failed" =>
                           turns'[v].attempts = RetryLimit + 1
                      /\ turns'[v].status \in {"queued", "running"} =>
                           \/ task'[TaskOf[v]] \in TerminalTaskStatuses
                           \/ \E i \in DOMAIN jobs' :
                                jobs'[i].turn = v /\ Live(jobs', i)
    BY DEF RowInv, Ended, Unsettled
  <2>1. turns'[v].status \in {"queued", "running"} =>
           \/ Ended(TaskOf[v])
           \/ \E i \in DOMAIN jobs' : jobs'[i].turn = v /\ Live(jobs', i)
    BY <1>1, <1>3, <1>6 DEF CalmInv, RowInv, Unsettled
  <2>2. QED
    BY <1>1, <2>1, RowStays DEF CalmInv
<1>16. FailedTaskHasFailedTurn'
  BY <1>1, FailedStays DEF CalmInv
<1>17. OwnerInv'
  <2>1. pc[h] \notin HolderSteps /\ pc'[h] \notin HolderSteps
    BY <1>1, <1>5 DEF HolderSteps, OwnerSteps
  <2>2. \A g \in Handlers : g # h => pc'[g] = pc[g] /\ K(g)' = K(g)
    BY <1>4, <1>5 DEF K
  <2>3. \A g \in Handlers :
          \/ pc'[g] = pc[g] /\ K(g)' = K(g)
          \/ pc[g] \notin HolderSteps /\ pc'[g] \notin HolderSteps
    BY <2>1, <2>2
  <2>4. QED
    BY <1>1, <2>3, OwnerStays DEF CalmInv
<1>18. WaiterInv'
  <2>1. \A t \in Tasks : h \notin waiter'[t].held
    BY <1>1, <1>12 DEF CalmInv, WaiterInv
  <2>2. \A g \in Handlers :
          \/ /\ pc'[g] = pc[g] /\ run'[g] = run[g]
             /\ \A t \in Tasks : g \in waiter'[t].held <=> g \in waiter[t].held
          \/ /\ pc'[g] \notin {"dispatch", "await"} /\ run'[g].outcome = "none"
             /\ \A t \in Tasks : g \notin waiter'[t].held
    BY <1>1, <1>4, <1>5, <2>1
  <2>3. \A t \in Tasks : Coming(t) => Coming(t)'
    BY <1>1 DEF Coming
  <2>4. \A t \in Tasks : ControlFits(t)'
    BY <1>1 DEF CalmInv, WaiterInv, ControlFits
  <2>5. QED
    BY <2>2, <2>3, <2>4, WaiterStays DEF CalmInv
<1>19. QED
  BY <1>1, <1>7, <1>8, <1>9, <1>14, <1>15, <1>16, <1>17, <1>18 DEF CalmInv

LEMMA LeaveCalm ==
  ASSUME TypeOK, TypeOK', StopInv, StoreStep, CalmInv, NEW h \in Handlers,
         Return(h) \/ Rethrow(h)
  PROVE  CalmInv'
<1>1. /\ pc[h] \in {"return", "throw"} /\ Busy(h)
      /\ pc' = [pc EXCEPT ![h] = "idle"] /\ run' = [run EXCEPT ![h] = NoRun]
      /\ waiter' = [waiter EXCEPT ![K(h)] = Forget(waiter[K(h)], h)]
      /\ UNCHANGED <<task, turns, submissions, events, received, control, boot>>
      /\ \/ pc[h] = "return" /\ jobs' = CompleteJob(jobs, run[h].job)
         \/ pc[h] = "throw" /\ jobs' = FailJob(jobs, run[h].job, RetryLimit)
  BY DEF Return, Rethrow, Leave, Busy, flue
<1>2. PICK i \in DOMAIN jobs : i = run[h].job
  BY <1>1, HandlerFacts DEF JobOf
<1>3. /\ pc \in [Handlers -> Steps \cup {"idle"}] /\ run \in [Handlers -> RunRecord]
      /\ jobs \in Seq(Job) /\ jobs[i] \in Job /\ jobs[i].turn = T(h)
      /\ jobs[i].retries \in Nat /\ T(h) \in Turns /\ K(h) \in Tasks
      /\ K(h) = TaskOf[T(h)] /\ waiter \in [Tasks -> Waiter]
  BY <1>1, <1>2, HandlerFacts, JobFacts DEF TypeOK, HandlersOK, AgentsOK, JobOf
<1>4. /\ \/ jobs[i].state = "active"
         \/ jobs[i].state = "cancelled" /\ Ended(K(h))
      /\ run[h].tries = jobs[i].retries
      /\ RowFits(pc[h], turns[T(h)], run[h].tries, Ended(K(h)))
  <2>1. HandlerFits(h) /\ JobOf(h) = i
    BY <1>1, <1>2 DEF CalmInv, HandlerInv, JobOf
  <2>2. QED
    BY <2>1 DEF HandlerFits
<1>5. /\ DOMAIN jobs' = DOMAIN jobs
      /\ jobs'[i].turn = jobs[i].turn /\ jobs'[i].retries = jobs[i].retries
      /\ \A k \in DOMAIN jobs : k # i => jobs'[k] = jobs[k]
      /\ \/ jobs[i].state = "cancelled" /\ jobs'[i].state = "cancelled"
         \/ /\ jobs[i].state = "active" /\ pc[h] = "return"
            /\ jobs'[i].state = "completed"
         \/ /\ jobs[i].state = "active" /\ pc[h] = "throw"
            /\ jobs'[i].state = "retry"
  <2>1. CASE jobs[i].state = "cancelled"
    <3>1. jobs' = jobs
      BY <1>1, <1>2, <2>1 DEF CompleteJob, FailJob
    <3>2. QED
      BY <2>1, <3>1
  <2>2. CASE jobs[i].state = "active"
    <3>1. PICK state : /\ jobs' = [jobs EXCEPT ![i].state = state]
                       /\ \/ pc[h] = "return" /\ state = "completed"
                          \/ pc[h] = "throw" /\ state = "retry"
      <4>1. CASE pc[h] = "return"
        BY <1>1, <1>2, <2>2, <4>1 DEF CompleteJob
      <4>2. CASE pc[h] = "throw"
        <5>1. jobs[i].retries < RetryLimit
          BY <1>4, <4>2 DEF RowFits
        <5>2. jobs' = [jobs EXCEPT ![i].state = "retry"]
          BY <1>1, <1>2, <2>2, <4>2, <5>1 DEF FailJob
        <5>3. QED
          BY <4>2, <5>2
      <4>3. QED
        BY <1>1, <4>1, <4>2
    <3> DEFINE job == [jobs[i] EXCEPT !.state = state]
    <3>2. job.state = state /\ job.turn = jobs[i].turn /\ job.retries = jobs[i].retries
      BY <1>3 DEF Job
    <3>3. jobs' = [jobs EXCEPT ![i] = job]
      BY <3>1
    <3> HIDE DEF job
    <3>4. jobs'[i] = job /\ DOMAIN jobs' = DOMAIN jobs
          /\ \A k \in DOMAIN jobs : k # i => jobs'[k] = jobs[k]
      BY <1>3, <3>3
    <3>5. QED
      BY <2>2, <3>1, <3>2, <3>4
  <2>3. QED
    BY <1>4, <2>1, <2>2
<1>6. /\ \A k \in DOMAIN jobs : Live(jobs', k) => Live(jobs, k)
      /\ \A k \in DOMAIN jobs : jobs'[k].turn = jobs[k].turn
      /\ \A k \in DOMAIN jobs :
           jobs'[k].state = "active" => k # i /\ jobs[k].state = "active"
  BY <1>5 DEF Live, LiveJobStates
<1>7. /\ pc'[h] = "idle" /\ run'[h] = NoRun
      /\ \A g \in Handlers : g # h => pc'[g] = pc[g] /\ run'[g] = run[g]
  BY <1>1, <1>3
<1>8. IntakeInv'
  BY <1>1, <1>5, <1>6, IntakeStays DEF CalmInv, Written
<1>9. QueueInv'
  BY <1>5, <1>6, QueueStays DEF CalmInv
<1>10. JobInv'
  <2>1. ASSUME NEW k \in DOMAIN jobs'
        PROVE  /\ jobs'[k].state = "created" =>
                    /\ jobs'[k].retries = 0
                    /\ Awaits(turns'[jobs'[k].turn], 0) \/ Over(turns'[jobs'[k].turn])
               /\ jobs'[k].state = "retry" =>
                    /\ jobs'[k].retries < RetryLimit
                    /\ \/ Awaits(turns'[jobs'[k].turn], jobs'[k].retries + 1)
                       \/ Over(turns'[jobs'[k].turn])
    <3>1. CASE k = i
      BY <1>1, <1>3, <1>4, <1>5, <3>1 DEF RowFits
    <3>2. CASE k # i
      BY <1>1, <1>5, <2>1, <3>2 DEF CalmInv, JobInv
    <3>3. QED
      BY <3>1, <3>2
  <2>2. QED
    BY <2>1 DEF JobInv
<1>11. \A g \in Handlers : (Busy(g)' <=> g # h /\ Busy(g)) /\ (g # h => JobOf(g)' = JobOf(g))
  BY <1>7 DEF Busy, JobOf
<1>12. HandlerInv'
  <2>1. ASSUME NEW g \in Handlers, Busy(g), g # h
        PROVE  HandlerFits(g)'
    <3>1. JobOf(g) # i /\ JobOf(g) \in DOMAIN jobs
      BY <1>1, <1>2, <2>1, HandlerFacts DEF CalmInv, HandlerInv, JobOf
    <3>2. jobs'[JobOf(g)] = jobs[JobOf(g)]
      BY <1>5, <3>1
    <3>3. QED
      BY <1>1, <1>7, <2>1, <3>2, HandlerStays DEF CalmInv, Outside
  <2>2. ASSUME NEW k \in DOMAIN jobs', jobs'[k].state = "active"
        PROVE  \E g \in Handlers : Busy(g)' /\ JobOf(g)' = k
    <3>1. PICK g \in Handlers : Busy(g) /\ JobOf(g) = k
      BY <1>5, <1>6, <2>2 DEF CalmInv, HandlerInv
    <3>2. g # h
      BY <1>2, <1>5, <1>6, <2>2, <3>1 DEF JobOf
    <3>3. QED
      BY <1>11, <3>1, <3>2
  <2>3. QED
    BY <1>11, <2>1, <2>2 DEF CalmInv, HandlerInv
<1>13. RowInv'
  <2> SUFFICES ASSUME NEW v \in Turns
               PROVE  /\ turns'[v].cancelReq => task'[TaskOf[v]] \in TerminalTaskStatuses
                      /\ turns'[v].status = "cancelled" =>
                           task'[TaskOf[v]] \in TerminalTaskStatuses
                      /\ turns'[v].status = "failed" =>
                           turns'[v].attempts = RetryLimit + 1
                      /\ turns'[v].status \in {"queued", "running"} =>
                           \/ task'[TaskOf[v]] \in TerminalTaskStatuses
                           \/ \E k \in DOMAIN jobs' :
                                jobs'[k].turn = v /\ Live(jobs', k)
    BY DEF RowInv, Ended, Unsettled
  <2>1. ASSUME turns'[v].status \in {"queued", "running"}, ~Ended(TaskOf[v])
        PROVE  \E k \in DOMAIN jobs' : jobs'[k].turn = v /\ Live(jobs', k)
    <3>1. PICK k \in DOMAIN jobs : jobs[k].turn = v /\ Live(jobs, k)
      BY <1>1, <2>1 DEF CalmInv, RowInv, Unsettled
    <3>2. CASE k = i
      <4>1. pc[h] # "return"
        BY <1>1, <1>3, <1>4, <2>1, <3>1, <3>2 DEF RowFits, TerminalTurnStatuses
      <4>2. jobs'[i].state = "retry"
        BY <1>1, <1>3, <1>4, <1>5, <2>1, <3>1, <3>2, <4>1
      <4>3. QED
        BY <1>5, <3>1, <3>2, <4>2 DEF Live, LiveJobStates
    <3>3. CASE k # i
      BY <1>5, <3>1, <3>3 DEF Live
    <3>4. QED
      BY <3>2, <3>3
  <2>2. QED
    BY <1>1, <2>1, RowStays DEF CalmInv
<1>14. FailedTaskHasFailedTurn'
  BY <1>1, FailedStays DEF CalmInv
<1>15. OwnerInv'
  <2>1. pc[h] \notin HolderSteps /\ pc'[h] \notin HolderSteps
    BY <1>1, <1>7 DEF HolderSteps, OwnerSteps
  <2>2. \A g \in Handlers : g # h => pc'[g] = pc[g] /\ K(g)' = K(g)
    BY <1>7 DEF K
  <2>3. \A g \in Handlers :
          \/ pc'[g] = pc[g] /\ K(g)' = K(g)
          \/ pc[g] \notin HolderSteps /\ pc'[g] \notin HolderSteps
    BY <2>1, <2>2
  <2>4. QED
    BY <1>1, <2>3, OwnerStays DEF CalmInv
<1>16. WaiterInv'
  <2>1. \A t \in Tasks : waiter'[t].held = IF t = K(h) THEN waiter[t].held \ {h}
                                           ELSE waiter[t].held
    <3>1. Forget(waiter[K(h)], h).held = waiter[K(h)].held \ {h}
      BY <1>3 DEF Forget, Waiter
    <3>2. QED
      BY <1>1, <1>3, <3>1
  <2>2. \A t \in Tasks : h \notin waiter'[t].held
    BY <2>1 DEF CalmInv, WaiterInv
  <2>3. \A g \in Handlers :
          \/ /\ pc'[g] = pc[g] /\ run'[g] = run[g]
             /\ \A t \in Tasks : g \in waiter'[t].held <=> g \in waiter[t].held
          \/ /\ pc'[g] \notin {"dispatch", "await"} /\ run'[g].outcome = "none"
             /\ \A t \in Tasks : g \notin waiter'[t].held
    <3> SUFFICES ASSUME NEW g \in Handlers
                 PROVE  \/ /\ pc'[g] = pc[g] /\ run'[g] = run[g]
                           /\ \A t \in Tasks : g \in waiter'[t].held <=> g \in waiter[t].held
                        \/ /\ pc'[g] \notin {"dispatch", "await"}
                           /\ run'[g].outcome = "none"
                           /\ \A t \in Tasks : g \notin waiter'[t].held
      OBVIOUS
    <3>1. CASE g = h
      BY <1>7, <2>2, <3>1 DEF NoRun
    <3>2. CASE g # h
      <4>1. \A t \in Tasks : g \in waiter'[t].held <=> g \in waiter[t].held
        BY <2>1, <3>2
      <4>2. QED
        BY <1>7, <3>2, <4>1
    <3>3. QED
      BY <3>1, <3>2
  <2>4. \A t \in Tasks : Coming(t) => Coming(t)'
    BY <1>1 DEF Coming
  <2>5. \A t \in Tasks : ControlFits(t)'
    BY <1>1 DEF CalmInv, WaiterInv, ControlFits
  <2>6. QED
    BY <2>3, <2>4, <2>5, WaiterStays DEF CalmInv
<1>17. QED
  BY <1>1, <1>8, <1>9, <1>10, <1>12, <1>13, <1>14, <1>15, <1>16 DEF CalmInv

--------------------------------------------------------------------------------
\* The calm cannot end but by a crash or by a job given up under its handler,
\* and until then every step keeps the invariant.

LEMMA CountersMove ==
  ASSUME TypeOK, [Next]_vars
  PROVE  /\ crashes' = crashes \/ (CrashAndRestart /\ crashes' = crashes + 1)
         /\ timeouts' = timeouts \/ timeouts' = timeouts + 1
<1>1. ASSUME NEW u \in Turns, ReceiveMessage(u) \/ IntakeTurn(u)
      PROVE  UNCHANGED counters
  BY <1>1 DEF ReceiveMessage, IntakeTurn
<1>2. ASSUME NEW h \in Handlers, LocalAction(h)
      PROVE  UNCHANGED counters
  BY <1>2
  DEF LocalAction, Claim, Resume, Reread, Probe, Begin, Discard, Checkpoint, Stopped,
      ReleaseTask, Recheck, Dispatch, SettleCompleted, ToWaiting, Abandon, SettleFailed,
      HandleTurnError, RetryTurn, RetryTask, FailTurn, FailTask, StepThrows
<1>3. ASSUME NEW h \in Handlers, Return(h) \/ Rethrow(h)
      PROVE  UNCHANGED counters
  BY <1>3 DEF Return, Rethrow, Leave
<1>4. ASSUME NEW h \in Handlers, NEW j \in DOMAIN jobs, DeliverJob(h, j)
      PROVE  UNCHANGED counters
  BY <1>4 DEF DeliverJob
<1>5. ASSUME NEW t \in Tasks, AgentEnds(t) \/ AgentErrs(t) \/ HandleEvent(t)
      PROVE  UNCHANGED counters
  BY <1>5 DEF AgentEnds, AgentErrs, HandleEvent
<1>6. ASSUME NEW t \in Tasks, StopTask(t) \/ DoneTask(t) \/ ControlStep(t)
      PROVE  UNCHANGED counters
  BY <1>6 DEF StopTask, DoneTask, ControlStep, ListRunning, GateTurn,
              CancelPendingTurns, CancelJobs, AbortAgentWork, ResolveCancelled
<1>7. ASSUME NEW j \in DOMAIN jobs, JobTimesOut(j)
      PROVE  /\ crashes' = crashes
             /\ timeouts' = timeouts \/ timeouts' = timeouts + 1
  BY <1>7 DEF JobTimesOut
<1>8. ASSUME CrashAndRestart
      PROVE  crashes' = crashes + 1 /\ timeouts' = timeouts
  BY <1>8 DEF CrashAndRestart
<1>9. ASSUME BootStep
       PROVE  UNCHANGED counters
  BY <1>9 DEF BootStep, BootRelease, BootRequeue, BootTask, BootSend, BootListQueued,
               BootFindJobs, BootSendOrphan
<1>10. ASSUME \E h \in Handlers : HandlerStep(h) \/ StepThrows(h)
       PROVE  UNCHANGED counters
  <2>1. PICK h \in Handlers : LocalAction(h) \/ Return(h) \/ Rethrow(h)
    BY <1>10 DEF HandlerStep, LocalAction
  <2>2. QED
    BY <1>2, <1>3, <2>1
<1>11. ASSUME UNCHANGED vars
       PROVE  UNCHANGED counters
  BY <1>11 DEF vars, counters
<1>12. QED
  BY <1>1, <1>4, <1>5, <1>6, <1>7, <1>8, <1>9, <1>10, <1>11 DEF Next, counters

LEMMA CalmBefore ==
  TypeOK /\ [Next]_vars /\ Calm' => Calm
<1> SUFFICES ASSUME TypeOK, [Next]_vars, crashes' = 0, timeouts' = 0
             PROVE  crashes = 0 /\ timeouts = 0
  BY DEF Calm
<1>1. crashes \in Nat /\ timeouts \in Nat
  BY BoundsAssumption DEF TypeOK
<1>2. QED
  BY <1>1, CountersMove

\* An active job has its handler, so giving it up ends the calm.
LEMMA NoTimeout ==
  ASSUME TypeOK, CalmInv, Calm, Calm', NEW j \in DOMAIN jobs, JobTimesOut(j)
  PROVE  FALSE
<1>1. \E h \in Handlers : pc[h] # "idle" /\ run[h].job = j
  BY DEF JobTimesOut, CalmInv, HandlerInv, Busy, JobOf
<1>2. timeouts' = timeouts + 1
  BY <1>1 DEF JobTimesOut
<1>3. QED
  BY <1>2 DEF Calm

LEMMA StutterCalm ==
  ASSUME CalmInv, UNCHANGED vars
  PROVE  CalmInv'
<1>1. UNCHANGED <<task, turns, jobs, pc, run, waiter, submissions, events, received,
                  control, boot>>
  BY DEF vars
<1>2. IntakeInv' /\ QueueInv' /\ JobInv'
  BY <1>1 DEF CalmInv, IntakeInv, QueueInv, JobInv, SameKey, Live, Written
<1>3. HandlerInv'
  BY <1>1 DEF CalmInv, HandlerInv, HandlerFits, Busy, JobOf, T, K, Ended
<1>4. RowInv' /\ FailedTaskHasFailedTurn'
  BY <1>1 DEF CalmInv, RowInv, FailedTaskHasFailedTurn, Unsettled, Ended, Live
<1>5. OwnerInv'
  BY <1>1 DEF CalmInv, OwnerInv, RunningTaskIsOwned, Holds, Owns, K, Ended
<1>6. WaiterInv'
  BY <1>1 DEF CalmInv, WaiterInv, Busy, K, Ended, Coming, ControlFits
<1>7. QED
  BY <1>1, <1>2, <1>3, <1>4, <1>5, <1>6 DEF CalmInv

LEMMA InitCalm ==
  Init => CalmInv
<1> SUFFICES ASSUME Init
             PROVE  CalmInv
  OBVIOUS
<1>1. /\ \A u \in Turns : turns[u] = NoRow
      /\ DOMAIN jobs = {} /\ received = {}
      /\ \A h \in Handlers : pc[h] = "idle"
      /\ \A t \in Tasks : task[t] = "queued"
      /\ \A t \in Tasks : waiter[t] = NoWaiter /\ control[t] = NoControl
  BY DEF Init
<1>2. NoRow.status = "none" /\ NoRow.cancelReq = FALSE
  BY DEF NoRow
<1>3. IntakeInv /\ QueueInv /\ JobInv
  BY <1>1, <1>2 DEF IntakeInv, QueueInv, JobInv, Written
<1>4. HandlerInv
  BY <1>1 DEF HandlerInv, Busy
<1>5. RowInv /\ FailedTaskHasFailedTurn
  BY <1>1, <1>2 DEF RowInv, FailedTaskHasFailedTurn, Unsettled
<1>6. OwnerInv
  BY <1>1 DEF OwnerInv, RunningTaskIsOwned, Holds, HolderSteps, OwnerSteps
<1>7. WaiterInv
  BY <1>1 DEF WaiterInv, Busy, NoWaiter, ControlFits, NoControl
<1>8. QED
  BY <1>3, <1>4, <1>5, <1>6, <1>7 DEF CalmInv, Init, NoBoot

LEMMA NextCalm ==
  TypeOK /\ TypeOK' /\ StopInv /\ (Calm => CalmInv) /\ [Next]_vars => (Calm => CalmInv)'
<1> SUFFICES ASSUME TypeOK, TypeOK', StopInv, Calm => CalmInv, [Next]_vars, Calm'
             PROVE  CalmInv'
  OBVIOUS
<1>1. Calm /\ CalmInv /\ StoreStep
  BY CalmBefore, NextStoreStep
<1>2. ASSUME NEW u \in Turns, ReceiveMessage(u) \/ IntakeTurn(u)
      PROVE  CalmInv'
  BY <1>1, <1>2, ReceiveKeeps, IntakeKeeps
<1>3. ASSUME NEW h \in Handlers, HandlerStep(h) \/ StepThrows(h)
      PROVE  CalmInv'
  <2>1. LocalAction(h) \/ Return(h) \/ Rethrow(h)
    BY <1>3 DEF HandlerStep, LocalAction
  <2>2. QED
    BY <1>1, <2>1, LocalCalm, LeaveCalm
<1>4. ASSUME NEW h \in Handlers, NEW j \in DOMAIN jobs, DeliverJob(h, j)
      PROVE  CalmInv'
  BY <1>1, <1>4, DeliverCalm
<1>5. ASSUME NEW t \in Tasks, AgentEnds(t) \/ AgentErrs(t) \/ HandleEvent(t)
      PROVE  CalmInv'
  BY <1>1, <1>5, AgentKeeps
<1>6. ASSUME NEW t \in Tasks, StopTask(t) \/ DoneTask(t) \/ ControlStep(t)
      PROVE  CalmInv'
  BY <1>1, <1>6, ControlKeeps
<1>7. ASSUME NEW j \in DOMAIN jobs, JobTimesOut(j)
      PROVE  CalmInv'
  BY <1>1, <1>7, NoTimeout
<1>8. ~CrashAndRestart
  BY <1>1 DEF CrashAndRestart, Calm
<1>9. ~BootStep
  BY <1>1 DEF BootStep, BootRelease, BootRequeue, BootTask, BootSend, BootListQueued,
              BootFindJobs, BootSendOrphan, CalmInv
<1>10. CASE UNCHANGED vars
  BY <1>1, <1>10, StutterCalm
<1>11. QED
  BY <1>2, <1>3, <1>4, <1>5, <1>6, <1>7, <1>8, <1>9, <1>10 DEF Next

LEMMA CalmInvariant ==
  Spec => [](TypeOK /\ StopInv /\ (Calm => CalmInv))
<1>1. Init => (Calm => CalmInv)
  BY InitCalm
<1>2. QED
  BY <1>1, NextCalm, NextType, StopInvariant, PTL DEF Spec

--------------------------------------------------------------------------------
\* What follows for the properties that the runs check.

\* The calm is no empty hypothesis: where nothing crashes and no job is given up
\* it lasts for ever, whatever users and agents do.  So each theorem below holds
\* without it of the instances that the run "turns" checks.
LEMMA CalmWithoutFaults ==
  ASSUME MaxCrashes = 0, MaxTimeouts = 0
  PROVE  Spec => []Calm
<1>1. TypeOK => Calm
  BY DEF TypeOK, Calm
<1>2. QED
  BY <1>1, TypeCorrect, PTL

\* One turn in flight per Flue instance, as the completion bridge assumes: until
\* the first fault no two handlers own a task, in whatever order deliveries,
\* retries, completions and controls fall.
THEOREM SingleOwner == Spec => [](Calm => OneOwner)
<1>1. TypeOK /\ (Calm => CalmInv) => (Calm => OneOwner)
  BY DEF CalmInv, OwnerInv, Holds, HolderSteps, OneOwner, Owns
<1>2. QED
  BY <1>1, CalmInvariant, PTL

\* Until the first fault a task that is "running" has a handler that will give
\* it back, complete or fail it: no path of executeTurnJob leaves it behind.
THEOREM RunningTasksOwned == Spec => [](Calm => RunningTaskIsOwned)
<1>1. (Calm => CalmInv) => (Calm => RunningTaskIsOwned)
  BY DEF CalmInv, OwnerInv
<1>2. QED
  BY <1>1, CalmInvariant, PTL

\* No lost wake-up: until the first fault a handler that awaits its outcome holds
\* the registered promise, and what resolves it is still to come.
THEOREM OutcomeIsComing == Spec => [](Calm => NoLostOutcome)
<1>1. TypeOK /\ CalmInv => NoLostOutcome
  <2> SUFFICES ASSUME TypeOK, CalmInv, NEW h \in Handlers,
                      pc[h] = "await", run[h].outcome = "none"
               PROVE  /\ h \in waiter[K(h)].held
                      /\ \/ submissions[K(h)] # <<>> \/ events[K(h)] # <<>>
                         \/ control[K(h)].abort
    BY DEF NoLostOutcome
  <2>1. h \in waiter[K(h)].held /\ Coming(K(h))
    BY DEF CalmInv, WaiterInv
  <2>2. QED
    BY <2>1 DEF Coming
<1>2. QED
  BY <1>1, CalmInvariant, PTL

\* Until the first fault an unsettled turn of a live task has a live job: retries,
\* lost races and controls of other tasks strand nothing.
THEOREM TurnsAreCarried == Spec => [](Calm => NoStrandedTurn)
<1>1. (Calm => CalmInv) => (Calm => NoStrandedTurn)
  BY DEF CalmInv, RowInv, NoStrandedTurn, Carried
<1>2. QED
  BY <1>1, CalmInvariant, PTL

\* Until the first fault the executor's clean-up (markTurnCancelled) only ever
\* discards turns of tasks that were stopped or failed.
THEOREM OnlyStopsCancel == Spec => [](Calm => CancelledOnlyByStop)
<1>1. (Calm => CalmInv) => (Calm => CancelledOnlyByStop)
  BY DEF CalmInv, RowInv, CancelledOnlyByStop
<1>2. QED
  BY <1>1, CalmInvariant, PTL

\* Until the first fault a failed turn was claimed exactly once for each delivery
\* that pg-boss grants: handleTurnError neither gives up early nor tries again.
THEOREM AllRetriesUsed == Spec => [](Calm => FailsAfterLastRetry)
<1>1. (Calm => CalmInv) => (Calm => FailsAfterLastRetry)
  BY DEF CalmInv, RowInv, FailsAfterLastRetry
<1>2. QED
  BY <1>1, CalmInvariant, PTL

\* Until the first fault a failed task has a failed turn, although
\* handleTurnError does not look whether its update of the turn matched.
THEOREM TaskAndTurnFail == Spec => [](Calm => FailedTaskHasFailedTurn)
<1>1. (Calm => CalmInv) => (Calm => FailedTaskHasFailedTurn)
  BY DEF CalmInv
<1>2. QED
  BY <1>1, CalmInvariant, PTL

--------------------------------------------------------------------------------
\* The order of turns.

\* A turn starts by a step of its own handler.
LEMMA StartedByHandler ==
  ASSUME TypeOK, CalmInv, [Next]_vars, NEW u \in Turns,
         turns[u].status = "queued", turns'[u].status = "running"
  PROVE  \E h \in Handlers : Busy(h) /\ T(h) = u
<1>0. turns \in [Turns -> Row] /\ turns[u] \in Row /\ turns'[u] # turns[u]
  BY DEF TypeOK, StoreOK
<1>1. ASSUME NEW v \in Turns, ReceiveMessage(v) \/ IntakeTurn(v)
      PROVE  FALSE
  BY <1>0, <1>1 DEF ReceiveMessage, IntakeTurn, InsertTurn, database
<1>2. ASSUME NEW h \in Handlers, HandlerStep(h) \/ StepThrows(h)
      PROVE  Busy(h) /\ T(h) = u
  <2>1. CASE LocalAction(h)
    <3>1. LocalStep(h)
      BY <2>1, LocalSteps DEF CalmInv
    <3>2. QED
      BY <1>0, <3>1 DEF LocalStep
  <2>2. CASE Return(h) \/ Rethrow(h)
    BY <1>0, <2>2 DEF Return, Rethrow, Leave
  <2>3. QED
    BY <1>2, <2>1, <2>2 DEF HandlerStep, LocalAction
<1>3. ASSUME NEW h \in Handlers, NEW j \in DOMAIN jobs, DeliverJob(h, j)
      PROVE  FALSE
  BY <1>0, <1>3 DEF DeliverJob
<1>4. ASSUME NEW t \in Tasks, AgentEnds(t) \/ AgentErrs(t) \/ HandleEvent(t)
      PROVE  FALSE
  BY <1>0, <1>4 DEF AgentEnds, AgentErrs, HandleEvent, database
<1>5. ASSUME NEW t \in Tasks, StopTask(t) \/ DoneTask(t) \/ ControlStep(t)
      PROVE  FALSE
  <2>1. CASE GateTurn(t)
    <3>1. PICK v \in control[t].gate : turns' = [turns EXCEPT ![v] = RequestCancel(turns[v])]
      BY <2>1 DEF GateTurn
    <3>2. RequestCancel(turns[u]).status = turns[u].status
      BY <1>0 DEF RequestCancel, Row
    <3>3. QED
      BY <1>0, <3>1, <3>2
  <2>2. CASE CancelPendingTurns(t)
    BY <1>0, <2>2 DEF CancelPendingTurns, CancelPending
  <2>3. CASE turns' = turns
    BY <1>0, <2>3
  <2>4. QED
    BY <1>5, <2>1, <2>2, <2>3
    DEF StopTask, DoneTask, ControlStep, ListRunning, CancelJobs, AbortAgentWork,
        ResolveCancelled, database
<1>6. ASSUME NEW j \in DOMAIN jobs, JobTimesOut(j)
      PROVE  FALSE
  BY <1>0, <1>6 DEF JobTimesOut
<1>7. CASE CrashAndRestart
  BY <1>0, <1>7 DEF CrashAndRestart, database
<1>8. ~BootStep
  BY DEF BootStep, BootRelease, BootRequeue, BootTask, BootSend, BootListQueued,
         BootFindJobs, BootSendOrphan, CalmInv
<1>9. CASE UNCHANGED vars
  BY <1>0, <1>9 DEF vars
<1>10. QED
  BY <1>1, <1>2, <1>3, <1>4, <1>5, <1>6, <1>7, <1>8, <1>9 DEF Next

OrderStep ==
  \A u, v \in Turns :
    /\ TaskOf[u] = TaskOf[v] /\ v < u /\ ~Ended(TaskOf[u])
    /\ turns[u].status = "queued" /\ turns'[u].status = "running"
    => ~Claimable(turns[v])

LEMMA NextInOrder ==
  TypeOK /\ CalmInv /\ [Next]_vars => OrderStep
<1> SUFFICES ASSUME TypeOK, CalmInv, [Next]_vars, NEW u \in Turns, NEW v \in Turns,
                    TaskOf[u] = TaskOf[v], v < u, ~Ended(TaskOf[u]),
                    turns[u].status = "queued", turns'[u].status = "running",
                    Claimable(turns[v])
             PROVE  FALSE
  BY DEF OrderStep
<1>1. PICK h \in Handlers : Busy(h) /\ T(h) = u
  BY StartedByHandler
<1>2. /\ JobOf(h) \in DOMAIN jobs /\ jobs[JobOf(h)].turn = u
      /\ jobs[JobOf(h)].state = "active"
  BY <1>1, HandlerFacts DEF CalmInv, HandlerInv, HandlerFits
<1>3. PICK i \in DOMAIN jobs : jobs[i].turn = v /\ Live(jobs, i)
  BY DEF CalmInv, RowInv, Unsettled, Claimable
<1>4. SameKey(JobOf(h), i)
  BY <1>2, <1>3 DEF SameKey
<1>5. JobOf(h) <= i
  BY <1>2, <1>3, <1>4 DEF CalmInv, QueueInv
<1>6. u \in Nat /\ v \in Nat /\ JobOf(h) \in Nat /\ i \in Nat
  BY <1>2, JobFacts, TurnsAssumption
<1>7. JobOf(h) # i
  BY <1>2, <1>3, <1>6
<1>8. u < v
  BY <1>2, <1>3, <1>4, <1>5, <1>6, <1>7 DEF CalmInv, QueueInv
<1>9. QED
  BY <1>6, <1>8

\* Follow-ups queue behind the turns sent before them, in every behaviour without
\* a fault: the strict order of the queue carries over to the rows.
THEOREM TurnsStartInOrder == Spec /\ []Calm => StartsInOrder
<1>1. TypeOK /\ CalmInv /\ [Next]_vars => [OrderStep]_vars
  BY NextInOrder
<1>2. Spec /\ []Calm => [][OrderStep]_vars
  BY <1>1, CalmInvariant, PTL DEF Spec
<1>3. QED
  BY <1>2 DEF StartsInOrder, OrderStep

================================================================================
