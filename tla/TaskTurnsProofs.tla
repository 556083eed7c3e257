----------------------------- MODULE TaskTurnsProofs ----------------------------
(***************************************************************************)
(* Proofs about TaskTurns for any tasks, turns, handlers, retry limit and  *)
(* number of crashes and timeouts.                                         *)
(***************************************************************************)
EXTENDS TaskTurns, SequenceTheorems, TLAPS

--------------------------------------------------------------------------------
\* The statements on a turn row map rows to rows.

LEMMA RowTypes ==
  ASSUME NEW row \in Row
  PROVE  /\ InsertTurn(row) \in Row
         /\ ClaimQueuedTurn(row) \in Row
         /\ MarkTurnCompleted(row) \in Row
         /\ MarkTurnFailed(row) \in Row
         /\ MarkTurnRetrying(row) \in Row
         /\ RequestCancel(row) \in Row
         /\ MarkTurnCancelled(row) \in Row
         /\ CancelPending(row) \in Row
         /\ RequeueInterruptedTurn(row) \in Row
<1>1. /\ InsertTurn(row) \in Row
      /\ CancelPending(row) \in Row
      /\ RequeueInterruptedTurn(row) \in Row
      /\ RequestCancel(row) \in Row
  BY DEF Row, TurnStatus, InsertTurn, CancelPending, RequeueInterruptedTurn,
         RequestCancel
<1>2. /\ MarkTurnCompleted(row) \in Row
      /\ MarkTurnFailed(row) \in Row
      /\ MarkTurnRetrying(row) \in Row
      /\ MarkTurnCancelled(row) \in Row
  BY DEF Row, TurnStatus, MarkTurnCompleted, MarkTurnFailed, MarkTurnRetrying,
         MarkTurnCancelled
<1>3. ClaimQueuedTurn(row) \in Row
  <2>1. row.attempts + 1 \in Nat
    BY DEF Row
  <2>2. [row EXCEPT !.status = "running", !.attempts = row.attempts + 1] \in Row
    BY <2>1 DEF Row, TurnStatus
  <2>3. QED
    BY <2>2 DEF ClaimQueuedTurn
<1>4. QED
  BY <1>1, <1>2, <1>3

--------------------------------------------------------------------------------
\* The operations of the queue keep every job at its index, with its turn.

Keeps(old, new) ==
  /\ new \in Seq(Job)
  /\ \A j \in DOMAIN old : j \in DOMAIN new /\ new[j].turn = old[j].turn

LEMMA StateUpdate ==
  ASSUME NEW q \in Seq(Job), NEW j \in DOMAIN q, NEW state \in JobState
  PROVE  /\ [q[j] EXCEPT !.state = state] \in Job
         /\ [q[j] EXCEPT !.state = state].turn = q[j].turn
<1>1. q[j] \in Job
  OBVIOUS
<1>2. QED
  BY <1>1 DEF Job

\* Replacing a job by one of the same turn.
LEMMA UpdateKeeps ==
  ASSUME NEW q \in Seq(Job), NEW j \in DOMAIN q, NEW job \in Job,
         job.turn = q[j].turn
  PROVE  Keeps(q, [q EXCEPT ![j] = job])
BY ExceptSeq DEF Keeps

LEMMA SendKeeps ==
  ASSUME NEW q \in Seq(Job), NEW u \in Turns
  PROVE  Keeps(q, Send(q, u))
BY DEF Keeps, Send, Job, JobState, LiveJobStates

LEMMA DeliverKeeps ==
  ASSUME NEW q \in Seq(Job), NEW j \in DOMAIN q
  PROVE  Keeps(q, Deliver(q, j)) /\ Deliver(q, j)[j].retries \in Nat
<1> DEFINE n == IF q[j].state = "retry" THEN q[j].retries + 1 ELSE q[j].retries
           job == [q[j] EXCEPT !.state = "active", !.retries = n]
<1>1. q[j] \in Job
  OBVIOUS
<1>2. n \in Nat
  BY <1>1 DEF Job
<1>3. job \in Job /\ job.turn = q[j].turn /\ job.retries = n
  BY <1>1, <1>2 DEF Job, JobState, LiveJobStates
<1>4. Deliver(q, j) = [q EXCEPT ![j] = job]
  BY DEF Deliver
<1> HIDE DEF n, job
<1>5. Deliver(q, j)[j] = job
  BY <1>3, <1>4, ExceptSeq
<1>6. QED
  BY <1>2, <1>3, <1>4, <1>5, UpdateKeeps

LEMMA CompleteKeeps ==
  ASSUME NEW q \in Seq(Job), NEW j \in DOMAIN q
  PROVE  Keeps(q, CompleteJob(q, j))
<1> DEFINE job == [q[j] EXCEPT !.state = "completed"]
<1>1. job \in Job /\ job.turn = q[j].turn
  <2>1. "completed" \in JobState
    BY DEF JobState
  <2>2. QED
    BY <2>1, StateUpdate
<1>2. CompleteJob(q, j) = IF q[j].state = "active" THEN [q EXCEPT ![j] = job] ELSE q
  BY DEF CompleteJob
<1> HIDE DEF job
<1>3. QED
  BY <1>1, <1>2, UpdateKeeps DEF Keeps

LEMMA FailKeeps ==
  ASSUME NEW q \in Seq(Job), NEW j \in DOMAIN q, NEW limit
  PROVE  Keeps(q, FailJob(q, j, limit))
<1> DEFINE job == [q[j] EXCEPT !.state =
                     IF q[j].retries < limit THEN "retry" ELSE "failed"]
<1>1. job \in Job /\ job.turn = q[j].turn
  <2>1. (IF q[j].retries < limit THEN "retry" ELSE "failed") \in JobState
    BY DEF JobState, LiveJobStates
  <2>2. QED
    BY <2>1, StateUpdate
<1>2. FailJob(q, j, limit) =
        IF q[j].state = "active" THEN [q EXCEPT ![j] = job] ELSE q
  BY DEF FailJob
<1> HIDE DEF job
<1>3. QED
  BY <1>1, <1>2, UpdateKeeps DEF Keeps

LEMMA ReleaseKeeps ==
  ASSUME NEW q \in Seq(Job), NEW keyed
  PROVE  Keeps(q, ReleaseTaskSingleton(q, keyed))
<1> DEFINE after(j) == IF j \in LiveJobs(q, keyed)
                       THEN [q[j] EXCEPT !.state = "cancelled"]
                       ELSE q[j]
<1>1. \A j \in DOMAIN q : after(j) \in Job /\ after(j).turn = q[j].turn
  <2>1. "cancelled" \in JobState
    BY DEF JobState
  <2>2. QED
    BY <2>1, StateUpdate
<1>2. ReleaseTaskSingleton(q, keyed) = [j \in 1 .. Len(q) |-> after(j)]
  BY DEF ReleaseTaskSingleton
<1>3. ReleaseTaskSingleton(q, keyed) \in Seq(Job)
  BY <1>1, <1>2
<1>4. QED
  BY <1>1, <1>2, <1>3 DEF Keeps

--------------------------------------------------------------------------------
\* The operations on the waiter of an instance keep its type.

LEMMA WaiterTypes ==
  ASSUME NEW entry \in Waiter, NEW h \in Handlers
  PROVE  /\ WaitForTurnOutcome(entry, h) \in Waiter
         /\ ResolvedEntry(entry) \in Waiter
         /\ ClearTurnWaiter(entry) \in Waiter
         /\ Forget(entry, h) \in Waiter
BY DEF Waiter, WaitForTurnOutcome, ResolvedEntry, ClearTurnWaiter, Forget, NoWaiter

--------------------------------------------------------------------------------
\* Parts of the type invariant that many steps preserve in the same way.

LEMMA TransitionType ==
  ASSUME StoreOK, NEW t \in Tasks, NEW from, NEW to \in TaskStatus
  PROVE  Transition(t, from, to) \in [Tasks -> TaskStatus]
BY DEF StoreOK, Transition

LEMMA RunTypes ==
  ASSUME NEW r \in RunRecord
  PROVE  /\ [r EXCEPT !.resumed = TRUE] \in RunRecord
         /\ [r EXCEPT !.dispatched = TRUE] \in RunRecord
         /\ [r EXCEPT !.outcome = "none"] \in RunRecord
         /\ [r EXCEPT !.resumed = TRUE].job = r.job
         /\ [r EXCEPT !.resumed = TRUE].turn = r.turn
         /\ [r EXCEPT !.dispatched = TRUE].job = r.job
         /\ [r EXCEPT !.dispatched = TRUE].turn = r.turn
         /\ [r EXCEPT !.outcome = "none"].job = r.job
         /\ [r EXCEPT !.outcome = "none"].turn = r.turn
BY DEF RunRecord

LEMMA RunUpdate ==
  ASSUME HandlersOK, NEW h \in Handlers, NEW r \in RunRecord,
         r.job = run[h].job, r.turn = run[h].turn, run' = [run EXCEPT ![h] = r]
  PROVE  /\ run' \in [Handlers -> RunRecord]
         /\ \A g \in Handlers : run'[g].job = run[g].job /\ run'[g].turn = run[g].turn
BY DEF HandlersOK

LEMMA KeepsAll ==
  ASSUME jobs \in Seq(Job)
  PROVE  Keeps(jobs, jobs)
BY DEF Keeps

\* A handler that stays busy keeps its job and its turn.
LEMMA HandlersMove ==
  ASSUME HandlersOK, Keeps(jobs, jobs'),
         pc' \in [Handlers -> Steps \cup {"idle"}],
         run' \in [Handlers -> RunRecord],
         \A h \in Handlers : pc'[h] # "idle" =>
           /\ pc[h] # "idle"
           /\ run'[h].job = run[h].job
           /\ run'[h].turn = run[h].turn
  PROVE  HandlersOK'
BY DEF HandlersOK, Keeps

LEMMA HandlerGoes ==
  ASSUME HandlersOK, Keeps(jobs, jobs'), NEW h \in Handlers, pc[h] # "idle",
         NEW step \in Steps, Goto(h, step), UNCHANGED run
  PROVE  HandlersOK'
<1>1. pc' \in [Handlers -> Steps \cup {"idle"}]
  BY DEF HandlersOK, Goto
<1>2. \A g \in Handlers : pc'[g] # "idle" => pc[g] # "idle"
  BY DEF HandlersOK, Goto
<1>3. QED
  BY <1>1, <1>2, HandlersMove DEF HandlersOK

LEMMA BusyHandler ==
  ASSUME TypeOK, NEW h \in Handlers, pc[h] # "idle"
  PROVE  /\ run[h].job \in DOMAIN jobs
         /\ T(h) \in Turns
         /\ K(h) \in Tasks
         /\ turns[T(h)] \in Row
         /\ waiter[K(h)] \in Waiter
<1>1. run[h].job \in DOMAIN jobs /\ T(h) = jobs[run[h].job].turn
  BY DEF TypeOK, HandlersOK, T
<1>2. jobs[run[h].job] \in Job
  BY <1>1 DEF TypeOK
<1>3. T(h) \in Turns
  BY <1>1, <1>2 DEF Job
<1>4. K(h) \in Tasks
  BY <1>3, TaskOfAssumption DEF K, T
<1>5. QED
  BY <1>1, <1>3, <1>4 DEF TypeOK, StoreOK, AgentsOK


--------------------------------------------------------------------------------
\* The steps of a handler, grouped by what they write.

\* Handlers that only write the turn row, only the task, or nothing but where
\* they are.
LEMMA StoreStepsType ==
  ASSUME TypeOK, NEW h \in Handlers,
         \/ Claim(h) \/ Discard(h) \/ SettleCompleted(h) \/ RetryTurn(h) \/ FailTurn(h)
         \/ Begin(h) \/ ReleaseTask(h) \/ ToWaiting(h) \/ RetryTask(h)
         \/ Probe(h) \/ Checkpoint(h) \/ HandleTurnError(h)
  PROVE  TypeOK'
<1>1. CASE Claim(h)
  <2>1. turns' \in [Turns -> Row]
    BY <1>1, BusyHandler, RowTypes DEF TypeOK, StoreOK, Claim
  <2>2. QED
    BY <1>1, <2>1, KeepsAll, HandlerGoes
    DEF TypeOK, StoreOK, AgentsOK, Claim, Steps, flue, counters
<1>2. CASE Discard(h)
  <2>1. turns' \in [Turns -> Row]
    BY <1>2, BusyHandler, RowTypes DEF TypeOK, StoreOK, Discard
  <2>2. QED
    BY <1>2, <2>1, KeepsAll, HandlerGoes
    DEF TypeOK, StoreOK, AgentsOK, Discard, Steps, flue, counters
<1>3. CASE SettleCompleted(h)
  <2>1. turns' \in [Turns -> Row]
    BY <1>3, BusyHandler, RowTypes DEF TypeOK, StoreOK, SettleCompleted
  <2>2. QED
    BY <1>3, <2>1, KeepsAll, HandlerGoes
    DEF TypeOK, StoreOK, AgentsOK, SettleCompleted, Steps, flue, counters
<1>4. CASE RetryTurn(h)
  <2>1. turns' \in [Turns -> Row]
    BY <1>4, BusyHandler, RowTypes DEF TypeOK, StoreOK, RetryTurn
  <2>2. QED
    BY <1>4, <2>1, KeepsAll, HandlerGoes
    DEF TypeOK, StoreOK, AgentsOK, RetryTurn, Steps, flue, counters
<1>5. CASE FailTurn(h)
  <2>1. turns' \in [Turns -> Row]
    BY <1>5, BusyHandler, RowTypes DEF TypeOK, StoreOK, FailTurn
  <2>2. QED
    BY <1>5, <2>1, KeepsAll, HandlerGoes
    DEF TypeOK, StoreOK, AgentsOK, FailTurn, Steps, flue, counters
<1>6. CASE Begin(h)
  <2>1. task' \in [Tasks -> TaskStatus]
    BY <1>6, BusyHandler, TransitionType DEF TypeOK, Begin, TaskStatus
  <2>2. QED
    BY <1>6, <2>1, KeepsAll, HandlerGoes
    DEF TypeOK, StoreOK, AgentsOK, Begin, Steps, flue, counters
<1>7. CASE ReleaseTask(h)
  <2>1. task' \in [Tasks -> TaskStatus]
    BY <1>7, BusyHandler, TransitionType DEF TypeOK, ReleaseTask, TaskStatus
  <2>2. QED
    BY <1>7, <2>1, KeepsAll, HandlerGoes
    DEF TypeOK, StoreOK, AgentsOK, ReleaseTask, Steps, flue, counters
<1>8. CASE ToWaiting(h)
  <2>1. task' \in [Tasks -> TaskStatus]
    BY <1>8, BusyHandler, TransitionType DEF TypeOK, ToWaiting, TaskStatus
  <2>2. QED
    BY <1>8, <2>1, KeepsAll, HandlerGoes
    DEF TypeOK, StoreOK, AgentsOK, ToWaiting, Steps, flue, counters
<1>9. CASE RetryTask(h)
  <2>1. task' \in [Tasks -> TaskStatus]
    BY <1>9, BusyHandler, TransitionType DEF TypeOK, RetryTask, TaskStatus
  <2>2. QED
    BY <1>9, <2>1, KeepsAll, HandlerGoes
    DEF TypeOK, StoreOK, AgentsOK, RetryTask, Steps, flue, counters
<1>10. CASE Probe(h)
  BY <1>10, KeepsAll, HandlerGoes
  DEF TypeOK, StoreOK, AgentsOK, Probe, Steps, database, flue, counters
<1>11. CASE Checkpoint(h)
  BY <1>11, KeepsAll, HandlerGoes
  DEF TypeOK, StoreOK, AgentsOK, Checkpoint, Steps, database, flue, counters
<1>12. CASE HandleTurnError(h)
  BY <1>12, KeepsAll, HandlerGoes
  DEF TypeOK, StoreOK, AgentsOK, HandleTurnError, Steps, database, flue, counters
<1>13. QED
  BY <1>1, <1>2, <1>3, <1>4, <1>5, <1>6, <1>7, <1>8, <1>9, <1>10, <1>11, <1>12


\* Handlers that write the waiter of their instance or their own record.
LEMMA WaiterStepsType ==
  ASSUME TypeOK, NEW h \in Handlers,
         \/ Resume(h) \/ Reread(h) \/ Recheck(h) \/ Dispatch(h)
         \/ Stopped(h) \/ Abandon(h) \/ FailTask(h)
         \/ SettleFailed(h) \/ StepThrows(h)
  PROVE  TypeOK'
<1> DEFINE Writes ==
      /\ waiter' \in [Tasks -> Waiter]
      /\ run' \in [Handlers -> RunRecord]
      /\ \A g \in Handlers : run'[g].job = run[g].job /\ run'[g].turn = run[g].turn
<1>0. run[h] \in RunRecord
  BY DEF TypeOK, HandlersOK
<1>1. ASSUME pc[h] # "idle", BecomeResumed(h)
      PROVE  Writes
  <2>1. waiter' \in [Tasks -> Waiter]
    BY <1>1, BusyHandler, WaiterTypes DEF TypeOK, AgentsOK, BecomeResumed
  <2>2. run' = [run EXCEPT ![h] = [run[h] EXCEPT !.resumed = TRUE]]
    BY <1>1 DEF BecomeResumed
  <2>3. QED
    BY <1>0, <2>1, <2>2, RunTypes, RunUpdate DEF TypeOK
<1>2. ASSUME pc[h] # "idle", NEW clear \in BOOLEAN,
             waiter' = IF clear THEN [waiter EXCEPT ![K(h)] = ClearTurnWaiter(@)]
                       ELSE waiter
      PROVE  waiter' \in [Tasks -> Waiter]
  BY <1>2, BusyHandler, WaiterTypes DEF TypeOK, AgentsOK
<1>3. ASSUME pc[h] # "idle", Writes, NEW step \in Steps, Goto(h, step), UNCHANGED jobs
      PROVE  HandlersOK'
  <2>1. pc' \in [Handlers -> Steps \cup {"idle"}]
    BY <1>3 DEF TypeOK, HandlersOK, Goto
  <2>2. \A g \in Handlers : pc'[g] # "idle" => pc[g] # "idle"
    BY <1>3 DEF TypeOK, HandlersOK, Goto
  <2>3. QED
    BY <1>3, <2>1, <2>2, HandlersMove, KeepsAll DEF TypeOK
<1>4. CASE Resume(h)
  <2>1. turns' \in [Turns -> Row]
    BY <1>4, BusyHandler, RowTypes DEF TypeOK, StoreOK, Resume
  <2>2. Writes
    BY <1>1, <1>4 DEF Resume, TypeOK, HandlersOK, AgentsOK
  <2>3. HandlersOK'
    BY <1>3, <1>4, <2>2 DEF Resume, BecomeResumed, Steps
  <2>4. QED
    BY <1>4, <2>1, <2>2, <2>3 DEF TypeOK, StoreOK, AgentsOK, Resume, flue, counters
<1>5. CASE Reread(h)
  <2>1. Writes
    BY <1>1, <1>5 DEF Reread, TypeOK, HandlersOK, AgentsOK
  <2>2. HandlersOK'
    BY <1>3, <1>5, <2>1 DEF Reread, BecomeResumed, Steps, database
  <2>3. QED
    BY <1>5, <2>1, <2>2
    DEF TypeOK, StoreOK, AgentsOK, Reread, database, flue, counters
<1>6. CASE Recheck(h)
  <2>1. Writes
    <3>1. waiter' \in [Tasks -> Waiter]
      <4>1. \/ waiter' = waiter
            \/ waiter' = [waiter EXCEPT ![K(h)] = WaitForTurnOutcome(@, h)]
            \/ waiter' = [waiter EXCEPT ![K(h)] = ClearTurnWaiter(@)]
        BY <1>6 DEF Recheck
      <4>2. pc[h] # "idle"
        BY <1>6 DEF Recheck
      <4>3. /\ WaitForTurnOutcome(waiter[K(h)], h) \in Waiter
            /\ ClearTurnWaiter(waiter[K(h)]) \in Waiter
        BY <4>2, BusyHandler, WaiterTypes
      <4>4. QED
        BY <4>1, <4>3 DEF TypeOK, AgentsOK
    <3>2. \/ run' = run
          \/ run' = [run EXCEPT ![h] = [run[h] EXCEPT !.outcome = "none"]]
      BY <1>6 DEF Recheck
    <3>3. QED
      BY <1>0, <3>1, <3>2, RunTypes, RunUpdate DEF TypeOK, HandlersOK
  <2>2. HandlersOK'
    BY <1>3, <1>6, <2>1 DEF Recheck, Steps, database
  <2>3. QED
    BY <1>6, <2>1, <2>2
    DEF TypeOK, StoreOK, AgentsOK, Recheck, database, flue, counters
<1>7. CASE Dispatch(h)
  <2>1. Writes
    <3>1. run' = [run EXCEPT ![h] = [run[h] EXCEPT !.dispatched = TRUE]]
      BY <1>7 DEF Dispatch
    <3>2. QED
      BY <1>0, <1>7, <3>1, RunTypes, RunUpdate DEF Dispatch, TypeOK, AgentsOK
  <2>2. HandlersOK'
    BY <1>3, <1>7, <2>1 DEF Dispatch, Steps, database
  <2>3. submissions' \in [Tasks -> Seq(Submission)]
    <3>1. [turn |-> T(h), erred |-> FALSE] \in Submission
      BY <1>7, BusyHandler DEF Dispatch, Submission
    <3>2. QED
      BY <1>7, <3>1, BusyHandler DEF Dispatch, TypeOK, AgentsOK
  <2>4. QED
    BY <1>7, <2>1, <2>2, <2>3
    DEF TypeOK, StoreOK, AgentsOK, Dispatch, database, counters
<1>8. CASE Stopped(h)
  <2>1. turns' \in [Turns -> Row]
    BY <1>8, BusyHandler, RowTypes DEF TypeOK, StoreOK, Stopped
  <2>2. waiter' \in [Tasks -> Waiter]
    BY <1>2, <1>8 DEF Stopped
  <2>3. QED
    BY <1>8, <2>1, <2>2, HandlerGoes, KeepsAll
    DEF TypeOK, StoreOK, AgentsOK, Stopped, Steps, flue, counters
<1>9. CASE Abandon(h)
  <2>1. turns' \in [Turns -> Row]
    BY <1>9, BusyHandler, RowTypes DEF TypeOK, StoreOK, Abandon
  <2>2. waiter' \in [Tasks -> Waiter]
    BY <1>2, <1>9 DEF Abandon
  <2>3. QED
    BY <1>9, <2>1, <2>2, HandlerGoes, KeepsAll
    DEF TypeOK, StoreOK, AgentsOK, Abandon, Steps, flue, counters
<1>10. CASE FailTask(h)
  <2>1. task' \in [Tasks -> TaskStatus]
    BY <1>10, BusyHandler, TransitionType DEF TypeOK, FailTask, TaskStatus
  <2>2. waiter' \in [Tasks -> Waiter]
    BY <1>2, <1>10 DEF FailTask
  <2>3. QED
    BY <1>10, <2>1, <2>2, HandlerGoes, KeepsAll
    DEF TypeOK, StoreOK, AgentsOK, FailTask, Steps, flue, counters
<1>11. CASE SettleFailed(h)
  <2>1. waiter' \in [Tasks -> Waiter]
    BY <1>2, <1>11 DEF SettleFailed, CatchError, TypeOK, HandlersOK
  <2>2. QED
    BY <1>11, <2>1, HandlerGoes, KeepsAll
    DEF TypeOK, StoreOK, AgentsOK, SettleFailed, CatchError, Steps, database, flue,
        counters
<1>12. CASE StepThrows(h)
  <2>1. waiter' \in [Tasks -> Waiter]
    BY <1>2, <1>12 DEF StepThrows, CatchError, TypeOK, HandlersOK
  <2>2. QED
    BY <1>12, <2>1, HandlerGoes, KeepsAll
    DEF TypeOK, StoreOK, AgentsOK, StepThrows, CatchError, Steps, database, flue,
        counters
<1>13. QED
  BY <1>4, <1>5, <1>6, <1>7, <1>8, <1>9, <1>10, <1>11, <1>12

\* A handler takes a job and, in the end, gives it back.
LEMMA JobStepsType ==
  ASSUME TypeOK, NEW h \in Handlers,
         (\E j \in DOMAIN jobs : DeliverJob(h, j)) \/ Return(h) \/ Rethrow(h)
  PROVE  TypeOK'
<1>1. CASE \E j \in DOMAIN jobs : DeliverJob(h, j)
  <2>1. PICK j \in DOMAIN jobs : DeliverJob(h, j)
    BY <1>1
  <2>2. Keeps(jobs, jobs') /\ jobs'[j].retries \in Nat
    BY <2>1, DeliverKeeps DEF TypeOK, DeliverJob
  <2>3. jobs[j] \in Job
    BY DEF TypeOK
  <2>4. jobs[j].turn \in Turns
    BY <2>3 DEF Job
  <2>5. j \in Nat
    BY DEF TypeOK
  <2> DEFINE started == [NoRun EXCEPT !.job = j, !.turn = jobs[j].turn,
                           !.tries = jobs'[j].retries]
  <2>6. started \in RunRecord /\ started.job = j /\ started.turn = jobs[j].turn
    BY <2>2, <2>4, <2>5 DEF RunRecord, NoRun
  <2> HIDE DEF started
  <2>7. run' = [run EXCEPT ![h] = started]
    BY <2>1 DEF DeliverJob, started
  <2>8. HandlersOK'
    <3>1. pc' \in [Handlers -> Steps \cup {"idle"}]
      BY <2>1 DEF TypeOK, HandlersOK, DeliverJob, Goto, Steps
    <3>2. run' \in [Handlers -> RunRecord]
      BY <2>6, <2>7 DEF TypeOK, HandlersOK
    <3>3. run'[h].job \in DOMAIN jobs' /\ run'[h].turn = jobs'[run'[h].job].turn
      BY <2>2, <2>6, <2>7 DEF TypeOK, HandlersOK, Keeps
    <3>4. \A g \in Handlers : g # h => pc'[g] = pc[g] /\ run'[g] = run[g]
      BY <2>1, <2>7 DEF TypeOK, HandlersOK, DeliverJob, Goto
    <3>5. QED
      BY <2>2, <3>1, <3>2, <3>3, <3>4 DEF TypeOK, HandlersOK, Keeps
  <2>9. QED
    BY <2>1, <2>2, <2>8
    DEF TypeOK, StoreOK, AgentsOK, DeliverJob, Keeps, flue, counters
<1>2. ASSUME Leave(h), pc[h] # "idle", Keeps(jobs, jobs')
      PROVE  TypeOK'
  <2>1. pc' \in [Handlers -> Steps \cup {"idle"}] /\ pc'[h] = "idle"
    BY <1>2 DEF TypeOK, HandlersOK, Leave
  <2>2. NoRun \in RunRecord
    BY DEF NoRun, RunRecord
  <2>3. run' \in [Handlers -> RunRecord]
    BY <1>2, <2>2 DEF TypeOK, HandlersOK, Leave
  <2>4. \A g \in Handlers : g # h => pc'[g] = pc[g] /\ run'[g] = run[g]
    BY <1>2 DEF TypeOK, HandlersOK, Leave
  <2>5. HandlersOK'
    BY <1>2, <2>1, <2>3, <2>4, HandlersMove DEF TypeOK
  <2>6. waiter' \in [Tasks -> Waiter]
    BY <1>2, BusyHandler, WaiterTypes DEF TypeOK, AgentsOK, Leave
  <2>7. QED
    BY <1>2, <2>5, <2>6 DEF TypeOK, StoreOK, AgentsOK, Leave, Keeps, flue, counters
<1>3. CASE Return(h)
  BY <1>2, <1>3, BusyHandler, CompleteKeeps DEF TypeOK, Return
<1>4. CASE Rethrow(h)
  BY <1>2, <1>4, BusyHandler, FailKeeps DEF TypeOK, Rethrow
<1>5. QED
  BY <1>1, <1>3, <1>4


--------------------------------------------------------------------------------
\* The steps of the intake, the agents, the controls and the queue.

\* Steps that leave the handlers and the jobs alone.
LEMMA HandlersStay ==
  ASSUME TypeOK, UNCHANGED <<pc, run, jobs>>
  PROVE  HandlersOK'
BY DEF TypeOK, HandlersOK

LEMMA IntakeType ==
  ASSUME TypeOK, NEW u \in Turns, ReceiveMessage(u) \/ IntakeTurn(u)
  PROVE  TypeOK'
<1>1. CASE ReceiveMessage(u)
  BY <1>1, HandlersStay
  DEF TypeOK, StoreOK, AgentsOK, ReceiveMessage, database, handlers, flue, counters
<1>2. CASE IntakeTurn(u)
  <2>1. Keeps(jobs, jobs')
    BY <1>2, SendKeeps DEF TypeOK, IntakeTurn
  <2>2. HandlersOK'
    BY <1>2, <2>1, HandlersMove DEF TypeOK, HandlersOK, IntakeTurn, handlers
  <2>3. turns' \in [Turns -> Row]
    BY <1>2, RowTypes DEF TypeOK, StoreOK, IntakeTurn
  <2>4. QED
    BY <1>2, <2>1, <2>2, <2>3
    DEF TypeOK, StoreOK, AgentsOK, IntakeTurn, Keeps, flue, counters
<1>3. QED
  BY <1>1, <1>2

LEMMA ResolveType ==
  ASSUME TypeOK, NEW t \in Tasks, NEW kind \in TurnOutcome, ResolveTurnOutcome(t, kind),
         UNCHANGED <<pc, jobs>>
  PROVE  waiter' \in [Tasks -> Waiter] /\ HandlersOK'
<1> DEFINE after(g) == [run[g] EXCEPT !.outcome = ResolvedFor(waiter[t], g, kind, @)]
<1>1. waiter' \in [Tasks -> Waiter]
  BY WaiterTypes DEF TypeOK, AgentsOK, ResolveTurnOutcome, ResolvedEntry, Waiter, NoWaiter
<1>2. ASSUME NEW g \in Handlers
      PROVE  /\ after(g) \in RunRecord
             /\ after(g).job = run[g].job /\ after(g).turn = run[g].turn
  <2>1. run[g] \in RunRecord
    BY DEF TypeOK, HandlersOK
  <2>2. ResolvedFor(waiter[t], g, kind, run[g].outcome) \in TurnOutcome \cup {"none"}
    BY <2>1 DEF ResolvedFor, RunRecord
  <2>3. QED
    BY <2>1, <2>2 DEF RunRecord
<1>3. run' = [g \in Handlers |-> after(g)]
  BY DEF ResolveTurnOutcome
<1> HIDE DEF after
<1>4. QED
  BY <1>1, <1>2, <1>3, HandlersMove, KeepsAll DEF TypeOK, HandlersOK

\* What an agent reports is an event about the turn it runs.
LEMMA ReportType ==
  ASSUME TypeOK, NEW t \in Tasks, NEW kind \in {"completed", "failed"},
         submissions[t] # <<>>, Report(t, kind)
  PROVE  events' \in [Tasks -> Seq(Event)]
<1>1. Head(submissions[t]) \in Submission
  BY DEF TypeOK, AgentsOK
<1>2. [kind |-> kind, turn |-> Head(submissions[t]).turn] \in Event
  BY <1>1 DEF Submission, Event
<1>3. QED
  BY <1>2 DEF TypeOK, AgentsOK, Report

LEMMA AgentType ==
  ASSUME TypeOK, NEW t \in Tasks, AgentEnds(t) \/ AgentErrs(t) \/ HandleEvent(t)
  PROVE  TypeOK'
<1>1. CASE AgentEnds(t)
  <2>1. events' \in [Tasks -> Seq(Event)]
    BY <1>1, ReportType DEF AgentEnds, TypeOK, AgentsOK
  <2>2. submissions' \in [Tasks -> Seq(Submission)]
    BY <1>1 DEF AgentEnds, TypeOK, AgentsOK
  <2>3. QED
    BY <1>1, <2>1, <2>2, HandlersStay
    DEF TypeOK, StoreOK, AgentsOK, AgentEnds, database, handlers, counters
<1>2. CASE AgentErrs(t)
  <2>1. events' \in [Tasks -> Seq(Event)]
    BY <1>2, ReportType DEF AgentErrs
  <2> DEFINE erred == [Head(submissions[t]) EXCEPT !.erred = TRUE]
  <2>2. Head(submissions[t]) \in Submission /\ Tail(submissions[t]) \in Seq(Submission)
    BY <1>2 DEF AgentErrs, TypeOK, AgentsOK
  <2>3. erred \in Submission
    BY <2>2 DEF Submission
  <2>4. submissions' = [submissions EXCEPT ![t] = <<erred>> \o Tail(submissions[t])]
    BY <1>2 DEF AgentErrs
  <2> HIDE DEF erred
  <2>5. submissions' \in [Tasks -> Seq(Submission)]
    BY <2>2, <2>3, <2>4 DEF TypeOK, AgentsOK
  <2>6. QED
    BY <1>2, <2>1, <2>5, HandlersStay
    DEF TypeOK, StoreOK, AgentsOK, AgentErrs, database, handlers, counters
<1>3. CASE HandleEvent(t)
  <2>1. Head(events[t]) \in Event /\ Tail(events[t]) \in Seq(Event)
    BY <1>3 DEF HandleEvent, TypeOK, AgentsOK
  <2>2. Head(events[t]).kind \in TurnOutcome
    BY <2>1 DEF Event, TurnOutcome
  <2>3. waiter' \in [Tasks -> Waiter] /\ HandlersOK'
    BY <1>3, <2>2, ResolveType DEF HandleEvent, database
  <2>4. events' \in [Tasks -> Seq(Event)]
    BY <1>3, <2>1 DEF HandleEvent, TypeOK, AgentsOK
  <2>5. QED
    BY <1>3, <2>3, <2>4
    DEF TypeOK, StoreOK, AgentsOK, HandleEvent, database, counters
<1>4. QED
  BY <1>1, <1>2, <1>3


\* The record of the control of one task.
LEMMA ControlUpdate ==
  ASSUME control \in [Tasks -> Control], NEW t \in Tasks, NEW c \in Control,
         control' = [control EXCEPT ![t] = c]
  PROVE  control' \in [Tasks -> Control]
OBVIOUS

LEMMA ControlTypes ==
  ASSUME NEW c \in Control
  PROVE  /\ NoControl \in Control
         /\ \A step \in {"idle", "list", "gate", "jobs", "abort", "resolve"} :
              [c EXCEPT !.pc = step] \in Control
         /\ \A gate \in SUBSET Turns : [c EXCEPT !.gate = gate] \in Control
         /\ \A gate \in SUBSET Turns : [c EXCEPT !.pc = "gate", !.gate = gate] \in Control
<1>1. NoControl \in Control
  BY DEF NoControl, Control
<1>2. \A step \in {"idle", "list", "gate", "jobs", "abort", "resolve"} :
        [c EXCEPT !.pc = step] \in Control
  BY DEF Control
<1>3. \A gate \in SUBSET Turns : [c EXCEPT !.gate = gate] \in Control
  BY DEF Control
<1>4. \A gate \in SUBSET Turns : [c EXCEPT !.pc = "gate", !.gate = gate] \in Control
  BY DEF Control
<1>5. QED
  BY <1>1, <1>2, <1>3, <1>4

LEMMA ControlType ==
  ASSUME TypeOK, NEW t \in Tasks, StopTask(t) \/ DoneTask(t) \/ ControlStep(t)
  PROVE  TypeOK'
<1>0. control[t] \in Control
  BY DEF TypeOK
<1>1. CASE StopTask(t)
  <2>1. PICK command \in Commands \ {"done"} :
          control' = [control EXCEPT ![t] =
            [NoControl EXCEPT !.pc = "list", !.abort = (command = "abort")]]
    BY <1>1 DEF StopTask
  <2>2. [NoControl EXCEPT !.pc = "list", !.abort = (command = "abort")] \in Control
    BY DEF NoControl, Control
  <2>3. control' \in [Tasks -> Control]
    BY <2>1, <2>2, ControlUpdate DEF TypeOK
  <2>4. QED
    BY <1>1, <2>3, HandlersStay
    DEF TypeOK, StoreOK, AgentsOK, StopTask, TaskStatus, handlers, flue, counters
<1>2. CASE DoneTask(t)
  <2>1. control' \in [Tasks -> Control]
    BY <1>0, <1>2, ControlTypes, ControlUpdate DEF DoneTask, TypeOK
  <2>2. QED
    BY <1>2, <2>1, HandlersStay
    DEF TypeOK, StoreOK, AgentsOK, DoneTask, TaskStatus, handlers, flue, counters
<1>3. CASE ListRunning(t)
  <2>1. control' = [control EXCEPT ![t] = [control[t] EXCEPT !.pc = "gate",
                      !.gate = {u \in TurnsOf(t) : turns[u].status = "running"}]]
    BY <1>3 DEF ListRunning
  <2>2. {u \in TurnsOf(t) : turns[u].status = "running"} \in SUBSET Turns
    BY DEF TurnsOf
  <2>3. control' \in [Tasks -> Control]
    BY <1>0, <2>1, <2>2, ControlTypes, ControlUpdate DEF TypeOK
  <2>4. QED
    BY <1>3, <2>3, HandlersStay
    DEF TypeOK, StoreOK, AgentsOK, ListRunning, database, handlers, flue, counters
<1>4. CASE GateTurn(t)
  <2>1. PICK u \in control[t].gate :
          /\ turns' = [turns EXCEPT ![u] = RequestCancel(@)]
          /\ control' = [control EXCEPT ![t].gate = @ \ {u}]
    BY <1>4 DEF GateTurn
  <2>2. control[t].gate \in SUBSET Turns
    BY <1>0 DEF Control
  <2>3. control' \in [Tasks -> Control]
    BY <1>0, <2>1, <2>2, ControlTypes, ControlUpdate DEF TypeOK
  <2>4. turns' \in [Turns -> Row]
    BY <2>1, <2>2, RowTypes DEF TypeOK, StoreOK
  <2>5. QED
    BY <1>4, <2>3, <2>4, HandlersStay
    DEF TypeOK, StoreOK, AgentsOK, GateTurn, handlers, flue, counters
<1>5. CASE CancelPendingTurns(t)
  <2>1. control' \in [Tasks -> Control]
    BY <1>0, <1>5, ControlTypes, ControlUpdate DEF CancelPendingTurns, TypeOK
  <2>2. turns' \in [Turns -> Row]
    BY <1>5, RowTypes DEF CancelPendingTurns, TypeOK, StoreOK
  <2>3. QED
    BY <1>5, <2>1, <2>2, HandlersStay
    DEF TypeOK, StoreOK, AgentsOK, CancelPendingTurns, handlers, flue, counters
<1>6. CASE CancelJobs(t)
  <2>1. control' \in [Tasks -> Control]
    BY <1>0, <1>6, ControlTypes, ControlUpdate DEF CancelJobs, TypeOK
  <2>2. Keeps(jobs, jobs')
    BY <1>6, ReleaseKeeps DEF CancelJobs, TypeOK
  <2>3. HandlersOK'
    BY <1>6, <2>2, HandlersMove DEF CancelJobs, TypeOK, HandlersOK, handlers
  <2>4. QED
    BY <1>6, <2>1, <2>2, <2>3
    DEF TypeOK, StoreOK, AgentsOK, CancelJobs, Keeps, flue, counters
<1>7. CASE AbortAgentWork(t)
  <2>1. control' \in [Tasks -> Control]
    BY <1>0, <1>7, ControlTypes, ControlUpdate DEF AbortAgentWork, TypeOK
  <2>2. events' \in [Tasks -> Seq(Event)]
    BY <1>7, ReportType DEF AbortAgentWork, TypeOK, AgentsOK
  <2>3. submissions' \in [Tasks -> Seq(Submission)]
    BY <1>7 DEF AbortAgentWork, TypeOK, AgentsOK
  <2>4. QED
    BY <1>7, <2>1, <2>2, <2>3, HandlersStay
    DEF TypeOK, StoreOK, AgentsOK, AbortAgentWork, database, handlers, counters
<1>8. CASE ResolveCancelled(t)
  <2>1. control' \in [Tasks -> Control]
    BY <1>0, <1>8, ControlTypes, ControlUpdate DEF ResolveCancelled, TypeOK
  <2>2. "cancelled" \in TurnOutcome
    BY DEF TurnOutcome
  <2>3. waiter' \in [Tasks -> Waiter] /\ HandlersOK'
    BY <1>8, <2>2, ResolveType DEF ResolveCancelled, database
  <2>4. QED
    BY <1>8, <2>1, <2>3
    DEF TypeOK, StoreOK, AgentsOK, ResolveCancelled, database, flue, counters
<1>9. QED
  BY <1>1, <1>2, <1>3, <1>4, <1>5, <1>6, <1>7, <1>8 DEF ControlStep


--------------------------------------------------------------------------------
\* Timeouts, the crash and the recovery.

LEMMA TimeoutType ==
  ASSUME TypeOK, NEW j \in DOMAIN jobs, JobTimesOut(j)
  PROVE  TypeOK'
<1>1. Keeps(jobs, jobs')
  BY FailKeeps DEF TypeOK, JobTimesOut
<1>2. HandlersOK'
  BY <1>1, HandlersMove DEF JobTimesOut, TypeOK, HandlersOK, handlers
<1>3. timeouts' \in 0..MaxTimeouts
  BY BoundsAssumption DEF JobTimesOut, TypeOK
<1>4. QED
  BY <1>1, <1>2, <1>3 DEF TypeOK, StoreOK, AgentsOK, JobTimesOut, Keeps, flue

LEMMA CrashType ==
  ASSUME TypeOK, CrashAndRestart
  PROVE  TypeOK'
<1>1. NoRun \in RunRecord
  BY DEF NoRun, RunRecord
<1>2. HandlersOK'
  BY <1>1 DEF CrashAndRestart, HandlersOK
<1>3. NoWaiter \in Waiter
  BY DEF NoWaiter, Waiter
<1>4. AgentsOK'
  BY <1>3 DEF CrashAndRestart, AgentsOK
<1>5. NoControl \in Control
  BY DEF NoControl, Control
<1>6. boot' \in Boot
  BY DEF CrashAndRestart, Boot, RunningTurns
<1>7. crashes' \in 0..MaxCrashes
  BY BoundsAssumption DEF CrashAndRestart, TypeOK
<1>8. QED
  BY <1>2, <1>4, <1>5, <1>6, <1>7 DEF TypeOK, StoreOK, CrashAndRestart, database

\* The steps of the recovery write one of the three tables and its own record.
LEMMA RecoveryStep ==
  ASSUME TypeOK, boot' \in Boot,
         task' \in [Tasks -> TaskStatus], turns' \in [Turns -> Row], Keeps(jobs, jobs'),
         UNCHANGED <<handlers, waiter, flue, received, control, counters>>
  PROVE  TypeOK'
<1>1. HandlersOK'
  BY HandlersMove DEF TypeOK, HandlersOK, handlers
<1>2. QED
  BY <1>1 DEF TypeOK, StoreOK, AgentsOK, Keeps, flue, counters

BootPcs == {"done", "release", "requeue", "task", "send", "queued", "find", "orphans"}

LEMMA BootTypes ==
  ASSUME NEW b \in Boot, NEW step \in BootPcs, NEW todo \in SUBSET Turns,
         NEW orphans \in SUBSET Turns
  PROVE  /\ [b EXCEPT !.pc = step] \in Boot
         /\ [b EXCEPT !.pc = step, !.todo = todo] \in Boot
         /\ [b EXCEPT !.todo = todo, !.pc = step] \in Boot
         /\ [b EXCEPT !.pc = step, !.todo = todo, !.orphans = orphans] \in Boot
         /\ [b EXCEPT !.orphans = orphans] \in Boot
<1>1. [b EXCEPT !.pc = step] \in Boot
  BY DEF Boot, BootPcs
<1>2. [b EXCEPT !.pc = step, !.todo = todo] \in Boot
  BY DEF Boot, BootPcs
<1>3. [b EXCEPT !.todo = todo, !.pc = step] \in Boot
  BY DEF Boot, BootPcs
<1>4. [b EXCEPT !.pc = step, !.todo = todo, !.orphans = orphans] \in Boot
  BY DEF Boot, BootPcs
<1>5. [b EXCEPT !.orphans = orphans] \in Boot
  BY DEF Boot, BootPcs
<1>6. QED
  BY <1>1, <1>2, <1>3, <1>4, <1>5

LEMMA BootType ==
  ASSUME TypeOK, BootStep
  PROVE  TypeOK'
<1>0. boot \in Boot /\ boot.todo \in SUBSET Turns /\ boot.orphans \in SUBSET Turns
  BY DEF TypeOK, Boot
<1>1. CASE BootRelease
  <2>1. boot' \in Boot
    BY <1>0, <1>1, BootTypes DEF BootRelease, BootPcs
  <2>2. Keeps(jobs, jobs')
    BY <1>1, ReleaseKeeps DEF BootRelease, TypeOK
  <2>3. QED
    BY <1>1, <2>1, <2>2, RecoveryStep DEF BootRelease, TypeOK, StoreOK
<1>2. CASE BootRequeue
  <2>1. boot' \in Boot
    BY <1>0, <1>2, BootTypes DEF BootRequeue, BootPcs
  <2>2. turns' \in [Turns -> Row]
    BY <1>0, <1>2, RowTypes DEF BootRequeue, TypeOK, StoreOK
  <2>3. QED
    BY <1>2, <2>1, <2>2, KeepsAll, RecoveryStep DEF BootRequeue, TypeOK, StoreOK
<1>3. CASE BootTask
  <2>1. boot' \in Boot
    BY <1>0, <1>3, BootTypes DEF BootTask, BootPcs
  <2>2. \A u \in boot.todo : TaskOf[u] \in Tasks
    BY <1>0, TaskOfAssumption
  <2>3. task' \in [Tasks -> TaskStatus]
    BY <1>3, <2>2, TransitionType DEF BootTask, TypeOK, TaskStatus
  <2>4. QED
    BY <1>3, <2>1, <2>3, KeepsAll, RecoveryStep DEF BootTask, TypeOK, StoreOK
<1>4. CASE BootSend
  <2>1. PICK u \in boot.todo :
          /\ jobs' = Send(jobs, u)
          /\ boot' = [boot EXCEPT !.todo = @ \ {u},
                        !.pc = IF boot.todo = {u} THEN "queued" ELSE "release"]
    BY <1>4 DEF BootSend
  <2>2. boot' \in Boot
    <3>1. (IF boot.todo = {u} THEN "queued" ELSE "release") \in BootPcs
      BY DEF BootPcs
    <3>2. boot.todo \ {u} \in SUBSET Turns
      BY <1>0
    <3>3. QED
      BY <1>0, <2>1, <3>1, <3>2, BootTypes
  <2>3. Keeps(jobs, jobs')
    BY <1>0, <2>1, SendKeeps DEF TypeOK
  <2>4. QED
    BY <1>4, <2>2, <2>3, RecoveryStep DEF BootSend, TypeOK, StoreOK
<1>5. CASE BootListQueued
  <2>1. boot' \in Boot
    <3>1. {u \in Turns : turns[u].status = "queued"} \in SUBSET Turns
      OBVIOUS
    <3>2. QED
      BY <1>0, <1>5, <3>1, BootTypes DEF BootListQueued, BootPcs
  <2>2. QED
    BY <1>5, <2>1, KeepsAll, RecoveryStep DEF BootListQueued, TypeOK, StoreOK, database
<1>6. CASE BootFindJobs
  <2>1. boot' \in Boot
    <3>1. CASE boot.todo = {}
      BY <1>0, <1>6, <3>1, BootTypes DEF BootFindJobs, BootPcs
    <3>2. CASE boot.todo # {}
      <4>0. PICK u \in boot.todo : \E represented :
              boot' = [boot EXCEPT !.pc = "orphans", !.todo = @ \ TurnsOf(TaskOf[u]),
                !.orphans = (boot.todo \cap TurnsOf(TaskOf[u])) \ represented]
        BY <1>6, <3>2 DEF BootFindJobs
      <4>1. PICK represented :
              boot' = [boot EXCEPT !.pc = "orphans", !.todo = @ \ TurnsOf(TaskOf[u]),
                !.orphans = (boot.todo \cap TurnsOf(TaskOf[u])) \ represented]
        BY <4>0
      <4>2. /\ boot.todo \ TurnsOf(TaskOf[u]) \in SUBSET Turns
            /\ (boot.todo \cap TurnsOf(TaskOf[u])) \ represented \in SUBSET Turns
        BY <1>0
      <4>3. "orphans" \in BootPcs
        BY DEF BootPcs
      <4>4. QED
        BY <1>0, <4>1, <4>2, <4>3, BootTypes
    <3>3. QED
      BY <3>1, <3>2
  <2>2. QED
    BY <1>6, <2>1, KeepsAll, RecoveryStep DEF BootFindJobs, TypeOK, StoreOK, database
<1>7. CASE BootSendOrphan
  <2>1. boot' \in Boot /\ Keeps(jobs, jobs')
    <3>1. CASE boot.orphans = {}
      BY <1>0, <1>7, <3>1, BootTypes, KeepsAll DEF BootSendOrphan, BootPcs, TypeOK
    <3>2. CASE boot.orphans # {}
      <4>1. PICK u \in boot.orphans :
              jobs' = Send(jobs, u) /\ boot' = [boot EXCEPT !.orphans = @ \ {u}]
        BY <1>7, <3>2 DEF BootSendOrphan
      <4>2. boot.orphans \ {u} \in SUBSET Turns /\ u \in Turns
        BY <1>0
      <4>3. boot.pc \in BootPcs
        BY <1>0 DEF Boot, BootPcs
      <4>4. QED
        BY <1>0, <4>1, <4>2, <4>3, BootTypes, SendKeeps DEF TypeOK
    <3>3. QED
      BY <3>1, <3>2
  <2>2. QED
    BY <1>7, <2>1, RecoveryStep DEF BootSendOrphan, TypeOK, StoreOK
<1>8. QED
  BY <1>1, <1>2, <1>3, <1>4, <1>5, <1>6, <1>7 DEF BootStep

--------------------------------------------------------------------------------
\* Type correctness: every variable keeps its type, and a busy handler has a
\* job and executes that job's turn, whatever interleaves with it.

LEMMA InitType ==
  Init => TypeOK
<1>1. NoRow \in Row
  BY DEF NoRow, Row
<1>2. NoRun \in RunRecord
  BY DEF NoRun, RunRecord
<1>3. NoWaiter \in Waiter
  BY DEF NoWaiter, Waiter
<1>4. NoControl \in Control
  BY DEF NoControl, Control
<1>5. NoBoot \in Boot
  BY DEF NoBoot, Boot
<1>6. QED
  BY <1>1, <1>2, <1>3, <1>4, <1>5, BoundsAssumption
  DEF Init, TypeOK, StoreOK, HandlersOK, AgentsOK, TaskStatus

LEMMA NextType ==
  TypeOK /\ [Next]_vars => TypeOK'
<1> SUFFICES ASSUME TypeOK, [Next]_vars
             PROVE  TypeOK'
  OBVIOUS
<1>1. CASE \E u \in Turns : ReceiveMessage(u) \/ IntakeTurn(u)
  BY <1>1, IntakeType
<1>2. ASSUME NEW h \in Handlers, HandlerStep(h) \/ StepThrows(h)
      PROVE  TypeOK'
  BY <1>2, StoreStepsType, WaiterStepsType, JobStepsType DEF HandlerStep
<1>3. CASE \E h \in Handlers, j \in DOMAIN jobs : DeliverJob(h, j)
  BY <1>3, JobStepsType
<1>4. CASE \E t \in Tasks : AgentEnds(t) \/ AgentErrs(t) \/ HandleEvent(t)
  BY <1>4, AgentType
<1>5. CASE \E t \in Tasks : StopTask(t) \/ DoneTask(t) \/ ControlStep(t)
  BY <1>5, ControlType
<1>6. CASE \E j \in DOMAIN jobs : JobTimesOut(j)
  BY <1>6, TimeoutType
<1>7. CASE CrashAndRestart
  BY <1>7, CrashType
<1>8. CASE BootStep
  BY <1>8, BootType
<1>9. CASE UNCHANGED vars
  BY <1>9 DEF vars, TypeOK, StoreOK, HandlersOK, AgentsOK
<1>10. QED
  BY <1>1, <1>2, <1>3, <1>4, <1>5, <1>6, <1>7, <1>8, <1>9 DEF Next

\* For every instance, not only the ones the runs check.
THEOREM TypeCorrect == Spec => []TypeOK
BY InitType, NextType, PTL DEF Spec


--------------------------------------------------------------------------------
\* What a step may do to the store.  Both results below follow from it: the
\* cancel gate, and the implementation of TaskLifecycle.

\* The row after is the row before, or one edge of the turn machine further.
FollowsEdges(row, after) ==
  \/ after = row
  \/ /\ after \in Row
     /\ after.cancelReq = row.cancelReq
     /\ <<row.status, after.status>> \in
          IF row.cancelReq THEN Lifecycle!GatedEdges ELSE Lifecycle!TurnEdges

MovesTask ==
  /\ \E t \in Tasks, edge \in Lifecycle!TaskEdges :
       task[t] = edge[1] /\ task' = [task EXCEPT ![t] = edge[2]]
  /\ UNCHANGED turns

MovesRow ==
  /\ \E u \in Turns, row \in Row :
       FollowsEdges(turns[u], row) /\ turns' = [turns EXCEPT ![u] = row]
  /\ UNCHANGED task

CancelsQueued ==
  /\ \E t \in Tasks :
       /\ control[t].pc = "gate"
       /\ turns' = [u \in Turns |->
            IF TaskOf[u] = t THEN CancelPending(turns[u]) ELSE turns[u]]
  /\ UNCHANGED task

GatesRow ==
  /\ \E t \in Tasks : \E u \in control[t].gate :
       turns' = [turns EXCEPT ![u] = RequestCancel(@)]
  /\ UNCHANGED task

StoreStep ==
  UNCHANGED <<task, turns>> \/ MovesTask \/ MovesRow \/ CancelsQueued \/ GatesRow

\* The strengthening: a control is only under way in a task that it ended, and
\* it gates only written turns of a task that it cancelled.
StopInv ==
  /\ \A t \in Tasks : control[t].pc # "idle" => task[t] \in TerminalTaskStatuses
  /\ \A t \in Tasks : control[t].pc = "list" => task[t] = "cancelled"
  /\ \A t \in Tasks : \A u \in control[t].gate :
       u \in TurnsOf(t) /\ task[t] = "cancelled" /\ turns[u].status # "none"
  /\ \A u \in Turns : turns[u].cancelReq => turns[u].status # "none"

LEMMA RowEdges ==
  ASSUME NEW row \in Row
  PROVE  /\ (row.cancelReq => row.status # "none") => FollowsEdges(row, InsertTurn(row))
         /\ FollowsEdges(row, ClaimQueuedTurn(row))
         /\ FollowsEdges(row, MarkTurnCompleted(row))
         /\ FollowsEdges(row, MarkTurnFailed(row))
         /\ FollowsEdges(row, MarkTurnRetrying(row))
         /\ FollowsEdges(row, MarkTurnCancelled(row))
         /\ FollowsEdges(row, CancelPending(row))
         /\ FollowsEdges(row, RequeueInterruptedTurn(row))
<1> USE RowTypes DEF FollowsEdges, Lifecycle!GatedEdges, Lifecycle!TurnEdges
<1>1. (row.cancelReq => row.status # "none") => FollowsEdges(row, InsertTurn(row))
  BY DEF InsertTurn, Row
<1>2. FollowsEdges(row, ClaimQueuedTurn(row))
  BY DEF ClaimQueuedTurn, Claimable, Row
<1>3. FollowsEdges(row, MarkTurnCompleted(row))
  BY DEF MarkTurnCompleted, Unstopped, Row
<1>4. FollowsEdges(row, MarkTurnFailed(row))
  BY DEF MarkTurnFailed, Unstopped, Row
<1>5. FollowsEdges(row, MarkTurnRetrying(row))
  BY DEF MarkTurnRetrying, Unstopped, Row
<1>6. FollowsEdges(row, MarkTurnCancelled(row))
  BY DEF MarkTurnCancelled, Row
<1>7. FollowsEdges(row, CancelPending(row))
  BY DEF CancelPending, Row
<1>8. FollowsEdges(row, RequeueInterruptedTurn(row))
  BY DEF RequeueInterruptedTurn, Row
<1>9. QED
  BY <1>1, <1>2, <1>3, <1>4, <1>5, <1>6, <1>7, <1>8


\* A guarded transition along edges of the task machine.
LEMMA TransitionStep ==
  ASSUME TypeOK, NEW t \in Tasks, NEW from, NEW to,
         \A status \in from : <<status, to>> \in Lifecycle!TaskEdges,
         task' = Transition(t, from, to), UNCHANGED turns
  PROVE  StoreStep
<1>1. CASE task[t] \in from
  <2>1. task' = [task EXCEPT ![t] = to]
    BY <1>1 DEF Transition
  <2>2. <<task[t], to>>[1] = task[t] /\ <<task[t], to>>[2] = to
    OBVIOUS
  <2>3. MovesTask
    BY <1>1, <2>1, <2>2 DEF MovesTask
  <2>4. QED
    BY <2>3 DEF StoreStep
<1>2. CASE task[t] \notin from
  BY <1>2 DEF Transition, StoreStep
<1>3. QED
  BY <1>1, <1>2

LEMMA RowStep ==
  ASSUME TypeOK, NEW u \in Turns, NEW row \in Row, FollowsEdges(turns[u], row),
         turns' = [turns EXCEPT ![u] = row], UNCHANGED task
  PROVE  StoreStep
BY DEF MovesRow, StoreStep

LEMMA HandlerStoreStep ==
  ASSUME TypeOK, NEW h \in Handlers, HandlerStep(h) \/ StepThrows(h)
  PROVE  StoreStep
<1> DEFINE Rows == {ClaimQueuedTurn(turns[T(h)]), MarkTurnCompleted(turns[T(h)]),
                    MarkTurnFailed(turns[T(h)]), MarkTurnRetrying(turns[T(h)]),
                    MarkTurnCancelled(turns[T(h)])}
<1>1. ASSUME pc[h] # "idle", UNCHANGED task,
             \E row \in Rows : turns' = [turns EXCEPT ![T(h)] = row]
      PROVE  StoreStep
  <2>1. T(h) \in Turns /\ turns[T(h)] \in Row
    BY <1>1, BusyHandler
  <2>2. \A row \in Rows : row \in Row /\ FollowsEdges(turns[T(h)], row)
    BY <2>1, RowTypes, RowEdges
  <2>3. QED
    BY <1>1, <2>1, <2>2, RowStep
<1>2. CASE Claim(h) \/ Resume(h)
  BY <1>1, <1>2 DEF Claim, Resume
<1>3. CASE Discard(h) \/ Stopped(h) \/ Abandon(h)
  <2>1. pc[h] # "idle"
    BY <1>3 DEF Discard, Stopped, Abandon
  <2>2. QED
    BY <1>1, <1>3, <2>1 DEF Discard, Stopped, Abandon
<1>4. CASE SettleCompleted(h) \/ RetryTurn(h) \/ FailTurn(h)
  BY <1>1, <1>4 DEF SettleCompleted, RetryTurn, FailTurn
<1>5. CASE Begin(h)
  BY <1>5, BusyHandler, TransitionStep DEF Begin, Lifecycle!TaskEdges
<1>6. CASE ReleaseTask(h) \/ ToWaiting(h)
  BY <1>6, BusyHandler, TransitionStep DEF ReleaseTask, ToWaiting, Lifecycle!TaskEdges
<1>7. CASE RetryTask(h)
  BY <1>7, BusyHandler, TransitionStep DEF RetryTask, Lifecycle!TaskEdges
<1>8. CASE FailTask(h)
  BY <1>8, BusyHandler, TransitionStep DEF FailTask, Lifecycle!TaskEdges
<1>9. CASE \/ Reread(h) \/ Probe(h) \/ Checkpoint(h) \/ Recheck(h) \/ Dispatch(h)
           \/ SettleFailed(h) \/ HandleTurnError(h) \/ StepThrows(h)
  BY <1>9 DEF Reread, Probe, Checkpoint, Recheck, Dispatch, SettleFailed,
              HandleTurnError, StepThrows, database, StoreStep
<1>10. CASE Return(h) \/ Rethrow(h)
  BY <1>10 DEF Return, Rethrow, Leave, StoreStep
<1>11. QED
  BY <1>2, <1>3, <1>4, <1>5, <1>6, <1>7, <1>8, <1>9, <1>10 DEF HandlerStep

LEMMA ControlStoreStep ==
  ASSUME TypeOK, NEW t \in Tasks, StopTask(t) \/ DoneTask(t) \/ ControlStep(t)
  PROVE  StoreStep
<1>1. CASE StopTask(t)
  <2>1. task' = Transition(t, {"queued", "waiting", "running"}, "cancelled")
    BY <1>1 DEF StopTask, Transition
  <2>2. \A status \in {"queued", "waiting", "running"} :
          <<status, "cancelled">> \in Lifecycle!TaskEdges
    BY DEF Lifecycle!TaskEdges
  <2>3. UNCHANGED turns
    BY <1>1 DEF StopTask
  <2>4. QED
    BY <2>1, <2>2, <2>3, TransitionStep
<1>2. CASE DoneTask(t)
  <2>1. task' = Transition(t, {"waiting", "queued"}, "completed")
    BY <1>2 DEF DoneTask, Transition
  <2>2. QED
    BY <1>2, <2>1, TransitionStep DEF DoneTask, Lifecycle!TaskEdges
<1>3. CASE GateTurn(t)
  BY <1>3 DEF GateTurn, GatesRow, StoreStep
<1>4. CASE CancelPendingTurns(t)
  BY <1>4 DEF CancelPendingTurns, CancelsQueued, StoreStep
<1>5. CASE ListRunning(t) \/ CancelJobs(t) \/ AbortAgentWork(t) \/ ResolveCancelled(t)
  BY <1>5 DEF ListRunning, CancelJobs, AbortAgentWork, ResolveCancelled, database,
              StoreStep
<1>6. QED
  BY <1>1, <1>2, <1>3, <1>4, <1>5 DEF ControlStep

LEMMA BootStoreStep ==
  ASSUME TypeOK, BootStep
  PROVE  StoreStep
<1>1. boot.todo \subseteq Turns
  BY DEF TypeOK, Boot
<1>2. CASE BootRequeue
  <2>1. PICK u \in boot.todo :
          turns' = [turns EXCEPT ![u] = RequeueInterruptedTurn(turns[u])]
    BY <1>2 DEF BootRequeue
  <2>2. u \in Turns /\ turns[u] \in Row
    BY <1>1 DEF TypeOK, StoreOK
  <2>3. UNCHANGED task
    BY <1>2 DEF BootRequeue
  <2>4. QED
    BY <2>1, <2>2, <2>3, RowTypes, RowEdges, RowStep
<1>3. CASE BootTask
  <2>1. PICK u \in boot.todo : task' = Transition(TaskOf[u], {"running"}, "queued")
    BY <1>3 DEF BootTask
  <2>2. TaskOf[u] \in Tasks
    BY <1>1, TaskOfAssumption
  <2>3. UNCHANGED turns
    BY <1>3 DEF BootTask
  <2>4. QED
    BY <2>1, <2>2, <2>3, TransitionStep DEF Lifecycle!TaskEdges
<1>4. CASE \/ BootRelease \/ BootSend \/ BootListQueued \/ BootFindJobs
           \/ BootSendOrphan
  BY <1>4 DEF BootRelease, BootSend, BootListQueued, BootFindJobs, BootSendOrphan,
              database, StoreStep
<1>5. QED
  BY <1>2, <1>3, <1>4 DEF BootStep

LEMMA NextStoreStep ==
  TypeOK /\ StopInv /\ [Next]_vars => StoreStep
<1> SUFFICES ASSUME TypeOK, StopInv, [Next]_vars
             PROVE  StoreStep
  OBVIOUS
<1>1. ASSUME NEW u \in Turns, ReceiveMessage(u) \/ IntakeTurn(u)
      PROVE  StoreStep
  <2>1. CASE ReceiveMessage(u)
    BY <2>1 DEF ReceiveMessage, database, StoreStep
  <2>2. CASE IntakeTurn(u)
    <3>1. turns[u] \in Row /\ (turns[u].cancelReq => turns[u].status # "none")
      BY DEF TypeOK, StoreOK, StopInv
    <3>2. QED
      BY <2>2, <3>1, RowTypes, RowEdges, RowStep DEF IntakeTurn
  <2>3. QED
    BY <1>1, <2>1, <2>2
<1>2. CASE \E h \in Handlers : HandlerStep(h) \/ StepThrows(h)
  BY <1>2, HandlerStoreStep
<1>3. CASE \E h \in Handlers, j \in DOMAIN jobs : DeliverJob(h, j)
  BY <1>3 DEF DeliverJob, StoreStep
<1>4. CASE \E t \in Tasks : AgentEnds(t) \/ AgentErrs(t) \/ HandleEvent(t)
  BY <1>4 DEF AgentEnds, AgentErrs, HandleEvent, database, StoreStep
<1>5. CASE \E t \in Tasks : StopTask(t) \/ DoneTask(t) \/ ControlStep(t)
  BY <1>5, ControlStoreStep
<1>6. CASE (\E j \in DOMAIN jobs : JobTimesOut(j)) \/ CrashAndRestart \/ UNCHANGED vars
  BY <1>6 DEF JobTimesOut, CrashAndRestart, database, vars, StoreStep
<1>7. CASE BootStep
  BY <1>7, BootStoreStep
<1>8. QED
  BY <1>1, <1>2, <1>3, <1>4, <1>5, <1>6, <1>7 DEF Next

--------------------------------------------------------------------------------
\* What a step may do to the controls: one starts only by ending its task, and
\* what it will gate is listed from the running turns of its task.

ControlMoves ==
  \A t \in Tasks :
    /\ control'[t].pc # "idle" =>
         control[t].pc # "idle" \/ task'[t] \in TerminalTaskStatuses
    /\ control'[t].pc = "list" => control[t].pc = "list" \/ task'[t] = "cancelled"
    /\ \A u \in control'[t].gate :
         \/ u \in control[t].gate
         \/ control[t].pc = "list" /\ u \in TurnsOf(t) /\ turns[u].status = "running"

LEMMA NextControlMoves ==
  TypeOK /\ [Next]_vars => ControlMoves
<1> SUFFICES ASSUME TypeOK, [Next]_vars
             PROVE  ControlMoves
  OBVIOUS
<1>0. control \in [Tasks -> Control] /\ task \in [Tasks -> TaskStatus]
  BY DEF TypeOK, StoreOK
<1>1. ASSUME UNCHANGED control
      PROVE  ControlMoves
  BY <1>1 DEF ControlMoves
<1>2. ASSUME NEW t \in Tasks, StopTask(t) \/ DoneTask(t) \/ ControlStep(t)
      PROVE  ControlMoves
  <2> DEFINE Fits(c) ==
        /\ c.pc # "idle" => control[t].pc # "idle" \/ task'[t] \in TerminalTaskStatuses
        /\ c.pc = "list" => control[t].pc = "list" \/ task'[t] = "cancelled"
        /\ \A u \in c.gate :
             \/ u \in control[t].gate
             \/ control[t].pc = "list" /\ u \in TurnsOf(t) /\ turns[u].status = "running"
  <2>0. control[t] \in Control
    BY <1>0
  <2>1. ASSUME NEW c, control' = [control EXCEPT ![t] = c], Fits(c)
        PROVE  ControlMoves
    BY <1>0, <2>1 DEF ControlMoves
  <2>2. CASE StopTask(t)
    <3>1. PICK command : control' = [control EXCEPT ![t] =
            [NoControl EXCEPT !.pc = "list", !.abort = (command = "abort")]]
      BY <2>2 DEF StopTask
    <3>2. task'[t] = "cancelled"
      BY <1>0, <2>2 DEF StopTask
    <3>3. Fits([NoControl EXCEPT !.pc = "list", !.abort = (command = "abort")])
      BY <3>2 DEF NoControl, TerminalTaskStatuses
    <3>4. QED
      BY <2>1, <3>1, <3>3
  <2>3. CASE DoneTask(t)
    <3>1. control' = [control EXCEPT ![t] = [control[t] EXCEPT !.pc = "gate"]]
      BY <2>3 DEF DoneTask
    <3>2. task'[t] = "completed"
      BY <1>0, <2>3 DEF DoneTask
    <3>3. Fits([control[t] EXCEPT !.pc = "gate"])
      BY <2>0, <3>2 DEF Control, TerminalTaskStatuses
    <3>4. QED
      BY <2>1, <3>1, <3>3
  <2>4. CASE ListRunning(t)
    <3> DEFINE listed == {u \in TurnsOf(t) : turns[u].status = "running"}
    <3>1. control' = [control EXCEPT ![t] =
                        [control[t] EXCEPT !.pc = "gate", !.gate = listed]]
      BY <2>4 DEF ListRunning
    <3>2. Fits([control[t] EXCEPT !.pc = "gate", !.gate = listed])
      BY <2>0, <2>4 DEF ListRunning, Control
    <3>3. QED
      BY <2>1, <3>1, <3>2
  <2>5. CASE GateTurn(t)
    <3>1. PICK u : control' = [control EXCEPT ![t] =
                     [control[t] EXCEPT !.gate = control[t].gate \ {u}]]
      BY <2>5 DEF GateTurn
    <3>2. Fits([control[t] EXCEPT !.gate = control[t].gate \ {u}])
      BY <2>0, <2>5 DEF GateTurn, Control
    <3>3. QED
      BY <2>1, <3>1, <3>2
  <2>6. CASE CancelPendingTurns(t)
    <3>1. control' = [control EXCEPT ![t] = [control[t] EXCEPT !.pc = "jobs"]]
      BY <2>6 DEF CancelPendingTurns
    <3>2. Fits([control[t] EXCEPT !.pc = "jobs"])
      BY <2>0, <2>6 DEF CancelPendingTurns, Control
    <3>3. QED
      BY <2>1, <3>1, <3>2
  <2>7. Fits(NoControl)
    BY DEF NoControl
  <2>8. CASE CancelJobs(t)
    <3>1. control' = [control EXCEPT ![t] = [control[t] EXCEPT !.pc = "abort"]]
          \/ control' = [control EXCEPT ![t] = NoControl]
      BY <2>8 DEF CancelJobs
    <3>2. Fits([control[t] EXCEPT !.pc = "abort"])
      BY <2>0, <2>8 DEF CancelJobs, Control
    <3>3. QED
      BY <2>1, <2>7, <3>1, <3>2
  <2>9. CASE AbortAgentWork(t)
    <3>1. control' = [control EXCEPT ![t] = [control[t] EXCEPT !.pc = "resolve"]]
      BY <2>9 DEF AbortAgentWork
    <3>2. Fits([control[t] EXCEPT !.pc = "resolve"])
      BY <2>0, <2>9 DEF AbortAgentWork, Control
    <3>3. QED
      BY <2>1, <3>1, <3>2
  <2>10. CASE ResolveCancelled(t)
    BY <2>1, <2>7, <2>10 DEF ResolveCancelled
  <2>11. QED
    BY <1>2, <2>2, <2>3, <2>4, <2>5, <2>6, <2>8, <2>9, <2>10 DEF ControlStep
<1>3. CASE CrashAndRestart
  BY <1>3 DEF CrashAndRestart, NoControl, ControlMoves
<1>4. CASE \E u \in Turns : ReceiveMessage(u) \/ IntakeTurn(u)
  BY <1>1, <1>4 DEF ReceiveMessage, IntakeTurn
<1>5. ASSUME NEW h \in Handlers, HandlerStep(h) \/ StepThrows(h)
      PROVE  UNCHANGED control
  <2>1. CASE \/ Claim(h) \/ Resume(h) \/ Reread(h) \/ Probe(h) \/ Begin(h) \/ Discard(h)
             \/ Checkpoint(h) \/ Stopped(h) \/ ReleaseTask(h) \/ Recheck(h)
    BY <2>1 DEF Claim, Resume, Reread, Probe, Begin, Discard, Checkpoint, Stopped,
                ReleaseTask, Recheck
  <2>2. CASE \/ Dispatch(h) \/ SettleCompleted(h) \/ ToWaiting(h) \/ Abandon(h)
             \/ SettleFailed(h) \/ HandleTurnError(h) \/ RetryTurn(h) \/ RetryTask(h)
             \/ FailTurn(h) \/ FailTask(h) \/ Return(h) \/ Rethrow(h) \/ StepThrows(h)
    BY <2>2 DEF Dispatch, SettleCompleted, ToWaiting, Abandon, SettleFailed,
                HandleTurnError, RetryTurn, RetryTask, FailTurn, FailTask, Return,
                Rethrow, Leave, StepThrows
  <2>3. QED
    BY <1>5, <2>1, <2>2 DEF HandlerStep
<1>6. CASE \E h \in Handlers, j \in DOMAIN jobs : DeliverJob(h, j)
  BY <1>1, <1>6 DEF DeliverJob
<1>7. CASE \E t \in Tasks : AgentEnds(t) \/ AgentErrs(t) \/ HandleEvent(t)
  BY <1>1, <1>7 DEF AgentEnds, AgentErrs, HandleEvent
<1>8. CASE (\E j \in DOMAIN jobs : JobTimesOut(j)) \/ UNCHANGED vars
  BY <1>1, <1>8 DEF JobTimesOut, vars
<1>9. CASE BootStep
  BY <1>1, <1>9 DEF BootStep, BootRelease, BootRequeue, BootTask, BootSend,
                    BootListQueued, BootFindJobs, BootSendOrphan
<1>10. QED
  BY <1>1, <1>2, <1>3, <1>4, <1>5, <1>6, <1>7, <1>8, <1>9 DEF Next


--------------------------------------------------------------------------------
\* The strengthening is inductive: an ended task stays ended, a written row
\* stays written, and only listed rows are gated.

LEMMA EndedStays ==
  ASSUME TypeOK, StoreStep, NEW t \in Tasks, task[t] \in TerminalTaskStatuses
  PROVE  task'[t] = task[t]
<1>1. CASE MovesTask
  <2>1. PICK s \in Tasks, edge \in Lifecycle!TaskEdges :
          task[s] = edge[1] /\ task' = [task EXCEPT ![s] = edge[2]]
    BY <1>1 DEF MovesTask
  <2>2. edge[1] \notin TerminalTaskStatuses
    BY DEF Lifecycle!TaskEdges, TerminalTaskStatuses
  <2>3. QED
    BY <2>1, <2>2 DEF TypeOK, StoreOK
<1>2. CASE ~MovesTask
  BY <1>2 DEF StoreStep, MovesRow, CancelsQueued, GatesRow
<1>3. QED
  BY <1>1, <1>2

LEMMA RowAfter ==
  ASSUME TypeOK, StoreStep, NEW u \in Turns
  PROVE  \/ FollowsEdges(turns[u], turns'[u])
         \/ /\ turns'[u] = RequestCancel(turns[u])
            /\ \E t \in Tasks : u \in control[t].gate
<1>0. turns \in [Turns -> Row] /\ turns[u] \in Row
  BY DEF TypeOK, StoreOK
<1>1. CASE MovesTask \/ UNCHANGED <<task, turns>>
  BY <1>1 DEF MovesTask, FollowsEdges
<1>2. CASE MovesRow
  BY <1>0, <1>2 DEF MovesRow, FollowsEdges
<1>3. CASE CancelsQueued
  <2>1. turns'[u] = CancelPending(turns[u]) \/ turns'[u] = turns[u]
    BY <1>3 DEF CancelsQueued
  <2>2. FollowsEdges(turns[u], CancelPending(turns[u]))
    BY <1>0, RowEdges
  <2>3. QED
    BY <2>1, <2>2 DEF FollowsEdges
<1>4. CASE GatesRow
  <2>0. PICK t \in Tasks : \E v \in control[t].gate :
          turns' = [turns EXCEPT ![v] = RequestCancel(@)]
    BY <1>4 DEF GatesRow
  <2>1. PICK v \in control[t].gate :
          turns' = [turns EXCEPT ![v] = RequestCancel(turns[v])]
    BY <2>0
  <2>2. CASE u = v
    BY <1>0, <2>1, <2>2
  <2>3. CASE u # v
    BY <1>0, <2>1, <2>3 DEF FollowsEdges
  <2>4. QED
    BY <2>2, <2>3
<1>5. QED
  BY <1>1, <1>2, <1>3, <1>4 DEF StoreStep

LEMMA WrittenStays ==
  ASSUME TypeOK, StopInv, StoreStep, NEW u \in Turns
  PROVE  /\ turns[u].status # "none" => turns'[u].status # "none"
         /\ turns'[u].cancelReq => turns'[u].status # "none"
<1>0. turns[u] \in Row /\ (turns[u].cancelReq => turns[u].status # "none")
  BY DEF TypeOK, StoreOK, StopInv
<1>1. CASE turns'[u] = turns[u]
  BY <1>0, <1>1
<1>2. CASE turns'[u] # turns[u] /\ FollowsEdges(turns[u], turns'[u])
  <2>1. turns'[u].status # "none"
    BY <1>2 DEF FollowsEdges, Lifecycle!GatedEdges, Lifecycle!TurnEdges
  <2>2. QED
    BY <2>1
<1>3. CASE /\ turns'[u] = RequestCancel(turns[u])
           /\ \E t \in Tasks : u \in control[t].gate
  <2>1. turns[u].status # "none"
    BY <1>3 DEF StopInv
  <2>2. turns'[u].status = turns[u].status
    BY <1>0, <1>3 DEF RequestCancel, Row
  <2>3. QED
    BY <2>1, <2>2
<1>4. QED
  BY <1>1, <1>2, <1>3, RowAfter

LEMMA NextStop ==
  TypeOK /\ StopInv /\ [Next]_vars => StopInv'
<1> SUFFICES ASSUME TypeOK, StopInv, [Next]_vars
             PROVE  StopInv'
  OBVIOUS
<1>1. StoreStep /\ ControlMoves
  BY NextStoreStep, NextControlMoves
<1>2. ASSUME NEW t \in Tasks, control'[t].pc # "idle"
      PROVE  task'[t] \in TerminalTaskStatuses
  BY <1>1, <1>2, EndedStays DEF StopInv, ControlMoves
<1>3. ASSUME NEW t \in Tasks, task[t] = "cancelled"
      PROVE  task'[t] = "cancelled"
  BY <1>1, <1>3, EndedStays DEF TerminalTaskStatuses
<1>4. ASSUME NEW t \in Tasks, control'[t].pc = "list"
      PROVE  task'[t] = "cancelled"
  BY <1>1, <1>3, <1>4 DEF StopInv, ControlMoves
<1>5. ASSUME NEW t \in Tasks, NEW u \in control'[t].gate
      PROVE  u \in TurnsOf(t) /\ task'[t] = "cancelled" /\ turns'[u].status # "none"
  <2>1. u \in TurnsOf(t) /\ task[t] = "cancelled" /\ turns[u].status # "none"
    BY <1>1, <1>5 DEF StopInv, ControlMoves
  <2>2. turns'[u].status # "none"
    BY <1>1, <2>1, WrittenStays DEF TurnsOf
  <2>3. QED
    BY <1>3, <2>1, <2>2
<1>6. ASSUME NEW u \in Turns, turns'[u].cancelReq
      PROVE  turns'[u].status # "none"
  BY <1>1, <1>6, WrittenStays
<1>7. QED
  BY <1>2, <1>4, <1>5, <1>6 DEF StopInv, TurnsOf

LEMMA InitStop ==
  Init => StopInv
BY DEF Init, StopInv, NoControl, NoRow

LEMMA StopInvariant == Spec => [](TypeOK /\ StopInv)
BY InitType, NextType, InitStop, NextStop, PTL DEF Spec

--------------------------------------------------------------------------------
\* Once a turn is gated, nothing but its cancellation or a requeue at boot
\* happens to it, whatever handlers, retries, redeliveries and crashes do.

GateStep ==
  \A u \in Turns :
    turns[u].cancelReq /\ turns'[u] # turns[u] =>
      /\ turns'[u].cancelReq
      /\ turns'[u].status \notin {"running", "completed", "failed"}

LEMMA StoreGate ==
  TypeOK /\ StoreStep => GateStep
<1> SUFFICES ASSUME TypeOK, StoreStep, NEW u \in Turns,
                    turns[u].cancelReq, turns'[u] # turns[u]
             PROVE  /\ turns'[u].cancelReq
                    /\ turns'[u].status \notin {"running", "completed", "failed"}
  BY DEF GateStep
<1>0. turns[u] \in Row
  BY DEF TypeOK, StoreOK
<1>1. RequestCancel(turns[u]) = turns[u]
  BY <1>0 DEF RequestCancel, Row
<1>2. FollowsEdges(turns[u], turns'[u])
  BY <1>1, RowAfter
<1>3. turns'[u].cancelReq
  BY <1>2 DEF FollowsEdges
<1>4. <<turns[u].status, turns'[u].status>> \in Lifecycle!GatedEdges
  BY <1>2 DEF FollowsEdges
<1>5. turns'[u].status \in {"cancelled", "queued"}
  BY <1>4 DEF Lifecycle!GatedEdges
<1>6. QED
  BY <1>3, <1>5

THEOREM GateHolds == Spec => StopGate
<1>1. TypeOK /\ StopInv /\ [Next]_vars => [GateStep]_vars
  BY NextStoreStep, StoreGate
<1>2. Spec => [][GateStep]_vars
  BY <1>1, StopInvariant, PTL DEF Spec
<1>3. QED
  BY <1>2 DEF StopGate, GateStep

--------------------------------------------------------------------------------
\* The detailed machine implements the lifecycle: its initial states map to
\* initial states, and every step is a step of the lifecycle or a stutter.

LEMMA InitImplements ==
  Init => Lifecycle!Init
BY DEF Init, Lifecycle!Init, NoRow

LEMMA StepImplements ==
  TypeOK /\ StopInv /\ StoreStep => [Lifecycle!Next]_(Lifecycle!vars)
<1> SUFFICES ASSUME TypeOK, StopInv, StoreStep
             PROVE  Lifecycle!Next \/ UNCHANGED Lifecycle!vars
  OBVIOUS
<1> DEFINE status == [u \in Turns |-> turns[u].status]
           gated == {u \in Turns : turns[u].cancelReq}
<1>0. turns \in [Turns -> Row] /\ task \in [Tasks -> TaskStatus]
  BY DEF TypeOK, StoreOK
<1>1. CASE UNCHANGED <<task, turns>>
  BY <1>1 DEF Lifecycle!vars
<1>2. CASE MovesTask
  <2>1. UNCHANGED <<status, gated>>
    BY <1>2 DEF MovesTask
  <2>2. PICK t \in Tasks, edge \in Lifecycle!TaskEdges :
          task[t] = edge[1] /\ task' = [task EXCEPT ![t] = edge[2]]
    BY <1>2 DEF MovesTask
  <2>3. Lifecycle!MoveTask(t)
    BY <2>1, <2>2 DEF Lifecycle!MoveTask
  <2>4. QED
    BY <2>3 DEF Lifecycle!Next
<1>3. CASE MovesRow
  <2>1. PICK u \in Turns, row \in Row :
          FollowsEdges(turns[u], row) /\ turns' = [turns EXCEPT ![u] = row]
    BY <1>3 DEF MovesRow
  <2>2. UNCHANGED task
    BY <1>3 DEF MovesRow
  <2>3. CASE row = turns[u]
    BY <1>0, <2>1, <2>2, <2>3 DEF Lifecycle!vars
  <2>4. CASE row # turns[u]
    <3>1. row.cancelReq = turns[u].cancelReq
      BY <2>1, <2>4 DEF FollowsEdges
    <3>2. <<turns[u].status, row.status>> \in
             IF u \in gated THEN Lifecycle!GatedEdges ELSE Lifecycle!TurnEdges
      BY <2>1, <2>4 DEF FollowsEdges
    <3>3. gated' = gated
      BY <1>0, <2>1, <3>1
    <3>4. status' = [status EXCEPT ![u] = row.status]
      BY <1>0, <2>1
    <3>5. /\ status[u] = <<turns[u].status, row.status>>[1]
          /\ row.status = <<turns[u].status, row.status>>[2]
      OBVIOUS
    <3>6. Lifecycle!MoveTurn(u)
      BY <2>2, <3>2, <3>3, <3>4, <3>5 DEF Lifecycle!MoveTurn
    <3>7. QED
      BY <3>6 DEF Lifecycle!Next
  <2>5. QED
    BY <2>3, <2>4
<1>4. CASE CancelsQueued
  <2>1. PICK t \in Tasks :
          /\ control[t].pc = "gate"
          /\ turns' = [u \in Turns |->
               IF TaskOf[u] = t THEN CancelPending(turns[u]) ELSE turns[u]]
    BY <1>4 DEF CancelsQueued
  <2>2. task[t] \in {"cancelled", "completed", "failed"}
    BY <2>1 DEF StopInv, TerminalTaskStatuses
  <2>3. \A u \in Turns :
          /\ CancelPending(turns[u]).cancelReq = turns[u].cancelReq
          /\ CancelPending(turns[u]).status =
               IF turns[u].status = "queued" THEN "cancelled" ELSE turns[u].status
    BY <1>0 DEF CancelPending, Row
  <2>4. gated' = gated
    BY <2>1, <2>3
  <2>5. status' = [u \in Turns |->
          IF TaskOf[u] = t /\ status[u] = "queued" THEN "cancelled" ELSE status[u]]
    BY <2>1, <2>3
  <2>6. UNCHANGED task
    BY <1>4 DEF CancelsQueued
  <2>7. Lifecycle!CancelQueued(t)
    BY <2>2, <2>4, <2>5, <2>6 DEF Lifecycle!CancelQueued
  <2>8. QED
    BY <2>7 DEF Lifecycle!Next
<1>5. CASE GatesRow
  <2>0. PICK t \in Tasks : \E u \in control[t].gate :
          turns' = [turns EXCEPT ![u] = RequestCancel(@)]
    BY <1>5 DEF GatesRow
  <2>1. PICK u \in control[t].gate :
          turns' = [turns EXCEPT ![u] = RequestCancel(turns[u])]
    BY <2>0
  <2>2. u \in Turns /\ task[TaskOf[u]] = "cancelled" /\ turns[u].status # "none"
    BY <2>1 DEF StopInv, TurnsOf
  <2>3. /\ RequestCancel(turns[u]).cancelReq = TRUE
        /\ RequestCancel(turns[u]).status = turns[u].status
    BY <1>0, <2>2 DEF RequestCancel, Row
  <2>4. status' = status
    BY <1>0, <2>1, <2>2, <2>3
  <2>5. gated' = gated \cup {u}
    BY <1>0, <2>1, <2>2, <2>3
  <2>6. UNCHANGED task
    BY <1>5 DEF GatesRow
  <2>7. Lifecycle!Gate(u)
    BY <2>2, <2>4, <2>5, <2>6 DEF Lifecycle!Gate
  <2>8. QED
    BY <2>2, <2>7 DEF Lifecycle!Next
<1>6. QED
  BY <1>1, <1>2, <1>3, <1>4, <1>5 DEF StoreStep

\* Handlers, controls, agents, redeliveries, crashes and the recovery, however
\* they interleave, do to the two tables only what TaskLifecycle allows.
THEOREM Refinement == Spec => ImplementsLifecycle
<1>1. TypeOK /\ StopInv /\ [Next]_vars => [Lifecycle!Next]_(Lifecycle!vars)
  BY NextStoreStep, StepImplements
<1>2. QED
  BY <1>1, InitImplements, StopInvariant, PTL
  DEF Spec, ImplementsLifecycle, Lifecycle!Spec

================================================================================
