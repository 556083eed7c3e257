--------------------------- MODULE TaskRecoveryProofs --------------------------
(*************************************************************************)
(* Proofs about the recovery after a restart, which runs beside the      *)
(* worker and the intake. It never gives a turn a second live job,       *)
(* through any number of crashes and of jobs given up under their        *)
(* handlers. And it loses no interrupted turn by itself: proved for the  *)
(* first crash, where CalmInv of TaskOwnershipProofs says what the dead  *)
(* process left, as long as no job is given up under its handler.        *)
(*************************************************************************)
EXTENDS TaskOwnershipProofs

HasLive(u) == \E j \in DOMAIN jobs : jobs[j].turn = u /\ Live(jobs, j)

\* A job is sent for a turn without a live one.  The intake sends the job of a
\* row it has just written, and no row is written without it; a released turn
\* keeps no live job until it is sent again, as only the recovery sends jobs of
\* written rows; and the same keeps the orphans without one.
LiveInv ==
  /\ \A u \in received : turns[u].status = "none"
  /\ \A j \in DOMAIN jobs : turns[jobs[j].turn].status # "none"
  /\ \A u \in boot.todo \cup boot.orphans : turns[u].status # "none"
  /\ boot.orphans # {} => boot.pc = "orphans"
  /\ \A u \in boot.orphans : ~HasLive(u)
  /\ boot.pc \in {"requeue", "task", "send"} =>
       \A u \in Turns : NextInterrupted(u) => ~HasLive(u)
  /\ OneLiveJobPerTurn

--------------------------------------------------------------------------------
\* What happens to the queue, as far as live jobs go.

\* Every job keeps its turn, and no job that was over is live again.
Fades(old, new) ==
  /\ DOMAIN new = DOMAIN old
  /\ \A j \in DOMAIN old :
       new[j].turn = old[j].turn /\ (Live(new, j) => Live(old, j))

LEMMA StateFades ==
  ASSUME NEW q \in Seq(Job), NEW j \in DOMAIN q, NEW job \in Job,
         job.turn = q[j].turn, job.state \in LiveJobStates => Live(q, j)
  PROVE  Fades(q, [q EXCEPT ![j] = job])
BY DEF Fades, Live

LEMMA QueueFades ==
  ASSUME NEW q \in Seq(Job), NEW j \in DOMAIN q, NEW limit
  PROVE  /\ Fades(q, CompleteJob(q, j))
         /\ Fades(q, FailJob(q, j, limit))
         /\ q[j].state \in {"created", "retry"} => Fades(q, Deliver(q, j))
<1>1. q[j] \in Job /\ Fades(q, q)
  BY DEF Fades
<1>2. Fades(q, CompleteJob(q, j))
  <2> DEFINE job == [q[j] EXCEPT !.state = "completed"]
  <2>1. job \in Job /\ job.turn = q[j].turn /\ job.state \notin LiveJobStates
    BY <1>1 DEF Job, JobState, LiveJobStates
  <2>2. CompleteJob(q, j) = IF q[j].state = "active" THEN [q EXCEPT ![j] = job] ELSE q
    BY DEF CompleteJob
  <2> HIDE DEF job
  <2>3. QED
    BY <1>1, <2>1, <2>2, StateFades
<1>3. Fades(q, FailJob(q, j, limit))
  <2> DEFINE state == IF q[j].retries < limit THEN "retry" ELSE "failed"
             job == [q[j] EXCEPT !.state = state]
  <2>1. state \in JobState
    BY DEF JobState, LiveJobStates
  <2> HIDE DEF state
  <2>2. job \in Job /\ job.turn = q[j].turn
    BY <1>1, <2>1 DEF Job
  <2>3. FailJob(q, j, limit) = IF q[j].state = "active" THEN [q EXCEPT ![j] = job] ELSE q
    BY DEF FailJob, state
  <2> HIDE DEF job
  <2>4. QED
    BY <1>1, <2>2, <2>3, StateFades DEF Live, LiveJobStates
<1>4. ASSUME q[j].state \in {"created", "retry"}
      PROVE  Fades(q, Deliver(q, j))
  <2> DEFINE n == IF q[j].state = "retry" THEN q[j].retries + 1 ELSE q[j].retries
             job == [q[j] EXCEPT !.state = "active", !.retries = n]
  <2>1. n \in Nat
    BY <1>1 DEF Job
  <2>2. job \in Job /\ job.turn = q[j].turn
    BY <1>1, <2>1 DEF Job, JobState, LiveJobStates
  <2>3. Deliver(q, j) = [q EXCEPT ![j] = job]
    BY DEF Deliver
  <2> HIDE DEF n, job
  <2>4. QED
    BY <1>4, <2>2, <2>3, StateFades DEF Live, LiveJobStates
<1>5. QED
  BY <1>2, <1>3, <1>4

\* Releasing the key of a task leaves no live job of its turns.
LEMMA ReleaseFades ==
  ASSUME NEW q \in Seq(Job), NEW keyed
  PROVE  /\ Fades(q, ReleaseTaskSingleton(q, keyed))
         /\ \A j \in DOMAIN q :
              q[j].turn \in keyed => ~Live(ReleaseTaskSingleton(q, keyed), j)
<1> DEFINE after == ReleaseTaskSingleton(q, keyed)
<1>1. DOMAIN after = DOMAIN q
  BY DEF ReleaseTaskSingleton
<1>2. ASSUME NEW j \in DOMAIN q
      PROVE  /\ after[j].turn = q[j].turn
             /\ Live(after, j) => Live(q, j) /\ q[j].turn \notin keyed
  <2>1. q[j] \in Job
    OBVIOUS
  <2>2. after[j] = IF j \in LiveJobs(q, keyed) THEN [q[j] EXCEPT !.state = "cancelled"]
                   ELSE q[j]
    BY DEF ReleaseTaskSingleton
  <2>3. [q[j] EXCEPT !.state = "cancelled"].turn = q[j].turn
        /\ [q[j] EXCEPT !.state = "cancelled"].state = "cancelled"
    BY <2>1 DEF Job
  <2>4. CASE j \in LiveJobs(q, keyed)
    BY <2>2, <2>3, <2>4 DEF Live, LiveJobStates
  <2>5. CASE j \notin LiveJobs(q, keyed)
    <3>1. after[j] = q[j]
      BY <2>2, <2>5
    <3>2. Live(after, j) <=> Live(q, j)
      BY <3>1 DEF Live
    <3>3. QED
      BY <2>5, <3>1, <3>2 DEF LiveJobs
  <2>6. QED
    BY <2>4, <2>5
<1> HIDE DEF after
<1>3. Fades(q, after)
  BY <1>1, <1>2 DEF Fades
<1>4. QED
  BY <1>2, <1>3 DEF after

\* A step that sends nothing leaves every turn with the live jobs it had, or less.
LEMMA FadesKeep ==
  ASSUME LiveInv, Fades(jobs, jobs')
  PROVE  /\ \A u : HasLive(u)' => HasLive(u)
         /\ OneLiveJobPerTurn'
BY DEF LiveInv, Fades, HasLive, OneLiveJobPerTurn

\* A step that sends a job for a turn without a live one.
LEMMA SendKeepsOne ==
  ASSUME TypeOK, LiveInv, NEW u \in Turns, ~HasLive(u), jobs' = Send(jobs, u)
  PROVE  /\ \A v : HasLive(v)' => HasLive(v) \/ v = u
         /\ OneLiveJobPerTurn'
         /\ \A j \in DOMAIN jobs' :
              jobs'[j].turn = u \/ \E i \in DOMAIN jobs : jobs'[j].turn = jobs[i].turn
<1> DEFINE n == Len(jobs)
           job == [turn |-> u, state |-> "created", retries |-> 0]
<1>1. job \in Job /\ job.turn = u
  BY DEF Job, JobState, LiveJobStates
<1>2. jobs \in Seq(Job) /\ jobs' = Append(jobs, job)
  BY DEF TypeOK, Send
<1> HIDE DEF job
<1>3. /\ DOMAIN jobs = 1 .. n /\ DOMAIN jobs' = 1 .. n + 1 /\ n \in Nat
      /\ \A j \in DOMAIN jobs : jobs'[j] = jobs[j]
      /\ jobs'[n + 1] = job
  BY <1>1, <1>2
<1> HIDE DEF n
<1>4. \A j \in DOMAIN jobs' : j = n + 1 \/ j \in DOMAIN jobs
  BY <1>3
<1>5. \A j \in DOMAIN jobs : (Live(jobs', j) <=> Live(jobs, j)) /\ jobs'[j].turn = jobs[j].turn
  BY <1>3 DEF Live
<1>6. jobs'[n + 1].turn = u
  BY <1>1, <1>3
<1>7. \A v : HasLive(v)' => HasLive(v) \/ v = u
  BY <1>4, <1>5, <1>6 DEF HasLive
<1>8. \A j \in DOMAIN jobs : ~(jobs[j].turn = u /\ Live(jobs, j))
  BY DEF HasLive
<1>9. ASSUME NEW i \in DOMAIN jobs', NEW j \in DOMAIN jobs',
             jobs'[i].turn = jobs'[j].turn, Live(jobs', i), Live(jobs', j)
      PROVE  i = j
  <2>1. CASE i \in DOMAIN jobs /\ j \in DOMAIN jobs
    BY <1>5, <1>9, <2>1 DEF LiveInv, OneLiveJobPerTurn
  <2>2. CASE i = n + 1 /\ j \in DOMAIN jobs
    BY <1>5, <1>6, <1>8, <1>9, <2>2
  <2>3. CASE j = n + 1 /\ i \in DOMAIN jobs
    BY <1>5, <1>6, <1>8, <1>9, <2>3
  <2>4. QED
    BY <1>4, <2>1, <2>2, <2>3
<1>10. OneLiveJobPerTurn'
  BY <1>9 DEF OneLiveJobPerTurn
<1>11. QED
  BY <1>4, <1>5, <1>6, <1>7, <1>10

--------------------------------------------------------------------------------
\* Only the intake writes a row.

LEMMA NoneStays ==
  ASSUME NEW row \in Row, row.status = "none"
  PROVE  /\ ClaimQueuedTurn(row) = row /\ MarkTurnCompleted(row) = row
         /\ MarkTurnFailed(row) = row /\ MarkTurnRetrying(row) = row
         /\ MarkTurnCancelled(row) = row /\ CancelPending(row) = row
         /\ RequeueInterruptedTurn(row) = row
         /\ RequestCancel(row).status = "none"
BY DEF Row, ClaimQueuedTurn, MarkTurnCompleted, MarkTurnFailed, MarkTurnRetrying,
       MarkTurnCancelled, CancelPending, RequeueInterruptedTurn, RequestCancel,
       Claimable, Unstopped

WritesNone ==
  \A u \in Turns : turns[u].status = "none" => turns'[u].status = "none"

LEMMA OneRowWritesNone ==
  ASSUME TypeOK, NEW u, NEW row, turns' = [turns EXCEPT ![u] = row],
         u \in Turns /\ turns[u].status = "none" => row.status = "none"
  PROVE  WritesNone
BY DEF TypeOK, StoreOK, WritesNone

LEMMA SameWritesNone ==
  UNCHANGED turns => WritesNone
BY DEF WritesNone

LEMMA HandlerWritesNone ==
  ASSUME TypeOK, NEW h \in Handlers, HandlerStep(h) \/ StepThrows(h)
  PROVE  WritesNone
<1>1. ASSUME NEW row, turns' = [turns EXCEPT ![T(h)] = row],
             row \in {ClaimQueuedTurn(turns[T(h)]), MarkTurnCompleted(turns[T(h)]),
                      MarkTurnFailed(turns[T(h)]), MarkTurnRetrying(turns[T(h)]),
                      MarkTurnCancelled(turns[T(h)])}
      PROVE  WritesNone
  <2>1. T(h) \in Turns => turns[T(h)] \in Row
    BY DEF TypeOK, StoreOK
  <2>2. T(h) \in Turns /\ turns[T(h)].status = "none" => row = turns[T(h)]
    BY <1>1, <2>1, NoneStays
  <2>3. QED
    BY <1>1, <2>2, OneRowWritesNone
<1>2. CASE Claim(h) \/ Resume(h)
  BY <1>1, <1>2 DEF Claim, Resume
<1>3. CASE Discard(h) \/ Stopped(h) \/ Abandon(h)
  BY <1>1, <1>3 DEF Discard, Stopped, Abandon
<1>4. CASE SettleCompleted(h) \/ RetryTurn(h) \/ FailTurn(h)
  BY <1>1, <1>4 DEF SettleCompleted, RetryTurn, FailTurn
<1>5. CASE UNCHANGED turns
  BY <1>5, SameWritesNone
<1>6. QED
  BY <1>2, <1>3, <1>4, <1>5
  DEF HandlerStep, Reread, Probe, Begin, Checkpoint, ReleaseTask, Recheck, Dispatch,
      ToWaiting, SettleFailed, HandleTurnError, RetryTask, FailTask, Return, Rethrow,
      Leave, StepThrows, database

LEMMA ControlWritesNone ==
  ASSUME TypeOK, NEW t \in Tasks, StopTask(t) \/ DoneTask(t) \/ ControlStep(t)
  PROVE  WritesNone
<1>1. CASE GateTurn(t)
  <2>1. PICK u \in control[t].gate : turns' = [turns EXCEPT ![u] = RequestCancel(turns[u])]
    BY <1>1 DEF GateTurn
  <2>2. u \in Turns /\ turns[u].status = "none" => RequestCancel(turns[u]).status = "none"
    BY NoneStays DEF TypeOK, StoreOK
  <2>3. QED
    BY <2>1, <2>2, OneRowWritesNone
<1>2. CASE CancelPendingTurns(t)
  <2>1. \A u \in Turns : turns'[u] = turns[u] \/ turns'[u] = CancelPending(turns[u])
    BY <1>2 DEF CancelPendingTurns
  <2>2. QED
    BY <2>1, NoneStays DEF WritesNone, TypeOK, StoreOK
<1>3. CASE UNCHANGED turns
  BY <1>3, SameWritesNone
<1>4. QED
  BY <1>1, <1>2, <1>3
  DEF StopTask, DoneTask, ControlStep, ListRunning, CancelJobs, AbortAgentWork,
      ResolveCancelled, database

--------------------------------------------------------------------------------
\* The steps of the worker, the agents and the controls.

LEMMA JobTurn ==
  ASSUME TypeOK, NEW j \in DOMAIN jobs
  PROVE  jobs[j].turn \in Turns
<1>1. jobs[j] \in Job
  BY DEF TypeOK
<1>2. QED
  BY <1>1 DEF Job

\* A step that sends no job, receives no message and finds no turns.
LEMMA QuietKeepsLive ==
  ASSUME TypeOK, StopInv, StoreStep, LiveInv, WritesNone, Fades(jobs, jobs'),
         received' \subseteq received,
         boot'.todo \subseteq boot.todo, boot'.orphans = boot.orphans,
         boot'.orphans # {} => boot'.pc = "orphans",
         boot'.pc \in {"requeue", "task", "send"} =>
           \A u \in Turns : NextInterrupted(u)' => ~HasLive(u)'
  PROVE  LiveInv'
<1>1. \A u : HasLive(u)' => HasLive(u)
  BY FadesKeep
<1>2. OneLiveJobPerTurn'
  BY FadesKeep
<1>3. \A u \in received' : turns'[u].status = "none"
  BY DEF LiveInv, WritesNone, TypeOK
<1>4. \A j \in DOMAIN jobs' : turns'[jobs'[j].turn].status # "none"
  <2> SUFFICES ASSUME NEW j \in DOMAIN jobs
               PROVE  turns'[jobs[j].turn].status # "none"
    BY DEF Fades
  <2>1. jobs[j].turn \in Turns
    BY JobTurn
  <2>2. QED
    BY <2>1, WrittenStays DEF LiveInv
<1>5. \A u \in boot'.todo \cup boot'.orphans : turns'[u].status # "none"
  BY WrittenStays DEF LiveInv, TypeOK, Boot
<1>6. \A u \in boot'.orphans : ~HasLive(u)'
  BY <1>1 DEF LiveInv
<1>7. QED
  BY <1>2, <1>3, <1>4, <1>5, <1>6 DEF LiveInv

\* They leave the recovery alone.
LEMMA LiveStays ==
  ASSUME TypeOK, StopInv, StoreStep, LiveInv, WritesNone, Fades(jobs, jobs'),
         received' \subseteq received, UNCHANGED boot
  PROVE  LiveInv'
<1>1. boot'.orphans # {} => boot'.pc = "orphans"
  BY DEF LiveInv
<1>2. boot'.pc \in {"requeue", "task", "send"} =>
        \A u \in Turns : NextInterrupted(u)' => ~HasLive(u)'
  BY FadesKeep DEF LiveInv, NextInterrupted
<1>3. QED
  BY <1>1, <1>2, QuietKeepsLive

LEMMA SameFades ==
  UNCHANGED jobs => Fades(jobs, jobs')
BY DEF Fades

LEMMA WorkerKeepsLive ==
  ASSUME TypeOK, StopInv, StoreStep, LiveInv, NEW h \in Handlers,
         \/ HandlerStep(h) \/ StepThrows(h)
         \/ \E j \in DOMAIN jobs : DeliverJob(h, j)
  PROVE  LiveInv'
<1>1. received' = received /\ boot' = boot
  BY DEF HandlerStep, StepThrows, DeliverJob, Claim, Resume, Reread, Probe, Begin,
         Discard, Checkpoint, Stopped, ReleaseTask, Recheck, Dispatch, SettleCompleted,
         ToWaiting, Abandon, SettleFailed, HandleTurnError, RetryTurn, RetryTask,
         FailTurn, FailTask, Return, Rethrow, Leave
<1>2. WritesNone
  BY HandlerWritesNone, SameWritesNone DEF DeliverJob
<1>3. Fades(jobs, jobs')
  <2>1. jobs \in Seq(Job)
    BY DEF TypeOK
  <2>2. CASE Return(h) \/ Rethrow(h)
    <3>1. pc[h] # "idle"
      BY <2>2 DEF Return, Rethrow
    <3>2. PICK j \in DOMAIN jobs : j = run[h].job
      BY <3>1, BusyHandler
    <3>3. jobs' = CompleteJob(jobs, j) \/ jobs' = FailJob(jobs, j, RetryLimit)
      BY <2>2, <3>2 DEF Return, Rethrow
    <3>4. QED
      BY <2>1, <3>3, QueueFades
  <2>3. CASE \E j \in DOMAIN jobs : DeliverJob(h, j)
    BY <2>1, <2>3, QueueFades DEF DeliverJob, Deliverable
  <2>4. CASE UNCHANGED jobs
    BY <2>4, SameFades
  <2>5. QED
    BY <2>2, <2>3, <2>4
    DEF HandlerStep, StepThrows, Claim, Resume, Reread, Probe, Begin,
        Discard, Checkpoint, Stopped, ReleaseTask, Recheck, Dispatch, SettleCompleted,
        ToWaiting, Abandon, SettleFailed, HandleTurnError, RetryTurn, RetryTask,
        FailTurn, FailTask, database
<1>4. QED
  BY <1>1, <1>2, <1>3, LiveStays

LEMMA OthersKeepLive ==
  ASSUME TypeOK, StopInv, StoreStep, LiveInv,
         \/ \E t \in Tasks : AgentEnds(t) \/ AgentErrs(t) \/ HandleEvent(t)
         \/ \E t \in Tasks : StopTask(t) \/ DoneTask(t) \/ ControlStep(t)
         \/ \E j \in DOMAIN jobs : JobTimesOut(j)
  PROVE  LiveInv'
<1>1. jobs \in Seq(Job)
  BY DEF TypeOK
<1>2. ASSUME NEW t \in Tasks, AgentEnds(t) \/ AgentErrs(t) \/ HandleEvent(t)
      PROVE  LiveInv'
  <2>1. UNCHANGED <<turns, jobs, received, boot>>
    BY <1>2 DEF AgentEnds, AgentErrs, HandleEvent, database
  <2>2. QED
    BY <2>1, SameWritesNone, SameFades, LiveStays
<1>3. ASSUME NEW t \in Tasks, StopTask(t) \/ DoneTask(t) \/ ControlStep(t)
      PROVE  LiveInv'
  <2>1. received' = received /\ boot' = boot
    BY <1>3 DEF StopTask, DoneTask, ControlStep, ListRunning, GateTurn,
                CancelPendingTurns, CancelJobs, AbortAgentWork, ResolveCancelled
  <2>2. jobs' = jobs \/ jobs' = ReleaseTaskSingleton(jobs, TurnsOf(t))
    BY <1>3 DEF StopTask, DoneTask, ControlStep, ListRunning, GateTurn,
                CancelPendingTurns, CancelJobs, AbortAgentWork, ResolveCancelled, database
  <2>3. Fades(jobs, jobs')
    BY <1>1, <2>2, SameFades, ReleaseFades
  <2>4. QED
    BY <1>3, <2>1, <2>3, ControlWritesNone, LiveStays
<1>4. ASSUME NEW j \in DOMAIN jobs, JobTimesOut(j)
      PROVE  LiveInv'
  <2>1. UNCHANGED <<turns, received, boot>> /\ jobs' = FailJob(jobs, j, RetryLimit)
    BY <1>4 DEF JobTimesOut
  <2>2. QED
    BY <1>1, <2>1, SameWritesNone, QueueFades, LiveStays
<1>5. QED
  BY <1>2, <1>3, <1>4

--------------------------------------------------------------------------------
\* The intake writes a row together with its job.

LEMMA IntakeKeepsLive ==
  ASSUME TypeOK, StopInv, StoreStep, LiveInv, NEW u \in Turns,
         ReceiveMessage(u) \/ IntakeTurn(u)
  PROVE  LiveInv'
<1>0. turns \in [Turns -> Row]
  BY DEF TypeOK, StoreOK
<1>1. CASE ReceiveMessage(u)
  <2>1. /\ UNCHANGED <<turns, jobs, boot>> /\ received' = received \cup {u}
        /\ turns[u].status = "none"
    BY <1>1 DEF ReceiveMessage, NoRow, database
  <2>2. QED
    BY <2>1 DEF LiveInv, HasLive, NextInterrupted, OneLiveJobPerTurn, Live
<1>2. CASE IntakeTurn(u)
  <2>1. /\ UNCHANGED boot /\ received' = received \ {u} /\ u \in received
        /\ turns' = [turns EXCEPT ![u] = InsertTurn(turns[u])] /\ jobs' = Send(jobs, u)
    BY <1>2 DEF IntakeTurn
  <2>2. turns[u].status = "none" /\ ~HasLive(u)
    BY <2>1 DEF LiveInv, HasLive
  <2>3. turns'[u].status = "queued" /\ \A v \in Turns : v # u => turns'[v] = turns[v]
    BY <1>0, <2>1, <2>2 DEF InsertTurn, Row
  <2>4. u \notin boot.todo \cup boot.orphans
    BY <2>2 DEF LiveInv
  <2>5. /\ \A v : HasLive(v)' => HasLive(v) \/ v = u
        /\ OneLiveJobPerTurn'
        /\ \A j \in DOMAIN jobs' :
             jobs'[j].turn = u \/ \E i \in DOMAIN jobs : jobs'[j].turn = jobs[i].turn
    BY <2>1, <2>2, SendKeepsOne
  <2>6. \A v \in Turns : turns[v].status # "none" => turns'[v].status # "none"
    BY <2>3
  <2>7. \A v \in received' : turns'[v].status = "none"
    BY <2>1, <2>3 DEF LiveInv, TypeOK
  <2>8. \A j \in DOMAIN jobs' : turns'[jobs'[j].turn].status # "none"
    <3> SUFFICES ASSUME NEW j \in DOMAIN jobs'
                 PROVE  turns'[jobs'[j].turn].status # "none"
      OBVIOUS
    <3>1. CASE jobs'[j].turn = u
      BY <2>3, <3>1
    <3>2. CASE jobs'[j].turn # u
      <4>1. PICK i \in DOMAIN jobs : jobs'[j].turn = jobs[i].turn
        BY <2>5, <3>2
      <4>2. jobs[i].turn \in Turns /\ turns[jobs[i].turn].status # "none"
        BY JobTurn DEF LiveInv
      <4>3. QED
        BY <2>6, <4>1, <4>2
    <3>3. QED
      BY <3>1, <3>2
  <2>9. \A v \in boot'.todo \cup boot'.orphans : turns'[v].status # "none"
    BY <2>1, <2>6 DEF LiveInv, TypeOK, Boot
  <2>10. \A v \in boot'.orphans : ~HasLive(v)'
    BY <2>1, <2>4, <2>5 DEF LiveInv
  <2>11. boot'.pc \in {"requeue", "task", "send"} =>
           \A v \in Turns : NextInterrupted(v)' => ~HasLive(v)'
    BY <2>1, <2>4, <2>5 DEF LiveInv, NextInterrupted
  <2>12. QED
    BY <2>1, <2>5, <2>7, <2>8, <2>9, <2>10, <2>11 DEF LiveInv
<1>3. QED
  BY <1>1, <1>2

--------------------------------------------------------------------------------
\* The recovery.

LEMMA CrashKeepsLive ==
  ASSUME TypeOK, LiveInv, CrashAndRestart
  PROVE  LiveInv'
<1>1. /\ UNCHANGED <<turns, jobs>> /\ received' = {}
      /\ boot'.pc \in {"queued", "release"}
      /\ boot'.todo = RunningTurns /\ boot'.orphans = {}
  BY DEF CrashAndRestart, database
<1>2. \A u \in RunningTurns : turns[u].status # "none"
  BY DEF RunningTurns
<1>3. QED
  BY <1>1, <1>2 DEF LiveInv, HasLive, OneLiveJobPerTurn, Live

\* The next interrupted turn is one turn.
LEMMA OneNext ==
  ASSUME TypeOK, NEW u, NEW v, NextInterrupted(u), NextInterrupted(v)
  PROVE  u = v /\ u \in Turns /\ u \in Nat
<1>1. u \in boot.todo /\ v \in boot.todo /\ u <= v /\ v <= u
  BY DEF NextInterrupted
<1>2. u \in Turns /\ v \in Turns /\ u \in Nat /\ v \in Nat
  BY <1>1, TurnsAssumption DEF TypeOK, Boot
<1>3. QED
  BY <1>1, <1>2

LEMMA BootKeepsLive ==
  ASSUME TypeOK, StopInv, StoreStep, LiveInv, BootStep
  PROVE  LiveInv'
<1>0. /\ boot \in Boot /\ boot.todo \subseteq Turns /\ boot.orphans \subseteq Turns
      /\ turns \in [Turns -> Row] /\ jobs \in Seq(Job)
  BY DEF TypeOK, StoreOK, Boot
<1>1. CASE BootRelease
  <2>1. PICK u \in boot.todo :
          NextInterrupted(u) /\ jobs' = ReleaseTaskSingleton(jobs, TurnsOf(TaskOf[u]))
    BY <1>1 DEF BootRelease
  <2>2. /\ UNCHANGED <<turns, received>> /\ boot.pc = "release"
        /\ boot'.pc = "requeue" /\ boot'.todo = boot.todo
        /\ boot'.orphans = boot.orphans
    BY <1>0, <1>1 DEF BootRelease, Boot
  <2>3. Fades(jobs, jobs') /\ ~HasLive(u)'
    <3>1. u \in TurnsOf(TaskOf[u])
      BY <1>0 DEF TurnsOf
    <3>2. QED
      BY <1>0, <2>1, <3>1, ReleaseFades DEF HasLive, Fades
  <2>4. \A v \in Turns : NextInterrupted(v)' => v = u
    BY <2>1, <2>2, OneNext DEF NextInterrupted
  <2>5. QED
    BY <2>2, <2>3, <2>4, SameWritesNone, QuietKeepsLive DEF LiveInv
<1>2. CASE BootRequeue
  <2>1. PICK u \in boot.todo :
          turns' = [turns EXCEPT ![u] = RequeueInterruptedTurn(turns[u])]
    BY <1>2 DEF BootRequeue
  <2>2. /\ UNCHANGED <<jobs, received>> /\ boot.pc = "requeue"
        /\ boot'.pc = "task" /\ boot'.todo = boot.todo
        /\ boot'.orphans = boot.orphans
    BY <1>0, <1>2 DEF BootRequeue, Boot
  <2>3. WritesNone
    BY <1>0, <2>1, NoneStays, OneRowWritesNone
  <2>4. \A v \in Turns : NextInterrupted(v)' => ~HasLive(v)'
    BY <2>2 DEF LiveInv, NextInterrupted, HasLive, Live
  <2>5. QED
    BY <2>2, <2>3, <2>4, SameFades, QuietKeepsLive DEF LiveInv
<1>3. CASE BootTask
  <2>1. /\ UNCHANGED <<turns, jobs, received>> /\ boot.pc = "task"
        /\ boot'.pc = "send" /\ boot'.todo = boot.todo
        /\ boot'.orphans = boot.orphans
    BY <1>0, <1>3 DEF BootTask, Boot
  <2>2. \A v \in Turns : NextInterrupted(v)' => ~HasLive(v)'
    BY <2>1 DEF LiveInv, NextInterrupted, HasLive, Live
  <2>3. QED
    BY <2>1, <2>2, SameWritesNone, SameFades, QuietKeepsLive DEF LiveInv
<1>4. CASE BootSend
  <2>1. PICK u \in boot.todo :
          /\ NextInterrupted(u) /\ jobs' = Send(jobs, u)
          /\ boot' = [boot EXCEPT !.todo = boot.todo \ {u},
                       !.pc = IF boot.todo = {u} THEN "queued" ELSE "release"]
    BY <1>4 DEF BootSend
  <2>2. /\ UNCHANGED <<turns, received>> /\ boot.pc = "send"
        /\ boot'.pc \in {"queued", "release"} /\ boot'.todo \subseteq boot.todo
        /\ boot'.orphans = boot.orphans
    BY <1>0, <1>4, <2>1 DEF BootSend, Boot
  <2>3. u \in Turns /\ ~HasLive(u) /\ turns[u].status # "none" /\ boot.orphans = {}
    BY <1>0, <2>1, <2>2 DEF LiveInv
  <2>4. /\ OneLiveJobPerTurn'
        /\ \A j \in DOMAIN jobs' :
             jobs'[j].turn = u \/ \E i \in DOMAIN jobs : jobs'[j].turn = jobs[i].turn
    BY <2>1, <2>3, SendKeepsOne
  <2>5. \A j \in DOMAIN jobs' : turns'[jobs'[j].turn].status # "none"
    BY <2>2, <2>3, <2>4 DEF LiveInv
  <2>6. QED
    BY <2>2, <2>3, <2>4, <2>5 DEF LiveInv
<1>5. CASE BootListQueued
  <2>1. /\ UNCHANGED <<turns, jobs, received>> /\ boot.pc = "queued"
        /\ boot'.pc = "find" /\ boot'.orphans = boot.orphans
        /\ boot'.todo = {u \in Turns : turns[u].status = "queued"}
    BY <1>0, <1>5 DEF BootListQueued, Boot, database
  <2>2. QED
    BY <2>1 DEF LiveInv, OneLiveJobPerTurn, Live
<1>6. CASE BootFindJobs
  <2>1. UNCHANGED <<turns, jobs, received>> /\ boot.pc = "find" /\ boot.orphans = {}
    BY <1>6 DEF BootFindJobs, database, LiveInv
  <2>2. CASE boot.todo = {}
    <3>1. boot'.pc = "done" /\ boot'.todo = boot.todo /\ boot'.orphans = {}
      BY <1>0, <1>6, <2>1, <2>2 DEF BootFindJobs, Boot
    <3>2. QED
      BY <2>1, <3>1 DEF LiveInv, OneLiveJobPerTurn, Live
  <2>3. CASE boot.todo # {}
    <3>1. PICK u \in boot.todo :
            boot' = [boot EXCEPT !.pc = "orphans",
                       !.todo = boot.todo \ TurnsOf(TaskOf[u]),
                       !.orphans = (boot.todo \cap TurnsOf(TaskOf[u])) \
                         {jobs[j].turn : j \in LiveJobs(jobs, TurnsOf(TaskOf[u]))}]
      BY <1>6, <2>3 DEF BootFindJobs
    <3>2. /\ boot'.pc = "orphans" /\ boot'.todo \subseteq boot.todo
          /\ boot'.orphans \subseteq boot.todo
          /\ boot'.orphans = (boot.todo \cap TurnsOf(TaskOf[u])) \
               {jobs[j].turn : j \in LiveJobs(jobs, TurnsOf(TaskOf[u]))}
      BY <1>0, <3>1 DEF Boot
    <3>3. \A v \in boot'.orphans : ~HasLive(v)
      BY <3>2 DEF HasLive, LiveJobs
    <3>4. \A v : HasLive(v)' <=> HasLive(v)
      BY <2>1 DEF HasLive, Live
    <3>5. QED
      BY <2>1, <3>2, <3>3, <3>4 DEF LiveInv, OneLiveJobPerTurn, Live
  <2>4. QED
    BY <2>2, <2>3
<1>7. CASE BootSendOrphan
  <2>1. UNCHANGED <<turns, received>> /\ boot.pc = "orphans"
    BY <1>7 DEF BootSendOrphan
  <2>2. CASE boot.orphans = {}
    <3>1. /\ jobs' = jobs /\ boot'.pc = "find" /\ boot'.todo = boot.todo
          /\ boot'.orphans = {}
      BY <1>0, <1>7, <2>2 DEF BootSendOrphan, Boot
    <3>2. QED
      BY <2>1, <3>1 DEF LiveInv, OneLiveJobPerTurn, Live
  <2>3. CASE boot.orphans # {}
    <3>1. PICK u \in boot.orphans :
            jobs' = Send(jobs, u) /\ boot' = [boot EXCEPT !.orphans = boot.orphans \ {u}]
      BY <1>7, <2>3 DEF BootSendOrphan
    <3>2. /\ boot'.pc = "orphans" /\ boot'.todo = boot.todo
          /\ boot'.orphans = boot.orphans \ {u}
      BY <1>0, <2>1, <3>1 DEF Boot
    <3>3. u \in Turns /\ ~HasLive(u) /\ turns[u].status # "none"
      BY <1>0 DEF LiveInv
    <3>4. /\ \A v : HasLive(v)' => HasLive(v) \/ v = u
          /\ OneLiveJobPerTurn'
          /\ \A j \in DOMAIN jobs' :
               jobs'[j].turn = u \/ \E i \in DOMAIN jobs : jobs'[j].turn = jobs[i].turn
      BY <3>1, <3>3, SendKeepsOne
    <3>5. \A j \in DOMAIN jobs' : turns'[jobs'[j].turn].status # "none"
      BY <2>1, <3>3, <3>4 DEF LiveInv
    <3>6. \A v \in boot'.orphans : ~HasLive(v)'
      BY <3>2, <3>4 DEF LiveInv
    <3>7. QED
      BY <2>1, <3>2, <3>4, <3>5, <3>6 DEF LiveInv
  <2>4. QED
    BY <2>2, <2>3
<1>8. QED
  BY <1>1, <1>2, <1>3, <1>4, <1>5, <1>6, <1>7 DEF BootStep

--------------------------------------------------------------------------------
\* Together.

LEMMA InitLive ==
  Init => LiveInv
BY DEF Init, LiveInv, NoBoot, HasLive, OneLiveJobPerTurn

LEMMA NextLive ==
  TypeOK /\ StopInv /\ LiveInv /\ [Next]_vars => LiveInv'
<1> SUFFICES ASSUME TypeOK, StopInv, LiveInv, [Next]_vars
             PROVE  LiveInv'
  OBVIOUS
<1>0. StoreStep
  BY NextStoreStep
<1>1. CASE \E u \in Turns : ReceiveMessage(u) \/ IntakeTurn(u)
  BY <1>0, <1>1, IntakeKeepsLive
<1>2. ASSUME NEW h \in Handlers,
             \/ HandlerStep(h) \/ StepThrows(h)
             \/ \E j \in DOMAIN jobs : DeliverJob(h, j)
      PROVE  LiveInv'
  BY <1>0, <1>2, WorkerKeepsLive
<1>3. CASE \/ \E t \in Tasks : AgentEnds(t) \/ AgentErrs(t) \/ HandleEvent(t)
           \/ \E t \in Tasks : StopTask(t) \/ DoneTask(t) \/ ControlStep(t)
           \/ \E j \in DOMAIN jobs : JobTimesOut(j)
  BY <1>0, <1>3, OthersKeepLive
<1>4. CASE CrashAndRestart
  BY <1>4, CrashKeepsLive
<1>5. CASE BootStep
  BY <1>0, <1>5, BootKeepsLive
<1>6. CASE UNCHANGED vars
  BY <1>6 DEF vars, LiveInv, HasLive, NextInterrupted, OneLiveJobPerTurn, Live
<1>7. QED
  BY <1>1, <1>2, <1>3, <1>4, <1>5, <1>6 DEF Next

\* The recovery looks jobs up and sends jobs while the worker takes them and the
\* intake adds turns, and still no turn ever has two live jobs: not after any
\* number of crashes, nor when a crash interrupts the recovery itself.
THEOREM NoSecondJob == Spec => []OneLiveJobPerTurn
<1>1. LiveInv => OneLiveJobPerTurn
  BY DEF LiveInv
<1>2. QED
  BY <1>1, InitLive, NextLive, StopInvariant, PTL DEF Spec

--------------------------------------------------------------------------------
\* The recovery after the first crash loses no interrupted turn by itself.

\* A gated turn belongs to a task that was stopped.
GatedEnded == \A u \in Turns : turns[u].cancelReq => Ended(TaskOf[u])

\* What a turn that the recovery found may come to instead of being carried on;
\* none of it is ever taken back.
Excused(u) ==
  \/ Ended(TaskOf[u])
  \/ ~Unsettled(u)
  \/ CancelledUnderHandler(u)
  \/ \E j \in DOMAIN jobs : jobs[j].turn = u /\ jobs[j].state = "failed"

\* Turn u has still to be sent again, and its old job was already cancelled.
Pending(u) == boot.pc \in {"release", "requeue", "task", "send"} /\ u \in boot.todo
Released(u) == boot.pc \in {"requeue", "task", "send"} /\ NextInterrupted(u)

\* A handler works on the active job of its turn, or its job was cancelled under
\* it; the active job of a task is the first of those that are not over.
AtJob ==
  /\ \A h \in Handlers : Busy(h) => jobs[JobOf(h)].state \in {"active", "cancelled"}
  /\ \A h, g \in Handlers : Busy(h) /\ Busy(g) /\ JobOf(h) = JobOf(g) => h = g
  /\ \A i, j \in DOMAIN jobs :
       SameKey(i, j) /\ jobs[i].state = "active" /\ Live(jobs, j) => i <= j

\* A task that goes on had one running turn when the process died.
FoundInv ==
  /\ boot.found \subseteq Turns
  /\ \A u \in boot.found : Written(u)
  /\ boot.pc \in {"release", "requeue", "task", "send"} => boot.todo \subseteq boot.found
  /\ \A u, v \in boot.found : TaskOf[u] = TaskOf[v] => u = v \/ Ended(TaskOf[u])

\* The handler of such a turn will not complete its job before the turn is over.
StepFits(h) ==
  /\ pc[h] \notin {"release", "toWaiting", "failTask", "return"}
  /\ pc[h] \in {"reread", "probe"} \cup RunningSteps => turns[T(h)].status = "running"
  /\ pc[h] \in {"checkpoint", "recheck"} => task[K(h)] = "running"

\* The old job of turn u: no other job of its task was sent before it and is
\* not over, and whoever has it now got it after the crash.
Waits(u) ==
  \E i \in DOMAIN jobs :
    /\ jobs[i].turn = u /\ jobs[i].state \in {"active", "retry"}
    /\ \A j \in DOMAIN jobs : SameKey(i, j) /\ Live(jobs, j) => i <= j
    /\ \A h \in Handlers : Busy(h) /\ JobOf(h) = i => jobs[i].retries > 0

Goes(u) ==
  /\ \A h \in Handlers : Busy(h) /\ K(h) = TaskOf[u] => jobs[JobOf(h)].state = "active"
  /\ \A h \in Handlers : Busy(h) /\ T(h) = u => StepFits(h)
  /\ Pending(u) /\ ~Released(u) => Waits(u)
  /\ ~Pending(u) => HasLive(u)

RecInv ==
  /\ AtJob
  /\ FoundInv
  /\ \A u \in boot.found : Excused(u) \/ Goes(u)

--------------------------------------------------------------------------------
\* Gates, and what excuses a turn.

LEMMA NextGated ==
  ASSUME TypeOK, StopInv, StoreStep, GatedEnded
  PROVE  GatedEnded'
<1> SUFFICES ASSUME NEW u \in Turns, turns'[u].cancelReq
             PROVE  task'[TaskOf[u]] \in TerminalTaskStatuses
  BY DEF GatedEnded, Ended
<1>1. TaskOf[u] \in Tasks /\ turns[u] \in Row
  BY TaskOfAssumption DEF TypeOK, StoreOK
<1>2. CASE FollowsEdges(turns[u], turns'[u])
  <2>1. turns[u].cancelReq
    BY <1>2 DEF FollowsEdges
  <2>2. task[TaskOf[u]] \in TerminalTaskStatuses
    BY <2>1 DEF GatedEnded, Ended
  <2>3. QED
    BY <1>1, <2>2, EndedStays
<1>3. CASE \E t \in Tasks : u \in control[t].gate
  <2>1. PICK t \in Tasks : u \in control[t].gate
    BY <1>3
  <2>2. TaskOf[u] = t /\ task[t] \in TerminalTaskStatuses
    BY <2>1 DEF StopInv, TurnsOf, TerminalTaskStatuses
  <2>3. QED
    BY <2>2, EndedStays
<1>4. QED
  BY <1>2, <1>3, RowAfter

LEMMA SettledStays ==
  ASSUME TypeOK, StopInv, StoreStep, NEW u \in Turns, Written(u), ~Unsettled(u)
  PROVE  ~Unsettled(u)'
<1>1. turns[u] \in Row /\ turns[u].status \in TerminalTurnStatuses
  BY DEF TypeOK, StoreOK, Row, TurnStatus, TerminalTurnStatuses, Written, Unsettled
<1>2. CASE FollowsEdges(turns[u], turns'[u])
  BY <1>1, <1>2
  DEF FollowsEdges, Lifecycle!GatedEdges, Lifecycle!TurnEdges, Unsettled,
      TerminalTurnStatuses
<1>3. CASE turns'[u] = RequestCancel(turns[u])
  <2>1. turns'[u].status = turns[u].status
    BY <1>1, <1>3 DEF RequestCancel, Row
  <2>2. QED
    BY <1>1, <2>1 DEF Unsettled, TerminalTurnStatuses
<1>4. QED
  BY <1>2, <1>3, RowAfter

\* No job is removed or moved, and what failed or was cancelled stays so.
Lasts(old, new) ==
  /\ DOMAIN old \subseteq DOMAIN new
  /\ \A j \in DOMAIN old :
       /\ new[j].turn = old[j].turn
       /\ old[j].state \in {"cancelled", "failed"} => new[j] = old[j]

LEMMA ExcusedStays ==
  ASSUME TypeOK, StopInv, StoreStep, Lasts(jobs, jobs'),
         NEW u \in Turns, Written(u), Excused(u)
  PROVE  Excused(u)'
<1>1. CASE Ended(TaskOf[u])
  <2>1. TaskOf[u] \in Tasks
    BY TaskOfAssumption
  <2>2. task'[TaskOf[u]] \in TerminalTaskStatuses
    BY <1>1, <2>1, EndedStays DEF Ended
  <2>3. QED
    BY <2>2 DEF Excused, Ended
<1>2. CASE ~Unsettled(u)
  BY <1>2, SettledStays DEF Excused
<1>3. CASE CancelledUnderHandler(u)
  <2>1. CancelledUnderHandler(u)'
    BY <1>3 DEF CancelledUnderHandler, Lasts
  <2>2. QED
    BY <2>1 DEF Excused
<1>4. CASE \E j \in DOMAIN jobs : jobs[j].turn = u /\ jobs[j].state = "failed"
  <2>1. \E j \in DOMAIN jobs' : jobs'[j].turn = u /\ jobs'[j].state = "failed"
    BY <1>4 DEF Lasts
  <2>2. QED
    BY <2>1 DEF Excused
<1>5. QED
  BY <1>1, <1>2, <1>3, <1>4 DEF Excused

--------------------------------------------------------------------------------
\* What a step does to the queue.

\* Jobs are added behind the others, and none becomes active or live again.
Ages(old, new) ==
  /\ DOMAIN old \subseteq DOMAIN new
  /\ \A j \in DOMAIN new : j \notin DOMAIN old =>
       new[j].state = "created" /\ \A i \in DOMAIN old : i <= j
  /\ \A j \in DOMAIN old :
       /\ new[j].turn = old[j].turn
       /\ Live(new, j) => Live(old, j)
       /\ new[j].state = "active" => old[j].state = "active"

LEMMA SameAges ==
  UNCHANGED jobs => Ages(jobs, jobs') /\ Lasts(jobs, jobs')
BY DEF Ages, Lasts, Live

LEMMA SendAges ==
  ASSUME TypeOK, NEW u \in Turns, jobs' = Send(jobs, u)
  PROVE  /\ Ages(jobs, jobs') /\ Lasts(jobs, jobs')
         /\ \A j \in DOMAIN jobs : jobs'[j] = jobs[j]
         /\ HasLive(u)'
<1> DEFINE n == Len(jobs)
           job == [turn |-> u, state |-> "created", retries |-> 0]
<1>1. job \in Job /\ job.turn = u /\ job.state = "created"
  BY DEF Job, JobState, LiveJobStates
<1>2. jobs \in Seq(Job) /\ jobs' = Append(jobs, job)
  BY DEF TypeOK, Send
<1> HIDE DEF job
<1>3. /\ DOMAIN jobs = 1 .. n /\ DOMAIN jobs' = 1 .. n + 1 /\ n \in Nat
      /\ \A j \in DOMAIN jobs : jobs'[j] = jobs[j]
      /\ jobs'[n + 1] = job
  BY <1>1, <1>2
<1> HIDE DEF n
<1>4. n + 1 \in DOMAIN jobs' /\ DOMAIN jobs \subseteq DOMAIN jobs'
  BY <1>3
<1>5. ASSUME NEW j \in DOMAIN jobs', j \notin DOMAIN jobs
      PROVE  j = n + 1 /\ jobs'[j].state = "created" /\ \A i \in DOMAIN jobs : i <= j
  BY <1>1, <1>3, <1>5
<1>6. Ages(jobs, jobs') /\ Lasts(jobs, jobs')
  BY <1>3, <1>4, <1>5 DEF Ages, Lasts, Live
<1>7. HasLive(u)'
  BY <1>1, <1>3, <1>4 DEF HasLive, Live, LiveJobStates
<1>8. QED
  BY <1>3, <1>6, <1>7

LEMMA ReleaseAges ==
  ASSUME TypeOK, NEW keyed, jobs' = ReleaseTaskSingleton(jobs, keyed)
  PROVE  /\ Ages(jobs, jobs') /\ Lasts(jobs, jobs')
         /\ DOMAIN jobs' = DOMAIN jobs
         /\ \A j \in DOMAIN jobs :
              /\ jobs[j].turn \notin keyed => jobs'[j] = jobs[j]
              /\ jobs[j].turn \in keyed /\ Live(jobs, j) =>
                   jobs'[j].state = "cancelled" /\ jobs'[j].retries = jobs[j].retries
              /\ jobs'[j].state \in {jobs[j].state, "cancelled"}
<1>1. DOMAIN jobs' = DOMAIN jobs
  BY DEF ReleaseTaskSingleton
<1>2. ASSUME NEW j \in DOMAIN jobs
      PROVE  /\ jobs'[j].turn = jobs[j].turn
             /\ jobs[j].turn \notin keyed => jobs'[j] = jobs[j]
             /\ ~Live(jobs, j) => jobs'[j] = jobs[j]
             /\ jobs[j].turn \in keyed /\ Live(jobs, j) =>
                  jobs'[j].state = "cancelled" /\ jobs'[j].retries = jobs[j].retries
  <2> DEFINE job == [jobs[j] EXCEPT !.state = "cancelled"]
  <2>1. jobs[j] \in Job
    BY DEF TypeOK
  <2>2. jobs'[j] = IF j \in LiveJobs(jobs, keyed) THEN job ELSE jobs[j]
    BY DEF ReleaseTaskSingleton
  <2>3. /\ job.turn = jobs[j].turn /\ job.state = "cancelled"
        /\ job.retries = jobs[j].retries
    BY <2>1 DEF Job
  <2>4. j \in LiveJobs(jobs, keyed) <=> jobs[j].turn \in keyed /\ Live(jobs, j)
    BY DEF LiveJobs
  <2> HIDE DEF job
  <2>5. QED
    BY <2>2, <2>3, <2>4
<1>3. \A j \in DOMAIN jobs : jobs'[j] = jobs[j] \/ jobs'[j].state = "cancelled"
  BY <1>2
<1>4. "cancelled" \notin LiveJobStates /\ "failed" \notin LiveJobStates
  BY DEF LiveJobStates
<1>5. Ages(jobs, jobs')
  BY <1>1, <1>2, <1>3, <1>4 DEF Ages, Live
<1>6. Lasts(jobs, jobs')
  BY <1>1, <1>2, <1>4 DEF Lasts, Live
<1>7. QED
  BY <1>1, <1>2, <1>3, <1>5, <1>6

\* A job that its handler gives back or that is given up.
JobEnds(j) ==
  /\ DOMAIN jobs' = DOMAIN jobs
  /\ \A i \in DOMAIN jobs : i # j => jobs'[i] = jobs[i]
  /\ jobs'[j].turn = jobs[j].turn
  /\ \/ jobs'[j] = jobs[j] /\ jobs[j].state # "active"
     \/ jobs[j].state = "active" /\ jobs'[j].state \in {"retry", "failed", "completed"}

LEMMA EndsAges ==
  ASSUME TypeOK, NEW j \in DOMAIN jobs, JobEnds(j)
  PROVE  Ages(jobs, jobs') /\ Lasts(jobs, jobs')
<1>1. \A i \in DOMAIN jobs : jobs'[i].turn = jobs[i].turn
  BY DEF JobEnds
<1>2. \A i \in DOMAIN jobs :
        \/ jobs'[i] = jobs[i]
        \/ /\ jobs[i].state = "active"
           /\ jobs'[i].state \in {"retry", "failed", "completed"}
  BY DEF JobEnds
<1>3. \A i \in DOMAIN jobs : Live(jobs', i) => Live(jobs, i)
  BY <1>2 DEF Live, LiveJobStates
<1>4. QED
  BY <1>1, <1>2, <1>3 DEF JobEnds, Ages, Lasts

LEMMA QueueEnds ==
  ASSUME TypeOK, NEW j \in DOMAIN jobs
  PROVE  /\ jobs' = CompleteJob(jobs, j) => JobEnds(j)
         /\ jobs' = FailJob(jobs, j, RetryLimit) =>
              (JobEnds(j) /\ jobs'[j].state # "completed") \/ jobs' = jobs
<1>1. jobs[j] \in Job /\ jobs \in Seq(Job)
  BY DEF TypeOK
<1>2. ASSUME NEW state \in {"retry", "failed", "completed"}, jobs[j].state = "active",
             jobs' = [jobs EXCEPT ![j].state = state]
      PROVE  JobEnds(j) /\ jobs'[j].state = state
  <2> DEFINE job == [jobs[j] EXCEPT !.state = state]
  <2>1. job.turn = jobs[j].turn /\ job.state = state
    BY <1>1 DEF Job
  <2>2. jobs' = [jobs EXCEPT ![j] = job]
    BY <1>2
  <2> HIDE DEF job
  <2>3. QED
    BY <1>1, <1>2, <2>1, <2>2 DEF JobEnds
<1>3. ASSUME jobs' = CompleteJob(jobs, j)
      PROVE  JobEnds(j)
  <2>1. CASE jobs[j].state = "active"
    BY <1>2, <1>3, <2>1 DEF CompleteJob
  <2>2. CASE jobs[j].state # "active"
    BY <1>3, <2>2 DEF CompleteJob, JobEnds
  <2>3. QED
    BY <2>1, <2>2
<1>4. ASSUME jobs' = FailJob(jobs, j, RetryLimit), jobs[j].state = "active"
      PROVE  JobEnds(j) /\ jobs'[j].state # "completed"
  <2>1. CASE jobs[j].retries < RetryLimit
    <3>1. jobs' = [jobs EXCEPT ![j].state = "retry"]
      BY <1>4, <2>1 DEF FailJob
    <3>2. JobEnds(j) /\ jobs'[j].state = "retry"
      BY <1>2, <1>4, <3>1
    <3>3. QED
      BY <3>2
  <2>2. CASE ~(jobs[j].retries < RetryLimit)
    <3>1. jobs' = [jobs EXCEPT ![j].state = "failed"]
      BY <1>4, <2>2 DEF FailJob
    <3>2. JobEnds(j) /\ jobs'[j].state = "failed"
      BY <1>2, <1>4, <3>1
    <3>3. QED
      BY <3>2
  <2>3. QED
    BY <2>1, <2>2
<1>5. jobs[j].state # "active" => FailJob(jobs, j, RetryLimit) = jobs
  BY DEF FailJob
<1>6. QED
  BY <1>3, <1>4, <1>5

--------------------------------------------------------------------------------
\* What a step keeps that moves no handler forward.

\* Handlers stay where they are, or leave.
HandlersKeep ==
  \A h \in Handlers : pc'[h] # "idle" =>
    pc'[h] = pc[h] /\ run'[h].job = run[h].job /\ run'[h].turn = run[h].turn

LEMMA KeptHandler ==
  ASSUME HandlersKeep, NEW h \in Handlers, Busy(h)'
  PROVE  /\ Busy(h) /\ JobOf(h)' = JobOf(h) /\ T(h)' = T(h) /\ K(h)' = K(h)
         /\ pc'[h] = pc[h]
BY DEF HandlersKeep, Busy, JobOf, T, K

LEMMA OrderStays ==
  ASSUME TypeOK, AtJob, Ages(jobs, jobs'),
         NEW i \in DOMAIN jobs', NEW j \in DOMAIN jobs',
         TaskOf[jobs'[i].turn] = TaskOf[jobs'[j].turn],
         jobs'[i].state = "active", Live(jobs', j)
  PROVE  i <= j
<1>1. i \in DOMAIN jobs
  BY DEF Ages
<1>2. CASE j \in DOMAIN jobs
  BY <1>1, <1>2 DEF Ages, AtJob, SameKey
<1>3. CASE j \notin DOMAIN jobs
  BY <1>1, <1>3 DEF Ages
<1>4. QED
  BY <1>2, <1>3

LEMMA AtJobStays ==
  ASSUME TypeOK, AtJob, HandlersKeep, Ages(jobs, jobs'),
         \A h \in Handlers :
           pc'[h] # "idle" => jobs'[run[h].job].state \in {"active", "cancelled"}
  PROVE  AtJob'
<1>1. \A h \in Handlers : Busy(h)' => jobs'[JobOf(h)'].state \in {"active", "cancelled"}
  BY KeptHandler DEF Busy, JobOf
<1>2. \A h, g \in Handlers : Busy(h)' /\ Busy(g)' /\ JobOf(h)' = JobOf(g)' => h = g
  BY KeptHandler DEF AtJob
<1>3. QED
  BY <1>1, <1>2, OrderStays DEF AtJob, SameKey

\* The old job of a turn stays where it is while no job of its task comes to
\* life before it and its state stays.
LEMMA WaitsStays ==
  ASSUME TypeOK, HandlersKeep, Ages(jobs, jobs'), NEW u \in Turns, Waits(u),
         \A j \in DOMAIN jobs : jobs[j].turn = u => jobs'[j] = jobs[j]
  PROVE  Waits(u)'
<1>1. PICK i \in DOMAIN jobs :
        /\ jobs[i].turn = u /\ jobs[i].state \in {"active", "retry"}
        /\ \A j \in DOMAIN jobs : SameKey(i, j) /\ Live(jobs, j) => i <= j
        /\ \A h \in Handlers : Busy(h) /\ JobOf(h) = i => jobs[i].retries > 0
  BY DEF Waits
<1>2. i \in DOMAIN jobs' /\ jobs'[i] = jobs[i]
  BY <1>1 DEF Ages
<1>3. ASSUME NEW j \in DOMAIN jobs', TaskOf[jobs'[i].turn] = TaskOf[jobs'[j].turn],
             Live(jobs', j)
      PROVE  i <= j
  <2>1. CASE j \in DOMAIN jobs
    BY <1>1, <1>2, <1>3, <2>1 DEF Ages, SameKey
  <2>2. CASE j \notin DOMAIN jobs
    BY <1>1, <1>3, <2>2 DEF Ages
  <2>3. QED
    BY <2>1, <2>2
<1>4. \A h \in Handlers : Busy(h)' /\ JobOf(h)' = i => jobs'[i].retries > 0
  BY <1>1, <1>2, KeptHandler
<1>5. QED
  BY <1>1, <1>2, <1>3, <1>4 DEF Waits, SameKey

LEMMA HasLiveStays ==
  ASSUME Lasts(jobs, jobs'), NEW u \in Turns, HasLive(u),
         \A j \in DOMAIN jobs : jobs[j].turn = u => jobs'[j] = jobs[j]
  PROVE  HasLive(u)'
BY DEF Lasts, HasLive, Live

\* A turn goes on if its row, its task and the jobs of its task are left alone,
\* and the recovery does not come to it.
LEMMA GoesStays ==
  ASSUME TypeOK, HandlersKeep, Ages(jobs, jobs'), Lasts(jobs, jobs'),
         NEW u \in Turns, Goes(u),
         \/ turns'[u] = turns[u] /\ task'[TaskOf[u]] = task[TaskOf[u]]
         \/ \A h \in Handlers : Busy(h) => T(h) # u,
         \A j \in DOMAIN jobs : jobs[j].turn = u => jobs'[j] = jobs[j],
         \A h \in Handlers : pc'[h] # "idle" /\ K(h) = TaskOf[u] =>
           jobs'[run[h].job].state = "active",
         Pending(u)' <=> Pending(u),
         Released(u)' \/ (~Released(u)' /\ ~Released(u))
  PROVE  Goes(u)'
<1>1. \A h \in Handlers : Busy(h)' /\ K(h)' = TaskOf[u] => jobs'[JobOf(h)'].state = "active"
  BY KeptHandler DEF Busy, JobOf
<1>2. ASSUME NEW h \in Handlers, Busy(h)', T(h)' = u
      PROVE  StepFits(h)'
  <2>1. Busy(h) /\ T(h) = u /\ K(h) = TaskOf[u] /\ T(h)' = u /\ K(h)' = TaskOf[u]
        /\ pc'[h] = pc[h]
    BY <1>2, KeptHandler DEF K, T
  <2>2. StepFits(h) /\ turns'[u] = turns[u] /\ task'[TaskOf[u]] = task[TaskOf[u]]
    BY <2>1 DEF Goes
  <2>3. QED
    BY <2>1, <2>2 DEF StepFits
<1>3. Pending(u)' /\ ~Released(u)' => Waits(u)'
  BY WaitsStays DEF Goes
<1>4. ~Pending(u)' => HasLive(u)'
  BY HasLiveStays DEF Goes
<1>5. QED
  BY <1>1, <1>2, <1>3, <1>4 DEF Goes

--------------------------------------------------------------------------------
\* Steps beside the recovery, after the crash.

\* A step that touches neither the recovery nor any job.
LEMMA FoundStays ==
  ASSUME TypeOK, StopInv, StoreStep, FoundInv, UNCHANGED boot
  PROVE  FoundInv'
<1>1. \A u \in boot.found : Written(u)'
  BY WrittenStays DEF FoundInv, Written
<1>2. ASSUME NEW u \in boot.found, Ended(TaskOf[u])
      PROVE  Ended(TaskOf[u])'
  <2>1. TaskOf[u] \in Tasks
    BY TaskOfAssumption DEF FoundInv
  <2>2. QED
    BY <1>2, <2>1, EndedStays DEF Ended
<1>3. QED
  BY <1>1, <1>2 DEF FoundInv

LEMMA SameBoot ==
  ASSUME UNCHANGED boot, NEW u
  PROVE  (Pending(u)' <=> Pending(u)) /\ (Released(u)' <=> Released(u))
BY DEF Pending, Released, NextInterrupted

\* Every found turn separately.
LEMMA RecStays ==
  ASSUME TypeOK, StopInv, StoreStep, RecInv, UNCHANGED boot, Lasts(jobs, jobs'),
         AtJob',
         \A u \in boot.found : Goes(u) => Excused(u)' \/ Goes(u)'
  PROVE  RecInv'
<1>1. FoundInv'
  BY FoundStays DEF RecInv
<1>2. ASSUME NEW u \in boot.found
      PROVE  Excused(u)' \/ Goes(u)'
  <2>1. u \in Turns /\ Written(u)
    BY DEF RecInv, FoundInv
  <2>2. CASE Excused(u)
    BY <2>1, <2>2, ExcusedStays
  <2>3. CASE Goes(u)
    BY <2>3
  <2>4. QED
    BY <2>2, <2>3 DEF RecInv
<1>3. QED
  BY <1>1, <1>2 DEF RecInv

\* Agents, reports, and messages that are read.
LEMMA QuietRec ==
  ASSUME TypeOK, StopInv, StoreStep, RecInv, HandlersKeep,
         UNCHANGED <<task, turns, jobs, boot>>
  PROVE  RecInv'
<1>1. Ages(jobs, jobs') /\ Lasts(jobs, jobs')
  BY SameAges
<1>2. \A h \in Handlers :
        pc'[h] # "idle" => jobs'[run[h].job].state \in {"active", "cancelled"}
  BY DEF RecInv, AtJob, Busy, JobOf, HandlersKeep
<1>3. AtJob'
  BY <1>1, <1>2, AtJobStays DEF RecInv
<1>4. ASSUME NEW u \in boot.found, Goes(u)
      PROVE  Goes(u)'
  <2>1. u \in Turns
    BY DEF RecInv, FoundInv
  <2>2. \A h \in Handlers : pc'[h] # "idle" /\ K(h) = TaskOf[u] =>
          jobs'[run[h].job].state = "active"
    BY <1>4 DEF Goes, Busy, JobOf, HandlersKeep
  <2>3. QED
    BY <1>1, <1>4, <2>1, <2>2, GoesStays, SameBoot
<1>5. QED
  BY <1>1, <1>3, <1>4, RecStays

LEMMA AgentRec ==
  ASSUME TypeOK, StopInv, StoreStep, RecInv, NEW t \in Tasks,
         AgentEnds(t) \/ AgentErrs(t) \/ HandleEvent(t)
  PROVE  RecInv'
<1>1. run \in [Handlers -> RunRecord]
  BY DEF TypeOK, HandlersOK
<1>2. UNCHANGED <<task, turns, jobs, boot, pc>>
  BY DEF AgentEnds, AgentErrs, HandleEvent, database, handlers
<1>3. \A h \in Handlers : run'[h].job = run[h].job /\ run'[h].turn = run[h].turn
  <2>1. CASE HandleEvent(t)
    <3>1. PICK kind : ResolveTurnOutcome(t, kind)
      BY <2>1 DEF HandleEvent
    <3>2. QED
      BY <1>1, <3>1, OutcomeUpdate DEF ResolveTurnOutcome
  <2>2. CASE ~HandleEvent(t)
    BY <2>2 DEF AgentEnds, AgentErrs, handlers
  <2>3. QED
    BY <2>1, <2>2
<1>4. QED
  BY <1>2, <1>3, QuietRec DEF HandlersKeep

\* The intake writes rows that the recovery did not find.
LEMMA IntakeRec ==
  ASSUME TypeOK, TypeOK', StopInv, StoreStep, LiveInv, RecInv, NEW w \in Turns,
         ReceiveMessage(w) \/ IntakeTurn(w)
  PROVE  RecInv'
<1>1. CASE ReceiveMessage(w)
  <2>1. UNCHANGED <<task, turns, jobs, boot, pc, run>>
    BY <1>1 DEF ReceiveMessage, database, handlers
  <2>2. QED
    BY <2>1, QuietRec DEF HandlersKeep
<1>2. CASE IntakeTurn(w)
  <2>1. /\ UNCHANGED <<task, boot, pc, run>> /\ w \in received
        /\ turns' = [turns EXCEPT ![w] = InsertTurn(turns[w])] /\ jobs' = Send(jobs, w)
    BY <1>2 DEF IntakeTurn, handlers
  <2>2. turns[w].status = "none" /\ \A v \in Turns : v # w => turns'[v] = turns[v]
    BY <2>1 DEF LiveInv, TypeOK, StoreOK
  <2>3. HandlersKeep
    BY <2>1 DEF HandlersKeep
  <2>4. /\ Ages(jobs, jobs') /\ Lasts(jobs, jobs')
        /\ \A j \in DOMAIN jobs : jobs'[j] = jobs[j]
    BY <2>1, SendAges
  <2>5. \A h \in Handlers : pc'[h] # "idle" => jobs'[run[h].job] = jobs[run[h].job]
    BY <2>1, <2>4 DEF TypeOK, HandlersOK
  <2>6. AtJob'
    BY <2>1, <2>3, <2>4, <2>5, AtJobStays DEF RecInv, AtJob, Busy, JobOf
  <2>7. ASSUME NEW u \in boot.found, Goes(u)
        PROVE  Goes(u)'
    <3>1. u \in Turns /\ u # w
      BY <2>2 DEF RecInv, FoundInv, Written
    <3>2. turns'[u] = turns[u] /\ task'[TaskOf[u]] = task[TaskOf[u]]
      BY <2>1, <2>2, <3>1
    <3>3. \A h \in Handlers : pc'[h] # "idle" /\ K(h) = TaskOf[u] =>
            jobs'[run[h].job].state = "active"
      BY <2>1, <2>5, <2>7 DEF Goes, Busy, JobOf
    <3>4. QED
      BY <2>1, <2>3, <2>4, <2>7, <3>1, <3>2, <3>3, GoesStays, SameBoot
  <2>8. QED
    BY <2>1, <2>4, <2>6, <2>7, RecStays
<1>3. QED
  BY <1>1, <1>2

--------------------------------------------------------------------------------
\* A job ends or waits for its retry: its handler left, or had left before.

\* The handlers of a task that goes on work on one job, the first that is not
\* over, so that there is one of them.
LEMMA FirstJob ==
  ASSUME TypeOK, RecInv, NEW u \in boot.found, Goes(u),
         NEW h \in Handlers, Busy(h), K(h) = TaskOf[u],
         NEW j \in DOMAIN jobs, TaskOf[jobs[j].turn] = TaskOf[u],
         \A i \in DOMAIN jobs : TaskOf[jobs[i].turn] = TaskOf[u] /\ Live(jobs, i) => j <= i,
         Live(jobs, j)
  PROVE  JobOf(h) = j
<1>1. JobOf(h) \in DOMAIN jobs /\ TaskOf[jobs[JobOf(h)].turn] = TaskOf[u]
  BY HandlerFacts
<1>2. jobs[JobOf(h)].state = "active"
  BY DEF Goes
<1>3. Live(jobs, JobOf(h))
  BY <1>2 DEF Live, LiveJobStates
<1>4. j <= JobOf(h)
  BY <1>1, <1>3
<1>5. JobOf(h) <= j
  BY <1>1, <1>2 DEF RecInv, AtJob, SameKey
<1>6. QED
  BY <1>1, <1>4, <1>5, JobFacts

LEMMA OneWorker ==
  ASSUME TypeOK, RecInv, NEW u \in boot.found, Goes(u),
         NEW h \in Handlers, NEW g \in Handlers, Busy(h), Busy(g),
         K(h) = TaskOf[u], K(g) = TaskOf[u]
  PROVE  h = g
<1>1. /\ JobOf(h) \in DOMAIN jobs /\ TaskOf[jobs[JobOf(h)].turn] = TaskOf[u]
      /\ JobOf(g) \in DOMAIN jobs /\ TaskOf[jobs[JobOf(g)].turn] = TaskOf[u]
  BY HandlerFacts
<1>2. jobs[JobOf(h)].state = "active" /\ jobs[JobOf(g)].state = "active"
  BY DEF Goes
<1>3. Live(jobs, JobOf(h)) /\ Live(jobs, JobOf(g))
  BY <1>2 DEF Live, LiveJobStates
<1>4. JobOf(h) <= JobOf(g) /\ JobOf(g) <= JobOf(h)
  BY <1>1, <1>2, <1>3 DEF RecInv, AtJob, SameKey
<1>5. JobOf(h) = JobOf(g)
  BY <1>1, <1>4, JobFacts
<1>6. QED
  BY <1>5 DEF RecInv, AtJob

LEMMA EndsRec ==
  ASSUME TypeOK, StopInv, StoreStep, LiveInv, RecInv, HandlersKeep,
         UNCHANGED <<task, turns, boot>>, NEW j \in DOMAIN jobs, JobEnds(j),
         \A h \in Handlers : pc'[h] # "idle" => run[h].job # j,
         \A u \in boot.found : Goes(u) /\ jobs[j].turn = u => jobs'[j].state # "completed"
  PROVE  RecInv'
<1>1. Ages(jobs, jobs') /\ Lasts(jobs, jobs')
  BY EndsAges
<1>2. \A h \in Handlers : pc'[h] # "idle" =>
        run[h].job \in DOMAIN jobs /\ jobs'[run[h].job] = jobs[run[h].job]
  BY DEF HandlersKeep, TypeOK, HandlersOK, JobEnds
<1>3. AtJob'
  BY <1>1, <1>2, AtJobStays DEF RecInv, AtJob, Busy, JobOf, HandlersKeep
<1>4. ASSUME NEW u \in boot.found, Goes(u), ~Excused(u)'
      PROVE  Goes(u)'
  <2>1. u \in Turns
    BY DEF RecInv, FoundInv
  <2>2. \A h \in Handlers : pc'[h] # "idle" /\ K(h) = TaskOf[u] =>
          jobs'[run[h].job].state = "active"
    BY <1>2, <1>4 DEF Goes, Busy, JobOf, HandlersKeep
  <2>3. CASE jobs[j].turn # u \/ jobs'[j] = jobs[j]
    <3>1. \A i \in DOMAIN jobs : jobs[i].turn = u => jobs'[i] = jobs[i]
      BY <2>3 DEF JobEnds
    <3>2. QED
      BY <1>1, <1>4, <2>1, <2>2, <3>1, GoesStays, SameBoot
  <2>4. CASE jobs[j].turn = u /\ jobs'[j] # jobs[j]
    <3>1. jobs[j].state = "active" /\ jobs'[j].state \in {"retry", "failed"}
      BY <1>4, <2>4 DEF JobEnds
    <3>2. j \in DOMAIN jobs' /\ jobs'[j].turn = u /\ jobs'[j].state = "retry"
      BY <1>4, <2>4, <3>1 DEF JobEnds, Excused
    <3>3. HasLive(u)'
      BY <3>2 DEF HasLive, Live, LiveJobStates
    <3>4. Waits(u)'
      <4>1. ASSUME NEW i \in DOMAIN jobs', TaskOf[jobs'[j].turn] = TaskOf[jobs'[i].turn],
                   Live(jobs', i)
            PROVE  j <= i
        <5>1. i \in DOMAIN jobs /\ jobs'[i].turn = jobs[i].turn /\ Live(jobs, i)
          BY <1>1, <4>1 DEF JobEnds, Ages
        <5>2. QED
          BY <2>4, <3>1, <3>2, <4>1, <5>1 DEF RecInv, AtJob, SameKey
      <4>2. \A h \in Handlers : Busy(h)' => JobOf(h)' # j
        BY KeptHandler DEF Busy, JobOf
      <4>3. QED
        BY <3>2, <4>1, <4>2 DEF Waits, SameKey
    <3>5. ASSUME NEW h \in Handlers, Busy(h)'
          PROVE  K(h)' # TaskOf[u]
      <4>1. Busy(h) /\ JobOf(h) # j /\ K(h)' = K(h)
        BY <3>5, KeptHandler DEF Busy, JobOf
      <4>2. ASSUME K(h) = TaskOf[u]
            PROVE  FALSE
        <5>1. Live(jobs, j)
          BY <3>1 DEF Live, LiveJobStates
        <5>2. \A i \in DOMAIN jobs :
                TaskOf[jobs[i].turn] = TaskOf[u] /\ Live(jobs, i) => j <= i
          BY <2>4, <3>1 DEF RecInv, AtJob, SameKey
        <5>3. QED
          BY <1>4, <2>4, <4>1, <4>2, <5>1, <5>2, FirstJob
      <4>3. QED
        BY <4>1, <4>2
    <3>6. \A h \in Handlers : Busy(h)' => T(h)' # u
      BY <3>5 DEF K, T
    <3>7. QED
      BY <3>3, <3>4, <3>5, <3>6 DEF Goes
  <2>5. QED
    BY <2>3, <2>4
<1>5. QED
  BY <1>1, <1>3, <1>4, RecStays

\* A handler returns, or rethrows.
LEMMA LeaveRec ==
  ASSUME TypeOK, StopInv, StoreStep, LiveInv, RecInv, NEW h \in Handlers,
         Return(h) \/ Rethrow(h)
  PROVE  RecInv'
<1>1. Busy(h)
  BY DEF Return, Rethrow, Busy
<1>2. PICK j \in DOMAIN jobs : j = JobOf(h)
  BY <1>1, HandlerFacts
<1>3. /\ pc' = [pc EXCEPT ![h] = "idle"] /\ run' = [run EXCEPT ![h] = NoRun]
      /\ UNCHANGED <<task, turns, boot>>
  BY DEF Return, Rethrow, Leave
<1>4. pc'[h] = "idle" /\ \A g \in Handlers : g # h => pc'[g] = pc[g] /\ run'[g] = run[g]
  BY <1>3 DEF TypeOK, HandlersOK
<1>5. HandlersKeep
  BY <1>4 DEF HandlersKeep
<1>6. \A g \in Handlers : pc'[g] # "idle" => run[g].job # j
  BY <1>1, <1>2, <1>4 DEF RecInv, AtJob, Busy, JobOf
<1>7. CASE jobs' = jobs
  BY <1>3, <1>5, <1>7, QuietRec
<1>8. CASE Return(h) /\ jobs' # jobs
  <2>1. JobEnds(j)
    BY <1>2, <1>8, QueueEnds DEF Return, JobOf
  <2>2. ASSUME NEW u \in boot.found, Goes(u), jobs[j].turn = u
        PROVE  FALSE
    <3>1. T(h) = u
      BY <1>1, <1>2, <2>2, HandlerFacts
    <3>2. StepFits(h)
      BY <1>1, <2>2, <3>1 DEF Goes
    <3>3. QED
      BY <1>8, <3>2 DEF StepFits, Return
  <2>3. QED
    BY <1>3, <1>5, <1>6, <2>1, <2>2, EndsRec
<1>9. CASE Rethrow(h) /\ jobs' # jobs
  <2>1. JobEnds(j) /\ jobs'[j].state # "completed"
    BY <1>2, <1>9, QueueEnds DEF Rethrow, JobOf
  <2>2. QED
    BY <1>3, <1>5, <1>6, <2>1, EndsRec
<1>10. QED
  BY <1>7, <1>8, <1>9

\* pg-boss gives up a job of the process that died.
LEMMA TimeoutRec ==
  ASSUME TypeOK, StopInv, StoreStep, LiveInv, RecInv, NEW j \in DOMAIN jobs,
         JobTimesOut(j), timeouts' = timeouts
  PROVE  RecInv'
<1>0. timeouts \in Nat
  BY BoundsAssumption DEF TypeOK
<1>1. /\ UNCHANGED <<task, turns, boot, pc, run>>
      /\ jobs' = FailJob(jobs, j, RetryLimit)
      /\ ~\E h \in Handlers : pc[h] # "idle" /\ run[h].job = j
  BY <1>0 DEF JobTimesOut, handlers
<1>2. HandlersKeep
  BY <1>1 DEF HandlersKeep
<1>3. CASE jobs' = jobs
  BY <1>1, <1>2, <1>3, QuietRec
<1>4. CASE jobs' # jobs
  <2>1. JobEnds(j) /\ jobs'[j].state # "completed"
    BY <1>1, <1>4, QueueEnds
  <2>2. QED
    BY <1>1, <1>2, <2>1, EndsRec
<1>5. QED
  BY <1>3, <1>4

--------------------------------------------------------------------------------
\* A delivery.  The old job of a found turn waits to be retried, so its handler
\* is one that got it after the crash.

LEMMA DeliverRec ==
  ASSUME TypeOK, StopInv, StoreStep, LiveInv, RecInv, NEW h \in Handlers,
         NEW j \in DOMAIN jobs, DeliverJob(h, j)
  PROVE  RecInv'
<1> DEFINE tries == IF jobs[j].state = "retry" THEN jobs[j].retries + 1
                    ELSE jobs[j].retries
           key == TurnsOf(TaskOf[jobs[j].turn])
<1>1. /\ pc[h] = "idle" /\ Deliverable(jobs, j, key) /\ jobs' = Deliver(jobs, j)
      /\ run' = [run EXCEPT ![h] = [NoRun EXCEPT
                   !.job = j, !.turn = jobs[j].turn, !.tries = jobs'[j].retries]]
      /\ pc' = [pc EXCEPT ![h] = "claim"]
      /\ UNCHANGED <<task, turns, boot>>
  BY DEF DeliverJob, Goto, flue
<1>2. /\ pc \in [Handlers -> Steps \cup {"idle"}] /\ run \in [Handlers -> RunRecord]
      /\ jobs \in Seq(Job) /\ jobs[j] \in Job
  BY DEF TypeOK, HandlersOK
<1>3. /\ DOMAIN jobs' = DOMAIN jobs
      /\ jobs'[j].turn = jobs[j].turn /\ jobs'[j].state = "active"
      /\ jobs'[j].retries = tries
      /\ \A i \in DOMAIN jobs : i # j => jobs'[i] = jobs[i]
  <2> DEFINE job == [jobs[j] EXCEPT !.state = "active", !.retries = tries]
  <2>1. jobs' = [jobs EXCEPT ![j] = job]
    BY <1>1 DEF Deliver
  <2>2. job.turn = jobs[j].turn /\ job.state = "active" /\ job.retries = tries
    BY <1>2 DEF Job
  <2> HIDE DEF job
  <2>3. QED
    BY <1>2, <2>1, <2>2
<1>4. /\ run'[h].job = j /\ run'[h].turn = jobs[j].turn
      /\ \A g \in Handlers : g # h => run'[g] = run[g]
  <2> DEFINE r == [NoRun EXCEPT !.job = j, !.turn = jobs[j].turn,
                                !.tries = jobs'[j].retries]
  <2>1. r.job = j /\ r.turn = jobs[j].turn
    BY DEF NoRun
  <2>2. run' = [run EXCEPT ![h] = r]
    BY <1>1
  <2> HIDE DEF r
  <2>3. QED
    BY <1>2, <2>1, <2>2
<1>5. /\ pc'[h] = "claim" /\ \A g \in Handlers : g # h => pc'[g] = pc[g]
  BY <1>1, <1>2
<1>6. /\ jobs[j].state \in {"created", "retry"}
      /\ \A i \in DOMAIN jobs : Live(jobs, i) /\ SameKey(j, i) => j <= i
      /\ \A i \in DOMAIN jobs : Live(jobs', i) <=> Live(jobs, i)
      /\ \A i \in DOMAIN jobs : jobs'[i].turn = jobs[i].turn
  <2>1. \A i \in DOMAIN jobs : SameKey(j, i) => jobs[i].turn \in key
    BY JobFacts DEF SameKey, TurnsOf
  <2>2. QED
    BY <1>1, <1>3, <2>1 DEF Deliverable, LiveJobs, Live, LiveJobStates
<1>7. tries \in Nat /\ (jobs[j].state = "retry" => tries > 0)
  BY JobFacts
<1> HIDE DEF key, tries
<1>8. Lasts(jobs, jobs')
  BY <1>3, <1>6 DEF Lasts
<1>9. ASSUME NEW g \in Handlers, g # h, Busy(g)'
      PROVE  /\ Busy(g) /\ JobOf(g)' = JobOf(g) /\ T(g)' = T(g) /\ K(g)' = K(g)
             /\ pc'[g] = pc[g] /\ JobOf(g) # j /\ jobs'[JobOf(g)] = jobs[JobOf(g)]
  <2>1. /\ Busy(g) /\ JobOf(g)' = JobOf(g) /\ T(g)' = T(g) /\ K(g)' = K(g)
        /\ pc'[g] = pc[g]
    BY <1>4, <1>5, <1>9 DEF Busy, JobOf, T, K
  <2>2. JobOf(g) # j /\ JobOf(g) \in DOMAIN jobs
    BY <1>6, <2>1, HandlerFacts DEF RecInv, AtJob
  <2>3. QED
    BY <1>3, <2>1, <2>2
<1>10. JobOf(h)' = j /\ T(h)' = jobs[j].turn /\ K(h)' = TaskOf[jobs[j].turn]
  BY <1>4 DEF JobOf, T, K
<1>11. AtJob'
  <2>1. \A g \in Handlers : Busy(g)' => jobs'[JobOf(g)'].state \in {"active", "cancelled"}
    BY <1>3, <1>9, <1>10 DEF RecInv, AtJob
  <2>2. \A f, g \in Handlers : Busy(f)' /\ Busy(g)' /\ JobOf(f)' = JobOf(g)' => f = g
    BY <1>9, <1>10 DEF RecInv, AtJob
  <2>3. ASSUME NEW i \in DOMAIN jobs', NEW k \in DOMAIN jobs',
               TaskOf[jobs'[i].turn] = TaskOf[jobs'[k].turn],
               jobs'[i].state = "active", Live(jobs', k)
        PROVE  i <= k
    <3>1. SameKey(i, k) /\ Live(jobs, k)
      BY <1>3, <1>6, <2>3 DEF SameKey
    <3>2. CASE i = j
      BY <1>3, <1>6, <3>1, <3>2
    <3>3. CASE i # j
      BY <1>3, <2>3, <3>1, <3>3 DEF RecInv, AtJob
    <3>4. QED
      BY <3>2, <3>3
  <2>4. QED
    BY <2>1, <2>2, <2>3 DEF AtJob, SameKey
<1>12. ASSUME NEW u \in boot.found, Goes(u)
       PROVE  Goes(u)'
  <2>1. ASSUME NEW g \in Handlers, Busy(g)', K(g)' = TaskOf[u]
        PROVE  jobs'[JobOf(g)'].state = "active"
    BY <1>3, <1>9, <1>10, <1>12, <2>1 DEF Goes
  <2>2. ASSUME NEW g \in Handlers, Busy(g)', T(g)' = u
        PROVE  StepFits(g)'
    <3>1. CASE g = h
      BY <1>5, <3>1 DEF StepFits, RunningSteps
    <3>2. CASE g # h
      <4>1. StepFits(g)
        BY <1>9, <1>12, <2>2, <3>2 DEF Goes
      <4>2. QED
        BY <1>1, <1>9, <2>2, <3>2, <4>1 DEF StepFits
    <3>3. QED
      BY <3>1, <3>2
  <2>3. ASSUME Waits(u)
        PROVE  Waits(u)'
    <3>1. PICK i \in DOMAIN jobs :
            /\ jobs[i].turn = u /\ jobs[i].state \in {"active", "retry"}
            /\ \A k \in DOMAIN jobs : SameKey(i, k) /\ Live(jobs, k) => i <= k
            /\ \A g \in Handlers : Busy(g) /\ JobOf(g) = i => jobs[i].retries > 0
      BY <2>3 DEF Waits
    <3>2. i \in DOMAIN jobs' /\ jobs'[i].turn = u /\ jobs'[i].state \in {"active", "retry"}
      BY <1>3, <3>1
    <3>3. \A k \in DOMAIN jobs' :
            TaskOf[jobs'[i].turn] = TaskOf[jobs'[k].turn] /\ Live(jobs', k) => i <= k
      BY <1>3, <1>6, <3>1 DEF SameKey
    <3>4. ASSUME NEW g \in Handlers, Busy(g)', JobOf(g)' = i
          PROVE  jobs'[i].retries > 0
      <4>1. CASE g = h
        BY <1>3, <1>6, <1>7, <1>10, <3>1, <3>4, <4>1
      <4>2. CASE g # h
        BY <1>9, <3>1, <3>4, <4>2
      <4>3. QED
        BY <4>1, <4>2
    <3>5. QED
      BY <3>2, <3>3, <3>4 DEF Waits, SameKey
  <2>4. HasLive(u) => HasLive(u)'
    BY <1>3, <1>6 DEF HasLive
  <2>5. QED
    BY <1>1, <1>12, <2>1, <2>2, <2>3, <2>4, SameBoot DEF Goes
<1>13. QED
  BY <1>1, <1>8, <1>11, <1>12, RecStays

--------------------------------------------------------------------------------
\* A control touches the rows and jobs of a task that it has ended.

LEMMA ControlRec ==
  ASSUME TypeOK, StopInv, StoreStep, LiveInv, RecInv, NEW t \in Tasks,
         StopTask(t) \/ DoneTask(t) \/ ControlStep(t)
  PROVE  RecInv'
<1>0. run \in [Handlers -> RunRecord] /\ task \in [Tasks -> TaskStatus]
      /\ turns \in [Turns -> Row]
  BY DEF TypeOK, StoreOK, HandlersOK
<1>1. UNCHANGED <<pc, boot>>
  BY DEF StopTask, DoneTask, ControlStep, ListRunning, GateTurn, CancelPendingTurns,
         CancelJobs, AbortAgentWork, ResolveCancelled, handlers
<1>2. \A h \in Handlers : run'[h].job = run[h].job /\ run'[h].turn = run[h].turn
  <2>1. CASE ResolveCancelled(t)
    BY <1>0, <2>1, OutcomeUpdate DEF ResolveCancelled, ResolveTurnOutcome
  <2>2. CASE ~ResolveCancelled(t)
    BY <2>2 DEF StopTask, DoneTask, ControlStep, ListRunning, GateTurn,
                CancelPendingTurns, CancelJobs, AbortAgentWork, handlers
  <2>3. QED
    BY <2>1, <2>2
<1>3. HandlersKeep
  BY <1>1, <1>2 DEF HandlersKeep
<1>4. jobs' = jobs \/ jobs' = ReleaseTaskSingleton(jobs, TurnsOf(t))
  BY DEF StopTask, DoneTask, ControlStep, ListRunning, GateTurn, CancelPendingTurns,
         CancelJobs, AbortAgentWork, ResolveCancelled, database
<1>5. /\ Ages(jobs, jobs') /\ Lasts(jobs, jobs')
      /\ \A j \in DOMAIN jobs :
           /\ jobs[j].turn \notin TurnsOf(t) => jobs'[j] = jobs[j]
           /\ jobs'[j].state \in {jobs[j].state, "cancelled"}
  BY <1>4, SameAges, ReleaseAges
<1>6. AtJob'
  <2>1. \A h \in Handlers :
          pc'[h] # "idle" => jobs'[run[h].job].state \in {"active", "cancelled"}
    BY <1>1, <1>5 DEF RecInv, AtJob, Busy, JobOf, TypeOK, HandlersOK
  <2>2. QED
    BY <1>3, <1>5, <2>1, AtJobStays DEF RecInv
<1>7. Ended(t)'
  <2>1. CASE StopTask(t) \/ DoneTask(t)
    BY <1>0, <2>1 DEF StopTask, DoneTask, Ended, TerminalTaskStatuses
  <2>2. CASE ControlStep(t)
    <3>1. control[t].pc # "idle"
      BY <2>2 DEF ControlStep, ListRunning, GateTurn, CancelPendingTurns, CancelJobs,
                  AbortAgentWork, ResolveCancelled
    <3>2. QED
      BY <3>1, EndedStays DEF StopInv, Ended
  <2>3. QED
    BY <2>1, <2>2
<1>8. /\ \A s \in Tasks : s # t => task'[s] = task[s]
      /\ \A u \in Turns : TaskOf[u] # t => turns'[u] = turns[u]
  <2>1. CASE GateTurn(t)
    <3>1. PICK u \in control[t].gate : turns' = [turns EXCEPT ![u] = RequestCancel(turns[u])]
      BY <2>1 DEF GateTurn
    <3>2. TaskOf[u] = t
      BY DEF StopInv, TurnsOf
    <3>3. QED
      BY <1>0, <2>1, <3>1, <3>2 DEF GateTurn
  <2>2. CASE ~GateTurn(t)
    BY <1>0, <2>2 DEF StopTask, DoneTask, ControlStep, ListRunning, CancelPendingTurns,
                CancelJobs, AbortAgentWork, ResolveCancelled, database
  <2>3. QED
    BY <2>1, <2>2
<1>9. ASSUME NEW u \in boot.found, Goes(u), ~Excused(u)'
      PROVE  Goes(u)'
  <2>1. u \in Turns /\ TaskOf[u] \in Tasks /\ TaskOf[u] # t
    BY <1>7, <1>9, TaskOfAssumption DEF RecInv, FoundInv, Excused, Ended
  <2>2. turns'[u] = turns[u] /\ task'[TaskOf[u]] = task[TaskOf[u]]
    BY <1>8, <2>1
  <2>3. \A j \in DOMAIN jobs : TaskOf[jobs[j].turn] = TaskOf[u] => jobs'[j] = jobs[j]
    BY <1>5, <2>1 DEF TurnsOf
  <2>4. ASSUME NEW h \in Handlers, pc'[h] # "idle", K(h) = TaskOf[u]
        PROVE  jobs'[run[h].job].state = "active"
    <3>1. Busy(h)
      BY <1>1, <2>4 DEF Busy
    <3>2. JobOf(h) \in DOMAIN jobs /\ TaskOf[jobs[JobOf(h)].turn] = TaskOf[u]
      BY <2>4, <3>1, HandlerFacts
    <3>3. QED
      BY <1>9, <2>3, <2>4, <3>1, <3>2 DEF Goes, JobOf
  <2>5. QED
    BY <1>1, <1>3, <1>5, <1>9, <2>1, <2>2, <2>3, <2>4, GoesStays, SameBoot
<1>10. QED
  BY <1>1, <1>5, <1>6, <1>9, RecStays

--------------------------------------------------------------------------------
\* The steps of a handler between its delivery and its return, redelivered ones
\* and those that resume a turn included.

HandlerMoves(h) ==
  /\ Busy(h) /\ pc' = [pc EXCEPT ![h] = pc'[h]] /\ pc'[h] \in Steps
  /\ \A g \in Handlers : run'[g].job = run[g].job /\ run'[g].turn = run[g].turn
  /\ \A u \in Turns : u # T(h) => turns'[u] = turns[u]
  /\ \A t \in Tasks : t # K(h) => task'[t] = task[t]
  /\ UNCHANGED <<jobs, boot>>

LEMMA StepsMove ==
  ASSUME TypeOK, NEW h \in Handlers, LocalAction(h)
  PROVE  HandlerMoves(h)
<1>0. run \in [Handlers -> RunRecord] /\ turns \in [Turns -> Row]
  BY DEF TypeOK, StoreOK, HandlersOK
<1>1. ASSUME BecomeResumed(h)
      PROVE  \A g \in Handlers : run'[g].job = run[g].job /\ run'[g].turn = run[g].turn
  <2> DEFINE r == [run[h] EXCEPT !.resumed = TRUE]
  <2>1. r \in RunRecord /\ r.job = run[h].job /\ r.turn = run[h].turn
    BY <1>0, RunTypes
  <2>2. run' = [run EXCEPT ![h] = r]
    BY <1>1 DEF BecomeResumed
  <2> HIDE DEF r
  <2>3. QED
    BY <2>1, <2>2, RunUpdate DEF TypeOK
<1>2. CASE Resume(h)
  <2>1. Busy(h) /\ UNCHANGED <<task, jobs, boot>>
    BY <1>2 DEF Resume, Busy
  <2>2. \E step \in {"probe", "reread"} : Goto(h, step)
    BY <1>2 DEF Resume, BecomeResumed
  <2>3. \A g \in Handlers : run'[g].job = run[g].job /\ run'[g].turn = run[g].turn
    BY <1>1, <1>2 DEF Resume
  <2>4. \A u \in Turns : u # T(h) => turns'[u] = turns[u]
    BY <1>0, <1>2 DEF Resume
  <2>5. QED
    BY <2>1, <2>2, <2>3, <2>4, Moves DEF HandlerMoves, Steps
<1>3. CASE Reread(h)
  <2>1. Busy(h) /\ UNCHANGED <<task, turns, jobs, boot>>
    BY <1>3 DEF Reread, Busy, database
  <2>2. \E step \in {"probe", "return"} : Goto(h, step)
    BY <1>3 DEF Reread, BecomeResumed
  <2>3. \A g \in Handlers : run'[g].job = run[g].job /\ run'[g].turn = run[g].turn
    BY <1>1, <1>3 DEF Reread
  <2>4. QED
    BY <2>1, <2>2, <2>3, Moves DEF HandlerMoves, Steps
<1>4. CASE ~Resume(h) /\ ~Reread(h)
  <2>1. LocalStep(h)
    BY <1>4, FreshSteps
  <2>2. \A g \in Handlers : run'[g].job = run[g].job /\ run'[g].turn = run[g].turn
    BY <2>1 DEF LocalStep
  <2>3. QED
    BY <2>1, <2>2 DEF LocalStep, HandlerMoves
<1>5. QED
  BY <1>2, <1>3, <1>4

\* Unless its turn is over after the step, the handler is where it will not
\* complete the job before the turn is over.
LEMMA StepsFit ==
  ASSUME TypeOK, TypeOK', StopInv, StoreStep, GatedEnded, NEW h \in Handlers,
         LocalAction(h), StepFits(h), ~Ended(K(h)), Unsettled(T(h)),
         ~Ended(K(h))', Unsettled(T(h))'
  PROVE  StepFits(h)'
<1> DEFINE row == turns[T(h)]
           after == turns'[T(h)]
<1>1. /\ HandlerMoves(h) /\ Busy(h) /\ T(h)' = T(h) /\ K(h)' = K(h)
      /\ K(h) \in Tasks /\ T(h) \in Turns /\ row \in Row
      /\ K(h) = TaskOf[T(h)]
  BY StepsMove, HandlerFacts DEF HandlerMoves, T, K
<1>2. /\ ~row.cancelReq /\ row.status \in {"queued", "running"}
      /\ after.status \in {"queued", "running"}
      /\ task[K(h)] \in {"queued", "running", "waiting"}
  <2>1. task[K(h)] \in TaskStatus
    BY <1>1 DEF TypeOK, StoreOK
  <2>2. QED
    BY <1>1, <2>1 DEF GatedEnded, Unsettled, Ended, TaskStatus, TerminalTaskStatuses
<1>3. /\ pc[h] \notin {"release", "toWaiting", "failTask", "return"}
      /\ pc[h] \in {"reread", "probe"} \cup RunningSteps => row.status = "running"
      /\ pc[h] \in {"checkpoint", "recheck"} => task[K(h)] = "running"
  BY DEF StepFits
<1>4. turns \in [Turns -> Row] /\ task \in [Tasks -> TaskStatus]
  BY DEF TypeOK, StoreOK
<1>5. /\ row.cancelReq = FALSE
      /\ row.status = "running" => Unstopped(row) /\ ~ShouldSkipTurn(row)
      /\ Claimable(row) <=> row.status = "queued"
      /\ row.status = "queued" => ClaimQueuedTurn(row).status = "running"
      /\ row.status = "running" => ClaimQueuedTurn(row) = row
      /\ row.status = "running" => MarkTurnCompleted(row).status = "completed"
      /\ row.status = "running" => MarkTurnFailed(row).status = "failed"
      /\ MarkTurnCancelled(row).status = "cancelled"
  BY <1>1, <1>2
  DEF Row, Unstopped, ShouldSkipTurn, Claimable, ClaimQueuedTurn, MarkTurnCompleted,
      MarkTurnFailed, MarkTurnCancelled, TerminalTurnStatuses
<1>6. ASSUME NEW step \in Steps, Goto(h, step),
             step \notin {"release", "toWaiting", "failTask", "return"},
             step \in {"reread", "probe"} \cup RunningSteps => after.status = "running",
             step \in {"checkpoint", "recheck"} => task'[K(h)] = "running"
      PROVE  StepFits(h)'
  <2>1. pc'[h] = step
    BY <1>1, <1>6, Moves
  <2>2. QED
    BY <1>1, <1>6, <2>1 DEF StepFits
<1>7. ASSUME NEW new, turns' = [turns EXCEPT ![T(h)] = new]
      PROVE  after = new
  BY <1>1, <1>4, <1>7
<1> HIDE DEF row, after
<1>8. CASE Claim(h)
  <2>1. after = ClaimQueuedTurn(row)
    BY <1>7, <1>8 DEF Claim, row
  <2>2. Goto(h, IF row.status = "queued" THEN "begin" ELSE "resume")
    BY <1>5, <1>8 DEF Claim, row
  <2>3. row.status = "queued" => after.status = "running"
    BY <1>5, <2>1
  <2>4. QED
    BY <1>6, <2>2, <2>3 DEF Steps, RunningSteps
<1>9. CASE Resume(h)
  <2>1. after = ClaimQueuedTurn(row)
    BY <1>7, <1>9 DEF Resume, row
  <2>2. Goto(h, "probe") \/ Goto(h, "reread")
    BY <1>9 DEF Resume, BecomeResumed
  <2>3. after.status = "running"
    BY <1>2, <1>5, <2>1
  <2>4. QED
    BY <1>6, <2>2, <2>3 DEF Steps, RunningSteps
<1>10. CASE Reread(h)
  <2>1. row.status = "running" /\ after = row
    BY <1>3, <1>10 DEF Reread, database, row, after
  <2>2. Goto(h, "probe")
    BY <1>5, <1>10, <2>1 DEF Reread, BecomeResumed, row
  <2>3. QED
    BY <1>6, <2>1, <2>2 DEF Steps, RunningSteps
<1>11. CASE Probe(h)
  <2>1. row.status = "running" /\ after = row
    BY <1>3, <1>11 DEF Probe, database, row, after
  <2>2. Goto(h, "await") \/ Goto(h, "begin")
    BY <1>11 DEF Probe
  <2>3. QED
    BY <1>6, <2>1, <2>2 DEF Steps, RunningSteps
<1>12. CASE Begin(h)
  <2>1. row.status = "running" /\ after = row
    BY <1>3, <1>12 DEF Begin, row, after, RunningSteps
  <2>2. Goto(h, "checkpoint") \/ Goto(h, "discard")
    BY <1>12 DEF Begin
  <2>3. task'[K(h)] = "running"
    BY <1>1, <1>2, <1>12, TransitionElsewhere DEF Begin
  <2>4. QED
    BY <1>6, <2>1, <2>2, <2>3 DEF Steps, RunningSteps
<1>13. CASE Checkpoint(h)
  <2>1. row.status = "running" /\ after = row /\ task' = task /\ task[K(h)] = "running"
    BY <1>3, <1>13 DEF Checkpoint, database, row, after, RunningSteps
  <2>2. Goto(h, "recheck")
    BY <1>5, <1>13, <2>1 DEF Checkpoint, row
  <2>3. QED
    BY <1>6, <2>1, <2>2 DEF Steps, RunningSteps
<1>14. CASE Recheck(h)
  <2>1. row.status = "running" /\ after = row /\ task[K(h)] = "running"
    BY <1>3, <1>14 DEF Recheck, database, row, after, RunningSteps
  <2>2. Goto(h, "dispatch")
    BY <1>14, <2>1 DEF Recheck
  <2>3. QED
    BY <1>6, <2>1, <2>2 DEF Steps, RunningSteps
<1>15. CASE Dispatch(h)
  <2>1. row.status = "running" /\ after = row
    BY <1>3, <1>15 DEF Dispatch, database, row, after, RunningSteps
  <2>2. Goto(h, "await")
    BY <1>15 DEF Dispatch
  <2>3. QED
    BY <1>6, <2>1, <2>2 DEF Steps, RunningSteps
<1>16. CASE SettleFailed(h) \/ StepThrows(h)
  <2>1. row.status = "running" /\ after = row
    BY <1>3, <1>16 DEF SettleFailed, StepThrows, database, row, after, RunningSteps
  <2>2. Goto(h, "error")
    BY <1>16 DEF SettleFailed, StepThrows, CatchError
  <2>3. QED
    BY <1>6, <2>1, <2>2 DEF Steps, RunningSteps
<1>17. CASE HandleTurnError(h)
  <2>1. row.status = "running" /\ after = row
    BY <1>3, <1>17 DEF HandleTurnError, database, row, after, RunningSteps
  <2>2. Goto(h, "retryTurn") \/ Goto(h, "failTurn")
    BY <1>5, <1>17, <2>1 DEF HandleTurnError, row
  <2>3. QED
    BY <1>6, <2>1, <2>2 DEF Steps, RunningSteps
<1>18. CASE RetryTurn(h)
  <2>1. Goto(h, "retryTask")
    BY <1>18 DEF RetryTurn
  <2>2. QED
    BY <1>6, <2>1 DEF Steps, RunningSteps
<1>19. CASE RetryTask(h)
  <2>1. Goto(h, "throw")
    BY <1>19 DEF RetryTask
  <2>2. QED
    BY <1>6, <2>1 DEF Steps, RunningSteps
<1>20. CASE Discard(h) \/ Stopped(h) \/ Abandon(h)
  <2>1. after = MarkTurnCancelled(row)
    BY <1>7, <1>20 DEF Discard, Stopped, Abandon, row
  <2>2. QED
    BY <1>2, <1>5, <2>1
<1>21. CASE SettleCompleted(h)
  <2>1. after = MarkTurnCompleted(row) /\ row.status = "running"
    BY <1>3, <1>7, <1>21 DEF SettleCompleted, row, RunningSteps
  <2>2. QED
    BY <1>2, <1>5, <2>1
<1>22. CASE FailTurn(h)
  <2>1. after = MarkTurnFailed(row) /\ row.status = "running"
    BY <1>3, <1>7, <1>22 DEF FailTurn, row, RunningSteps
  <2>2. QED
    BY <1>2, <1>5, <2>1
<1>23. CASE ReleaseTask(h) \/ ToWaiting(h) \/ FailTask(h)
  BY <1>3, <1>23 DEF ReleaseTask, ToWaiting, FailTask
<1>24. QED
  BY <1>8, <1>9, <1>10, <1>11, <1>12, <1>13, <1>14, <1>15, <1>16, <1>17, <1>18, <1>19,
     <1>20, <1>21, <1>22, <1>23 DEF LocalAction

LEMMA LocalRec ==
  ASSUME TypeOK, TypeOK', StopInv, StoreStep, GatedEnded, LiveInv, RecInv,
         NEW h \in Handlers, LocalAction(h)
  PROVE  RecInv'
<1>1. HandlerMoves(h)
  BY StepsMove
<1>2. /\ UNCHANGED <<jobs, boot>> /\ Busy(h)
      /\ \A g \in Handlers : g # h => pc'[g] = pc[g]
      /\ \A g \in Handlers : JobOf(g)' = JobOf(g) /\ T(g)' = T(g) /\ K(g)' = K(g)
      /\ \A g \in Handlers : Busy(g)' => Busy(g)
  <2>1. pc \in [Handlers -> Steps \cup {"idle"}]
    BY DEF TypeOK, HandlersOK
  <2>2. \A g \in Handlers : g # h => pc'[g] = pc[g]
    BY <1>1, <2>1 DEF HandlerMoves
  <2>3. \A g \in Handlers : JobOf(g)' = JobOf(g) /\ T(g)' = T(g) /\ K(g)' = K(g)
    BY <1>1 DEF HandlerMoves, JobOf, T, K
  <2>4. QED
    BY <1>1, <2>2, <2>3 DEF HandlerMoves, Busy
<1>3. AtJob'
  BY <1>2 DEF RecInv, AtJob, SameKey, Live
<1>4. ASSUME NEW u \in boot.found, Goes(u), ~Excused(u)'
      PROVE  Goes(u)'
  <2>1. u \in Turns /\ Written(u) /\ TaskOf[u] \in Tasks
    BY TaskOfAssumption DEF RecInv, FoundInv
  <2>2. ~Excused(u) /\ Unsettled(u)' /\ ~Ended(TaskOf[u])' /\ Unsettled(u) /\ ~Ended(TaskOf[u])
    <3>1. ~Excused(u)
      BY <1>2, <1>4, <2>1, SameAges, ExcusedStays
    <3>2. QED
      BY <1>4, <3>1 DEF Excused
  <2>3. ASSUME NEW g \in Handlers, Busy(g)', T(g)' = u
        PROVE  StepFits(g)'
    <3>1. Busy(g) /\ T(g) = u /\ K(g) = TaskOf[u] /\ StepFits(g)
      BY <1>2, <1>4, <2>3, HandlerFacts DEF Goes
    <3>2. CASE g = h
      BY <1>2, <2>2, <3>1, <3>2, StepsFit
    <3>3. CASE g # h
      <4>1. K(h) # TaskOf[u] /\ T(h) # u
        BY <1>2, <1>4, <3>1, <3>3, OneWorker, HandlerFacts
      <4>2. turns'[u] = turns[u] /\ task'[TaskOf[u]] = task[TaskOf[u]]
        BY <1>1, <2>1, <4>1 DEF HandlerMoves
      <4>3. pc'[g] = pc[g] /\ T(g)' = T(g) /\ K(g)' = K(g)
        BY <1>2, <3>3
      <4>4. QED
        BY <3>1, <4>2, <4>3 DEF StepFits
    <3>4. QED
      BY <3>2, <3>3
  <2>4. \A g \in Handlers : Busy(g)' /\ K(g)' = TaskOf[u] => jobs'[JobOf(g)'].state = "active"
    BY <1>2, <1>4 DEF Goes
  <2>5. Waits(u) => Waits(u)'
    BY <1>2 DEF Waits, SameKey, Live
  <2>6. HasLive(u) => HasLive(u)'
    BY <1>2 DEF HasLive, Live
  <2>7. QED
    BY <1>2, <1>4, <2>3, <2>4, <2>5, <2>6, SameBoot DEF Goes
<1>5. QED
  BY <1>2, <1>3, <1>4, SameAges, RecStays

--------------------------------------------------------------------------------
\* The recovery itself.

\* Nobody works on a turn whose job was released and not yet sent again.
LEMMA NobodyOnReleased ==
  ASSUME TypeOK, LiveInv, NEW u \in Turns, Released(u), Goes(u), NEW h \in Handlers, Busy(h)
  PROVE  T(h) # u
<1> SUFFICES ASSUME T(h) = u
             PROVE  FALSE
  OBVIOUS
<1>1. /\ JobOf(h) \in DOMAIN jobs /\ jobs[JobOf(h)].turn = u /\ K(h) = TaskOf[u]
  BY HandlerFacts
<1>2. jobs[JobOf(h)].state = "active"
  BY <1>1 DEF Goes
<1>3. HasLive(u)
  BY <1>1, <1>2 DEF HasLive, Live, LiveJobStates
<1>4. QED
  BY <1>3 DEF LiveInv, Released

\* A step of the recovery keeps what it found.
LEMMA BootRecStays ==
  ASSUME TypeOK, StopInv, StoreStep, RecInv, Ages(jobs, jobs'), Lasts(jobs, jobs'),
         UNCHANGED <<pc, run>>,
         boot'.found = boot.found,
         boot'.pc \in {"release", "requeue", "task", "send"} =>
           boot.pc \in {"release", "requeue", "task", "send"} /\ boot'.todo \subseteq boot.todo,
         \A h \in Handlers :
           Busy(h) => jobs'[JobOf(h)].state \in {jobs[JobOf(h)].state, "cancelled"},
         \A u \in boot.found : Goes(u) /\ ~Excused(u) => Excused(u)' \/ Goes(u)'
  PROVE  RecInv'
<1>1. HandlersKeep
  BY DEF HandlersKeep
<1>2. \A h \in Handlers :
        pc'[h] # "idle" => jobs'[run[h].job].state \in {"active", "cancelled"}
  BY DEF RecInv, AtJob, Busy, JobOf
<1>3. AtJob'
  BY <1>1, <1>2, AtJobStays DEF RecInv
<1>4. FoundInv'
  <2>1. \A u \in boot.found : Written(u)'
    BY WrittenStays DEF RecInv, FoundInv, Written
  <2>2. ASSUME NEW u \in boot.found, Ended(TaskOf[u])
        PROVE  Ended(TaskOf[u])'
    <3>1. TaskOf[u] \in Tasks
      BY TaskOfAssumption DEF RecInv, FoundInv
    <3>2. QED
      BY <2>2, <3>1, EndedStays DEF Ended
  <2>3. \A u, v \in boot.found : TaskOf[u] = TaskOf[v] => u = v \/ Ended(TaskOf[u])'
    BY <2>2 DEF RecInv, FoundInv
  <2>4. boot'.found \subseteq Turns
    BY DEF RecInv, FoundInv
  <2>5. boot'.pc \in {"release", "requeue", "task", "send"} => boot'.todo \subseteq boot'.found
    BY DEF RecInv, FoundInv
  <2>6. QED
    BY <2>1, <2>3, <2>4, <2>5 DEF FoundInv
<1>5. ASSUME NEW u \in boot.found
      PROVE  Excused(u)' \/ Goes(u)'
  <2>1. u \in Turns /\ Written(u)
    BY DEF RecInv, FoundInv
  <2>2. CASE Excused(u)
    BY <2>1, <2>2, ExcusedStays
  <2>3. CASE ~Excused(u)
    BY <2>3 DEF RecInv
  <2>4. QED
    BY <2>2, <2>3
<1>6. QED
  BY <1>3, <1>4, <1>5 DEF RecInv

\* Found turns of one task are one, or the task has ended.
LEMMA OneFound ==
  ASSUME TypeOK, RecInv, NEW u \in boot.found, ~Excused(u),
         NEW v \in boot.todo, boot.pc \in {"release", "requeue", "task", "send"},
         NextInterrupted(v)
  PROVE  /\ v \in boot.found /\ v \in Turns /\ u \in Turns
         /\ TaskOf[u] = TaskOf[v] => u = v
         /\ NextInterrupted(u) => u = v
         /\ Pending(v)
<1>1. v \in boot.found
  BY DEF RecInv, FoundInv
<1>2. QED
  BY <1>1, OneNext DEF RecInv, FoundInv, Excused, Pending

LEMMA ReleaseRec ==
  ASSUME TypeOK, StopInv, StoreStep, LiveInv, RecInv, BootRelease
  PROVE  RecInv'
<1>0. boot \in Boot
  BY DEF TypeOK
<1>1. PICK v \in boot.todo :
        NextInterrupted(v) /\ jobs' = ReleaseTaskSingleton(jobs, TurnsOf(TaskOf[v]))
  BY DEF BootRelease
<1>2. /\ UNCHANGED <<task, turns, pc, run>> /\ boot.pc = "release"
      /\ boot'.pc = "requeue" /\ boot'.todo = boot.todo /\ boot'.found = boot.found
  BY <1>0 DEF BootRelease, Boot, handlers
<1>3. /\ Ages(jobs, jobs') /\ Lasts(jobs, jobs')
      /\ DOMAIN jobs' = DOMAIN jobs
      /\ \A j \in DOMAIN jobs :
           /\ jobs[j].turn \notin TurnsOf(TaskOf[v]) => jobs'[j] = jobs[j]
           /\ jobs[j].turn \in TurnsOf(TaskOf[v]) /\ Live(jobs, j) =>
                jobs'[j].state = "cancelled" /\ jobs'[j].retries = jobs[j].retries
           /\ jobs'[j].state \in {jobs[j].state, "cancelled"}
  BY <1>1, ReleaseAges
<1>4. HandlersKeep
  BY <1>2 DEF HandlersKeep
<1>5. ASSUME NEW u \in boot.found, Goes(u), ~Excused(u), ~Excused(u)'
      PROVE  Goes(u)'
  <2>1. /\ v \in boot.found /\ v \in Turns /\ u \in Turns
        /\ TaskOf[u] = TaskOf[v] => u = v
        /\ NextInterrupted(u) => u = v
        /\ Pending(v)
    BY <1>1, <1>2, <1>5, OneFound
  <2>2. /\ Pending(u)' <=> Pending(u)
        /\ ~Released(u) /\ (Released(u)' <=> NextInterrupted(u))
    BY <1>2 DEF Pending, Released, NextInterrupted
  <2>3. CASE u # v
    <3>1. \A j \in DOMAIN jobs : TaskOf[jobs[j].turn] = TaskOf[u] => jobs'[j] = jobs[j]
      BY <1>3, <2>1, <2>3 DEF TurnsOf
    <3>2. ASSUME NEW h \in Handlers, pc'[h] # "idle", K(h) = TaskOf[u]
          PROVE  jobs'[run[h].job].state = "active"
      <4>1. Busy(h)
        BY <1>2, <3>2 DEF Busy
      <4>2. JobOf(h) \in DOMAIN jobs /\ TaskOf[jobs[JobOf(h)].turn] = TaskOf[u]
        BY <3>2, <4>1, HandlerFacts
      <4>3. QED
        BY <1>5, <3>1, <3>2, <4>1, <4>2 DEF Goes, JobOf
    <3>3. QED
      BY <1>2, <1>3, <1>4, <1>5, <2>1, <2>2, <2>3, <3>1, <3>2, GoesStays
  <2>4. CASE u = v
    <3>1. Waits(u) /\ Pending(u)' /\ Released(u)'
      BY <1>1, <1>5, <2>1, <2>2, <2>4 DEF Goes
    <3>2. PICK i \in DOMAIN jobs :
            /\ jobs[i].turn = u /\ jobs[i].state \in {"active", "retry"}
            /\ \A j \in DOMAIN jobs : SameKey(i, j) /\ Live(jobs, j) => i <= j
            /\ \A h \in Handlers : Busy(h) /\ JobOf(h) = i => jobs[i].retries > 0
      BY <3>1 DEF Waits
    <3>3. Live(jobs, i) /\ u \in TurnsOf(TaskOf[v])
      BY <2>1, <2>4, <3>2 DEF Live, LiveJobStates, TurnsOf
    <3>4. ASSUME NEW h \in Handlers, Busy(h), K(h) = TaskOf[u]
          PROVE  FALSE
      <4>1. JobOf(h) = i
        BY <1>5, <3>2, <3>3, <3>4, FirstJob DEF SameKey
      <4>2. jobs'[i].state = "cancelled" /\ jobs'[i].retries = jobs[i].retries
            /\ jobs'[i].turn = u
        BY <1>3, <3>2, <3>3 DEF Ages
      <4>3. jobs'[i].retries > 0
        BY <3>2, <3>4, <4>1, <4>2
      <4>4. CancelledUnderHandler(u)'
        BY <1>3, <4>2, <4>3 DEF CancelledUnderHandler
      <4>5. QED
        BY <1>5, <4>4 DEF Excused
    <3>5. \A h \in Handlers : Busy(h)' => K(h)' # TaskOf[u] /\ T(h)' # u
      BY <1>4, <3>4, KeptHandler DEF K, T
    <3>6. QED
      BY <3>1, <3>5 DEF Goes
  <2>5. QED
    BY <2>3, <2>4
<1>6. QED
  BY <1>2, <1>3, <1>5, HandlerFacts, BootRecStays

LEMMA RequeueRec ==
  ASSUME TypeOK, StopInv, StoreStep, LiveInv, RecInv, BootRequeue \/ BootTask
  PROVE  RecInv'
<1>0. boot \in Boot /\ turns \in [Turns -> Row] /\ task \in [Tasks -> TaskStatus]
  BY DEF TypeOK, StoreOK
<1>1. PICK v \in boot.todo :
        /\ NextInterrupted(v)
        /\ \/ /\ turns' = [turns EXCEPT ![v] = RequeueInterruptedTurn(turns[v])]
              /\ task' = task
           \/ task' = Transition(TaskOf[v], {"running"}, "queued") /\ turns' = turns
  BY DEF BootRequeue, BootTask
<1>2. /\ UNCHANGED <<jobs, pc, run>>
      /\ boot.pc \in {"requeue", "task"} /\ boot'.pc \in {"task", "send"}
      /\ boot'.todo = boot.todo /\ boot'.found = boot.found
  BY <1>0 DEF BootRequeue, BootTask, Boot, handlers
<1>3. HandlersKeep
  BY <1>2 DEF HandlersKeep
<1>4. Ages(jobs, jobs') /\ Lasts(jobs, jobs')
  BY <1>2, SameAges
<1>5. ASSUME NEW u \in boot.found, Goes(u), ~Excused(u)
      PROVE  Goes(u)'
  <2>1. /\ v \in boot.found /\ v \in Turns /\ u \in Turns
        /\ TaskOf[u] = TaskOf[v] => u = v
        /\ NextInterrupted(u) => u = v
        /\ Pending(v)
    BY <1>1, <1>2, <1>5, OneFound
  <2>2. /\ Pending(u)' <=> Pending(u)
        /\ Released(u)' <=> NextInterrupted(u)
        /\ Released(u) <=> NextInterrupted(u)
    BY <1>2 DEF Pending, Released, NextInterrupted
  <2>3. \A h \in Handlers : pc'[h] # "idle" /\ K(h) = TaskOf[u] =>
          jobs'[run[h].job].state = "active"
    BY <1>2, <1>5 DEF Goes, Busy, JobOf
  <2>4. \/ turns'[u] = turns[u] /\ task'[TaskOf[u]] = task[TaskOf[u]]
        \/ \A h \in Handlers : Busy(h) => T(h) # u
    <3>1. CASE u # v
      <4>1. TaskOf[u] \in Tasks /\ TaskOf[v] \in Tasks
        BY <2>1, TaskOfAssumption
      <4>2. QED
        BY <1>0, <1>1, <2>1, <3>1, <4>1, TransitionElsewhere
    <3>2. CASE u = v
      BY <1>1, <1>5, <2>1, <2>2, <3>2, NobodyOnReleased
    <3>3. QED
      BY <3>1, <3>2
  <2>5. QED
    BY <1>2, <1>3, <1>4, <1>5, <2>1, <2>2, <2>3, <2>4, GoesStays
<1>6. QED
  BY <1>2, <1>4, <1>5, BootRecStays

\* The found turn has its new job.
LEMMA SendRec ==
  ASSUME TypeOK, StopInv, StoreStep, LiveInv, RecInv, BootSend
  PROVE  RecInv'
<1>0. boot \in Boot
  BY DEF TypeOK
<1>1. PICK v \in boot.todo :
        /\ NextInterrupted(v) /\ jobs' = Send(jobs, v)
        /\ boot' = [boot EXCEPT !.todo = boot.todo \ {v},
                     !.pc = IF boot.todo = {v} THEN "queued" ELSE "release"]
  BY DEF BootSend
<1>2. UNCHANGED <<task, turns, pc, run>> /\ boot.pc = "send"
  BY DEF BootSend, handlers
<1>3. /\ boot'.todo = boot.todo \ {v} /\ boot'.found = boot.found
      /\ boot'.pc = IF boot.todo = {v} THEN "queued" ELSE "release"
  BY <1>0, <1>1 DEF Boot
<1>4. HandlersKeep
  BY <1>2 DEF HandlersKeep
<1>5. v \in Turns
  BY <1>0 DEF Boot
<1>6. /\ Ages(jobs, jobs') /\ Lasts(jobs, jobs') /\ HasLive(v)'
      /\ \A j \in DOMAIN jobs : jobs'[j] = jobs[j]
  BY <1>1, <1>5, SendAges
<1>7. \A h \in Handlers : Busy(h) => jobs'[JobOf(h)] = jobs[JobOf(h)]
  BY <1>6, HandlerFacts
<1>8. ASSUME NEW u \in boot.found, Goes(u), ~Excused(u)
      PROVE  Goes(u)'
  <2>1. /\ v \in boot.found /\ u \in Turns
        /\ NextInterrupted(u) => u = v
        /\ Pending(v)
    BY <1>1, <1>2, <1>8, OneFound
  <2>2. \A h \in Handlers : pc'[h] # "idle" /\ K(h) = TaskOf[u] =>
          jobs'[run[h].job].state = "active"
    BY <1>2, <1>7, <1>8 DEF Goes, Busy, JobOf
  <2>3. CASE u # v
    <3>1. Pending(u)' <=> Pending(u)
      BY <1>2, <1>3, <2>3 DEF Pending
    <3>2. ~Released(u) /\ ~Released(u)'
      BY <1>3, <2>1, <2>3 DEF Released
    <3>3. QED
      BY <1>2, <1>4, <1>6, <1>8, <2>1, <2>2, <3>1, <3>2, GoesStays
  <2>4. CASE u = v
    <3>1. ~Pending(u)'
      BY <1>3, <2>4 DEF Pending
    <3>2. Released(u)
      BY <1>1, <1>2, <2>4 DEF Released
    <3>3. \A h \in Handlers : Busy(h)' => T(h)' # u
      BY <1>4, <1>8, <2>1, <3>2, NobodyOnReleased, KeptHandler
    <3>4. \A h \in Handlers : Busy(h)' /\ K(h)' = TaskOf[u] => jobs'[JobOf(h)'].state = "active"
      BY <1>4, <2>2, KeptHandler DEF Busy, JobOf
    <3>5. QED
      BY <1>6, <2>4, <3>1, <3>3, <3>4 DEF Goes
  <2>5. QED
    BY <2>3, <2>4
<1>9. boot'.pc \in {"release", "requeue", "task", "send"} =>
        boot.pc \in {"release", "requeue", "task", "send"} /\ boot'.todo \subseteq boot.todo
  BY <1>2, <1>3
<1>10. QED
  BY <1>2, <1>3, <1>6, <1>7, <1>8, <1>9, BootRecStays

\* The second pass sends jobs for other turns and looks jobs up.
LEMMA SecondPassRec ==
  ASSUME TypeOK, StopInv, StoreStep, LiveInv, RecInv,
         BootListQueued \/ BootFindJobs \/ BootSendOrphan
  PROVE  RecInv'
<1>0. boot \in Boot
  BY DEF TypeOK
<1>1. /\ UNCHANGED <<task, turns, pc, run>>
      /\ boot.pc \in {"queued", "find", "orphans"}
  BY DEF BootListQueued, BootFindJobs, BootSendOrphan, database, handlers
<1>2. boot'.pc \in {"find", "orphans", "done"} /\ boot'.found = boot.found
  <2>1. CASE BootListQueued
    BY <1>0, <2>1 DEF BootListQueued, Boot
  <2>2. CASE BootFindJobs
    BY <1>0, <2>2 DEF BootFindJobs, Boot
  <2>3. CASE BootSendOrphan
    BY <1>0, <2>3 DEF BootSendOrphan, Boot
  <2>4. QED
    BY <2>1, <2>2, <2>3
<1>3. jobs' = jobs \/ \E v \in Turns : jobs' = Send(jobs, v)
  BY <1>0 DEF BootListQueued, BootFindJobs, BootSendOrphan, database, Boot
<1>4. /\ Ages(jobs, jobs') /\ Lasts(jobs, jobs')
      /\ \A j \in DOMAIN jobs : jobs'[j] = jobs[j]
  BY <1>3, SameAges, SendAges
<1>5. HandlersKeep
  BY <1>1 DEF HandlersKeep
<1>6. \A h \in Handlers : Busy(h) => jobs'[JobOf(h)] = jobs[JobOf(h)]
  BY <1>4, HandlerFacts
<1>7. ASSUME NEW u \in boot.found, Goes(u)
      PROVE  Goes(u)'
  <2>1. u \in Turns
    BY DEF RecInv, FoundInv
  <2>2. \A h \in Handlers : pc'[h] # "idle" /\ K(h) = TaskOf[u] =>
          jobs'[run[h].job].state = "active"
    BY <1>1, <1>6, <1>7 DEF Goes, Busy, JobOf
  <2>3. ~Pending(u) /\ ~Pending(u)' /\ ~Released(u) /\ ~Released(u)'
    BY <1>1, <1>2 DEF Pending, Released
  <2>4. QED
    BY <1>1, <1>4, <1>5, <1>7, <2>1, <2>2, <2>3, GoesStays
<1>8. QED
  BY <1>1, <1>2, <1>4, <1>6, <1>7, BootRecStays

\* The first crash.  Each turn that was running in a task that goes on had the
\* active job of the task, which is therefore the first that is not over; its
\* handler died with the process.
LEMMA CrashRec ==
  ASSUME TypeOK, CalmInv, CrashAndRestart
  PROVE  RecInv'
<1>1. /\ UNCHANGED <<task, turns, jobs>>
      /\ \A h \in Handlers : pc'[h] = "idle"
      /\ boot'.found = RunningTurns /\ boot'.todo = RunningTurns
      /\ RunningTurns # {} => boot'.pc = "release"
  BY DEF CrashAndRestart, database
<1>2. \A h \in Handlers : ~Busy(h)'
  BY <1>1 DEF Busy
<1>3. AtJob'
  BY <1>1, <1>2 DEF AtJob, CalmInv, QueueInv, SameKey, Live
<1>4. ASSUME NEW u \in RunningTurns, ~Ended(TaskOf[u])
      PROVE  \E i \in DOMAIN jobs :
               /\ jobs[i].turn = u /\ jobs[i].state = "active"
               /\ \A j \in DOMAIN jobs : SameKey(i, j) /\ Live(jobs, j) => i <= j
  <2>1. u \in Turns /\ turns[u].status = "running" /\ ~turns[u].cancelReq
    BY <1>4 DEF RunningTurns, CalmInv, RowInv
  <2>2. PICK i \in DOMAIN jobs : jobs[i].turn = u /\ Live(jobs, i)
    BY <1>4, <2>1 DEF CalmInv, RowInv, Unsettled
  <2>3. ~Over(turns[u]) /\ \A n : ~Awaits(turns[u], n)
    BY <2>1 DEF Over, Awaits, Claimable, TerminalTurnStatuses
  <2>4. jobs[i].state = "active"
    BY <2>2, <2>3 DEF CalmInv, JobInv, Live, LiveJobStates
  <2>5. QED
    BY <2>2, <2>4 DEF CalmInv, QueueInv
<1>5. FoundInv'
  <2>1. ASSUME NEW u \in RunningTurns, NEW v \in RunningTurns, TaskOf[u] = TaskOf[v],
               ~Ended(TaskOf[u])
        PROVE  u = v
    <3>1. PICK i \in DOMAIN jobs :
            /\ jobs[i].turn = u /\ jobs[i].state = "active"
            /\ \A j \in DOMAIN jobs : SameKey(i, j) /\ Live(jobs, j) => i <= j
      BY <1>4, <2>1
    <3>2. PICK k \in DOMAIN jobs :
            /\ jobs[k].turn = v /\ jobs[k].state = "active"
            /\ \A j \in DOMAIN jobs : SameKey(k, j) /\ Live(jobs, j) => k <= j
      BY <1>4, <2>1
    <3>3. Live(jobs, i) /\ Live(jobs, k) /\ SameKey(i, k) /\ SameKey(k, i)
      BY <2>1, <3>1, <3>2 DEF Live, LiveJobStates, SameKey
    <3>4. i <= k /\ k <= i /\ i \in Nat /\ k \in Nat
      BY <3>1, <3>2, <3>3, JobFacts
    <3>5. QED
      BY <3>1, <3>2, <3>4
  <2>2. RunningTurns \subseteq Turns /\ \A u \in RunningTurns : Written(u)
    BY DEF RunningTurns, Written
  <2>3. \A u \in RunningTurns : Written(u)'
    BY <1>1, <2>2 DEF Written
  <2>4. \A u, v \in RunningTurns : TaskOf[u] = TaskOf[v] => u = v \/ Ended(TaskOf[u])'
    BY <1>1, <2>1 DEF Ended
  <2>5. QED
    BY <1>1, <2>2, <2>3, <2>4 DEF FoundInv
<1>6. ASSUME NEW u \in RunningTurns, ~Excused(u)'
      PROVE  Goes(u)'
  <2>1. ~Ended(TaskOf[u])
    BY <1>1, <1>6 DEF Excused, Ended
  <2>2. PICK i \in DOMAIN jobs :
          /\ jobs[i].turn = u /\ jobs[i].state = "active"
          /\ \A j \in DOMAIN jobs : SameKey(i, j) /\ Live(jobs, j) => i <= j
    BY <1>4, <2>1
  <2>3. Waits(u)'
    BY <1>1, <1>2, <2>2 DEF Waits, SameKey, Live
  <2>4. Pending(u)'
    BY <1>1 DEF Pending
  <2>5. QED
    BY <1>2, <2>3, <2>4 DEF Goes
<1>7. QED
  BY <1>1, <1>3, <1>5, <1>6 DEF RecInv

--------------------------------------------------------------------------------
\* Together.

LEMMA StutterRec ==
  ASSUME RecInv, UNCHANGED vars
  PROVE  RecInv'
<1>1. UNCHANGED <<task, turns, jobs, pc, run, boot>>
  BY DEF vars
<1>2. AtJob' /\ FoundInv'
  BY <1>1 DEF RecInv, AtJob, FoundInv, Busy, JobOf, SameKey, Live, Written, Ended
<1>3. ASSUME NEW u
      PROVE  /\ Excused(u) => Excused(u)'
             /\ Goes(u) => Goes(u)'
  <2>1. Excused(u) => Excused(u)'
    BY <1>1 DEF Excused, Ended, Unsettled, CancelledUnderHandler
  <2>2. /\ Waits(u) => Waits(u)'
        /\ HasLive(u) => HasLive(u)'
        /\ \A h \in Handlers : StepFits(h) => StepFits(h)'
    BY <1>1 DEF Waits, HasLive, Busy, JobOf, SameKey, Live, StepFits, T, K
  <2>3. Goes(u) => Goes(u)'
    BY <1>1, <2>2, SameBoot DEF Goes, Busy, JobOf, T, K
  <2>4. QED
    BY <2>1, <2>3
<1>4. QED
  BY <1>1, <1>2, <1>3 DEF RecInv

LEMMA NextRec ==
  ASSUME TypeOK, TypeOK', StopInv, GatedEnded, LiveInv, RecInv, [Next]_vars,
         ~CrashAndRestart, timeouts' = timeouts
  PROVE  RecInv'
<1>0. StoreStep
  BY NextStoreStep
<1>1. ASSUME NEW u \in Turns, ReceiveMessage(u) \/ IntakeTurn(u)
      PROVE  RecInv'
  BY <1>0, <1>1, IntakeRec
<1>2. ASSUME NEW h \in Handlers, HandlerStep(h) \/ StepThrows(h)
      PROVE  RecInv'
  <2>1. LocalAction(h) \/ Return(h) \/ Rethrow(h)
    BY <1>2 DEF HandlerStep, LocalAction
  <2>2. QED
    BY <1>0, <2>1, LocalRec, LeaveRec
<1>3. ASSUME NEW h \in Handlers, NEW j \in DOMAIN jobs, DeliverJob(h, j)
      PROVE  RecInv'
  BY <1>0, <1>3, DeliverRec
<1>4. ASSUME NEW t \in Tasks, AgentEnds(t) \/ AgentErrs(t) \/ HandleEvent(t)
      PROVE  RecInv'
  BY <1>0, <1>4, AgentRec
<1>5. ASSUME NEW t \in Tasks, StopTask(t) \/ DoneTask(t) \/ ControlStep(t)
      PROVE  RecInv'
  BY <1>0, <1>5, ControlRec
<1>6. ASSUME NEW j \in DOMAIN jobs, JobTimesOut(j)
      PROVE  RecInv'
  BY <1>0, <1>6, TimeoutRec
<1>7. CASE BootStep
  BY <1>0, <1>7, ReleaseRec, RequeueRec, SendRec, SecondPassRec DEF BootStep
<1>8. CASE UNCHANGED vars
  BY <1>8, StutterRec
<1>9. QED
  BY <1>1, <1>2, <1>3, <1>4, <1>5, <1>6, <1>7, <1>8 DEF Next

\* Only a restart finds turns.
LEMMA FoundKept ==
  ASSUME TypeOK, [Next]_vars, ~CrashAndRestart
  PROVE  boot'.found = boot.found
<1>0. boot \in Boot
  BY DEF TypeOK
<1>1. ASSUME NEW h \in Handlers, HandlerStep(h) \/ StepThrows(h)
      PROVE  boot' = boot
  <2>1. LocalAction(h) \/ Return(h) \/ Rethrow(h)
    BY <1>1 DEF HandlerStep, LocalAction
  <2>2. CASE LocalAction(h)
    BY <2>2, StepsMove DEF HandlerMoves
  <2>3. CASE Return(h) \/ Rethrow(h)
    BY <2>3 DEF Return, Rethrow, Leave
  <2>4. QED
    BY <2>1, <2>2, <2>3
<1>2. ASSUME NEW t \in Tasks, StopTask(t) \/ DoneTask(t) \/ ControlStep(t)
      PROVE  boot' = boot
  BY <1>2 DEF StopTask, DoneTask, ControlStep, ListRunning, GateTurn, CancelPendingTurns,
              CancelJobs, AbortAgentWork, ResolveCancelled
<1>3. CASE BootStep
  <2>1. CASE BootRelease \/ BootRequeue \/ BootTask
    BY <1>0, <2>1 DEF BootRelease, BootRequeue, BootTask, Boot
  <2>2. CASE BootSend \/ BootListQueued
    BY <1>0, <2>2 DEF BootSend, BootListQueued, Boot
  <2>3. CASE BootFindJobs
    BY <1>0, <2>3 DEF BootFindJobs, Boot
  <2>4. CASE BootSendOrphan
    BY <1>0, <2>4 DEF BootSendOrphan, Boot
  <2>5. QED
    BY <1>3, <2>1, <2>2, <2>3, <2>4 DEF BootStep
<1>4. CASE UNCHANGED boot
  BY <1>4
<1>5. QED
  BY <1>1, <1>2, <1>3, <1>4
  DEF Next, vars, ReceiveMessage, IntakeTurn, DeliverJob, AgentEnds, AgentErrs, HandleEvent,
      JobTimesOut

\* Before the first crash nothing was found; after it, while no job is given up
\* under its handler, the invariant holds.
RecHolds ==
  /\ GatedEnded
  /\ crashes = 0 => boot.found = {}
  /\ crashes = 1 /\ timeouts = 0 => RecInv

LEMMA NextHolds ==
  /\ TypeOK /\ TypeOK' /\ StopInv /\ (Calm => CalmInv) /\ LiveInv /\ RecHolds
  /\ [Next]_vars
  => RecHolds'
<1> SUFFICES ASSUME TypeOK, TypeOK', StopInv, Calm => CalmInv, LiveInv, RecHolds,
                    [Next]_vars
             PROVE  RecHolds'
  OBVIOUS
<1>0. crashes \in Nat /\ timeouts \in Nat
  BY BoundsAssumption DEF TypeOK
<1>1. GatedEnded'
  BY NextStoreStep, NextGated DEF RecHolds
<1>2. ASSUME crashes' = 0
      PROVE  boot'.found = {}
  <2>1. crashes = 0 /\ ~CrashAndRestart
    BY <1>0, <1>2, CountersMove DEF CrashAndRestart
  <2>2. QED
    BY <2>1, FoundKept DEF RecHolds
<1>3. ASSUME crashes' = 1, timeouts' = 0
      PROVE  RecInv'
  <2>1. timeouts = 0
    BY <1>0, <1>3, CountersMove
  <2>2. CASE CrashAndRestart
    <3>1. crashes = 0
      BY <1>0, <1>3, <2>2 DEF CrashAndRestart
    <3>2. QED
      BY <2>1, <2>2, <3>1, CrashRec DEF Calm
  <2>3. CASE ~CrashAndRestart
    <3>1. crashes = 1
      BY <1>3, <2>3, CountersMove
    <3>2. RecInv /\ GatedEnded
      BY <2>1, <3>1 DEF RecHolds
    <3>3. QED
      BY <1>3, <2>1, <2>3, <3>2, NextRec
  <2>4. QED
    BY <2>2, <2>3
<1>4. QED
  BY <1>1, <1>2, <1>3 DEF RecHolds

LEMMA InitHolds ==
  Init => RecHolds
BY DEF Init, RecHolds, GatedEnded, NoBoot, NoRow

\* When the recovery after the first crash is over, every turn that it found
\* running is carried on, beside the worker and the intake that run from the
\* start, as long as no job is given up under its handler: unless the turn was
\* settled or stopped, its job failed for good, or its old job was already
\* delivered again when the recovery cancelled it.
THEOREM InterruptedTurnsCarried ==
  Spec => [](crashes <= 1 /\ timeouts = 0 => RestartCarries)
<1>1. TypeOK /\ RecHolds => (crashes <= 1 /\ timeouts = 0 => RestartCarries)
  <2> SUFFICES ASSUME TypeOK, RecHolds, crashes <= 1, timeouts = 0, boot.pc = "done",
                      NEW u \in boot.found, Unsettled(u), ~Ended(TaskOf[u])
               PROVE  \/ Carried(u)
                      \/ CancelledUnderHandler(u)
                      \/ \E j \in DOMAIN jobs : jobs[j].turn = u /\ jobs[j].state = "failed"
    BY DEF RestartCarries
  <2>1. crashes = 1
    <3>1. crashes \in Nat
      BY BoundsAssumption DEF TypeOK
    <3>2. crashes # 0
      BY DEF RecHolds
    <3>3. QED
      BY <3>1, <3>2
  <2>2. Excused(u) \/ Goes(u)
    BY <2>1 DEF RecHolds, RecInv
  <2>3. Goes(u) => HasLive(u)
    BY DEF Goes, Pending
  <2>4. HasLive(u) => Carried(u)
    BY DEF HasLive, Carried
  <2>5. QED
    BY <2>2, <2>3, <2>4 DEF Excused
<1>2. QED
  BY <1>1, InitHolds, NextHolds, InitLive, NextLive, CalmInvariant, NextType, PTL DEF Spec

\* In particular in every instance in which the process crashes at most once and
\* pg-boss gives up no job that is still worked on.
LEMMA CarriedAfterOneCrash ==
  ASSUME MaxCrashes <= 1, MaxTimeouts = 0
  PROVE  Spec => []RestartCarries
<1>1. TypeOK => crashes <= 1 /\ timeouts = 0
  BY BoundsAssumption DEF TypeOK
<1>2. QED
  BY <1>1, TypeCorrect, InterruptedTurnsCarried, PTL

================================================================================
