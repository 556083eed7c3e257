----------------------------- MODULE AgentEvents -----------------------------
(***************************************************************************)
(* The events of one agent instance: the serialized handlers of            *)
(* src/discord/observe-bridge.ts with the tool failure guard and the       *)
(* progress messages, the report slot of src/discord/user-turn-message.ts  *)
(* that the tools of the agent fill, and the turns of the executor, as     *)
(* far as they start agents, wait for them and take the report.            *)
(***************************************************************************)
EXTENDS ToolFailureGuard, ProgressStream

CONSTANTS
  StatusText,  \* the line of every event that is not the start of a tool
  MaxTurns,    \* bound on turns of the task
  MaxAttempts, \* deliveries of a turn: QUEUE_RETRY_LIMIT + 1
  MaxEvents,   \* bound on events of the agents, their ends apart
  MaxWaiting,  \* bound on those that wait for the handlers before them
  MaxFaults    \* bound on failed statements and failed calls to Discord

ASSUME EventBounds ==
  /\ StatusText \in Texts
  /\ MaxTurns \in Nat /\ MaxAttempts \in Nat \ {0}
  /\ MaxEvents \in Nat /\ MaxWaiting \in Nat /\ MaxFaults \in Nat

NoReport == 0

VARIABLES
  task,      \* status of the task: open, failed or cancelled
  turn,      \* the last turn that was started
  attempt,   \* deliveries of that turn so far
  handler,   \* handler of that turn
  outcome,   \* what its waiter was resolved with
  submissions, \* agent work admitted by Flue: its turns, the first one is running
  stopping,  \* aborted submissions whose end is not yet observed
  emitted,   \* events so far
  chain,     \* instanceChains: events and flushes that wait
  tripping,  \* is the first of them past the abort of a tripped guard
  guard,     \* stateByInstance
  aborted,   \* operatorAbortedInstances
  slot,      \* pendingByInstance: the turn whose agent filled it
  told,      \* was an agent of the turn told that its report is queued, and not failed since
  beside,    \* was an agent ever dispatched beside another; only properties read it
  stream,    \* renderState
  live,      \* content of the last message in progress_message_ids
  timer,     \* is a flush timer armed
  dirty,     \* did the last edit fail
  results,   \* tool results handled since the last model turn started
  faults

executor == <<task, turn, attempt, handler, outcome>>
flue == <<submissions, stopping>>
reports == <<slot, told, beside>>
progress == <<stream, live, timer, dirty>>
vars == <<executor, flue, emitted, chain, tripping, guard, aborted, reports, progress,
          results, faults>>

Turns == 1..MaxTurns
ToolTypes == Results
EventTypes == {"turn_start", "tool_start", "failed", "agent_end", "flush"} \cup ToolTypes
Events == [type : EventTypes, text : Texts]

Init ==
  /\ task = "open" /\ turn = 0 /\ attempt = 0 /\ handler = "idle" /\ outcome = "none"
  /\ submissions = <<>> /\ stopping = 0 /\ emitted = 0 /\ chain = <<>> /\ tripping = FALSE
  /\ guard = NoGuard /\ aborted = FALSE
  /\ slot = NoReport /\ told = FALSE /\ beside = FALSE
  /\ stream = NewRenderState /\ live = <<>> /\ timer = FALSE /\ dirty = FALSE
  /\ results = <<>> /\ faults = 0

Fault == faults < MaxFaults /\ faults' = faults + 1

--------------------------------------------------------------------------------
\* The executor.

\* Everything of the agents before is over and handled.
Quiet == submissions = <<>> /\ stopping = 0 /\ \A i \in 1..Len(chain) : chain[i].type = "flush"

\* Flue runs the submission after those it has, and the executor waits for
\* none of them.
Dispatch ==
  /\ submissions' = Append(submissions, turn')
  /\ beside' = (beside \/ ~Quiet)

\* A turn, or the retry of the last one, registers its waiter and dispatches an
\* agent.
StartTurn ==
  /\ task = "open"
  /\ \/ handler = "idle" /\ turn < MaxTurns /\ turn' = turn + 1 /\ attempt' = 1 /\ told' = FALSE
     \/ handler = "retry" /\ attempt' = attempt + 1 /\ UNCHANGED <<turn, told>>
  /\ handler' = "waiting" /\ outcome' = "none"
  /\ Dispatch
  /\ UNCHANGED <<task, stopping, emitted, chain, tripping, guard, aborted, slot, progress, results,
                 faults>>

\* A delivery that finds its row running waits for the agent that is there; an
\* aborted one does not count.
ResumeTurn ==
  /\ task = "open" /\ handler = "resume"
  /\ handler' = "waiting" /\ outcome' = "none" /\ attempt' = attempt + 1
  /\ UNCHANGED turn
  /\ IF submissions # <<>> THEN UNCHANGED <<submissions, beside>> ELSE Dispatch
  /\ UNCHANGED <<task, stopping, emitted, chain, tripping, guard, aborted, slot, told, progress,
                 results, faults>>

\* resolveTurnOutcome: the first one wins, and without a waiter none does.
ResolvedWith(o) == IF handler = "waiting" /\ outcome = "none" THEN o ELSE outcome

\* Mutant: the messages are read and left in the slot.
SettleCompletedKept ==
  /\ handler = "waiting" /\ outcome = "completed" /\ task = "open"
  /\ handler' = "idle" /\ outcome' = "none"
  /\ UNCHANGED <<task, turn, attempt, flue, emitted, chain, tripping, guard, aborted, reports, progress,
                 results, faults>>

\* onTurnCompleted takes the messages and posts them.
SettleCompleted ==
  /\ handler = "waiting" /\ outcome = "completed" /\ task = "open"
  /\ handler' = "idle" /\ outcome' = "none"
  /\ slot' = NoReport
  /\ UNCHANGED <<task, turn, attempt, flue, emitted, chain, tripping, guard, aborted, told, beside,
                 progress, results, faults>>

\* A failed outcome, or a completed one that cannot be saved, ends in
\* handleTurnError: both the retry and onTurnFailed discard the messages.
SettleFailed ==
  /\ handler = "waiting" /\ task = "open"
  /\ \/ outcome = "failed" /\ UNCHANGED faults
     \/ outcome = "completed" /\ Fault
  /\ outcome' = "none"
  /\ slot' = NoReport /\ told' = FALSE
  /\ IF attempt < MaxAttempts
     THEN handler' = "retry" /\ UNCHANGED task
     ELSE handler' = "idle" /\ task' = "failed"
  /\ UNCHANGED <<turn, attempt, flue, emitted, chain, tripping, guard, aborted, beside,
                 progress, results>>

\* Whatever the outcome, the turn of a stopped task is gated: no message is
\* read.
SettleCancelled ==
  /\ handler = "waiting" /\ outcome # "none" /\ task = "cancelled"
  /\ handler' = "idle" /\ outcome' = "none"
  /\ UNCHANGED <<task, turn, attempt, flue, emitted, chain, tripping, guard, aborted,
                 reports, progress, results, faults>>

\* A statement of handleTurnError fails before or after the messages are
\* discarded: the row is still running when the job is delivered again.  Nobody
\* settles the turn after the last delivery, nor when its row is saved and its
\* task is not: the task stays running, and no turn of it starts again.
SettleThrows ==
  /\ handler = "waiting" /\ outcome \in {"completed", "failed"} /\ task = "open"
  /\ Fault
  /\ \/ attempt < MaxAttempts /\ handler' = "resume" /\ UNCHANGED <<slot, told>>
     \/ attempt < MaxAttempts /\ handler' \in {"resume", "dead"} /\ slot' = NoReport /\ told' = FALSE
     \/ attempt = MaxAttempts /\ handler' = "dead" /\ UNCHANGED <<slot, told>>
     \/ outcome = "completed" /\ handler' = "dead" /\ UNCHANGED <<slot, told>>
  /\ outcome' = "none"
  /\ UNCHANGED <<task, turn, attempt, flue, emitted, chain, tripping, guard, aborted, beside,
                 progress, results>>

\* Every submission of the instance is aborted.
AbortAgents ==
  /\ aborted' = TRUE
  /\ submissions' = <<>> /\ stopping' = stopping + Len(submissions)

\* The task is cancelled and the slot cleared (TaskTurns has the statements one
\* by one); abort also aborts the agents and resolves the waiter, cancel lets them
\* go on.
StopTask ==
  /\ task = "open" /\ turn > 0
  /\ task' = "cancelled"
  /\ \/ AbortAgents /\ outcome' = ResolvedWith("cancelled")
     \/ UNCHANGED <<aborted, flue, outcome>>
  /\ slot' = NoReport
  /\ UNCHANGED <<turn, attempt, handler, emitted, chain, tripping, guard, told, beside, progress,
                 results, faults>>

--------------------------------------------------------------------------------
\* The agent.

OfType(type) == [type |-> type, text |-> StatusText]
Emit(event) == chain' = Append(chain, event)

\* A model turn or an operation that fails is reported, and the agent goes on.
AgentEmits ==
  /\ submissions # <<>> /\ emitted < MaxEvents /\ Len(chain) < MaxWaiting
  /\ emitted' = emitted + 1
  /\ \/ \E type \in {"turn_start", "failed"} \cup Results : Emit(OfType(type))
     \/ \E text \in Texts \ {StatusText} : Emit([type |-> "tool_start", text |-> text])
  /\ UNCHANGED <<executor, flue, tripping, guard, aborted, reports, progress, results, faults>>

\* post_thread_message or post_thread_report, whose slot knows the instance only;
\* a tool that throws is a result.
QueueReport ==
  /\ submissions # <<>> /\ ~aborted /\ slot = NoReport
  /\ slot' = Head(submissions)
  /\ told' = (told \/ Head(submissions) = turn)
  /\ UNCHANGED <<executor, flue, emitted, chain, tripping, guard, aborted, beside, progress, results,
                 faults>>

\* An agent ends or fails.
AgentFinishes ==
  /\ submissions # <<>>
  /\ submissions' = Tail(submissions)
  /\ \E type \in {"agent_end", "failed"} : Emit(OfType(type))
  /\ UNCHANGED <<executor, stopping, emitted, tripping, guard, aborted, reports, progress, results,
                 faults>>

\* An aborted one fails, and its end may be reported as well.
AgentStops ==
  /\ stopping > 0
  /\ stopping' = stopping - 1
  /\ \E end \in {<<>>, <<OfType("agent_end")>>} : chain' = chain \o <<OfType("failed")>> \o end
  /\ UNCHANGED <<executor, submissions, emitted, tripping, guard, aborted, reports, progress, results,
                 faults>>

--------------------------------------------------------------------------------
\* Progress lines.

Event == Head(chain)
Suppressed == aborted \/ task # "open"

\* The text of an event that makes a line: starts of tools, failed tools, and
\* model turns; agent_end comes after the outcome.
HasLine(type) == type \in {"turn_start", "tool_start", "error", "invalid", "agent_end"}

\* maybeRollProgressMessage for a new line: the live message is frozen, a new
\* one is sent and its id is saved; any of the three may fail.
AppendLine(line) ==
  IF ~ShouldRollBubble(stream.count, line.length)
  THEN stream' = Joined(stream, line) /\ UNCHANGED <<live, faults>>
  ELSE \/ /\ stream' = Rolled(stream, line)
          /\ live' = <<line>>
          /\ UNCHANGED faults
       \/ /\ Fault
          /\ stream' = Joined(stream, line)
          /\ live' \in {live, stream.lines}

\* A shown line arms the timer of the flush.
ShowLine ==
  IF HasLine(Event.type) /\ ~Suppressed
  THEN /\ IF Repeats(stream, Event.text)
          THEN stream' = Repeated(stream, Event.text) /\ UNCHANGED <<live, faults>>
          ELSE AppendLine(NewLine(stream, Event.text))
       /\ timer' = TRUE
       /\ UNCHANGED dirty
  ELSE UNCHANGED <<progress, faults>>

Done == chain' = Tail(chain)

TimerFires ==
  /\ timer /\ Len(chain) < MaxWaiting
  /\ timer' = FALSE
  /\ Emit(OfType("flush"))
  /\ UNCHANGED <<executor, flue, emitted, tripping, guard, aborted, reports, stream, live,
                 dirty, results, faults>>

\* flushProgressMessage edits the live message; an error is swallowed.
Flush ==
  /\ chain # <<>> /\ Event.type = "flush"
  /\ Done
  /\ \/ live' = stream.lines /\ dirty' = FALSE /\ UNCHANGED faults
     \/ Fault /\ dirty' = TRUE /\ UNCHANGED live
  /\ UNCHANGED <<executor, flue, emitted, tripping, guard, aborted, reports, stream, timer, results>>

--------------------------------------------------------------------------------
\* handleObserveEvent, one event at a time.

\* noteAgentTurnBoundary, and no outcome.
HandleTurnStart ==
  /\ chain # <<>> /\ Event.type = "turn_start"
  /\ guard' = NoGuard /\ results' = <<>>
  /\ ShowLine /\ Done
  /\ UNCHANGED <<executor, flue, emitted, tripping, aborted, reports>>

HandleToolStart ==
  /\ chain # <<>> /\ Event.type = "tool_start"
  /\ ShowLine /\ Done
  /\ UNCHANGED <<executor, flue, emitted, tripping, guard, aborted, reports, results>>

HandleResult ==
  /\ chain # <<>> /\ Event.type \in ToolTypes /\ ~tripping
  /\ ~Trips(guard, Event.type)
  /\ guard' = Counted(guard, Event.type)
  /\ results' = Append(results, Event.type)
  /\ ShowLine /\ Done
  /\ UNCHANGED <<executor, flue, emitted, tripping, aborted, reports>>

\* tripGuard aborts the agents first ...
TripGuard ==
  /\ chain # <<>> /\ Event.type \in ToolTypes /\ ~tripping
  /\ Trips(guard, Event.type)
  /\ guard' = [Counted(guard, Event.type) EXCEPT !.tripped = TRUE]
  /\ results' = Append(results, Event.type)
  /\ AbortAgents
  /\ tripping' = TRUE
  /\ UNCHANGED <<executor, emitted, chain, reports, progress, faults>>

\* ... then the failure is reported, and marked as delivered.
ReportTrip ==
  /\ tripping
  /\ tripping' = FALSE
  /\ outcome' = ResolvedWith("failed")
  /\ guard' = [guard EXCEPT !.delivered = TRUE]
  /\ ShowLine /\ Done
  /\ UNCHANGED <<task, turn, attempt, handler, flue, emitted, aborted, reports, results>>

\* Mutant: the guard survives the failure.
HandleFailureKept ==
  /\ chain # <<>> /\ Event.type = "failed"
  /\ outcome' = IF ShouldSkip(guard) THEN outcome ELSE ResolvedWith("failed")
  /\ UNCHANGED guard /\ results' = <<>>
  /\ Done
  /\ UNCHANGED <<task, turn, attempt, handler, flue, emitted, tripping, aborted, reports, progress, faults>>

\* A failure that the guard reported is skipped once, and the guard is cleared.
HandleFailure ==
  /\ chain # <<>> /\ Event.type = "failed"
  /\ outcome' = IF ShouldSkip(guard) THEN outcome ELSE ResolvedWith("failed")
  /\ guard' = NoGuard /\ results' = <<>>
  /\ Done
  /\ UNCHANGED <<task, turn, attempt, handler, flue, emitted, tripping, aborted, reports, progress, faults>>

HandleAgentEnd ==
  /\ chain # <<>> /\ Event.type = "agent_end"
  /\ guard' = NoGuard /\ results' = <<>>
  /\ outcome' = ResolvedWith("completed")
  /\ ShowLine /\ Done
  /\ UNCHANGED <<task, turn, attempt, handler, flue, emitted, tripping, aborted, reports>>

HandleEvent ==
  \/ HandleTurnStart \/ HandleToolStart \/ HandleResult \/ TripGuard \/ ReportTrip
  \/ HandleFailure \/ HandleAgentEnd \/ Flush

Settle == SettleCompleted \/ SettleFailed \/ SettleCancelled

--------------------------------------------------------------------------------
Next ==
  \/ StartTurn \/ ResumeTurn \/ Settle \/ SettleThrows \/ StopTask
  \/ AgentEmits \/ QueueReport \/ AgentFinishes \/ AgentStops
  \/ TimerFires \/ HandleEvent

Spec == Init /\ [][Next]_vars

\* Handlers run on, timers fire, and an agent ends: its time is limited.
FairSpec ==
  /\ Spec
  /\ WF_vars(AgentFinishes) /\ WF_vars(AgentStops) /\ WF_vars(HandleEvent) /\ WF_vars(Settle) /\ WF_vars(TimerFires)

--------------------------------------------------------------------------------
\* Properties.

TypeOK ==
  /\ task \in {"open", "failed", "cancelled"}
  /\ turn \in 0..MaxTurns /\ attempt \in 0..MaxAttempts
  /\ handler \in {"idle", "waiting", "retry", "resume", "dead"}
  /\ outcome \in {"none", "completed", "failed", "cancelled"}
  /\ submissions \in Seq(Turns) /\ stopping \in Nat
  /\ emitted \in 0..MaxEvents
  /\ chain \in Seq(Events)
  /\ tripping \in BOOLEAN
  /\ guard \in Guards
  /\ aborted \in BOOLEAN
  /\ slot \in Turns \cup {NoReport}
  /\ told \in BOOLEAN /\ beside \in BOOLEAN
  /\ stream \in [lines : Seq(Line), count : Nat]
  /\ live \in Seq(Line)
  /\ timer \in BOOLEAN /\ dirty \in BOOLEAN
  /\ results \in Seq(Results)
  /\ faults \in 0..MaxFaults

\* The counters, updated result by result, decide as the whole history would
\* (tool-failure-guard.ts:80-87): a guard is tripped exactly when, since the
\* last boundary, the given number of results in a row were errors, or the
\* smaller number of them schema errors.
Streak(kinds, n, upTo) ==
  n <= upTo /\ \A i \in (upTo - n + 1)..upTo : results[i] \in kinds
TripsOnStreak == guard.tripped <=>
  \E upTo \in 1..Len(results) :
    \/ Streak({"error", "invalid"}, MaxFailures, upTo)
    \/ MaxValidationFailures <= MaxFailures /\ Streak({"invalid"}, MaxValidationFailures, upTo)

\* A turn that completes posts its own report whenever an agent of it was told
\* that the report is queued (thread-message-tool.ts:48) and no failure discarded
\* it since (turn-executor.ts:329), also when the slot outlived a delivery.  It
\* posts a report of another turn only after some agent was dispatched beside
\* one before it that was not over and handled, as an agent that reports a
\* failure and goes on allows (observe-bridge.ts:254-259).
OwnReportPosted == [][SettleCompleted =>
  /\ told => slot = turn
  /\ slot # NoReport => told \/ beside]_vars

\* The count that decides about a new bubble (progress-stream.ts:49, 86, 109)
\* is the length of the bubble, and without failed calls a bubble with several
\* lines exceeds the threshold by no more than one repeat counter.
BubbleFits ==
  /\ stream.count = ContentLength(stream.lines)
  /\ faults = 0 => Len(stream.lines) <= 1 \/ stream.count <= Threshold + Suffix

\* An edit never takes a line out of the live message (observe-bridge.ts:173-191,
\* progress-stream.ts:88-107): what it shows are the first lines of the bubble,
\* and all of them once the timer has fired and its flush succeeded, also when
\* a roll failed half way.
Pending == timer \/ \E i \in 1..Len(chain) : chain[i].type = "flush"
NoLineLost ==
  /\ Len(live) <= Len(stream.lines)
  /\ \A i \in 1..Len(live) : live[i].text = stream.lines[i].text
  /\ ~Pending /\ ~dirty => live = stream.lines

\* An agent is told that the operator aborted (thread-message-tool.ts:34) only
\* when the operator did: otherwise a turn that is retried after a tripped
\* guard could never report.
RefusedOnlyAfterStop == submissions # <<>> /\ aborted => task = "cancelled"

\* The agent of a waiting turn is always reported: no turn waits for ever.
OutcomeArrives == handler = "waiting" ~> handler # "waiting"

================================================================================
