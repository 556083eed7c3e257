--------------------------- MODULE AgentEventsProofs ---------------------------
(***************************************************************************)
(* Proofs about AgentEvents for any thresholds, texts and bounds.          *)
(***************************************************************************)
EXTENDS AgentEvents, SequenceTheorems, WellFoundedInduction, TLAPS

--------------------------------------------------------------------------------
\* The invariants: each is inductive given the types.

Ends == {"failed", "agent_end"}

\* A delivery is left for a turn that is to be delivered again.
RetriesFit ==
  /\ handler \in {"retry", "resume"} => attempt < MaxAttempts
  /\ handler # "idle" => turn # NoReport

\* While the guard aborts its agent, the result that tripped it is still there.
TrippingFits == tripping => chain # <<>> /\ Head(chain).type \in ToolTypes

\* Until an agent is dispatched beside another there is one at most, of the turn
\* under way, and nothing completes that turn while it is there.
Alone ==
  /\ submissions = <<turn>> /\ stopping = 0
  /\ \A i \in 1..Len(chain) : chain[i].type # "agent_end"
  /\ task = "open" => handler # "idle" /\ outcome # "completed"
AgentsFit == beside \/ submissions = <<>> \/ Alone

\* The slot belongs to the turn under way when an agent of it was told so, and
\* until an agent is dispatched beside another it belongs to no other turn.
SlotFits == task = "open" =>
  /\ handler \in {"waiting", "retry", "resume"} /\ told => slot = turn
  /\ handler \in {"waiting", "retry", "resume"} /\ ~told => beside \/ slot = NoReport
  /\ handler = "idle" => beside \/ slot = NoReport

\* A counter is the length of the longest run of errors that ends now.
CountsRun(r, n, kinds) ==
  /\ n <= Len(r)
  /\ \A i \in (Len(r) - n + 1)..Len(r) : r[i] \in kinds
  /\ n < Len(r) => r[Len(r) - n] \notin kinds
Errors == {"error", "invalid"}
CountersFit == ~guard.tripped =>
  /\ CountsRun(results, guard.failures, Errors)
  /\ CountsRun(results, guard.validation, {"invalid"})

--------------------------------------------------------------------------------
\* Sequences.

LEMMA AppendTo ==
  ASSUME NEW S, NEW s \in Seq(S), NEW e \in S
  PROVE  /\ Append(s, e) \in Seq(S) /\ Len(Append(s, e)) = Len(s) + 1
         /\ \A i \in 1..Len(s) : Append(s, e)[i] = s[i]
         /\ Append(s, e)[Len(s) + 1] = e
         /\ s # <<>> => Head(Append(s, e)) = Head(s)
         /\ Append(s, e) # <<>>
OBVIOUS

LEMMA ReplaceLast ==
  ASSUME NEW S, NEW s \in Seq(S), s # <<>>, NEW e \in S
  PROVE  /\ Last(s) \in S /\ Last(s) = s[Len(s)] /\ Len(s) \in 1..Len(s)
         /\ Front(s) \in Seq(S)
         /\ Append(Front(s), e) \in Seq(S) /\ Len(Append(Front(s), e)) = Len(s)
         /\ \A i \in 1..Len(s) : Append(Front(s), e)[i] = IF i = Len(s) THEN e ELSE s[i]
<1>1. Len(s) \in Nat \ {0} /\ \A i \in 1..Len(s) : s[i] \in S
  BY EmptySeq, ElementOfSeq
<1>2. /\ Front(s) \in Seq(S) /\ Len(Front(s)) = Len(s) - 1
      /\ \A i \in 1..(Len(s) - 1) : Front(s)[i] = s[i]
  <2>1. Len(s) - 1 \in Int /\ \A i \in 1..(Len(s) - 1) : s[i] \in S
    BY <1>1
  <2> DEFINE front == SubSeq(s, 1, Len(s) - 1)
  <2>2. /\ front \in Seq(S)
        /\ Len(front) = IF 1 <= Len(s) - 1 THEN (Len(s) - 1) - 1 + 1 ELSE 0
        /\ \A i \in 1..((Len(s) - 1) - 1 + 1) : front[i] = s[1 + i - 1]
    BY <2>1, SubSeqProperties
  <2>3. Front(s) = front
    BY DEF Front
  <2> HIDE DEF front
  <2>4. QED
    BY <1>1, <2>2, <2>3
<1>3. QED
  BY <1>1, <1>2, AppendTo DEF Last

--------------------------------------------------------------------------------
\* Lines.

\* The lines of old are still there, perhaps with a counter, in new.
Keeps(new, old) ==
  /\ Len(old) <= Len(new)
  /\ \A i \in 1..Len(old) : new[i].text = old[i].text

LEMMA RepeatedLine ==
  ASSUME stream \in [lines : Seq(Line), count : Nat], NEW text \in Texts, Repeats(stream, text)
  PROVE  /\ Repeated(stream, text) \in [lines : Seq(Line), count : Nat]
         /\ Keeps(Repeated(stream, text).lines, stream.lines)
<1> DEFINE old == Last(stream.lines)
           line == [old EXCEPT !.repeated = TRUE]
<1>1. stream.lines \in Seq(Line) /\ stream.lines # <<>>
  BY DEF Repeats
<1>2. old \in Line
  BY <1>1, ReplaceLast
<1>3. line \in Line /\ line.text = old.text
  BY <1>2 DEF Line
<1>4. LengthOf(line) - LengthOf(old) \in Nat
  BY <1>2, Lengths DEF Line, LengthOf
<1>5. LengthOf(line) \in Nat /\ LengthOf(old) \in Nat
  BY <1>2, Lengths DEF Line, LengthOf
<1>6. /\ Append(Front(stream.lines), line) \in Seq(Line)
      /\ Keeps(Append(Front(stream.lines), line), stream.lines)
  BY <1>1, <1>3, ReplaceLast DEF Keeps
<1>7. stream.count + LengthOf(line) - LengthOf(old) \in Nat
  BY <1>4, <1>5
<1>8. QED
  BY <1>6, <1>7 DEF Repeated

LEMMA NewLineFits ==
  ASSUME stream \in [lines : Seq(Line), count : Nat], NEW text \in Texts
  PROVE  NewLine(stream, text) \in Line /\ LengthOf(NewLine(stream, text)) \in Nat
BY Lengths DEF NewLine, Line, LengthOf

LEMMA JoinedLine ==
  ASSUME stream \in [lines : Seq(Line), count : Nat], NEW line \in Line, LengthOf(line) \in Nat
  PROVE  /\ Joined(stream, line) \in [lines : Seq(Line), count : Nat]
         /\ Keeps(Joined(stream, line).lines, stream.lines)
BY AppendTo DEF Joined, Keeps

\* What an event does to the messages.
LEMMA ShownLine ==
  ASSUME TypeOK, chain # <<>>, ShowLine
  PROVE  /\ stream' \in [lines : Seq(Line), count : Nat] /\ live' \in Seq(Line)
         /\ faults' \in 0..MaxFaults /\ dirty' = dirty
         /\ \/ UNCHANGED progress
            \/ /\ timer' = TRUE
               /\ \/ live' \in {live, stream.lines} /\ Keeps(stream'.lines, stream.lines)
                  \/ live' = stream'.lines
<1>1. Event \in Events
  BY HeadTailProperties DEF TypeOK, Event
<1>2. Event.text \in Texts
  BY <1>1 DEF Events
<1>3. stream \in [lines : Seq(Line), count : Nat] /\ live \in Seq(Line) /\ faults \in 0..MaxFaults
  BY DEF TypeOK
<1>4. CASE ~(HasLine(Event.type) /\ ~Suppressed)
  BY <1>3, <1>4 DEF ShowLine, progress
<1>5. CASE HasLine(Event.type) /\ ~Suppressed /\ Repeats(stream, Event.text)
  BY <1>2, <1>3, <1>5, RepeatedLine DEF ShowLine
<1>6. CASE HasLine(Event.type) /\ ~Suppressed /\ ~Repeats(stream, Event.text)
  <2> DEFINE line == NewLine(stream, Event.text)
  <2> HIDE DEF line
  <2>1. line \in Line /\ LengthOf(line) \in Nat
    BY <1>2, <1>3, NewLineFits DEF line
  <2>2. /\ Joined(stream, line) \in [lines : Seq(Line), count : Nat]
        /\ Keeps(Joined(stream, line).lines, stream.lines)
    BY <1>3, <2>1, JoinedLine
  <2>3. /\ Rolled(stream, line) \in [lines : Seq(Line), count : Nat]
        /\ Rolled(stream, line).lines = <<line>> /\ <<line>> \in Seq(Line)
    BY <2>1 DEF Rolled
  <2>4. AppendLine(line) /\ timer' = TRUE /\ dirty' = dirty
    BY <1>6 DEF ShowLine, line
  <2>5. CASE stream' = Joined(stream, line) /\ live' \in {live, stream.lines}
    <3>1. live' \in Seq(Line)
      BY <1>3, <2>5
    <3>2. faults' \in 0..MaxFaults
      BY <1>3, <2>4, EventBounds DEF AppendLine, Fault
    <3>3. stream' \in [lines : Seq(Line), count : Nat] /\ Keeps(stream'.lines, stream.lines)
      BY <2>2, <2>5
    <3>4. QED
      BY <2>4, <2>5, <3>1, <3>2, <3>3
  <2>6. CASE stream' = Rolled(stream, line) /\ live' = <<line>>
    <3>1. faults' \in 0..MaxFaults
      BY <1>3, <2>4, EventBounds DEF AppendLine, Fault
    <3>2. QED
      BY <2>3, <2>4, <2>6, <3>1
  <2>7. QED
    BY <2>4, <2>5, <2>6 DEF AppendLine
<1>7. QED
  BY <1>4, <1>5, <1>6

--------------------------------------------------------------------------------
\* Types.

LEMMA InitTypes == Init => TypeOK /\ RetriesFit
<1>1. <<>> \in Seq(Events) /\ <<>> \in Seq(Line) /\ <<>> \in Seq(Results) /\ <<>> \in Seq(Turns)
  BY EmptySeq
<1>2. NoGuard \in Guards
  BY DEF NoGuard, Guards
<1>3. NewRenderState \in [lines : Seq(Line), count : Nat]
  BY <1>1 DEF NewRenderState
<1> SUFFICES ASSUME Init PROVE TypeOK /\ RetriesFit OBVIOUS
<1>4. /\ turn \in 0..MaxTurns /\ attempt \in 0..MaxAttempts /\ emitted \in 0..MaxEvents
      /\ faults \in 0..MaxFaults
  BY EventBounds DEF Init
<1>5. /\ chain \in Seq(Events) /\ results \in Seq(Results) /\ live \in Seq(Line)
      /\ submissions \in Seq(Turns)
  BY <1>1 DEF Init
<1>6. QED
  BY <1>2, <1>3, <1>4, <1>5 DEF Init, TypeOK, RetriesFit

LEMMA EventsFit ==
  /\ \A type \in EventTypes : OfType(type) \in Events
  /\ \A text \in Texts : [type |-> "tool_start", text |-> text] \in Events
<1>1. StatusText \in Texts
  BY EventBounds
<1>2. "tool_start" \in EventTypes
  BY DEF EventTypes
<1>3. QED
  BY <1>1, <1>2 DEF OfType, Events

\* What an aborted agent reports.
LEMMA StopEvents ==
  ASSUME NEW end \in {<<>>, <<OfType("agent_end")>>}
  PROVE  <<OfType("failed")>> \in Seq(Events) /\ end \in Seq(Events)
<1>1. OfType("failed") \in Events /\ OfType("agent_end") \in Events
  BY EventsFit DEF EventTypes
<1> DEFINE F == OfType("failed")
           E == OfType("agent_end")
<1>2. F \in Events /\ E \in Events /\ end \in {<<>>, <<E>>}
  BY <1>1
<1> HIDE DEF F, E
<1>3. <<F>> \in Seq(Events) /\ <<E>> \in Seq(Events) /\ <<>> \in Seq(Events)
  BY <1>2, EmptySeq
<1>4. <<F>> \in Seq(Events) /\ end \in Seq(Events)
  BY <1>2, <1>3
<1>5. QED
  BY <1>4 DEF F

\* An event joins the chain, and the first one leaves it.
LEMMA ChainTypes ==
  ASSUME TypeOK
  PROVE  /\ \A event \in Events : Emit(event) => chain' \in Seq(Events)
         /\ chain # <<>> /\ Done => chain' \in Seq(Events)
<1>1. chain \in Seq(Events)
  BY DEF TypeOK
<1>2. QED
  BY <1>1, AppendTo, HeadTailProperties DEF Emit, Done

LEMMA CountedTypes ==
  ASSUME NEW g \in Guards, NEW result \in Results
  PROVE  Counted(g, result) \in Guards
<1>1. CASE result = "ok"
  BY <1>1 DEF Counted, Guards
<1>2. CASE result # "ok" /\ g.tripped
  BY <1>2 DEF Counted, Guards
<1>3. CASE result # "ok" /\ ~g.tripped
  <2>1. g.failures + 1 \in Nat /\ g.validation + 1 \in Nat
    BY DEF Guards
  <2> DEFINE v == IF result = "invalid" THEN g.validation + 1 ELSE 0
  <2>2. Counted(g, result) = [failures |-> g.failures + 1, validation |-> v,
          tripped |-> g.tripped, delivered |-> g.delivered]
    BY <1>3 DEF Counted, Guards
  <2>3. QED
    BY <2>1, <2>2 DEF Guards
<1>4. QED
  BY <1>1, <1>2, <1>3

LEMMA ResolvedTypes ==
  ASSUME TypeOK, NEW o \in {"completed", "failed", "cancelled"}
  PROVE  ResolvedWith(o) \in {"none", "completed", "failed", "cancelled"}
BY DEF TypeOK, ResolvedWith

LEMMA DispatchTypes ==
  ASSUME TypeOK, turn' \in Turns, Dispatch
  PROVE  submissions' \in Seq(Turns) /\ beside' \in BOOLEAN
<1>1. submissions' \in Seq(Turns)
  BY AppendTo DEF Dispatch, TypeOK
<1>2. beside' \in BOOLEAN
  BY Zenon DEF Dispatch
<1>3. QED
  BY <1>1, <1>2

LEMMA AbortTypes ==
  ASSUME TypeOK, AbortAgents
  PROVE  aborted' \in BOOLEAN /\ submissions' \in Seq(Turns) /\ stopping' \in Nat
BY EmptySeq DEF AbortAgents, TypeOK

LEMMA ExecutorTypes ==
  ASSUME TypeOK, RetriesFit, StartTurn \/ ResumeTurn \/ Settle \/ SettleThrows \/ StopTask
  PROVE  TypeOK' /\ RetriesFit'
<1> USE EventBounds
<1>1. CASE StartTurn
  <2>1. turn' \in Turns /\ attempt' \in 0..MaxAttempts /\ told' \in BOOLEAN
    <3>1. turn \in 0..MaxTurns /\ attempt \in 0..MaxAttempts /\ told \in BOOLEAN
      BY DEF TypeOK
    <3>2. \/ turn < MaxTurns /\ turn' = turn + 1 /\ attempt' = 1 /\ told' = FALSE
          \/ /\ attempt < MaxAttempts /\ attempt' = attempt + 1 /\ UNCHANGED <<turn, told>>
             /\ turn # 0
      BY <1>1 DEF StartTurn, RetriesFit, NoReport
    <3>3. turn' \in Turns /\ attempt' \in 0..MaxAttempts
      BY <3>1, <3>2 DEF Turns
    <3>4. told' \in BOOLEAN
      BY <3>1, <3>2, Zenon
    <3>5. QED
      BY <3>3, <3>4
  <2>2. submissions' \in Seq(Turns) /\ beside' \in BOOLEAN
    BY <1>1, <2>1, DispatchTypes DEF StartTurn
  <2>3. turn' \in 0..MaxTurns /\ turn' # NoReport
    BY <2>1 DEF Turns, NoReport
  <2>4. QED
    BY <1>1, <2>1, <2>2, <2>3 DEF StartTurn, TypeOK, RetriesFit, progress
<1>2. CASE ResumeTurn
  <2>1. turn' \in Turns /\ attempt' \in 0..MaxAttempts /\ turn' # NoReport
    BY <1>2 DEF ResumeTurn, RetriesFit, TypeOK, Turns, NoReport
  <2>2. submissions' \in Seq(Turns) /\ beside' \in BOOLEAN
    <3>1. CASE submissions # <<>>
      BY <1>2, <3>1 DEF ResumeTurn, TypeOK
    <3>2. CASE submissions = <<>>
      BY <1>2, <2>1, <3>2, DispatchTypes DEF ResumeTurn
    <3>3. QED
      BY <3>1, <3>2
  <2>3. QED
    BY <1>2, <2>1, <2>2 DEF ResumeTurn, TypeOK, RetriesFit, progress
<1>3. CASE SettleCompleted
  BY <1>3 DEF SettleCompleted, TypeOK, RetriesFit, flue, progress
<1>4. CASE SettleFailed
  <2>1. handler' \in {"idle", "retry"} /\ task' \in {"open", "failed"}
    BY <1>4 DEF SettleFailed
  <2>2. (handler' = "retry" => attempt < MaxAttempts) /\ turn # NoReport
    BY <1>4 DEF SettleFailed, RetriesFit
  <2>3. faults' \in 0..MaxFaults
    BY <1>4 DEF SettleFailed, TypeOK, Fault
  <2>4. QED
    BY <1>4, <2>1, <2>2, <2>3 DEF SettleFailed, TypeOK, RetriesFit, flue, progress
<1>5. CASE SettleCancelled
  BY <1>5 DEF SettleCancelled, TypeOK, RetriesFit, flue, progress, reports
<1>6. CASE SettleThrows
  <2>1. /\ handler' \in {"resume", "dead"} /\ (handler' = "resume" => attempt < MaxAttempts)
        /\ turn # NoReport
    BY <1>6 DEF SettleThrows, RetriesFit
  <2>2. slot' \in Turns \cup {NoReport}
    BY <1>6 DEF SettleThrows, TypeOK
  <2>3. told' \in BOOLEAN
    BY <1>6, Zenon DEF SettleThrows, TypeOK
  <2>4. faults' \in 0..MaxFaults
    BY <1>6 DEF SettleThrows, TypeOK, Fault
  <2>5. QED
    BY <1>6, <2>1, <2>2, <2>3, <2>4 DEF SettleThrows, TypeOK, RetriesFit, flue, progress
<1>7. CASE StopTask
  <2>1. /\ aborted' \in BOOLEAN /\ submissions' \in Seq(Turns) /\ stopping' \in Nat
        /\ outcome' \in {"none", "completed", "failed", "cancelled"}
    BY <1>7, ResolvedTypes, AbortTypes DEF StopTask, TypeOK, flue
  <2>2. QED
    BY <1>7, <2>1 DEF StopTask, TypeOK, RetriesFit, progress
<1>8. QED
  BY <1>1, <1>2, <1>3, <1>4, <1>5, <1>6, <1>7 DEF Settle

LEMMA AgentTypes ==
  ASSUME TypeOK, RetriesFit,
         AgentEmits \/ QueueReport \/ AgentFinishes \/ AgentStops \/ TimerFires
  PROVE  TypeOK' /\ RetriesFit'
<1> USE EventBounds
<1>1. CASE AgentEmits
  <2>1. {"turn_start", "failed"} \cup Results \subseteq EventTypes
    BY DEF EventTypes, ToolTypes
  <2>2. chain' \in Seq(Events)
    BY <1>1, <2>1, EventsFit, ChainTypes DEF AgentEmits
  <2>3. emitted' \in 0..MaxEvents
    BY <1>1 DEF AgentEmits, TypeOK
  <2>4. QED
    BY <1>1, <2>2, <2>3 DEF AgentEmits, TypeOK, RetriesFit, progress, flue, reports, executor
<1>2. CASE QueueReport
  <2>1. Head(submissions) \in Turns
    BY <1>2, HeadTailProperties DEF QueueReport, TypeOK
  <2>2. told' \in BOOLEAN
    BY <1>2, Zenon DEF QueueReport
  <2>3. QED
    BY <1>2, <2>1, <2>2 DEF QueueReport, TypeOK, RetriesFit, progress, flue, executor
<1>3. CASE AgentFinishes
  <2>1. OfType("failed") \in Events /\ OfType("agent_end") \in Events
    BY EventsFit DEF EventTypes
  <2>2. chain' \in Seq(Events)
    BY <1>3, <2>1, ChainTypes DEF AgentFinishes
  <2>3. submissions' \in Seq(Turns)
    BY <1>3, HeadTailProperties DEF AgentFinishes, TypeOK
  <2>4. QED
    BY <1>3, <2>2, <2>3 DEF AgentFinishes, TypeOK, RetriesFit, progress, reports, executor
<1>4. CASE AgentStops
  <2>1. PICK end \in {<<>>, <<OfType("agent_end")>>} : chain' = (chain \o <<OfType("failed")>>) \o end
    BY <1>4 DEF AgentStops
  <2>2. <<OfType("failed")>> \in Seq(Events) /\ end \in Seq(Events) /\ chain \in Seq(Events)
    BY StopEvents DEF TypeOK
  <2>3. chain' \in Seq(Events)
    BY <2>1, <2>2, ConcatProperties
  <2>4. stopping' \in Nat
    BY <1>4 DEF AgentStops, TypeOK
  <2>5. QED
    BY <1>4, <2>3, <2>4 DEF AgentStops, TypeOK, RetriesFit, progress, reports, executor
<1>5. CASE TimerFires
  <2>1. OfType("flush") \in Events
    BY EventsFit DEF EventTypes
  <2>2. chain' \in Seq(Events)
    BY <1>5, <2>1, ChainTypes DEF TimerFires
  <2>3. timer' \in BOOLEAN
    BY <1>5, Zenon DEF TimerFires
  <2>4. UNCHANGED <<task, turn, attempt, handler, outcome, submissions, stopping, emitted, tripping,
                    guard, aborted, slot, told, beside, stream, live, dirty, results, faults>>
    BY <1>5 DEF TimerFires, reports, executor, flue
  <2> HIDE <1>5
  <2>5. QED
    BY <2>2, <2>3, <2>4, ZenonT(60) DEF TypeOK, RetriesFit
<1>6. QED
  BY <1>1, <1>2, <1>3, <1>4, <1>5

LEMMA LineTypes ==
  ASSUME TypeOK, chain # <<>>, ShowLine, Done
  PROVE  /\ stream' \in [lines : Seq(Line), count : Nat] /\ live' \in Seq(Line)
         /\ timer' \in BOOLEAN /\ dirty' \in BOOLEAN /\ faults' \in 0..MaxFaults
         /\ chain' \in Seq(Events)
<1>1. timer \in BOOLEAN /\ dirty \in BOOLEAN
  BY DEF TypeOK
<1>2. QED
  BY <1>1, ShownLine, ChainTypes DEF progress

LEMMA HandlerTypes ==
  ASSUME TypeOK, RetriesFit, TrippingFits, HandleEvent
  PROVE  TypeOK' /\ RetriesFit'
<1>1. NoGuard \in Guards /\ <<>> \in Seq(Results)
  BY EmptySeq DEF NoGuard, Guards
<1>2. chain # <<>> /\ Event.type \in ToolTypes =>
         /\ Event.type \in Results /\ Counted(guard, Event.type) \in Guards
         /\ Append(results, Event.type) \in Seq(Results)
  BY CountedTypes, AppendTo DEF TypeOK, ToolTypes
<1>3. CASE HandleTurnStart
  <2>1. chain # <<>> /\ ShowLine /\ Done
    BY <1>3 DEF HandleTurnStart
  <2>2. QED
    BY <1>1, <1>3, <2>1, LineTypes DEF HandleTurnStart, TypeOK, RetriesFit, executor, flue, reports
<1>4. CASE HandleToolStart
  <2>1. chain # <<>> /\ ShowLine /\ Done
    BY <1>4 DEF HandleToolStart
  <2>2. QED
    BY <1>4, <2>1, LineTypes DEF HandleToolStart, TypeOK, RetriesFit, executor, flue, reports
<1>5. CASE HandleResult
  <2>1. chain # <<>> /\ ShowLine /\ Done
    BY <1>5 DEF HandleResult
  <2>2. QED
    BY <1>2, <1>5, <2>1, LineTypes DEF HandleResult, TypeOK, RetriesFit, executor, flue, reports
<1>6. CASE TripGuard
  <2>1. [Counted(guard, Event.type) EXCEPT !.tripped = TRUE] \in Guards
    BY <1>2, <1>6 DEF TripGuard, Guards
  <2>2. QED
    BY <1>2, <1>6, <2>1
    DEF TripGuard, AbortAgents, TypeOK, RetriesFit, executor, flue, reports, progress
<1>7. CASE ReportTrip
  <2>1. chain # <<>> /\ ShowLine /\ Done
    BY <1>7 DEF TrippingFits, ReportTrip
  <2>2. outcome' \in {"none", "completed", "failed", "cancelled"}
    BY <1>7, ResolvedTypes DEF ReportTrip
  <2>3. guard' \in Guards
    BY <1>7 DEF ReportTrip, TypeOK, Guards
  <2>4. QED
    BY <1>7, <2>1, <2>2, <2>3, LineTypes DEF ReportTrip, TypeOK, RetriesFit, flue, reports
<1>8. CASE HandleFailure
  <2>1. chain' \in Seq(Events)
    BY <1>8, ChainTypes DEF HandleFailure
  <2>2. outcome' \in {"none", "completed", "failed", "cancelled"}
    BY <1>8, ResolvedTypes DEF HandleFailure, TypeOK
  <2>3. QED
    BY <1>1, <1>8, <2>1, <2>2 DEF HandleFailure, TypeOK, RetriesFit, flue, reports, progress
<1>9. CASE HandleAgentEnd
  <2>1. chain # <<>> /\ ShowLine /\ Done
    BY <1>9 DEF HandleAgentEnd
  <2>2. outcome' \in {"none", "completed", "failed", "cancelled"}
    BY <1>9, ResolvedTypes DEF HandleAgentEnd
  <2>3. QED
    BY <1>1, <1>9, <2>1, <2>2, LineTypes DEF HandleAgentEnd, TypeOK, RetriesFit, flue, reports
<1>10. CASE Flush
  <2>1. chain' \in Seq(Events)
    BY <1>10, ChainTypes DEF Flush
  <2>2. live' \in Seq(Line) /\ dirty' \in BOOLEAN /\ faults' \in 0..MaxFaults
    <3>1. stream.lines \in Seq(Line) /\ live \in Seq(Line) /\ faults \in 0..MaxFaults
      BY DEF TypeOK
    <3>2. live' \in Seq(Line) /\ faults' \in 0..MaxFaults
      BY <1>10, <3>1, EventBounds DEF Flush, Fault
    <3>3. dirty' \in BOOLEAN
      BY <1>10, Zenon DEF Flush
    <3>4. QED
      BY <3>2, <3>3
  <2>3. QED
    BY <1>10, <2>1, <2>2 DEF Flush, TypeOK, RetriesFit, executor, flue, reports
<1>11. QED
  BY <1>3, <1>4, <1>5, <1>6, <1>7, <1>8, <1>9, <1>10 DEF HandleEvent

\* The first event of a chain stays the first when others join.
Keeps1(c, d) == d # <<>> /\ Head(d) = Head(c)

LEMMA FirstKept ==
  ASSUME NEW c \in Seq(Events), c # <<>>, NEW d \in Seq(Events), NEW e \in Seq(Events)
  PROVE  Keeps1(c, (c \o d) \o e)
<1>1. ASSUME NEW a \in Seq(Events), a # <<>>, NEW b \in Seq(Events)
      PROVE  a \o b \in Seq(Events) /\ Keeps1(a, a \o b)
  <2>1. Len(a) \in Nat \ {0} /\ Len(b) \in Nat
    BY <1>1, EmptySeq
  <2>2. a \o b \in Seq(Events) /\ Len(a \o b) = Len(a) + Len(b) /\ (a \o b)[1] = a[1]
    BY <1>1, <2>1, ConcatProperties
  <2>3. a \o b # <<>>
    BY <2>1, <2>2, EmptySeq
  <2>4. Head(a \o b) = (a \o b)[1] /\ Head(a) = a[1]
    BY <1>1, <2>2, <2>3
  <2>5. QED
    BY <2>2, <2>3, <2>4 DEF Keeps1
<1>2. QED
  BY <1>1 DEF Keeps1

LEMMA NextTripping ==
  ASSUME TypeOK, TrippingFits, Next
  PROVE  TrippingFits'
<1> SUFFICES ASSUME tripping' PROVE chain' # <<>> /\ Head(chain').type \in ToolTypes
  BY DEF TrippingFits
<1>1. chain \in Seq(Events)
  BY DEF TypeOK
<1>2. tripping => chain # <<>> /\ Event.type \in ToolTypes
  BY DEF TrippingFits, Event
<1>3. CASE tripping /\ UNCHANGED chain
  BY <1>2, <1>3 DEF Event
<1>4. CASE tripping /\ \E event \in Events : Emit(event)
  BY <1>1, <1>2, <1>4, AppendTo DEF Emit, Event
<1>5. CASE AgentStops
  <2>1. tripping
    BY <1>5 DEF AgentStops
  <2>2. PICK end \in {<<>>, <<OfType("agent_end")>>} : chain' = (chain \o <<OfType("failed")>>) \o end
    BY <1>5 DEF AgentStops
  <2>3. <<OfType("failed")>> \in Seq(Events) /\ end \in Seq(Events)
    BY StopEvents
  <2>4. Keeps1(chain, chain')
    BY <1>1, <1>2, <2>1, <2>2, <2>3, FirstKept
  <2>5. QED
    BY <1>2, <2>1, <2>4 DEF Keeps1, Event
<1>6. CASE TripGuard
  BY <1>6 DEF TripGuard, Event
<1>7. CASE StartTurn \/ ResumeTurn \/ Settle \/ SettleThrows \/ StopTask \/ QueueReport
  BY <1>3, <1>7 DEF StartTurn, ResumeTurn, Settle, SettleCompleted, SettleFailed, SettleCancelled,
    SettleThrows, StopTask, QueueReport
<1>8. CASE HandleTurnStart \/ HandleToolStart \/ HandleResult \/ ReportTrip \/ HandleFailure
           \/ HandleAgentEnd \/ Flush
  BY <1>2, <1>8 DEF HandleTurnStart, HandleToolStart, HandleResult, ReportTrip, HandleFailure,
    HandleAgentEnd, Flush, ToolTypes, Results
<1>9. CASE AgentEmits \/ AgentFinishes \/ TimerFires
  <2>1. \E event \in Events : Emit(event)
    BY <1>9, EventsFit DEF AgentEmits, AgentFinishes, TimerFires, EventTypes, ToolTypes
  <2>2. QED
    BY <1>4, <1>9, <2>1 DEF AgentEmits, AgentFinishes, TimerFires
<1>10. QED
  BY <1>5, <1>6, <1>7, <1>8, <1>9 DEF Next, HandleEvent

TypeInv == TypeOK /\ RetriesFit /\ TrippingFits

LEMMA NextTypes == TypeInv /\ [Next]_vars => TypeInv'
<1> SUFFICES ASSUME TypeInv, [Next]_vars PROVE TypeInv' OBVIOUS
<1>1. CASE UNCHANGED vars
  BY <1>1 DEF TypeInv, TypeOK, RetriesFit, TrippingFits, vars, executor, flue, reports, progress
<1>2. CASE Next
  BY <1>2, ExecutorTypes, AgentTypes, HandlerTypes, NextTripping DEF Next, TypeInv
<1>3. QED
  BY <1>1, <1>2

LEMMA Types == Spec => []TypeInv
<1>1. Init => TypeInv
  BY InitTypes DEF TypeInv, TrippingFits, Init
<1>2. QED
  BY <1>1, NextTypes, PTL DEF Spec

--------------------------------------------------------------------------------
\* The report.

NoEndIn(c) == \A i \in 1..Len(c) : c[i].type # "agent_end"

LEMMA NoEndKept ==
  ASSUME TypeOK, NoEndIn(chain)
  PROVE  /\ \A event \in Events : event.type # "agent_end" /\ Emit(event) => NoEndIn(chain')
         /\ chain # <<>> => Event.type # "agent_end"
         /\ chain # <<>> /\ Done => NoEndIn(chain')
<1>1. chain \in Seq(Events)
  BY DEF TypeOK
<1>2. ASSUME NEW event \in Events, event.type # "agent_end", Emit(event) PROVE NoEndIn(chain')
  BY <1>1, <1>2, AppendTo DEF Emit, NoEndIn
<1>3. chain # <<>> => Len(chain) \in Nat \ {0} /\ Event = chain[1]
  BY <1>1, EmptySeq DEF Event
<1>4. ASSUME chain # <<>>, Done PROVE NoEndIn(chain')
  <2>1. Len(chain') = Len(chain) - 1 /\ \A i \in 1..Len(chain') : chain'[i] = chain[i + 1]
    BY <1>1, <1>4, HeadTailProperties DEF Done
  <2>2. QED
    BY <1>3, <1>4, <2>1 DEF NoEndIn
<1>5. QED
  BY <1>2, <1>3, <1>4 DEF NoEndIn

\* An agent that is dispatched beside nothing is alone.
LEMMA DispatchFits ==
  ASSUME TypeOK, Dispatch, UNCHANGED <<stopping, chain>>, handler' = "waiting", outcome' = "none"
  PROVE  AgentsFit'
<1> SUFFICES ASSUME ~beside' PROVE Alone'
  BY DEF AgentsFit
<1>1. Quiet
  BY DEF Dispatch
<1>2. submissions' = <<turn'>> /\ stopping' = 0
  BY <1>1 DEF Quiet, Dispatch
<1>3. \A i \in 1..Len(chain') : chain'[i].type # "agent_end"
  BY <1>1 DEF Quiet
<1>4. QED
  BY <1>2, <1>3 DEF Alone

LEMMA NextAgents ==
  ASSUME TypeInv, AgentsFit, Next
  PROVE  AgentsFit'
<1>1. TypeOK /\ chain \in Seq(Events)
  BY DEF TypeInv, TypeOK
<1>2. CASE StartTurn
  BY <1>1, <1>2, DispatchFits DEF StartTurn
<1>3. CASE ResumeTurn /\ submissions = <<>>
  BY <1>1, <1>3, DispatchFits DEF ResumeTurn
<1>4. CASE ~StartTurn /\ (submissions # <<>> \/ ~ResumeTurn)
  <2>1. UNCHANGED beside
    BY <1>4 DEF Next, ResumeTurn, Settle, SettleCompleted, SettleFailed, SettleCancelled,
      SettleThrows, StopTask, AgentEmits, QueueReport, AgentFinishes, AgentStops, TimerFires,
      HandleEvent, HandleTurnStart, HandleToolStart, HandleResult, TripGuard, ReportTrip,
      HandleFailure, HandleAgentEnd, Flush, reports
  <2>2. submissions = <<>> => submissions' = <<>>
    BY <1>4 DEF Next, Settle, SettleCompleted, SettleFailed, SettleCancelled,
      SettleThrows, StopTask, AgentEmits, QueueReport, AgentFinishes, AgentStops, TimerFires,
      HandleEvent, HandleTurnStart, HandleToolStart, HandleResult, TripGuard, ReportTrip,
      HandleFailure, HandleAgentEnd, Flush, AbortAgents, flue
  <2> SUFFICES ASSUME Alone PROVE submissions' = <<>> \/ Alone'
    BY <2>1, <2>2 DEF AgentsFit
  <2>3. NoEndIn(chain) /\ submissions # <<>>
    BY DEF Alone, NoEndIn
  <2>4. CASE AgentFinishes
    BY <2>4 DEF AgentFinishes, Alone
  <2>5. CASE TripGuard
    BY <2>5 DEF TripGuard, AbortAgents
  <2>6. CASE StopTask
    <3>1. CASE AbortAgents
      BY <3>1 DEF AbortAgents
    <3>2. CASE UNCHANGED flue
      BY <2>6, <3>2 DEF StopTask, Alone, flue
    <3>3. QED
      BY <2>6, <3>1, <3>2 DEF StopTask, flue
  <2>7. ~AgentStops
    BY DEF AgentStops, Alone
  <2>8. ~HandleAgentEnd
    BY <1>1, <2>3, NoEndKept DEF HandleAgentEnd
  <2>9. CASE ResumeTurn \/ Settle \/ SettleThrows
    BY <1>4, <2>3, <2>9 DEF ResumeTurn, Settle, SettleCompleted, SettleFailed, SettleCancelled,
      SettleThrows, Alone, flue
  <2>10. CASE QueueReport
    BY <2>10 DEF QueueReport, Alone, executor, flue
  <2>11. CASE AgentEmits \/ TimerFires
    <3>1. \E event \in Events : event.type # "agent_end" /\ Emit(event)
      <4>1. {"turn_start", "failed"} \cup Results \subseteq EventTypes /\ "flush" \in EventTypes
        BY DEF EventTypes, ToolTypes
      <4>2. \A type \in {"turn_start", "failed", "flush"} \cup Results : OfType(type).type # "agent_end"
        BY DEF OfType, Results
      <4>3. \A text \in Texts : [type |-> "tool_start", text |-> text].type # "agent_end"
        OBVIOUS
      <4>4. QED
        BY <2>11, <4>1, <4>2, <4>3, EventsFit DEF AgentEmits, TimerFires
    <3>2. NoEndIn(chain')
      BY <1>1, <2>3, <3>1, NoEndKept
    <3>3. QED
      BY <2>11, <3>2 DEF AgentEmits, TimerFires, executor, flue, Alone, NoEndIn
  <2>12. CASE HandleTurnStart \/ HandleToolStart \/ HandleResult \/ ReportTrip \/ HandleFailure
              \/ Flush
    <3>1. chain # <<>> /\ Done
      BY <2>12 DEF HandleTurnStart, HandleToolStart, HandleResult, ReportTrip, HandleFailure,
        Flush, TypeInv, TrippingFits
    <3>2. NoEndIn(chain')
      BY <1>1, <2>3, <3>1, NoEndKept
    <3>3. /\ UNCHANGED <<submissions, turn, stopping, task, handler>>
          /\ outcome' \in {outcome, "failed"}
      BY <2>12 DEF HandleTurnStart, HandleToolStart, HandleResult, ReportTrip, HandleFailure,
        Flush, ResolvedWith, executor, flue
    <3>4. QED
      BY <3>2, <3>3 DEF Alone, NoEndIn
  <2>13. QED
    BY <1>4, <2>4, <2>5, <2>6, <2>7, <2>8, <2>9, <2>10, <2>11, <2>12 DEF Next, HandleEvent
<1>5. QED
  BY <1>2, <1>3, <1>4

LEMMA NextSlot ==
  ASSUME TypeInv, AgentsFit, SlotFits, Next
  PROVE  SlotFits'
<1>1. told \in BOOLEAN /\ beside \in BOOLEAN
  BY DEF TypeInv, TypeOK
<1>2. CASE UNCHANGED <<task, turn, handler, slot, told, beside>>
  BY <1>2 DEF SlotFits
<1>3. CASE StartTurn
  BY <1>1, <1>3 DEF StartTurn, Dispatch, SlotFits
<1>4. CASE ResumeTurn
  <2>1. (beside => beside') /\ UNCHANGED <<task, turn, slot, told>>
    BY <1>4 DEF ResumeTurn, Dispatch
  <2>2. QED
    BY <1>4, <2>1 DEF ResumeTurn, SlotFits
<1>5. CASE Settle \/ StopTask
  BY <1>5 DEF Settle, SettleCompleted, SettleFailed, SettleCancelled, StopTask, SlotFits, reports
<1>6. CASE SettleThrows
  BY <1>1, <1>6 DEF SettleThrows, SlotFits
<1>7. CASE QueueReport
  <2>1. /\ slot = NoReport /\ slot' = Head(submissions) /\ UNCHANGED <<task, turn, handler, beside>>
        /\ told' = (told \/ Head(submissions) = turn) /\ submissions # <<>>
    BY <1>7 DEF QueueReport, executor
  <2> SUFFICES ASSUME task = "open" PROVE SlotFits'
    BY <2>1 DEF SlotFits
  <2>2. CASE Head(submissions) = turn
    <3>1. beside \/ handler # "idle"
      BY <2>1 DEF AgentsFit, Alone
    <3>2. QED
      BY <2>1, <2>2, <3>1 DEF SlotFits
  <2>3. CASE Head(submissions) # turn
    <3>1. beside
      BY <2>1, <2>3 DEF AgentsFit, Alone
    <3>2. handler # "idle" => turn # NoReport
      BY DEF TypeInv, RetriesFit
    <3>3. handler \in {"waiting", "retry", "resume"} => ~told
      BY <2>1, <3>2 DEF SlotFits
    <3>4. QED
      BY <2>1, <2>3, <3>1, <3>3 DEF SlotFits
  <2>4. QED
    BY <2>2, <2>3
<1>8. CASE AgentEmits \/ AgentFinishes \/ AgentStops \/ TimerFires
  BY <1>2, <1>8 DEF AgentEmits, AgentFinishes, AgentStops, TimerFires, executor, reports
<1>9. CASE HandleEvent
  BY <1>2, <1>9 DEF HandleEvent, HandleTurnStart, HandleToolStart, HandleResult, TripGuard,
    ReportTrip, HandleFailure, HandleAgentEnd, Flush, executor, reports
<1>10. QED
  BY <1>3, <1>4, <1>5, <1>6, <1>7, <1>8, <1>9 DEF Next

ReportInv == TypeInv /\ AgentsFit /\ SlotFits

LEMMA ReportInvariant == Spec => []ReportInv
<1>1. Init => ReportInv
  BY InitTypes DEF Init, ReportInv, TypeInv, TrippingFits, AgentsFit, SlotFits
<1>2. ReportInv /\ [Next]_vars => ReportInv'
  <2> SUFFICES ASSUME ReportInv, [Next]_vars PROVE ReportInv' OBVIOUS
  <2>1. TypeInv'
    BY NextTypes DEF ReportInv
  <2>2. CASE UNCHANGED vars
    BY <2>1, <2>2 DEF ReportInv, AgentsFit, Alone, SlotFits, vars, executor, flue, reports
  <2>3. CASE Next
    BY <2>1, <2>3, NextAgents, NextSlot DEF ReportInv
  <2>4. QED
    BY <2>2, <2>3
<1>3. QED
  BY <1>1, <1>2, PTL DEF Spec

--------------------------------------------------------------------------------
\* The guard.

StreakIn(r, kinds, n, upTo) ==
  n <= upTo /\ \A i \in (upTo - n + 1)..upTo : r[i] \in kinds
StreakAt(r, upTo) ==
  \/ StreakIn(r, Errors, MaxFailures, upTo)
  \/ /\ MaxValidationFailures <= MaxFailures
     /\ StreakIn(r, {"invalid"}, MaxValidationFailures, upTo)
TripsIn(r) == \E upTo \in 1..Len(r) : StreakAt(r, upTo)

LEMMA TripsInResults == TripsOnStreak <=> (guard.tripped <=> TripsIn(results))
BY DEF TripsOnStreak, TripsIn, StreakAt, StreakIn, Streak, Errors

LEMMA CountsNext ==
  ASSUME NEW r \in Seq(Results), NEW n \in Nat, NEW kinds, CountsRun(r, n, kinds),
         NEW e \in Results
  PROVE  CountsRun(Append(r, e), IF e \in kinds THEN n + 1 ELSE 0, kinds)
<1> DEFINE s == Append(r, e)
<1>1. Len(r) \in Nat /\ Len(s) = Len(r) + 1 /\ s[Len(r) + 1] = e
  BY AppendTo
<1>2. \A i \in 1..Len(r) : s[i] = r[i]
  BY AppendTo
<1> HIDE DEF s
<1>3. CASE e \in kinds
  BY <1>1, <1>2, <1>3 DEF CountsRun
<1>4. CASE e \notin kinds
  BY <1>1, <1>2, <1>4 DEF CountsRun
<1>5. QED
  BY <1>3, <1>4 DEF s

\* A counter at a threshold is a streak that ends now.
LEMMA RunIsStreak ==
  ASSUME NEW r \in Seq(Results), NEW n \in Nat, NEW kinds, CountsRun(r, n, kinds),
         NEW m \in Nat \ {0}
  PROVE  StreakIn(r, kinds, m, Len(r)) <=> m <= n
<1>1. Len(r) \in Nat
  OBVIOUS
<1>2. CASE m <= n
  BY <1>1, <1>2 DEF CountsRun, StreakIn
<1>3. CASE m > n /\ n < Len(r)
  <2>1. Len(r) - n \in (Len(r) - m + 1)..Len(r) /\ r[Len(r) - n] \notin kinds
    BY <1>1, <1>3 DEF CountsRun
  <2>2. QED
    BY <1>3, <2>1 DEF StreakIn
<1>4. CASE m > n /\ n = Len(r)
  BY <1>1, <1>4 DEF StreakIn
<1>5. QED
  BY <1>1, <1>2, <1>3, <1>4 DEF CountsRun

\* Another result leaves the streaks there were, and may end one.
LEMMA StreaksNext ==
  ASSUME NEW r \in Seq(Results), NEW e \in Results
  PROVE  TripsIn(Append(r, e)) <=> TripsIn(r) \/ StreakAt(Append(r, e), Len(r) + 1)
<1> DEFINE s == Append(r, e)
<1>1. Len(r) \in Nat /\ Len(s) = Len(r) + 1
  BY AppendTo
<1>2. \A i \in 1..Len(r) : s[i] = r[i]
  BY AppendTo
<1> HIDE DEF s
<1>3. ASSUME NEW kinds, NEW n \in Nat, NEW upTo \in 1..Len(r)
      PROVE  StreakIn(s, kinds, n, upTo) <=> StreakIn(r, kinds, n, upTo)
  BY <1>1, <1>2, <1>3 DEF StreakIn
<1>4. \A upTo \in 1..Len(r) : StreakAt(s, upTo) <=> StreakAt(r, upTo)
  BY <1>3, Thresholds DEF StreakAt
<1>5. 1..Len(s) = (1..Len(r)) \cup {Len(r) + 1}
  BY <1>1
<1>6. TripsIn(s) <=> TripsIn(r) \/ StreakAt(s, Len(r) + 1)
  BY <1>1, <1>4, <1>5, Zenon DEF TripsIn
<1>7. QED
  BY <1>6 DEF s

\* The counters of a guard that has not tripped, and its decision.
LEMMA CountedFits ==
  ASSUME guard \in Guards, results \in Seq(Results), CountersFit, ~guard.tripped,
         NEW e \in Results
  PROVE  /\ CountsRun(Append(results, e), Counted(guard, e).failures, Errors)
         /\ CountsRun(Append(results, e), Counted(guard, e).validation, {"invalid"})
         /\ Trips(guard, e) <=> StreakAt(Append(results, e), Len(results) + 1)
<1> DEFINE s == Append(results, e)
           f == Counted(guard, e).failures
           v == Counted(guard, e).validation
<1>1. guard.failures \in Nat /\ guard.validation \in Nat
  BY DEF Guards
<1>2. f = IF e \in Errors THEN guard.failures + 1 ELSE 0
  BY DEF Counted, Guards, Results, Errors
<1>3. v = IF e \in {"invalid"} THEN guard.validation + 1 ELSE 0
  BY DEF Counted, Guards, Results
<1>4. f \in Nat /\ v \in Nat
  BY <1>1, <1>2, <1>3
<1>5. s \in Seq(Results) /\ Len(s) = Len(results) + 1
  BY AppendTo
<1>6. CountsRun(s, f, Errors)
  BY <1>1, <1>2, CountsNext DEF CountersFit
<1>7. CountsRun(s, v, {"invalid"})
  BY <1>1, <1>3, CountsNext DEF CountersFit
<1>8. Trips(guard, e) <=>
        /\ e # "ok"
        /\ \/ e = "invalid" /\ v >= MaxValidationFailures
              /\ MaxValidationFailures <= MaxFailures
           \/ f >= MaxFailures
  BY DEF Trips
<1> HIDE DEF s, f, v
<1>9. StreakIn(s, Errors, MaxFailures, Len(results) + 1) <=> MaxFailures <= f
  BY <1>4, <1>5, <1>6, RunIsStreak, Thresholds
<1>10. StreakIn(s, {"invalid"}, MaxValidationFailures, Len(results) + 1)
         <=> MaxValidationFailures <= v
  BY <1>4, <1>5, <1>7, RunIsStreak, Thresholds
<1>11. (e = "ok" => f = 0) /\ (e # "invalid" => v = 0)
  BY <1>2, <1>3 DEF Errors
<1>12. Trips(guard, e) <=> StreakAt(s, Len(results) + 1)
  BY <1>4, <1>8, <1>9, <1>10, <1>11, Thresholds DEF StreakAt
<1>13. QED
  BY <1>6, <1>7, <1>12 DEF s, f, v

GuardInv == TypeInv /\ CountersFit /\ TripsOnStreak

LEMMA EmptyGuard ==
  ASSUME guard = NoGuard, results = <<>>
  PROVE  CountersFit /\ TripsOnStreak
BY TripsInResults DEF CountersFit, CountsRun, TripsIn, NoGuard

LEMMA NextGuard ==
  ASSUME GuardInv, Next
  PROVE  CountersFit' /\ TripsOnStreak'
<1>1. guard \in Guards /\ results \in Seq(Results)
  BY DEF GuardInv, TypeInv, TypeOK
<1>2. guard.tripped \in BOOLEAN /\ (guard.tripped <=> TripsIn(results))
  BY <1>1, TripsInResults DEF GuardInv, Guards
<1>3. SUFFICES CountersFit' /\ (guard'.tripped <=> TripsIn(results'))
  BY DEF TripsOnStreak, TripsIn, StreakAt, StreakIn, Streak, Errors
<1>4. CASE UNCHANGED <<guard, results>>
  BY <1>2, <1>4 DEF GuardInv, CountersFit
<1>5. CASE HandleTurnStart \/ HandleFailure \/ HandleAgentEnd
  <2>1. guard' = NoGuard /\ results' = <<>>
    BY <1>5 DEF HandleTurnStart, HandleFailure, HandleAgentEnd
  <2>2. QED
    BY <2>1 DEF CountersFit, CountsRun, TripsIn, NoGuard
<1>6. CASE HandleResult
  <2> DEFINE e == Event.type
  <2>1. e \in Results /\ ~Trips(guard, e)
    BY <1>6 DEF HandleResult, ToolTypes
  <2>2. guard' = Counted(guard, e) /\ results' = Append(results, e)
    BY <1>6 DEF HandleResult
  <2> HIDE DEF e
  <2>3. guard'.tripped = guard.tripped
    BY <1>1, <2>2 DEF Counted, Guards
  <2>4. CASE guard.tripped
    BY <1>1, <1>2, <2>1, <2>2, <2>3, <2>4, StreaksNext DEF CountersFit
  <2>5. CASE ~guard.tripped
    BY <1>1, <1>2, <2>1, <2>2, <2>3, <2>5, StreaksNext, CountedFits DEF CountersFit, GuardInv
  <2>6. QED
    BY <2>4, <2>5
<1>7. CASE TripGuard
  <2> DEFINE e == Event.type
  <2>1. e \in Results /\ Trips(guard, e) /\ ~guard.tripped
    BY <1>7 DEF TripGuard, ToolTypes, Trips
  <2>2. /\ guard' = [Counted(guard, e) EXCEPT !.tripped = TRUE]
        /\ results' = Append(results, e)
    BY <1>7 DEF TripGuard
  <2> HIDE DEF e
  <2>3. guard'.tripped
    BY <1>1, <2>1, <2>2, CountedTypes DEF Guards
  <2>4. QED
    BY <1>1, <2>1, <2>2, <2>3, StreaksNext, CountedFits DEF CountersFit, GuardInv
<1>8. CASE ReportTrip
  <2>1. guard' = [guard EXCEPT !.delivered = TRUE] /\ results' = results
    BY <1>8 DEF ReportTrip
  <2>2. /\ guard'.tripped = guard.tripped /\ guard'.failures = guard.failures
        /\ guard'.validation = guard.validation
    BY <1>1, <2>1 DEF Guards
  <2>3. QED
    BY <1>2, <2>1, <2>2 DEF GuardInv, CountersFit
<1>9. CASE StartTurn \/ ResumeTurn \/ Settle \/ SettleThrows \/ StopTask \/ AgentEmits \/ QueueReport
           \/ AgentFinishes \/ AgentStops \/ TimerFires \/ HandleToolStart \/ Flush
  BY <1>4, <1>9 DEF StartTurn, ResumeTurn, Settle, SettleCompleted, SettleFailed, SettleCancelled,
    SettleThrows, StopTask, AgentEmits, QueueReport, AgentFinishes, AgentStops, TimerFires,
    HandleToolStart, Flush
<1>10. QED
  BY <1>5, <1>6, <1>7, <1>8, <1>9 DEF Next, HandleEvent

LEMMA GuardInvariant == Spec => []GuardInv
<1>1. Init => GuardInv
  <2>1. Init => TypeInv
    BY InitTypes DEF Init, TypeInv, TrippingFits
  <2>2. QED
    BY <2>1, EmptyGuard DEF Init, GuardInv
<1>2. GuardInv /\ [Next]_vars => GuardInv'
  <2> SUFFICES ASSUME GuardInv, [Next]_vars PROVE GuardInv' OBVIOUS
  <2>1. TypeInv'
    BY NextTypes DEF GuardInv
  <2>2. CASE UNCHANGED vars
    BY <2>1, <2>2 DEF GuardInv, CountersFit, TripsOnStreak, Streak, vars
  <2>3. CASE Next
    BY <2>1, <2>3, NextGuard DEF GuardInv
  <2>4. QED
    BY <2>2, <2>3
<1>3. QED
  BY <1>1, <1>2, PTL DEF Spec

--------------------------------------------------------------------------------
\* The lines.

FlushIn(c) == \E i \in 1..Len(c) : c[i].type = "flush"

LEMMA FlushKept ==
  ASSUME TypeOK
  PROVE  /\ \A event \in Events : Emit(event) /\ FlushIn(chain) => FlushIn(chain')
         /\ \A event \in Events : Emit(event) /\ event.type = "flush" => FlushIn(chain')
         /\ chain # <<>> /\ Event.type # "flush" /\ Done /\ FlushIn(chain) => FlushIn(chain')
<1>1. chain \in Seq(Events) /\ Len(chain) \in Nat
  BY DEF TypeOK
<1>2. ASSUME NEW event \in Events, Emit(event), FlushIn(chain) \/ event.type = "flush"
      PROVE  FlushIn(chain')
  BY <1>1, <1>2, AppendTo DEF Emit, FlushIn
<1>3. ASSUME chain # <<>>, Event.type # "flush", Done, FlushIn(chain) PROVE FlushIn(chain')
  <2>1. Event = chain[1] /\ Len(chain) > 0
    BY <1>1, <1>3, EmptySeq DEF Event
  <2>2. /\ Len(chain') = Len(chain) - 1
        /\ \A i \in 1..Len(chain') : chain'[i] = chain[i + 1]
    BY <1>1, <1>3, HeadTailProperties DEF Done
  <2>3. PICK i \in 1..Len(chain) : chain[i].type = "flush"
    BY <1>3 DEF FlushIn
  <2>4. i # 1
    BY <1>3, <2>1, <2>3
  <2>5. i - 1 \in 1..Len(chain') /\ chain'[i - 1].type = "flush"
    BY <1>1, <2>2, <2>3, <2>4
  <2>6. QED
    BY <2>5 DEF FlushIn
<1>4. QED
  BY <1>2, <1>3

\* What the live message shows, and that a change is on its way.
Shows == Keeps(stream.lines, live)
Arrives == ~Pending /\ ~dirty => live = stream.lines

LEMMA NoLineLostParts == NoLineLost <=> Shows /\ Arrives
BY DEF NoLineLost, Shows, Arrives, Keeps

LEMMA NextLines ==
  ASSUME TypeInv, NoLineLost, Next
  PROVE  NoLineLost'
<1>1. /\ TypeOK /\ stream \in [lines : Seq(Line), count : Nat] /\ live \in Seq(Line)
      /\ Len(live) \in Nat /\ Len(stream.lines) \in Nat
  BY DEF TypeInv, TypeOK
<1>2. Shows /\ Arrives
  BY NoLineLostParts
<1>3. SUFFICES Shows' /\ Arrives'
  BY DEF NoLineLost, Shows, Arrives, Keeps
<1>4. Pending <=> timer \/ FlushIn(chain)
  BY DEF Pending, FlushIn
<1>5. Pending' <=> timer' \/ FlushIn(chain')
  BY DEF Pending, FlushIn
<1>6. ASSUME UNCHANGED progress, FlushIn(chain) => FlushIn(chain') PROVE Shows' /\ Arrives'
  BY <1>2, <1>4, <1>5, <1>6 DEF Shows, Arrives, progress, Keeps
<1>7. ASSUME chain # <<>>, ShowLine, Done, Event.type # "flush" PROVE Shows' /\ Arrives'
  <2>1. CASE UNCHANGED progress
    BY <1>1, <1>6, <1>7, <2>1, FlushKept
  <2>2. CASE timer' = TRUE /\ live' \in {live, stream.lines} /\ Keeps(stream'.lines, stream.lines)
    <3>1. Shows'
      BY <1>1, <1>2, <1>7, <2>2, ShownLine DEF Shows, Keeps
    <3>2. QED
      BY <1>5, <2>2, <3>1 DEF Arrives
  <2>3. CASE timer' = TRUE /\ live' = stream'.lines
    BY <2>3 DEF Shows, Arrives, Keeps
  <2>4. QED
    BY <1>1, <1>7, <2>1, <2>2, <2>3, ShownLine
<1>8. CASE StartTurn \/ ResumeTurn \/ Settle \/ SettleThrows \/ StopTask \/ QueueReport \/ TripGuard
  BY <1>6, <1>8 DEF StartTurn, ResumeTurn, Settle, SettleCompleted, SettleFailed, SettleCancelled,
    SettleThrows, StopTask, QueueReport, TripGuard
<1>9. CASE AgentEmits
  <2>1. \E event \in Events : Emit(event)
    BY <1>9, EventsFit DEF AgentEmits, EventTypes, ToolTypes
  <2>2. QED
    BY <1>1, <1>6, <1>9, <2>1, FlushKept DEF AgentEmits
<1>10. CASE AgentFinishes \/ AgentStops
  <2>1. OfType("failed") \in Events /\ OfType("agent_end") \in Events
    BY EventsFit DEF EventTypes
  <2>2. CASE AgentFinishes
    BY <1>1, <1>6, <2>1, <2>2, FlushKept DEF AgentFinishes
  <2>3. CASE AgentStops
    <3>1. PICK end \in {<<>>, <<OfType("agent_end")>>} : chain' = (chain \o <<OfType("failed")>>) \o end
      BY <2>3 DEF AgentStops
    <3>2. <<OfType("failed")>> \in Seq(Events) /\ end \in Seq(Events) /\ chain \in Seq(Events)
      BY <1>1, StopEvents DEF TypeOK
    <3> DEFINE half == chain \o <<OfType("failed")>>
    <3>3. half \in Seq(Events) /\ Len(half) >= Len(chain) /\ \A i \in 1..Len(chain) : half[i] = chain[i]
      BY <3>2, ConcatProperties
    <3> HIDE DEF half
    <3>4. /\ half \o end \in Seq(Events) /\ Len(half \o end) >= Len(half)
          /\ \A i \in 1..Len(half) : (half \o end)[i] = half[i]
      BY <3>2, <3>3, ConcatProperties
    <3>5. chain' = half \o end
      BY <3>1 DEF half
    <3>6. Len(chain) \in Nat /\ Len(half) \in Nat /\ Len(chain') \in Nat
      BY <3>2, <3>3, <3>4, <3>5
    <3>7. Len(chain') >= Len(chain) /\ \A i \in 1..Len(chain) : chain'[i] = chain[i]
      BY <3>3, <3>4, <3>5, <3>6
    <3>8. FlushIn(chain) => FlushIn(chain')
      BY <3>6, <3>7 DEF FlushIn
    <3>9. QED
      BY <1>6, <2>3, <3>8 DEF AgentStops
  <2>4. QED
    BY <1>10, <2>2, <2>3
<1>11. CASE TimerFires
  <2>1. OfType("flush") \in Events /\ OfType("flush").type = "flush"
    BY EventsFit DEF EventTypes, OfType
  <2>2. FlushIn(chain')
    BY <1>1, <1>11, <2>1, FlushKept DEF TimerFires
  <2>3. QED
    BY <1>2, <1>5, <1>11, <2>2 DEF TimerFires, Shows, Arrives, Keeps
<1>12. CASE Flush
  <2>1. CASE live' = stream.lines /\ stream' = stream
    BY <2>1 DEF Shows, Arrives, Keeps
  <2>2. CASE dirty' = TRUE /\ live' = live /\ stream' = stream
    BY <1>2, <2>2 DEF Shows, Arrives, Keeps
  <2>3. QED
    BY <1>12, <2>1, <2>2 DEF Flush
<1>13. CASE HandleFailure
  BY <1>1, <1>6, <1>13, FlushKept DEF HandleFailure
<1>14. CASE HandleTurnStart \/ HandleToolStart \/ HandleResult \/ HandleAgentEnd
  BY <1>7, <1>14 DEF HandleTurnStart, HandleToolStart, HandleResult, HandleAgentEnd, ToolTypes,
    Results
<1>15. CASE ReportTrip
  <2>1. chain # <<>> /\ Event.type \in ToolTypes
    BY <1>15 DEF ReportTrip, TypeInv, TrippingFits, Event
  <2>2. QED
    BY <1>7, <1>15, <2>1 DEF ReportTrip, ToolTypes, Results
<1>16. QED
  BY <1>8, <1>9, <1>10, <1>11, <1>12, <1>13, <1>14, <1>15 DEF Next, HandleEvent

LineInv == TypeInv /\ NoLineLost

LEMMA LineInvariant == Spec => []LineInv
<1>1. Init => LineInv
  <2>1. Init => TypeInv
    BY InitTypes DEF Init, TypeInv, TrippingFits
  <2>2. QED
    BY <2>1, EmptySeq DEF Init, LineInv, NoLineLost, NewRenderState
<1>2. LineInv /\ [Next]_vars => LineInv'
  <2> SUFFICES ASSUME LineInv, [Next]_vars PROVE LineInv' OBVIOUS
  <2>1. TypeInv'
    BY NextTypes DEF LineInv
  <2>2. CASE UNCHANGED vars
    BY <2>1, <2>2 DEF LineInv, NoLineLost, Pending, vars, progress
  <2>3. CASE Next
    BY <2>1, <2>3, NextLines DEF LineInv
  <2>4. QED
    BY <2>2, <2>3
<1>3. QED
  BY <1>1, <1>2, PTL DEF Spec

--------------------------------------------------------------------------------
\* The length of a bubble.

LEMMA LeastNumber ==
  ASSUME NEW S \in SUBSET Nat, S # {}
  PROVE  \E m \in S : \A n \in S : m <= n
<1>1. IsWellFoundedOn(OpToRel(<, Nat), Nat)
  BY NatLessThanWellFounded
<1>2. PICK m \in S : \A n \in S : ~(<<n, m>> \in OpToRel(<, Nat))
  BY <1>1, WFMin
<1>3. \A n \in S : ~(n < m)
  BY <1>2 DEF OpToRel
<1>4. QED
  BY <1>3

\* Induction, for a property given as the set of numbers that have it.
LEMMA AllNumbers ==
  ASSUME NEW S, 0 \in S, \A n \in Nat : n \in S => n + 1 \in S
  PROVE  Nat \subseteq S
<1> SUFFICES ASSUME {n \in Nat : n \notin S} # {}
             PROVE  FALSE
  OBVIOUS
<1>1. PICK m \in Nat : m \notin S /\ \A n \in Nat : n \notin S => m <= n
  BY LeastNumber
<1>2. m - 1 \in Nat /\ m - 1 \notin S
  BY <1>1
<1>3. QED
  BY <1>1, <1>2

\* f says where the first n lines end.
EndAt(lines, f, i) ==
  IF i = 0 THEN 0 ELSE f[i - 1] + (IF i = 1 THEN 0 ELSE 1) + LengthOf(lines[i])
AreEnds(lines, n, f) == f = [i \in 0..n |-> EndAt(lines, f, i)]

LEMMA EndsExist ==
  ASSUME NEW lines, NEW n \in Nat
  PROVE  \E f : AreEnds(lines, n, f)
<1> DEFINE S == {m \in Nat : \E f : AreEnds(lines, m, f)}
<1>1. 0 \in S
  <2>1. AreEnds(lines, 0, [i \in 0..0 |-> 0])
    BY DEF AreEnds, EndAt
  <2>2. QED
    BY <2>1
<1>2. ASSUME NEW m \in Nat, m \in S
      PROVE  m + 1 \in S
  <2>1. PICK f : AreEnds(lines, m, f)
    BY <1>2
  <2> DEFINE g == [i \in 0..(m + 1) |-> IF i = m + 1 THEN EndAt(lines, f, i) ELSE f[i]]
  <2>2. \A i \in 0..m : g[i] = f[i]
    OBVIOUS
  <2>3. \A i \in 0..(m + 1) : EndAt(lines, g, i) = EndAt(lines, f, i)
    <3>1. ASSUME NEW i \in 0..(m + 1), i # 0
          PROVE  g[i - 1] = f[i - 1]
      <4>1. i - 1 \in 0..m
        BY <3>1
      <4>2. QED
        BY <2>2, <4>1
    <3> HIDE DEF g
    <3>2. QED
      BY <3>1 DEF EndAt
  <2>4. \A i \in 0..m : f[i] = EndAt(lines, f, i)
    BY <2>1 DEF AreEnds
  <2>5. \A i \in 0..(m + 1) : g[i] = EndAt(lines, g, i)
    <3>1. \A i \in 0..(m + 1) : g[i] = EndAt(lines, f, i)
      BY <2>4
    <3> HIDE DEF g
    <3>2. QED
      BY <2>3, <3>1
  <2>6. g = [i \in 0..(m + 1) |-> g[i]]
    OBVIOUS
  <2> HIDE DEF g
  <2>7. AreEnds(lines, m + 1, g)
    BY <2>5, <2>6 DEF AreEnds
  <2>8. QED
    BY <2>7
<1> HIDE DEF S
<1>3. Nat \subseteq S
  BY <1>1, <1>2, AllNumbers
<1>4. QED
  BY <1>3 DEF S

\* The ends depend on nothing but the lines before them.
SameUpTo(s, t, m) == \A i \in 1..m : s[i] = t[i]

LEMMA EndsUnique ==
  ASSUME NEW s, NEW t, NEW m \in Nat, NEW n \in Nat, m <= n, SameUpTo(s, t, m),
         NEW f, NEW g, AreEnds(s, m, f), AreEnds(t, n, g)
  PROVE  f[m] = g[m]
<1> DEFINE S == {i \in Nat : i <= m => f[i] = g[i]}
<1>0. /\ \A i \in 0..m : f[i] = EndAt(s, f, i)
      /\ \A i \in 0..m : g[i] = EndAt(t, g, i)
  BY DEF AreEnds
<1>1. 0 \in S
  BY <1>0 DEF EndAt
<1>2. ASSUME NEW i \in Nat, i \in S, i + 1 <= m
      PROVE  f[i + 1] = g[i + 1]
  <2>1. /\ i + 1 \in 0..m /\ i + 1 \in 1..m /\ (i + 1) - 1 = i /\ i + 1 # 0
        /\ f[i] = g[i]
    BY <1>2
  <2>2. s[i + 1] = t[i + 1]
    BY <2>1 DEF SameUpTo
  <2>3. f[i + 1] = EndAt(s, f, i + 1) /\ g[i + 1] = EndAt(t, g, i + 1)
    BY <1>0, <2>1
  <2>4. QED
    BY <2>1, <2>2, <2>3 DEF EndAt
<1>3. \A i \in Nat : i \in S => i + 1 \in S
  BY <1>2
<1> HIDE DEF S
<1>4. Nat \subseteq S
  BY <1>1, <1>3, AllNumbers
<1>5. QED
  BY <1>4 DEF S

LEMMA EndsAreNumbers ==
  ASSUME NEW lines, NEW n \in Nat, \A i \in 1..n : LengthOf(lines[i]) \in Nat,
         NEW f, AreEnds(lines, n, f)
  PROVE  f[n] \in Nat
<1> DEFINE S == {i \in Nat : i <= n => f[i] \in Nat}
<1>0. \A i \in 0..n : f[i] = EndAt(lines, f, i)
  BY DEF AreEnds
<1>1. 0 \in S
  BY <1>0 DEF EndAt
<1>2. ASSUME NEW i \in Nat, i \in S, i + 1 <= n
      PROVE  f[i + 1] \in Nat
  <2>1. /\ i + 1 \in 0..n /\ i + 1 \in 1..n /\ (i + 1) - 1 = i /\ i + 1 # 0
        /\ f[i] \in Nat
    BY <1>2
  <2>2. LengthOf(lines[i + 1]) \in Nat
    BY <2>1
  <2>3. f[i + 1] = EndAt(lines, f, i + 1)
    BY <1>0, <2>1
  <2>4. f[i + 1] = f[i] + (IF i + 1 = 1 THEN 0 ELSE 1) + LengthOf(lines[i + 1])
    BY <2>1, <2>3 DEF EndAt
  <2>5. QED
    BY <2>1, <2>2, <2>4
<1>3. \A i \in Nat : i \in S => i + 1 \in S
  BY <1>2
<1> HIDE DEF S
<1>4. Nat \subseteq S
  BY <1>1, <1>3, AllNumbers
<1>5. QED
  BY <1>4 DEF S

LEMMA LineEndsFit ==
  ASSUME NEW lines, Len(lines) \in Nat
  PROVE  AreEnds(lines, Len(lines), LineEnds(lines))
<1>1. PICK f : AreEnds(lines, Len(lines), f)
  BY EndsExist
<1>2. QED
  BY <1>1 DEF AreEnds, LineEnds, EndAt

LEMMA LineLength ==
  ASSUME NEW line \in Line
  PROVE  LengthOf(line) \in Nat /\ LengthOf(line) >= line.length
BY Lengths DEF Line, LengthOf

\* The length of an empty bubble, and of one with a line more.
LEMMA ContentOfNone == ContentLength(<<>>) = 0
<1>1. AreEnds(<<>>, 0, LineEnds(<<>>))
  BY LineEndsFit
<1>2. LineEnds(<<>>)[0] = EndAt(<<>>, LineEnds(<<>>), 0)
  BY <1>1 DEF AreEnds
<1>3. QED
  BY <1>2 DEF ContentLength, EndAt

LEMMA ContentOfMore ==
  ASSUME NEW s \in Seq(Line), NEW line \in Line
  PROVE  /\ ContentLength(s) \in Nat
         /\ ContentLength(Append(s, line))
              = ContentLength(s) + (IF s = <<>> THEN 0 ELSE 1) + LengthOf(line)
<1> DEFINE t == Append(s, line)
<1>1. /\ Len(s) \in Nat /\ Len(t) = Len(s) + 1 /\ t[Len(s) + 1] = line
      /\ \A i \in 1..Len(s) : s[i] = t[i]
      /\ \A i \in 1..Len(s) : s[i] \in Line
  BY AppendTo, ElementOfSeq
<1>2. s = <<>> <=> Len(s) + 1 = 1
  BY <1>1, EmptySeq
<1> HIDE DEF t
<1>3. AreEnds(s, Len(s), LineEnds(s)) /\ AreEnds(t, Len(s) + 1, LineEnds(t))
  BY <1>1, LineEndsFit
<1>4. LineEnds(s)[Len(s)] = LineEnds(t)[Len(s)]
  <2>1. Len(s) + 1 \in Nat /\ Len(s) <= Len(s) + 1
    BY <1>1
  <2>2. SameUpTo(s, t, Len(s))
    BY <1>1 DEF SameUpTo
  <2>3. QED
    BY <1>1, <1>3, <2>1, <2>2, EndsUnique
<1>5. LineEnds(t)[Len(s) + 1] = EndAt(t, LineEnds(t), Len(s) + 1)
  BY <1>1, <1>3 DEF AreEnds
<1>6. EndAt(t, LineEnds(t), Len(s) + 1)
        = LineEnds(t)[Len(s)] + (IF s = <<>> THEN 0 ELSE 1) + LengthOf(line)
  <2>1. Len(s) + 1 # 0 /\ (Len(s) + 1) - 1 = Len(s)
    BY <1>1
  <2>2. QED
    BY <1>1, <1>2, <2>1 DEF EndAt
<1>7. LineEnds(s)[Len(s)] \in Nat
  BY <1>1, <1>3, LineLength, EndsAreNumbers
<1>8. QED
  BY <1>1, <1>4, <1>5, <1>6, <1>7 DEF ContentLength, t

--------------------------------------------------------------------------------
\* The bubble.

Inst == [lines : Seq(Line), count : Nat]

\* No line is empty, and the count is the length of all.
IsCounted(inst) ==
  /\ \A i \in 1..Len(inst.lines) : inst.lines[i].length > 0
  /\ inst.count = ContentLength(inst.lines)

\* What exceeds the threshold is the counter of the last line.
HasRoom(inst) ==
  Len(inst.lines) > 1 =>
    inst.count <= Threshold + (IF Last(inst.lines).repeated THEN Suffix ELSE 0)

LEMMA LastLine ==
  ASSUME NEW s \in Seq(Line), s # <<>>
  PROVE  Last(s) \in Line /\ Last(s) = s[Len(s)] /\ Len(s) \in 1..Len(s)
<1>1. s[Len(s)] \in Line
  BY EmptySeq, ElementOfSeq
<1>2. QED
  BY <1>1, ReplaceLast

LEMMA FrontAndLast ==
  ASSUME NEW s \in Seq(Line), s # <<>>
  PROVE  Front(s) \in Seq(Line) /\ s = Append(Front(s), Last(s))
<1>1. Last(s) \in Line
  BY LastLine
<1>2. /\ Front(s) \in Seq(Line) /\ Last(s) = s[Len(s)]
      /\ Append(Front(s), Last(s)) \in Seq(Line) /\ Len(Append(Front(s), Last(s))) = Len(s)
      /\ \A i \in 1..Len(s) :
           Append(Front(s), Last(s))[i] = IF i = Len(s) THEN Last(s) ELSE s[i]
  BY <1>1, ReplaceLast
<1>3. QED
  BY <1>2, SeqEqual

\* An empty bubble is one without lines.
LEMMA CountOfLines ==
  ASSUME NEW inst \in Inst, IsCounted(inst)
  PROVE  inst.count = 0 <=> inst.lines = <<>>
<1>1. inst.lines \in Seq(Line)
  BY DEF Inst
<1>2. CASE inst.lines = <<>>
  BY <1>2, ContentOfNone DEF IsCounted
<1>3. CASE inst.lines # <<>>
  <2>1. /\ Last(inst.lines) \in Line /\ Last(inst.lines) = inst.lines[Len(inst.lines)]
        /\ Len(inst.lines) \in 1..Len(inst.lines)
    BY <1>1, <1>3, LastLine
  <2>2. LengthOf(Last(inst.lines)) \in Nat /\ LengthOf(Last(inst.lines)) > 0
    <3>1. LengthOf(Last(inst.lines)) >= Last(inst.lines).length /\ Last(inst.lines).length > 0
      BY <2>1, LineLength DEF IsCounted
    <3>2. LengthOf(Last(inst.lines)) \in Nat /\ Last(inst.lines).length \in Nat
      BY <2>1, LineLength DEF Line
    <3>3. QED
      BY <3>1, <3>2
  <2>3. /\ ContentLength(Front(inst.lines)) \in Nat
        /\ ContentLength(inst.lines) = ContentLength(Front(inst.lines))
             + (IF Front(inst.lines) = <<>> THEN 0 ELSE 1) + LengthOf(Last(inst.lines))
    BY <1>1, <1>3, <2>1, FrontAndLast, ContentOfMore
  <2>4. QED
    BY <1>3, <2>2, <2>3 DEF IsCounted
<1>4. QED
  BY <1>2, <1>3

LEMMA JoinedBubble ==
  ASSUME NEW inst \in Inst, IsCounted(inst),
         NEW line \in Line, line.length > 0, ~line.repeated
  PROVE  /\ IsCounted(Joined(inst, line))
         /\ ~ShouldRollBubble(inst.count, line.length) => HasRoom(Joined(inst, line))
<1> DEFINE new == Append(inst.lines, line)
           count == inst.count + (IF inst.count = 0 THEN 0 ELSE 1) + LengthOf(line)
<1>1. inst.lines \in Seq(Line) /\ inst.count \in Nat
  BY DEF Inst
<1>2. Joined(inst, line).lines = new /\ Joined(inst, line).count = count
  BY DEF Joined
<1>3. ContentLength(new) = count
  BY <1>1, CountOfLines, ContentOfMore DEF IsCounted
<1>4. /\ new \in Seq(Line) /\ Len(new) = Len(inst.lines) + 1
      /\ \A i \in 1..Len(inst.lines) : new[i] = inst.lines[i]
      /\ new[Len(new)] = line /\ Len(inst.lines) \in Nat
  BY <1>1, AppendTo
<1>5. Last(new) = line
  BY <1>4 DEF Last
<1>6. LengthOf(line) = line.length /\ line.length \in Nat
  BY DEF LengthOf, Line
<1>7. ASSUME Len(new) > 1, ~ShouldRollBubble(inst.count, line.length)
      PROVE  count <= Threshold
  <2>1. inst.lines # <<>>
    BY <1>4, <1>7
  <2>2. inst.count > 0
    BY <1>1, <2>1, CountOfLines
  <2>3. QED
    BY <1>1, <1>6, <1>7, <2>2, Lengths DEF ShouldRollBubble
<1> HIDE DEF new, count
<1>8. \A i \in 1..Len(new) : new[i].length > 0
  BY <1>4 DEF IsCounted
<1>9. IsCounted(Joined(inst, line))
  BY <1>2, <1>3, <1>8 DEF IsCounted
<1>10. ~ShouldRollBubble(inst.count, line.length) => HasRoom(Joined(inst, line))
  BY <1>2, <1>5, <1>7, Lengths DEF HasRoom
<1>11. QED
  BY <1>9, <1>10

LEMMA RolledBubble ==
  ASSUME NEW inst \in Inst, NEW line \in Line, line.length > 0
  PROVE  IsCounted(Rolled(inst, line)) /\ HasRoom(Rolled(inst, line))
<1>1. <<line>> = Append(<<>>, line) /\ <<>> \in Seq(Line)
  OBVIOUS
<1>2. ContentLength(<<line>>) = LengthOf(line)
  <2>1. ContentLength(Append(<<>>, line)) = ContentLength(<<>>) + 0 + LengthOf(line)
    BY <1>1, ContentOfMore
  <2>2. QED
    BY <1>1, <2>1, ContentOfNone, LineLength
<1>3. Rolled(inst, line).lines = <<line>> /\ Rolled(inst, line).count = LengthOf(line)
  BY DEF Rolled
<1>4. QED
  BY <1>2, <1>3 DEF IsCounted, HasRoom

LEMMA RepeatedBubble ==
  ASSUME NEW inst \in Inst, IsCounted(inst), NEW text \in Texts, Repeats(inst, text)
  PROVE  /\ IsCounted(Repeated(inst, text))
         /\ HasRoom(inst) => HasRoom(Repeated(inst, text))
<1> DEFINE old == Last(inst.lines)
           line == [old EXCEPT !.repeated = TRUE]
           new == Append(Front(inst.lines), line)
           count == inst.count + LengthOf(line) - LengthOf(old)
<1>1. inst.lines \in Seq(Line) /\ inst.lines # <<>> /\ inst.count \in Nat
  BY DEF Inst, Repeats
<1>2. /\ old \in Line /\ old = inst.lines[Len(inst.lines)]
      /\ Len(inst.lines) \in 1..Len(inst.lines)
  BY <1>1, LastLine
<1>3. line \in Line /\ line.length = old.length /\ line.repeated = TRUE
  BY <1>2 DEF Line
<1>4. Repeated(inst, text).lines = new /\ Repeated(inst, text).count = count
  BY DEF Repeated
<1>5. LengthOf(old) \in Nat /\ LengthOf(line) \in Nat
  BY <1>2, <1>3, LineLength
<1>6. LengthOf(line) - LengthOf(old) = IF old.repeated THEN 0 ELSE Suffix
  <2>1. LengthOf(line) = old.length + Suffix
    BY <1>3 DEF LengthOf
  <2>2. LengthOf(old) = IF old.repeated THEN old.length + Suffix ELSE old.length
    BY <1>2 DEF LengthOf, Line
  <2>3. QED
    BY <1>2, <2>1, <2>2, Lengths DEF Line
<1>7. /\ new \in Seq(Line) /\ Len(new) = Len(inst.lines) /\ Len(new) \in Nat
      /\ \A i \in 1..Len(new) : new[i] = IF i = Len(new) THEN line ELSE inst.lines[i]
  BY <1>1, <1>3, ReplaceLast
<1>8. Last(new) = line
  BY <1>1, <1>2, <1>7 DEF Last
<1>9. ContentLength(new) = count
  <2> DEFINE front == Front(inst.lines)
             sep == IF front = <<>> THEN 0 ELSE 1
  <2>1. front \in Seq(Line) /\ inst.lines = Append(front, old)
    BY <1>1, FrontAndLast
  <2>2. /\ ContentLength(front) \in Nat
        /\ ContentLength(inst.lines) = ContentLength(front) + sep + LengthOf(old)
        /\ ContentLength(new) = ContentLength(front) + sep + LengthOf(line)
    BY <1>2, <1>3, <2>1, ContentOfMore
  <2>3. sep \in Nat
    OBVIOUS
  <2> HIDE DEF front, sep, line, old, new
  <2>4. QED
    BY <1>5, <2>2, <2>3 DEF IsCounted
<1>10. \A i \in 1..Len(new) : new[i].length > 0
  <2> HIDE DEF old, line, new
  <2>1. \A i \in 1..Len(inst.lines) : inst.lines[i].length > 0
    BY DEF IsCounted
  <2>2. QED
    BY <1>2, <1>3, <1>7, <2>1
<1>11. IsCounted(Repeated(inst, text))
  <2> HIDE DEF new, count
  <2>1. QED
    BY <1>4, <1>9, <1>10 DEF IsCounted
<1>12. ASSUME HasRoom(inst), Len(new) > 1
       PROVE  count <= Threshold + Suffix
  <2>1. inst.count <= Threshold + (IF old.repeated THEN Suffix ELSE 0)
    BY <1>7, <1>12 DEF HasRoom
  <2>2. count = inst.count + (IF old.repeated THEN 0 ELSE Suffix)
    <3> HIDE DEF line, old
    <3>1. QED
      BY <1>1, <1>5, <1>6
  <2> HIDE DEF count, old, new
  <2>3. QED
    BY <1>1, <2>1, <2>2, Lengths
<1>13. HasRoom(inst) => HasRoom(Repeated(inst, text))
  <2> HIDE DEF new, count, line
  <2>1. QED
    BY <1>3, <1>4, <1>8, <1>12 DEF HasRoom
<1>14. QED
  BY <1>11, <1>13

\* What an event does to the bubble.
Fits(inst, f) == IsCounted(inst) /\ (f = 0 => HasRoom(inst))

LEMMA ShownBubble ==
  ASSUME TypeOK, chain # <<>>, ShowLine, Fits(stream, faults)
  PROVE  Fits(stream', faults')
<1>1. Event \in Events
  BY HeadTailProperties DEF TypeOK, Event
<1>2. Event.text \in Texts
  BY <1>1 DEF Events
<1>3. stream \in Inst /\ faults \in Nat /\ IsCounted(stream)
  BY EventBounds DEF TypeOK, Inst, Fits
<1>4. CASE ~(HasLine(Event.type) /\ ~Suppressed)
  BY <1>4 DEF ShowLine, progress
<1>5. CASE HasLine(Event.type) /\ ~Suppressed /\ Repeats(stream, Event.text)
  BY <1>2, <1>3, <1>5, RepeatedBubble DEF ShowLine, Fits
<1>6. CASE HasLine(Event.type) /\ ~Suppressed /\ ~Repeats(stream, Event.text)
  <2> DEFINE line == NewLine(stream, Event.text)
  <2>1. /\ line \in Line /\ ~line.repeated /\ line.length > 0
        /\ AppendLine(line)
    <3>1. AppendLine(line)
      BY <1>6 DEF ShowLine
    <3>2. line \in Line
      BY <1>2, <1>3, NewLineFits DEF Inst
    <3>3. ~line.repeated /\ line.length > 0
      BY <1>2, Lengths DEF NewLine
    <3>4. QED
      BY <3>1, <3>2, <3>3
  <2> HIDE DEF line
  <2>2. CASE stream' = Joined(stream, line) /\ ~ShouldRollBubble(stream.count, line.length)
    BY <1>3, <2>1, <2>2, JoinedBubble DEF Fits
  <2>3. CASE stream' = Rolled(stream, line)
    BY <1>3, <2>1, <2>3, RolledBubble DEF Fits
  <2>4. CASE stream' = Joined(stream, line) /\ faults' = faults + 1
    <3>1. faults' # 0
      BY <1>3, <2>4
    <3>2. QED
      BY <1>3, <2>1, <2>4, <3>1, JoinedBubble DEF Fits
  <2>5. QED
    BY <2>1, <2>2, <2>3, <2>4 DEF AppendLine, Fault
<1>7. QED
  BY <1>4, <1>5, <1>6

LEMMA NextBubble ==
  ASSUME TypeInv, Fits(stream, faults), [Next]_vars
  PROVE  Fits(stream', faults')
<1>1. TypeOK /\ faults \in Nat
  BY EventBounds DEF TypeInv, TypeOK
<1>2. ASSUME stream' = stream, faults' \in {faults, faults + 1}
      PROVE  Fits(stream', faults')
  BY <1>1, <1>2 DEF Fits
<1>3. CASE StartTurn \/ ResumeTurn \/ Settle \/ SettleThrows \/ StopTask
  BY <1>2, <1>3 DEF StartTurn, ResumeTurn, Settle, SettleCompleted, SettleFailed, SettleCancelled,
    SettleThrows, StopTask, Fault, progress
<1>4. CASE AgentEmits \/ QueueReport \/ AgentFinishes \/ AgentStops \/ TimerFires
  BY <1>2, <1>4 DEF AgentEmits, QueueReport, AgentFinishes, AgentStops, TimerFires, progress
<1>5. CASE Flush \/ TripGuard \/ HandleFailure
  BY <1>2, <1>5 DEF Flush, TripGuard, HandleFailure, Fault, progress
<1>6. CASE HandleTurnStart \/ HandleToolStart \/ HandleResult \/ HandleAgentEnd
  BY <1>1, <1>6, ShownBubble DEF HandleTurnStart, HandleToolStart, HandleResult, HandleAgentEnd
<1>7. CASE ReportTrip
  BY <1>1, <1>7, ShownBubble DEF ReportTrip, TypeInv, TrippingFits
<1>8. CASE UNCHANGED vars
  BY <1>2, <1>8 DEF vars, progress
<1>9. QED
  BY <1>3, <1>4, <1>5, <1>6, <1>7, <1>8 DEF Next, HandleEvent

--------------------------------------------------------------------------------
\* The theorems.

\* The waiter, the events, the guard, the slot and the messages of an instance
\* keep their types: also a guard that aborts its agent finds its result still
\* first in the chain (observe-bridge.ts:84-97).
THEOREM TypeCorrect == Spec => []TypeOK
<1>1. TypeInv => TypeOK
  BY DEF TypeInv
<1>2. QED
  BY <1>1, Types, PTL

\* The two counters of the guard decide as the history of results would
\* (tool-failure-guard.ts:88-130), for any two thresholds.
THEOREM GuardDecides == Spec => []TripsOnStreak
<1>1. GuardInv => TripsOnStreak
  BY DEF GuardInv
<1>2. QED
  BY <1>1, GuardInvariant, PTL

\* A turn posts the report its own agent was told is queued, and that of another
\* only after an agent was dispatched beside one before it
\* (user-turn-message.ts:34-41, orchestrator.ts:820-828), for any number of turns,
\* deliveries, failures that are reported early, and faults.
THEOREM ReportIsOwn == Spec => OwnReportPosted
<1>1. ReportInv /\ SettleCompleted => (told => slot = turn) /\ (slot # NoReport => told \/ beside)
  BY DEF ReportInv, SlotFits, SettleCompleted
<1>2. ReportInv /\ [Next]_vars =>
        [SettleCompleted => (told => slot = turn) /\ (slot # NoReport => told \/ beside)]_vars
  BY <1>1
<1>3. QED
  BY <1>2, ReportInvariant, PTL DEF Spec, OwnReportPosted

\* An edit takes no line out of the message that it edits, and the last flush
\* that succeeds shows them all (progress-stream.ts:76-127).
THEOREM LinesAreKept == Spec => []NoLineLost
<1>1. LineInv => NoLineLost
  BY DEF LineInv
<1>2. QED
  BY <1>1, LineInvariant, PTL

\* The count that decides about a new message is the length of the one under
\* way, whatever lines repeat and whatever calls fail, and without failed calls a
\* message with several lines stays within the threshold, but for the
\* counter of its last line (progress-stream.ts:38-110), for texts of any
\* lengths and any threshold.
THEOREM BubbleIsCounted == Spec => []BubbleFits
<1> DEFINE Inv == TypeInv /\ Fits(stream, faults)
<1>1. Init => Inv
  <2> SUFFICES ASSUME Init PROVE Inv OBVIOUS
  <2>1. TypeInv
    BY InitTypes DEF Init, TypeInv, TrippingFits
  <2>2. stream.lines = <<>> /\ stream.count = 0 /\ Len(stream.lines) = 0
    BY DEF Init, NewRenderState
  <2>3. IsCounted(stream)
    BY <2>2, ContentOfNone DEF IsCounted
  <2>4. HasRoom(stream)
    BY <2>2 DEF HasRoom
  <2>5. QED
    BY <2>1, <2>3, <2>4 DEF Fits
<1>2. Inv /\ [Next]_vars => Inv'
  <2> SUFFICES ASSUME Inv, [Next]_vars PROVE Inv' OBVIOUS
  <2>1. TypeInv'
    BY NextTypes
  <2>2. Fits(stream, faults)'
    BY NextBubble
  <2>3. QED
    BY <2>1, <2>2
<1>3. Inv => BubbleFits
  <2> SUFFICES ASSUME Inv PROVE BubbleFits OBVIOUS
  <2>1. stream \in [lines : Seq(Line), count : Nat] /\ Len(stream.lines) \in Nat
    BY DEF TypeInv, TypeOK
  <2>2. stream.count = ContentLength(stream.lines)
    BY DEF Fits, IsCounted
  <2>3. faults = 0 /\ Len(stream.lines) > 1 => stream.count <= Threshold + Suffix
    BY <2>1, Lengths DEF Fits, HasRoom
  <2>4. QED
    BY <2>1, <2>2, <2>3 DEF BubbleFits
<1>4. QED
  BY <1>1, <1>2, <1>3, PTL DEF Spec

================================================================================
