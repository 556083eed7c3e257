---------------------------- MODULE ProgressStream ----------------------------
(***************************************************************************)
(* The progress of an agent as lines in Discord messages                   *)
(* (src/discord/progress-stream.ts).  A line is told apart by its text;    *)
(* only its length matters otherwise.                                      *)
(***************************************************************************)
EXTENDS Integers, Sequences, SequencesExt

CONSTANTS
  Texts,      \* rendered lines
  TextLength, \* their lengths
  Header,     \* length of the first line of a terminal block; 0 for other lines
  Suffix,     \* length of the repeat counter
  Threshold   \* PROGRESS_ROLL_THRESHOLD

ASSUME Lengths ==
  /\ TextLength \in [Texts -> Nat \ {0}]
  /\ Header \in [Texts -> Nat]
  /\ \A t \in Texts : Header[t] < TextLength[t]
  /\ Suffix \in Nat /\ Threshold \in Nat

Terminal(text) == Header[text] > 0

\* A line as it stands in a message, with a counter when it was repeated.
Line == [text : Texts, length : Nat, repeated : BOOLEAN]
LengthOf(line) == line.length + (IF line.repeated THEN Suffix ELSE 0)

\* Where each line ends in the message: lines are joined by line feeds.  That
\* redact may shorten or lengthen them afterwards is left out, as the count is
\* of the lines before it.
LineEnds(lines) ==
  LET end[i \in 0..Len(lines)] ==
        IF i = 0 THEN 0 ELSE end[i - 1] + (IF i = 1 THEN 0 ELSE 1) + LengthOf(lines[i])
  IN  end
ContentLength(lines) == LineEnds(lines)[Len(lines)]

\* InstanceRenderState from bubbleStartIndex on: lines before are never read
\* again, and the last line, that of lastLine, is always in the bubble.
NewRenderState == [lines |-> <<>>, count |-> 0]

Repeats(inst, text) == inst.lines # <<>> /\ Last(inst.lines).text = text

\* appendRenderedLine for a text that repeats ...
Repeated(inst, text) ==
  LET line == [Last(inst.lines) EXCEPT !.repeated = TRUE] IN
  [lines |-> Append(Front(inst.lines), line),
   count |-> inst.count + LengthOf(line) - LengthOf(Last(inst.lines))]

\* ... and for a new one: consecutive terminal blocks share a header.
NewLine(inst, text) ==
  [text |-> text, repeated |-> FALSE,
   length |-> TextLength[text]
     - (IF Terminal(text) /\ inst.lines # <<>> /\ Terminal(Last(inst.lines).text)
        THEN Header[text] ELSE 0)]

ShouldRollBubble(count, length) == count > 0 /\ count + 1 + length > Threshold

\* Mutant: the separator is not counted.
JoinedTight(inst, line) ==
  [lines |-> Append(inst.lines, line), count |-> inst.count + LengthOf(line)]

\* The line joins the bubble, because it fits or because the roll failed.
Joined(inst, line) ==
  [lines |-> Append(inst.lines, line),
   count |-> inst.count + (IF inst.count = 0 THEN 0 ELSE 1) + LengthOf(line)]

\* Mutant: the new bubble starts behind its first line.
RolledBehind(inst, line) == [lines |-> <<>>, count |-> 0]

\* A rolled line is the first of a new bubble.
Rolled(inst, line) == [lines |-> <<line>>, count |-> LengthOf(line)]

================================================================================
