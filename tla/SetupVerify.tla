------------------------------ MODULE SetupVerify ------------------------------
(***************************************************************************)
(* The save tool of the setup agent (src/setup/tools.ts) and the           *)
(* verification it waits for (src/setup/verify.ts, src/task/execa.ts): one *)
(* child process after the other, each with a timer, a signal and the end  *)
(* of its output pipes.  The agent may call the tool again, also before    *)
(* the first call has answered.                                            *)
(***************************************************************************)
EXTENDS Integers

CONSTANTS
  Calls,       \* calls of the tool
  NumChecks    \* number of checks; they run in the order of their names

ASSUME Counted == NumChecks \in Nat

VARIABLES
  run,        \* status of the setup run
  workspace,  \* does its directory exist
  call,       \* where a call stands
  child,      \* the child process of a call
  exit        \* how the shell of a command went; only properties read it

vars == <<run, workspace, call, child, exit>>

RunStatus == {"running", "succeeded", "failed"}

\* The commands of an environment, in the order they run in.
Install == -1
Skills == 0
CheckCommands == 1..NumChecks
Start == NumChecks + 1
Commands == Install..Start

\* "command" is the one under way or next; "failed" says that a check failed.
CallStates == [step : {"idle", "verify", "promote", "clean", "saved", "refused"},
               command : Commands, links : BOOLEAN, start : BOOLEAN, failed : BOOLEAN]
Idle == [step |-> "idle", command |-> Install, links |-> FALSE, start |-> FALSE,
         failed |-> FALSE]

\* Exit codes: "killed" stands for 137 and 143, which a shell reports of a killed
\* command, "signal" for a shell that was killed itself (no code).
Codes == {"zero", "error", "killed", "signal"}

\* "late" is timedOut or killedByProbe, "killed" is child.killed, "grace" an
\* armed kill timer, "held" a process that holds the output pipes.
Children == [shell : {"none", "alive", "gone"}, code : Codes, held : BOOLEAN,
             late : BOOLEAN, killed : BOOLEAN, grace : BOOLEAN]
NoChild == [shell |-> "none", code |-> "zero", held |-> FALSE, late |-> FALSE,
            killed |-> FALSE, grace |-> FALSE]

\* A command passed or failed by its own exit; a signalled one did neither.
Exits == {"none", "passed", "failed"}

Init ==
  /\ run = "running"
  /\ workspace = TRUE
  /\ call = [c \in Calls |-> Idle]
  /\ child = [c \in Calls |-> NoChild]
  /\ exit = [c \in Calls |-> [m \in Commands |-> "none"]]

--------------------------------------------------------------------------------
\* The order of the commands, in verifySetupEnvironment.

AfterChecks(s) ==
  IF s.failed THEN [s EXCEPT !.step = "refused"]
  ELSE IF s.start THEN [s EXCEPT !.command = Start]
  ELSE [s EXCEPT !.step = "promote"]

BeforeCheck(s, n) == IF n \in CheckCommands THEN [s EXCEPT !.command = n] ELSE AfterChecks(s)

\* Install, skills and start end the verification when they fail; every check
\* is run.
Continued(s, passed) ==
  IF s.command \in CheckCommands
  THEN BeforeCheck([s EXCEPT !.failed = @ \/ ~passed], s.command + 1)
  ELSE IF ~passed THEN [s EXCEPT !.step = "refused"]
  ELSE IF s.command = Install /\ s.links THEN [s EXCEPT !.command = Skills]
  ELSE IF s.command = Start THEN [s EXCEPT !.step = "promote"]
  ELSE BeforeCheck(s, 1)

Probing(c) == call[c].command = Start
IsProbeKillExit(code) == code \in {"zero", "killed", "signal"}
\* Mutant: a command that handles the SIGTERM of its timeout well has passed.
CommandPassedLate(k) == k.code = "zero"
CommandPassed(k) == k.code = "zero" /\ ~k.late
ProbePassed(k) == k.code = "zero" \/ (k.late /\ IsProbeKillExit(k.code))

--------------------------------------------------------------------------------
\* Calls and their processes.

\* A payload that the validator accepts, of a run that exists; "links" are the
\* skills of the payload or of the profile.
StartSave(c, links, start) ==
  /\ call[c].step = "idle"
  /\ call' = [call EXCEPT ![c] =
       [Idle EXCEPT !.step = "verify", !.links = links, !.start = start]]
  /\ UNCHANGED <<run, workspace, child, exit>>

\* The shell is spawned in the checkout; without the directory it is an error.
Spawn(c) ==
  /\ call[c].step = "verify" /\ child[c].shell = "none"
  /\ \/ /\ workspace
        /\ child' = [child EXCEPT ![c] = [NoChild EXCEPT !.shell = "alive"]]
        /\ UNCHANGED call
     \/ /\ ~workspace
        /\ call' = [call EXCEPT ![c] = Continued(@, FALSE)]
        /\ UNCHANGED child
  /\ UNCHANGED <<run, workspace, exit>>

Gone(k, code, held) == [k EXCEPT !.shell = "gone", !.code = code, !.held = held]

\* The shell ends by itself; a process it started may keep the pipes.
ShellExits(c) ==
  /\ child[c].shell = "alive" /\ ~child[c].killed
  /\ \E code \in Codes, held \in BOOLEAN :
       /\ child' = [child EXCEPT ![c] = Gone(@, code, held)]
       /\ exit' = [exit EXCEPT ![c][call[c].command] =
            IF code = "zero" THEN "passed" ELSE IF code = "error" THEN "failed" ELSE @]
  /\ UNCHANGED <<run, workspace, call>>

\* SIGTERM reached the shell; it may handle it and choose its code.
ShellDies(c) ==
  /\ child[c].shell = "alive" /\ child[c].killed
  /\ \E code \in Codes, held \in BOOLEAN :
       child' = [child EXCEPT ![c] = Gone(@, code, held)]
  /\ UNCHANGED <<run, workspace, call, exit>>

HolderEnds(c) ==
  /\ child[c].held
  /\ child' = [child EXCEPT ![c].held = FALSE]
  /\ UNCHANGED <<run, workspace, call, exit>>

\* Mutant: the timer is only noted.
TimerFiresSilently(c) ==
  /\ child[c].shell # "none" /\ ~child[c].late
  /\ child' = [child EXCEPT ![c] = [@ EXCEPT !.late = TRUE]]
  /\ UNCHANGED <<run, workspace, call, exit>>

\* The timeout of execa, or the window of the probe, which also arms the timer
\* for SIGKILL.
TimerFires(c) ==
  /\ child[c].shell # "none" /\ ~child[c].late
  /\ child' = [child EXCEPT ![c] =
       [@ EXCEPT !.late = TRUE,
                 !.killed = child[c].shell = "alive",
                 !.grace = Probing(c) /\ (child[c].shell = "alive" \/ child[c].code = "signal")]]
  /\ UNCHANGED <<run, workspace, call, exit>>

\* The kill timer: "killed" is set by the SIGTERM before, so that a living
\* shell gets no SIGKILL.
GraceEnds(c) ==
  /\ child[c].grace
  /\ child' = [child EXCEPT ![c] =
       IF child[c].shell = "alive" /\ ~child[c].killed
       THEN [Gone(@, "signal", child[c].held) EXCEPT !.grace = FALSE]
       ELSE [@ EXCEPT !.grace = FALSE]]
  /\ UNCHANGED <<run, workspace, call, exit>>

\* The "close" event: the shell is gone and the pipes are closed.
Close(c) ==
  /\ child[c].shell = "gone" /\ ~child[c].held
  /\ call' = [call EXCEPT ![c] =
       Continued(@, IF Probing(c) THEN ProbePassed(child[c]) ELSE CommandPassed(child[c]))]
  /\ child' = [child EXCEPT ![c] = NoChild]
  /\ UNCHANGED <<run, workspace, exit>>

\* promoteRun refuses a run that is not running any more; it commits the run and
\* then throws when the profile was not busy.
Promote(c) ==
  /\ call[c].step = "promote"
  /\ \/ /\ run = "running"
        /\ run' = "succeeded"
        /\ \E step \in {"clean", "refused"} : call' = [call EXCEPT ![c].step = step]
     \/ /\ run # "running"
        /\ call' = [call EXCEPT ![c].step = "refused"]
        /\ UNCHANGED run
  /\ UNCHANGED <<workspace, child, exit>>

CleanUp(c) ==
  /\ call[c].step = "clean"
  /\ call' = [call EXCEPT ![c].step = "saved"]
  /\ workspace' = FALSE
  /\ UNCHANGED <<run, child, exit>>

\* handleAgentFailure and handleAgentEnd fail a running run ...
FailRun ==
  /\ run = "running"
  /\ run' = "failed"
  /\ UNCHANGED <<workspace, call, child, exit>>

\* ... and then remove its directory.
RemoveWorkspace ==
  /\ run = "failed" /\ workspace
  /\ workspace' = FALSE
  /\ UNCHANGED <<run, call, child, exit>>

--------------------------------------------------------------------------------

Step(c) ==
  \/ Spawn(c) \/ TimerFires(c) \/ GraceEnds(c) \/ ShellDies(c) \/ Close(c)
  \/ Promote(c) \/ CleanUp(c)

Next ==
  \/ \E c \in Calls, links, start \in BOOLEAN : StartSave(c, links, start)
  \/ \E c \in Calls : Step(c) \/ ShellExits(c) \/ HolderEnds(c)
  \/ FailRun \/ RemoveWorkspace

Spec == Init /\ [][Next]_vars

\* Timers fire and events are handled.  That a process ends is never assumed:
\* not of itself, not after a signal, and not what it left behind.
FairSpec ==
  /\ Spec
  /\ \A c \in Calls :
       /\ WF_vars(Spawn(c)) /\ WF_vars(TimerFires(c)) /\ WF_vars(GraceEnds(c))
       /\ WF_vars(Close(c)) /\ WF_vars(Promote(c)) /\ WF_vars(CleanUp(c))

--------------------------------------------------------------------------------
\* Properties.

TypeOK ==
  /\ run \in RunStatus
  /\ workspace \in BOOLEAN
  /\ call \in [Calls -> CallStates]
  /\ child \in [Calls -> Children]
  /\ exit \in [Calls -> [Commands -> Exits]]

Required(s) ==
  {Install} \cup CheckCommands \cup (IF s.links THEN {Skills} ELSE {})

\* A profile is promoted only after its install, its skills and every check
\* exited with 0 within their time, and a start command did not exit with an
\* error of its own (verify.ts:162), whatever timers and late pipes do.
SavedOnlyVerified == \A c \in Calls : call[c].step \in {"promote", "clean", "saved"} =>
  /\ \A m \in Required(call[c]) : exit[c][m] = "passed"
  /\ call[c].start => exit[c][Start] # "failed"

Answered(c) == call[c].step \in {"saved", "refused"}

\* A shell that was told to end and does not, or processes that it left behind
\* and that keep its pipes.
Hangs(c) ==
  \/ child[c].shell = "alive" /\ child[c].killed
  \/ child[c].shell = "gone" /\ child[c].held

\* A call of the tool answers unless one of its commands outlives SIGTERM or its
\* shell for ever: the only signal is SIGTERM to the shell (execa.ts:32,
\* verify.ts:113), the grace timer sends nothing (verify.ts:115), and "close" is
\* awaited without a bound.  A command that merely runs is stopped by its timer.
SaveReturns == \A c \in Calls :
  (call[c].step = "verify" ~> Answered(c)) \/ <>[]Hangs(c)

================================================================================
