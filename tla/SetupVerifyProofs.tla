--------------------------- MODULE SetupVerifyProofs ---------------------------
(***************************************************************************)
(* Proofs about SetupVerify for any number of calls and of checks.         *)
(***************************************************************************)
EXTENDS SetupVerify, TLAPS

--------------------------------------------------------------------------------
\* The inductive invariant.

Verified(s, e) ==
  /\ \A m \in Required(s) : e[m] = "passed"
  /\ s.start => e[Start] # "failed"

\* What is behind command n has passed, or is a check that failed and is noted.
PassedBefore(s, n, e) == \A m \in Required(s) :
  m < n => e[m] = "passed" \/ (s.failed /\ m \in CheckCommands)

\* A call s and the exits e it has seen.
Fits(s, e) ==
  /\ s.step = "idle" => \A m \in Commands : e[m] = "none"
  /\ s.step = "verify" =>
       /\ PassedBefore(s, s.command, e)
       /\ s.command = Start => s.start /\ ~s.failed
  /\ s.step \in {"promote", "clean", "saved"} => Verified(s, e)

\* A call s, its child process k and the exits e.
ChildFits(s, k, e) ==
  /\ k.shell = "none" => ~k.held /\ ~k.killed
  /\ k.shell # "none" => s.step = "verify"
  /\ k.killed => k.late
  /\ k.shell = "gone" /\ k.code = "zero" /\ ~k.late => e[s.command] = "passed"
  /\ s.step = "verify" /\ e[Start] = "failed" =>
       s.command = Start /\ k.shell = "gone" /\ k.code = "error"

CallsFit == \A c \in Calls : Fits(call[c], exit[c])
ChildrenFit == \A c \in Calls : ChildFits(call[c], child[c], exit[c])

IInv == TypeOK /\ CallsFit /\ ChildrenFit

LEMMA IInvProperties == IInv => SavedOnlyVerified
BY DEF IInv, CallsFit, Fits, Verified, SavedOnlyVerified, TypeOK, CallStates

--------------------------------------------------------------------------------
\* The order of the commands.

LEMMA CommandNumbers ==
  /\ Install \in Commands /\ Skills \in Commands /\ Start \in Commands
  /\ CheckCommands \subseteq Commands
  /\ \A n \in CheckCommands : n + 1 \in CheckCommands \/ n + 1 = Start
  /\ 1 \in CheckCommands \/ 1 = Start
BY Counted DEF Install, Skills, Start, Commands, CheckCommands

LEMMA RequiredBeforeStart ==
  ASSUME NEW s, NEW m \in Required(s) PROVE m < Start
BY Counted DEF Required, Install, Skills, Start, CheckCommands

LEMMA AfterChecksFits ==
  ASSUME NEW s \in CallStates, NEW e, s.step = "verify",
         PassedBefore(s, Start, e), e[Start] # "failed"
  PROVE  AfterChecks(s) \in CallStates /\ Fits(AfterChecks(s), e)
<1>1. CASE s.failed
  <2>1. AfterChecks(s) = [s EXCEPT !.step = "refused"] BY <1>1 DEF AfterChecks
  <2> QED BY <2>1 DEF CallStates, Fits
<1>2. CASE ~s.failed /\ s.start
  <2>1. AfterChecks(s) = [s EXCEPT !.command = Start] BY <1>2 DEF AfterChecks
  <2> QED BY <1>2, <2>1, CommandNumbers DEF CallStates, Fits, PassedBefore, Required
<1>3. CASE ~s.failed /\ ~s.start
  <2>1. AfterChecks(s) = [s EXCEPT !.step = "promote"] BY <1>3 DEF AfterChecks
  <2>2. \A m \in Required(s) : e[m] = "passed"
    BY <1>3, RequiredBeforeStart DEF PassedBefore
  <2> QED BY <2>1, <2>2 DEF CallStates, Fits, Verified, Required
<1> QED BY <1>1, <1>2, <1>3 DEF CallStates

LEMMA BeforeCheckFits ==
  ASSUME NEW s \in CallStates, NEW e, NEW n, n \in CheckCommands \/ n = Start,
         s.step = "verify", PassedBefore(s, n, e), e[Start] # "failed"
  PROVE  BeforeCheck(s, n) \in CallStates /\ Fits(BeforeCheck(s, n), e)
<1>1. CASE n \in CheckCommands
  <2>1. BeforeCheck(s, n) = [s EXCEPT !.command = n] BY <1>1 DEF BeforeCheck
  <2>2. n # Start BY <1>1, Counted DEF CheckCommands, Start
  <2> QED BY <1>1, <2>1, <2>2, CommandNumbers DEF CallStates, Fits, PassedBefore, Required
<1>2. CASE n \notin CheckCommands
  BY <1>2, AfterChecksFits DEF BeforeCheck
<1> QED BY <1>1, <1>2

\* The verification goes on as it should when it believes only what passed.
LEMMA ContinuedFits ==
  ASSUME NEW s \in CallStates, NEW e, NEW passed \in BOOLEAN,
         s.step = "verify", Fits(s, e),
         passed /\ s.command # Start => e[s.command] = "passed",
         passed \/ s.command # Start => e[Start] # "failed"
  PROVE  Continued(s, passed) \in CallStates /\ Fits(Continued(s, passed), e)
<1>1. PassedBefore(s, s.command, e) /\ (s.command = Start => s.start /\ ~s.failed)
  BY DEF Fits
<1>2. CASE s.command \in CheckCommands
  <2> DEFINE t == [s EXCEPT !.failed = @ \/ ~passed]
  <2>1. Continued(s, passed) = BeforeCheck(t, s.command + 1) BY <1>2 DEF Continued
  <2>2. t \in CallStates /\ t.step = "verify" /\ t.failed = (s.failed \/ ~passed)
        /\ Required(t) = Required(s)
    BY DEF CallStates, Required
  <2>3. PassedBefore(t, s.command + 1, e)
    <3> SUFFICES ASSUME NEW m \in Required(s), m < s.command + 1
                 PROVE  e[m] = "passed" \/ (t.failed /\ m \in CheckCommands)
      BY <2>2 DEF PassedBefore
    <3>1. m \in Int /\ s.command \in Int
      BY <1>2, Counted DEF Required, CheckCommands, Install, Skills
    <3>2. CASE m < s.command BY <1>1, <2>2, <3>2 DEF PassedBefore
    <3>3. CASE m = s.command
      <4>1. s.command # Start BY <1>2, Counted DEF CheckCommands, Start
      <4>2. CASE passed BY <3>3, <4>1, <4>2
      <4>3. CASE ~passed BY <1>2, <2>2, <3>3, <4>3
      <4> QED BY <4>2, <4>3
    <3> QED BY <3>1, <3>2, <3>3
  <2>4. s.command + 1 \in CheckCommands \/ s.command + 1 = Start BY <1>2, CommandNumbers
  <2>5. e[Start] # "failed" BY <1>2, Counted DEF CheckCommands, Start
  <2> QED
    <3> HIDE DEF t
    <3> QED BY <2>1, <2>2, <2>3, <2>4, <2>5, BeforeCheckFits
<1>3. CASE s.command \notin CheckCommands /\ ~passed
  <2>1. Continued(s, passed) = [s EXCEPT !.step = "refused"] BY <1>3 DEF Continued
  <2> QED BY <2>1 DEF CallStates, Fits
<1>4. CASE s.command = Install /\ s.links /\ passed
  <2>1. Install \notin CheckCommands /\ Install # Start /\ Skills # Start
    BY Counted DEF Install, Skills, CheckCommands, Start
  <2>2. Continued(s, passed) = [s EXCEPT !.command = Skills]
    BY <1>4, <2>1 DEF Continued
  <2>3. \A m \in Required(s) : m < Skills => m = Install
    BY Counted DEF Required, CheckCommands, Install, Skills
  <2> QED BY <1>4, <2>1, <2>2, <2>3, CommandNumbers
        DEF CallStates, Fits, PassedBefore, Required
<1>5. CASE s.command = Start /\ passed
  <2>1. Start \notin CheckCommands /\ Install # Start
    BY Counted DEF Install, CheckCommands, Start
  <2>2. Continued(s, passed) = [s EXCEPT !.step = "promote"]
    BY <1>5, <2>1 DEF Continued
  <2>3. \A m \in Required(s) : e[m] = "passed"
    BY <1>1, <1>5, RequiredBeforeStart DEF PassedBefore
  <2> QED BY <1>5, <2>2, <2>3 DEF CallStates, Fits, Verified, Required
<1>6. CASE /\ s.command \notin CheckCommands /\ s.command # Start /\ passed
           /\ ~(s.command = Install /\ s.links)
  <2>1. Continued(s, passed) = BeforeCheck(s, 1) BY <1>6 DEF Continued
  <2>2. PassedBefore(s, 1, e)
    <3> SUFFICES ASSUME NEW m \in Required(s), m < 1
                 PROVE  e[m] = "passed"
      BY DEF PassedBefore
    <3>1. m = Install \/ (m = Skills /\ s.links)
      BY Counted DEF Required, CheckCommands, Install, Skills
    <3>2. s.command \in {Install, Skills}
      BY <1>6, Counted DEF CallStates, Commands, CheckCommands, Install, Skills, Start
    <3>3. CASE m = s.command BY <1>6, <3>3
    <3>4. CASE m # s.command
      <4>1. m = Install /\ s.command = Skills BY <1>6, <3>1, <3>2, <3>4
      <4>2. Install < Skills /\ Install \notin CheckCommands
        BY Counted DEF Install, Skills, CheckCommands
      <4> QED BY <1>1, <4>1, <4>2 DEF PassedBefore
    <3> QED BY <3>3, <3>4
  <2> QED BY <1>6, <2>1, <2>2, CommandNumbers, BeforeCheckFits
<1> QED BY <1>2, <1>3, <1>4, <1>5, <1>6

\* Where a call can stand after a command; the start command is the last one.
LEMMA ContinuedStep ==
  ASSUME NEW s \in CallStates, NEW passed \in BOOLEAN, s.step = "verify"
  PROVE  /\ Continued(s, passed).step \in {"verify", "promote", "refused"}
         /\ s.command = Start => Continued(s, passed).step # "verify"
<1>1. Start \notin CheckCommands /\ Install # Start
  BY Counted DEF Install, CheckCommands, Start
<1> QED BY <1>1 DEF Continued, BeforeCheck, AfterChecks, CallStates

--------------------------------------------------------------------------------
\* The initial state and the steps.

LEMMA InitIInv == Init => IInv
<1> SUFFICES ASSUME Init PROVE IInv OBVIOUS
<1>1. Idle \in CallStates BY CommandNumbers DEF Idle, CallStates
<1>2. NoChild \in Children BY DEF NoChild, Children, Codes
<1>3. [m \in Commands |-> "none"] \in [Commands -> Exits] BY DEF Exits
<1>4. TypeOK BY <1>1, <1>2, <1>3 DEF Init, TypeOK, RunStatus
<1>5. CallsFit BY DEF Init, CallsFit, Fits, Idle
<1>6. ChildrenFit BY CommandNumbers DEF Init, ChildrenFit, ChildFits, Idle, NoChild
<1> QED BY <1>4, <1>5, <1>6 DEF IInv

\* A step of one call that leaves the others alone.
LEMMA OneCall ==
  ASSUME IInv, NEW c \in Calls,
         NEW s \in CallStates, NEW k \in Children, NEW e \in [Commands -> Exits],
         Fits(s, e), ChildFits(s, k, e),
         call' = [call EXCEPT ![c] = s], child' = [child EXCEPT ![c] = k],
         exit' = [exit EXCEPT ![c] = e],
         run' \in RunStatus, workspace' \in BOOLEAN
  PROVE  IInv'
<1>1. TypeOK' BY DEF IInv, TypeOK
<1>2. CallsFit'
  <2> SUFFICES ASSUME NEW d \in Calls PROVE Fits(call'[d], exit'[d]) BY DEF CallsFit
  <2> QED BY DEF IInv, TypeOK, CallsFit
<1>3. ChildrenFit'
  <2> SUFFICES ASSUME NEW d \in Calls PROVE ChildFits(call'[d], child'[d], exit'[d])
    BY DEF ChildrenFit
  <2> QED BY DEF IInv, TypeOK, ChildrenFit
<1> QED BY <1>1, <1>2, <1>3 DEF IInv

\* What OneCall needs of a call before the step.
LEMMA OneCallBefore ==
  ASSUME IInv, NEW c \in Calls
  PROVE  /\ call[c] \in CallStates /\ child[c] \in Children
         /\ exit[c] \in [Commands -> Exits]
         /\ Fits(call[c], exit[c]) /\ ChildFits(call[c], child[c], exit[c])
         /\ call[c].command \in Commands
         /\ run \in RunStatus /\ workspace \in BOOLEAN
         /\ call = [call EXCEPT ![c] = call[c]]
         /\ child = [child EXCEPT ![c] = child[c]]
         /\ exit = [exit EXCEPT ![c] = exit[c]]
BY DEF IInv, TypeOK, CallsFit, ChildrenFit, CallStates

LEMMA StartSaveStep ==
  ASSUME IInv, NEW c \in Calls, NEW links \in BOOLEAN, NEW start \in BOOLEAN,
         StartSave(c, links, start)
  PROVE  IInv'
<1> DEFINE s == [Idle EXCEPT !.step = "verify", !.links = links, !.start = start]
<1>1. s \in CallStates /\ s.step = "verify" /\ s.command = Install
  BY CommandNumbers DEF Idle, CallStates
<1>2. Start # Install /\ ~(\E m \in Required(s) : m < Install)
  BY Counted DEF Start, Install, Skills, Required, CheckCommands
<1>3. Fits(s, exit[c]) BY <1>1, <1>2 DEF Fits, PassedBefore
<1>4. ChildFits(s, child[c], exit[c])
  BY <1>1, OneCallBefore, CommandNumbers DEF StartSave, ChildFits, Fits
<1> HIDE DEF s
<1> QED BY <1>1, <1>3, <1>4, OneCallBefore, OneCall DEF StartSave, s

LEMMA SpawnStep ==
  ASSUME IInv, NEW c \in Calls, Spawn(c)
  PROVE  IInv'
<1>1. CASE workspace /\ UNCHANGED call
  <2> DEFINE k == [NoChild EXCEPT !.shell = "alive"]
  <2>1. k \in Children BY DEF NoChild, Children, Codes
  <2>2. ChildFits(call[c], k, exit[c])
    BY OneCallBefore DEF Spawn, ChildFits, NoChild
  <2>3. child' = [child EXCEPT ![c] = k]
    BY <1>1 DEF Spawn
  <2> HIDE DEF k
  <2> QED BY <1>1, <2>1, <2>2, <2>3, OneCallBefore, OneCall DEF Spawn
<1>2. CASE ~workspace
  <2> DEFINE s == Continued(call[c], FALSE)
  <2>1. exit[c][Start] # "failed"
    BY OneCallBefore DEF Spawn, ChildFits
  <2>2. s \in CallStates /\ Fits(s, exit[c])
    BY <2>1, OneCallBefore, ContinuedFits DEF Spawn
  <2>3. ChildFits(s, child[c], exit[c])
    BY <2>1, OneCallBefore DEF Spawn, ChildFits
  <2>4. call' = [call EXCEPT ![c] = s] BY <1>2 DEF Spawn
  <2> HIDE DEF s
  <2>5. child' = child /\ exit' = exit /\ run' = run /\ workspace' = workspace
    BY <1>2 DEF Spawn
  <2> QED BY <2>2, <2>3, <2>4, <2>5, OneCallBefore, OneCall
<1> QED BY <1>1, <1>2 DEF Spawn

LEMMA ShellExitsStep ==
  ASSUME IInv, NEW c \in Calls, ShellExits(c)
  PROVE  IInv'
<1> DEFINE m == call[c].command
<1>1. PICK code \in Codes, held \in BOOLEAN :
        /\ child' = [child EXCEPT ![c] = Gone(child[c], code, held)]
        /\ exit' = [exit EXCEPT ![c][m] =
             IF code = "zero" THEN "passed" ELSE IF code = "error" THEN "failed"
             ELSE exit[c][m]]
  BY DEF ShellExits
<1> DEFINE k == Gone(child[c], code, held)
           v == IF code = "zero" THEN "passed" ELSE IF code = "error" THEN "failed"
                ELSE exit[c][m]
           e == [exit[c] EXCEPT ![m] = v]
<1>2. k \in Children /\ k.shell = "gone" /\ k.code = code /\ k.late = child[c].late
      /\ k.killed = child[c].killed
  BY OneCallBefore DEF Gone, Children
<1>3. e \in [Commands -> Exits] /\ e[m] = v /\ \A n \in Commands \ {m} : e[n] = exit[c][n]
  BY OneCallBefore DEF Exits
<1>4. call[c].step = "verify" /\ exit[c][Start] # "failed"
  BY OneCallBefore DEF ShellExits, ChildFits
<1>5. Fits(call[c], e)
  <2>2. Required(call[c]) \subseteq Commands
    BY CommandNumbers DEF Required
  <2>3. PassedBefore(call[c], m, e)
    <3> SUFFICES ASSUME NEW n \in Required(call[c]), n < m
                 PROVE  e[n] = "passed" \/ (call[c].failed /\ n \in CheckCommands)
      BY DEF PassedBefore
    <3>1. n # m
      <4>1. m \in Int BY OneCallBefore, Counted DEF Commands, Install, Start
      <4> QED BY <4>1
    <3> QED BY <1>3, <1>4, <2>2, <3>1, OneCallBefore DEF Fits, PassedBefore
  <2> QED BY <1>4, <2>3, OneCallBefore DEF Fits
<1>6. ChildFits(call[c], k, e)
  <2>1. e[Start] = "failed" => m = Start /\ code = "error"
    BY <1>3, <1>4, CommandNumbers DEF Codes
  <2>2. code = "zero" => e[m] = "passed" BY <1>3
  <2> QED BY <1>2, <1>4, <2>1, <2>2, OneCallBefore DEF ChildFits
<1>7. exit' = [exit EXCEPT ![c] = e]
  BY <1>1, OneCallBefore
<1>8. child' = [child EXCEPT ![c] = k] BY <1>1
<1> HIDE DEF k, e, v
<1> QED BY <1>2, <1>3, <1>5, <1>6, <1>7, <1>8, OneCallBefore, OneCall DEF ShellExits

LEMMA ShellDiesStep ==
  ASSUME IInv, NEW c \in Calls, ShellDies(c)
  PROVE  IInv'
<1>1. PICK code \in Codes, held \in BOOLEAN :
        child' = [child EXCEPT ![c] = Gone(child[c], code, held)]
  BY DEF ShellDies
<1> DEFINE k == Gone(child[c], code, held)
<1>2. k \in Children /\ k.shell = "gone" /\ k.late = child[c].late
      /\ k.killed = child[c].killed
  BY OneCallBefore DEF Gone, Children
<1>3. ChildFits(call[c], k, exit[c])
  BY <1>2, OneCallBefore DEF ShellDies, ChildFits
<1>4. child' = [child EXCEPT ![c] = k] BY <1>1
<1> HIDE DEF k
<1> QED BY <1>2, <1>3, <1>4, OneCallBefore, OneCall DEF ShellDies

LEMMA HolderEndsStep ==
  ASSUME IInv, NEW c \in Calls, HolderEnds(c)
  PROVE  IInv'
<1> DEFINE k == [child[c] EXCEPT !.held = FALSE]
<1>1. k \in Children BY OneCallBefore DEF Children
<1>2. ChildFits(call[c], k, exit[c]) BY OneCallBefore DEF ChildFits, Children
<1>3. child' = [child EXCEPT ![c] = k] BY OneCallBefore DEF HolderEnds
<1> HIDE DEF k
<1> QED BY <1>1, <1>2, <1>3, OneCallBefore, OneCall DEF HolderEnds

LEMMA TimerFiresStep ==
  ASSUME IInv, NEW c \in Calls, TimerFires(c)
  PROVE  IInv'
<1> DEFINE k == [child[c] EXCEPT
       !.late = TRUE, !.killed = child[c].shell = "alive",
       !.grace = Probing(c) /\ (child[c].shell = "alive" \/ child[c].code = "signal")]
<1>1. k \in Children /\ k.late = TRUE /\ k.shell = child[c].shell
      /\ k.code = child[c].code /\ k.held = child[c].held
  BY OneCallBefore DEF Children
<1>2. ChildFits(call[c], k, exit[c])
  BY <1>1, OneCallBefore DEF ChildFits, TimerFires
<1>3. child' = [child EXCEPT ![c] = k] BY OneCallBefore DEF TimerFires
<1> HIDE DEF k
<1> QED BY <1>1, <1>2, <1>3, OneCallBefore, OneCall DEF TimerFires

LEMMA GraceEndsStep ==
  ASSUME IInv, NEW c \in Calls, GraceEnds(c)
  PROVE  IInv'
<1> DEFINE g == Gone(child[c], "signal", child[c].held)
           k == IF child[c].shell = "alive" /\ ~child[c].killed
                THEN [g EXCEPT !.grace = FALSE] ELSE [child[c] EXCEPT !.grace = FALSE]
<1>1. k \in Children /\ k.late = child[c].late /\ k.killed = child[c].killed
      /\ k.held = child[c].held
      /\ k.shell = (IF child[c].shell = "alive" /\ ~child[c].killed THEN "gone" ELSE child[c].shell)
      /\ k.code = (IF child[c].shell = "alive" /\ ~child[c].killed THEN "signal" ELSE child[c].code)
  BY OneCallBefore DEF Children, Gone, Codes
<1>2. ChildFits(call[c], k, exit[c]) BY <1>1, OneCallBefore DEF ChildFits
<1>3. child' = [child EXCEPT ![c] = k] BY OneCallBefore DEF GraceEnds
<1>4. call' = call /\ exit' = exit /\ run' = run /\ workspace' = workspace
  BY DEF GraceEnds
<1> HIDE DEF k
<1> QED BY <1>1, <1>2, <1>3, <1>4, OneCallBefore, OneCall

\* The verdict about a command is one that ContinuedFits accepts.
LEMMA CloseStep ==
  ASSUME IInv, NEW c \in Calls, Close(c)
  PROVE  IInv'
<1> DEFINE passed == IF Probing(c) THEN ProbePassed(child[c]) ELSE CommandPassed(child[c])
           s == Continued(call[c], passed)
<1>1. passed \in BOOLEAN /\ call[c].step = "verify"
  BY OneCallBefore DEF ProbePassed, CommandPassed, IsProbeKillExit, ChildFits, Close, Children
<1>2. passed /\ call[c].command # Start => exit[c][call[c].command] = "passed"
  BY OneCallBefore DEF Probing, CommandPassed, ChildFits, Close
<1>3. passed \/ call[c].command # Start => exit[c][Start] # "failed"
  BY <1>1, OneCallBefore DEF Probing, ProbePassed, IsProbeKillExit, ChildFits, Close
<1>4. s \in CallStates /\ Fits(s, exit[c])
  <2> HIDE DEF passed
  <2> QED BY <1>1, <1>2, <1>3, OneCallBefore, ContinuedFits
<1>5. s.step = "verify" => exit[c][Start] # "failed"
  <2> HIDE DEF passed
  <2> QED BY <1>1, <1>3, OneCallBefore, ContinuedStep
<1>6. NoChild \in Children BY DEF NoChild, Children, Codes
<1>7. ChildFits(s, NoChild, exit[c])
  <2> HIDE DEF s
  <2> QED BY <1>5 DEF ChildFits, NoChild
<1>8. call' = [call EXCEPT ![c] = s] BY DEF Close
<1> HIDE DEF s, passed
<1> QED BY <1>4, <1>6, <1>7, <1>8, OneCallBefore, OneCall DEF Close

LEMMA AnswerStep ==
  ASSUME IInv, NEW c \in Calls, Promote(c) \/ CleanUp(c)
  PROVE  IInv'
<1>1. PICK step \in {"saved", "clean", "refused"} : call' = [call EXCEPT ![c].step = step]
  BY DEF Promote, CleanUp
<1> DEFINE s == [call[c] EXCEPT !.step = step]
<1>2. call' = [call EXCEPT ![c] = s] /\ call[c].step \in {"promote", "clean"}
  BY <1>1, OneCallBefore DEF Promote, CleanUp
<1>3. run' \in RunStatus /\ workspace' \in BOOLEAN
  BY OneCallBefore DEF Promote, CleanUp, RunStatus
<1>4. UNCHANGED <<child, exit>> BY DEF Promote, CleanUp
<1>5. s \in CallStates /\ s.step = step /\ s.start = call[c].start
      /\ Required(s) = Required(call[c])
  BY <1>1, OneCallBefore DEF CallStates, Required
<1>6. Fits(s, exit[c]) BY <1>2, <1>5, OneCallBefore DEF Fits, Verified
<1>7. ChildFits(s, child[c], exit[c]) BY <1>2, <1>5, OneCallBefore DEF ChildFits
<1> HIDE DEF s
<1> QED BY <1>2, <1>3, <1>4, <1>5, <1>6, <1>7, OneCallBefore, OneCall

LEMMA NextIInv == IInv /\ [Next]_vars => IInv'
<1> SUFFICES ASSUME IInv, [Next]_vars PROVE IInv' OBVIOUS
<1>1. CASE UNCHANGED vars
  BY <1>1 DEF vars, IInv, TypeOK, CallsFit, ChildrenFit
<1>2. CASE FailRun \/ RemoveWorkspace
  BY <1>2 DEF FailRun, RemoveWorkspace, IInv, TypeOK, RunStatus, CallsFit, ChildrenFit
<1>3. CASE \E c \in Calls, links, start \in BOOLEAN : StartSave(c, links, start)
  BY <1>3, StartSaveStep
<1>4. CASE \E c \in Calls : Step(c) \/ ShellExits(c) \/ HolderEnds(c)
  BY <1>4, SpawnStep, ShellExitsStep, ShellDiesStep, HolderEndsStep, TimerFiresStep,
     GraceEndsStep, CloseStep, AnswerStep DEF Step
<1> QED BY <1>1, <1>2, <1>3, <1>4 DEF Next

LEMMA SpecIInv == Spec => []IInv
<1> QED BY InitIInv, NextIInv, PTL DEF Spec

--------------------------------------------------------------------------------
\* The theorems.

\* The state of the calls (tools.ts:35) and of their processes (verify.ts:79)
\* keeps its types in every order of calls, timers and ends.
THEOREM TypeCorrect == Spec => []TypeOK
<1>1. IInv => TypeOK BY DEF IInv
<1> QED BY <1>1, SpecIInv, PTL

\* No call of save_threadcord_setup_profile reaches promoteRun (tools.ts:64)
\* unless its install, its skills and each of any number of checks passed.
THEOREM SavedIsVerified == Spec => []SavedOnlyVerified
BY SpecIInv, IInvProperties, PTL

================================================================================
