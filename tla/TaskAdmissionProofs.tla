-------------------------- MODULE TaskAdmissionProofs --------------------------
(***************************************************************************)
(* Proofs about TaskAdmission for any requests, follow-ups, deliveries and *)
(* number of faults and crashes.                                           *)
(***************************************************************************)
EXTENDS TaskAdmission, SequenceTheorems, TLAPS

Deliveries == Requests \X Copies
TaskOf(x) == IF x \in Requests THEN x ELSE ThreadOf[x]

--------------------------------------------------------------------------------
\* The invariant.

\* A job is one of a message of its task.
JobsFit == \A m \in Requests : jobs[m] \in Seq(MessagesOf(m))

\* Where only the delivery can be whose insert made the row of the task.
Owning == {"thread", "discard", "status", "attach", "turn", "compensate", "fail",
           "queued", "refused", "unmarked"}
Unpromoted == {"thread", "discard", "status", "attach"}
Unsent == Unpromoted \cup {"turn"}

\* The unique column of createDraft gives a task one owner.
OneOwner == \A i, j \in Deliveries :
  i[1] = j[1] /\ admit[i] \in Owning /\ admit[j] \in Owning => i = j

Untouched == \A m \in Requests : Status(m) = "none" =>
  /\ threads[m] = 0 /\ sent[m] = 0 /\ m \notin late
  /\ \A i \in Deliveries : i[1] = m => admit[i] \notin Owning

\* What the owner finds on its way to the transaction.
OwnersFit == \A i \in Deliveries :
  /\ admit[i] = "thread" => threads[i[1]] = 0
  /\ admit[i] \in Unpromoted => Status(i[1]) \in {"draft", "failed"}
  /\ admit[i] \in Unsent => sent[i[1]] = 0 /\ i[1] \notin late

\* A row comes with its job and, once deleted, has no delivery that could
\* insert it again.
RowsFit ==
  /\ \A x \in Messages : turns[x] # "none" => sent[x] = 1
  /\ \A i \in FollowUps \X Copies :
       sent[i[1]] = 1 /\ turns[i[1]] = "none" => intake[i] = "done"

\* What the compensation relies on: a row it does not find was not committed
\* before, and a task that is still queued has not run.
CompensationFits == \A i \in Deliveries :
  /\ admit[i] = "compensate" /\ sent[i[1]] = 1 => turns[i[1]] # "none"
  /\ admit[i] = "fail" /\ sent[i[1]] = 1 => i[1] \in late
  /\ admit[i] \in {"turn", "compensate", "fail"} =>
       /\ Status(i[1]) = "queued" => turns[i[1]] \in {"none", "queued"}
       /\ Status(i[1]) = "running" => i[1] \in working

\* The running turn of a task is the head of its jobs.
RunningFits ==
  /\ \A x \in Messages : turns[x] = "running" =>
       /\ Status(TaskOf(x)) = "running"
       /\ jobs[TaskOf(x)] # <<>> /\ Head(jobs[TaskOf(x)]) = x
  /\ \A m \in working : jobs[m] # <<>> /\ turns[Head(jobs[m])] = "running"

ListedEnded == \A m \in listed : Status(m) \in Terminal

IInv ==
  /\ TypeOK /\ JobsFit
  /\ OneOwner /\ Untouched /\ OwnersFit
  /\ NothingTwice /\ RowsFit /\ CompensationFits /\ RunningFits
  /\ AnswerIsTrue /\ ListedEnded /\ WorkspaceKept
--------------------------------------------------------------------------------
\* Messages and tasks.

LEMMA TaskOfMessage ==
  /\ \A x \in Messages : TaskOf(x) \in Requests
  /\ \A m \in Requests : TaskOf(m) = m /\ m \in Messages
  /\ \A f \in FollowUps : f \in Messages /\ f \notin Requests /\ TaskOf(f) = ThreadOf[f]
  /\ \A m \in Requests, x \in Messages : x \in MessagesOf(m) <=> TaskOf(x) = m
  /\ \A m \in Requests : MessagesOf(m) \subseteq Messages
BY AdmissionAssumption DEF TaskOf, Messages, MessagesOf

LEMMA InitInv == Init => IInv
<1> SUFFICES ASSUME Init PROVE IInv OBVIOUS
<1>1. TypeOK
  BY AdmissionAssumption DEF Init, TypeOK, TaskStatus, TurnStatus, AdmitSteps, IntakeSteps, Status
<1>2. JobsFit
  BY DEF Init, JobsFit
<1>3. \A i \in Deliveries : i[1] \in Requests /\ admit[i] = "new"
  BY DEF Init, Deliveries
<1>4. OneOwner /\ Untouched /\ OwnersFit
  BY <1>3 DEF Init, OneOwner, Untouched, OwnersFit, Owning, Unpromoted, Unsent, Messages
<1>5. \A i \in FollowUps \X Copies : i[1] \in Messages
  BY DEF Messages
<1>6. NothingTwice /\ RowsFit /\ CompensationFits
  BY <1>3, <1>5 DEF Init, NothingTwice, RowsFit, CompensationFits
<1>7. RunningFits /\ AnswerIsTrue /\ ListedEnded /\ WorkspaceKept
  BY DEF Init, RunningFits, AnswerIsTrue, ListedEnded, WorkspaceKept, Status
<1>8. QED
  BY <1>1, <1>2, <1>4, <1>6, <1>7 DEF IInv

--------------------------------------------------------------------------------
\* The admission: steps that only move one delivery.

\* May delivery i stand at this step, as the rest of the state is?
StepFits(i, step) ==
  /\ step \in AdmitSteps
  /\ step \in Owning => admit[i] \in Owning
  /\ step # "thread"
  /\ step \in Unpromoted => Status(i[1]) \in {"draft", "failed"}
  /\ step \in Unsent => sent[i[1]] = 0 /\ i[1] \notin late
  /\ step = "compensate" /\ sent[i[1]] = 1 => turns[i[1]] # "none"
  /\ step = "fail" /\ sent[i[1]] = 1 => i[1] \in late
  /\ step \in {"turn", "compensate", "fail"} =>
       admit[i] \in {"turn", "compensate", "fail"}
  /\ step = "queued" => sent[i[1]] = 1
  /\ step # "refused"

LEMMA MoveInv ==
  ASSUME IInv, NEW i \in Deliveries, NEW step, StepFits(i, step), Goto(i, step),
         faults' \in 0..MaxFaults,
         UNCHANGED <<tasks, queue, late, workspaces, intake, working, listed, boot, threads,
                     crashes>>
  PROVE  IInv'
<1> USE DEF queue
<1>1. \A j \in Deliveries : admit'[j] = IF j = i THEN step ELSE admit[j]
  BY DEF IInv, TypeOK, Goto, Deliveries
<1>2. TypeOK'
  BY DEF IInv, TypeOK, Goto, StepFits, Deliveries, Status
<1>3. JobsFit' /\ NothingTwice' /\ RowsFit' /\ RunningFits' /\ ListedEnded' /\ WorkspaceKept'
  BY DEF IInv, JobsFit, NothingTwice, RowsFit, RunningFits, ListedEnded, WorkspaceKept, Status
<1>4. OneOwner'
  BY <1>1 DEF IInv, OneOwner, StepFits
<1>5. Untouched' /\ OwnersFit'
  BY <1>1 DEF IInv, Untouched, OwnersFit, StepFits, Status
<1>6. CompensationFits'
  BY <1>1 DEF IInv, CompensationFits, StepFits, Status
<1>7. AnswerIsTrue'
  BY <1>1 DEF IInv, AnswerIsTrue, StepFits, Status, Deliveries
<1>8. QED
  BY <1>2, <1>3, <1>4, <1>5, <1>6, <1>7 DEF IInv

LEMMA ReceiveStep ==
  ASSUME IInv, NEW i \in Deliveries, Receive(i) \/ CheckRequest(i) \/ Submit(i)
  PROVE  IInv'
<1> DEFINE moved(step) ==
      /\ Goto(i, step)
      /\ UNCHANGED <<tasks, queue, late, workspaces, intake, working, listed, boot, threads,
                     faults, crashes>>
<1>1. \E step \in {"profile", "rejected", "submit", "draft"} : moved(step)
  BY DEF Receive, CheckRequest, Submit
<1>2. PICK step \in {"profile", "rejected", "submit", "draft"} : moved(step)
  BY <1>1
<1>3. StepFits(i, step)
  BY DEF StepFits, AdmitSteps, Answers, Owning, Unsent, Unpromoted
<1>4. faults' \in 0..MaxFaults
  BY <1>2 DEF IInv, TypeOK
<1>5. QED
  BY <1>2, <1>3, <1>4, MoveInv

LEMMA FaultBound ==
  ASSUME IInv, Fault \/ UNCHANGED faults
  PROVE  faults' \in 0..MaxFaults
BY AdmissionAssumption DEF IInv, TypeOK, Fault

LEMMA PostStatusStep ==
  ASSUME IInv, NEW i \in Deliveries, PostStatus(i)
  PROVE  IInv'
<1>1. PICK step \in {"attach", "discard"} : Goto(i, step) /\ (Fault \/ UNCHANGED faults)
  BY DEF PostStatus
<1>2. StepFits(i, step)
  BY DEF PostStatus, At, StepFits, IInv, OwnersFit, AdmitSteps, Answers, Owning, Unsent, Unpromoted
<1>3. QED
  BY <1>1, <1>2, FaultBound, MoveInv DEF PostStatus

LEMMA CompensateStep ==
  ASSUME IInv, NEW i \in Deliveries, Compensate(i)
  PROVE  IInv'
<1> DEFINE answer == IF turns[i[1]] = "none" THEN "fail" ELSE "queued"
<1>1. PICK step \in {answer, "lost"} : Goto(i, step) /\ (Fault \/ UNCHANGED faults)
  BY DEF Compensate
<1>2. i[1] \in Messages
  BY DEF Deliveries, Messages
<1>3. StepFits(i, step)
  BY <1>2 DEF Compensate, At, StepFits, IInv, CompensationFits, RowsFit, AdmitSteps, Answers,
              Owning, Unsent, Unpromoted
<1>4. QED
  BY <1>1, <1>3, FaultBound, MoveInv DEF Compensate
--------------------------------------------------------------------------------
\* The rows of tasks.

TasksFit ==
  /\ tasks \in [Requests -> [status : TaskStatus, attached : BOOLEAN]]
  /\ \A m \in Requests :
       IF tasks[m].attached THEN Status(m) \notin {"none", "draft"}
                            ELSE Status(m) \in {"none", "draft", "failed"}

\* A status that agrees with the thread of the task.
LEMMA StatusUpdate ==
  ASSUME TasksFit, NEW m \in Requests, NEW status \in TaskStatus,
         IF tasks[m].attached THEN status \notin {"none", "draft"}
                              ELSE status \in {"none", "draft", "failed"},
         tasks' = [tasks EXCEPT ![m].status = status]
  PROVE  /\ TasksFit'
         /\ \A n \in Requests : Status(n)' = IF n = m THEN status ELSE Status(n)
         /\ \A n \in Requests : tasks'[n].attached = tasks[n].attached
<1>1. tasks[m] \in [status : TaskStatus, attached : BOOLEAN]
  BY DEF TasksFit
<1>2. [tasks[m] EXCEPT !.status = status] \in [status : TaskStatus, attached : BOOLEAN]
  BY <1>1
<1>3. \A n \in Requests : tasks'[n] = IF n = m THEN [tasks[m] EXCEPT !.status = status] ELSE tasks[n]
  BY DEF TasksFit
<1>4. tasks' \in [Requests -> [status : TaskStatus, attached : BOOLEAN]]
  BY <1>2 DEF TasksFit
<1>5. \A n \in Requests :
        /\ Status(n)' = IF n = m THEN status ELSE Status(n)
        /\ tasks'[n].attached = tasks[n].attached
  BY <1>1, <1>3 DEF Status
<1>6. TasksFit'
  BY <1>4, <1>5 DEF TasksFit
<1>7. QED
  BY <1>5, <1>6

--------------------------------------------------------------------------------
\* The admission: steps that write.

\* Where the deliveries are after one of them moved.
LEMMA Moved ==
  ASSUME IInv, NEW i \in Deliveries, NEW step \in AdmitSteps, Goto(i, step)
  PROVE  /\ admit' \in [Deliveries -> AdmitSteps]
         /\ \A j \in Deliveries : admit'[j] = IF j = i THEN step ELSE admit[j]
         /\ i[1] \in Requests /\ i[1] \in Messages
BY DEF IInv, TypeOK, Goto, Deliveries, Messages

LEMMA CreateDraftStep ==
  ASSUME IInv, NEW i \in Deliveries, CreateDraft(i)
  PROVE  IInv'
<1> DEFINE m == i[1]
<1> USE DEF queue
<1>1. CASE Status(m) = "none"
  <2>1. Goto(i, "thread") /\ tasks' = [tasks EXCEPT ![m].status = "draft"]
    BY <1>1 DEF CreateDraft, Transition
  <2>2. /\ m \in Requests
        /\ \A j \in Deliveries : admit'[j] = IF j = i THEN "thread" ELSE admit[j]
        /\ admit' \in [Deliveries -> AdmitSteps]
    BY <2>1, Moved DEF AdmitSteps
  <2>3. TasksFit' /\ \A n \in Requests : Status(n)' = IF n = m THEN "draft" ELSE Status(n)
    <3>1. TasksFit /\ ~tasks[m].attached
      BY <1>1, <2>2 DEF IInv, TypeOK, TasksFit
    <3>2. QED
      BY <2>1, <2>2, <3>1, StatusUpdate DEF TaskStatus
  <2>4. TypeOK' /\ JobsFit'
    BY <2>2, <2>3 DEF CreateDraft, IInv, TypeOK, TasksFit, JobsFit, Deliveries
  <2>5. OneOwner'
    BY <1>1, <2>2 DEF IInv, OneOwner, Untouched
  <2>6. Untouched' /\ OwnersFit'
    BY <1>1, <2>2, <2>3
       DEF CreateDraft, IInv, Untouched, OwnersFit, Owning, Unsent, Unpromoted, Deliveries
  <2>7. NothingTwice' /\ RowsFit' /\ CompensationFits'
    BY <1>1, <2>2, <2>3
       DEF CreateDraft, IInv, NothingTwice, RowsFit, CompensationFits, Deliveries
  <2>8. RunningFits'
    BY <1>1, <2>3, TaskOfMessage DEF CreateDraft, IInv, RunningFits
  <2>9. AnswerIsTrue'
    BY <1>1, <2>2, <2>3 DEF CreateDraft, IInv, AnswerIsTrue, Untouched, Deliveries, Owning
  <2>10. ListedEnded' /\ WorkspaceKept'
    BY <1>1, <2>2, <2>3 DEF CreateDraft, IInv, TypeOK, ListedEnded, WorkspaceKept, Terminal
  <2>11. QED
    BY <2>4, <2>5, <2>6, <2>7, <2>8, <2>9, <2>10 DEF IInv
<1>2. CASE Status(m) # "none"
  <2>1. Goto(i, "rejected") /\ UNCHANGED <<tasks, faults>>
    BY <1>2 DEF CreateDraft, Transition
  <2>2. StepFits(i, "rejected")
    BY DEF StepFits, AdmitSteps, Answers, Owning, Unsent, Unpromoted
  <2>3. QED
    BY <2>1, <2>2, FaultBound, MoveInv DEF CreateDraft
<1>3. QED
  BY <1>1, <1>2

LEMMA CreateThreadStep ==
  ASSUME IInv, NEW i \in Deliveries, CreateThread(i)
  PROVE  IInv'
<1> DEFINE m == i[1]
<1> USE DEF queue
<1>1. CASE threads' = [threads EXCEPT ![m] = @ + 1] /\ Goto(i, "status") /\ UNCHANGED faults
  <2>1. /\ m \in Requests
        /\ \A j \in Deliveries : admit'[j] = IF j = i THEN "status" ELSE admit[j]
        /\ admit' \in [Deliveries -> AdmitSteps]
    BY <1>1, Moved DEF AdmitSteps
  <2>2. admit[i] = "thread" /\ threads[m] = 0 /\ Status(m) \in {"draft", "failed"}
    BY DEF CreateThread, At, IInv, OwnersFit, Unpromoted
  <2>3. threads' \in [Requests -> Nat] /\ \A n \in Requests : threads'[n] = IF n = m THEN 1 ELSE threads[n]
    BY <1>1, <2>1, <2>2 DEF IInv, TypeOK
  <2>4. TypeOK' /\ JobsFit'
    BY <1>1, <2>1, <2>3 DEF CreateThread, IInv, TypeOK, JobsFit, Status, Deliveries
  <2>5. OneOwner'
    BY <2>1, <2>2 DEF IInv, OneOwner, Owning
  <2>6. \A j \in Deliveries : admit[j] = "thread" /\ j[1] = m => j = i
    BY <2>2 DEF IInv, OneOwner, Owning
  <2>7. Untouched' /\ OwnersFit'
    BY <2>1, <2>2, <2>3, <2>6
       DEF CreateThread, IInv, Untouched, OwnersFit, Unsent, Unpromoted, Owning, Status, Deliveries
  <2>8. NothingTwice' /\ RowsFit' /\ CompensationFits'
    BY <2>1, <2>3 DEF CreateThread, IInv, NothingTwice, RowsFit, CompensationFits, Status
  <2>9. RunningFits' /\ AnswerIsTrue' /\ ListedEnded' /\ WorkspaceKept'
    BY <2>1 DEF CreateThread, IInv, RunningFits, AnswerIsTrue, ListedEnded, WorkspaceKept, Status,
                Deliveries
  <2>10. QED
    BY <2>4, <2>5, <2>7, <2>8, <2>9 DEF IInv
<1>2. CASE Fault /\ Goto(i, "discard") /\ UNCHANGED threads
  <2>1. StepFits(i, "discard")
    BY DEF CreateThread, At, StepFits, IInv, OwnersFit, AdmitSteps, Answers, Owning, Unsent, Unpromoted
  <2>2. QED
    BY <1>2, <2>1, FaultBound, MoveInv DEF CreateThread
<1>3. QED
  BY <1>1, <1>2 DEF CreateThread
\* A statement that fails a draft or a queued task, and the answer.
LEMMA FailInv ==
  ASSUME IInv, NEW i \in Deliveries, NEW step \in {"refused", "unmarked"},
         NEW from \in {"draft", "queued"}, Goto(i, step),
         admit[i] \in Owning, faults' = faults,
         tasks' = Transition(i[1], {from}, "failed"),
         step = "refused" =>
           /\ Status(i[1]) \in {from} \cup Terminal
           /\ turns[i[1]] \in {"none", "queued", "cancelled"}
           /\ sent[i[1]] = 1 => i[1] \in late,
         UNCHANGED <<queue, late, workspaces, intake, working, listed, boot, threads, crashes>>
  PROVE  IInv'
<1> DEFINE m == i[1]
<1> USE DEF queue
<1>1. /\ m \in Requests /\ m \in Messages
      /\ \A j \in Deliveries : admit'[j] = IF j = i THEN step ELSE admit[j]
      /\ admit' \in [Deliveries -> AdmitSteps]
  BY Moved DEF AdmitSteps, Answers
<1>2. TasksFit' /\ \A n \in Requests :
        Status(n)' = IF n = m /\ Status(m) = from THEN "failed" ELSE Status(n)
  <2>1. TasksFit
    BY DEF IInv, TypeOK, TasksFit
  <2>2. CASE Status(m) = from
    BY <1>1, <2>1, <2>2, StatusUpdate DEF Transition, TaskStatus, Terminal
  <2>3. CASE Status(m) # from
    <3>1. tasks' = tasks
      BY <2>3 DEF Transition
    <3>2. QED
      BY <2>1, <2>3, <3>1 DEF TasksFit, Status
  <2>4. QED
    BY <2>2, <2>3
<1>3. TypeOK' /\ JobsFit'
  BY <1>1, <1>2 DEF IInv, TypeOK, TasksFit, JobsFit, Deliveries
<1>4. OneOwner'
  BY <1>1 DEF IInv, OneOwner
<1>5. Untouched' /\ OwnersFit'
  BY <1>1, <1>2 DEF IInv, Untouched, OwnersFit, Owning, Unsent, Unpromoted, Deliveries
<1>6. NothingTwice' /\ RowsFit'
  BY DEF IInv, NothingTwice, RowsFit
<1>7. CompensationFits'
  BY <1>1, <1>2 DEF IInv, CompensationFits, Deliveries
<1>8. RunningFits'
  BY <1>2, TaskOfMessage DEF IInv, RunningFits
<1>9. AnswerIsTrue'
  BY <1>1, <1>2 DEF IInv, AnswerIsTrue, Deliveries, Terminal
<1>10. ListedEnded' /\ WorkspaceKept'
  BY <1>2 DEF IInv, TypeOK, ListedEnded, WorkspaceKept, Terminal
<1>11. QED
  BY <1>3, <1>4, <1>5, <1>6, <1>7, <1>8, <1>9, <1>10 DEF IInv

LEMMA MarkDraftFailedStep ==
  ASSUME IInv, NEW i \in Deliveries, MarkDraftFailed(i)
  PROVE  IInv'
<1>1. /\ admit[i] = "discard" /\ i[1] \in Messages
      /\ Status(i[1]) \in {"draft", "failed"} /\ sent[i[1]] = 0 /\ turns[i[1]] = "none"
  BY DEF MarkDraftFailed, At, IInv, OwnersFit, RowsFit, Unsent, Unpromoted, Deliveries, Messages
<1>2. CASE tasks' = Transition(i[1], {"draft"}, "failed") /\ Goto(i, "refused") /\ UNCHANGED faults
  BY <1>1, <1>2, FailInv DEF MarkDraftFailed, Owning, Terminal
<1>3. CASE Fault /\ Goto(i, "lost") /\ UNCHANGED tasks
  <2>1. StepFits(i, "lost")
    BY DEF StepFits, AdmitSteps, Answers, Owning, Unsent, Unpromoted
  <2>2. QED
    BY <1>3, <2>1, FaultBound, MoveInv DEF MarkDraftFailed
<1>4. QED
  BY <1>2, <1>3 DEF MarkDraftFailed

LEMMA FailAdmittedStep ==
  ASSUME IInv, NEW i \in Deliveries, FailAdmitted(i)
  PROVE  IInv'
<1>1. admit[i] = "fail" /\ (sent[i[1]] = 1 => i[1] \in late)
  BY DEF FailAdmitted, At, IInv, CompensationFits
<1>2. Status(i[1]) = "queued" => turns[i[1]] \in {"none", "queued"}
  BY <1>1 DEF IInv, CompensationFits
<1>3. CASE Fault /\ Goto(i, "lost") /\ UNCHANGED tasks
  <2>1. StepFits(i, "lost")
    BY DEF StepFits, AdmitSteps, Answers, Owning, Unsent, Unpromoted
  <2>2. QED
    BY <1>3, <2>1, FaultBound, MoveInv DEF FailAdmitted
<1> DEFINE answer == IF Status(i[1]) = "queued" THEN "refused" ELSE "unmarked"
<1>4. CASE /\ tasks' = Transition(i[1], {"queued"}, "failed")
           /\ Goto(i, answer) /\ UNCHANGED faults
  <2>1. answer \in {"refused", "unmarked"} /\ (answer = "refused" => Status(i[1]) = "queued")
    OBVIOUS
  <2>2. QED
    <3> HIDE DEF answer
    <3> QED BY <1>1, <1>2, <1>4, <2>1, FailInv DEF FailAdmitted, Owning
<1>5. QED
  BY <1>3, <1>4 DEF FailAdmitted

LEMMA AttachStep ==
  ASSUME IInv, NEW i \in Deliveries, Attach(i)
  PROVE  IInv'
<1> DEFINE m == i[1]
<1> USE DEF queue
<1>1. /\ admit[i] = "attach" /\ m \in Requests /\ m \in Messages
      /\ Status(m) \in {"draft", "failed"} /\ sent[m] = 0 /\ m \notin late /\ turns[m] = "none"
  BY DEF Attach, At, IInv, OwnersFit, RowsFit, Unsent, Unpromoted, Deliveries, Messages
<1>2. CASE Status(m) # "draft"
  <2>1. tasks' = Transition(m, {"draft"}, "failed") /\ Goto(i, "refused")
    BY <1>2 DEF Attach, Transition
  <2>2. QED
    BY <1>1, <2>1, FailInv DEF Attach, Owning, Terminal
<1>3. CASE Status(m) = "draft"
  <2>1. Goto(i, "turn") /\ tasks' = [tasks EXCEPT ![m] = [status |-> "queued", attached |-> TRUE]]
    BY <1>3 DEF Attach
  <2>2. /\ \A j \in Deliveries : admit'[j] = IF j = i THEN "turn" ELSE admit[j]
        /\ admit' \in [Deliveries -> AdmitSteps]
    BY <2>1, Moved DEF AdmitSteps
  <2>3. \A n \in Requests : tasks'[n] = IF n = m THEN [status |-> "queued", attached |-> TRUE] ELSE tasks[n]
    BY <1>1, <2>1 DEF IInv, TypeOK
  <2>4. \A n \in Requests : Status(n)' = IF n = m THEN "queued" ELSE Status(n)
    BY <2>3 DEF Status
  <2>5. TasksFit'
    BY <1>1, <2>1, <2>3, <2>4 DEF IInv, TypeOK, TasksFit, TaskStatus
  <2>6. TypeOK' /\ JobsFit'
    BY <2>2, <2>5 DEF Attach, IInv, TypeOK, TasksFit, JobsFit, Deliveries
  <2>7. \A j \in Deliveries : j[1] = m /\ admit[j] \in Owning => j = i
    BY <1>1 DEF IInv, OneOwner, Owning
  <2>8. OneOwner'
    BY <1>1, <2>2 DEF IInv, OneOwner, Owning
  <2>9. Untouched' /\ OwnersFit'
    BY <1>1, <2>2, <2>4, <2>7
       DEF Attach, IInv, Untouched, OwnersFit, Owning, Unsent, Unpromoted, Deliveries
  <2>10. NothingTwice' /\ RowsFit'
    BY DEF Attach, IInv, NothingTwice, RowsFit
  <2>11. CompensationFits'
    BY <1>1, <2>2, <2>4, <2>7 DEF Attach, IInv, CompensationFits, Owning, Deliveries
  <2>12. RunningFits'
    BY <1>1, <1>3, <2>4, TaskOfMessage DEF Attach, IInv, RunningFits
  <2>13. AnswerIsTrue'
    BY <1>1, <2>2, <2>4, <2>7 DEF Attach, IInv, AnswerIsTrue, Owning, Deliveries
  <2>14. ListedEnded' /\ WorkspaceKept'
    BY <1>3, <2>4 DEF Attach, IInv, TypeOK, ListedEnded, WorkspaceKept, Terminal
  <2>15. QED
    BY <2>6, <2>8, <2>9, <2>10, <2>11, <2>12, <2>13, <2>14 DEF IInv
<1>4. QED
  BY <1>2, <1>3
--------------------------------------------------------------------------------
\* Rows and jobs.

\* A row of a message that has none, with its job.
LEMMA SendUpdate ==
  ASSUME IInv, NEW x \in Messages, turns[x] = "none", sent[x] = 0,
         InsertTurn(x), SendJob(TaskOf(x), x)
  PROVE  /\ turns' \in [Messages -> TurnStatus] /\ sent' \in [Messages -> Nat]
         /\ \A y \in Messages :
              /\ turns'[y] = IF y = x THEN "queued" ELSE turns[y]
              /\ sent'[y] = IF y = x THEN 1 ELSE sent[y]
         /\ jobs' \in [Requests -> Seq(Messages)] /\ JobsFit'
         /\ RowsFit' <=> \A i \in FollowUps \X Copies :
              sent'[i[1]] = 1 /\ turns'[i[1]] = "none" => intake'[i] = "done"
         /\ \A m \in Requests : jobs[m] # <<>> =>
              jobs'[m] # <<>> /\ Head(jobs'[m]) = Head(jobs[m])
<1> DEFINE m == TaskOf(x)
<1>1. m \in Requests /\ x \in MessagesOf(m)
  BY TaskOfMessage
<1>2. turns' \in [Messages -> TurnStatus] /\ sent' \in [Messages -> Nat]
  BY DEF InsertTurn, SendJob, IInv, TypeOK, TurnStatus
<1>3. \A y \in Messages :
        /\ turns'[y] = IF y = x THEN "queued" ELSE turns[y]
        /\ sent'[y] = IF y = x THEN 1 ELSE sent[y]
  BY DEF InsertTurn, SendJob, IInv, TypeOK
<1>4. \A n \in Requests : jobs'[n] = IF n = m THEN Append(jobs[m], x) ELSE jobs[n]
  BY <1>1 DEF SendJob, IInv, TypeOK
<1>5. jobs' \in [Requests -> Seq(Messages)]
  BY <1>1 DEF SendJob, IInv, TypeOK
<1>6. Append(jobs[m], x) \in Seq(MessagesOf(m))
  BY <1>1 DEF IInv, JobsFit
<1>7. JobsFit'
  BY <1>4, <1>6 DEF IInv, JobsFit
<1>8. \A n \in Requests : jobs[n] # <<>> =>
        jobs'[n] # <<>> /\ Head(jobs'[n]) = Head(jobs[n])
  <2>1. jobs[m] \in Seq(Messages)
    BY <1>1 DEF IInv, TypeOK
  <2>2. jobs[m] # <<>> =>
          Append(jobs[m], x) # <<>> /\ Head(Append(jobs[m], x)) = Head(jobs[m])
    BY <2>1
  <2>3. QED
    BY <1>4, <2>2
<1>9. RowsFit' <=> \A i \in FollowUps \X Copies :
        sent'[i[1]] = 1 /\ turns'[i[1]] = "none" => intake'[i] = "done"
  BY <1>3 DEF IInv, RowsFit
<1>10. QED
  BY <1>2, <1>3, <1>5, <1>7, <1>8, <1>9

\* The initial turn of a request.
LEMMA SendInv ==
  ASSUME IInv, NEW m \in Requests, turns[m] = "none", sent[m] = 0, InsertTurn(m), SendJob(m, m),
         UNCHANGED <<tasks, late, workspaces, intake, working, listed, boot, threads, crashes>>
  PROVE  /\ faults' \in 0..MaxFaults /\ admit' \in [Deliveries -> AdmitSteps] => TypeOK'
         /\ JobsFit' /\ NothingTwice' /\ RowsFit' /\ RunningFits' /\ ListedEnded' /\ WorkspaceKept'
         /\ turns'[m] = "queued" /\ sent'[m] = 1
         /\ \A n \in Requests \ {m} : turns'[n] = turns[n] /\ sent'[n] = sent[n]
<1>1. m \in Messages /\ TaskOf(m) = m
  BY TaskOfMessage
<1>2. /\ turns' \in [Messages -> TurnStatus] /\ sent' \in [Messages -> Nat]
      /\ \A y \in Messages :
           /\ turns'[y] = IF y = m THEN "queued" ELSE turns[y]
           /\ sent'[y] = IF y = m THEN 1 ELSE sent[y]
      /\ jobs' \in [Requests -> Seq(Messages)] /\ JobsFit'
      /\ RowsFit' <=> \A i \in FollowUps \X Copies :
           sent'[i[1]] = 1 /\ turns'[i[1]] = "none" => intake'[i] = "done"
      /\ \A n \in Requests : jobs[n] # <<>> =>
           jobs'[n] # <<>> /\ Head(jobs'[n]) = Head(jobs[n])
  BY <1>1, SendUpdate
<1>3. faults' \in 0..MaxFaults /\ admit' \in [Deliveries -> AdmitSteps] => TypeOK'
  BY <1>2 DEF IInv, TypeOK, Status, Deliveries
<1>4. \A i \in FollowUps \X Copies : i[1] \in Messages /\ i[1] # m
  BY TaskOfMessage
<1>5. NothingTwice' /\ RowsFit'
  <2>1. NothingTwice'
    BY <1>2 DEF IInv, NothingTwice
  <2>2. \A i \in FollowUps \X Copies :
          turns'[i[1]] = turns[i[1]] /\ sent'[i[1]] = sent[i[1]] /\ intake'[i] = intake[i]
    BY <1>2, <1>4
  <2>3. \A i \in FollowUps \X Copies :
          sent'[i[1]] = 1 /\ turns'[i[1]] = "none" => intake'[i] = "done"
    BY <2>2 DEF IInv, RowsFit
  <2>4. QED
    BY <1>2, <2>1, <2>3
<1>6. RunningFits'
  <2>1. \A n \in working : n \in Requests /\ jobs[n] \in Seq(Messages)
    BY DEF IInv, TypeOK
  <2>2. \A n \in working : Head(jobs[n]) \in Messages /\ Head(jobs[n]) # m
    BY <2>1 DEF IInv, RunningFits
  <2>3. \A n \in working : jobs'[n] # <<>> /\ turns'[Head(jobs'[n])] = "running"
    BY <1>2, <2>1, <2>2 DEF IInv, RunningFits
  <2>4. ASSUME NEW x \in Messages, turns'[x] = "running"
        PROVE  /\ Status(TaskOf(x)) = "running"
               /\ jobs'[TaskOf(x)] # <<>> /\ Head(jobs'[TaskOf(x)]) = x
    BY <1>2, <2>4, TaskOfMessage DEF IInv, RunningFits
  <2>5. QED
    BY <2>3, <2>4 DEF RunningFits, Status
<1>7. ListedEnded' /\ WorkspaceKept'
  BY DEF IInv, ListedEnded, WorkspaceKept, Status
<1>8. \A n \in Requests \ {m} : turns'[n] = turns[n] /\ sent'[n] = sent[n]
  BY <1>2, TaskOfMessage
<1>9. QED
  BY <1>1, <1>2, <1>3, <1>5, <1>6, <1>7, <1>8

LEMMA IntakeInitialTurnStep ==
  ASSUME IInv, NEW i \in Deliveries, IntakeInitialTurn(i)
  PROVE  IInv'
<1> DEFINE m == i[1]
<1>1. /\ admit[i] = "turn" /\ m \in Requests /\ m \in Messages
      /\ sent[m] = 0 /\ m \notin late /\ turns[m] = "none"
  BY DEF IntakeInitialTurn, At, IInv, OwnersFit, RowsFit, NothingTwice, Unsent, Deliveries, Messages
<1>2. \A j \in Deliveries : j[1] = m /\ admit[j] \in Owning => j = i
  BY <1>1 DEF IInv, OneOwner, Owning
<1>3. faults' \in 0..MaxFaults
  BY FaultBound DEF IntakeInitialTurn
<1>4. CASE /\ InsertTurn(m) /\ SendJob(m, m) /\ UNCHANGED late
           /\ Goto(i, "queued") \/ Goto(i, "compensate")
  <2>1. PICK step \in {"queued", "compensate"} : Goto(i, step)
    BY <1>4
  <2>2. /\ \A j \in Deliveries : admit'[j] = IF j = i THEN step ELSE admit[j]
        /\ admit' \in [Deliveries -> AdmitSteps]
    BY <2>1, Moved DEF AdmitSteps, Answers
  <2>3. /\ TypeOK'
        /\ JobsFit' /\ NothingTwice' /\ RowsFit' /\ RunningFits' /\ ListedEnded' /\ WorkspaceKept'
        /\ turns'[m] = "queued" /\ sent'[m] = 1
        /\ \A n \in Requests \ {m} : turns'[n] = turns[n] /\ sent'[n] = sent[n]
    BY <1>1, <1>3, <1>4, <2>2, SendInv DEF IntakeInitialTurn
  <2>4. \A j \in Deliveries : j[1] \in Requests
    BY DEF Deliveries
  <2>5. OneOwner'
    BY <1>1, <2>2 DEF IInv, OneOwner, Owning
  <2>6. Untouched' /\ OwnersFit'
    BY <1>1, <1>2, <1>4, <2>2, <2>3, <2>4
       DEF IntakeInitialTurn, IInv, Untouched, OwnersFit, Owning, Unsent, Unpromoted, Status
  <2>7. CompensationFits'
    BY <1>1, <1>2, <1>4, <2>2, <2>3, <2>4 DEF IntakeInitialTurn, IInv, CompensationFits, Owning, Status
  <2>8. AnswerIsTrue'
    BY <1>1, <1>2, <1>4, <2>2, <2>3, <2>4
       DEF IntakeInitialTurn, IInv, AnswerIsTrue, Owning, Status, Deliveries
  <2>9. QED
    BY <2>3, <2>5, <2>6, <2>7, <2>8 DEF IInv
<1>5. CASE Goto(i, "compensate") /\ UNCHANGED <<queue, late>>
  <2>1. StepFits(i, "compensate")
    BY <1>1 DEF StepFits, AdmitSteps, Answers, Owning, Unsent, Unpromoted
  <2>2. QED
    BY <1>3, <1>5, <2>1, MoveInv DEF IntakeInitialTurn
<1>6. CASE Goto(i, "compensate") /\ late' = late \cup {m} /\ UNCHANGED queue
  <2> USE DEF queue
  <2>1. /\ \A j \in Deliveries : admit'[j] = IF j = i THEN "compensate" ELSE admit[j]
        /\ admit' \in [Deliveries -> AdmitSteps]
    BY <1>6, Moved DEF AdmitSteps
  <2>2. Status(m) # "none"
    BY <1>1 DEF IInv, Untouched, Owning
  <2>3. TypeOK' /\ JobsFit'
    BY <1>1, <1>3, <1>6, <2>1 DEF IntakeInitialTurn, IInv, TypeOK, JobsFit, Status, Deliveries
  <2>4. OneOwner'
    BY <1>1, <2>1 DEF IInv, OneOwner, Owning
  <2>5. Untouched' /\ OwnersFit'
    BY <1>1, <1>2, <1>6, <2>1, <2>2
       DEF IntakeInitialTurn, IInv, Untouched, OwnersFit, Owning, Unsent, Unpromoted, Status
  <2>6. NothingTwice' /\ RowsFit' /\ RunningFits' /\ ListedEnded' /\ WorkspaceKept'
    BY <1>6 DEF IntakeInitialTurn, IInv, NothingTwice, RowsFit, RunningFits, ListedEnded, WorkspaceKept,
                Status
  <2>7. CompensationFits'
    BY <1>1, <1>6, <2>1 DEF IntakeInitialTurn, IInv, CompensationFits, Status
  <2>8. AnswerIsTrue'
    BY <1>6, <2>1 DEF IntakeInitialTurn, IInv, AnswerIsTrue, Status, Deliveries
  <2>9. QED
    BY <2>3, <2>4, <2>5, <2>6, <2>7, <2>8 DEF IInv
<1>7. QED
  BY <1>4, <1>5, <1>6 DEF IntakeInitialTurn

LEMMA CommitLateStep ==
  ASSUME IInv, NEW m \in Requests, CommitLate(m)
  PROVE  IInv'
<1> USE DEF memory
<1>1. m \in Messages /\ m \in late /\ sent[m] = 0 /\ turns[m] = "none"
  BY TaskOfMessage DEF CommitLate, IInv, RowsFit
<1>2. admit' \in [Deliveries -> AdmitSteps] /\ faults' \in 0..MaxFaults
  BY DEF CommitLate, IInv, TypeOK, Deliveries
<1>3. /\ TypeOK'
      /\ JobsFit' /\ NothingTwice' /\ RowsFit' /\ RunningFits' /\ ListedEnded' /\ WorkspaceKept'
      /\ turns'[m] = "queued" /\ sent'[m] = 1
      /\ \A n \in Requests \ {m} : turns'[n] = turns[n] /\ sent'[n] = sent[n]
  BY <1>1, <1>2, SendInv DEF CommitLate
<1>4. \A j \in Deliveries : j[1] \in Requests
  BY DEF Deliveries
<1>5. OneOwner' /\ Untouched' /\ OwnersFit'
  BY <1>1, <1>3, <1>4 DEF CommitLate, IInv, OneOwner, Untouched, OwnersFit, Status
<1>6. CompensationFits' /\ AnswerIsTrue'
  BY <1>1, <1>3, <1>4 DEF CommitLate, IInv, CompensationFits, AnswerIsTrue, Status, Deliveries
<1>7. QED
  BY <1>3, <1>5, <1>6 DEF IInv
--------------------------------------------------------------------------------
\* Follow-ups.

LEMMA ReceiveFollowUpStep ==
  ASSUME IInv, NEW i \in FollowUps \X Copies, ReceiveFollowUp(i)
  PROVE  IInv'
<1> USE DEF queue
<1>1. PICK step \in {"turn", "done"} : intake' = [intake EXCEPT ![i] = step]
  BY DEF ReceiveFollowUp
<1>2. /\ intake' \in [FollowUps \X Copies -> IntakeSteps]
      /\ \A j \in FollowUps \X Copies : intake'[j] = IF j = i THEN step ELSE intake[j]
  BY <1>1 DEF IInv, TypeOK, IntakeSteps
<1>3. TypeOK' /\ JobsFit'
  BY <1>2 DEF ReceiveFollowUp, IInv, TypeOK, JobsFit, Status
<1>4. OneOwner' /\ Untouched' /\ OwnersFit' /\ NothingTwice' /\ CompensationFits'
  BY DEF ReceiveFollowUp, IInv, OneOwner, Untouched, OwnersFit, NothingTwice, CompensationFits, Status
<1>5. RowsFit'
  BY <1>2 DEF ReceiveFollowUp, IInv, RowsFit
<1>6. RunningFits' /\ AnswerIsTrue' /\ ListedEnded' /\ WorkspaceKept'
  BY DEF ReceiveFollowUp, IInv, RunningFits, AnswerIsTrue, ListedEnded, WorkspaceKept, Status
<1>7. QED
  BY <1>3, <1>4, <1>5, <1>6 DEF IInv

LEMMA IntakeFollowUpStep ==
  ASSUME IInv, NEW i \in FollowUps \X Copies, IntakeFollowUp(i)
  PROVE  IInv'
<1> DEFINE f == i[1]
<1>1. /\ f \in FollowUps /\ f \in Messages /\ f \notin Requests /\ TaskOf(f) = ThreadOf[f]
      /\ \A j \in FollowUps \X Copies : j[1] \in Messages
      /\ \A m \in Requests : m \in Messages /\ m # f
  BY TaskOfMessage
<1>2. /\ intake' \in [FollowUps \X Copies -> IntakeSteps]
      /\ \A j \in FollowUps \X Copies : intake'[j] = IF j = i THEN "done" ELSE intake[j]
  BY DEF IntakeFollowUp, IInv, TypeOK, IntakeSteps
<1>3. faults' \in 0..MaxFaults
  BY FaultBound DEF IntakeFollowUp
<1>4. CASE turns[f] = "none" /\ InsertTurn(f) /\ SendJob(ThreadOf[f], f)
  <2>1. sent[f] = 0
    BY <1>1, <1>4 DEF IntakeFollowUp, IInv, TypeOK, NothingTwice, RowsFit
  <2>2. /\ turns' \in [Messages -> TurnStatus] /\ sent' \in [Messages -> Nat]
        /\ \A y \in Messages :
             /\ turns'[y] = IF y = f THEN "queued" ELSE turns[y]
             /\ sent'[y] = IF y = f THEN 1 ELSE sent[y]
        /\ jobs' \in [Requests -> Seq(Messages)] /\ JobsFit'
        /\ RowsFit' <=> \A j \in FollowUps \X Copies :
             sent'[j[1]] = 1 /\ turns'[j[1]] = "none" => intake'[j] = "done"
        /\ \A n \in Requests : jobs[n] # <<>> =>
             jobs'[n] # <<>> /\ Head(jobs'[n]) = Head(jobs[n])
    BY <1>1, <1>4, <2>1, SendUpdate
  <2>3. TypeOK'
    BY <1>2, <1>3, <2>2 DEF IntakeFollowUp, IInv, TypeOK, Status
  <2>4. \A m \in Requests : turns'[m] = turns[m] /\ sent'[m] = sent[m]
    BY <1>1, <2>2
  <2>5. \A j \in Deliveries : j[1] \in Requests
    BY DEF Deliveries
  <2>6. OneOwner' /\ Untouched' /\ OwnersFit' /\ CompensationFits'
    BY <2>4, <2>5 DEF IntakeFollowUp, IInv, OneOwner, Untouched, OwnersFit, CompensationFits, Status
  <2>7. NothingTwice'
    BY <2>2 DEF IntakeFollowUp, IInv, NothingTwice
  <2>8. RowsFit'
    <3>1. \A j \in FollowUps \X Copies :
            sent'[j[1]] = 1 /\ turns'[j[1]] = "none" => intake'[j] = "done"
      BY <1>1, <1>2, <2>2 DEF IInv, RowsFit
    <3>2. QED
      BY <2>2, <3>1
  <2>9. RunningFits'
    <3>1. \A n \in working : n \in Requests /\ jobs[n] \in Seq(Messages)
      BY DEF IInv, TypeOK
    <3>2. \A n \in working : Head(jobs[n]) \in Messages /\ Head(jobs[n]) # f
      BY <1>4, <3>1 DEF IInv, RunningFits
    <3>3. \A n \in working : jobs'[n] # <<>> /\ turns'[Head(jobs'[n])] = "running"
      <4>1. \A n \in working : jobs[n] # <<>> /\ turns[Head(jobs[n])] = "running"
        BY DEF IInv, RunningFits
      <4>2. \A n \in working : jobs'[n] # <<>> /\ Head(jobs'[n]) = Head(jobs[n])
        BY <2>2, <3>1, <4>1
      <4>3. \A n \in working : turns'[Head(jobs[n])] = turns[Head(jobs[n])]
        BY <2>2, <3>2
      <4>4. QED
        BY <4>1, <4>2, <4>3
    <3>4. ASSUME NEW x \in Messages, turns'[x] = "running"
          PROVE  /\ Status(TaskOf(x)) = "running"
                 /\ jobs'[TaskOf(x)] # <<>> /\ Head(jobs'[TaskOf(x)]) = x
      BY <2>2, <3>4, TaskOfMessage DEF IInv, RunningFits
    <3>5. QED
      BY <3>3, <3>4 DEF IntakeFollowUp, RunningFits, Status
  <2>10. AnswerIsTrue' /\ ListedEnded' /\ WorkspaceKept'
    BY <2>4, <2>5 DEF IntakeFollowUp, IInv, AnswerIsTrue, ListedEnded, WorkspaceKept, Status, Deliveries
  <2>11. QED
    BY <2>2, <2>3, <2>6, <2>7, <2>8, <2>9, <2>10 DEF IInv
<1>5. CASE UNCHANGED queue
  <2> USE DEF queue
  <2>1. TypeOK' /\ JobsFit'
    BY <1>2, <1>3, <1>5 DEF IntakeFollowUp, IInv, TypeOK, JobsFit, Status
  <2>2. OneOwner' /\ Untouched' /\ OwnersFit' /\ NothingTwice' /\ CompensationFits'
    BY <1>5 DEF IntakeFollowUp, IInv, OneOwner, Untouched, OwnersFit, NothingTwice, CompensationFits, Status
  <2>3. RowsFit'
    BY <1>2, <1>5 DEF IInv, RowsFit
  <2>4. RunningFits' /\ AnswerIsTrue' /\ ListedEnded' /\ WorkspaceKept'
    BY <1>5 DEF IntakeFollowUp, IInv, RunningFits, AnswerIsTrue, ListedEnded, WorkspaceKept, Status
  <2>5. QED
    BY <2>1, <2>2, <2>3, <2>4 DEF IInv
<1>6. QED
  BY <1>4, <1>5 DEF IntakeFollowUp

--------------------------------------------------------------------------------
\* The worker.

\* Of the messages of a task only the head of its jobs can be running.
LEMMA AtHead ==
  ASSUME IInv, NEW m \in Requests, jobs[m] # <<>>
  PROVE  /\ Head(jobs[m]) \in Messages /\ TaskOf(Head(jobs[m])) = m
         /\ Tail(jobs[m]) \in Seq(MessagesOf(m))
         /\ \A x \in Messages : TaskOf(x) = m /\ turns[x] = "running" =>
              x = Head(jobs[m]) /\ Status(m) = "running"
<1>1. jobs[m] \in Seq(MessagesOf(m))
  BY DEF IInv, JobsFit
<1>2. Head(jobs[m]) \in MessagesOf(m) /\ Tail(jobs[m]) \in Seq(MessagesOf(m))
  BY <1>1, HeadTailProperties
<1>3. Head(jobs[m]) \in Messages /\ TaskOf(Head(jobs[m])) = m
  BY <1>2, TaskOfMessage
<1>4. QED
  BY <1>2, <1>3 DEF IInv, RunningFits

\* The head of the jobs leaves, when it is over.
LEMMA TailFits ==
  ASSUME IInv, NEW m \in Requests, jobs[m] # <<>>, jobs' = [jobs EXCEPT ![m] = Tail(@)]
  PROVE  /\ jobs' \in [Requests -> Seq(Messages)] /\ JobsFit'
         /\ \A n \in Requests : n # m => jobs'[n] = jobs[n]
<1>1. Tail(jobs[m]) \in Seq(MessagesOf(m))
  BY AtHead
<1>2. \A n \in Requests : jobs'[n] = IF n = m THEN Tail(jobs[m]) ELSE jobs[n]
  BY DEF IInv, TypeOK
<1>3. Tail(jobs[m]) \in Seq(Messages)
  BY HeadTailProperties DEF IInv, TypeOK
<1>4. jobs' \in [Requests -> Seq(Messages)]
  BY <1>3 DEF IInv, TypeOK
<1>5. JobsFit'
  BY <1>1, <1>2 DEF IInv, JobsFit
<1>6. QED
  BY <1>2, <1>4, <1>5
\* What the steps of the worker and of the controls leave as it is.
LEMMA FrameInv ==
  ASSUME IInv,
         UNCHANGED <<late, admit, intake, threads, sent>>,
         \A n \in Requests : Status(n)' = "none" => Status(n) = "none",
         \A n \in Requests : Status(n) \in {"draft", "failed"} => Status(n)' = Status(n),
         \A x \in Messages : turns[x] = "none" <=> turns'[x] = "none"
  PROVE  OneOwner' /\ Untouched' /\ OwnersFit' /\ NothingTwice' /\ RowsFit'
<1>1. \A i \in Deliveries : i[1] \in Requests
  BY DEF Deliveries
<1>2. \A i \in FollowUps \X Copies : i[1] \in Messages
  BY DEF Messages
<1>3. OneOwner' /\ NothingTwice'
  BY DEF IInv, OneOwner, NothingTwice
<1>4. Untouched'
  BY DEF IInv, Untouched
<1>5. OwnersFit'
  BY <1>1 DEF IInv, OwnersFit
<1>6. RowsFit'
  BY <1>2 DEF IInv, RowsFit
<1>7. QED
  BY <1>3, <1>4, <1>5, <1>6

LEMMA StartTurnStep ==
  ASSUME IInv, NEW m \in Requests, StartTurn(m)
  PROVE  IInv'
<1> DEFINE x == Head(jobs[m])
<1>1. /\ m \in Messages /\ x \in Messages /\ TaskOf(x) = m
      /\ \A y \in Messages : TaskOf(y) = m /\ turns[y] = "running" => y = x /\ Status(m) = "running"
  BY AtHead, TaskOfMessage DEF StartTurn
<1>2. \A i \in Deliveries : i[1] \in Requests /\ i[1] \in Messages /\ (i[1] # m => i[1] # x)
  BY <1>1, TaskOfMessage DEF Deliveries
<1>3. TasksFit
  BY DEF IInv, TypeOK, TasksFit
<1>4. m \notin working /\ jobs[m] # <<>>
  BY DEF StartTurn
<1>5. CASE /\ turns[x] = "queued" /\ Status(m) \in {"queued", "waiting"}
           /\ turns' = [turns EXCEPT ![x] = "running"]
           /\ tasks' = [tasks EXCEPT ![m].status = "running"]
           /\ working' = working \cup {m} /\ workspaces' = workspaces \cup {m}
           /\ UNCHANGED jobs
  <2>1. /\ TasksFit'
        /\ \A n \in Requests : Status(n)' = IF n = m THEN "running" ELSE Status(n)
    <3>1. tasks[m].attached
      BY <1>3, <1>5 DEF TasksFit
    <3>2. QED
      BY <1>3, <1>5, <3>1, StatusUpdate DEF TaskStatus
  <2>2. \A y \in Messages : turns'[y] = IF y = x THEN "running" ELSE turns[y]
    BY <1>1, <1>5 DEF IInv, TypeOK
  <2>3. TypeOK' /\ JobsFit'
    BY <1>1, <1>5, <2>1 DEF StartTurn, IInv, TypeOK, TasksFit, JobsFit, TurnStatus
  <2>4. OneOwner' /\ Untouched' /\ OwnersFit' /\ NothingTwice' /\ RowsFit'
    BY <1>5, <2>1, <2>2, FrameInv DEF StartTurn
  <2>5. CompensationFits'
    <3>1. \A i \in Deliveries : i[1] # m =>
            Status(i[1])' = Status(i[1]) /\ turns'[i[1]] = turns[i[1]] /\ (i[1] \in working' <=> i[1] \in working)
      BY <1>2, <1>5, <2>1, <2>2
    <3>2. Status(m)' = "running" /\ m \in working' /\ (turns[m] # "none" => turns'[m] # "none")
      BY <1>1, <1>5, <2>1, <2>2
    <3>3. QED
      BY <3>1, <3>2 DEF StartTurn, IInv, CompensationFits
  <2>6. RunningFits'
    <3>1. \A n \in working : n \in Requests /\ n # m /\ Head(jobs[n]) \in Messages /\ TaskOf(Head(jobs[n])) = n
      BY <1>4, AtHead DEF IInv, TypeOK, RunningFits
    <3>2. \A n \in working : jobs'[n] # <<>> /\ turns'[Head(jobs'[n])] = "running"
      BY <1>1, <1>5, <2>2, <3>1 DEF IInv, RunningFits
    <3>3. jobs'[m] # <<>> /\ turns'[Head(jobs'[m])] = "running"
      BY <1>1, <1>4, <1>5, <2>2
    <3>4. ASSUME NEW y \in Messages, turns'[y] = "running"
          PROVE  /\ Status(TaskOf(y))' = "running"
                 /\ jobs'[TaskOf(y)] # <<>> /\ Head(jobs'[TaskOf(y)]) = y
      BY <1>1, <1>4, <1>5, <2>1, <2>2, <3>4, TaskOfMessage DEF IInv, RunningFits
    <3>5. QED
      BY <1>5, <3>2, <3>3, <3>4, TaskOfMessage DEF RunningFits, Status
  <2>7. AnswerIsTrue'
    <3>1. \A i \in Deliveries : i[1] # m =>
            Status(i[1])' = Status(i[1]) /\ turns'[i[1]] = turns[i[1]]
      BY <1>2, <2>1, <2>2
    <3>2. \A i \in Deliveries : i[1] = m => admit[i] # "refused"
      BY <1>5 DEF IInv, AnswerIsTrue, Deliveries, Terminal
    <3>3. QED
      BY <3>1, <3>2 DEF StartTurn, IInv, AnswerIsTrue, Deliveries
  <2>8. ListedEnded' /\ WorkspaceKept'
    BY <1>5, <2>1 DEF StartTurn, IInv, TypeOK, ListedEnded, WorkspaceKept, Terminal
  <2>9. QED
    BY <2>3, <2>4, <2>5, <2>6, <2>7, <2>8 DEF IInv
<1>6. CASE /\ turns[x] = "running"
           /\ working' = working \cup {m} /\ workspaces' = workspaces \cup {m}
           /\ UNCHANGED <<tasks, turns, jobs>>
  <2>1. TypeOK' /\ JobsFit'
    BY <1>6 DEF StartTurn, IInv, TypeOK, JobsFit, Status
  <2>2. OneOwner' /\ Untouched' /\ OwnersFit' /\ NothingTwice' /\ RowsFit'
    BY <1>6, FrameInv DEF StartTurn, Status
  <2>3. CompensationFits' /\ AnswerIsTrue'
    BY <1>6 DEF StartTurn, IInv, CompensationFits, AnswerIsTrue, Status
  <2>4. RunningFits'
    BY <1>4, <1>6 DEF StartTurn, IInv, RunningFits, Status
  <2>5. ListedEnded' /\ WorkspaceKept'
    BY <1>6 DEF StartTurn, IInv, ListedEnded, WorkspaceKept, Status
  <2>6. QED
    BY <2>1, <2>2, <2>3, <2>4, <2>5 DEF IInv
<1>7. CASE /\ turns[x] # "running"
           /\ turns' = [turns EXCEPT ![x] = IF @ = "queued" THEN "cancelled" ELSE @]
           /\ turns[x] = "queued" => Status(m) \notin {"queued", "waiting"}
           /\ jobs' = [jobs EXCEPT ![m] = Tail(@)]
           /\ UNCHANGED <<tasks, working, workspaces>>
  <2>1. /\ turns' \in [Messages -> TurnStatus]
        /\ \A y \in Messages : turns'[y] = IF y = x /\ turns[x] = "queued" THEN "cancelled" ELSE turns[y]
    BY <1>1, <1>7 DEF IInv, TypeOK, TurnStatus, Terminal
  <2>2. /\ jobs' \in [Requests -> Seq(Messages)] /\ JobsFit'
        /\ \A n \in Requests : n # m => jobs'[n] = jobs[n]
    BY <1>4, <1>7, TailFits
  <2>3. TypeOK'
    BY <1>7, <2>1, <2>2 DEF StartTurn, IInv, TypeOK, Status
  <2>4. OneOwner' /\ Untouched' /\ OwnersFit' /\ NothingTwice' /\ RowsFit'
    BY <1>7, <2>1, FrameInv DEF StartTurn, Status
  <2>5. CompensationFits' /\ AnswerIsTrue'
    <3>1. \A i \in Deliveries :
            \/ turns'[i[1]] = turns[i[1]]
            \/ /\ turns[i[1]] = "queued" /\ turns'[i[1]] = "cancelled"
               /\ Status(i[1]) \notin {"queued", "waiting"}
      BY <1>2, <1>7, <2>1
    <3>2. CompensationFits'
      BY <1>7, <3>1 DEF StartTurn, IInv, CompensationFits, Status
    <3>3. AnswerIsTrue'
      BY <1>7, <3>1 DEF StartTurn, IInv, AnswerIsTrue, Status, Deliveries
    <3>4. QED
      BY <3>2, <3>3
  <2>6. RunningFits'
    <3>1. \A y \in Messages : turns'[y] = "running" => turns[y] = "running" /\ TaskOf(y) # m
      BY <1>1, <1>7, <2>1
    <3>2. \A n \in working : n \in Requests /\ n # m /\ Head(jobs[n]) \in Messages /\ TaskOf(Head(jobs[n])) = n
      BY <1>4, AtHead DEF IInv, TypeOK, RunningFits
    <3>3. QED
      BY <1>1, <1>7, <2>1, <2>2, <3>1, <3>2, TaskOfMessage DEF IInv, RunningFits, Status
  <2>7. ListedEnded' /\ WorkspaceKept'
    BY <1>7 DEF StartTurn, IInv, ListedEnded, WorkspaceKept, Status
  <2>8. QED
    BY <2>2, <2>3, <2>4, <2>5, <2>6, <2>7 DEF IInv
<1>8. turns[x] \in Terminal \cup {"none"} /\ UNCHANGED turns
        => turns[x] # "queued" /\ turns[x] # "running"
           /\ turns' = [turns EXCEPT ![x] = IF @ = "queued" THEN "cancelled" ELSE @]
  BY <1>1 DEF Terminal, IInv, TypeOK
<1>9. turns[x] = "queued" => [turns EXCEPT ![x] = "cancelled"]
                           = [turns EXCEPT ![x] = IF @ = "queued" THEN "cancelled" ELSE @]
  OBVIOUS
<1>10. QED
  BY <1>5, <1>6, <1>7, <1>8, <1>9 DEF StartTurn

LEMMA EndTurnStep ==
  ASSUME IInv, NEW m \in Requests, EndTurn(m)
  PROVE  IInv'
<1> DEFINE x == Head(jobs[m])
<1>1. m \in working /\ jobs[m] # <<>> /\ turns[x] = "running"
  BY DEF EndTurn, IInv, RunningFits
<1>2. /\ m \in Messages /\ x \in Messages /\ TaskOf(x) = m /\ Status(m) = "running"
      /\ \A y \in Messages : TaskOf(y) = m /\ turns[y] = "running" => y = x
  BY <1>1, AtHead, TaskOfMessage
<1>3. PICK end \in {[turn |-> "completed", task |-> "waiting"], [turn |-> "failed", task |-> "failed"]} :
        /\ turns' = [turns EXCEPT ![Head(jobs[m])] = end.turn]
        /\ tasks' = Transition(m, {"running"}, end.task)
  BY DEF EndTurn
<1>4. end.turn \in {"completed", "failed"} /\ end.task \in {"waiting", "failed"}
  OBVIOUS
<1>5. /\ TasksFit'
      /\ \A n \in Requests : Status(n)' = IF n = m THEN end.task ELSE Status(n)
  <2>1. TasksFit /\ tasks[m].attached
    BY <1>2 DEF IInv, TypeOK, TasksFit
  <2>2. tasks' = [tasks EXCEPT ![m].status = end.task]
    BY <1>2, <1>3 DEF Transition
  <2>3. QED
    BY <1>4, <2>1, <2>2, StatusUpdate DEF TaskStatus, Terminal
<1>6. /\ turns' \in [Messages -> TurnStatus]
      /\ \A y \in Messages : turns'[y] = IF y = x THEN end.turn ELSE turns[y]
  BY <1>2, <1>3, <1>4 DEF IInv, TypeOK, TurnStatus, Terminal
<1>7. /\ jobs' \in [Requests -> Seq(Messages)] /\ JobsFit'
      /\ \A n \in Requests : n # m => jobs'[n] = jobs[n]
  BY <1>1, TailFits DEF EndTurn
<1>8. TypeOK'
  BY <1>5, <1>6, <1>7 DEF EndTurn, IInv, TypeOK, TasksFit
<1>9. OneOwner' /\ Untouched' /\ OwnersFit' /\ NothingTwice' /\ RowsFit'
  BY <1>1, <1>2, <1>4, <1>5, <1>6, FrameInv DEF EndTurn
<1>10. \A i \in Deliveries : i[1] \in Requests /\ i[1] \in Messages
  BY DEF Deliveries, Messages
<1>11. CompensationFits'
  BY <1>1, <1>2, <1>4, <1>5, <1>6, <1>10 DEF EndTurn, IInv, CompensationFits
<1>12. RunningFits'
  <2>1. \A y \in Messages : turns'[y] = "running" => turns[y] = "running" /\ TaskOf(y) # m
    BY <1>2, <1>4, <1>6
  <2>2. \A n \in working' : n \in working /\ n \in Requests /\ n # m
                           /\ Head(jobs[n]) \in Messages /\ TaskOf(Head(jobs[n])) = n
    BY AtHead DEF EndTurn, IInv, TypeOK, RunningFits
  <2>3. \A n \in working' : jobs'[n] # <<>> /\ turns'[Head(jobs'[n])] = "running"
    <3>1. \A n \in working' : jobs'[n] = jobs[n] /\ Head(jobs[n]) # x
      BY <1>2, <1>7, <2>2
    <3>2. \A n \in working' : jobs[n] # <<>> /\ turns[Head(jobs[n])] = "running"
      BY <2>2 DEF IInv, RunningFits
    <3>3. \A n \in working' : turns'[Head(jobs[n])] = turns[Head(jobs[n])]
      BY <1>6, <2>2, <3>1
    <3>4. QED
      BY <3>1, <3>2, <3>3
  <2>4. ASSUME NEW y \in Messages, turns'[y] = "running"
        PROVE  /\ Status(TaskOf(y))' = "running"
               /\ jobs'[TaskOf(y)] # <<>> /\ Head(jobs'[TaskOf(y)]) = y
    BY <1>5, <1>7, <2>1, <2>4, TaskOfMessage DEF IInv, RunningFits
  <2>5. QED
    BY <2>3, <2>4, TaskOfMessage DEF RunningFits, Status
<1>13. AnswerIsTrue'
  BY <1>2, <1>4, <1>5, <1>6, <1>10, TaskOfMessage DEF EndTurn, IInv, AnswerIsTrue, Deliveries, Terminal
<1>14. ListedEnded' /\ WorkspaceKept'
  BY <1>1, <1>2, <1>4, <1>5 DEF EndTurn, IInv, TypeOK, ListedEnded, WorkspaceKept, Terminal
<1>15. QED
  BY <1>7, <1>8, <1>9, <1>11, <1>12, <1>13, <1>14 DEF IInv
LEMMA StopTaskStep ==
  ASSUME IInv, NEW m \in Requests, StopTask(m)
  PROVE  IInv'
<1>1. PICK status \in {"cancelled", "completed"} :
        /\ Status(m) \in {"queued", "waiting", "running"}
        /\ tasks' = [tasks EXCEPT ![m].status = status]
  BY DEF StopTask
<1>2. /\ TasksFit'
      /\ \A n \in Requests : Status(n)' = IF n = m THEN status ELSE Status(n)
  <2>1. TasksFit /\ tasks[m].attached
    BY <1>1 DEF IInv, TypeOK, TasksFit
  <2>2. QED
    BY <1>1, <2>1, StatusUpdate DEF TaskStatus, Terminal
<1>3. /\ turns' \in [Messages -> TurnStatus]
      /\ \A x \in Messages : turns'[x] =
           IF TaskOf(x) = m /\ turns[x] \in {"queued", "running"} THEN "cancelled" ELSE turns[x]
  BY TaskOfMessage DEF StopTask, IInv, TypeOK, TurnStatus, Terminal
<1>4. /\ jobs' \in [Requests -> Seq(Messages)] /\ JobsFit'
      /\ \A n \in Requests : n # m => jobs'[n] = jobs[n]
  BY DEF StopTask, IInv, TypeOK, JobsFit
<1>5. TypeOK'
  BY <1>2, <1>3, <1>4 DEF StopTask, IInv, TypeOK, TasksFit
<1>6. OneOwner' /\ Untouched' /\ OwnersFit' /\ NothingTwice' /\ RowsFit'
  BY <1>1, <1>2, <1>3, FrameInv DEF StopTask
<1>7. \A i \in Deliveries : i[1] \in Requests /\ i[1] \in Messages /\ TaskOf(i[1]) = i[1]
  BY TaskOfMessage DEF Deliveries
<1>8. CompensationFits'
  BY <1>2, <1>3, <1>7 DEF StopTask, IInv, CompensationFits
<1>9. RunningFits'
  <2>1. \A n \in working' : n \in working /\ n \in Requests /\ n # m
                           /\ Head(jobs[n]) \in Messages /\ TaskOf(Head(jobs[n])) = n
    BY AtHead DEF StopTask, IInv, TypeOK, RunningFits
  <2>2. \A n \in working' : jobs'[n] # <<>> /\ turns'[Head(jobs'[n])] = "running"
    BY <1>3, <1>4, <2>1 DEF IInv, RunningFits
  <2>3. ASSUME NEW x \in Messages, turns'[x] = "running"
        PROVE  /\ Status(TaskOf(x))' = "running"
               /\ jobs'[TaskOf(x)] # <<>> /\ Head(jobs'[TaskOf(x)]) = x
    BY <1>2, <1>3, <1>4, <2>3, TaskOfMessage DEF IInv, RunningFits
  <2>4. QED
    BY <2>2, <2>3, TaskOfMessage DEF RunningFits, Status
<1>10. AnswerIsTrue'
  BY <1>2, <1>3, <1>7 DEF StopTask, IInv, AnswerIsTrue, Deliveries, Terminal
<1>11. ListedEnded' /\ WorkspaceKept'
  BY <1>1, <1>2 DEF StopTask, IInv, TypeOK, ListedEnded, WorkspaceKept, Terminal
<1>12. QED
  BY <1>4, <1>5, <1>6, <1>8, <1>9, <1>10, <1>11 DEF IInv

--------------------------------------------------------------------------------
\* Crash, restart and the janitor.

LEMMA CrashStep ==
  ASSUME IInv, Crash
  PROVE  IInv'
<1> USE DEF queue
<1>1. /\ admit' \in [Deliveries -> AdmitSteps]
      /\ \A i \in Deliveries : admit'[i] = IF admit[i] \in Answers \cup {"new"} THEN admit[i] ELSE "lost"
  BY DEF Crash, Lost, IInv, TypeOK, Deliveries, AdmitSteps, Answers
<1>2. /\ intake' \in [FollowUps \X Copies -> IntakeSteps]
      /\ \A i \in FollowUps \X Copies : intake[i] = "done" => intake'[i] = "done"
  BY DEF Crash, Lost, IInv, TypeOK, IntakeSteps
<1>3. crashes' \in 0..MaxCrashes
  BY AdmissionAssumption DEF Crash, IInv, TypeOK
<1>4. TypeOK' /\ JobsFit'
  BY <1>1, <1>2, <1>3 DEF Crash, IInv, TypeOK, JobsFit, Status, Deliveries
<1>5. \A i \in Deliveries :
        /\ admit'[i] \in Owning => admit'[i] = admit[i]
        /\ admit'[i] \notin Unsent \cup {"compensate", "fail"}
  BY <1>1 DEF Owning, Unsent, Unpromoted, Answers
<1>6. OneOwner' /\ Untouched'
  BY <1>5 DEF Crash, IInv, OneOwner, Untouched, Status
<1>7. OwnersFit' /\ CompensationFits'
  BY <1>5 DEF OwnersFit, CompensationFits, Unsent, Unpromoted
<1>8. NothingTwice' /\ RowsFit'
  BY <1>2 DEF Crash, IInv, NothingTwice, RowsFit
<1>9. RunningFits' /\ ListedEnded' /\ WorkspaceKept'
  BY DEF Crash, IInv, RunningFits, ListedEnded, WorkspaceKept, Status
<1>10. AnswerIsTrue'
  BY <1>5 DEF Crash, IInv, AnswerIsTrue, Status, Deliveries, Owning
<1>11. QED
  BY <1>4, <1>6, <1>7, <1>8, <1>9, <1>10 DEF IInv

LEMMA RequeueInterruptedStep ==
  ASSUME IInv, RequeueInterrupted
  PROVE  IInv'
<1>1. faults' \in 0..MaxFaults
  BY FaultBound DEF RequeueInterrupted
<1>2. CASE UNCHANGED <<tasks, turns>>
  <2>1. TypeOK' /\ JobsFit'
    BY <1>1, <1>2 DEF RequeueInterrupted, IInv, TypeOK, JobsFit, Status
  <2>2. OneOwner' /\ Untouched' /\ OwnersFit' /\ NothingTwice' /\ RowsFit'
    BY <1>2, FrameInv DEF RequeueInterrupted, Status
  <2>3. CompensationFits' /\ RunningFits' /\ AnswerIsTrue' /\ ListedEnded' /\ WorkspaceKept'
    BY <1>2 DEF RequeueInterrupted, IInv, CompensationFits, RunningFits, AnswerIsTrue, ListedEnded,
                WorkspaceKept, Status
  <2>4. QED
    BY <2>1, <2>2, <2>3 DEF IInv
<1> DEFINE idle == {m \in Requests : m \notin working}
<1>3. CASE /\ turns' = [x \in Messages |->
                IF turns[x] = "running" /\ \E m \in idle : x \in MessagesOf(m) THEN "queued" ELSE turns[x]]
           /\ tasks' = [m \in Requests |->
                IF Status(m) = "running" /\ m \in idle THEN [tasks[m] EXCEPT !.status = "queued"] ELSE tasks[m]]
  <2>1. \A m \in Requests :
          /\ Status(m)' = IF Status(m) = "running" /\ m \notin working THEN "queued" ELSE Status(m)
          /\ tasks'[m].attached = tasks[m].attached
          /\ tasks'[m] \in [status : TaskStatus, attached : BOOLEAN]
    BY <1>3 DEF IInv, TypeOK, Status, TaskStatus
  <2>2. TasksFit'
    <3>1. tasks' \in [Requests -> [status : TaskStatus, attached : BOOLEAN]]
      BY <1>3, <2>1
    <3>2. QED
      BY <2>1, <3>1 DEF IInv, TypeOK, TasksFit
  <2>3. /\ turns' \in [Messages -> TurnStatus]
        /\ \A x \in Messages : turns'[x] =
             IF turns[x] = "running" /\ TaskOf(x) \notin working THEN "queued" ELSE turns[x]
    <3>1. \A x \in Messages : (\E m \in idle : x \in MessagesOf(m)) <=> TaskOf(x) \notin working
      BY TaskOfMessage
    <3>2. QED
      BY <1>3, <3>1 DEF IInv, TypeOK, TurnStatus
  <2>4. TypeOK' /\ JobsFit'
    BY <1>1, <2>2, <2>3 DEF RequeueInterrupted, IInv, TypeOK, TasksFit, JobsFit
  <2>5. OneOwner' /\ Untouched' /\ OwnersFit' /\ NothingTwice' /\ RowsFit'
    BY <2>1, <2>3, FrameInv DEF RequeueInterrupted
  <2>6. \A i \in Deliveries : i[1] \in Requests /\ i[1] \in Messages /\ TaskOf(i[1]) = i[1]
    BY TaskOfMessage DEF Deliveries
  <2>7. CompensationFits'
    BY <2>1, <2>3, <2>6 DEF RequeueInterrupted, IInv, CompensationFits
  <2>8. RunningFits'
    <3>1. \A n \in working : n \in Requests /\ Head(jobs[n]) \in Messages /\ TaskOf(Head(jobs[n])) = n
      BY AtHead DEF IInv, TypeOK, RunningFits
    <3>2. \A n \in working : jobs'[n] # <<>> /\ turns'[Head(jobs'[n])] = "running"
      BY <2>3, <3>1 DEF RequeueInterrupted, IInv, RunningFits
    <3>3. ASSUME NEW x \in Messages, turns'[x] = "running"
          PROVE  /\ Status(TaskOf(x))' = "running"
                 /\ jobs'[TaskOf(x)] # <<>> /\ Head(jobs'[TaskOf(x)]) = x
      BY <2>1, <2>3, <3>3, TaskOfMessage DEF RequeueInterrupted, IInv, RunningFits
    <3>4. QED
      BY <3>2, <3>3, TaskOfMessage DEF RequeueInterrupted, RunningFits, Status
  <2>9. AnswerIsTrue'
    BY <2>1, <2>3, <2>6 DEF RequeueInterrupted, IInv, AnswerIsTrue, Deliveries, Terminal
  <2>10. ListedEnded' /\ WorkspaceKept'
    BY <2>1 DEF RequeueInterrupted, IInv, TypeOK, ListedEnded, WorkspaceKept, Terminal
  <2>11. QED
    BY <2>4, <2>5, <2>7, <2>8, <2>9, <2>10 DEF IInv
<1>4. QED
  BY <1>2, <1>3 DEF RequeueInterrupted

LEMMA FailAbandonedDraftsStep ==
  ASSUME IInv, FailAbandonedDrafts
  PROVE  IInv'
<1> USE DEF queue
<1>1. \A m \in Requests :
        /\ Status(m)' = IF Status(m) = "draft" THEN "failed" ELSE Status(m)
        /\ tasks'[m].attached = tasks[m].attached
        /\ tasks'[m] \in [status : TaskStatus, attached : BOOLEAN]
  BY DEF FailAbandonedDrafts, IInv, TypeOK, Status, TaskStatus, Terminal
<1>2. TasksFit'
  <2>1. tasks' \in [Requests -> [status : TaskStatus, attached : BOOLEAN]]
    BY <1>1 DEF FailAbandonedDrafts
  <2>2. QED
    BY <1>1, <2>1 DEF IInv, TypeOK, TasksFit
<1>3. TypeOK' /\ JobsFit'
  BY <1>2 DEF FailAbandonedDrafts, IInv, TypeOK, TasksFit, JobsFit
<1>4. OneOwner' /\ Untouched' /\ NothingTwice' /\ RowsFit'
  BY <1>1 DEF FailAbandonedDrafts, IInv, OneOwner, Untouched, NothingTwice, RowsFit
<1>5. \A i \in Deliveries : i[1] \in Requests
  BY DEF Deliveries
<1>6. OwnersFit' /\ CompensationFits'
  BY <1>1, <1>5 DEF FailAbandonedDrafts, IInv, OwnersFit, CompensationFits
<1>7. RunningFits'
  BY <1>1, TaskOfMessage DEF FailAbandonedDrafts, IInv, RunningFits
<1>8. AnswerIsTrue'
  BY <1>1, <1>5 DEF FailAbandonedDrafts, IInv, AnswerIsTrue, Deliveries, Terminal
<1>9. ListedEnded' /\ WorkspaceKept'
  BY <1>1 DEF FailAbandonedDrafts, IInv, TypeOK, ListedEnded, WorkspaceKept, Terminal
<1>10. QED
  BY <1>3, <1>4, <1>6, <1>7, <1>8, <1>9 DEF IInv

LEMMA JanitorStep ==
  ASSUME IInv, ListExpired \/ \E m \in Requests : RemoveWorkspace(m)
  PROVE  IInv'
<1> USE DEF queue
<1>1. /\ UNCHANGED <<tasks, queue, late, admit, intake, working, boot, threads, faults, crashes>>
      /\ workspaces' \subseteq workspaces
  BY DEF ListExpired, RemoveWorkspace
<1>2. listed' \subseteq Requests /\ ListedEnded'
  BY DEF ListExpired, RemoveWorkspace, IInv, TypeOK, ListedEnded, Status
<1>3. \A m \in working : Status(m) = "running"
  BY AtHead DEF IInv, TypeOK, RunningFits
<1>4. WorkspaceKept'
  BY <1>1, <1>3 DEF ListExpired, RemoveWorkspace, IInv, ListedEnded, WorkspaceKept, Status, Terminal
<1>5. TypeOK' /\ JobsFit'
  BY <1>1, <1>2 DEF IInv, TypeOK, JobsFit, Status
<1>6. OneOwner' /\ Untouched' /\ OwnersFit' /\ NothingTwice' /\ RowsFit' /\ CompensationFits'
  BY <1>1 DEF IInv, OneOwner, Untouched, OwnersFit, NothingTwice, RowsFit, CompensationFits, Status
<1>7. RunningFits' /\ AnswerIsTrue'
  BY <1>1 DEF IInv, RunningFits, AnswerIsTrue, Status
<1>8. QED
  BY <1>2, <1>4, <1>5, <1>6, <1>7 DEF IInv

LEMMA DeleteAgedTurnStep ==
  ASSUME IInv, NEW x \in Messages, DeleteAgedTurn(x)
  PROVE  IInv'
<1> USE DEF memory
<1>1. /\ turns[x] \in Terminal /\ Settled(TaskOf(x))
      /\ turns' \in [Messages -> TurnStatus]
      /\ \A y \in Messages : turns'[y] = IF y = x THEN "none" ELSE turns[y]
  BY DEF DeleteAgedTurn, TaskOf, IInv, TypeOK, TurnStatus
<1>2. TypeOK' /\ JobsFit'
  BY <1>1 DEF DeleteAgedTurn, IInv, TypeOK, JobsFit, Status
<1>3. OneOwner' /\ Untouched' /\ OwnersFit' /\ NothingTwice'
  BY DEF DeleteAgedTurn, IInv, OneOwner, Untouched, OwnersFit, NothingTwice, Status
<1>4. \A i \in FollowUps \X Copies : i[1] \in Messages /\ (i[1] = x => intake[i] = "done")
  BY <1>1, TaskOfMessage DEF Settled
<1>5. RowsFit'
  BY <1>1, <1>4 DEF DeleteAgedTurn, IInv, RowsFit
<1>6. \A i \in Deliveries : i[1] \in Messages /\ (i[1] = x => admit[i] \in Answers)
  BY <1>1, TaskOfMessage DEF Settled, Deliveries
<1>7. CompensationFits'
  BY <1>1, <1>6 DEF DeleteAgedTurn, IInv, CompensationFits, Status, Answers
<1>8. RunningFits'
  <2>1. \A n \in working : Head(jobs[n]) \in Messages
    BY AtHead DEF IInv, TypeOK, RunningFits
  <2>2. QED
    BY <1>1, <2>1 DEF DeleteAgedTurn, IInv, RunningFits, Status, Terminal
<1>9. AnswerIsTrue'
  BY <1>1, <1>6 DEF DeleteAgedTurn, IInv, AnswerIsTrue, Status, Deliveries
<1>10. ListedEnded' /\ WorkspaceKept'
  BY DEF DeleteAgedTurn, IInv, ListedEnded, WorkspaceKept, Status
<1>11. QED
  BY <1>2, <1>3, <1>5, <1>7, <1>8, <1>9, <1>10 DEF IInv

--------------------------------------------------------------------------------
\* The theorems.

LEMMA StutterInv ==
  ASSUME IInv, UNCHANGED vars
  PROVE  IInv'
<1>1. TypeOK' /\ JobsFit'
  BY DEF vars, IInv, TypeOK, JobsFit, Status
<1>2. OneOwner' /\ Untouched' /\ OwnersFit' /\ NothingTwice' /\ RowsFit' /\ CompensationFits'
  BY DEF vars, IInv, OneOwner, Untouched, OwnersFit, NothingTwice, RowsFit, CompensationFits, Status
<1>3. RunningFits' /\ AnswerIsTrue' /\ ListedEnded' /\ WorkspaceKept'
  BY DEF vars, IInv, RunningFits, AnswerIsTrue, ListedEnded, WorkspaceKept, Status
<1>4. QED
  BY <1>1, <1>2, <1>3 DEF IInv

LEMMA NextInv ==
  ASSUME IInv, Next
  PROVE  IInv'
<1>1. CASE \E i \in Requests \X Copies : Admit(i)
  <2>1. PICK i \in Deliveries : Admit(i)
    BY <1>1 DEF Deliveries
  <2>2. QED
    BY <2>1, ReceiveStep, CreateDraftStep, CreateThreadStep, PostStatusStep, MarkDraftFailedStep,
       AttachStep, IntakeInitialTurnStep, CompensateStep, FailAdmittedStep DEF Admit
<1>2. CASE \E i \in FollowUps \X Copies : ReceiveFollowUp(i) \/ IntakeFollowUp(i)
  BY <1>2, ReceiveFollowUpStep, IntakeFollowUpStep
<1>3. CASE \E m \in Requests : CommitLate(m) \/ StartTurn(m) \/ EndTurn(m) \/ StopTask(m)
  BY <1>3, CommitLateStep, StartTurnStep, EndTurnStep, StopTaskStep
<1>4. CASE Crash \/ RequeueInterrupted \/ FailAbandonedDrafts
  BY <1>4, CrashStep, RequeueInterruptedStep, FailAbandonedDraftsStep
<1>5. CASE ListExpired \/ \E m \in Requests : RemoveWorkspace(m)
  BY <1>5, JanitorStep
<1>6. CASE \E x \in Messages : DeleteAgedTurn(x)
  BY <1>6, DeleteAgedTurnStep
<1>7. QED
  BY <1>1, <1>2, <1>3, <1>4, <1>5, <1>6 DEF Next

LEMMA Invariant == Spec => []IInv
<1>1. IInv /\ [Next]_vars => IInv'
  BY NextInv, StutterInv
<1>2. QED
  BY InitInv, <1>1, PTL DEF Spec

\* The tables and the handlers of task/orchestrator.ts keep their types, and a
\* thread is attached exactly to the tasks that were promoted (task/store.ts:93-97).
THEOREM TypeCorrect == Spec => []TypeOK
<1>1. IInv => TypeOK
  BY DEF IInv
<1>2. QED
  BY <1>1, Invariant, PTL

\* However often a message is delivered, one thread and one job come of it
\* (task/store.ts:159, task/turn-store.ts:42).
THEOREM OnceOnly == Spec => []NothingTwice
<1>1. IInv => NothingTwice
  BY DEF IInv
<1>2. QED
  BY <1>1, Invariant, PTL

\* What admitTask answers is true, whatever happens to the acknowledgement of
\* its transaction (task/orchestrator.ts:550-581).
THEOREM AnswersAreTrue == Spec => []AnswerIsTrue
<1>1. IInv => AnswerIsTrue
  BY DEF IInv
<1>2. QED
  BY <1>1, Invariant, PTL

\* The janitor takes the workspace of no task that goes on (task/janitor.ts:47).
THEOREM WorkspacesAreKept == Spec => []WorkspaceKept
<1>1. IInv => WorkspaceKept
  BY DEF IInv
<1>2. QED
  BY <1>1, Invariant, PTL

================================================================================
