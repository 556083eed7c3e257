----------------------------- MODULE TaskAdmission -----------------------------
(***************************************************************************)
(* How a request becomes a task and a thread message becomes a turn:       *)
(* handleChannelMessage, startTaskFromSlash, admitTask and                 *)
(* handleThreadMessage of src/task/orchestrator.ts, each message delivered *)
(* more than once, with the statements of src/task/store.ts that create,   *)
(* promote and fail drafts, the drafts that a restart fails while the      *)
(* gateway is open again, and the janitor.                                 *)
(*                                                                         *)
(* A task is named by the message that asked for it and a turn by the      *)
(* message that it carries out: both columns are unique.  The execution of *)
(* turns and the thread controls are one step where TaskTurns has their    *)
(* statements one by one.                                                  *)
(***************************************************************************)
EXTENDS Naturals, Sequences, SequencesExt

CONSTANTS
  Requests,    \* messages of the control channel, or submitted dialogs
  FollowUps,   \* messages in the threads of tasks
  ThreadOf,    \* the task in whose thread a follow-up is written
  Copies,      \* deliveries of a message by Discord
  MaxFaults,   \* bound on statements and calls that fail
  MaxCrashes   \* bound on crashes

ASSUME AdmissionAssumption ==
  /\ Requests \cap FollowUps = {}
  /\ ThreadOf \in [FollowUps -> Requests]
  /\ MaxFaults \in Nat /\ MaxCrashes \in Nat

VARIABLES
  tasks,      \* the rows of tasks: status and discord_thread_id   (database)
  turns,      \* task_turns.status by discord_message_id          (database)
  jobs,       \* the jobs of each task, in order                   (database)
  late,       \* initial turns whose COMMIT was given up too early (database)
  workspaces, \* the directories of tasks                          (disk)
  admit,      \* where each delivery of a request is               (memory)
  intake,     \* where each delivery of a follow-up is             (memory)
  working,    \* tasks with a handler of a turn                    (memory)
  listed,     \* workspaces that the janitor is about to remove    (memory)
  boot,       \* how far the last restart is                       (memory)
  threads,    \* how many threads were created for a request
  sent,       \* jobs that the intake sent for a message
  faults, crashes

vars == <<tasks, turns, jobs, late, workspaces, admit, intake, working, listed, boot,
          threads, sent, faults, crashes>>

Messages == Requests \cup FollowUps
MessagesOf(m) == {m} \cup {f \in FollowUps : ThreadOf[f] = m}
Terminal == {"completed", "failed", "cancelled"}
TaskStatus == Terminal \cup {"none", "draft", "queued", "running", "waiting"}
TurnStatus == Terminal \cup {"none", "queued", "running"}

\* The awaits of a handler, and the answers that end it; "lost" is none.
Answers == {"queued", "rejected", "refused", "unmarked", "lost"}
AdmitSteps == {"new", "profile", "submit", "draft", "thread", "discard", "status", "attach",
               "turn", "compensate", "fail"} \cup Answers
IntakeSteps == {"new", "turn", "done"}

Init ==
  /\ tasks = [m \in Requests |-> [status |-> "none", attached |-> FALSE]]
  /\ turns = [x \in Messages |-> "none"]
  /\ jobs = [m \in Requests |-> <<>>]
  /\ late = {} /\ workspaces = {}
  /\ admit = [i \in Requests \X Copies |-> "new"]
  /\ intake = [i \in FollowUps \X Copies |-> "new"]
  /\ working = {} /\ listed = {} /\ boot = "done"
  /\ threads = [m \in Requests |-> 0]
  /\ sent = [x \in Messages |-> 0]
  /\ faults = 0 /\ crashes = 0

memory == <<admit, intake, working, listed, boot>>
queue == <<turns, jobs, sent>>

Fault == faults < MaxFaults /\ faults' = faults + 1
Status(m) == tasks[m].status
Transition(m, from, to) ==
  IF Status(m) \in from THEN [tasks EXCEPT ![m].status = to] ELSE tasks

At(i, step) == admit[i] = step
Goto(i, step) == admit' = [admit EXCEPT ![i] = step]

--------------------------------------------------------------------------------
\* handleChannelMessage and startTaskFromSlash.

Receive(i) ==
  /\ At(i, "new")
  /\ Goto(i, IF Status(i[1]) = "none" THEN "profile" ELSE "rejected")
  /\ UNCHANGED <<tasks, queue, late, workspaces, intake, working, listed, boot, threads,
                 faults, crashes>>

\* The text, the policy or the profile may be refused.
CheckRequest(i) ==
  /\ At(i, "profile")
  /\ \E step \in {"submit", "rejected"} : Goto(i, step)
  /\ UNCHANGED <<tasks, queue, late, workspaces, intake, working, listed, boot, threads,
                 faults, crashes>>

\* admitTask looks again ...
Submit(i) ==
  /\ At(i, "submit")
  /\ Goto(i, IF Status(i[1]) = "none" THEN "draft" ELSE "rejected")
  /\ UNCHANGED <<tasks, queue, late, workspaces, intake, working, listed, boot, threads,
                 faults, crashes>>

\* Mutant: what the insert returned is not looked at.
CreateDraftUnseen(i) ==
  /\ At(i, "draft")
  /\ Goto(i, "thread")
  /\ tasks' = Transition(i[1], {"none"}, "draft")
  /\ UNCHANGED <<queue, late, workspaces, intake, working, listed, boot, threads,
                 faults, crashes>>

\* ... and of two inserts one wins.
CreateDraft(i) ==
  /\ At(i, "draft")
  /\ Goto(i, IF Status(i[1]) = "none" THEN "thread" ELSE "rejected")
  /\ tasks' = Transition(i[1], {"none"}, "draft")
  /\ UNCHANGED <<queue, late, workspaces, intake, working, listed, boot, threads,
                 faults, crashes>>

CreateThread(i) ==
  /\ At(i, "thread")
  /\ \/ threads' = [threads EXCEPT ![i[1]] = @ + 1] /\ Goto(i, "status") /\ UNCHANGED faults
     \/ Fault /\ Goto(i, "discard") /\ UNCHANGED threads
  /\ UNCHANGED <<tasks, queue, late, workspaces, intake, working, listed, boot, crashes>>

\* The header and the instruction may fail; the status message may not.
PostStatus(i) ==
  /\ At(i, "status")
  /\ \/ Goto(i, "attach") /\ UNCHANGED faults
     \/ Fault /\ Goto(i, "discard")
  /\ UNCHANGED <<tasks, queue, late, workspaces, intake, working, listed, boot, threads,
                 crashes>>

\* markDraftFailed; a statement that throws leaves the draft to the next restart.
MarkDraftFailed(i) ==
  /\ At(i, "discard")
  /\ \/ tasks' = Transition(i[1], {"draft"}, "failed") /\ Goto(i, "refused") /\ UNCHANGED faults
     \/ Fault /\ Goto(i, "lost") /\ UNCHANGED tasks
  /\ UNCHANGED <<queue, late, workspaces, intake, working, listed, boot, threads, crashes>>

\* attachAndPromote: a restart may have failed the draft.
Attach(i) ==
  /\ At(i, "attach")
  /\ IF Status(i[1]) = "draft"
     THEN /\ tasks' = [tasks EXCEPT ![i[1]] = [status |-> "queued", attached |-> TRUE]]
          /\ Goto(i, "turn")
     ELSE Goto(i, "refused") /\ UNCHANGED tasks
  /\ UNCHANGED <<queue, late, workspaces, intake, working, listed, boot, threads, faults, crashes>>

\* Insert the row of a message unless it is there.
InsertTurn(x) == turns' = [turns EXCEPT ![x] = IF @ = "none" THEN "queued" ELSE @]
SendJob(m, x) ==
  /\ jobs' = [jobs EXCEPT ![m] = Append(@, x)]
  /\ sent' = [sent EXCEPT ![x] = @ + 1]

\* The transaction commits; or it commits and nobody hears of it; or it does
\* not, at once or as far as anyone can see.
IntakeInitialTurn(i) ==
  /\ At(i, "turn")
  /\ \/ InsertTurn(i[1]) /\ SendJob(i[1], i[1]) /\ Goto(i, "queued") /\ UNCHANGED <<late, faults>>
     \/ /\ Fault
        /\ Goto(i, "compensate")
        /\ \/ InsertTurn(i[1]) /\ SendJob(i[1], i[1]) /\ UNCHANGED late
           \/ UNCHANGED <<queue, late>>
           \/ late' = late \cup {i[1]} /\ UNCHANGED queue
  /\ UNCHANGED <<tasks, workspaces, intake, working, listed, boot, threads, crashes>>

CommitLate(m) ==
  /\ m \in late /\ sent[m] = 0
  /\ InsertTurn(m) /\ SendJob(m, m)
  /\ UNCHANGED <<tasks, late, workspaces, memory, threads, faults, crashes>>

\* Mutant: an error is taken for a transaction that was rolled back.
CompensateAlways(i) ==
  /\ At(i, "compensate")
  /\ Goto(i, "fail") /\ UNCHANGED faults
  /\ UNCHANGED <<tasks, queue, late, workspaces, intake, working, listed, boot, threads, crashes>>

\* Only a turn that is definitely absent is given up.
Compensate(i) ==
  /\ At(i, "compensate")
  /\ \/ Goto(i, IF turns[i[1]] = "none" THEN "fail" ELSE "queued") /\ UNCHANGED faults
     \/ Fault /\ Goto(i, "lost")
  /\ UNCHANGED <<tasks, queue, late, workspaces, intake, working, listed, boot, threads, crashes>>

\* The answer says whether the task could be failed.
FailAdmitted(i) ==
  /\ At(i, "fail")
  /\ \/ /\ tasks' = Transition(i[1], {"queued"}, "failed")
        /\ Goto(i, IF Status(i[1]) = "queued" THEN "refused" ELSE "unmarked")
        /\ UNCHANGED faults
     \/ Fault /\ Goto(i, "lost") /\ UNCHANGED tasks
  /\ UNCHANGED <<queue, late, workspaces, intake, working, listed, boot, threads, crashes>>

Admit(i) ==
  \/ Receive(i) \/ CheckRequest(i) \/ Submit(i) \/ CreateDraft(i) \/ CreateThread(i)
  \/ PostStatus(i) \/ MarkDraftFailed(i) \/ Attach(i) \/ IntakeInitialTurn(i)
  \/ Compensate(i) \/ FailAdmitted(i)

--------------------------------------------------------------------------------
\* handleThreadMessage: a thread is unknown before it is attached.

ReceiveFollowUp(i) ==
  LET m == ThreadOf[i[1]] IN
  /\ intake[i] = "new" /\ threads[m] > 0
  /\ intake' = [intake EXCEPT ![i] =
       IF tasks[m].attached /\ Status(m) \notin Terminal THEN "turn" ELSE "done"]
  /\ UNCHANGED <<tasks, queue, late, workspaces, admit, working, listed, boot, threads, faults,
                 crashes>>

\* The row and the job, unless the message has a row; or an error, which the
\* gateway logs.
IntakeFollowUp(i) ==
  LET f == i[1] IN
  /\ intake[i] = "turn"
  /\ intake' = [intake EXCEPT ![i] = "done"]
  /\ \/ turns[f] = "none" /\ InsertTurn(f) /\ SendJob(ThreadOf[f], f) /\ UNCHANGED faults
     \/ turns[f] # "none" /\ UNCHANGED <<queue, faults>>
     \/ Fault /\ UNCHANGED queue
  /\ UNCHANGED <<tasks, late, workspaces, admit, working, listed, boot, threads, crashes>>

--------------------------------------------------------------------------------
\* The worker and the controls, coarsely.

\* A turn whose task is neither queued nor waiting is cancelled; the handler
\* of another delivery takes up a running one.
StartTurn(m) ==
  /\ jobs[m] # <<>> /\ m \notin working
  /\ LET x == Head(jobs[m]) IN
     \/ /\ turns[x] = "queued" /\ Status(m) \in {"queued", "waiting"}
        /\ turns' = [turns EXCEPT ![x] = "running"]
        /\ tasks' = [tasks EXCEPT ![m].status = "running"]
        /\ working' = working \cup {m} /\ workspaces' = workspaces \cup {m}
        /\ UNCHANGED jobs
     \/ /\ turns[x] = "running"
        /\ working' = working \cup {m} /\ workspaces' = workspaces \cup {m}
        /\ UNCHANGED <<tasks, turns, jobs>>
     \/ /\ turns[x] = "queued" /\ Status(m) \notin {"queued", "waiting"}
        /\ turns' = [turns EXCEPT ![x] = "cancelled"]
        /\ jobs' = [jobs EXCEPT ![m] = Tail(@)]
        /\ UNCHANGED <<tasks, working, workspaces>>
     \/ /\ turns[x] \in Terminal \cup {"none"}
        /\ jobs' = [jobs EXCEPT ![m] = Tail(@)]
        /\ UNCHANGED <<tasks, turns, working, workspaces>>
  /\ UNCHANGED <<late, admit, intake, listed, boot, threads, sent, faults, crashes>>

EndTurn(m) ==
  /\ m \in working
  /\ \E end \in {[turn |-> "completed", task |-> "waiting"], [turn |-> "failed", task |-> "failed"]} :
       /\ turns' = [turns EXCEPT ![Head(jobs[m])] = end.turn]
       /\ tasks' = Transition(m, {"running"}, end.task)
  /\ jobs' = [jobs EXCEPT ![m] = Tail(@)]
  /\ working' = working \ {m}
  /\ UNCHANGED <<late, workspaces, admit, intake, listed, boot, threads, sent, faults, crashes>>

\* stopTaskWork, and the done command.
StopTask(m) ==
  /\ \/ Status(m) \in {"queued", "waiting", "running"}
        /\ tasks' = [tasks EXCEPT ![m].status = "cancelled"]
     \/ Status(m) \in {"queued", "waiting"}
        /\ tasks' = [tasks EXCEPT ![m].status = "completed"]
  /\ turns' = [x \in Messages |->
       IF x \in MessagesOf(m) /\ turns[x] \in {"queued", "running"} THEN "cancelled" ELSE turns[x]]
  /\ jobs' = [jobs EXCEPT ![m] = <<>>]
  /\ working' = working \ {m}
  /\ UNCHANGED <<late, workspaces, admit, intake, listed, boot, threads, sent, faults, crashes>>

--------------------------------------------------------------------------------
\* Crash and restart.

Lost(pcs, over, answer) ==
  [i \in DOMAIN pcs |-> IF pcs[i] \in over \cup {"new"} THEN pcs[i] ELSE answer]

\* What handlers were about to do is lost; Discord may deliver a message again
\* that was not received yet.
Crash ==
  /\ crashes < MaxCrashes
  /\ crashes' = crashes + 1
  /\ admit' = Lost(admit, Answers, "lost")
  /\ intake' = Lost(intake, {"done"}, "done")
  /\ working' = {} /\ listed' = {}
  /\ boot' = "requeue"
  /\ UNCHANGED <<tasks, queue, late, workspaces, threads, sent, faults>>

\* The first two passes of resumeAfterRestart put interrupted turns back at
\* the head of their queue; an error ends the recovery.
RequeueInterrupted ==
  /\ boot = "requeue"
  /\ \/ /\ boot' = "drafts"
        /\ LET idle == {m \in Requests : m \notin working} IN
           /\ turns' = [x \in Messages |->
                IF turns[x] = "running" /\ \E m \in idle : x \in MessagesOf(m) THEN "queued" ELSE turns[x]]
           /\ tasks' = [m \in Requests |->
                IF Status(m) = "running" /\ m \in idle THEN [tasks[m] EXCEPT !.status = "queued"] ELSE tasks[m]]
        /\ UNCHANGED faults
     \/ Fault /\ boot' = "failed" /\ UNCHANGED <<tasks, turns>>
  /\ UNCHANGED <<jobs, late, workspaces, admit, intake, working, listed, threads, sent, crashes>>

\* Mutant: only drafts that no handler has a thread for.
FailAbandonedDraftsWithoutThread ==
  /\ boot = "drafts"
  /\ boot' = "done"
  /\ tasks' = [m \in Requests |->
       IF Status(m) = "draft" /\ threads[m] = 0 THEN [tasks[m] EXCEPT !.status = "failed"] ELSE tasks[m]]
  /\ UNCHANGED <<queue, late, workspaces, admit, intake, working, listed, threads, faults, crashes>>

\* The third fails every draft, also one that the open gateway just made.
FailAbandonedDrafts ==
  /\ boot = "drafts"
  /\ boot' = "done"
  /\ tasks' = [m \in Requests |->
       IF Status(m) = "draft" THEN [tasks[m] EXCEPT !.status = "failed"] ELSE tasks[m]]
  /\ UNCHANGED <<queue, late, workspaces, admit, intake, working, listed, threads, faults, crashes>>

--------------------------------------------------------------------------------
\* The janitor works days later: no delivery of the messages is under way.
Settled(m) ==
  /\ m \in late => sent[m] = 1
  /\ \A i \in Requests \X Copies : i[1] = m => admit[i] \in Answers
  /\ \A i \in FollowUps \X Copies : ThreadOf[i[1]] = m => intake[i] = "done"

\* Mutant: a waiting task counts as ended.
ListExpiredOrWaiting ==
  /\ listed = {}
  /\ listed' = {m \in workspaces : Settled(m) /\ Status(m) \in Terminal \cup {"waiting"}}
  /\ listed' # {}
  /\ UNCHANGED <<tasks, queue, late, workspaces, admit, intake, working, boot, threads, faults,
                 crashes>>

\* listExpiredWorkspacePaths reads all paths, which are then removed in turn.
ListExpired ==
  /\ listed = {}
  /\ listed' = {m \in workspaces : Settled(m) /\ Status(m) \in Terminal}
  /\ listed' # {}
  /\ UNCHANGED <<tasks, queue, late, workspaces, admit, intake, working, boot, threads, faults,
                 crashes>>

RemoveWorkspace(m) ==
  /\ m \in listed
  /\ workspaces' = workspaces \ {m} /\ listed' = listed \ {m}
  /\ UNCHANGED <<tasks, queue, late, admit, intake, working, boot, threads, faults, crashes>>

\* deleteAgedTerminalTurns, for any task.
DeleteAgedTurn(x) ==
  /\ turns[x] \in Terminal
  /\ Settled(IF x \in Requests THEN x ELSE ThreadOf[x])
  /\ turns' = [turns EXCEPT ![x] = "none"]
  /\ UNCHANGED <<tasks, jobs, sent, late, workspaces, memory, threads, faults, crashes>>

--------------------------------------------------------------------------------
RunTurn(m) == StartTurn(m) \/ EndTurn(m)
Recover == RequeueInterrupted \/ FailAbandonedDrafts

Next ==
  \/ \E i \in Requests \X Copies : Admit(i)
  \/ \E i \in FollowUps \X Copies : ReceiveFollowUp(i) \/ IntakeFollowUp(i)
  \/ \E m \in Requests :
       CommitLate(m) \/ StartTurn(m) \/ EndTurn(m) \/ StopTask(m) \/ RemoveWorkspace(m)
  \/ Crash \/ RequeueInterrupted \/ FailAbandonedDrafts
  \/ ListExpired
  \/ \E x \in Messages : DeleteAgedTurn(x)

Spec == Init /\ [][Next]_vars

\* A handler that received a message goes on, a queue is polled, an agent ends,
\* and a restart runs its recovery.
FairSpec ==
  /\ Spec
  /\ \A i \in Requests \X Copies : WF_vars(Admit(i) /\ ~At(i, "new"))
  /\ \A m \in Requests : WF_vars(RunTurn(m))
  /\ WF_vars(Recover)

--------------------------------------------------------------------------------
\* Properties.

\* A thread is attached to a task exactly when it was promoted; a task that
\* was not ends as failed (the check of store.ts:93-97).
TypeOK ==
  /\ tasks \in [Requests -> [status : TaskStatus, attached : BOOLEAN]]
  /\ \A m \in Requests :
       IF tasks[m].attached THEN Status(m) \notin {"none", "draft"}
                            ELSE Status(m) \in {"none", "draft", "failed"}
  /\ turns \in [Messages -> TurnStatus]
  /\ jobs \in [Requests -> Seq(Messages)]
  /\ late \subseteq Requests /\ workspaces \subseteq Requests
  /\ admit \in [Requests \X Copies -> AdmitSteps]
  /\ intake \in [FollowUps \X Copies -> IntakeSteps]
  /\ working \subseteq Requests /\ listed \subseteq Requests
  /\ boot \in {"done", "requeue", "drafts", "failed"}
  /\ threads \in [Requests -> Nat] /\ sent \in [Messages -> Nat]
  /\ faults \in 0..MaxFaults /\ crashes \in 0..MaxCrashes

\* However often Discord delivers a message and wherever the handlers of its
\* deliveries stand, one thread is made for it and one job is sent
\* (store.ts:159, turn-store.ts:42, orchestrator.ts:667).
NothingTwice ==
  /\ \A m \in Requests : threads[m] <= 1
  /\ \A x \in Messages : sent[x] <= 1

\* A user who reads that the task is queued has one whose initial turn was
\* sent; for one who reads that it is not, nothing was committed then, and the
\* task never runs when the COMMIT comes through later (orchestrator.ts:550-581).
AnswerIsTrue == \A i \in Requests \X Copies :
  /\ admit[i] = "queued" => sent[i[1]] = 1
  /\ admit[i] = "refused" =>
       /\ Status(i[1]) \in Terminal /\ turns[i[1]] \notin {"running", "completed"}
       /\ sent[i[1]] = 1 => i[1] \in late

\* The janitor removes the checkout of no task that can have another turn,
\* which would go on in it (janitor.ts:47, store.ts:390).
WorkspaceKept == \A m \in Requests :
  Status(m) = "waiting" \/ m \in working => m \in workspaces

\* A draft that a restart finds does not stay one, unless the recovery itself
\* fails, and every turn with a job ends.
NothingStuck ==
  /\ \A m \in Requests :
       boot # "done" /\ Status(m) = "draft" ~> Status(m) # "draft" \/ boot = "failed"
  /\ \A x \in Messages : sent[x] > 0 ~> turns[x] \in Terminal \cup {"none"}

================================================================================
