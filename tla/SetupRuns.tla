------------------------------- MODULE SetupRuns -------------------------------
(***************************************************************************)
(* Setup profiles: the tables and statements of src/setup/store.ts, the    *)
(* wizard and the draft editor of src/setup/interactions.ts, the           *)
(* orchestrator of a run, the save tool of the setup agent and the memory  *)
(* tool of the coding agents, with restarts of the process in between.     *)
(*                                                                         *)
(* A transaction is one step.  A statement that uses what an earlier       *)
(* statement read is a step of its own; what a draft interaction read is   *)
(* kept in "form".                                                         *)
(***************************************************************************)
EXTENDS Integers

CONSTANTS
  Keys,          \* pairs of repository and branch
  Runs,          \* identities of setup runs
  Drafts,        \* identities of drafts
  Forms,         \* draft interactions that may be under way at the same time
  BadLinks,      \* may a wizard carry skill links that the validator refuses
  MaxRequests,   \* bound on commands, modals, buttons and notes of users and agents
  MaxCrashes     \* bound on restarts

ASSUME Bounds == MaxRequests \in Nat /\ MaxCrashes \in Nat
ASSUME Links == BadLinks \in BOOLEAN

\* Writers that are not runs.
NoOne == 0
Editor == -1
ASSUME Numbered == Runs \subseteq Nat \ {0} /\ Forms \subseteq Nat

VARIABLES
  profile,   \* row of a key in setup_profiles
  runs,      \* rows of setup_runs
  drafts,    \* rows of setup_drafts
  wizard,    \* where the create or update dialog of a run stands
  agent,     \* the setup agent of a run, and the report of its end
  typing,    \* runs with a typing timer
  form,      \* a draft interaction and what it read
  requests,  \* requests so far
  boot,      \* running runs the recovery found and has not handled
  crashes

db == <<profile, runs, drafts>>
process == <<wizard, agent, typing>>
counters == <<requests, crashes>>
vars == <<db, process, form, boot, counters>>

ProfileStatus == {"none", "running", "updating", "ready", "failed"}
RunStatus == {"none", "running", "succeeded", "failed", "deleted"}
DraftStatus == {"none", "unchecked", "valid", "invalid", "gone"}

\* An environment is told apart by who wrote it, whether it is well formed, and
\* whether it is what a wizard patched in, not what was saved.
Environments == [by : Runs \cup {NoOne, Editor}, ok : BOOLEAN, patch : BOOLEAN]
\* A memory is told apart by who wrote it, how many notes were appended and
\* whether the validator accepts it.
Memories == [by : Runs \cup {NoOne, Editor}, notes : 0..MaxRequests, ok : BOOLEAN]

Environment(by, ok) == [by |-> by, ok |-> ok, patch |-> FALSE]
Memory(by, ok) == [by |-> by, notes |-> 0, ok |-> ok]
Noted(memory) == [memory EXCEPT !.notes = @ + 1]

Placeholder == Environment(NoOne, TRUE)
NoMemory == Memory(NoOne, TRUE)

Profiles == [status : ProfileStatus, revision : Nat, environment : Environments,
             memory : Memories, lastRun : Runs \cup {NoOne}]
NoProfile == [status |-> "none", revision |-> 0, environment |-> Placeholder,
              memory |-> NoMemory, lastRun |-> NoOne]

\* Rows of runs and drafts carry the key of their profile; they are deleted
\* with it, so the key identifies the profile as long as they exist.
RunRows == [status : RunStatus, key : Keys \cup {NoOne}]
NoRun == [status |-> "none", key |-> NoOne]

\* "opened" is the content at the base revision; only properties read it.
Contents == [environment : Environments, memory : Memories]
DraftRows == [status : DraftStatus, key : Keys \cup {NoOne}, base : Nat,
              environment : Environments, memory : Memories, opened : Contents]
NoContent == [environment |-> Placeholder, memory |-> NoMemory]
NoDraft == [status |-> "none", key |-> NoOne, base |-> 0, environment |-> Placeholder,
            memory |-> NoMemory, opened |-> NoContent]

\* "edits": the interaction brings a content, it does not only judge the one
\* that is stored.
FormStates == [step : {"idle", "reread", "write"}, draft : Drafts \cup {NoOne},
               edits : BOOLEAN, environment : Environments, memory : Memories,
               verdict : DraftStatus]
NoForm == [step |-> "idle", draft |-> NoOne, edits |-> FALSE, environment |-> Placeholder,
           memory |-> NoMemory, verdict |-> "unchecked"]

Busy(p) == p.status \in {"running", "updating"}
ProfileOf(r) == profile[runs[r].key]
\* Every write of a new content makes the profile ready and counts.
Saved(p, environment, memory, lastRun) ==
  [status |-> "ready", revision |-> p.revision + 1, environment |-> environment,
   memory |-> memory, lastRun |-> lastRun]
\* getRun finds the row, and getProfileById the row of its profile.
Exists(r) == runs[r].status \notin {"none", "deleted"}
Up == boot = {}
Request == requests < MaxRequests /\ requests' = requests + 1
\* Unused identities are taken in order: their names mean nothing.
NextId(i, unused) == i \in unused /\ \A j \in unused : i <= j

Init ==
  /\ profile = [k \in Keys |-> NoProfile]
  /\ runs = [r \in Runs |-> NoRun]
  /\ drafts = [d \in Drafts |-> NoDraft]
  /\ wizard = [r \in Runs |-> "idle"]
  /\ agent = [r \in Runs |-> "none"]
  /\ typing = {}
  /\ form = [f \in Forms |-> NoForm]
  /\ requests = 0
  /\ boot = {}
  /\ crashes = 0

--------------------------------------------------------------------------------
\* failRun: one transaction; it gives up unless the profile is still held by
\* this run, and then leaves the run "running".

Holds(r) == ProfileOf(r).lastRun = r /\ Busy(ProfileOf(r))
Failable(r) == runs[r].status = "running" /\ Holds(r)

\* Mutant: a profile that was never saved is left as it is.
FailRunKept(r) ==
  IF Failable(r)
  THEN /\ runs' = [runs EXCEPT ![r].status = "failed"]
       /\ profile' = IF ProfileOf(r).revision > 0
                     THEN [profile EXCEPT ![runs[r].key].status = "ready"] ELSE profile
  ELSE UNCHANGED <<runs, profile>>

FailRun(r) ==
  IF Failable(r)
  THEN /\ runs' = [runs EXCEPT ![r].status = "failed"]
       /\ profile' = [profile EXCEPT ![runs[r].key].status =
                        IF ProfileOf(r).revision > 0 THEN "ready" ELSE "failed"]
  ELSE UNCHANGED <<runs, profile>>

--------------------------------------------------------------------------------
\* The wizard: startSetup, the patch of the environment, the thread, the agent.

Started(p, r) ==
  IF p.status = "none"
  THEN [NoProfile EXCEPT !.status = "running", !.lastRun = r]
  ELSE [p EXCEPT !.status = IF p.status = "ready" THEN "updating" ELSE "running",
                 !.lastRun = r]

\* createOrStartRun, upsert and insert in one transaction.
StartRun(r, k, update) ==
  /\ Request
  /\ Up /\ NextId(r, {q \in Runs : runs[q].status = "none"})
  /\ \/ profile[k].status = "none" /\ ~update
     \/ profile[k].status = "ready" /\ update
     \/ profile[k].status = "failed"
  /\ profile' = [profile EXCEPT ![k] = Started(@, r)]
  /\ runs' = [runs EXCEPT ![r] =
       [status |-> "running", key |-> k]]
  /\ wizard' = [wizard EXCEPT ![r] = "prepare"]
  /\ UNCHANGED <<drafts, agent, typing, form, boot, crashes>>

\* prepareSetupWorkspace succeeds, or the run is failed.
Prepare(r) ==
  /\ Up /\ wizard[r] = "prepare"
  /\ \/ wizard' = [wizard EXCEPT ![r] = "patch"] /\ UNCHANGED <<runs, profile>>
     \/ wizard' = [wizard EXCEPT ![r] = "done"] /\ FailRun(r)
  /\ UNCHANGED <<drafts, agent, typing, form, boot, counters>>

\* patchEnvironmentWhileRunning reads the status and validates the merged
\* environment: bad links make it throw, and the wizard only reports it.
ReadPatch(r) ==
  /\ Up /\ wizard[r] = "patch"
  /\ \/ /\ Exists(r) /\ Busy(ProfileOf(r))
        /\ \/ wizard' = [wizard EXCEPT ![r] = "write"]
           \/ BadLinks /\ wizard' = [wizard EXCEPT ![r] = "done"]
     \/ /\ ~(Exists(r) /\ Busy(ProfileOf(r)))
        /\ wizard' = [wizard EXCEPT ![r] = "thread"]
  /\ UNCHANGED <<db, agent, typing, form, boot, counters>>

\* Its UPDATE tests the status again.
WritePatch(r) ==
  /\ Up /\ wizard[r] = "write"
  /\ wizard' = [wizard EXCEPT ![r] = "thread"]
  /\ profile' = IF Exists(r) /\ Busy(ProfileOf(r))
                THEN [profile EXCEPT ![runs[r].key].environment =
                        [Environment(r, TRUE) EXCEPT !.patch = TRUE]]
                ELSE profile
  /\ UNCHANGED <<runs, drafts, agent, typing, form, boot, counters>>

\* openSetupRunThread and registerSetupThread; a thread that cannot be opened
\* or attached is only logged.
OpenThread(r) ==
  /\ Up /\ wizard[r] = "thread"
  /\ wizard' = [wizard EXCEPT ![r] = "dispatch"]
  /\ \/ UNCHANGED typing
     \/ runs[r].status = "running" /\ typing' = typing \cup {r}
  /\ UNCHANGED <<db, agent, form, boot, counters>>

\* dispatchSetupAgent; a failed dispatch fails the run and clears the timer.
DispatchSetup(r) ==
  /\ Up /\ wizard[r] = "dispatch"
  /\ wizard' = [wizard EXCEPT ![r] = "done"]
  /\ \/ agent' = [agent EXCEPT ![r] = "live"] /\ UNCHANGED <<runs, profile, typing>>
     \/ FailRun(r) /\ typing' = typing \ {r} /\ UNCHANGED agent
  /\ UNCHANGED <<drafts, form, boot, counters>>

--------------------------------------------------------------------------------
\* The agent of a run: the save tool, failures, the end.

\* Mutant: the first save of a profile does not count.
PromoteRunUnnumbered(r) ==
  /\ Up /\ agent[r] = "live" /\ runs[r].status = "running"
  /\ runs' = [runs EXCEPT ![r].status = "succeeded"]
  /\ profile' = IF Busy(ProfileOf(r))
                THEN [profile EXCEPT ![runs[r].key].status = "ready"] ELSE profile
  /\ UNCHANGED <<drafts, wizard, agent, typing, form, boot, counters>>

\* save_threadcord_setup_profile: a payload that is refused or fails the
\* verification changes nothing; the rest is promoteRun, which commits the run
\* also when the profile was not updated.
PromoteRun(r) ==
  /\ Up /\ agent[r] = "live"
  /\ IF runs[r].status = "running"
     THEN /\ runs' = [runs EXCEPT ![r].status = "succeeded"]
          /\ profile' =
               IF Busy(ProfileOf(r))
               THEN [profile EXCEPT ![runs[r].key] =
                       Saved(@, Environment(r, TRUE), Memory(r, TRUE), r)]
               ELSE profile
     ELSE UNCHANGED <<runs, profile>>
  /\ UNCHANGED <<drafts, wizard, agent, typing, form, boot, counters>>

\* handleAgentFailure: an error of the agent or its tripped tool guard.
HandleAgentFailure(r) ==
  /\ Up /\ agent[r] = "live"
  /\ FailRun(r)
  /\ UNCHANGED <<drafts, process, form, boot, counters>>

\* Mutant: the end of an agent that saved nothing is not an event.
AgentEndsUnseen(r) ==
  /\ Up /\ agent[r] = "live"
  /\ agent' = [agent EXCEPT ![r] = IF runs[r].status = "running" THEN "over" ELSE "ended"]
  /\ UNCHANGED <<db, wizard, typing, form, boot, counters>>

AgentEnds(r) ==
  /\ Up /\ agent[r] = "live"
  /\ agent' = [agent EXCEPT ![r] = "ended"]
  /\ UNCHANGED <<db, wizard, typing, form, boot, counters>>

\* Mutant: a run that failed before is not reported.
HandleAgentEndSilent(r) ==
  /\ Up /\ agent[r] = "ended"
  /\ agent' = [agent EXCEPT ![r] = "over"]
  /\ FailRun(r)
  /\ typing' = IF Failable(r) \/ runs[r].status = "succeeded" THEN typing \ {r} ELSE typing
  /\ UNCHANGED <<drafts, wizard, form, boot, counters>>

\* handleAgentEnd, with notifyRunFinished when there is something to tell.
HandleAgentEnd(r) ==
  /\ Up /\ agent[r] = "ended"
  /\ agent' = [agent EXCEPT ![r] = "over"]
  /\ FailRun(r)
  /\ typing' = IF Failable(r) \/ runs[r].status \in {"succeeded", "failed"}
               THEN typing \ {r} ELSE typing
  /\ UNCHANGED <<drafts, wizard, form, boot, counters>>

--------------------------------------------------------------------------------
\* Drafts.

\* createDraft: the base revision and the content come from one read; a
\* profile deleted before the INSERT makes it fail.
Drafted(k) ==
  [status |-> "unchecked", key |-> k, base |-> profile[k].revision,
   environment |-> profile[k].environment, memory |-> profile[k].memory,
   opened |-> [environment |-> profile[k].environment, memory |-> profile[k].memory]]

\* A profile is selected for /setup edit.
CreateDraft(d, k) ==
  /\ Up /\ drafts[d].status = "none"
  /\ profile[k].status # "none"
  /\ drafts' = [drafts EXCEPT ![d] = Drafted(k)]
  /\ UNCHANGED <<profile, runs, process, form, boot, counters>>

Open(d) == drafts[d].status \in {"unchecked", "valid", "invalid"}
\* rowToDraft parses the environment and throws on a malformed one; the memory
\* is read as it is.
Readable(d) == Open(d) /\ drafts[d].environment.ok

\* Mutant: a verdict that the table refuses.
VerdictUnknown(environment, memory) ==
  IF environment.ok /\ memory.ok THEN "valid" ELSE "refused"
Verdict(environment, memory) ==
  IF environment.ok /\ memory.ok THEN "valid" ELSE "invalid"

\* A modal is submitted: the draft is read, one field is replaced, and both
\* are validated.
SubmitForm(f, d) ==
  /\ Up /\ NextId(f, {g \in Forms : form[g].step = "idle"})
  /\ Readable(d)
  /\ Request
  /\ \E ok \in BOOLEAN :
     \E environment \in {drafts[d].environment, Environment(Editor, ok)},
        memory \in {drafts[d].memory, Memory(Editor, ok)} :
       /\ (environment # drafts[d].environment) # (memory # drafts[d].memory)
       /\ form' = [form EXCEPT ![f] =
            [step |-> "reread", draft |-> d, edits |-> TRUE, environment |-> environment,
             memory |-> memory, verdict |-> Verdict(environment, memory)]]
  /\ UNCHANGED <<db, process, boot, crashes>>

\* /setup import opens a draft and edits it by one file or both; files that
\* are refused only mark it invalid.
ImportFiles(f, d, k) ==
  /\ Up /\ NextId(f, {g \in Forms : form[g].step = "idle"})
  /\ drafts[d].status = "none" /\ profile[k].status # "none"
  /\ Request
  /\ drafts' = [drafts EXCEPT ![d] = Drafted(k)]
  /\ \/ \E environment \in {profile[k].environment, Environment(Editor, TRUE)},
           memory \in {profile[k].memory, Memory(Editor, TRUE)} :
         form' = [form EXCEPT ![f] =
           [step |-> "reread", draft |-> d, edits |-> TRUE, environment |-> environment,
            memory |-> memory, verdict |-> "valid"]]
     \/ form' = [form EXCEPT ![f] = [NoForm EXCEPT
           !.step = "reread", !.draft = d, !.verdict = "invalid"]]
  /\ UNCHANGED <<profile, runs, process, boot, crashes>>

\* The validate button judges the draft it read.
PressValidate(f, d) ==
  /\ Up /\ NextId(f, {g \in Forms : form[g].step = "idle"})
  /\ Readable(d)
  /\ Request
  /\ form' = [form EXCEPT ![f] = [NoForm EXCEPT
       !.step = "reread", !.draft = d,
       !.verdict = Verdict(drafts[d].environment, drafts[d].memory)]]
  /\ UNCHANGED <<db, process, boot, crashes>>

\* updateDraft reads the draft again, also for the content that a verdict
\* alone leaves as it is ...
RereadDraft(f) ==
  /\ Up /\ form[f].step = "reread"
  /\ form' = [form EXCEPT ![f] =
       IF ~Readable(form[f].draft) THEN NoForm
       ELSE IF @.edits THEN [@ EXCEPT !.step = "write"]
       ELSE [@ EXCEPT !.step = "write",
                      !.environment = drafts[form[f].draft].environment,
                      !.memory = drafts[form[f].draft].memory]]
  /\ UNCHANGED <<db, process, boot, counters>>

\* ... and writes the whole row; that the row it gets back cannot be read
\* undoes nothing.
UpdateDraft(f) ==
  /\ Up /\ form[f].step = "write"
  /\ drafts' = IF Open(form[f].draft)
               THEN [drafts EXCEPT ![form[f].draft] =
                       [@ EXCEPT !.environment = form[f].environment,
                                 !.memory = form[f].memory,
                                 !.status = form[f].verdict]]
               ELSE drafts
  /\ form' = [form EXCEPT ![f] = NoForm]
  /\ UNCHANGED <<profile, runs, process, boot, counters>>

\* Mutant: the base revision is only a lower bound.
ApplicableLater(d) ==
  /\ Readable(d)
  /\ Verdict(drafts[d].environment, drafts[d].memory) = "valid"
  /\ drafts[d].status # "invalid"
  /\ profile[drafts[d].key].revision >= drafts[d].base

\* applyDraft reads and validates again, and compares the revision but not the
\* status.
Applicable(d) ==
  /\ Readable(d)
  /\ Verdict(drafts[d].environment, drafts[d].memory) = "valid"
  /\ drafts[d].status # "invalid"
  /\ profile[drafts[d].key].revision = drafts[d].base

ApplyDraft(d) ==
  /\ Up /\ Applicable(d)
  /\ profile' = [profile EXCEPT ![drafts[d].key] =
       Saved(@, drafts[d].environment, drafts[d].memory, @.lastRun)]
  /\ drafts' = [drafts EXCEPT ![d].status = "gone"]
  /\ UNCHANGED <<runs, process, form, boot, counters>>

\* The button read the draft at some time before; the DELETE asks for nothing.
DiscardDraft(d) ==
  /\ Up /\ Open(d)
  /\ drafts' = [drafts EXCEPT ![d].status = "gone"]
  /\ UNCHANGED <<profile, runs, process, form, boot, counters>>

--------------------------------------------------------------------------------
\* Mutant: a profile is deleted under its run.
DeleteProfileBusy(k) ==
  /\ Request
  /\ Up /\ profile[k].status # "none"
  /\ profile' = [profile EXCEPT ![k] = NoProfile]
  /\ UNCHANGED <<runs, drafts, process, form, boot, crashes>>

\* deleteProfile, with the rows that refer to the profile.
DeleteProfile(k) ==
  /\ Request
  /\ Up /\ profile[k].status # "none" /\ ~Busy(profile[k])
  /\ profile' = [profile EXCEPT ![k] = NoProfile]
  /\ runs' = [r \in Runs |-> IF runs[r].key = k /\ Exists(r)
                             THEN [runs[r] EXCEPT !.status = "deleted"] ELSE runs[r]]
  /\ drafts' = [d \in Drafts |-> IF drafts[d].key = k
                                 THEN [drafts[d] EXCEPT !.status = "gone"] ELSE drafts[d]]
  /\ UNCHANGED <<process, form, boot, crashes>>

\* Mutant: a note makes no revision.
AppendMemoryUnnumbered(k) ==
  /\ Up /\ profile[k].status = "ready"
  /\ Request
  /\ profile' = [profile EXCEPT ![k].memory.notes = @ + 1]
  /\ UNCHANGED <<runs, drafts, process, form, boot, crashes>>

\* append_threadcord_setup_memory of a coding agent.
AppendMemory(k) ==
  /\ Up /\ profile[k].status = "ready"
  /\ Request
  /\ profile' = [profile EXCEPT ![k] =
       Saved(@, @.environment, Noted(@.memory), @.lastRun)]
  /\ UNCHANGED <<runs, drafts, process, form, boot, crashes>>

--------------------------------------------------------------------------------
\* A crash forgets everything but the tables; app.ts awaits the recovery of
\* the setup runs before it opens the gateway.
Crash ==
  /\ crashes < MaxCrashes
  /\ crashes' = crashes + 1
  /\ wizard' = [r \in Runs |-> IF wizard[r] = "idle" THEN "idle" ELSE "done"]
  /\ agent' = [r \in Runs |-> IF agent[r] = "none" THEN "none" ELSE "over"]
  /\ typing' = {}
  /\ form' = [f \in Forms |-> NoForm] /\ UNCHANGED requests
  /\ boot' = {r \in Runs : runs[r].status = "running"}
  /\ UNCHANGED db

Recover(r) ==
  /\ r \in boot
  /\ boot' = boot \ {r}
  /\ FailRun(r)
  /\ UNCHANGED <<drafts, process, form, counters>>

--------------------------------------------------------------------------------
WizardStep(r) ==
  Prepare(r) \/ ReadPatch(r) \/ WritePatch(r) \/ OpenThread(r) \/ DispatchSetup(r)

EditorStep(f) == RereadDraft(f) \/ UpdateDraft(f)

Next ==
  \/ \E r \in Runs, k \in Keys, update \in BOOLEAN : StartRun(r, k, update)
  \/ \E r \in Runs :
       \/ WizardStep(r)
       \/ PromoteRun(r) \/ HandleAgentFailure(r) \/ AgentEnds(r) \/ HandleAgentEnd(r) \/ Recover(r)
  \/ \E d \in Drafts, k \in Keys : CreateDraft(d, k)
  \/ \E f \in Forms, d \in Drafts : SubmitForm(f, d) \/ PressValidate(f, d)
  \/ \E f \in Forms, d \in Drafts, k \in Keys : ImportFiles(f, d, k)
  \/ \E f \in Forms : EditorStep(f)
  \/ \E d \in Drafts : ApplyDraft(d) \/ DiscardDraft(d)
  \/ \E k \in Keys : DeleteProfile(k) \/ AppendMemory(k)
  \/ Crash

Spec == Init /\ [][Next]_vars

\* The wizard and the recovery run on, and an agent ends at some time.
FairSpec ==
  /\ Spec
  /\ \A r \in Runs :
       /\ WF_vars(WizardStep(r))
       /\ WF_vars(AgentEnds(r))
       /\ WF_vars(HandleAgentEnd(r))
       /\ WF_vars(Recover(r))

--------------------------------------------------------------------------------
\* Properties.

TypeOK ==
  /\ profile \in [Keys -> Profiles]
  /\ runs \in [Runs -> RunRows]
  /\ drafts \in [Drafts -> DraftRows]
  /\ wizard \in [Runs -> {"idle", "prepare", "patch", "write", "thread", "dispatch", "done"}]
  /\ agent \in [Runs -> {"none", "live", "ended", "over"}]
  /\ typing \in SUBSET Runs
  /\ form \in [Forms -> FormStates]
  /\ requests \in 0..MaxRequests
  /\ boot \in SUBSET Runs
  /\ crashes \in 0..MaxCrashes

\* A profile that refuses the commands because it is running or updating is
\* held by a run that is running itself, so that failRun (store.ts:437) can
\* release it: otherwise nothing ever would.
BusyProfileHasRun == \A k \in Keys : Busy(profile[k]) =>
  LET r == profile[k].lastRun
  IN  r \in Runs /\ runs[r].status = "running" /\ runs[r].key = k

\* failRun decides by the revision whether a profile survives a failed run
\* (store.ts:455): it is ready or updating exactly when something was saved.
RevisionMatchesStatus == \A k \in Keys :
  profile[k].revision > 0 <=> profile[k].status \in {"ready", "updating"}

\* A draft is applied only over the memory it was opened from: a note that a
\* coding agent appended, or a run that was saved meanwhile, is never lost.
ApplyKeepsMemory ==
  [][\A d \in Drafts : ApplyDraft(d) =>
       profile[drafts[d].key].memory = drafts[d].opened.memory]_vars

\* Nor is any environment lost but what a wizard patched in: the patch makes no
\* revision (store.ts:184), so that an older draft is applied over it, while the
\* run works and also when it has failed.  What a run or another draft saved is
\* kept.
OnlyPatchesLost ==
  [][\A d \in Drafts : ApplyDraft(d) =>
       LET lost == profile[drafts[d].key].environment
       IN  lost = drafts[d].opened.environment \/ lost.patch]_vars

\* A profile does not stay running or updating.
ProfilesUnstick == \A k \in Keys : Busy(profile[k]) ~> ~Busy(profile[k])

\* The typing indicator of a run stops after its end, whichever of the three
\* handlers decided it.  Deleting the profile first takes the row away that
\* handleAgentEnd needs (orchestrator.ts:167).
TypingStops == \A r \in Runs :
  runs[r].status \in {"succeeded", "failed"}
    ~> (r \notin typing \/ runs[r].status = "deleted")

\* Whatever wizards, agents, editors and restarts do, the row of a profile
\* follows the lifecycle.
Lifecycle == INSTANCE ProfileLifecycle WITH
  status <- [k \in Keys |-> profile[k].status],
  revision <- [k \in Keys |-> profile[k].revision],
  memory <- [k \in Keys |-> profile[k].memory]

ImplementsProfileLifecycle == Lifecycle!Spec

================================================================================
