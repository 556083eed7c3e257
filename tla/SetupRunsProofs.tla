---------------------------- MODULE SetupRunsProofs ----------------------------
(***************************************************************************)
(* Proofs about SetupRuns for any keys, runs, drafts, forms and bounds.    *)
(***************************************************************************)
EXTENDS SetupRuns, TLAPS

--------------------------------------------------------------------------------
\* The inductive invariant.

DbTypes ==
  /\ profile \in [Keys -> Profiles]
  /\ runs \in [Runs -> RunRows]
  /\ drafts \in [Drafts -> DraftRows]

\* A row that exists carries a key.
RowsHaveKeys ==
  /\ \A r \in Runs : Exists(r) => runs[r].key \in Keys
  /\ \A d \in Drafts : Open(d) => drafts[d].key \in Keys

\* Every note cost a request.
NotesBounded ==
  /\ \A k \in Keys : profile[k].memory.notes <= requests
  /\ \A d \in Drafts : drafts[d].memory.notes <= requests

\* A draft has its profile, which has the content that the draft found as long
\* as it has the revision, but for what a wizard patched in.
DraftsFollow == \A d \in Drafts : Open(d) =>
  LET p == profile[drafts[d].key]
  IN  /\ p.status # "none"
      /\ drafts[d].base <= p.revision
      /\ drafts[d].base = p.revision =>
           /\ p.memory = drafts[d].opened.memory
           /\ p.environment = drafts[d].opened.environment \/ p.environment.patch

DbInv ==
  /\ DbTypes
  /\ RowsHaveKeys
  /\ NotesBounded
  /\ BusyProfileHasRun
  /\ RevisionMatchesStatus
  /\ DraftsFollow

FormInv ==
  /\ form \in [Forms -> FormStates]
  /\ \A f \in Forms : form[f].memory.notes <= requests
  /\ \A f \in Forms : form[f].step # "idle" => form[f].draft \in Drafts

ProcessTypes ==
  /\ wizard \in [Runs -> {"idle", "prepare", "patch", "write", "thread", "dispatch", "done"}]
  /\ agent \in [Runs -> {"none", "live", "ended", "over"}]
  /\ typing \in SUBSET Runs
  /\ requests \in 0..MaxRequests
  /\ boot \in SUBSET Runs
  /\ crashes \in 0..MaxCrashes

IInv == DbInv /\ FormInv /\ ProcessTypes

LEMMA IInvTypeOK == IInv => TypeOK
BY DEF IInv, DbInv, DbTypes, FormInv, ProcessTypes, TypeOK

--------------------------------------------------------------------------------
\* Rows.

\* What a user or an agent writes.
LEMMA Written ==
  ASSUME NEW by \in Runs \cup {NoOne, Editor}, NEW ok \in BOOLEAN
  PROVE  /\ Environment(by, ok) \in Environments
         /\ Memory(by, ok) \in Memories /\ Memory(by, ok).notes = 0
BY Bounds DEF Environment, Environments, Memory, Memories

LEMMA Constants ==
  /\ Placeholder \in Environments
  /\ NoMemory \in Memories /\ NoMemory.notes = 0
  /\ NoProfile \in Profiles
  /\ NoForm \in FormStates /\ NoForm.step = "idle" /\ NoForm.memory.notes = 0
<1>1. MaxRequests \in Nat
  BY Bounds
<1>2. /\ Placeholder \in Environments
      /\ NoMemory \in Memories /\ NoMemory.notes = 0
  BY <1>1, Written DEF Placeholder, NoMemory
<1>3. NoProfile \in Profiles
  BY <1>2 DEF NoProfile, Profiles, ProfileStatus
<1>4. NoForm \in FormStates /\ NoForm.step = "idle" /\ NoForm.memory.notes = 0
  BY <1>2 DEF NoForm, FormStates, DraftStatus
<1>5. QED
  BY <1>2, <1>3, <1>4

\* What every write to a profile makes of the row.
LEMMA SavedRow ==
  ASSUME NEW p \in Profiles, NEW environment \in Environments, NEW memory \in Memories,
         NEW lastRun \in Runs \cup {NoOne}
  PROVE  LET q == Saved(p, environment, memory, lastRun)
         IN  /\ q \in Profiles
             /\ q.status = "ready" /\ q.revision = p.revision + 1
             /\ q.environment = environment /\ q.memory = memory
BY DEF Saved, Profiles, ProfileStatus

LEMMA StatusRow ==
  ASSUME NEW p \in Profiles, NEW status \in ProfileStatus
  PROVE  LET q == [p EXCEPT !.status = status]
         IN  /\ q \in Profiles
             /\ q = [p EXCEPT !.status = status]
             /\ q.status = status /\ q.revision = p.revision /\ q.lastRun = p.lastRun
             /\ q.environment = p.environment /\ q.memory = p.memory
BY DEF Profiles, ProfileStatus

LEMMA RunRow ==
  ASSUME NEW row \in RunRows, NEW status \in RunStatus
  PROVE  LET q == [row EXCEPT !.status = status]
         IN  q \in RunRows /\ q.status = status /\ q.key = row.key
BY DEF RunRows, RunStatus

--------------------------------------------------------------------------------
\* Steps on the tables.  Requests are counted up or not.

Counted == requests' \in Nat /\ requests <= requests'

LEMMA DbUnchanged ==
  ASSUME DbInv, requests \in Nat, Counted, UNCHANGED db
  PROVE  DbInv'
<1>1. profile' = profile /\ runs' = runs /\ drafts' = drafts
  BY DEF db
<1>2. DbTypes' /\ RowsHaveKeys'
  BY <1>1 DEF DbInv, DbTypes, RowsHaveKeys, Exists, Open
<1>3. NotesBounded'
  BY <1>1 DEF DbInv, DbTypes, NotesBounded, Counted, Profiles, Memories, DraftRows
<1>4. BusyProfileHasRun'
  BY <1>1 DEF DbInv, BusyProfileHasRun, Busy
<1>5. RevisionMatchesStatus'
  BY <1>1 DEF DbInv, RevisionMatchesStatus
<1>6. DraftsFollow'
  BY <1>1 DEF DbInv, DraftsFollow, Open
<1>7. QED
  BY <1>2, <1>3, <1>4, <1>5, <1>6 DEF DbInv

LEMMA FormUnchanged ==
  ASSUME FormInv, requests \in Nat, Counted, UNCHANGED form
  PROVE  FormInv'
BY DEF FormInv, Counted, FormStates, Memories

\* Drafts may be closed, but keep what they were opened with.
DraftsKept ==
  /\ drafts' \in [Drafts -> DraftRows]
  /\ \A d \in Drafts : /\ drafts'[d].memory.notes <= requests'
                       /\ Open(d)' => Open(d)
                       /\ drafts'[d].key = drafts[d].key
                       /\ drafts'[d].base = drafts[d].base
                       /\ drafts'[d].opened = drafts[d].opened

LEMMA DraftsUnchanged ==
  ASSUME DbInv, requests \in Nat, Counted, UNCHANGED drafts
  PROVE  DraftsKept
BY DEF DbInv, DbTypes, NotesBounded, Counted, DraftRows, Memories, DraftsKept, Open

\* The row q of a profile k is written: what the statement must see to.
LEMMA ProfileStep ==
  ASSUME DbInv, requests \in Nat, Counted, NEW k \in Keys, NEW q \in Profiles,
         profile' = [profile EXCEPT ![k] = q],
         q.status # "none",
         q.revision > 0 <=> q.status \in {"ready", "updating"},
         q.memory.notes <= requests',
         profile[k].revision <= q.revision,
         profile[k].revision = q.revision =>
           \/ /\ q.memory = profile[k].memory
              /\ q.environment = profile[k].environment \/ q.environment.patch
           \/ profile[k].status = "none",
         Busy(q) => /\ q.lastRun \in Runs
                    /\ runs'[q.lastRun].status = "running"
                    /\ runs'[q.lastRun].key = k,
         runs' \in [Runs -> RunRows],
         \A o \in Runs : Exists(o)' => runs'[o].key \in Keys,
         \A o \in Runs : runs[o].status = "running" /\ runs[o].key # k => runs'[o] = runs[o],
         DraftsKept
  PROVE  DbInv'
<1>1. profile \in [Keys -> Profiles] /\ profile[k] \in Profiles
  BY DEF DbInv, DbTypes
<1>2. profile'[k] = q /\ \A j \in Keys : j # k => profile'[j] = profile[j]
  BY <1>1
<1>3. DbTypes'
  BY <1>1 DEF DbTypes, DraftsKept
<1>4. RowsHaveKeys'
  BY DEF DbInv, RowsHaveKeys, DraftsKept
<1>5. NotesBounded'
  <2>1. \A j \in Keys : profile'[j].memory.notes <= requests'
    BY <1>1, <1>2 DEF DbInv, NotesBounded, Counted, Profiles, Memories
  <2>2. QED
    BY <2>1 DEF NotesBounded, DraftsKept
<1>6. BusyProfileHasRun'
  <2>1. ASSUME NEW j \in Keys, Busy(profile'[j]), j # k
        PROVE  /\ profile'[j].lastRun \in Runs
               /\ runs'[profile'[j].lastRun].status = "running"
               /\ runs'[profile'[j].lastRun].key = j
    BY <1>2, <2>1 DEF DbInv, BusyProfileHasRun, Busy
  <2>2. QED
    BY <1>2, <2>1 DEF BusyProfileHasRun, Busy
<1>7. RevisionMatchesStatus'
  BY <1>2 DEF DbInv, RevisionMatchesStatus
<1>8. DraftsFollow'
  <2>1. ASSUME NEW d \in Drafts, Open(d)'
        PROVE  /\ profile'[drafts'[d].key].status # "none"
               /\ drafts'[d].base <= profile'[drafts'[d].key].revision
               /\ drafts'[d].base = profile'[drafts'[d].key].revision =>
                    /\ profile'[drafts'[d].key].memory = drafts'[d].opened.memory
                    /\ \/ profile'[drafts'[d].key].environment = drafts'[d].opened.environment
                       \/ profile'[drafts'[d].key].environment.patch
    <3>1. /\ Open(d) /\ drafts[d].key \in Keys
          /\ drafts'[d].key = drafts[d].key /\ drafts'[d].base = drafts[d].base
          /\ drafts'[d].opened = drafts[d].opened
      BY <2>1 DEF DraftsKept, DbInv, RowsHaveKeys
    <3>2. /\ profile[drafts[d].key].status # "none"
          /\ drafts[d].base <= profile[drafts[d].key].revision
          /\ drafts[d].base = profile[drafts[d].key].revision =>
               /\ profile[drafts[d].key].memory = drafts[d].opened.memory
               /\ \/ profile[drafts[d].key].environment = drafts[d].opened.environment
                  \/ profile[drafts[d].key].environment.patch
      BY <3>1 DEF DbInv, DraftsFollow
    <3>3. drafts[d].base \in Nat /\ profile[drafts[d].key].revision \in Nat /\ q.revision \in Nat
      BY <1>1, <3>1 DEF DbInv, DbTypes, DraftRows, Profiles
    <3>4. CASE drafts[d].key = k
      BY <1>2, <3>1, <3>2, <3>3, <3>4
    <3>5. CASE drafts[d].key # k
      BY <1>2, <3>1, <3>2, <3>5
    <3>6. QED
      BY <3>4, <3>5
  <2>2. QED
    BY <2>1 DEF DraftsFollow
<1>9. QED
  BY <1>3, <1>4, <1>5, <1>6, <1>7, <1>8 DEF DbInv

LEMMA FailRunStep ==
  ASSUME DbInv, requests \in Nat, Counted, NEW r \in Runs, FailRun(r), UNCHANGED drafts
  PROVE  DbInv'
<1>1. CASE ~Failable(r)
  BY <1>1, DbUnchanged DEF FailRun, db
<1>2. CASE Failable(r)
  <2> DEFINE k == runs[r].key
             status == IF profile[k].revision > 0 THEN "ready" ELSE "failed"
             q == [profile[k] EXCEPT !.status = status]
  <2>1. /\ runs[r].status = "running" /\ profile[k].lastRun = r /\ Busy(profile[k])
        /\ runs' = [runs EXCEPT ![r] = [runs[r] EXCEPT !.status = "failed"]]
        /\ profile' = [profile EXCEPT ![k] = q]
    BY <1>2 DEF FailRun, Failable, Holds, ProfileOf
  <2>2. k \in Keys /\ profile[k] \in Profiles /\ runs[r] \in RunRows
    BY <2>1 DEF DbInv, DbTypes, RowsHaveKeys, Exists
  <2>3. status \in ProfileStatus /\ status \notin {"none", "running", "updating"}
    BY DEF ProfileStatus
  <2>4. /\ q \in Profiles
        /\ q.status = status /\ q.revision = profile[k].revision
        /\ q.environment = profile[k].environment /\ q.memory = profile[k].memory
    <3> HIDE DEF k, status
    <3>1. QED
      BY <2>2, <2>3, StatusRow
  <2>5. runs' \in [Runs -> RunRows] /\ \A o \in Runs : runs'[o].key = runs[o].key
    <3>1. /\ [runs[r] EXCEPT !.status = "failed"] \in RunRows
          /\ [runs[r] EXCEPT !.status = "failed"].key = runs[r].key
      BY <2>2, RunRow DEF RunStatus
    <3> HIDE DEF k, status, q
    <3>2. QED
      BY <2>1, <3>1 DEF DbInv, DbTypes
  <2>6. \A o \in Runs : runs[o].status = "running" /\ runs[o].key # k => runs'[o] = runs[o]
    BY <2>1, <2>2 DEF DbInv, DbTypes
  <2>7. \A o \in Runs : Exists(o)' => runs'[o].key \in Keys
    <3>1. \A o \in Runs : o # r => runs'[o] = runs[o]
      BY <2>1 DEF DbInv, DbTypes
    <3>2. QED
      BY <2>2, <2>5, <3>1 DEF DbInv, RowsHaveKeys, Exists
  <2>8. q.memory.notes <= requests'
    BY <2>2, <2>4 DEF DbInv, NotesBounded, Counted, Profiles, Memories
  <2>9. ~Busy(q) /\ q.status # "none" /\ (q.revision > 0 <=> q.status \in {"ready", "updating"})
    BY <2>2, <2>3, <2>4 DEF Busy, Profiles
  <2>10. profile[k].revision <= q.revision
    BY <2>2, <2>4 DEF Profiles
  <2> HIDE DEF k, status, q
  <2>11. QED
    BY <2>1, <2>2, <2>4, <2>5, <2>6, <2>7, <2>8, <2>9, <2>10, DraftsUnchanged, ProfileStep
<1>3. QED
  BY <1>1, <1>2

--------------------------------------------------------------------------------
\* The other statements on the tables, one lemma for each.

LEMMA CountedTypes ==
  ASSUME requests \in Nat, UNCHANGED requests \/ Request
  PROVE  Counted
BY DEF Counted, Request

LEMMA StartRunStep ==
  ASSUME DbInv, requests \in Nat, NEW r \in Runs, NEW k \in Keys, NEW update \in BOOLEAN,
         StartRun(r, k, update)
  PROVE  DbInv'
<1> DEFINE row == [status |-> "running", key |-> k]
           q == Started(profile[k], r)
<1>1. /\ runs[r].status = "none"
      /\ profile[k].status \in {"none", "ready", "failed"}
      /\ profile' = [profile EXCEPT ![k] = q]
      /\ runs' = [runs EXCEPT ![r] = row]
      /\ UNCHANGED drafts
      /\ Counted
  <2>1. Counted
    BY CountedTypes DEF StartRun
  <2>2. profile' = [profile EXCEPT ![k] = q]
    BY DEF StartRun
  <2>3. /\ runs[r].status = "none"
        /\ profile[k].status \in {"none", "ready", "failed"}
        /\ runs' = [runs EXCEPT ![r] = row]
        /\ UNCHANGED drafts
    BY DEF StartRun, NextId
  <2>4. QED
    BY <2>1, <2>2, <2>3
<1>2. profile[k] \in Profiles
  BY DEF DbInv, DbTypes
<1>3. /\ q \in Profiles /\ q.lastRun = r
      /\ q.status = IF profile[k].status = "ready" THEN "updating" ELSE "running"
      /\ q.revision = IF profile[k].status = "none" THEN 0 ELSE profile[k].revision
      /\ q.memory = IF profile[k].status = "none" THEN NoMemory ELSE profile[k].memory
      /\ q.environment = profile[k].environment \/ profile[k].status = "none"
  <2>1. CASE profile[k].status = "none"
    BY <2>1, Constants DEF Started, NoProfile, Profiles, ProfileStatus
  <2>2. CASE profile[k].status # "none"
    BY <1>1, <1>2, <2>2 DEF Started, DbInv, Profiles, ProfileStatus
  <2>3. QED
    BY <2>1, <2>2
<1>4. /\ runs' \in [Runs -> RunRows]
      /\ runs'[r] = row
      /\ \A o \in Runs : o # r => runs'[o] = runs[o]
  BY <1>1 DEF DbInv, DbTypes, RunRows, RunStatus
<1>5. \A o \in Runs : Exists(o)' => runs'[o].key \in Keys
  BY <1>4 DEF DbInv, RowsHaveKeys, Exists
<1>6. /\ q.status # "none"
      /\ q.revision > 0 <=> q.status \in {"ready", "updating"}
      /\ profile[k].revision <= q.revision
      /\ \/ q.memory = profile[k].memory /\ q.environment = profile[k].environment
         \/ profile[k].status = "none"
  BY <1>1, <1>2, <1>3 DEF DbInv, RevisionMatchesStatus, Profiles
<1>7. q.memory.notes <= requests'
  BY <1>1, <1>2, <1>3, Constants DEF DbInv, NotesBounded, Counted, Profiles, Memories
<1> HIDE DEF q
<1>8. QED
  BY <1>1, <1>3, <1>4, <1>5, <1>6, <1>7, DraftsUnchanged, ProfileStep

LEMMA WritePatchStep ==
  ASSUME DbInv, requests \in Nat, NEW r \in Runs, WritePatch(r)
  PROVE  DbInv'
<1>1. UNCHANGED <<runs, drafts>> /\ Counted
  BY CountedTypes DEF WritePatch, counters
<1>2. CASE ~(Exists(r) /\ Busy(ProfileOf(r)))
  BY <1>1, <1>2, DbUnchanged DEF WritePatch, db
<1>3. CASE Exists(r) /\ Busy(ProfileOf(r))
  <2> DEFINE k == runs[r].key
             e == [Environment(r, TRUE) EXCEPT !.patch = TRUE]
             q == [profile[k] EXCEPT !.environment = e]
  <2>1. k \in Keys /\ profile[k] \in Profiles
    BY <1>3 DEF DbInv, DbTypes, RowsHaveKeys
  <2>2. profile' = [profile EXCEPT ![k] = q]
    BY <1>3 DEF WritePatch, ProfileOf
  <2>3. /\ q \in Profiles /\ q.environment.patch
        /\ q.status = profile[k].status /\ q.revision = profile[k].revision
        /\ q.lastRun = profile[k].lastRun /\ q.memory = profile[k].memory
    <3>1. e \in Environments /\ e.patch
      BY DEF Environment, Environments
    <3> HIDE DEF e
    <3>2. QED
      BY <2>1, <3>1 DEF Profiles
  <2>4. Busy(q) /\ q.status # "none"
    BY <1>3, <2>3 DEF ProfileOf, Busy
  <2>5. q.revision > 0 <=> q.status \in {"ready", "updating"}
    BY <2>1, <2>3 DEF DbInv, RevisionMatchesStatus
  <2>6. q.memory.notes <= requests' /\ profile[k].revision <= q.revision
    BY <1>1, <2>1, <2>3 DEF DbInv, NotesBounded, Counted, Profiles, Memories
  <2>7. /\ q.lastRun \in Runs
        /\ runs'[q.lastRun].status = "running" /\ runs'[q.lastRun].key = k
    BY <1>1, <2>1, <2>3, <2>4 DEF DbInv, BusyProfileHasRun, Busy
  <2>8. /\ runs' \in [Runs -> RunRows]
        /\ \A o \in Runs : Exists(o)' => runs'[o].key \in Keys
        /\ \A o \in Runs : runs'[o] = runs[o]
    BY <1>1 DEF DbInv, DbTypes, RowsHaveKeys, Exists
  <2> HIDE DEF k, q
  <2>9. QED
    BY <1>1, <2>1, <2>2, <2>3, <2>4, <2>5, <2>6, <2>7, <2>8, DraftsUnchanged, ProfileStep
<1>4. QED
  BY <1>2, <1>3

LEMMA PromoteRunStep ==
  ASSUME DbInv, requests \in Nat, NEW r \in Runs, PromoteRun(r)
  PROVE  DbInv'
<1> DEFINE k == runs[r].key
           e == Environment(r, TRUE)
           m == Memory(r, TRUE)
           q == Saved(profile[k], e, m, r)
<1>1. UNCHANGED drafts /\ Counted
  BY CountedTypes DEF PromoteRun, counters
<1>2. CASE runs[r].status # "running"
  BY <1>1, <1>2, DbUnchanged DEF PromoteRun, db
<1>3. CASE runs[r].status = "running"
  <2>1. k \in Keys /\ profile[k] \in Profiles /\ runs[r] \in RunRows
    BY <1>3 DEF DbInv, DbTypes, RowsHaveKeys, Exists
  <2>2. /\ runs' = [runs EXCEPT ![r] = [runs[r] EXCEPT !.status = "succeeded"]]
        /\ profile' = IF Busy(profile[k]) THEN [profile EXCEPT ![k] = q] ELSE profile
    BY <1>3 DEF PromoteRun, ProfileOf
  <2>3. /\ runs' \in [Runs -> RunRows]
        /\ \A o \in Runs : runs'[o].key = runs[o].key
        /\ \A o \in Runs : o # r => runs'[o] = runs[o]
    <3>1. /\ [runs[r] EXCEPT !.status = "succeeded"] \in RunRows
          /\ [runs[r] EXCEPT !.status = "succeeded"].key = runs[r].key
      BY <2>1, RunRow DEF RunStatus
    <3> HIDE DEF k, q
    <3>2. QED
      BY <2>2, <3>1 DEF DbInv, DbTypes
  <2>4. /\ \A o \in Runs : Exists(o)' => runs'[o].key \in Keys
        /\ \A o \in Runs : runs[o].status = "running" /\ runs[o].key # k => runs'[o] = runs[o]
    BY <2>1, <2>3 DEF DbInv, RowsHaveKeys, Exists
  <2>5. e \in Environments /\ m \in Memories /\ m.notes = 0
    BY Written
  <2>6. /\ q \in Profiles
        /\ q.status = "ready" /\ q.revision = profile[k].revision + 1
        /\ q.memory.notes = 0
    <3> HIDE DEF k, e, m
    <3>1. QED
      BY <2>1, <2>5, SavedRow
  <2>7. /\ profile[k].revision \in Nat
        /\ requests' \in Nat
    BY <1>1, <2>1 DEF Profiles, Counted
  <2>8. CASE Busy(profile[k])
    <3>1. /\ ~Busy(q) /\ q.status # "none" /\ q.revision > 0 /\ q.memory.notes <= requests'
          /\ profile[k].revision <= q.revision /\ profile[k].revision # q.revision
      <4> HIDE DEF k, q
      <4>1. QED
        BY <1>1, <2>6, <2>7 DEF Busy
    <3> HIDE DEF k, q
    <3>2. QED
      BY <1>1, <2>1, <2>2, <2>3, <2>4, <2>6, <2>7, <2>8, <3>1, DraftsUnchanged, ProfileStep
  <2>9. CASE ~Busy(profile[k])
    <3>1. profile' = [profile EXCEPT ![k] = profile[k]]
      BY <2>1, <2>2, <2>9 DEF DbInv, DbTypes
    <3>2. /\ profile[k].status = "none" => profile[k].status = "none"
          /\ profile[k].memory.notes <= requests'
          /\ profile[k].revision > 0 <=> profile[k].status \in {"ready", "updating"}
      BY <1>1, <2>1 DEF DbInv, NotesBounded, RevisionMatchesStatus, Counted,
                        Profiles, Memories
    <3>3. DraftsKept
      BY <1>1, DraftsUnchanged
    <3> HIDE DEF k, q
    <3>4. DbTypes'
      BY <2>2, <2>3, <2>9, <3>3 DEF DbInv, DbTypes, DraftsKept
    <3>5. RowsHaveKeys'
      BY <2>4, <3>3 DEF DbInv, RowsHaveKeys, DraftsKept
    <3>6. NotesBounded'
      BY <1>1, <2>2, <2>9, <3>3 DEF DbInv, DbTypes, NotesBounded, Counted, DraftsKept, Profiles, Memories
    <3>7. BusyProfileHasRun'
      <4>1. ASSUME NEW j \in Keys, Busy(profile[j])
            PROVE  runs'[profile[j].lastRun] = runs[profile[j].lastRun] /\ profile[j].lastRun \in Runs
        BY <2>4, <2>9, <4>1 DEF DbInv, BusyProfileHasRun
      <4>2. profile' = profile
        BY <2>2, <2>9
      <4>3. QED
        BY <4>1, <4>2 DEF DbInv, BusyProfileHasRun, Busy
    <3>8. RevisionMatchesStatus' /\ DraftsFollow'
      BY <1>1, <2>2, <2>9 DEF DbInv, RevisionMatchesStatus, DraftsFollow, Open
    <3>9. QED
      BY <3>4, <3>5, <3>6, <3>7, <3>8 DEF DbInv
  <2>10. QED
    BY <2>8, <2>9
<1>4. QED
  BY <1>2, <1>3

LEMMA AppendMemoryStep ==
  ASSUME DbInv, requests \in 0..MaxRequests, NEW k \in Keys, AppendMemory(k)
  PROVE  DbInv'
<1> DEFINE m == Noted(profile[k].memory)
           q == Saved(profile[k], profile[k].environment, m, profile[k].lastRun)
<1>1. /\ UNCHANGED <<runs, drafts>> /\ Counted
      /\ requests \in Nat /\ requests' = requests + 1 /\ requests' \in 0..MaxRequests
      /\ profile[k].status = "ready"
      /\ profile' = [profile EXCEPT ![k] = q]
  <2>1. profile' = [profile EXCEPT ![k] = q]
    BY DEF AppendMemory
  <2>2. /\ UNCHANGED <<runs, drafts>> /\ profile[k].status = "ready"
        /\ requests < MaxRequests /\ requests' = requests + 1
    BY DEF AppendMemory, Request
  <2>3. QED
    BY <2>1, <2>2, Bounds DEF Counted
<1>2. /\ profile[k] \in Profiles
      /\ profile[k].environment \in Environments /\ profile[k].memory \in Memories
      /\ profile[k].lastRun \in Runs \cup {NoOne} /\ profile[k].revision \in Nat
  BY DEF DbInv, DbTypes, Profiles
<1>3. m.notes <= requests' /\ m \in Memories
  <2>1. profile[k].memory.notes \in 0..MaxRequests /\ profile[k].memory.notes <= requests
    BY <1>2 DEF Memories, DbInv, NotesBounded
  <2>2. profile[k].memory.notes + 1 \in 0..MaxRequests /\ profile[k].memory.notes + 1 <= requests'
    BY <1>1, <2>1, Bounds
  <2>3. m.notes = profile[k].memory.notes + 1 /\ m \in Memories
    BY <1>2, <2>2 DEF Memories, Noted
  <2>4. QED
    BY <2>2, <2>3
<1> HIDE DEF m
<1>4. /\ q \in Profiles
      /\ q.status = "ready" /\ q.revision = profile[k].revision + 1
      /\ q.environment = profile[k].environment /\ q.memory = m
  BY <1>2, <1>3, SavedRow
<1>5. /\ ~Busy(q) /\ q.status # "none" /\ q.revision > 0
      /\ profile[k].revision <= q.revision /\ profile[k].revision # q.revision
  BY <1>2, <1>4 DEF Busy
<1>6. /\ runs' \in [Runs -> RunRows]
      /\ \A o \in Runs : Exists(o)' => runs'[o].key \in Keys
      /\ \A o \in Runs : runs'[o] = runs[o]
  BY <1>1 DEF DbInv, DbTypes, RowsHaveKeys, Exists
<1> HIDE DEF q
<1>7. QED
  BY <1>1, <1>2, <1>3, <1>4, <1>5, <1>6, DraftsUnchanged, ProfileStep

LEMMA ApplyDraftStep ==
  ASSUME DbInv, requests \in Nat, NEW d \in Drafts, ApplyDraft(d)
  PROVE  DbInv'
<1> DEFINE k == drafts[d].key
           q == Saved(profile[k], drafts[d].environment, drafts[d].memory, profile[k].lastRun)
<1>1. /\ Open(d)
      /\ UNCHANGED runs /\ Counted
      /\ profile' = [profile EXCEPT ![k] = q]
      /\ drafts' = [drafts EXCEPT ![d].status = "gone"]
  BY CountedTypes DEF ApplyDraft, Applicable, Readable, counters
<1>2. k \in Keys /\ profile[k] \in Profiles /\ drafts[d] \in DraftRows
  BY <1>1 DEF DbInv, DbTypes, RowsHaveKeys
<1>3. /\ drafts[d].environment \in Environments /\ drafts[d].memory \in Memories
      /\ profile[k].lastRun \in Runs \cup {NoOne} /\ profile[k].revision \in Nat
  BY <1>2 DEF DraftRows, Profiles
<1>4. /\ q \in Profiles
      /\ q.status = "ready" /\ q.revision = profile[k].revision + 1
      /\ q.environment = drafts[d].environment /\ q.memory = drafts[d].memory
  <2> HIDE DEF k
  <2>1. QED
    BY <1>2, <1>3, SavedRow
<1>5. /\ ~Busy(q) /\ q.status # "none" /\ q.revision > 0
      /\ profile[k].revision <= q.revision /\ profile[k].revision # q.revision
  BY <1>3, <1>4 DEF Busy
<1>6. q.memory.notes <= requests'
  BY <1>1, <1>3, <1>4 DEF DbInv, NotesBounded, Counted, Memories
<1>7. /\ runs' \in [Runs -> RunRows]
      /\ \A o \in Runs : Exists(o)' => runs'[o].key \in Keys
      /\ \A o \in Runs : runs'[o] = runs[o]
  BY <1>1 DEF DbInv, DbTypes, RowsHaveKeys, Exists
<1>8. DraftsKept
  BY <1>1, <1>2 DEF DraftsKept, DbInv, DbTypes, NotesBounded, Counted, DraftRows, DraftStatus,
                    Memories, Open
<1> HIDE DEF k, q
<1>9. QED
  BY <1>1, <1>2, <1>3, <1>4, <1>5, <1>6, <1>7, <1>8, ProfileStep

LEMMA DraftedStep ==
  ASSUME DbInv, requests \in Nat, Counted, NEW d \in Drafts, NEW k \in Keys,
         profile[k].status # "none",
         drafts' = [drafts EXCEPT ![d] = Drafted(k)],
         UNCHANGED <<profile, runs>>
  PROVE  DbInv'
<1> DEFINE p == profile[k]
           row == [status |-> "unchecked", key |-> k, base |-> p.revision,
                   environment |-> p.environment, memory |-> p.memory,
                   opened |-> [environment |-> p.environment, memory |-> p.memory]]
<1>1. /\ p.status # "none"
      /\ drafts' = [drafts EXCEPT ![d] = row]
      /\ UNCHANGED <<profile, runs>> /\ requests' \in Nat /\ requests <= requests'
  BY DEF Drafted, Counted
<1>2. p \in Profiles
  BY DEF DbInv, DbTypes
<1>3. row \in DraftRows
  BY <1>2 DEF Profiles, DraftRows, DraftStatus, Contents
<1>4. drafts'[d] = row /\ \A e \in Drafts : e # d => drafts'[e] = drafts[e]
  BY <1>1 DEF DbInv, DbTypes
<1>5. DbTypes'
  BY <1>1, <1>3 DEF DbInv, DbTypes
<1>6. RowsHaveKeys'
  BY <1>1, <1>4 DEF DbInv, RowsHaveKeys, Exists, Open
<1>7. NotesBounded'
  <2>1. /\ \A j \in Keys : profile[j].memory.notes \in Nat
        /\ \A e \in Drafts : drafts[e].memory.notes \in Nat
    BY DEF DbInv, DbTypes, Profiles, DraftRows, Memories
  <2>2. QED
    BY <1>1, <1>4, <2>1 DEF DbInv, NotesBounded
<1>8. BusyProfileHasRun' /\ RevisionMatchesStatus'
  BY <1>1 DEF DbInv, BusyProfileHasRun, Busy, RevisionMatchesStatus
<1>9. DraftsFollow'
  <2>1. p.revision \in Nat
    BY <1>2 DEF Profiles
  <2>2. QED
    BY <1>1, <1>4, <2>1 DEF DbInv, DraftsFollow, Open
<1>10. QED
  BY <1>5, <1>6, <1>7, <1>8, <1>9 DEF DbInv

\* Only drafts change, and they are kept.
LEMMA DraftStep ==
  ASSUME DbInv, requests \in Nat, Counted, UNCHANGED <<profile, runs>>, DraftsKept
  PROVE  DbInv'
<1>1. DbTypes'
  BY DEF DbInv, DbTypes, DraftsKept
<1>2. RowsHaveKeys'
  BY DEF DbInv, RowsHaveKeys, Exists, DraftsKept
<1>3. NotesBounded'
  BY DEF DbInv, DbTypes, NotesBounded, Counted, DraftsKept, Profiles, Memories
<1>4. BusyProfileHasRun' /\ RevisionMatchesStatus'
  BY DEF DbInv, BusyProfileHasRun, Busy, RevisionMatchesStatus
<1>5. DraftsFollow'
  BY DEF DbInv, DraftsFollow, DraftsKept
<1>6. QED
  BY <1>1, <1>2, <1>3, <1>4, <1>5 DEF DbInv

LEMMA UpdateDraftStep ==
  ASSUME DbInv, FormInv, requests \in Nat, NEW f \in Forms, UpdateDraft(f)
  PROVE  DbInv'
<1> DEFINE d == form[f].draft
           row == [drafts[d] EXCEPT !.environment = form[f].environment,
                                    !.memory = form[f].memory,
                                    !.status = form[f].verdict]
<1>1. /\ form[f].step = "write"
      /\ drafts' = IF Open(d) THEN [drafts EXCEPT ![d] = row] ELSE drafts
      /\ UNCHANGED <<profile, runs>> /\ Counted
  BY CountedTypes DEF UpdateDraft, counters
<1>2. /\ form[f] \in FormStates /\ d \in Drafts /\ drafts[d] \in DraftRows
      /\ form[f].memory.notes <= requests
  BY <1>1 DEF FormInv, DbInv, DbTypes
<1>3. /\ row \in DraftRows /\ row.key = drafts[d].key /\ row.base = drafts[d].base
      /\ row.opened = drafts[d].opened /\ row.memory = form[f].memory
  <2> HIDE DEF d
  <2>1. /\ form[f].environment \in Environments /\ form[f].memory \in Memories
        /\ form[f].verdict \in DraftStatus
    BY <1>2 DEF FormStates
  <2>2. QED
    BY <1>2, <2>1 DEF DraftRows
<1>4. row.memory.notes <= requests'
  BY <1>1, <1>2, <1>3 DEF FormStates, Memories, Counted
<1>5. CASE Open(d)
  <2>1. drafts'[d] = row /\ \A e \in Drafts : e # d => drafts'[e] = drafts[e]
    BY <1>1, <1>2, <1>5 DEF DbInv, DbTypes
  <2>2. drafts' \in [Drafts -> DraftRows]
    <3> HIDE DEF d, row
    <3>1. QED
      BY <1>1, <1>2, <1>3, <1>5 DEF DbInv, DbTypes
  <2>3. \A e \in Drafts : drafts[e].memory.notes <= requests'
    BY <1>1 DEF DbInv, DbTypes, NotesBounded, Counted, DraftRows, Memories
  <2> HIDE DEF d, row
  <2>4. DraftsKept
    BY <1>2, <1>3, <1>4, <1>5, <2>1, <2>2, <2>3 DEF DraftsKept, Open
  <2>5. QED
    BY <1>1, <2>4, DraftStep
<1>6. CASE ~Open(d)
  BY <1>1, <1>6, DbUnchanged DEF db
<1>7. QED
  BY <1>5, <1>6

LEMMA DiscardDraftStep ==
  ASSUME DbInv, requests \in Nat, NEW d \in Drafts, DiscardDraft(d)
  PROVE  DbInv'
<1>1. /\ Open(d) /\ drafts' = [drafts EXCEPT ![d].status = "gone"]
      /\ UNCHANGED <<profile, runs>> /\ Counted
  BY CountedTypes DEF DiscardDraft, counters
<1>2. DraftsKept
  BY <1>1 DEF DraftsKept, DbInv, DbTypes, NotesBounded, Counted, DraftRows, DraftStatus,
              Memories, Open
<1>3. QED
  BY <1>1, <1>2, DraftStep

LEMMA DeleteProfileStep ==
  ASSUME DbInv, requests \in Nat, NEW k \in Keys, DeleteProfile(k)
  PROVE  DbInv'
<1>1. /\ ~Busy(profile[k])
      /\ profile' = [profile EXCEPT ![k] = NoProfile]
      /\ runs' = [r \in Runs |-> IF runs[r].key = k /\ Exists(r)
                                 THEN [runs[r] EXCEPT !.status = "deleted"] ELSE runs[r]]
      /\ drafts' = [d \in Drafts |-> IF drafts[d].key = k
                                     THEN [drafts[d] EXCEPT !.status = "gone"] ELSE drafts[d]]
  BY DEF DeleteProfile
<1>2. Counted
  BY CountedTypes DEF DeleteProfile
<1>3. profile'[k] = NoProfile /\ \A j \in Keys : j # k => profile'[j] = profile[j]
  BY <1>1 DEF DbInv, DbTypes
<1>4. \A r \in Runs : /\ runs'[r] \in RunRows /\ runs'[r].key = runs[r].key
                      /\ Exists(r)' => Exists(r)
                      /\ runs[r].key # k => runs'[r] = runs[r]
  BY <1>1 DEF DbInv, DbTypes, RunRows, RunStatus, Exists
<1>5. \A d \in Drafts : /\ drafts'[d] \in DraftRows
                        /\ drafts'[d].key = drafts[d].key /\ drafts'[d].memory = drafts[d].memory
                        /\ Open(d)' => drafts'[d] = drafts[d] /\ drafts[d].key # k
  BY <1>1 DEF DbInv, DbTypes, DraftRows, DraftStatus, Open
<1>6. DbTypes'
  BY <1>1, <1>4, <1>5, Constants DEF DbInv, DbTypes
<1>7. RowsHaveKeys'
  BY <1>4, <1>5 DEF DbInv, RowsHaveKeys, Open
<1>8. NotesBounded'
  <2>1. \A j \in Keys : profile'[j].memory.notes <= requests'
    BY <1>2, <1>3, Constants DEF DbInv, DbTypes, NotesBounded, Counted, NoProfile, Profiles, Memories
  <2>2. \A d \in Drafts : drafts'[d].memory.notes <= requests'
    BY <1>2, <1>5 DEF DbInv, DbTypes, NotesBounded, Counted, DraftRows, Memories
  <2>3. QED
    BY <2>1, <2>2 DEF NotesBounded
<1>9. BusyProfileHasRun'
  <2>1. ~Busy(profile'[k])
    BY <1>3 DEF Busy, NoProfile
  <2>2. QED
    BY <1>3, <1>4, <2>1 DEF DbInv, BusyProfileHasRun, Busy
<1>10. RevisionMatchesStatus'
  BY <1>3 DEF DbInv, RevisionMatchesStatus, NoProfile, Placeholder
<1>11. DraftsFollow'
  BY <1>3, <1>5 DEF DbInv, RowsHaveKeys, DraftsFollow, Open
<1>12. QED
  BY <1>6, <1>7, <1>8, <1>9, <1>10, <1>11 DEF DbInv

--------------------------------------------------------------------------------
\* Steps on the forms.

LEMMA VerdictType ==
  ASSUME NEW environment, NEW memory
  PROVE  Verdict(environment, memory) \in DraftStatus
BY DEF Verdict, DraftStatus

\* The state of a form f is replaced.
LEMMA FormPut ==
  ASSUME FormInv, requests \in Nat, Counted, NEW f \in Forms, NEW state \in FormStates,
         state.memory.notes <= requests',
         state.step # "idle" => state.draft \in Drafts,
         form' = [form EXCEPT ![f] = state]
  PROVE  FormInv'
<1>1. form'[f] = state /\ \A g \in Forms : g # f => form'[g] = form[g]
  BY DEF FormInv
<1>2. \A g \in Forms : form[g].memory.notes <= requests'
  BY DEF FormInv, Counted, FormStates, Memories
<1>3. QED
  BY <1>1, <1>2 DEF FormInv

LEMMA SubmitFormStep ==
  ASSUME DbInv, FormInv, requests \in Nat, NEW f \in Forms, NEW d \in Drafts, SubmitForm(f, d)
  PROVE  FormInv'
<1>1. PICK ok \in BOOLEAN :
        \E environment \in {drafts[d].environment, Environment(Editor, ok)},
           memory \in {drafts[d].memory, Memory(Editor, ok)} :
          form' = [form EXCEPT ![f] =
            [step |-> "reread", draft |-> d, edits |-> TRUE, environment |-> environment,
             memory |-> memory, verdict |-> Verdict(environment, memory)]]
  BY DEF SubmitForm
<1>2. PICK environment \in {drafts[d].environment, Environment(Editor, ok)},
           memory \in {drafts[d].memory, Memory(Editor, ok)} :
        form' = [form EXCEPT ![f] =
          [step |-> "reread", draft |-> d, edits |-> TRUE, environment |-> environment,
           memory |-> memory, verdict |-> Verdict(environment, memory)]]
  BY <1>1
<1> DEFINE state == [step |-> "reread", draft |-> d, edits |-> TRUE, environment |-> environment,
                     memory |-> memory, verdict |-> Verdict(environment, memory)]
<1>3. Counted
  BY CountedTypes DEF SubmitForm
<1>4. drafts[d] \in DraftRows /\ drafts[d].memory.notes <= requests
  BY DEF DbInv, DbTypes, NotesBounded
<1>5. environment \in Environments /\ memory \in Memories
  BY <1>4, Written DEF DraftRows
<1>6. state \in FormStates
  BY <1>5, VerdictType DEF FormStates
<1>7. memory.notes <= requests'
  BY <1>2, <1>3, <1>4, Written DEF DraftRows, Memories, Counted
<1>8. QED
  BY <1>2, <1>3, <1>6, <1>7, FormPut

LEMMA ImportFilesStep ==
  ASSUME DbInv, FormInv, requests \in Nat, NEW f \in Forms, NEW d \in Drafts, NEW k \in Keys,
         ImportFiles(f, d, k)
  PROVE  FormInv'
<1>1. Counted
  BY CountedTypes DEF ImportFiles
<1>2. profile[k] \in Profiles /\ profile[k].memory.notes <= requests
  BY DEF DbInv, DbTypes, NotesBounded
<1>3. CASE \E environment \in {profile[k].environment, Environment(Editor, TRUE)},
               memory \in {profile[k].memory, Memory(Editor, TRUE)} :
             form' = [form EXCEPT ![f] =
               [step |-> "reread", draft |-> d, edits |-> TRUE, environment |-> environment,
                memory |-> memory, verdict |-> "valid"]]
  <2>1. PICK environment \in {profile[k].environment, Environment(Editor, TRUE)},
             memory \in {profile[k].memory, Memory(Editor, TRUE)} :
               form' = [form EXCEPT ![f] =
                 [step |-> "reread", draft |-> d, edits |-> TRUE, environment |-> environment,
                  memory |-> memory, verdict |-> "valid"]]
    BY <1>3
  <2> DEFINE state == [step |-> "reread", draft |-> d, edits |-> TRUE, environment |-> environment,
                       memory |-> memory, verdict |-> "valid"]
  <2>2. environment \in Environments /\ memory \in Memories
    <3>1. profile[k].environment \in Environments /\ profile[k].memory \in Memories
      BY <1>2 DEF Profiles
    <3>2. QED
      BY <3>1, Written
  <2>3. state \in FormStates
    BY <2>2 DEF FormStates, DraftStatus
  <2>4. memory.notes <= requests'
    <3>1. memory = profile[k].memory \/ memory.notes = 0
      BY <2>1, Written
    <3>2. QED
      BY <1>1, <1>2, <3>1 DEF Profiles, Memories, Counted
  <2>5. QED
    BY <1>1, <2>1, <2>3, <2>4, FormPut
<1>4. CASE form' = [form EXCEPT ![f] = [NoForm EXCEPT
             !.step = "reread", !.draft = d, !.verdict = "invalid"]]
  <2> DEFINE state == [NoForm EXCEPT !.step = "reread", !.draft = d, !.verdict = "invalid"]
  <2>1. state \in FormStates /\ state.memory = NoMemory /\ state.draft = d
    BY Constants DEF NoForm, FormStates, DraftStatus
  <2>2. state.memory.notes <= requests'
    BY <1>1, <2>1, Constants DEF Counted
  <2>3. form' = [form EXCEPT ![f] = state]
    BY <1>4
  <2> HIDE DEF state
  <2>4. QED
    BY <1>1, <2>1, <2>2, <2>3, FormPut
<1>5. QED
  BY <1>3, <1>4 DEF ImportFiles

LEMMA PressValidateStep ==
  ASSUME FormInv, requests \in Nat, NEW f \in Forms, NEW d \in Drafts, PressValidate(f, d)
  PROVE  FormInv'
<1> DEFINE state == [NoForm EXCEPT !.step = "reread", !.draft = d,
                                   !.verdict = Verdict(drafts[d].environment, drafts[d].memory)]
<1>1. Counted /\ form' = [form EXCEPT ![f] = state]
  BY CountedTypes DEF PressValidate
<1>2. state \in FormStates /\ state.memory = NoMemory /\ state.draft = d
  BY Constants, VerdictType DEF NoForm, FormStates
<1>3. state.memory.notes <= requests'
  BY <1>1, <1>2, Constants DEF Counted
<1> HIDE DEF state
<1>4. QED
  BY <1>1, <1>2, <1>3, FormPut

LEMMA RereadDraftStep ==
  ASSUME DbInv, FormInv, requests \in Nat, NEW f \in Forms, RereadDraft(f)
  PROVE  FormInv'
<1> DEFINE d == form[f].draft
           state == IF ~Readable(d) THEN NoForm
                    ELSE IF form[f].edits THEN [form[f] EXCEPT !.step = "write"]
                    ELSE [form[f] EXCEPT !.step = "write", !.environment = drafts[d].environment,
                                         !.memory = drafts[d].memory]
<1>1. Counted /\ form' = [form EXCEPT ![f] = state] /\ form[f].step = "reread"
  BY CountedTypes DEF RereadDraft, counters
<1>2. /\ form[f] \in FormStates /\ d \in Drafts /\ drafts[d] \in DraftRows
      /\ drafts[d].memory.notes <= requests /\ form[f].memory.notes <= requests
  BY <1>1 DEF FormInv, DbInv, DbTypes, NotesBounded
<1>3. /\ state \in FormStates
      /\ state.step # "idle" => state.draft \in Drafts
      /\ state.memory.notes \in {0, drafts[d].memory.notes, form[f].memory.notes}
  <2>1. CASE Readable(d)
    BY <1>2, <2>1 DEF FormStates, DraftRows
  <2>2. CASE ~Readable(d)
    BY <2>2, Constants
  <2>3. QED
    BY <2>1, <2>2
<1>4. state.memory.notes <= requests'
  BY <1>1, <1>2, <1>3 DEF DraftRows, FormStates, Memories, Counted
<1> HIDE DEF state
<1>5. QED
  BY <1>1, <1>3, <1>4, FormPut

LEMMA UpdateFormStep ==
  ASSUME FormInv, requests \in Nat, NEW f \in Forms, UpdateDraft(f)
  PROVE  FormInv'
<1>1. Counted /\ form' = [form EXCEPT ![f] = NoForm]
  BY CountedTypes DEF UpdateDraft, counters
<1>2. NoForm.memory.notes <= requests'
  BY <1>1, Constants DEF Counted
<1>3. QED
  BY <1>1, <1>2, Constants, FormPut

--------------------------------------------------------------------------------
\* The invariant.

LEMMA InitInv == Init => IInv
<1> SUFFICES ASSUME Init PROVE IInv
  OBVIOUS
<1>1. DbInv
  <2>1. NoRun \in RunRows /\ NoDraft \in DraftRows /\ NoDraft.memory.notes = 0
    BY Constants DEF NoRun, RunRows, RunStatus, NoDraft, DraftRows, DraftStatus, NoContent, Contents
  <2>2. DbTypes
    BY <2>1, Constants DEF Init, DbTypes
  <2>3. RowsHaveKeys /\ DraftsFollow
    BY DEF Init, RowsHaveKeys, Exists, NoRun, DraftsFollow, Open, NoDraft
  <2>4. NotesBounded
    BY <2>1, Constants DEF Init, NotesBounded, NoProfile
  <2>5. BusyProfileHasRun /\ RevisionMatchesStatus
    BY DEF Init, BusyProfileHasRun, Busy, RevisionMatchesStatus, NoProfile
  <2>6. QED
    BY <2>2, <2>3, <2>4, <2>5 DEF DbInv
<1>2. FormInv
  BY Constants DEF Init, FormInv
<1>3. ProcessTypes
  BY Bounds DEF Init, ProcessTypes
<1>4. QED
  BY <1>1, <1>2, <1>3 DEF IInv

LEMMA NextDb ==
  ASSUME IInv, Next
  PROVE  DbInv'
<1>1. DbInv /\ FormInv /\ requests \in Nat /\ requests \in 0..MaxRequests
  BY Bounds DEF IInv, ProcessTypes
<1>2. CASE \E r \in Runs, k \in Keys, update \in BOOLEAN : StartRun(r, k, update)
  BY <1>1, <1>2, StartRunStep
<1>3. CASE \E r \in Runs : WizardStep(r)
  <2> PICK r \in Runs : WizardStep(r)
    BY <1>3
  <2>1. CASE Prepare(r)
    BY <1>1, <2>1, FailRunStep, DbUnchanged, CountedTypes DEF Prepare, counters, db
  <2>2. CASE ReadPatch(r) \/ OpenThread(r)
    BY <1>1, <2>2, DbUnchanged, CountedTypes DEF ReadPatch, OpenThread, counters
  <2>3. CASE WritePatch(r)
    BY <1>1, <2>3, WritePatchStep
  <2>4. CASE DispatchSetup(r)
    BY <1>1, <2>4, FailRunStep, DbUnchanged, CountedTypes DEF DispatchSetup, counters, db
  <2>5. QED
    BY <2>1, <2>2, <2>3, <2>4 DEF WizardStep
<1>4. CASE \E r \in Runs : \/ PromoteRun(r) \/ HandleAgentFailure(r) \/ AgentEnds(r)
                           \/ HandleAgentEnd(r) \/ Recover(r)
  <2> PICK r \in Runs : \/ PromoteRun(r) \/ HandleAgentFailure(r) \/ AgentEnds(r)
                        \/ HandleAgentEnd(r) \/ Recover(r)
    BY <1>4
  <2>1. CASE PromoteRun(r)
    BY <1>1, <2>1, PromoteRunStep
  <2>2. CASE HandleAgentFailure(r) \/ HandleAgentEnd(r) \/ Recover(r)
    BY <1>1, <2>2, FailRunStep, CountedTypes
       DEF HandleAgentFailure, HandleAgentEnd, Recover, counters
  <2>3. CASE AgentEnds(r)
    BY <1>1, <2>3, DbUnchanged, CountedTypes DEF AgentEnds, counters
  <2>4. QED
    BY <2>1, <2>2, <2>3
<1>5. CASE \/ \E d \in Drafts, k \in Keys : CreateDraft(d, k)
           \/ \E f \in Forms, d \in Drafts, k \in Keys : ImportFiles(f, d, k)
  BY <1>1, <1>5, DraftedStep, CountedTypes DEF CreateDraft, ImportFiles, counters
<1>6. CASE \E f \in Forms, d \in Drafts : SubmitForm(f, d) \/ PressValidate(f, d)
  BY <1>1, <1>6, DbUnchanged, CountedTypes DEF SubmitForm, PressValidate
<1>7. CASE \E f \in Forms : EditorStep(f)
  BY <1>1, <1>7, DbUnchanged, UpdateDraftStep, CountedTypes DEF EditorStep, RereadDraft, counters
<1>8. CASE \E d \in Drafts : ApplyDraft(d) \/ DiscardDraft(d)
  BY <1>1, <1>8, ApplyDraftStep, DiscardDraftStep
<1>9. CASE \E k \in Keys : DeleteProfile(k) \/ AppendMemory(k)
  BY <1>1, <1>9, DeleteProfileStep, AppendMemoryStep
<1>10. CASE Crash
  BY <1>1, <1>10, DbUnchanged, CountedTypes DEF Crash
<1>11. QED
  BY <1>2, <1>3, <1>4, <1>5, <1>6, <1>7, <1>8, <1>9, <1>10 DEF Next

LEMMA NextForm ==
  ASSUME IInv, Next
  PROVE  FormInv'
<1>1. DbInv /\ FormInv /\ requests \in Nat
  BY Bounds DEF IInv, ProcessTypes
<1>2. CASE UNCHANGED form /\ Counted
  BY <1>1, <1>2, FormUnchanged
<1>3. CASE \E r \in Runs, k \in Keys, update \in BOOLEAN : StartRun(r, k, update)
  BY <1>1, <1>2, <1>3, CountedTypes DEF StartRun
<1>4. CASE \E r \in Runs : WizardStep(r)
  BY <1>1, <1>2, <1>4, CountedTypes
     DEF WizardStep, Prepare, ReadPatch, WritePatch, OpenThread, DispatchSetup, counters
<1>5. CASE \E r \in Runs : \/ PromoteRun(r) \/ HandleAgentFailure(r) \/ AgentEnds(r)
                           \/ HandleAgentEnd(r) \/ Recover(r)
  BY <1>1, <1>2, <1>5, CountedTypes
     DEF PromoteRun, HandleAgentFailure, AgentEnds, HandleAgentEnd, Recover, counters
<1>6. CASE \E d \in Drafts, k \in Keys : CreateDraft(d, k)
  BY <1>1, <1>2, <1>6, CountedTypes DEF CreateDraft, counters
<1>7. CASE \/ \E f \in Forms, d \in Drafts : SubmitForm(f, d) \/ PressValidate(f, d)
           \/ \E f \in Forms, d \in Drafts, k \in Keys : ImportFiles(f, d, k)
  BY <1>1, <1>7, SubmitFormStep, PressValidateStep, ImportFilesStep
<1>8. CASE \E f \in Forms : EditorStep(f)
  BY <1>1, <1>8, RereadDraftStep, UpdateFormStep DEF EditorStep
<1>9. CASE \E d \in Drafts : ApplyDraft(d) \/ DiscardDraft(d)
  BY <1>1, <1>2, <1>9, CountedTypes DEF ApplyDraft, DiscardDraft, counters
<1>10. CASE \E k \in Keys : DeleteProfile(k) \/ AppendMemory(k)
  BY <1>1, <1>2, <1>10, CountedTypes DEF DeleteProfile, AppendMemory
<1>11. CASE Crash
  BY <1>1, <1>11, Constants DEF Crash, FormInv
<1>12. QED
  BY <1>3, <1>4, <1>5, <1>6, <1>7, <1>8, <1>9, <1>10, <1>11 DEF Next

LEMMA NextProcess ==
  ASSUME IInv, Next
  PROVE  ProcessTypes'
<1>1. ProcessTypes /\ runs \in [Runs -> RunRows]
  BY DEF IInv, DbInv, DbTypes
<1>2. MaxRequests \in Nat /\ MaxCrashes \in Nat
  BY Bounds
<1>3. requests' \in 0..MaxRequests /\ crashes' \in 0..MaxCrashes
  <2>1. Request => requests' \in 0..MaxRequests
    BY <1>1, <1>2 DEF ProcessTypes, Request
  <2>2. crashes < MaxCrashes /\ crashes' = crashes + 1 => crashes' \in 0..MaxCrashes
    BY <1>1, <1>2 DEF ProcessTypes
  <2>3. Request \/ UNCHANGED requests
    BY DEF Next, StartRun, WizardStep, Prepare, ReadPatch, WritePatch, OpenThread,
           DispatchSetup, PromoteRun, HandleAgentFailure, AgentEnds, HandleAgentEnd, Recover,
           CreateDraft, ImportFiles, SubmitForm, PressValidate, EditorStep, RereadDraft, UpdateDraft,
           ApplyDraft, DiscardDraft, DeleteProfile, AppendMemory, Crash, counters
  <2>4. (crashes < MaxCrashes /\ crashes' = crashes + 1) \/ UNCHANGED crashes
    BY DEF Next, StartRun, WizardStep, Prepare, ReadPatch, WritePatch, OpenThread,
           DispatchSetup, PromoteRun, HandleAgentFailure, AgentEnds, HandleAgentEnd, Recover,
           CreateDraft, ImportFiles, SubmitForm, PressValidate, EditorStep, RereadDraft, UpdateDraft,
           ApplyDraft, DiscardDraft, DeleteProfile, AppendMemory, Crash, counters
  <2>5. QED
    BY <1>1, <2>1, <2>2, <2>3, <2>4 DEF ProcessTypes
<1>4. CASE \E r \in Runs, k \in Keys, update \in BOOLEAN : StartRun(r, k, update)
  BY <1>1, <1>3, <1>4 DEF ProcessTypes, StartRun
<1>5. CASE \E r \in Runs : WizardStep(r)
  BY <1>1, <1>3, <1>5
     DEF ProcessTypes, WizardStep, Prepare, ReadPatch, WritePatch, OpenThread, DispatchSetup
<1>6. CASE \E r \in Runs : \/ PromoteRun(r) \/ HandleAgentFailure(r) \/ AgentEnds(r)
                           \/ HandleAgentEnd(r) \/ Recover(r)
  BY <1>1, <1>3, <1>6
     DEF ProcessTypes, PromoteRun, HandleAgentFailure, AgentEnds, HandleAgentEnd, Recover, process
<1>7. CASE Crash
  BY <1>1, <1>3, <1>7 DEF ProcessTypes, Crash
<1>8. CASE \/ \E d \in Drafts, k \in Keys : CreateDraft(d, k)
           \/ \E f \in Forms, d \in Drafts : SubmitForm(f, d) \/ PressValidate(f, d)
           \/ \E f \in Forms, d \in Drafts, k \in Keys : ImportFiles(f, d, k)
           \/ \E f \in Forms : EditorStep(f)
           \/ \E d \in Drafts : ApplyDraft(d) \/ DiscardDraft(d)
           \/ \E k \in Keys : DeleteProfile(k) \/ AppendMemory(k)
  <2>1. UNCHANGED <<wizard, agent, typing, boot>>
    BY <1>8
       DEF CreateDraft, ImportFiles, SubmitForm, PressValidate, EditorStep, RereadDraft, UpdateDraft,
           ApplyDraft, DiscardDraft, DeleteProfile, AppendMemory, process
  <2>2. QED
    BY <1>1, <1>3, <2>1 DEF ProcessTypes
<1>9. QED
  BY <1>4, <1>5, <1>6, <1>7, <1>8 DEF Next

LEMMA StutterInv == IInv /\ UNCHANGED vars => IInv'
BY DbUnchanged, FormUnchanged, CountedTypes, Bounds
   DEF IInv, ProcessTypes, vars, process, counters

LEMMA Invariant == Spec => []IInv
<1>1. Init => IInv
  BY InitInv
<1>2. IInv /\ [Next]_vars => IInv'
  BY NextDb, NextForm, NextProcess, StutterInv DEF IInv
<1>3. QED
  BY <1>1, <1>2, PTL DEF Spec

\* Rows, processes and counters have their types in every reachable state, for
\* any number of keys, runs, drafts and interactions.
THEOREM TypeCorrect == Spec => []TypeOK
BY Invariant, IInvTypeOK, PTL

\* A profile that is running or updating is always held by a run that is
\* running (setup/store.ts:195-287, 411-474).
THEOREM BusyProfileIsHeld == Spec => []BusyProfileHasRun
<1>1. IInv => BusyProfileHasRun
  BY DEF IInv, DbInv
<1>2. QED
  BY <1>1, Invariant, PTL

\* The revision tells what failRun needs to know about the status
\* (setup/store.ts:455).
THEOREM RevisionCorrect == Spec => []RevisionMatchesStatus
<1>1. IInv => RevisionMatchesStatus
  BY DEF IInv, DbInv
<1>2. QED
  BY <1>1, Invariant, PTL

--------------------------------------------------------------------------------
\* Steps.

\* A draft that is applied replaces the memory it was opened with
\* (setup/store.ts:544-602): DraftsFollow says that the revision tells.
THEOREM MemoryIsKept == Spec => ApplyKeepsMemory
<1>1. ASSUME IInv, NEW d \in Drafts, ApplyDraft(d)
      PROVE  profile[drafts[d].key].memory = drafts[d].opened.memory
  BY <1>1 DEF IInv, DbInv, DraftsFollow, ApplyDraft, Applicable, Readable
<1>2. IInv => [\A d \in Drafts : ApplyDraft(d) =>
                 profile[drafts[d].key].memory = drafts[d].opened.memory]_vars
  BY <1>1
<1>3. QED
  BY <1>2, Invariant, PTL DEF ApplyKeepsMemory

\* Nor does it replace an environment that it was not opened with, unless that
\* is what a wizard patched in (setup/store.ts:158-193, 544-602): every other
\* write to an environment makes a revision.
THEOREM EnvironmentIsKept == Spec => OnlyPatchesLost
<1> DEFINE Kept(d) == LET lost == profile[drafts[d].key].environment
                      IN  lost = drafts[d].opened.environment \/ lost.patch
<1>1. ASSUME IInv, NEW d \in Drafts, ApplyDraft(d)
      PROVE  Kept(d)
  BY <1>1 DEF IInv, DbInv, DraftsFollow, ApplyDraft, Applicable, Readable
<1>2. IInv => [\A d \in Drafts : ApplyDraft(d) => Kept(d)]_vars
  BY <1>1
<1>3. QED
  BY <1>2, Invariant, PTL DEF OnlyPatchesLost

--------------------------------------------------------------------------------
\* The refinement: a step writes at most one profile, and what it makes of the
\* row is a step of the lifecycle or none.

LEMMA RowFields ==
  ASSUME NEW k \in Keys, NEW q,
         \A j \in Keys : profile'[j] = IF j = k THEN q ELSE profile[j]
  PROVE  /\ [j \in Keys |-> profile[j].status]' =
              [[j \in Keys |-> profile[j].status] EXCEPT ![k] = q.status]
         /\ [j \in Keys |-> profile[j].revision]' =
              [[j \in Keys |-> profile[j].revision] EXCEPT ![k] = q.revision]
         /\ [j \in Keys |-> profile[j].memory]' =
              [[j \in Keys |-> profile[j].memory] EXCEPT ![k] = q.memory]
OBVIOUS

LEMMA SaveImplements ==
  ASSUME DbInv, NEW k \in Keys, profile[k].status # "none",
         NEW environment \in Environments, NEW memory \in Memories,
         NEW lastRun \in Runs \cup {NoOne},
         profile' = [profile EXCEPT ![k] = Saved(profile[k], environment, memory, lastRun)]
  PROVE  Lifecycle!Save(k)
<1> DEFINE q == Saved(profile[k], environment, memory, lastRun)
<1>1. /\ q.status = "ready" /\ q.revision = profile[k].revision + 1 /\ q.memory = memory
      /\ \A j \in Keys : profile'[j] = IF j = k THEN q ELSE profile[j]
  BY DEF DbInv, DbTypes, Saved
<1>2. /\ [j \in Keys |-> profile[j].status]' =
           [[j \in Keys |-> profile[j].status] EXCEPT ![k] = q.status]
      /\ [j \in Keys |-> profile[j].revision]' =
           [[j \in Keys |-> profile[j].revision] EXCEPT ![k] = q.revision]
      /\ [j \in Keys |-> profile[j].memory]' =
           [[j \in Keys |-> profile[j].memory] EXCEPT ![k] = q.memory]
  <2> HIDE DEF q
  <2>1. QED
    BY <1>1, RowFields
<1> HIDE DEF q
<1>3. /\ [j \in Keys |-> profile[j].status]' =
           [[j \in Keys |-> profile[j].status] EXCEPT ![k] = "ready"]
      /\ [j \in Keys |-> profile[j].revision]' =
           [[j \in Keys |-> profile[j].revision] EXCEPT ![k] = profile[k].revision + 1]
      /\ [j \in Keys |-> profile[j].memory]' =
           [[j \in Keys |-> profile[j].memory] EXCEPT ![k] = memory]
  BY <1>1, <1>2
<1>4. QED
  BY <1>3 DEF Lifecycle!Save

LEMMA FailRunImplements ==
  ASSUME DbInv, NEW r \in Runs, FailRun(r)
  PROVE  UNCHANGED profile \/ \E k \in Keys : Lifecycle!GiveUp(k)
<1>1. CASE ~Failable(r)
  BY <1>1 DEF FailRun
<1>2. CASE Failable(r)
  <2>1. PICK k \in Keys : k = runs[r].key
    BY <1>2 DEF Failable, DbInv, RowsHaveKeys, Exists
  <2> DEFINE status == IF profile[k].revision > 0 THEN "ready" ELSE "failed"
  <2>2. /\ Busy(profile[k])
        /\ profile' = [profile EXCEPT ![k].status = status]
    BY <1>2, <2>1 DEF FailRun, Failable, Holds, ProfileOf
  <2>3. profile[k] \in Profiles
    BY DEF DbInv, DbTypes
  <2>4. /\ profile[k].status = "updating" => status = "ready"
        /\ profile[k].status = "running" => status = "failed"
    BY DEF DbInv, RevisionMatchesStatus
  <2> HIDE DEF status
  <2>5. \A j \in Keys : /\ profile'[j].status = IF j = k THEN status ELSE profile[j].status
                        /\ profile'[j].revision = profile[j].revision
                        /\ profile'[j].memory = profile[j].memory
    BY <2>2, <2>3 DEF DbInv, DbTypes, Profiles
  <2>6. Lifecycle!GiveUp(k)
    BY <2>2, <2>4, <2>5 DEF Lifecycle!GiveUp, Busy
  <2>7. QED
    BY <2>6
<1>3. QED
  BY <1>1, <1>2

LEMMA StartRunImplements ==
  ASSUME DbInv, NEW r \in Runs, NEW k \in Keys, NEW update \in BOOLEAN, StartRun(r, k, update)
  PROVE  Lifecycle!Create(k) \/ Lifecycle!Restart(k)
<1> DEFINE q == Started(profile[k], r)
<1>1. /\ profile[k].status \in {"none", "ready", "failed"}
      /\ profile' = [profile EXCEPT ![k] = q]
      /\ profile[k] \in Profiles
  BY DEF StartRun, DbInv, DbTypes
<1>2. \A j \in Keys : profile'[j] = IF j = k THEN q ELSE profile[j]
  BY <1>1 DEF DbInv, DbTypes
<1>3. CASE profile[k].status = "none"
  <2>1. q.status = "running" /\ q.revision = 0 /\ q.memory = NoMemory
    BY <1>3 DEF Started, NoProfile
  <2> HIDE DEF q
  <2>2. QED
    BY <1>2, <1>3, <2>1, Constants DEF Lifecycle!Create
<1>4. CASE profile[k].status # "none"
  <2>1. /\ q.status = IF profile[k].status = "ready" THEN "updating" ELSE "running"
        /\ q.revision = profile[k].revision /\ q.memory = profile[k].memory
    BY <1>1, <1>4 DEF Started, Profiles
  <2> HIDE DEF q
  <2>2. /\ [j \in Keys |-> profile[j].revision]' = [j \in Keys |-> profile[j].revision]
        /\ [j \in Keys |-> profile[j].memory]' = [j \in Keys |-> profile[j].memory]
    BY <1>2, <2>1
  <2>3. [j \in Keys |-> profile[j].status]' =
          [[j \in Keys |-> profile[j].status] EXCEPT ![k] = q.status]
    BY <1>2, RowFields
  <2>4. \/ profile[k].status = "ready" /\ q.status = "updating"
        \/ profile[k].status = "failed" /\ q.status = "running"
    BY <1>1, <1>4, <2>1
  <2>5. QED
    BY <2>2, <2>3, <2>4 DEF Lifecycle!Restart
<1>5. QED
  BY <1>3, <1>4

LEMMA WritePatchImplements ==
  ASSUME DbInv, NEW r \in Runs, WritePatch(r)
  PROVE  \A j \in Keys : /\ profile'[j].status = profile[j].status
                         /\ profile'[j].revision = profile[j].revision
                         /\ profile'[j].memory = profile[j].memory
BY DEF WritePatch, DbInv, DbTypes, RowsHaveKeys, Profiles

LEMMA DeleteProfileImplements ==
  ASSUME DbInv, NEW k \in Keys, DeleteProfile(k)
  PROVE  Lifecycle!Remove(k)
<1>1. /\ profile[k] \in Profiles
      /\ profile[k].status # "none" /\ ~Busy(profile[k])
      /\ \A j \in Keys : profile'[j] = IF j = k THEN NoProfile ELSE profile[j]
  BY DEF DeleteProfile, DbInv, DbTypes
<1>2. profile[k].status \in {"ready", "failed"}
  BY <1>1 DEF Profiles, ProfileStatus, Busy
<1>3. NoProfile.status = "none" /\ NoProfile.revision = 0 /\ NoProfile.memory \in Memories
  BY Constants DEF NoProfile
<1>4. QED
  BY <1>1, <1>2, <1>3 DEF Lifecycle!Remove

LEMMA NextImplements ==
  ASSUME IInv, Next
  PROVE  Lifecycle!Next \/ UNCHANGED Lifecycle!vars
<1>1. DbInv /\ requests \in 0..MaxRequests
  BY DEF IInv, ProcessTypes
<1>2. CASE UNCHANGED profile
  BY <1>2 DEF Lifecycle!vars
<1>3. CASE \E k \in Keys : \/ Lifecycle!Create(k) \/ Lifecycle!Restart(k)
                           \/ Lifecycle!GiveUp(k) \/ Lifecycle!Save(k) \/ Lifecycle!Remove(k)
  BY <1>3 DEF Lifecycle!Next
<1>4. CASE \E r \in Runs, k \in Keys, update \in BOOLEAN : StartRun(r, k, update)
  BY <1>1, <1>3, <1>4, StartRunImplements
<1>5. CASE \E r \in Runs : FailRun(r)
  BY <1>1, <1>2, <1>3, <1>5, FailRunImplements
<1>6. CASE \E r \in Runs : WizardStep(r)
  <2> PICK r \in Runs : WizardStep(r)
    BY <1>6
  <2>1. CASE WritePatch(r)
    BY <1>1, <2>1, WritePatchImplements DEF Lifecycle!vars
  <2>2. CASE Prepare(r) \/ ReadPatch(r) \/ OpenThread(r) \/ DispatchSetup(r)
    BY <1>2, <1>5, <2>2 DEF Prepare, ReadPatch, OpenThread, DispatchSetup, db
  <2>3. QED
    BY <2>1, <2>2 DEF WizardStep
<1>7. CASE \E r \in Runs : PromoteRun(r)
  <2> PICK r \in Runs : PromoteRun(r)
    BY <1>7
  <2>1. CASE UNCHANGED profile
    BY <1>2, <2>1
  <2>2. CASE ~UNCHANGED profile
    <3>1. runs[r].status = "running" /\ Busy(ProfileOf(r))
      BY <2>2 DEF PromoteRun
    <3>2. PICK k \in Keys : k = runs[r].key
      BY <1>1, <3>1 DEF DbInv, RowsHaveKeys, Exists
    <3>3. /\ profile[k].status # "none"
          /\ profile' = [profile EXCEPT ![k] =
               Saved(profile[k], Environment(r, TRUE), Memory(r, TRUE), r)]
      BY <3>1, <3>2 DEF PromoteRun, ProfileOf, Busy
    <3>4. Environment(r, TRUE) \in Environments /\ Memory(r, TRUE) \in Memories
      BY Written
    <3>5. Lifecycle!Save(k)
      BY <1>1, <3>3, <3>4, SaveImplements
    <3>6. QED
      BY <1>3, <3>5
  <2>3. QED
    BY <2>1, <2>2
<1>8. CASE \E r \in Runs : HandleAgentFailure(r) \/ AgentEnds(r) \/ HandleAgentEnd(r) \/ Recover(r)
  BY <1>2, <1>5, <1>8 DEF HandleAgentFailure, AgentEnds, HandleAgentEnd, Recover, db
<1>9. CASE \/ \E d \in Drafts, k \in Keys : CreateDraft(d, k)
           \/ \E f \in Forms, d \in Drafts : SubmitForm(f, d) \/ PressValidate(f, d)
           \/ \E f \in Forms, d \in Drafts, k \in Keys : ImportFiles(f, d, k)
           \/ \E f \in Forms : EditorStep(f)
           \/ \E d \in Drafts : DiscardDraft(d)
           \/ Crash
  BY <1>2, <1>9 DEF CreateDraft, ImportFiles, SubmitForm, PressValidate, EditorStep, RereadDraft, UpdateDraft,
                    DiscardDraft, Crash, db
<1>10. CASE \E d \in Drafts : ApplyDraft(d)
  <2> PICK d \in Drafts : ApplyDraft(d)
    BY <1>10
  <2>1. PICK k \in Keys : k = drafts[d].key
    BY <1>1 DEF ApplyDraft, Applicable, Readable, DbInv, RowsHaveKeys
  <2>2. /\ profile[k].status # "none"
        /\ profile' = [profile EXCEPT ![k] =
             Saved(profile[k], drafts[d].environment, drafts[d].memory, profile[k].lastRun)]
    BY <1>1, <2>1 DEF ApplyDraft, Applicable, Readable, DbInv, DraftsFollow
  <2>3. PICK environment \in Environments, memory \in Memories, lastRun \in Runs \cup {NoOne} :
          /\ environment = drafts[d].environment /\ memory = drafts[d].memory
          /\ lastRun = profile[k].lastRun
    BY <1>1 DEF DbInv, DbTypes, DraftRows, Profiles
  <2>4. Lifecycle!Save(k)
    BY <1>1, <2>2, <2>3, SaveImplements
  <2>5. QED
    BY <1>3, <2>4
<1>11. CASE \E k \in Keys : DeleteProfile(k)
  BY <1>1, <1>3, <1>11, DeleteProfileImplements
<1>12. CASE \E k \in Keys : AppendMemory(k)
  <2> PICK k \in Keys : AppendMemory(k)
    BY <1>12
  <2> DEFINE m == Noted(profile[k].memory)
  <2>1. /\ profile[k].status = "ready" /\ requests < MaxRequests
        /\ profile' = [profile EXCEPT ![k] =
             Saved(profile[k], profile[k].environment, m, profile[k].lastRun)]
    BY DEF AppendMemory, Request
  <2>2. /\ profile[k].environment \in Environments /\ profile[k].memory \in Memories
        /\ profile[k].lastRun \in Runs \cup {NoOne}
        /\ profile[k].memory.notes <= requests
    BY <1>1 DEF DbInv, DbTypes, NotesBounded, Profiles
  <2>3. m \in Memories
    BY <1>1, <2>1, <2>2, Bounds DEF Memories, Noted
  <2> HIDE DEF m
  <2>4. Lifecycle!Save(k)
    BY <1>1, <2>1, <2>2, <2>3, SaveImplements
  <2>5. QED
    BY <1>3, <2>4
<1>13. QED
  BY <1>4, <1>6, <1>7, <1>8, <1>9, <1>10, <1>11, <1>12 DEF Next

\* The store, with its wizards, agents, editors and restarts, implements the
\* lifecycle of a profile (setup/store.ts:195-753).
THEOREM ProfileRefinement == Spec => ImplementsProfileLifecycle
<1>1. Init => Lifecycle!Init
  BY Constants DEF Init, Lifecycle!Init, NoProfile
<1>2. IInv /\ [Next]_vars => [Lifecycle!Next]_(Lifecycle!vars)
  BY NextImplements DEF vars, db, Lifecycle!vars
<1>3. QED
  BY <1>1, <1>2, Invariant, PTL DEF Spec, ImplementsProfileLifecycle, Lifecycle!Spec

================================================================================
