----------------------------- MODULE CommandProofs -----------------------------
(***************************************************************************)
(* What forgelab's commands leave behind: that a settings write never      *)
(* undoes a first push for good, that reset only rewinds, and that exit    *)
(* code 0 is earned -- for every fleet, number of repositories and of      *)
(* faults, and every forge the hypotheses of each theorem allow.           *)
(*                                                                         *)
(* All three rest on the course of a command (Course): which phase belongs *)
(* to which command, and which stages of a task to which phase.            *)
(***************************************************************************)
EXTENDS SandboxProofs

Seeds == {"unarchive", "unarchiving", "push", "lift", "push again", "pushed"}

Settling ==
  {"wait", "settings", "saving", "topics", "stale refs", "archive", "archiving"}

\* Where a task can be in a phase.
Stages(p) ==
  CASE p = "idle" -> {"done"}
    [] p = "plan" -> {"diff", "done", "failed"}
    [] p \in {"survey", "check"} -> {"compare", "done", "failed"}
    [] p = "ready" -> {"await", "done", "failed"}
    [] p = "apply" -> Seeds \cup Settling
                      \cup {"create", "landed?", "adopt", "label", "appear",
                            "recheck", "done", "failed"}
    [] p = "settle" -> Settling \cup {"done", "failed"}
    [] p = "reset" -> Seeds \cup {"wait", "settings", "saving", "requests",
                                  "branches", "tags", "topics", "archive",
                                  "archiving", "done", "failed"}
    [] OTHER -> {}

\* Between commands nothing is decided; a failed task says how it failed.
InStage(n) ==
  /\ task[n] \in Stages(phase)
  /\ task[n] = "failed" => result[n] # "ok"
  /\ cmd = "none" => change[n] = Nothing /\ state[n] = Unchecked

Course ==
  /\ cmd = "none" <=> phase = "idle"
  /\ phase \in {"plan", "apply", "settle"} => cmd = "apply"
  /\ phase \in {"survey", "reset"} => cmd = "reset"
  /\ cmd = "verify" => phase = "check"
  /\ \A n \in Names : InStage(n)

CourseInv == OwnInv /\ Course

\* A step for one repository leaves the others, and the run, as they are.
LEMMA TaskAside ==
  ASSUME TypeInv, NEW n \in Names, RunTask(n)
  PROVE  /\ Aside(n)
         /\ \A m \in Names \ {n} : result'[m] = result[m]
         /\ UNCHANGED <<diskVars, runVars>>
<1> USE DEF Goes, Ends
<1>0. /\ owner \in [Names -> Owners] /\ repo \in [Names -> Repos]
      /\ patch \in [Names -> Patches] /\ task \in [Names -> Tasks]
      /\ change \in [Names -> Changes] /\ state \in [Names -> States]
      /\ result \in [Names -> Results]
  BY DEF TypeInv, TypeOK, CommandTypeOK, ForgeTypeOK
<1>1. CASE CommandTask(n)
  BY <1>0, <1>1
  DEF CommandTask, StepFails, ForcePushErrs, Lift, Unarchive, Archive, Archived, Replied,
      Await, AwaitTimesOut, GivesUp, Compare, CompareBelievesMissing, Write, ForgeReadsRow,
      forgeVars, poolVars, Aside
<1>2. CASE ResetTask(n)
  BY <1>0, <1>2
  DEF ResetTask, LiftedForReset, Replied, Rewind, ForcePush, RewindDone, WaitRewound,
      WaitRewoundTimesOut, GivesUp, RestoreSettings, SettingsRestored, CloseRequests,
      DeleteBranches, DeleteTags, RestoreTopics, Write, ForgeReadsRow, forgeVars, poolVars,
      Aside
<1>3. CASE Diff(n) \/ CreateLands(n) \/ CreateErrs(n) \/ CreateConflicts(n)
           \/ CheckLanded(n) \/ Adopt(n) \/ Label(n) \/ Appear(n) \/ Unarchived(n)
  BY <1>0, <1>3
  DEF Diff, CreateLands, ForgeCreates, CreateErrs, CreateConflicts, CheckLanded, Adopt,
      Recognise, Label, Appear, Unarchived, Replied, Write, forgeVars, Aside
<1>4. CASE Recheck(n) \/ PushSeed(n) \/ ReadBack(n) \/ WaitPushed(n)
           \/ WaitPushedTimesOut(n)
  BY <1>0, <1>4
  DEF Recheck, PushSeed, ForcePush, ReadBack, WaitPushed, WaitPushedTimesOut, GivesUp,
      Write, forgeVars, Aside
<1>5. CASE Settle(n) \/ Settled(n) \/ SetTopics(n) \/ DeleteStaleRefs(n)
  BY <1>0, <1>5
  DEF Settle, ForgeReadsRow, Settled, Replied, SetTopics, DeleteStaleRefs, Write,
      forgeVars, Aside
<1> QED
  BY <1>1, <1>2, <1>3, <1>4, <1>5 DEF RunTask, ApplyTask

\* A task goes from one stage of its phase to another.
LEMMA TaskCourse ==
  ASSUME CourseInv, NEW n \in Names, RunTask(n)
  PROVE  /\ cmd # "none"
         /\ task'[n] \in Stages(phase)
         /\ task'[n] = "failed" => result'[n] # "ok"
<1> USE DEF Goes, Ends
<1>0. /\ task \in [Names -> Tasks] /\ result \in [Names -> Results]
      /\ task[n] \in Stages(phase) /\ (task[n] = "failed" => result[n] # "ok")
      /\ cmd = "none" => phase = "idle"
      /\ cmd = "apply" => phase \notin {"survey", "reset"}
      /\ cmd = "reset" => phase \notin {"plan", "apply", "settle"}
      /\ phase \in Phases
  BY DEF CourseInv, Course, InStage, OwnInv, TypeInv, TypeOK, CommandTypeOK
<1>1. CASE CommandTask(n)
  BY <1>0, <1>1
  DEF CommandTask, StepFails, ForcePushErrs, Lift, Unarchive, Archive, Archived, Replied,
      Await, AwaitTimesOut, GivesUp, Compare, CompareBelievesMissing, Phases, Stages, Seeds,
      Settling
<1>2. CASE ResetTask(n)
  BY <1>0, <1>2
  DEF ResetTask, LiftedForReset, Rewinding, Replied, Rewind, ForcePush, RewindDone,
      WaitRewound, WaitRewoundTimesOut, GivesUp, RestoreSettings, SettingsRestored,
      CloseRequests, DeleteBranches, DeleteTags, RestoreTopics, poolVars, Phases, Stages,
      Seeds, Settling
<1>3. CASE Diff(n) \/ CreateLands(n) \/ CreateErrs(n) \/ CreateConflicts(n)
           \/ CheckLanded(n) \/ Adopt(n) \/ Label(n) \/ Appear(n) \/ Unarchived(n)
  BY <1>0, <1>3
  DEF Diff, CreateLands, CreateErrs, CreateConflicts, CheckLanded, Adopt, Recognise, Label,
      Appear, Unarchived, Seeding, Replied, Phases, Stages, Seeds, Settling
<1>4. CASE Recheck(n) \/ PushSeed(n) \/ ReadBack(n) \/ WaitPushed(n)
           \/ WaitPushedTimesOut(n)
  BY <1>0, <1>4
  DEF Recheck, PushSeed, ForcePush, ReadBack, WaitPushed, WaitPushedTimesOut, GivesUp,
      Phases, Stages, Seeds, Settling
<1>5. CASE Settle(n) \/ Settled(n) \/ SetTopics(n) \/ DeleteStaleRefs(n)
  BY <1>0, <1>5
  DEF Settle, Settled, Replied, SetTopics, DeleteStaleRefs, Phases, Stages, Seeds, Settling
<1> QED
  BY <1>1, <1>2, <1>3, <1>4, <1>5 DEF RunTask, ApplyTask
\* A command that ends leaves everything at rest.
LEMMA FinishCourse ==
  ASSUME NEW code, Finish(code)
  PROVE  Course'
BY DEF Finish, Course, InStage, Stages

\* A phase that begins starts its tasks at stages of its own.
LEMMA EnterCourse ==
  ASSUME NEW p, NEW start, Enter(p, start), cmd # "none",
         \/ p \in {"apply", "settle"} /\ cmd = "apply"
         \/ p = "reset" /\ cmd = "reset"
         \/ p = "ready" /\ cmd \in {"apply", "reset"}
         \/ p = "check" /\ cmd \in {"apply", "verify", "reset"},
         \A n \in Names : start[n] \in Stages(p) \ {"failed"}
  PROVE  Course'
BY DEF Enter, Course, InStage

\* Every step keeps a command on its course.
LEMMA CourseStep == CourseInv /\ [Next]_vars => CourseInv'
<1> SUFFICES ASSUME CourseInv, [Next]_vars PROVE Course'
  BY OwnInvStep DEF CourseInv
<1> USE DEF CourseInv
<1>0. /\ task \in [Names -> Tasks] /\ cmd \in Commands /\ phase \in Phases /\ TypeInv
  BY DEF OwnInv, TypeInv, TypeOK, CommandTypeOK
<1>1. ASSUME NEW n \in Names, RunTask(n) PROVE Course'
  <2>1. \A m \in Names : m # n => InStage(m)'
    BY <1>0, <1>1, TaskAside DEF Aside, Course, InStage, runVars
  <2>2. InStage(n)'
    BY <1>0, <1>1, TaskAside, TaskCourse DEF InStage, runVars
  <2> QED
    BY <1>0, <1>1, <2>1, <2>2, TaskAside DEF Course, runVars
<1>2. ASSUME NEW n \in Names, Forges(n) \/ Others(n) PROVE Course'
  BY <1>2
  DEF Forges, Saves, Reflects, Answers, Others, TestEdits, UserDeletes, StrangerCreates,
      Course, InStage, commandVars, runVars, poolVars
<1>3. CASE RunStep
  <2>1. CASE Abort \/ EndCheck
    BY <2>1, FinishCourse DEF Abort, EndCheck
  <2>2. CASE StartWork
    <3> DEFINE start == [n \in Names |-> IF n \in Declared /\ Needed(change[n])
                                        THEN FirstStep(n) ELSE "done"]
    <3>1. \A n \in Names : start[n] \in Stages("apply") \ {"failed"}
      BY DEF FirstStep, Seeding, Stages, Seeds
    <3>2. Enter("apply", start) /\ cmd = "apply"
      BY <2>2 DEF StartWork, Course
    <3> HIDE DEF start
    <3> QED BY <3>1, <3>2, EnterCourse
  <2>3. CASE StartSettle
    <3> DEFINE start == [n \in Names |-> IF task[n] = "pushed" THEN "wait" ELSE "done"]
    <3>1. \A n \in Names : start[n] \in Stages("settle") \ {"failed"}
      BY DEF Stages, Settling
    <3>2. CASE AllWell
      <4>1. Enter("settle", start) /\ cmd = "apply"
        BY <2>3, <3>2 DEF StartSettle
      <4> HIDE DEF start
      <4> QED BY <3>1, <4>1, EnterCourse
    <3>3. CASE ~AllWell
      BY <2>3, <3>3, FinishCourse DEF StartSettle
    <3> QED BY <3>2, <3>3
  <2>4. CASE WriteLock
    BY <1>0, <2>4, EnterCourse DEF WriteLock, Each, Stages
  <2>5. CASE StartRepairs
    <3> DEFINE start == [n \in Names |-> IF n \in Drifted THEN FirstRepair(n) ELSE "done"]
    <3>1. \A n \in Names : start[n] \in Stages("reset") \ {"failed"}
      BY DEF FirstRepair, Rewinding, Stages, Seeds
    <3>2. CASE Verdict # "drift"
      BY <2>5, <3>2, FinishCourse DEF StartRepairs
    <3>3. CASE Verdict = "drift"
      <4>1. Enter("reset", start) /\ cmd = "reset"
        BY <2>5, <3>3 DEF StartRepairs, Course
      <4> HIDE DEF start
      <4> QED BY <3>1, <4>1, EnterCourse
    <3> QED BY <3>2, <3>3
  <2>6. CASE StartReady
    BY <1>0, <2>6, EnterCourse DEF StartReady, Each, Course, Stages
  <2>7. CASE StartCheck
    BY <1>0, <2>7, EnterCourse DEF StartCheck, Each, Course, Stages, Commands
  <2> QED
    BY <1>3, <2>1, <2>2, <2>3, <2>4, <2>5, <2>6, <2>7
    DEF RunStep, CommandStep, ApplyStep, ResetStep
<1>4. CASE RunApply \/ RunVerify \/ RunReset
  BY <1>4
  DEF RunApply, StartApply, RunVerify, StartVerify, RunReset, StartReset, Refuse, Each,
      Course, InStage, Stages, poolVars
<1>5. CASE EditFleet
  BY <1>5 DEF EditFleet, Course, InStage, commandVars, runVars, poolVars
<1>6. CASE Kill
  BY <1>6, FinishCourse DEF Kill
<1>7. CASE UNCHANGED vars
  BY <1>7 DEF vars, Course, InStage, runVars, poolVars
<1> QED
  BY <1>1, <1>2, <1>3, <1>4, <1>5, <1>6, <1>7 DEF Next

\* At first no command runs.
LEMMA CourseInit == Init => CourseInv
BY OwnInvInit DEF Init, CommandInit, CourseInv, Course, InStage, Stages

-----------------------------------------------------------------------------
(* reset only rewinds                                                      *)
(*                                                                         *)
(* A repository is surveyed once and written to much later: what was found *)
(* then has to hold still.  Nobody moves the baseline tag while a reset    *)
(* runs, the refs to delete are none that are declared, and a name nobody  *)
(* holds, which others may take at any moment, has no refs to lose.        *)

\* What the survey of n found is still what its task goes by.
Rewindable(n) ==
  /\ state[n].tags \cap Want(n).tags = {}
  /\ Want(n).default \notin state[n].branches
  /\ cmd = "reset" /\ state[n].dirty => repo[n].tags[Baseline] = Want(n).baseline
  /\ cmd = "reset" /\ task[n] \in {"push", "lift", "push again"} => state[n].dirty

RewindInv == CourseInv /\ \A n \in Declared : Rewindable(n)

\* ResetOnlyRewinds, for the refs of one repository.
OnlyRewinds(want, r, s) ==
  /\ s.tags[Baseline] = r.tags[Baseline]
  /\ \A t \in AllTags :
       s.tags[t] # r.tags[t] =>
         s.tags[t] = IF t \in want.tags THEN want.baseline ELSE NoCommit
  /\ \A b \in Branches :
       s.branches[b] # r.branches[b] =>
         s.branches[b] = IF b = want.default THEN want.baseline ELSE NoCommit

\* The action property, without its box.
RewindStep ==
  cmd = "reset" /\ cmd' = "reset" =>
    \A n \in Declared : OnlyRewinds(Want(n), repo[n], repo'[n])

\* The same refs: whatever else changed.
SameRefs(r, s) == s.branches = r.branches /\ s.tags = r.tags

\* A push has git hold the branches and tags pushed, at once.
LEMMA PushedRefs ==
  ASSUME NEW r \in Repos, NEW b \in Refs(Branches), NEW t \in Refs(AllTags)
  PROVE  Pushed(r, b, t).branches = b /\ Pushed(r, b, t).tags = t
BY DEF Pushed, Begun, Repos

\* Some tags moved to one commit.
Retagged(r, c, tags) == [t \in AllTags |-> IF t \in tags THEN c ELSE r.tags[t]]

\* A push of which only the tags land moves those.
LEMMA PushTagsMoves ==
  ASSUME NEW r \in Repos, NEW c \in Commits, NEW tags
  PROVE  /\ PushTags(r, c, tags).branches = r.branches
         /\ PushTags(r, c, tags).tags = Retagged(r, c, tags)
<1>1. r.branches \in Refs(Branches)
  BY DEF Repos
<1> QED
  BY <1>1, RetaggedType, PushedRefs DEF PushTags, Retagged

\* A push of commit c moves the tags pushed to c, and no other ...
LEMMA PushRefsTags ==
  ASSUME NEW r \in Repos, NEW c \in Commits, NEW b \in Branches, NEW tags
  PROVE  PushRefs(r, c, b, tags).tags = Retagged(r, c, tags)
<1>1. [r.branches EXCEPT ![b] = c] \in Refs(Branches)
  BY DEF Repos, Refs
<1> QED
  BY <1>1, RetaggedType, PushedRefs DEF PushRefs, Retagged

\* ... and the branch it is to, and no other.
LEMMA PushRefsBranches ==
  ASSUME NEW r \in Repos, NEW c \in Commits, NEW b \in Branches, NEW tags
  PROVE  PushRefs(r, c, b, tags).branches = [r.branches EXCEPT ![b] = c]
<1>1. [r.branches EXCEPT ![b] = c] \in Refs(Branches)
  BY DEF Repos, Refs
<1> QED
  BY <1>1, RetaggedType, PushedRefs DEF PushRefs

\* The forge's own work moves no ref.
LEMMA ForgesRefs ==
  ASSUME ForgeTypeOK, NEW n \in Names, Forges(n)
  PROVE  \A m \in Names : SameRefs(repo[m], repo'[m])
<1>1. repo[n] \in Repos /\ repo \in [Names -> Repos]
  BY DEF ForgeTypeOK
<1>2. SameRefs(repo[n], Saved(n))
  BY <1>1 DEF Saved, Relaxed, SameRefs, Repos
<1>3. CASE Saves(n)
  BY <1>1, <1>2, <1>3 DEF Saves, ForgeSaves, SameRefs
<1>4. CASE Reflects(n)
  BY <1>1, <1>4 DEF Reflects, ForgeReflects, Begun, SameRefs, Repos
<1>5. CASE Answers(n)
  BY <1>5 DEF Answers, ForgeAnswers, SameRefs
<1> QED
  BY <1>3, <1>4, <1>5 DEF Forges

\* compare_one: what it finds to delete is not declared, and what it finds to
\* rewind has its baseline tag where the lock says.
LEMMA CompareOneRefs ==
  ASSUME ~ArchivedUnreadable, NEW want \in Wants, NEW who, NEW r \in Repos
  PROVE  LET s == CompareOne(want, who, r)
         IN /\ s.tags \cap want.tags = {}
            /\ want.default \notin s.branches
            /\ s.dirty => r.tags[Baseline] = want.baseline
BY DEF CompareOne, CompareGuards, Unreadable, ExtraTags, ExtraBranches

\* An action of apply belongs to apply.
LEMMA ApplyTaskApplies ==
  ASSUME CourseInv, NEW n \in Names, ApplyTask(n)
  PROVE  cmd = "apply" /\ state' = state
<1>1. /\ phase \in Phases /\ cmd \in Commands /\ task[n] \in Stages(phase)
      /\ cmd = "none" <=> phase = "idle"
      /\ phase \in {"plan", "apply", "settle"} => cmd = "apply"
  BY DEF CourseInv, Course, InStage, OwnInv, TypeInv, TypeOK, CommandTypeOK
<1> QED
  BY <1>1
  DEF ApplyTask, Diff, CreateLands, CreateErrs, CreateConflicts, CheckLanded, Adopt, Label,
      Appear, Unarchived, Replied, Recheck, PushSeed, ForcePush, ReadBack, WaitPushed,
      WaitPushedTimesOut, GivesUp, Settle, Settled, SetTopics, DeleteStaleRefs, Phases,
      Commands, Stages, Seeds, Settling

\* It is enough to look at the repository a task works on.
LEMMA RewindTask ==
  ASSUME RewindInv, NEW n \in Declared, RunTask(n), Rewindable(n)',
         cmd = "reset" => OnlyRewinds(Want(n), repo[n], repo'[n])
  PROVE  (\A m \in Declared' : Rewindable(m)') /\ RewindStep
<1>0. TypeInv /\ n \in Names /\ Declared \subseteq Names
  BY FleetsAssumption
  DEF RewindInv, CourseInv, OwnInv, TypeInv, TypeOK, CommandTypeOK, Declared
<1>1. Aside(n) /\ UNCHANGED <<fleet, cmd>>
  BY <1>0, TaskAside DEF RunTask, diskVars, runVars
<1>2. ASSUME NEW m \in Declared, m # n
      PROVE  Rewindable(m)' /\ OnlyRewinds(Want(m), repo[m], repo'[m])
  BY <1>0, <1>1, <1>2 DEF RewindInv, Rewindable, OnlyRewinds, Aside, Want
<1> QED
  BY <1>1, <1>2 DEF Declared, RewindStep

\* A step apply and reset share moves no ref; a survey finds what may be acted on.
LEMMA CommandTaskRewinds ==
  ASSUME ~ArchivedUnreadable, RewindInv, NEW n \in Declared, CommandTask(n)
  PROVE  Rewindable(n)' /\ SameRefs(repo[n], repo'[n])
<1> USE DEF Goes, Ends
<1>0. /\ n \in Names /\ Want(n) \in Wants /\ repo[n] \in Repos
      /\ repo \in [Names -> Repos] /\ task \in [Names -> Tasks]
      /\ state \in [Names -> States] /\ Rewindable(n)
  BY WantType
  DEF RewindInv, CourseInv, OwnInv, TypeInv, TypeOK, CommandTypeOK, ForgeTypeOK
<1>1. UNCHANGED <<fleet, cmd>> /\ Want(n)' = Want(n)
  BY <1>0, TaskAside DEF RunTask, RewindInv, CourseInv, OwnInv, diskVars, runVars, Want
<1>2. CASE Compare(n) \/ CompareBelievesMissing(n)
  <2> DEFINE s == CompareOne(Want(n), owner[n], repo[n])
  <2>1. state'[n] = Missing \/ state'[n] = s
    BY <1>0, <1>2 DEF Compare, CompareBelievesMissing
  <2>2. UNCHANGED forgeVars /\ task'[n] = "done"
    BY <1>0, <1>2 DEF Compare, CompareBelievesMissing
  <2>3. /\ s.tags \cap Want(n).tags = {}
        /\ Want(n).default \notin s.branches
        /\ s.dirty => repo[n].tags[Baseline] = Want(n).baseline
    BY <1>0, CompareOneRefs
  <2>4. /\ Missing.tags \cap Want(n).tags = {} /\ Want(n).default \notin Missing.branches
        /\ ~Missing.dirty
    BY DEF Missing
  <2> HIDE DEF s
  <2>5. /\ state'[n].tags \cap Want(n).tags = {} /\ Want(n).default \notin state'[n].branches
        /\ state'[n].dirty => repo[n].tags[Baseline] = Want(n).baseline
    BY <2>1, <2>3, <2>4
  <2> QED
    BY <1>1, <2>2, <2>5 DEF Rewindable, forgeVars, SameRefs
<1>3. CASE Lift(n)
  <2>1. SameRefs(repo[n], Relaxed(repo[n], Want(n).default))
    BY <1>0 DEF Relaxed, SameRefs, Repos
  <2>2. SameRefs(repo[n], repo'[n]) /\ state' = state /\ task[n] = "lift"
    BY <1>0, <1>3, <2>1 DEF Lift, Write
  <2> QED
    BY <1>0, <1>1, <2>2 DEF Rewindable, SameRefs
<1>4. CASE StepFails(n) \/ ForcePushErrs(n) \/ Unarchive(n) \/ Archive(n) \/ Archived(n)
           \/ Await(n) \/ AwaitTimesOut(n)
  BY <1>0, <1>1, <1>4
  DEF StepFails, ForcePushErrs, Unarchive, Archive, Archived, Replied, Await, AwaitTimesOut,
      GivesUp, ForgeReadsRow, forgeVars, Rewindable, SameRefs
<1> QED
  BY <1>2, <1>3, <1>4 DEF CommandTask

\* A step of reset moves refs to the baseline the lock records, and deletes
\* what the survey found beside what the lock declares.
LEMMA ResetTaskRewinds ==
  ASSUME RewindInv, NEW n \in Declared, ResetTask(n), cmd = "reset"
  PROVE  Rewindable(n)' /\ OnlyRewinds(Want(n), repo[n], repo'[n])
<1> USE DEF Goes, Ends
<1>0. /\ n \in Names /\ Want(n) \in Wants /\ repo[n] \in Repos
      /\ repo \in [Names -> Repos] /\ task \in [Names -> Tasks]
      /\ state \in [Names -> States] /\ state[n] \in States /\ Rewindable(n)
      /\ Baseline \notin Want(n).tags /\ Want(n).default \in Branches
  BY WantType, RefsAssumption
  DEF RewindInv, CourseInv, OwnInv, TypeInv, TypeOK, CommandTypeOK, ForgeTypeOK, Wants
<1>1. UNCHANGED <<fleet, cmd>> /\ Want(n)' = Want(n)
  BY <1>0, TaskAside DEF RunTask, RewindInv, CourseInv, OwnInv, diskVars, runVars, Want
<1>2. CASE Rewind(n)
  <2>0. PICK c : c = repo[n].tags[Baseline]
    OBVIOUS
  <2>1. CASE c = NoCommit
    BY <1>0, <1>1, <1>2, <2>0, <2>1 DEF Rewind, Rewindable, OnlyRewinds, forgeVars
  <2>2. CASE c # NoCommit
    <3>1. ForcePush(n, c, Want(n).tags) /\ c \in Commits
      BY <1>0, <1>2, <2>0, <2>2 DEF Rewind, Repos, Refs, AllTags
    <3>2. c = Want(n).baseline /\ state' = state /\ task[n] \in {"push", "push again"}
      BY <1>0, <2>0, <3>1 DEF ForcePush, Rewindable
    <3>3. \/ repo'[n] = repo[n]
          \/ repo'[n] = PushRefs(repo[n], c, Want(n).default, Want(n).tags)
          \/ repo'[n] = PushTags(repo[n], c, Want(n).tags)
      BY <1>0, <3>1 DEF ForcePush, Write, forgeVars
    <3> DEFINE moved == Retagged(repo[n], c, Want(n).tags)
    <3>4. OnlyRewinds(Want(n), repo[n], repo'[n])
      <4>1. /\ repo'[n].tags \in {repo[n].tags, moved}
            /\ repo'[n].branches
                 \in {repo[n].branches, [repo[n].branches EXCEPT ![Want(n).default] = c]}
        <5> DEFINE landed == PushRefs(repo[n], c, Want(n).default, Want(n).tags)
                   beside == PushTags(repo[n], c, Want(n).tags)
        <5>1. /\ landed.tags = moved /\ beside.tags = moved
              /\ landed.branches = [repo[n].branches EXCEPT ![Want(n).default] = c]
              /\ beside.branches = repo[n].branches
          <6>1. landed.tags = moved
            BY <1>0, <3>1, PushRefsTags
          <6>2. beside.tags = moved
            BY <1>0, <3>1, PushTagsMoves
          <6>3. landed.branches = [repo[n].branches EXCEPT ![Want(n).default] = c]
            BY <1>0, <3>1, PushRefsBranches
          <6>4. beside.branches = repo[n].branches
            BY <1>0, <3>1, PushTagsMoves
          <6> QED BY <6>1, <6>2, <6>3, <6>4
        <5> HIDE DEF landed, beside, moved
        <5> QED BY <3>3, <5>1 DEF landed, beside
      <4>2. \A t \in AllTags : moved[t] = IF t \in Want(n).tags THEN c ELSE repo[n].tags[t]
        BY DEF Retagged
      <4>3. repo[n].branches \in [Branches -> Commits \cup {NoCommit}]
        BY <1>0 DEF Repos, Refs
      <4> HIDE DEF moved
      <4> QED BY <1>0, <3>2, <4>1, <4>2, <4>3 DEF OnlyRewinds, AllTags
    <3>5. repo'[n].tags[Baseline] = repo[n].tags[Baseline]
      BY <3>4 DEF OnlyRewinds
    <3> QED
      BY <1>0, <1>1, <3>2, <3>4, <3>5 DEF Rewindable
  <2> QED BY <2>1, <2>2
<1>3. CASE CloseRequests(n)
  <2>1. /\ SameRefs(repo[n], repo'[n])
        /\ state'[n].tags = state[n].tags /\ state'[n].branches = state[n].branches
        /\ state'[n].dirty = state[n].dirty
        /\ task'[n] \notin {"push", "lift", "push again"}
    <3>1. \/ UNCHANGED <<repo, state>>
          \/ \E b \in Branches :
               /\ repo'[n] = [repo[n] EXCEPT !.requests = @ \ {b}]
               /\ state'[n] = [state[n] EXCEPT !.requests = @ \ {b}]
      BY <1>0, <1>3 DEF CloseRequests, Write, forgeVars, States
    <3>2. task'[n] \notin {"push", "lift", "push again"}
      BY <1>0, <1>3 DEF CloseRequests, poolVars
    <3> QED BY <1>0, <3>1, <3>2 DEF SameRefs, Repos, States
  <2> QED
    BY <1>0, <1>1, <2>1 DEF Rewindable, OnlyRewinds, SameRefs
<1>4. CASE DeleteBranches(n)
  <2>1. /\ repo'[n].tags = repo[n].tags
        /\ \/ repo'[n].branches = repo[n].branches
           \/ \E b \in state[n].branches :
                repo'[n].branches = [repo[n].branches EXCEPT ![b] = NoCommit]
        /\ state'[n].tags = state[n].tags /\ state'[n].branches \subseteq state[n].branches
        /\ state'[n].dirty = state[n].dirty
        /\ task'[n] \notin {"push", "lift", "push again"}
    <3>1. \/ UNCHANGED <<repo, state>>
          \/ \E b \in state[n].branches :
               /\ repo'[n] = [repo[n] EXCEPT !.branches[b] = NoCommit]
               /\ state'[n] = [state[n] EXCEPT !.branches = @ \ {b}]
      BY <1>0, <1>4 DEF DeleteBranches, Write, forgeVars
    <3>2. task'[n] \notin {"push", "lift", "push again"}
      BY <1>0, <1>4 DEF DeleteBranches, poolVars
    <3> QED BY <1>0, <3>1, <3>2 DEF Repos, States
  <2>2. \A b \in Branches : repo'[n].branches[b] # repo[n].branches[b] =>
          b # Want(n).default /\ repo'[n].branches[b] = NoCommit
    <3>1. repo[n].branches \in [Branches -> Commits \cup {NoCommit}]
      BY <1>0 DEF Repos, Refs
    <3> QED BY <1>0, <2>1, <3>1 DEF Rewindable
  <2> QED
    BY <1>0, <1>1, <2>1, <2>2 DEF Rewindable, OnlyRewinds
<1>5. CASE DeleteTags(n)
  <2>1. /\ repo'[n].branches = repo[n].branches
        /\ \/ repo'[n].tags = repo[n].tags
           \/ \E t \in state[n].tags :
                repo'[n].tags = [repo[n].tags EXCEPT ![t] = NoCommit]
        /\ state'[n].branches = state[n].branches /\ state'[n].tags \subseteq state[n].tags
        /\ state'[n].dirty = state[n].dirty
        /\ task'[n] \notin {"push", "lift", "push again"}
    <3>1. \/ UNCHANGED <<repo, state>>
          \/ \E t \in state[n].tags :
               /\ repo'[n] = [repo[n] EXCEPT !.tags[t] = NoCommit]
               /\ state'[n] = [state[n] EXCEPT !.tags = @ \ {t}]
      BY <1>0, <1>5 DEF DeleteTags, Write, forgeVars
    <3>2. task'[n] \notin {"push", "lift", "push again"}
      BY <1>0, <1>5 DEF DeleteTags, poolVars
    <3> QED BY <1>0, <3>1, <3>2 DEF Repos, States
  <2>2. Baseline \notin state[n].tags
    BY <1>0, RefsAssumption DEF States
  <2>3. \A t \in AllTags : repo'[n].tags[t] # repo[n].tags[t] =>
          /\ t \notin Want(n).tags /\ t # Baseline
          /\ repo'[n].tags[t] = NoCommit
    BY <1>0, <2>1, <2>2 DEF Rewindable, Repos, Refs
  <2> QED
    BY <1>0, <1>1, <2>1, <2>3 DEF Rewindable, OnlyRewinds, AllTags
<1>6. CASE RestoreTopics(n)
  <2>1. /\ SameRefs(repo[n], repo'[n]) /\ state' = state
        /\ task'[n] \notin {"push", "lift", "push again"}
    <3>1. \/ repo' = repo
          \/ repo'[n] = [repo[n] EXCEPT !.topics = Want(n).topics]
      BY <1>0, <1>6 DEF RestoreTopics, Write, forgeVars
    <3>2. task'[n] \notin {"push", "lift", "push again"} /\ state' = state
      BY <1>0, <1>6 DEF RestoreTopics
    <3> QED BY <1>0, <3>1, <3>2 DEF SameRefs, Repos
  <2> QED
    BY <1>0, <1>1, <2>1 DEF Rewindable, OnlyRewinds, SameRefs
<1>7. CASE LiftedForReset(n) \/ RewindDone(n) \/ WaitRewound(n) \/ WaitRewoundTimesOut(n)
           \/ RestoreSettings(n) \/ SettingsRestored(n)
  BY <1>0, <1>1, <1>7
  DEF LiftedForReset, Rewinding, Replied, RewindDone, WaitRewound, WaitRewoundTimesOut,
      GivesUp, RestoreSettings, SettingsRestored, ForgeReadsRow, forgeVars, Rewindable,
      OnlyRewinds
<1> QED
  BY <1>2, <1>3, <1>4, <1>5, <1>6, <1>7 DEF ResetTask

\* A task that is over takes no step.
LEMMA TaskBusy ==
  ASSUME NEW n \in Names, RunTask(n)
  PROVE  task[n] \notin {"done", "failed"}
BY DEF RunTask, CommandTask, StepFails, ForcePushErrs, Lift, Unarchive, Archive, Archived,
       Replied, Await, AwaitTimesOut, Compare, CompareBelievesMissing, ApplyTask, Diff,
       CreateLands, CreateErrs, CreateConflicts, CheckLanded, Adopt, Label, Appear,
       Unarchived, Recheck, PushSeed, ForcePush, ReadBack, WaitPushed, WaitPushedTimesOut,
       Settle, Settled, SetTopics, DeleteStaleRefs, ResetTask, LiftedForReset, Rewind,
       RewindDone, WaitRewound, WaitRewoundTimesOut, RestoreSettings, SettingsRestored,
       CloseRequests, DeleteBranches, DeleteTags, RestoreTopics

\* What is worked on is declared.
LEMMA TaskDeclared ==
  ASSUME CourseInv, NEW n \in Names, RunTask(n)
  PROVE  n \in Declared
<1>1. task[n] \notin Resting
  BY TaskBusy DEF Resting
<1> QED
  BY <1>1 DEF CourseInv, OwnInv, TypeInv, TasksDeclared

\* An action of reset belongs to reset.
LEMMA ResetTaskResets ==
  ASSUME CourseInv, NEW n \in Names, ResetTask(n)
  PROVE  cmd = "reset"
<1>1. /\ phase \in Phases /\ task[n] \in Stages(phase)
      /\ phase \in {"survey", "reset"} => cmd = "reset"
  BY DEF CourseInv, Course, InStage, OwnInv, TypeInv, TypeOK, CommandTypeOK
<1> QED
  BY <1>1
  DEF ResetTask, LiftedForReset, Rewind, RewindDone, WaitRewound, WaitRewoundTimesOut,
      RestoreSettings, SettingsRestored, CloseRequests, DeleteBranches, DeleteTags,
      RestoreTopics, Phases, Stages, Seeds, Settling

\* A step that moves no ref and forgets nothing of the survey, or all of it.
LEMMA RewindQuiet ==
  ASSUME RewindInv, fleet' = fleet,
         \A n \in Declared : SameRefs(repo[n], repo'[n]),
         \A n \in Declared :
           \/ state'[n] = Unchecked
           \/ state'[n] = state[n] /\ (cmd' = "reset" => cmd = "reset"),
         \A n \in Declared :
           cmd' = "reset" /\ task'[n] \in {"push", "lift", "push again"} =>
             \/ state'[n].dirty
             \/ task'[n] = task[n] /\ state'[n] = state[n] /\ cmd' = cmd
  PROVE  (\A n \in Declared' : Rewindable(n)') /\ RewindStep
<1>1. Declared' = Declared /\ \A n \in Declared : Want(n)' = Want(n)
  BY DEF Declared, Want
<1>2. RewindStep
  BY DEF RewindStep, OnlyRewinds, SameRefs
<1>3. ASSUME NEW n \in Declared
      PROVE  Rewindable(n)'
  <2>1. CASE state'[n] = Unchecked
    BY <1>1, <2>1 DEF RewindInv, Rewindable, Unchecked, Missing
  <2>2. CASE state'[n] = state[n]
    BY <1>1, <2>2 DEF RewindInv, Rewindable, SameRefs, Unchecked, Missing
  <2> QED BY <2>1, <2>2
<1> QED
  BY <1>1, <1>2, <1>3

\* Every step keeps what reset goes by, and reset only rewinds.
LEMMA RewindInvStep ==
  ASSUME ~ArchivedUnreadable
  PROVE  RewindInv /\ [Next]_vars => RewindInv' /\ RewindStep
<1> SUFFICES ASSUME RewindInv, [Next]_vars
             PROVE  (\A n \in Declared' : Rewindable(n)') /\ RewindStep
  BY CourseStep DEF RewindInv
<1>0. /\ CourseInv /\ OwnInv /\ TypeInv /\ ForgeTypeOK /\ Declared \subseteq Names
      /\ task \in [Names -> Tasks] /\ state \in [Names -> States] /\ cmd \in Commands
      /\ \A n \in Names : InStage(n)
  BY FleetsAssumption
  DEF RewindInv, CourseInv, Course, OwnInv, TypeInv, TypeOK, CommandTypeOK, Declared
<1>1. ASSUME NEW n \in Names, RunTask(n)
      PROVE  (\A m \in Declared' : Rewindable(m)') /\ RewindStep
  <2>1. n \in Declared
    BY <1>0, <1>1, TaskDeclared
  <2>2. CASE CommandTask(n)
    <3>1. Rewindable(n)' /\ OnlyRewinds(Want(n), repo[n], repo'[n])
      BY <2>1, <2>2, CommandTaskRewinds DEF SameRefs, OnlyRewinds
    <3> QED BY <1>1, <2>1, <3>1, RewindTask
  <2>3. CASE ResetTask(n)
    <3>1. cmd = "reset"
      BY <1>0, <2>3, ResetTaskResets
    <3> QED BY <1>1, <2>1, <2>3, <3>1, ResetTaskRewinds, RewindTask
  <2>4. CASE ApplyTask(n)
    <3>1. cmd = "apply" /\ state' = state /\ cmd' = cmd /\ fleet' = fleet
      BY <1>0, <1>1, <2>4, ApplyTaskApplies, TaskAside DEF runVars, diskVars
    <3>2. Rewindable(n)'
      BY <2>1, <3>1 DEF RewindInv, Rewindable, Want
    <3> QED BY <1>1, <2>1, <3>1, <3>2, RewindTask
  <2> QED BY <1>1, <2>2, <2>3, <2>4 DEF RunTask
<1>2. ASSUME NEW n \in Names, Forges(n)
      PROVE  (\A m \in Declared' : Rewindable(m)') /\ RewindStep
  <2>1. UNCHANGED <<fleet, cmd, task, state>>
    BY <1>2
    DEF Forges, Saves, Reflects, Answers, diskVars, commandVars, runVars, poolVars
  <2> QED
    BY <1>0, <1>2, <2>1, ForgesRefs, RewindQuiet
<1>3. ASSUME NEW n \in Names, Others(n)
      PROVE  (\A m \in Declared' : Rewindable(m)') /\ RewindStep
  <2>1. UNCHANGED <<fleet, cmd, task, state>>
    BY <1>3
    DEF Others, TestEdits, UserDeletes, StrangerCreates, commandVars, runVars, poolVars
  <2>2. CASE cmd = "none"
    BY <1>0, <2>1, <2>2
    DEF RewindInv, RewindStep, Rewindable, InStage, Unchecked, Missing, Declared, Want
  <2>3. CASE cmd # "none"
    <3>1. owner[n] = "nobody" /\ repo' = [repo EXCEPT ![n] = Blank]
      BY <1>3, <2>3 DEF Others, TestEdits, UserDeletes, StrangerCreates, Quiet
    <3>2. repo[n] = Blank
      BY <1>0, <3>1 DEF OwnInv, LeftAlone
    <3>3. \A m \in Declared : SameRefs(repo[m], repo'[m])
      BY <1>0, <3>1, <3>2 DEF ForgeTypeOK, SameRefs
    <3> QED BY <2>1, <3>3, RewindQuiet
  <2> QED BY <2>2, <2>3
<1>4. CASE RunStep
  <2>1. UNCHANGED <<forgeVars, fleet>>
    BY <1>4
    DEF RunStep, CommandStep, Abort, StartCheck, EndCheck, ApplyStep, StartWork, StartSettle,
        WriteLock, ResetStep, StartRepairs, StartReady, diskVars
  <2>2. CASE Abort \/ EndCheck
    BY <1>0, <2>1, <2>2, RewindQuiet DEF Abort, EndCheck, Finish, SameRefs, forgeVars
  <2>3. CASE StartCheck \/ WriteLock \/ StartReady
    BY <1>0, <2>1, <2>3, RewindQuiet
    DEF StartCheck, WriteLock, StartReady, Enter, Each, SameRefs, forgeVars
  <2>4. CASE StartWork
    <3>1. cmd = "apply" /\ cmd' = cmd /\ state' = state
      BY <2>4 DEF StartWork, Enter, RewindInv, CourseInv, Course
    <3> QED BY <2>1, <3>1, RewindQuiet DEF SameRefs, forgeVars
  <2>5. CASE StartSettle
    <3>1. cmd' # "reset" /\ (state' = state \/ \A n \in Names : state'[n] = Unchecked)
      BY <2>5 DEF StartSettle, Enter, Finish
    <3> QED BY <1>0, <2>1, <3>1, RewindQuiet DEF SameRefs, forgeVars
  <2>6. CASE StartRepairs
    <3>1. CASE Verdict # "drift"
      BY <1>0, <2>1, <2>6, <3>1, RewindQuiet DEF StartRepairs, Finish, SameRefs, forgeVars
    <3>2. CASE Verdict = "drift"
      BY <1>0, <2>1, <2>6, <3>2, RewindQuiet
      DEF StartRepairs, Enter, FirstRepair, Rewinding, SameRefs, forgeVars
    <3> QED BY <3>1, <3>2
  <2> QED
    BY <1>4, <2>2, <2>3, <2>4, <2>5, <2>6 DEF RunStep, CommandStep, ApplyStep, ResetStep
<1>5. CASE RunApply \/ RunVerify \/ RunReset
  <2>1. UNCHANGED <<forgeVars, fleet, state>> /\ cmd = "none"
    BY <1>5
    DEF RunApply, StartApply, RunVerify, StartVerify, RunReset, StartReset, Refuse, diskVars
  <2>2. \A n \in Names : state'[n] = Unchecked /\ task'[n] \in {"diff", "compare", "done"}
    BY <1>0, <1>5, <2>1
    DEF RunApply, StartApply, RunVerify, StartVerify, RunReset, StartReset, Refuse, Each,
        InStage, TypeInv, IdleIsClean, poolVars
  <2> QED
    BY <1>0, <2>1, <2>2, RewindQuiet DEF SameRefs, forgeVars
<1>6. CASE EditFleet
  <2>1. cmd = "none" /\ UNCHANGED <<cmd, state>> /\ fleet' \in DOMAIN Fleets
    BY <1>6 DEF EditFleet, Quiet, commandVars, runVars
  <2>2. Declared' \subseteq Names
    BY <2>1, FleetsAssumption DEF Declared
  <2> QED
    BY <1>0, <2>1, <2>2 DEF InStage, RewindStep, Rewindable, Unchecked, Missing
<1>7. CASE Kill
  BY <1>0, <1>7, RewindQuiet DEF Kill, Finish, SameRefs, forgeVars, diskVars
<1>8. CASE UNCHANGED vars
  BY <1>8, RewindQuiet DEF vars, diskVars, runVars, poolVars, forgeVars, SameRefs
<1> QED
  BY <1>1, <1>2, <1>3, <1>4, <1>5, <1>6, <1>7, <1>8 DEF Next

\* At first nothing is surveyed.
LEMMA RewindInvInit == Init => RewindInv
<1> SUFFICES ASSUME Init PROVE RewindInv
  OBVIOUS
<1>1. CourseInv /\ Declared \subseteq Names
  BY CourseInit, FleetsAssumption
  DEF CourseInv, OwnInv, TypeInv, TypeOK, CommandTypeOK, Declared
<1>2. \A n \in Names : state[n] = Unchecked /\ cmd = "none"
  BY DEF Init, CommandInit
<1> QED
  BY <1>1, <1>2 DEF RewindInv, Rewindable, Unchecked, Missing

\* Whatever reset does to a ref, it moves it to the baseline the lock records, or
\* deletes one the lock does not declare; it never moves the baseline tag.  Where
\* an archived repository can be read: elsewhere the baseline tag reset goes by
\* is not compared first.
THEOREM ResetRewinds ==
  ASSUME ~ArchivedUnreadable
  PROVE  Spec => ResetOnlyRewinds
<1>1. RewindInv /\ [Next]_vars => RewindInv' /\ [RewindStep]_vars
  BY RewindInvStep
<1>2. Spec => [][RewindStep]_vars
  BY <1>1, RewindInvInit, PTL DEF Spec
<1> QED
  BY <1>2, PTL DEF ResetOnlyRewinds, RewindStep, OnlyRewinds

-----------------------------------------------------------------------------
(* A first push is never undone for good                                   *)
(*                                                                         *)
(* Where a settings write saves the whole row it read, one that was read   *)
(* before a first push was reflected would have the repository read as     *)
(* empty ever after.  So no row may be read, and none may be under way,    *)
(* while a first push is unnoticed; and nothing is pushed while one is.    *)

\* A first push is taken in and not yet reflected.
Unnoticed(r) == r.empty /\ r.pending

HasRefs(r) == Has(r.branches) # {} \/ Has(r.tags) # {}

\* Content that was reflected is known of.
Known(r) == HasRefs(r) /\ ~r.pending => ~r.empty

\* As far as this is concerned s is r, or has lost refs.
Milder(r, s) ==
  /\ s.empty = r.empty /\ s.pending = r.pending /\ s.archived = r.archived
  /\ Has(s.branches) \subseteq Has(r.branches) /\ Has(s.tags) \subseteq Has(r.tags)

\* A push leaves content known of, or pending.
LEMMA PushedKnown ==
  ASSUME NEW r \in Repos, NEW b, NEW t
  PROVE  /\ Known(r) => Known(Pushed(r, b, t))
         /\ Pushed(r, b, t).archived = r.archived
         /\ Pushed(r, b, t).empty => r.empty
         /\ Pushed(r, b, t).pending => r.pending \/ Background
<1> DEFINE s == [r EXCEPT !.branches = b, !.tags = t]
<1>1. s.empty = r.empty /\ s.archived = r.archived /\ s.pending = r.pending
  BY DEF Repos
<1>2. /\ Begun(s).empty = FALSE /\ Begun(s).archived = s.archived
      /\ Begun(s).pending = s.pending
  BY DEF Begun, Repos
<1>3. /\ [s EXCEPT !.pending = TRUE].pending /\ [s EXCEPT !.pending = TRUE].archived = s.archived
      /\ [s EXCEPT !.pending = TRUE].empty = s.empty
  BY DEF Repos
<1> HIDE DEF s
<1> QED
  BY <1>1, <1>2, <1>3 DEF Pushed, Known, s

\* What a task does to a repository: a push, to one that is not archived, or a
\* creation, or nothing that matters here.
LEMMA TaskRepo ==
  ASSUME CourseInv, NEW n \in Names, RunTask(n)
  PROVE  \/ Milder(repo[n], repo'[n])
         \/ /\ task[n] \in {"push", "push again"} /\ ~repo[n].archived /\ visible[n]
            /\ \E b, t : repo'[n] = Pushed(repo[n], b, t)
            /\ UNCHANGED <<patch, change, state>>
         \/ /\ task[n] = "create"
            /\ repo'[n].empty /\ ~repo'[n].pending /\ ~repo'[n].archived
            /\ ~HasRefs(repo'[n])
            /\ UNCHANGED <<patch, change, state>>
<1>0. /\ repo \in [Names -> Repos] /\ repo[n] \in Repos
      /\ n \in Declared /\ Want(n).default \in Branches
  BY TaskDeclared, WantType
  DEF CourseInv, OwnInv, TypeInv, TypeOK, ForgeTypeOK, Wants
<1>1. repo' = repo => Milder(repo[n], repo'[n])
  BY DEF Milder
<1>2. CASE CommandTask(n)
  <2>1. CASE Lift(n)
    <3>1. Milder(repo[n], Relaxed(repo[n], Want(n).default))
      BY <1>0 DEF Milder, Relaxed, Repos
    <3> QED BY <1>0, <2>1, <3>1 DEF Lift, Write
  <2>2. CASE ~Lift(n)
    BY <1>1, <1>2, <2>2
    DEF CommandTask, StepFails, ForcePushErrs, Unarchive, Archive, Archived, Replied, Await,
        AwaitTimesOut, GivesUp, Compare, CompareBelievesMissing, ForgeReadsRow, forgeVars
  <2> QED BY <2>1, <2>2
<1>3. ASSUME NEW c, NEW tags, ForcePush(n, c, tags), UNCHANGED <<change, state>>
      PROVE  \/ repo' = repo
             \/ /\ task[n] \in {"push", "push again"} /\ ~repo[n].archived /\ visible[n]
                /\ \E b, t : repo'[n] = Pushed(repo[n], b, t)
                /\ UNCHANGED <<patch, change, state>>
  BY <1>0, <1>3 DEF ForcePush, Write, PushRefs, PushTags, forgeVars
<1>4. CASE ResetTask(n)
  <2>1. CASE Rewind(n)
    BY <1>1, <1>3, <2>1 DEF Rewind, ForcePush, forgeVars
  <2>2. CASE CloseRequests(n)
    <3>1. repo' = repo \/ \E b : repo'[n] = [repo[n] EXCEPT !.requests = @ \ {b}]
      BY <1>0, <2>2 DEF CloseRequests, Write, forgeVars
    <3> QED BY <1>0, <1>1, <3>1 DEF Milder, Repos
  <2>3. CASE DeleteBranches(n)
    <3>1. repo' = repo \/ \E b : repo'[n] = [repo[n] EXCEPT !.branches[b] = NoCommit]
      BY <1>0, <2>3 DEF DeleteBranches, Write, forgeVars
    <3> QED BY <1>0, <1>1, <3>1 DEF Milder, Repos, Refs, Has
  <2>4. CASE DeleteTags(n)
    <3>1. repo' = repo \/ \E t : repo'[n] = [repo[n] EXCEPT !.tags[t] = NoCommit]
      BY <1>0, <2>4 DEF DeleteTags, Write, forgeVars
    <3> QED BY <1>0, <1>1, <3>1 DEF Milder, Repos, Refs, Has
  <2>5. CASE RestoreTopics(n)
    <3>1. repo' = repo \/ repo'[n] = [repo[n] EXCEPT !.topics = Want(n).topics]
      BY <1>0, <2>5 DEF RestoreTopics, Write, forgeVars
    <3> QED BY <1>0, <1>1, <3>1 DEF Milder, Repos
  <2>6. CASE LiftedForReset(n) \/ RewindDone(n) \/ WaitRewound(n) \/ WaitRewoundTimesOut(n)
             \/ RestoreSettings(n) \/ SettingsRestored(n)
    BY <1>1, <2>6
    DEF LiftedForReset, Replied, RewindDone, WaitRewound, WaitRewoundTimesOut, GivesUp,
        RestoreSettings, SettingsRestored, ForgeReadsRow, forgeVars
  <2> QED BY <1>4, <2>1, <2>2, <2>3, <2>4, <2>5, <2>6 DEF ResetTask
<1>5. CASE ApplyTask(n)
  <2>1. CASE PushSeed(n)
    BY <1>1, <1>3, <2>1 DEF PushSeed, ForcePush
  <2>2. CASE CreateLands(n)
    <3>1. \E b \in Branches, t \in Topics : repo'[n] = NewRepo(Want(n), b, t)
      BY <1>0, <2>2 DEF CreateLands, ForgeCreates
    <3>2. /\ repo'[n].empty /\ ~repo'[n].pending /\ ~repo'[n].archived
          /\ ~HasRefs(repo'[n])
      BY <3>1 DEF NewRepo, Has, HasRefs
    <3> QED BY <2>2, <3>2 DEF CreateLands, ForgeCreates
  <2>3. CASE Label(n) \/ SetTopics(n)
    <3>1. repo' = repo \/ repo'[n] = [repo[n] EXCEPT !.topics = Want(n).topics]
      BY <1>0, <2>3 DEF Label, SetTopics, Write, forgeVars
    <3> QED BY <1>0, <1>1, <3>1 DEF Milder, Repos
  <2>4. CASE DeleteStaleRefs(n)
    <3> DEFINE kept == [b \in Branches |-> IF b \in change[n].staleBranches THEN NoCommit
                                           ELSE repo[n].branches[b]]
               tagged == [t \in AllTags |-> IF t \in change[n].staleTags THEN NoCommit
                                            ELSE repo[n].tags[t]]
    <3>1. Has(kept) \subseteq Has(repo[n].branches) /\ Has(tagged) \subseteq Has(repo[n].tags)
      BY <1>0 DEF Has, Repos, Refs
    <3> HIDE DEF kept, tagged
    <3>2. \/ repo' = repo
          \/ \E requests : repo'[n] = [repo[n] EXCEPT
                !.tags = tagged, !.branches = kept, !.requests = requests]
      BY <1>0, <2>4 DEF DeleteStaleRefs, Write, forgeVars, kept, tagged
    <3> QED BY <1>0, <1>1, <3>1, <3>2 DEF Milder, Repos
  <2>5. CASE ~(PushSeed(n) \/ CreateLands(n) \/ Label(n) \/ SetTopics(n) \/ DeleteStaleRefs(n))
    BY <1>1, <1>5, <2>5
    DEF ApplyTask, Diff, CreateErrs, CreateConflicts, CheckLanded, Adopt, Appear, Unarchived,
        Replied, Recheck, ReadBack, WaitPushed, WaitPushedTimesOut, GivesUp, Settle, Settled,
        ForgeReadsRow, forgeVars
  <2> QED BY <2>1, <2>2, <2>3, <2>4, <2>5
<1> QED
  BY <1>2, <1>4, <1>5 DEF RunTask

\* A step apply and reset share pushes nothing and creates nothing.
LEMMA TaskRepoShared ==
  ASSUME CourseInv, NEW n \in Names, CommandTask(n)
  PROVE  Milder(repo[n], repo'[n])
<1>1. repo \in [Names -> Repos] /\ repo[n] \in Repos
  BY DEF CourseInv, OwnInv, TypeInv, TypeOK, ForgeTypeOK
<1>2. CASE Lift(n)
  BY <1>1, <1>2 DEF Lift, Write, Milder, Relaxed, Repos
<1>3. CASE ~Lift(n)
  BY <1>3
  DEF CommandTask, StepFails, ForcePushErrs, Unarchive, Archive, Archived, Replied, Await,
      AwaitTimesOut, GivesUp, Compare, CompareBelievesMissing, ForgeReadsRow, forgeVars,
      Milder
<1> QED
  BY <1>2, <1>3

\* What a task does to the settings write under way on a repository: it sends
\* one, which reads the row as it is, or nothing.
LEMMA TaskPatch ==
  ASSUME CourseInv, NEW n \in Names, RunTask(n)
  PROVE  \/ patch'[n] = patch[n]
         \/ /\ patch'[n].empty = repo[n].empty /\ repo' = repo
            /\ UNCHANGED <<change, state>>
            /\ \/ task[n] = "unarchive" /\ task'[n] = "unarchiving"
               \/ /\ task[n] = "settings" /\ task'[n] = "saving"
                  /\ cmd = "apply" => NewSettings(n)
               \/ task[n] = "archive" /\ task'[n] = "archiving" /\ Want(n).archived
<1> USE DEF Goes, Ends
<1>0. /\ repo \in [Names -> Repos] /\ patch \in [Names -> Patches]
      /\ task \in [Names -> Tasks]
  BY DEF CourseInv, OwnInv, TypeInv, TypeOK, CommandTypeOK, ForgeTypeOK
<1>1. CASE Unarchive(n) \/ Archive(n)
  <2>1. CASE Unarchive(n)
    BY <1>0, <2>1 DEF Unarchive, ForgeReadsRow
  <2>2. CASE Archive(n) /\ Want(n).archived
    BY <1>0, <2>2 DEF Archive, ForgeReadsRow
  <2>3. CASE Archive(n) /\ ~Want(n).archived
    BY <2>3 DEF Archive, forgeVars
  <2> QED BY <1>1, <2>1, <2>2, <2>3
<1>2. CASE RestoreSettings(n)
  BY <1>0, <1>2 DEF RestoreSettings, ForgeReadsRow, forgeVars
<1>3. CASE Settle(n)
  BY <1>0, <1>3 DEF Settle, ForgeReadsRow, forgeVars
<1>4. CASE CommandTask(n) /\ ~Unarchive(n) /\ ~Archive(n)
  BY <1>4
  DEF CommandTask, StepFails, ForcePushErrs, Lift, Archived, Replied, Await, AwaitTimesOut,
      GivesUp, Compare, CompareBelievesMissing, Write, forgeVars
<1>5. CASE ResetTask(n) /\ ~RestoreSettings(n)
  BY <1>5
  DEF ResetTask, LiftedForReset, Replied, Rewind, ForcePush, RewindDone, WaitRewound,
      WaitRewoundTimesOut, GivesUp, SettingsRestored, CloseRequests, DeleteBranches,
      DeleteTags, RestoreTopics, Write, forgeVars
<1>6. CASE ApplyTask(n) /\ ~Settle(n)
  BY <1>6
  DEF ApplyTask, Diff, CreateLands, ForgeCreates, CreateErrs, CreateConflicts, CheckLanded,
      Adopt, Label, Appear, Unarchived, Replied, Recheck, PushSeed, ForcePush, ReadBack,
      WaitPushed, WaitPushedTimesOut, GivesUp, Settled, SetTopics, DeleteStaleRefs, Write,
      forgeVars
<1> QED
  BY <1>1, <1>2, <1>3, <1>4, <1>5, <1>6 DEF RunTask

\* Every declared repository is to have content.
NoEmpties == \A v \in DOMAIN Fleets : \A n \in DOMAIN Fleets[v] : ~Fleets[v][n].empty

Creating == {"create", "landed?", "adopt", "label", "appear"}

AwaitingReply == {"saving", "unarchiving", "archiving"}

\* Where the row of n is to be read with no push of this run before it, or none
\* that was not waited for.
RowWanted(n) ==
  \/ Needed(change[n]) /\ ~change[n].create /\ ~change[n].push
  \/ phase = "plan" /\ (change[n].live.archived \/ change[n].recheck)
  \/ task[n] \in {"unarchive", "unarchiving", "recheck"}
  \/ cmd = "apply" /\ task[n] = "settings" /\ (NewSettings(n) \/ Want(n).archived)
  \/ /\ cmd = "apply" /\ task[n] \in {"saving", "topics", "stale refs", "archive"}
     /\ Want(n).archived
  \/ phase = "survey" /\ state[n].drift
  \/ cmd = "reset" /\ task[n] \in {"settings", "saving", "requests", "branches", "tags",
                                  "topics", "archive"}

\* What apply does to n it has decided on.
Decided(n) ==
  /\ cmd # "apply" => ~Needed(change[n])
  /\ cmd = "apply" /\ task[n] \in {"push", "lift", "push again"} =>
       change[n].create \/ change[n].push
  /\ task[n] \in Creating => change[n].create
  /\ task[n] = "recheck" => change[n].recheck
  /\ cmd = "apply" /\ task[n] \in Stages("apply") \ {"done", "failed"} =>
       Needed(change[n])

\* No row is read, or was, that a first push makes stale.
RowSafe(n) ==
  /\ repo[n].archived \/ patch[n].busy \/ RowWanted(n) => ~Unnoticed(repo[n])
  /\ patch[n].busy =>
       /\ patch[n].empty => repo[n].empty
       /\ cmd = "none" \/ task[n] \in AwaitingReply \cup {"failed"}
  /\ Decided(n)

EmptyInv ==
  CourseInv /\ \A n \in Names : Known(repo[n]) /\ (SavesRow => RowSafe(n))

\* A task keeps this if it waits for the reply to its settings write, and wants
\* to read no row that is stale.
LEMMA RowTask ==
  ASSUME EmptyInv, SavesRow, NEW n \in Names, RunTask(n), Decided(n)',
         task[n] \in AwaitingReply => task'[n] = "failed" \/ ~patch[n].busy,
         RowWanted(n)' => ~Unnoticed(repo'[n])
  PROVE  RowSafe(n)'
<1>0. /\ RowSafe(n) /\ cmd # "none" /\ task[n] \notin {"done", "failed"}
      /\ cmd' = cmd /\ CourseInv /\ n \in Declared
      /\ repo[n] \in Repos /\ Known(repo[n]) /\ cmd \in Commands
      /\ task[n] \in Stages(phase) /\ phase \in Phases
      /\ cmd = "verify" => phase = "check"
  BY TaskCourse, TaskAside, TaskDeclared, TaskBusy
  DEF EmptyInv, CourseInv, Course, InStage, OwnInv, TypeInv, TypeOK, CommandTypeOK,
      ForgeTypeOK, runVars
<1>1. CASE patch'[n] = patch[n]
  <2>1. CASE Milder(repo[n], repo'[n])
    BY <1>0, <1>1, <2>1 DEF RowSafe, Milder, Unnoticed, AwaitingReply
  <2>2. CASE task[n] \in {"push", "push again", "create"} /\ ~repo'[n].archived
    BY <1>0, <1>1, <2>2 DEF RowSafe, AwaitingReply
  <2>3. ASSUME \E b, t : repo'[n] = Pushed(repo[n], b, t)
        PROVE  repo'[n].archived = repo[n].archived
    BY <1>0, <2>3, PushedKnown
  <2> QED
    BY <1>0, <2>1, <2>2, <2>3, TaskRepo
<1>2. CASE patch'[n] # patch[n]
  <2>1. /\ patch'[n].empty = repo[n].empty /\ repo' = repo
        /\ task'[n] \in AwaitingReply
    BY <1>0, <1>2, TaskPatch DEF AwaitingReply
  <2>2. ~Unnoticed(repo[n])
    <3>1. CASE task[n] = "unarchive"
      BY <1>0, <3>1 DEF RowSafe, RowWanted
    <3>2. CASE task[n] # "unarchive"
      <4>1. /\ task[n] \in {"settings", "archive"}
            /\ task[n] = "settings" /\ cmd = "apply" => NewSettings(n)
            /\ task[n] = "archive" => Want(n).archived
        BY <1>0, <1>2, <3>2, TaskPatch
      <4>2. cmd \in {"apply", "reset"}
        BY <1>0, <4>1 DEF Commands, Stages
      <4> QED BY <1>0, <4>1, <4>2 DEF RowSafe, RowWanted
    <3> QED BY <3>1, <3>2
  <2> QED
    BY <1>0, <2>1, <2>2 DEF RowSafe
<1> QED
  BY <1>1, <1>2

\* What is known of n while a task works on it.
LEMMA RowFacts ==
  ASSUME EmptyInv, SavesRow, NEW n \in Names, RunTask(n)
  PROVE  /\ RowSafe(n) /\ Known(repo[n]) /\ n \in Declared /\ Want(n) \in Wants
         /\ owner \in [Names -> Owners]
         /\ repo \in [Names -> Repos] /\ patch \in [Names -> Patches]
         /\ task \in [Names -> Tasks] /\ change \in [Names -> Changes]
         /\ state \in [Names -> States]
         /\ phase \in Phases /\ task[n] \in Stages(phase) /\ cmd # "none"
         /\ phase \in {"plan", "apply", "settle"} => cmd = "apply"
         /\ phase \in {"survey", "reset"} => cmd = "reset"
         /\ UNCHANGED <<fleet, lock, cmd, phase>> /\ Want(n)' = Want(n)
         /\ change'[n] = change[n] => (NewSettings(n)' <=> NewSettings(n))
<1>1. UNCHANGED <<fleet, lock, cmd, phase>>
  BY TaskAside DEF EmptyInv, CourseInv, OwnInv, diskVars, runVars
<1>2. Want(n)' = Want(n)
  BY <1>1 DEF Want
<1>3. change'[n] = change[n] => (NewSettings(n)' <=> NewSettings(n))
  BY <1>2 DEF NewSettings, NewVisibility, NewDefault, Built
<1>4. n \in Declared /\ Want(n) \in Wants /\ cmd # "none"
  BY TaskDeclared, TaskCourse, WantType DEF EmptyInv, CourseInv, OwnInv
<1> QED
  BY <1>1, <1>2, <1>3, <1>4
  DEF EmptyInv, CourseInv, Course, InStage, OwnInv, TypeInv, TypeOK, CommandTypeOK,
      ForgeTypeOK

\* A survey finds drift only in what has content that is known of, or cannot be
\* read because it is archived.
LEMMA CompareOneRow ==
  ASSUME NEW want, NEW who, NEW r, ~want.empty, CompareOne(want, who, r).drift
  PROVE  r.archived \/ ~r.empty
BY DEF CompareOne, CompareGuards, Unreadable

\* A step apply and reset share reads no stale row.
LEMMA CommandTaskRow ==
  ASSUME EmptyInv, SavesRow, NoEmpties, NEW n \in Names, CommandTask(n)
  PROVE  RowSafe(n)'
<1> USE DEF Goes, Ends
<1>0. RunTask(n)
  BY DEF RunTask
<1>1. CASE Compare(n) \/ CompareBelievesMissing(n)
  <2>1. /\ task[n] = "compare" /\ task'[n] = "done" /\ UNCHANGED <<forgeVars, change>>
        /\ \/ state'[n] = Missing
           \/ state'[n] = CompareOne(Want(n), owner[n], repo[n])
    BY <1>0, <1>1, RowFacts DEF Compare, CompareBelievesMissing
  <2>2. ~Want(n).empty
    BY <1>0, RowFacts DEF NoEmpties, Want, EmptyInv, CourseInv, OwnInv, TypeInv, TypeOK,
                          CommandTypeOK, Declared
  <2>3. state'[n].drift => repo[n].archived \/ ~repo[n].empty
    BY <2>1, <2>2, CompareOneRow DEF Missing
  <2>4. state'[n].drift => ~Unnoticed(repo[n])
    BY <1>0, <2>3, RowFacts DEF RowSafe, Unnoticed
  <2>5. Decided(n)'
    BY <1>0, <2>1, RowFacts DEF RowSafe, Decided, Needed, Creating
  <2>6. RowWanted(n)' => ~Unnoticed(repo'[n])
    BY <1>0, <2>1, <2>4, RowFacts DEF RowSafe, RowWanted, Needed, forgeVars
  <2> QED
    BY <1>0, <2>1, <2>5, <2>6, RowTask DEF AwaitingReply
<1>2. CASE ~Compare(n) /\ ~CompareBelievesMissing(n)
  <2>1. UNCHANGED <<change, state>>
    BY <1>2
    DEF CommandTask, StepFails, ForcePushErrs, Lift, Unarchive, Archive, Archived, Replied,
        Await, AwaitTimesOut, GivesUp
  <2>2. /\ task'[n] \in {"done", "failed", "lift", "push again", "unarchiving", "archiving"}
        /\ task'[n] = "lift" => task[n] = "push"
        /\ task'[n] = "push again" => task[n] = "lift"
        /\ task'[n] = "unarchiving" => task[n] = "unarchive"
        /\ task'[n] = "archiving" => task[n] = "archive"
        /\ task[n] \in AwaitingReply => task'[n] = "failed" \/ ~patch[n].busy
    BY <1>0, <1>2, RowFacts
    DEF CommandTask, StepFails, ForcePushErrs, Lift, Unarchive, Archive, Archived, Replied,
        Await, AwaitTimesOut, GivesUp, AwaitingReply
  <2>3. repo'[n].empty = repo[n].empty /\ repo'[n].pending = repo[n].pending
    BY <1>0, <1>2, TaskRepoShared, RowFacts DEF EmptyInv, Milder
  <2>4. Decided(n)'
    BY <1>0, <2>1, <2>2, RowFacts
    DEF RowSafe, Decided, Needed, Creating, Stages, Seeds, Settling
  <2>5. RowWanted(n)' => ~Unnoticed(repo'[n])
    BY <1>0, <2>1, <2>2, <2>3, RowFacts DEF RowSafe, RowWanted, Needed, Unnoticed
  <2> QED
    BY <1>0, <2>2, <2>4, <2>5, RowTask
<1> QED
  BY <1>1, <1>2

\* A step of reset reads no stale row: settings are written after the push was
\* waited for, or without one, to what the survey saw to have content.
LEMMA ResetTaskRow ==
  ASSUME EmptyInv, SavesRow, NEW n \in Names, ResetTask(n)
  PROVE  RowSafe(n)'
<1> USE DEF Goes, Ends
<1>0. RunTask(n) /\ cmd = "reset" /\ change' = change
  <2>1. change' = change
    BY DEF ResetTask, LiftedForReset, Replied, Rewind, ForcePush, RewindDone, WaitRewound,
           WaitRewoundTimesOut, GivesUp, RestoreSettings, SettingsRestored, CloseRequests,
           DeleteBranches, DeleteTags, RestoreTopics
  <2> QED
    BY <2>1, ResetTaskResets DEF RunTask, EmptyInv
<1>1. task[n] \in AwaitingReply => task'[n] = "failed" \/ ~patch[n].busy
  BY DEF ResetTask, LiftedForReset, Replied, Rewind, ForcePush, RewindDone, WaitRewound,
         WaitRewoundTimesOut, GivesUp, RestoreSettings, SettingsRestored, CloseRequests,
         DeleteBranches, DeleteTags, RestoreTopics, AwaitingReply
<1>2. Decided(n)'
  <2>1. task'[n] \in Stages(phase) /\ phase \notin {"plan", "apply", "settle"}
    BY <1>0, TaskCourse DEF EmptyInv, CourseInv, Course
  <2>2. task'[n] \notin Creating \cup {"recheck"}
    BY <1>0, <2>1, RowFacts DEF Stages, Seeds, Creating, Phases
  <2> QED
    BY <1>0, <2>2, RowFacts DEF RowSafe, Decided, Needed
<1>3. RowWanted(n)' => ~Unnoticed(repo'[n])
  <2>0. ~Needed(change[n])' /\ phase # "survey" /\ phase # "plan"
    BY <1>0, RowFacts
    DEF RowSafe, Decided, Needed, Stages, ResetTask, LiftedForReset, Replied, Rewind,
        ForcePush, RewindDone, WaitRewound, WaitRewoundTimesOut, GivesUp, RestoreSettings,
        SettingsRestored, CloseRequests, DeleteBranches, DeleteTags, RestoreTopics
  <2>1. CASE Rewind(n) \/ RewindDone(n) \/ WaitRewoundTimesOut(n)
    <3>1. task'[n] \in {"pushed", "lift", "wait", "failed"}
      BY <2>1, RowFacts, <1>0
      DEF Rewind, ForcePush, RewindDone, WaitRewoundTimesOut, GivesUp
    <3> QED
      BY <1>0, <2>0, <3>1, RowFacts DEF RowWanted
  <2>2. CASE WaitRewound(n)
    BY <2>2 DEF WaitRewound, Reports, Unnoticed, forgeVars
  <2>3. CASE LiftedForReset(n)
    BY <1>0, <2>3, RowFacts DEF LiftedForReset, Replied, RowSafe, RowWanted, forgeVars
  <2>4. CASE RestoreSettings(n) \/ SettingsRestored(n) \/ CloseRequests(n)
             \/ DeleteBranches(n) \/ DeleteTags(n) \/ RestoreTopics(n)
    <3>1. task[n] \in {"settings", "saving", "requests", "branches", "tags", "topics"}
      BY <2>4
      DEF RestoreSettings, SettingsRestored, Replied, CloseRequests, DeleteBranches,
          DeleteTags, RestoreTopics
    <3>2. Milder(repo[n], repo'[n])
      BY <1>0, <3>1, TaskRepo DEF EmptyInv
    <3>3. ~Unnoticed(repo[n])
      BY <1>0, <3>1, RowFacts DEF RowSafe, RowWanted
    <3> QED
      BY <3>2, <3>3 DEF Milder, Unnoticed
  <2> QED
    BY <2>1, <2>2, <2>3, <2>4 DEF ResetTask
<1> QED
  BY <1>0, <1>1, <1>2, <1>3, RowTask

\* What a plan decides on without a push has content that is known of, or cannot
\* be read because it is archived.
LEMMA DiffOneRow ==
  ASSUME NEW want, NEW r, NEW prev, ~want.empty
  PROVE  LET c == DiffOne(want, r, prev)
         IN /\ ~c.push => r.archived \/ ~r.empty
            /\ c.live.archived \/ c.recheck => r.archived
BY DEF DiffOne, Unreadable, SeenOf

\* What is declared is to have content.
LEMMA WantsContent ==
  ASSUME CourseInv, NoEmpties, NEW n \in Declared
  PROVE  ~Want(n).empty
BY DEF NoEmpties, Want, CourseInv, OwnInv, TypeInv, TypeOK, CommandTypeOK, Declared

\* A plan makes no wish for a row that is stale.
LEMMA DiffRow ==
  ASSUME EmptyInv, SavesRow, NoEmpties, NEW n \in Names, Diff(n)
  PROVE  RowSafe(n)'
<1> USE DEF Goes, Ends
<1>0. RunTask(n)
  BY DEF RunTask, ApplyTask
<1>1. /\ task[n] = "diff" /\ phase = "plan" /\ cmd = "apply"
      /\ task'[n] \in {"done", "failed"} /\ repo' = repo
  BY <1>0, RowFacts DEF Diff, forgeVars, Stages, Seeds, Settling, Phases
<1>2. Decided(n)'
  BY <1>0, <1>1, RowFacts DEF Decided, Creating
<1>3. RowWanted(n)' => ~Unnoticed(repo'[n])
  <2>1. CASE change'[n] = change[n]
    BY <1>0, <1>1, <2>1, RowFacts DEF RowWanted, RowSafe, Needed
  <2>2. CASE change'[n] = Creation(Want(n))
    <3>1. /\ change'[n].create /\ ~change'[n].live.archived /\ ~change'[n].recheck
      BY <2>2 DEF Creation, Unseen
    <3> QED
      BY <1>0, <1>1, <3>1, RowFacts DEF RowWanted
  <2>3. CASE change'[n] = DiffOne(Want(n), repo[n], Previous(n))
    <3>1. ~Want(n).empty
      BY <1>0, RowFacts, WantsContent DEF EmptyInv
    <3>2. /\ ~change'[n].push => repo[n].archived \/ ~repo[n].empty
          /\ change'[n].live.archived \/ change'[n].recheck => repo[n].archived
      BY <2>3, <3>1, DiffOneRow
    <3>3. repo[n].archived \/ ~repo[n].empty => ~Unnoticed(repo[n])
      BY <1>0, RowFacts DEF RowSafe, Unnoticed
    <3> QED
      BY <1>0, <1>1, <3>2, <3>3, RowFacts DEF RowWanted
  <2> QED
    BY <1>0, <2>1, <2>2, <2>3, RowFacts DEF Diff
<1> QED
  BY <1>0, <1>1, <1>2, <1>3, RowTask DEF AwaitingReply

\* What is being created is pushed to before its row is read.
LEMMA CreateRow ==
  ASSUME EmptyInv, SavesRow, NEW n \in Names,
         \/ CreateLands(n) \/ CreateErrs(n) \/ CreateConflicts(n) \/ CheckLanded(n)
         \/ Adopt(n) \/ Label(n) \/ Appear(n)
  PROVE  RowSafe(n)'
<1> USE DEF Goes, Ends
<1>0. RunTask(n)
  BY DEF RunTask, ApplyTask
<1>1. /\ task[n] \in Creating /\ change' = change
      /\ task'[n] \in Creating \cup {"push", "pushed", "failed"}
  BY <1>0, RowFacts
  DEF CreateLands, CreateErrs, CreateConflicts, CheckLanded, Adopt, Recognise, Label, Appear,
      Creating
<1>2. phase = "apply" /\ cmd = "apply"
  BY <1>0, <1>1, RowFacts DEF Creating, Stages, Seeds, Settling, Phases
<1>3. change'[n].create
  BY <1>0, <1>1, RowFacts DEF RowSafe, Decided
<1>4. Decided(n)'
  BY <1>0, <1>1, <1>2, <1>3, RowFacts DEF Decided, Needed, Creating
<1>5. ~RowWanted(n)'
  BY <1>0, <1>1, <1>2, <1>3, RowFacts DEF RowWanted, Creating
<1> QED
  BY <1>0, <1>1, <1>4, <1>5, RowTask DEF Creating, AwaitingReply

\* A seed goes to what was decided on.
LEMMA SeedRow ==
  ASSUME EmptyInv, SavesRow, NEW n \in Names,
         Unarchived(n) \/ Recheck(n) \/ PushSeed(n)
  PROVE  RowSafe(n)'
<1> USE DEF Goes, Ends
<1>0. RunTask(n)
  BY DEF RunTask, ApplyTask
<1>1. phase = "apply" /\ cmd = "apply"
  BY <1>0, RowFacts
  DEF Unarchived, Replied, Recheck, PushSeed, ForcePush, Stages, Seeds, Settling, Phases
<1>2. Needed(change[n])
  BY <1>0, <1>1, RowFacts
  DEF Unarchived, Replied, Recheck, PushSeed, ForcePush, Stages, Seeds, Settling, RowSafe,
      Decided
<1>3. CASE Unarchived(n)
  <2>1. /\ task[n] = "unarchiving" /\ ~patch[n].busy
        /\ UNCHANGED <<change, repo>> /\ task'[n] = Seeding(n)
    BY <1>0, <1>3, RowFacts DEF Unarchived, Replied, forgeVars
  <2>2. ~Unnoticed(repo'[n])
    BY <1>0, <2>1, RowFacts DEF RowSafe, RowWanted
  <2>3. Decided(n)'
    BY <1>0, <1>1, <1>2, <2>1, RowFacts DEF Decided, Needed, Seeding, Creating
  <2> QED
    BY <1>0, <2>1, <2>2, <2>3, RowTask
<1>4. CASE Recheck(n)
  <2>1. /\ task[n] = "recheck" /\ repo' = repo
        /\ \E p : change'[n] = [change[n] EXCEPT !.push = p]
        /\ task'[n] = IF change'[n].push THEN "push" ELSE "pushed"
    BY <1>0, <1>4, RowFacts DEF Recheck, forgeVars, Changes
  <2>2. ~Unnoticed(repo'[n])
    BY <1>0, <2>1, RowFacts DEF RowSafe, RowWanted
  <2>3. change'[n].recheck
    <3>1. change[n].recheck /\ change[n] \in Changes
      BY <1>0, <2>1, RowFacts DEF RowSafe, Decided
    <3> QED BY <2>1, <3>1 DEF Changes
  <2>4. Decided(n)'
    BY <1>0, <1>1, <2>1, <2>3, RowFacts DEF Decided, Needed, Creating
  <2> QED
    BY <1>0, <2>1, <2>2, <2>4, RowTask DEF AwaitingReply
<1>5. CASE PushSeed(n)
  <2>1. /\ task[n] \in {"push", "push again"} /\ change' = change
        /\ task'[n] \in {"pushed", "lift", "failed"}
    BY <1>0, <1>5, RowFacts DEF PushSeed, ForcePush
  <2>2. change'[n].create \/ change'[n].push
    BY <1>0, <1>1, <2>1, RowFacts DEF RowSafe, Decided
  <2>3. Decided(n)'
    BY <1>0, <1>1, <1>2, <2>1, <2>2, RowFacts DEF Decided, Needed, Creating
  <2>4. ~RowWanted(n)'
    BY <1>0, <1>1, <2>1, <2>2, RowFacts DEF RowWanted
  <2> QED
    BY <1>0, <2>1, <2>3, <2>4, RowTask DEF AwaitingReply
<1> QED
  BY <1>3, <1>4, <1>5

\* Settings are written after the push was waited for, or where there was none.
LEMMA SettleRow ==
  ASSUME EmptyInv, SavesRow, NoEmpties, NEW n \in Names,
         \/ ReadBack(n) \/ WaitPushed(n) \/ WaitPushedTimesOut(n) \/ Settle(n)
         \/ Settled(n) \/ SetTopics(n) \/ DeleteStaleRefs(n)
  PROVE  RowSafe(n)'
<1> USE DEF Goes, Ends
<1>0. RunTask(n)
  BY DEF RunTask, ApplyTask
<1>1. /\ task[n] \in {"pushed", "wait", "settings", "saving", "topics", "stale refs"}
      /\ phase \in {"apply", "settle"} /\ cmd = "apply"
  <2>1. ApplyTask(n)
    BY DEF ApplyTask
  <2>2. cmd = "apply"
    BY <2>1, ApplyTaskApplies DEF EmptyInv
  <2>3. task[n] \in {"pushed", "wait", "settings", "saving", "topics", "stale refs"}
    BY DEF ReadBack, WaitPushed, WaitPushedTimesOut, Settle, Settled, Replied, SetTopics,
           DeleteStaleRefs
  <2> QED
    BY <1>0, <2>2, <2>3, RowFacts DEF Stages, Seeds, Settling, Phases
<1>2. Needed(change[n])
  BY <1>0, <1>1, RowFacts DEF RowSafe, Decided, Stages, Seeds, Settling
<1>3. CASE ReadBack(n)
  <2>1. /\ task'[n] = "wait" /\ repo' = repo
        /\ \E l : change'[n] = [change[n] EXCEPT !.live = l]
    BY <1>0, <1>3, RowFacts DEF ReadBack, forgeVars
  <2>2. /\ change'[n].create = change[n].create /\ change'[n].push = change[n].push
        /\ change'[n].recheck = change[n].recheck /\ change'[n].notes = change[n].notes
    BY <1>0, <2>1, RowFacts DEF Changes
  <2>3. Decided(n)'
    BY <1>0, <1>1, <1>2, <2>1, <2>2, RowFacts DEF Decided, Needed, Creating
  <2>4. RowWanted(n)' => RowWanted(n)
    BY <1>0, <1>1, <2>1, <2>2, RowFacts DEF RowWanted, Needed
  <2>5. RowWanted(n)' => ~Unnoticed(repo'[n])
    BY <1>0, <2>1, <2>4, RowFacts DEF RowSafe
  <2>6. task[n] \notin AwaitingReply
    BY <1>3 DEF ReadBack, AwaitingReply
  <2> QED
    BY <1>0, <2>3, <2>5, <2>6, RowTask
<1>4. CASE ~ReadBack(n)
  <2>1. /\ change' = change
        /\ task'[n] \in {"settings", "saving", "topics", "stale refs", "archive", "failed"}
        /\ task'[n] = "settings" => task[n] = "wait"
        /\ task[n] \in AwaitingReply => task'[n] = "failed" \/ ~patch[n].busy
    BY <1>0, <1>4, RowFacts
    DEF WaitPushed, WaitPushedTimesOut, GivesUp, Settle, Settled, Replied, SetTopics,
        DeleteStaleRefs, AwaitingReply
  <2>2. Decided(n)'
    BY <1>0, <1>1, <1>2, <2>1, RowFacts DEF Decided, Needed, Creating
  <2>3. Milder(repo[n], repo'[n])
    BY <1>0, <1>1, TaskRepo DEF EmptyInv
  <2>4. RowWanted(n)' => ~Unnoticed(repo'[n])
    <3>1. RowWanted(n) => ~Unnoticed(repo'[n])
      BY <1>0, <2>3, RowFacts DEF RowSafe, Milder, Unnoticed
    <3>2. CASE WaitPushed(n)
      <4>1. task[n] = "wait" /\ task'[n] = "settings" /\ repo' = repo
        BY <1>0, <3>2, RowFacts DEF WaitPushed, forgeVars
      <4>2. CASE MustWait(n)
        BY <3>2, <4>1, <4>2 DEF WaitPushed, Reports, Unnoticed
      <4>3. CASE ~MustWait(n)
        <5>1. Built(n)
          BY <1>0, RowFacts, WantsContent DEF EmptyInv, Built
        <5>2. RowWanted(n)' => RowWanted(n)
          BY <1>0, <1>1, <1>2, <2>1, <4>1, <4>3, <5>1, RowFacts DEF MustWait, RowWanted, Needed
        <5> QED BY <3>1, <5>2
      <4> QED BY <4>2, <4>3
    <3>3. CASE ~WaitPushed(n)
      <4>1. task'[n] = "failed" \/ task[n] \in {"settings", "saving", "topics", "stale refs"}
        BY <1>0, <1>4, <3>3, RowFacts
        DEF WaitPushedTimesOut, GivesUp, Settle, Settled, Replied, SetTopics,
            DeleteStaleRefs
      <4>2. RowWanted(n)' => RowWanted(n)
        BY <1>0, <1>1, <2>1, <4>1, RowFacts DEF RowWanted, Needed
      <4> QED BY <3>1, <4>2
    <3> QED BY <3>2, <3>3
  <2> QED
    BY <1>0, <2>1, <2>2, <2>4, RowTask
<1> QED
  BY <1>3, <1>4

\* A task keeps what a first push needs.
LEMMA TaskRow ==
  ASSUME EmptyInv, SavesRow => NoEmpties, NEW n \in Names, RunTask(n)
  PROVE  \A m \in Names : Known(repo[m])' /\ (SavesRow => RowSafe(m)')
<1>0. TypeInv /\ CourseInv /\ Aside(n) /\ UNCHANGED <<diskVars, runVars>>
  BY TaskAside DEF EmptyInv, CourseInv, OwnInv
<1>1. ASSUME NEW m \in Names, m # n
      PROVE  Known(repo[m])' /\ (SavesRow => RowSafe(m)')
  <2>1. /\ UNCHANGED <<cmd, phase, fleet>> /\ Want(m)' = Want(m)
        /\ repo'[m] = repo[m] /\ patch'[m] = patch[m] /\ task'[m] = task[m]
        /\ change'[m] = change[m] /\ state'[m] = state[m]
    BY <1>0, <1>1 DEF Aside, diskVars, runVars, Want
  <2>2. NewSettings(m)' <=> NewSettings(m)
    BY <2>1 DEF NewSettings, NewVisibility, NewDefault, Built
  <2>3. RowWanted(m)' <=> RowWanted(m)
    BY <2>1, <2>2 DEF RowWanted, Needed
  <2>4. Decided(m)' <=> Decided(m)
    BY <2>1 DEF Decided, Needed, Stages
  <2> QED
    BY <2>1, <2>3, <2>4 DEF EmptyInv, RowSafe, Known
<1>2. Known(repo[n])'
  <2>1. repo[n] \in Repos /\ Known(repo[n])
    BY <1>0 DEF EmptyInv, TypeInv, TypeOK, ForgeTypeOK
  <2>2. CASE Milder(repo[n], repo'[n])
    BY <2>1, <2>2 DEF Milder, Known, HasRefs
  <2>3. ASSUME \E b, t : repo'[n] = Pushed(repo[n], b, t)
        PROVE  Known(repo'[n])
    BY <2>1, <2>3, PushedKnown
  <2>4. CASE ~HasRefs(repo'[n])
    BY <2>4 DEF Known
  <2> QED
    BY <1>0, <2>2, <2>3, <2>4, TaskRepo
<1>3. SavesRow => RowSafe(n)'
  BY CommandTaskRow, ResetTaskRow, DiffRow, CreateRow, SeedRow, SettleRow
  DEF RunTask, ApplyTask
<1> QED
  BY <1>1, <1>2, <1>3

\* A command that ends wants nothing read any more.
LEMMA FinishRow ==
  ASSUME EmptyInv, NEW code, Finish(code), UNCHANGED <<repo, patch>>
  PROVE  \A n \in Names : Known(repo[n])' /\ (SavesRow => RowSafe(n)')
<1> SUFFICES ASSUME NEW n \in Names
             PROVE  Known(repo[n])' /\ (SavesRow => RowSafe(n)')
  OBVIOUS
<1>1. /\ cmd' = "none" /\ phase' = "idle" /\ task'[n] = "done"
      /\ change'[n] = Nothing /\ state'[n] = Unchecked
  BY DEF Finish
<1>2. ~Needed(change'[n])
  BY <1>1, NothingType
<1>3. ~RowWanted(n)'
  BY <1>1, <1>2 DEF RowWanted, Needed
<1>4. Decided(n)'
  BY <1>1, <1>2 DEF Decided, Needed, Creating
<1> QED
  BY <1>1, <1>3, <1>4 DEF EmptyInv, RowSafe, Known

\* A phase that begins after all went well finds no settings write under way, and
\* is to want no row read but what the one before it wanted.
LEMMA EnterRow ==
  ASSUME EmptyInv, NEW p, NEW start, Enter(p, start), cmd # "none",
         UNCHANGED <<forgeVars, fleet>>,
         \A n \in Names : task[n] \in {"done", "pushed"},
         \A n \in Names : SavesRow => Decided(n)' /\ (RowWanted(n)' => RowWanted(n))
  PROVE  \A n \in Names : Known(repo[n])' /\ (SavesRow => RowSafe(n)')
<1> SUFFICES ASSUME NEW n \in Names
             PROVE  Known(repo[n])' /\ (SavesRow => RowSafe(n)')
  OBVIOUS
<1>1. SavesRow => ~patch[n].busy
  BY DEF EmptyInv, RowSafe, AwaitingReply
<1> QED
  BY <1>1 DEF EmptyInv, RowSafe, Known, forgeVars

\* So does every step from one phase to the next.
LEMMA RunStepRow ==
  ASSUME EmptyInv, RunStep
  PROVE  \A n \in Names : Known(repo[n])' /\ (SavesRow => RowSafe(n)')
<1>0. /\ cmd \in Commands /\ phase \in Phases /\ CourseInv
      /\ task \in [Names -> Tasks] /\ change \in [Names -> Changes]
      /\ phase \in {"plan", "apply", "settle"} => cmd = "apply"
      /\ phase \in {"survey", "reset"} => cmd = "reset"
      /\ cmd = "none" <=> phase = "idle"
      /\ \A n \in Names : SavesRow => RowSafe(n)
      /\ PhaseOver /\ AllWell => \A n \in Names : task[n] \in {"done", "pushed"}
  BY DEF EmptyInv, CourseInv, Course, OwnInv, TypeInv, TypeOK, CommandTypeOK, PhaseOver,
         AllWell
<1>1. CASE Abort \/ EndCheck
  BY <1>1, FinishRow DEF Abort, EndCheck, forgeVars
<1>2. CASE StartWork
  <2> DEFINE start == [n \in Names |-> IF n \in Declared /\ Needed(change[n])
                                       THEN FirstStep(n) ELSE "done"]
  <2>1. /\ Enter("apply", start) /\ phase = "plan" /\ cmd = "apply"
        /\ UNCHANGED <<forgeVars, fleet, change, state>>
        /\ \A n \in Names : task[n] \in {"done", "pushed"}
    BY <1>0, <1>2 DEF StartWork, diskVars
  <2>2. ASSUME NEW n \in Names, SavesRow
        PROVE  Decided(n)' /\ (RowWanted(n)' => RowWanted(n))
    <3>1. /\ cmd' = "apply" /\ phase' = "apply" /\ change'[n] = change[n]
          /\ \/ task'[n] = "done"
             \/ Needed(change[n]) /\ task'[n] = FirstStep(n)
      BY <2>1, <2>2 DEF Enter
    <3>2. Decided(n)'
      BY <3>1 DEF Decided, Needed, FirstStep, Seeding, Creating
    <3>3. RowWanted(n)' => RowWanted(n)
      BY <2>1, <3>1 DEF RowWanted, Needed, FirstStep, Seeding
    <3> QED BY <3>2, <3>3
  <2> HIDE DEF start
  <2> QED
    BY <2>1, <2>2, EnterRow
<1>3. CASE StartSettle /\ AllWell
  <2> DEFINE start == [n \in Names |-> IF task[n] = "pushed" THEN "wait" ELSE "done"]
  <2>1. /\ Enter("settle", start) /\ phase = "apply" /\ cmd = "apply"
        /\ UNCHANGED <<forgeVars, fleet>>
        /\ \A n \in Names : task[n] \in {"done", "pushed"}
    BY <1>3 DEF StartSettle, diskVars, PushesOver, AllWell
  <2>2. ASSUME NEW n \in Names, SavesRow
        PROVE  Decided(n)' /\ (RowWanted(n)' => RowWanted(n))
    <3>1. /\ cmd' = "apply" /\ phase' = "settle"
          /\ \/ task'[n] = "done"
             \/ task[n] = "pushed" /\ task'[n] = "wait"
      BY <2>1, <2>2 DEF Enter
    <3>2. change'[n] = change[n] \/ \E l : change'[n] = [change[n] EXCEPT !.live = l]
      BY <1>3 DEF StartSettle
    <3>3. /\ change'[n].create = change[n].create /\ change'[n].push = change[n].push
          /\ Needed(change'[n]) = Needed(change[n])
      BY <1>0, <3>2 DEF Changes, Needed
    <3>4. task[n] = "pushed" => Needed(change[n])
      BY <1>0, <2>1, <2>2 DEF RowSafe, Decided, Stages, Seeds
    <3>5. Decided(n)'
      BY <3>1, <3>3, <3>4 DEF Decided, Needed, Creating
    <3>6. RowWanted(n)' => RowWanted(n)
      BY <2>1, <3>1, <3>3 DEF RowWanted, Needed
    <3> QED BY <3>5, <3>6
  <2> HIDE DEF start
  <2> QED
    BY <2>1, <2>2, EnterRow
<1>4. CASE StartSettle /\ ~AllWell
  BY <1>4, FinishRow DEF StartSettle, forgeVars
<1>5. CASE WriteLock \/ StartReady \/ StartCheck
  <2>1. PICK p, start :
          /\ p \in {"ready", "check"} /\ Enter(p, start)
          /\ \A n \in Names : start[n] \in {"await", "compare", "done"}
    <3>1. CASE WriteLock
      BY <3>1 DEF WriteLock, Each
    <3>2. CASE StartReady
      BY <3>2 DEF StartReady, Each
    <3>3. CASE StartCheck
      BY <3>3 DEF StartCheck, Each
    <3> QED BY <1>5, <3>1, <3>2, <3>3
  <2>2. /\ cmd # "none" /\ UNCHANGED <<forgeVars, fleet, change, state>>
        /\ \A n \in Names : task[n] \in {"done", "pushed"}
    BY <1>0, <1>5 DEF WriteLock, StartReady, StartCheck, diskVars
  <2>3. ASSUME NEW n \in Names, SavesRow
        PROVE  Decided(n)' /\ (RowWanted(n)' => RowWanted(n))
    <3>1. /\ cmd' = cmd /\ phase' = p /\ change'[n] = change[n]
          /\ task'[n] \in {"await", "compare", "done"}
      BY <2>1, <2>2 DEF Enter
    <3>2. Decided(n)'
      BY <1>0, <2>3, <3>1 DEF RowSafe, Decided, Needed, Creating, Stages, Seeds, Settling
    <3>3. RowWanted(n)' => RowWanted(n)
      BY <2>1, <3>1 DEF RowWanted, Needed
    <3> QED BY <3>2, <3>3
  <2> QED
    BY <2>1, <2>2, <2>3, EnterRow
<1>6. CASE StartRepairs /\ Verdict # "drift"
  BY <1>6, FinishRow DEF StartRepairs, forgeVars
<1>7. CASE StartRepairs /\ Verdict = "drift"
  <2> DEFINE start == [n \in Names |-> IF n \in Drifted THEN FirstRepair(n) ELSE "done"]
  <2>1. /\ Enter("reset", start) /\ phase = "survey" /\ cmd = "reset"
        /\ UNCHANGED <<forgeVars, fleet, change, state>>
        /\ \A n \in Names : task[n] \in {"done", "pushed"}
    BY <1>0, <1>7 DEF StartRepairs, diskVars
  <2>2. ASSUME NEW n \in Names, SavesRow
        PROVE  Decided(n)' /\ (RowWanted(n)' => RowWanted(n))
    <3>1. /\ cmd' = "reset" /\ phase' = "reset" /\ change'[n] = change[n]
          /\ state'[n] = state[n]
          /\ \/ task'[n] = "done"
             \/ state[n].drift /\ task'[n] \in {"unarchive", "push", "settings"}
      BY <2>1, <2>2 DEF Enter, Drifted, FirstRepair, Rewinding
    <3>2. Decided(n)'
      BY <1>0, <2>1, <2>2, <3>1 DEF RowSafe, Decided, Needed, Creating
    <3>3. RowWanted(n)' => RowWanted(n)
      BY <2>1, <3>1 DEF RowWanted, Needed
    <3> QED BY <3>2, <3>3
  <2> HIDE DEF start
  <2> QED
    BY <2>1, <2>2, EnterRow
<1> QED
  BY <1>1, <1>2, <1>3, <1>4, <1>5, <1>6, <1>7
  DEF RunStep, CommandStep, ApplyStep, ResetStep

\* Where the forge saves whole rows: a command starts when the settings writes of
\* the last one have been served, tests and the author let the forge catch up,
\* and every repository is to have content.
Heedful == SavesRow => ~SlowSaves /\ People # "hasty" /\ NoEmpties

\* The forge's own work loses sight of no push.
LEMMA ForgesRow ==
  ASSUME EmptyInv, NEW n \in Names, Forges(n)
  PROVE  \A m \in Names : Known(repo[m])' /\ (SavesRow => RowSafe(m)')
<1>0. /\ repo \in [Names -> Repos] /\ repo[n] \in Repos /\ patch \in [Names -> Patches]
      /\ Known(repo[n]) /\ (SavesRow => RowSafe(n))
      /\ UNCHANGED <<fleet, cmd, phase, task, change, state>>
      /\ \A m \in Names \ {n} : repo'[m] = repo[m] /\ patch'[m] = patch[m]
  BY DEF EmptyInv, CourseInv, OwnInv, TypeInv, TypeOK, ForgeTypeOK, Forges, Saves, ForgeSaves,
         Reflects, ForgeReflects, Answers, ForgeAnswers, diskVars, commandVars, runVars,
         poolVars
<1>1. ASSUME NEW m \in Names
      PROVE  (RowWanted(m)' <=> RowWanted(m)) /\ (Decided(m)' <=> Decided(m))
  <2>1. Want(m)' = Want(m) /\ (NewSettings(m)' <=> NewSettings(m))
    BY <1>0 DEF Want, NewSettings, NewVisibility, NewDefault, Built
  <2> QED
    BY <1>0, <2>1 DEF RowWanted, Decided, Needed
<1>2. \A m \in Names \ {n} : Known(repo[m])' /\ (SavesRow => RowSafe(m)')
  BY <1>0, <1>1 DEF EmptyInv, Known, RowSafe
<1>3. CASE Saves(n)
  <2>1. /\ repo'[n] = Saved(n) /\ ~patch'[n].busy /\ patch[n].busy
    BY <1>0, <1>3 DEF Saves, ForgeSaves, NoPatch
  <2>2. /\ Saved(n).pending = repo[n].pending /\ Saved(n).branches = repo[n].branches
        /\ Saved(n).tags = repo[n].tags
        /\ Saved(n).empty = IF SavesRow THEN patch[n].empty ELSE repo[n].empty
    BY <1>0 DEF Saved, Relaxed, Repos
  <2>3. Known(repo'[n])
    BY <1>0, <2>1, <2>2 DEF Known, HasRefs, RowSafe
  <2>4. SavesRow => ~Unnoticed(repo'[n])
    BY <1>0, <2>1, <2>2 DEF Unnoticed, RowSafe
  <2> QED
    BY <1>0, <1>1, <1>2, <2>1, <2>3, <2>4 DEF RowSafe
<1>4. CASE Reflects(n)
  <2>1. /\ repo[n].pending /\ ~repo'[n].pending /\ ~repo'[n].empty /\ patch' = patch
    BY <1>0, <1>4 DEF Reflects, ForgeReflects, Begun, Repos
  <2>2. patch[n].busy /\ SavesRow => ~patch[n].empty
    BY <1>0, <2>1 DEF RowSafe, Unnoticed
  <2> QED
    BY <1>0, <1>1, <1>2, <2>1, <2>2 DEF Known, RowSafe, Unnoticed
<1>5. CASE Answers(n)
  BY <1>0, <1>1, <1>2, <1>5 DEF Answers, ForgeAnswers, Known, RowSafe
<1> QED
  BY <1>3, <1>4, <1>5 DEF Forges

\* A test may push, or archive what it did not just push to.
LEMMA RepoEditsRow ==
  ASSUME NEW r \in Repos, NEW s \in RepoEdits(r), ~r.archived
  PROVE  /\ Known(r) => Known(s)
         /\ s.archived => s.pending = r.pending
         /\ s.empty => r.empty
         /\ s.pending => r.pending \/ Background
<1> DEFINE Edited == /\ Known(r) => Known(s)
                     /\ s.archived => s.pending = r.pending
                     /\ s.empty => r.empty
                     /\ s.pending => r.pending \/ Background
<1>1. ASSUME NEW b, NEW t, s = Pushed(r, b, t)
      PROVE  Edited
  BY <1>1, PushedKnown
<1>2. ASSUME SameRefs(r, s), s.pending = r.pending, s.empty = r.empty
      PROVE  Edited
  BY <1>2 DEF Known, HasRefs, SameRefs
<1> HIDE DEF Edited
<1>3. CASE s \in RefEdits(r)
  <2>1. ASSUME NEW b, NEW c, s = PushBranch(r, b, c)
        PROVE  Edited
    BY <1>1, <2>1 DEF PushBranch
  <2>2. ASSUME NEW t, NEW c, s = PushTag(r, t, c)
        PROVE  Edited
    BY <1>1, <2>2 DEF PushTag
  <2>3. ASSUME NEW b, s = [r EXCEPT !.requests = @ \cup {b}]
        PROVE  Edited
    BY <1>2, <2>3 DEF Repos, SameRefs
  <2> QED
    BY <1>3, <2>1, <2>2, <2>3 DEF RefEdits, Edited
<1>4. CASE s \in BaselineEdits(r)
  <2>1. ASSUME NEW c, s = PushTag(r, Baseline, c)
        PROVE  Edited
    BY <1>1, <2>1 DEF PushTag
  <2> QED
    BY <1>4, <2>1 DEF BaselineEdits, Edited
<1>5. CASE s \in SettingsEdits(r) \cup ProtectionEdits(r)
  BY <1>2, <1>5 DEF SettingsEdits, ProtectionEdits, Repos, SameRefs, Edited
<1> QED
  BY <1>3, <1>4, <1>5 DEF RepoEdits, Edited

\* Between commands nothing is to be read.
LEMMA IdleRow ==
  ASSUME CourseInv, cmd = "none", NEW n \in Names
  PROVE  Decided(n) /\ ~RowWanted(n)
<1>1. /\ change[n] = Nothing /\ phase = "idle" /\ task[n] = "done"
  BY DEF CourseInv, Course, InStage, Stages
<1>2. ~Needed(change[n])
  BY <1>1, NothingType
<1> QED
  BY <1>1, <1>2 DEF Decided, RowWanted, Creating

\* What others do to a repository undoes no push.
LEMMA OthersRow ==
  ASSUME EmptyInv, Heedful, NEW n \in Names, Others(n)
  PROVE  \A m \in Names : Known(repo[m])' /\ (SavesRow => RowSafe(m)')
<1>0. /\ repo \in [Names -> Repos] /\ repo[n] \in Repos /\ Known(repo[n])
      /\ \A m \in Names : SavesRow => RowSafe(m)
      /\ UNCHANGED <<patch, fleet, cmd, phase, task, change, state>>
      /\ \A m \in Names \ {n} : repo'[m] = repo[m]
      /\ owner[n] = "nobody" => ~patch[n].busy
  BY DEF EmptyInv, CourseInv, OwnInv, LeftAlone, NotOurs, Harmless, TypeInv, TypeOK,
         ForgeTypeOK, Others, TestEdits, UserDeletes, StrangerCreates, Write, diskVars,
         commandVars, runVars, poolVars
<1>1. ASSUME NEW m \in Names
      PROVE  (RowWanted(m)' <=> RowWanted(m)) /\ (Decided(m)' <=> Decided(m))
  <2>1. Want(m)' = Want(m) /\ (NewSettings(m)' <=> NewSettings(m))
    BY <1>0 DEF Want, NewSettings, NewVisibility, NewDefault, Built
  <2> QED
    BY <1>0, <2>1 DEF RowWanted, Decided, Needed
<1>2. \A m \in Names \ {n} : Known(repo[m])' /\ (SavesRow => RowSafe(m)')
  BY <1>0, <1>1 DEF EmptyInv, Known, RowSafe
<1>3. CASE UserDeletes(n) \/ StrangerCreates(n)
  <2>1. repo'[n] = Blank /\ ~patch[n].busy
    BY <1>0, <1>3 DEF UserDeletes, StrangerCreates, Quiet
  <2>2. ~Blank.pending /\ ~HasRefs(Blank)
    BY DEF Blank, Has, HasRefs
  <2> QED
    BY <1>0, <1>1, <1>2, <2>1, <2>2 DEF Known, RowSafe, Unnoticed
<1>4. CASE TestEdits(n)
  <2>1. /\ cmd = "none" /\ ~patch[n].busy /\ (SavesRow => ~repo[n].pending)
        /\ \/ ~repo[n].archived /\ repo'[n] \in RepoEdits(repo[n])
           \/ repo'[n] = [repo[n] EXCEPT !.archived = FALSE]
    BY <1>0, <1>4 DEF TestEdits, Quiet, Write, Heedful
  <2>2. Known(repo'[n]) /\ (repo'[n].archived => repo'[n].pending = repo[n].pending)
    <3>1. CASE repo'[n] = [repo[n] EXCEPT !.archived = FALSE]
      BY <1>0, <3>1 DEF Known, HasRefs, Repos
    <3>2. CASE ~repo[n].archived /\ repo'[n] \in RepoEdits(repo[n])
      BY <1>0, <3>2, RepoEditsRow
    <3> QED BY <2>1, <3>1, <3>2
  <2>3. Decided(n) /\ ~RowWanted(n)
    BY <2>1, IdleRow DEF EmptyInv
  <2> QED
    BY <1>0, <1>1, <1>2, <2>1, <2>2, <2>3 DEF RowSafe, Unnoticed
<1> QED
  BY <1>3, <1>4 DEF Others

\* A command starts with nothing decided, and nothing under way.
LEMMA RunRow ==
  ASSUME EmptyInv, Heedful, RunApply \/ RunVerify \/ RunReset
  PROVE  \A n \in Names : Known(repo[n])' /\ (SavesRow => RowSafe(n)')
<1> SUFFICES ASSUME NEW n \in Names
             PROVE  Known(repo[n])' /\ (SavesRow => RowSafe(n)')
  OBVIOUS
<1>0. /\ cmd = "none" /\ Served /\ UNCHANGED <<forgeVars, change, state>>
      /\ change[n] = Nothing /\ state[n] = Unchecked /\ phase = "idle" /\ task[n] = "done"
  BY DEF EmptyInv, CourseInv, Course, InStage, Stages, RunApply, StartApply, RunVerify,
         StartVerify, RunReset, StartReset, Refuse
<1>1. \/ task'[n] \in {"diff", "compare", "done"} /\ phase' \in {"plan", "survey", "check"}
      \/ UNCHANGED <<task, phase, cmd>>
  BY DEF RunApply, StartApply, RunVerify, StartVerify, RunReset, StartReset, Refuse, Each,
         poolVars
<1>2. /\ ~Needed(change'[n]) /\ ~change'[n].live.archived /\ ~change'[n].recheck
      /\ ~state'[n].drift
  BY <1>0, NothingType, UncheckedType DEF Nothing
<1>3. ~RowWanted(n)' /\ Decided(n)'
  BY <1>0, <1>1, <1>2 DEF RowWanted, Decided, Needed, Creating, Stages, Seeds, Settling
<1>4. SavesRow => ~patch'[n].busy
  BY <1>0 DEF Served, Heedful, forgeVars
<1> QED
  BY <1>0, <1>3, <1>4 DEF EmptyInv, RowSafe, Known, forgeVars

\* Every step keeps every push in sight.
LEMMA EmptyInvStep == Heedful /\ EmptyInv /\ [Next]_vars => EmptyInv'
<1> SUFFICES ASSUME Heedful, EmptyInv, [Next]_vars
             PROVE  \A n \in Names : Known(repo[n])' /\ (SavesRow => RowSafe(n)')
  BY CourseStep DEF EmptyInv
<1>1. ASSUME NEW n \in Names, RunTask(n)
      PROVE  \A m \in Names : Known(repo[m])' /\ (SavesRow => RowSafe(m)')
  BY <1>1, TaskRow DEF Heedful
<1>2. ASSUME NEW n \in Names, Forges(n)
      PROVE  \A m \in Names : Known(repo[m])' /\ (SavesRow => RowSafe(m)')
  BY <1>2, ForgesRow
<1>3. ASSUME NEW n \in Names, Others(n)
      PROVE  \A m \in Names : Known(repo[m])' /\ (SavesRow => RowSafe(m)')
  BY <1>3, OthersRow
<1>4. CASE RunStep
  BY <1>4, RunStepRow
<1>5. CASE RunApply \/ RunVerify \/ RunReset
  BY <1>5, RunRow
<1>6. CASE Kill
  BY <1>6, FinishRow DEF Kill, forgeVars
<1>7. CASE EditFleet
  <2>1. cmd = "none" /\ UNCHANGED <<forgeVars, cmd>>
    BY <1>7 DEF EditFleet, Quiet, commandVars, runVars
  <2>2. ASSUME NEW n \in Names
        PROVE  /\ change'[n] = Nothing /\ phase' = "idle" /\ task'[n] = "done"
               /\ state'[n] = state[n] /\ ~Needed(change'[n])
    BY <1>7, <2>1, NothingType
    DEF EmptyInv, CourseInv, Course, InStage, Stages, EditFleet, commandVars, runVars, poolVars
  <2>3. \A n \in Names : Decided(n)' /\ ~RowWanted(n)'
    BY <2>1, <2>2 DEF Decided, RowWanted, Creating, Needed
  <2> QED
    BY <2>1, <2>3 DEF EmptyInv, RowSafe, Known, forgeVars
<1>8. CASE UNCHANGED vars
  BY <1>8
  DEF vars, forgeVars, diskVars, runVars, poolVars, EmptyInv, Known, RowSafe, RowWanted,
      Decided, Needed, Want, NewSettings, NewVisibility, NewDefault, Built
<1> QED
  BY <1>1, <1>2, <1>3, <1>4, <1>5, <1>6, <1>7, <1>8 DEF Next

\* No push is ever out of sight.
LEMMA EmptyAlways ==
  ASSUME Heedful
  PROVE  Spec => []EmptyInv
<1>1. Init => EmptyInv
  <2> SUFFICES ASSUME Init, NEW n \in Names
               PROVE  Known(repo[n]) /\ RowSafe(n)
    BY CourseInit DEF EmptyInv
  <2>1. repo[n] = Blank /\ ~patch[n].busy /\ cmd = "none"
    BY DEF Init, CommandInit, NoPatch
  <2>2. ~Blank.pending /\ ~HasRefs(Blank) /\ ~Blank.archived
    BY DEF Blank, Has, HasRefs
  <2>3. Decided(n) /\ ~RowWanted(n)
    BY <2>1, CourseInit, IdleRow
  <2> QED
    BY <2>1, <2>2, <2>3 DEF Known, RowSafe
<1>2. EmptyInv /\ [Next]_vars => EmptyInv'
  BY EmptyInvStep
<1> QED
  BY <1>1, <1>2, PTL DEF Spec

\* No repository that has commits reads as empty for good, where the forge saves
\* whole rows (Forgejo) provided that no settings write outlives its command
\* unserved, that tests let the forge catch up with their own pushes, and that
\* every repository is declared with content.
THEOREM NeverStuck ==
  ASSUME SavesRow => ~SlowSaves /\ People # "hasty" /\ NoEmpties
  PROVE  Spec => []NeverStuckEmpty
<1>1. Spec => []EmptyInv
  BY EmptyAlways DEF Heedful
<1>2. EmptyInv => NeverStuckEmpty
  BY DEF EmptyInv, Known, HasRefs, NeverStuckEmpty
<1> QED
  BY <1>1, <1>2, PTL

-----------------------------------------------------------------------------
(* Exit code 0 is earned                                                   *)
(*                                                                         *)
(* It is given long after the repositories were compared, one by one, so   *)
(* what was found then has to hold still: no settings write is under way   *)
(* while a command compares, a forge that catches up with a push changes   *)
(* nothing but the first, and nobody takes a name that is held.            *)

\* Nothing is written where no command writes.
Comparing == {"plan", "survey", "ready", "check"}

\* A settings write is under way only while its task waits for the reply, or
\* after it failed; so none is once every task is done.
Awaited(n) ==
  /\ patch[n].busy => cmd = "none" \/ task[n] \in AwaitingReply \cup {"failed"}
  /\ phase \in Comparing => ~patch[n].busy

\* Requests are to merge a branch there is; only some forges reflect a push later.
Tidy(r) ==
  /\ r.requests \subseteq Has(r.branches)
  /\ r.pending => Background

\* What was found to be as declared still is.
FoundWell(n) ==
  phase \in {"survey", "check"} /\ task[n] = "done" /\ ~state[n].guard /\ ~state[n].drift =>
    /\ owner[n] # "nobody"
    /\ \/ Unreadable(repo[n])
       \/ /\ Pristine(Want(n), owner[n], repo[n])
          /\ ~Want(n).empty => ~repo[n].empty

OkInv ==
  /\ CourseInv
  /\ ~SavesRow => EmptyInv
  /\ \A n \in Names : Awaited(n) /\ Tidy(repo[n])
  /\ \A n \in Declared : FoundWell(n)

\* Where a push shows only later, or a settings write may undo that it shows,
\* every repository is to have content: an empty one would be taken for what it
\* no longer is.
Telling == Background \/ SavesRow => NoEmpties

\* A task waits for the reply to its settings write, or fails.
LEMMA TaskAwaits ==
  ASSUME CourseInv, NEW n \in Names, RunTask(n), task[n] \in AwaitingReply
  PROVE  task'[n] = "failed" \/ ~patch[n].busy
<1>1. task \in [Names -> Tasks]
  BY DEF CourseInv, OwnInv, TypeInv, TypeOK, CommandTypeOK
<1> QED
  BY <1>1
  DEF RunTask, CommandTask, StepFails, ForcePushErrs, Lift, Unarchive, Archive, Archived,
      Replied, Await, AwaitTimesOut, Compare, CompareBelievesMissing, ApplyTask, Diff,
      CreateLands, CreateErrs, CreateConflicts, CheckLanded, Adopt, Label, Appear,
      Unarchived, Recheck, PushSeed, ForcePush, ReadBack, WaitPushed, WaitPushedTimesOut,
      Settle, Settled, SetTopics, DeleteStaleRefs, ResetTask, LiftedForReset, Rewind,
      RewindDone, WaitRewound, WaitRewoundTimesOut, RestoreSettings, SettingsRestored,
      CloseRequests, DeleteBranches, DeleteTags, RestoreTopics, Goes, Ends, AwaitingReply

\* So no settings write outlives its task, but where it failed.
LEMMA TaskAwaited ==
  ASSUME CourseInv, NEW n \in Names, RunTask(n), Awaited(n)
  PROVE  Awaited(n)'
<1>1. /\ task'[n] \in Stages(phase) /\ cmd # "none" /\ UNCHANGED <<cmd, phase>>
      /\ phase \in Phases /\ task[n] \notin {"done", "failed"}
  BY TaskCourse, TaskAside, TaskBusy
  DEF CourseInv, OwnInv, TypeInv, TypeOK, CommandTypeOK, runVars
<1>2. CASE patch'[n] = patch[n]
  BY <1>1, <1>2, TaskAwaits DEF Awaited
<1>3. CASE patch'[n] # patch[n]
  <2>1. task'[n] \in AwaitingReply
    BY <1>3, TaskPatch DEF AwaitingReply
  <2>2. phase \notin Comparing
    BY <1>1, <2>1 DEF Comparing, Stages, AwaitingReply
  <2> QED
    BY <1>1, <2>1, <2>2 DEF Awaited
<1> QED
  BY <1>2, <1>3

\* A push that keeps the branches requests point at keeps a repository tidy.
LEMMA PushedTidy ==
  ASSUME NEW r \in Repos, NEW b, NEW t, Tidy(r), r.requests \subseteq Has(b)
  PROVE  Tidy(Pushed(r, b, t))
<1> DEFINE s == [r EXCEPT !.branches = b, !.tags = t]
<1>1. s.branches = b /\ s.requests = r.requests /\ s.pending = r.pending
  BY DEF Repos
<1>2. /\ Begun(s).branches = s.branches /\ Begun(s).requests = s.requests
      /\ Begun(s).pending = s.pending
  BY DEF Begun, Repos
<1>3. /\ [s EXCEPT !.pending = TRUE].branches = s.branches
      /\ [s EXCEPT !.pending = TRUE].requests = s.requests
  BY DEF Repos
<1> HIDE DEF s
<1> QED
  BY <1>1, <1>2, <1>3 DEF Pushed, Tidy, s

\* So does a forced push of a commit, ...
LEMMA ForcePushTidy ==
  ASSUME TypeInv, NEW n \in Names, Tidy(repo[n]), n \in Declared, NEW c \in Commits, NEW tags,
         ForcePush(n, c, tags)
  PROVE  Tidy(repo'[n])
<1>0. /\ repo \in [Names -> Repos] /\ repo[n] \in Repos /\ Want(n).default \in Branches
      /\ c # NoCommit
  BY WantType, RefsAssumption DEF TypeInv, TypeOK, ForgeTypeOK, Wants
<1> DEFINE b == [repo[n].branches EXCEPT ![Want(n).default] = c]
<1>1. Has(repo[n].branches) \subseteq Has(b)
  BY <1>0 DEF Has, Repos, Refs
<1>2. \/ repo'[n] = repo[n]
      \/ \E t : repo'[n] = Pushed(repo[n], b, t)
      \/ \E t : repo'[n] = Pushed(repo[n], repo[n].branches, t)
  BY <1>0 DEF ForcePush, Write, PushRefs, PushTags, forgeVars
<1> HIDE DEF b
<1>3. repo[n].requests \subseteq Has(b) /\ repo[n].requests \subseteq Has(repo[n].branches)
  BY <1>1 DEF Tidy
<1>4. ASSUME NEW t, repo'[n] = Pushed(repo[n], b, t)
      PROVE  Tidy(repo'[n])
  BY <1>0, <1>3, <1>4, PushedTidy
<1>5. ASSUME NEW t, repo'[n] = Pushed(repo[n], repo[n].branches, t)
      PROVE  Tidy(repo'[n])
  BY <1>0, <1>3, <1>5, PushedTidy
<1> QED
  BY <1>2, <1>4, <1>5

\* ... and whatever else a task does to a repository.
LEMMA TaskTidy ==
  ASSUME CourseInv, NEW n \in Names, RunTask(n), Tidy(repo[n])
  PROVE  Tidy(repo'[n])
<1>0. /\ TypeInv /\ repo \in [Names -> Repos] /\ repo[n] \in Repos /\ n \in Declared
      /\ Want(n) \in Wants
  BY TaskDeclared, WantType DEF CourseInv, OwnInv, TypeInv, TypeOK, ForgeTypeOK
<1>1. CASE CommandTask(n)
  <2>1. CASE Lift(n)
    <3>1. repo'[n] = Relaxed(repo[n], Want(n).default)
      BY <1>0, <2>1 DEF Lift, Write
    <3> QED BY <1>0, <3>1 DEF Relaxed, Tidy, Repos
  <2>2. CASE ~Lift(n)
    BY <1>1, <2>2
    DEF CommandTask, StepFails, ForcePushErrs, Unarchive, Archive, Archived, Replied, Await,
        AwaitTimesOut, GivesUp, Compare, CompareBelievesMissing, ForgeReadsRow, forgeVars
  <2> QED BY <2>1, <2>2
<1>2. CASE ResetTask(n)
  <2>1. CASE Rewind(n)
    <3>1. repo[n].tags[Baseline] \in Commits \cup {NoCommit}
      BY <1>0 DEF Repos, Refs, AllTags
    <3>2. CASE repo[n].tags[Baseline] = NoCommit
      BY <2>1, <3>2 DEF Rewind, forgeVars
    <3>3. CASE repo[n].tags[Baseline] # NoCommit
      BY <1>0, <2>1, <3>1, <3>3, ForcePushTidy DEF Rewind
    <3> QED BY <3>2, <3>3
  <2>2. CASE CloseRequests(n)
    <3>1. repo' = repo \/ \E b : repo'[n] = [repo[n] EXCEPT !.requests = @ \ {b}]
      BY <1>0, <2>2 DEF CloseRequests, Write, forgeVars
    <3> QED BY <1>0, <3>1 DEF Tidy, Repos
  <2>3. CASE DeleteBranches(n)
    <3>1. \/ repo' = repo
          \/ \E b : /\ repo'[n] = [repo[n] EXCEPT !.branches[b] = NoCommit]
                    /\ b \notin repo[n].requests
      BY <1>0, <2>3 DEF DeleteBranches, Deletable, Write, forgeVars
    <3> QED BY <1>0, <3>1 DEF Tidy, Repos, Refs, Has
  <2>4. CASE DeleteTags(n)
    <3>1. repo' = repo \/ \E t : repo'[n] = [repo[n] EXCEPT !.tags[t] = NoCommit]
      BY <1>0, <2>4 DEF DeleteTags, Write, forgeVars
    <3> QED BY <1>0, <3>1 DEF Tidy, Repos
  <2>5. CASE RestoreTopics(n)
    <3>1. repo' = repo \/ repo'[n] = [repo[n] EXCEPT !.topics = Want(n).topics]
      BY <1>0, <2>5 DEF RestoreTopics, Write, forgeVars
    <3> QED BY <1>0, <3>1 DEF Tidy, Repos
  <2>6. CASE LiftedForReset(n) \/ RewindDone(n) \/ WaitRewound(n) \/ WaitRewoundTimesOut(n)
             \/ RestoreSettings(n) \/ SettingsRestored(n)
    BY <2>6
    DEF LiftedForReset, Replied, RewindDone, WaitRewound, WaitRewoundTimesOut, GivesUp,
        RestoreSettings, SettingsRestored, ForgeReadsRow, forgeVars
  <2> QED BY <1>2, <2>1, <2>2, <2>3, <2>4, <2>5, <2>6 DEF ResetTask
<1>3. CASE ApplyTask(n)
  <2>1. CASE PushSeed(n)
    <3>1. Want(n).baseline \in Commits
      BY <1>0 DEF Wants
    <3> QED BY <1>0, <2>1, <3>1, ForcePushTidy DEF PushSeed
  <2>2. CASE CreateLands(n)
    <3>1. \E b \in Branches, t \in Topics : repo'[n] = NewRepo(Want(n), b, t)
      BY <1>0, <2>2 DEF CreateLands, ForgeCreates
    <3> QED BY <3>1 DEF NewRepo, Tidy
  <2>3. CASE Label(n) \/ SetTopics(n)
    <3>1. repo' = repo \/ repo'[n] = [repo[n] EXCEPT !.topics = Want(n).topics]
      BY <1>0, <2>3 DEF Label, SetTopics, Write, forgeVars
    <3> QED BY <1>0, <3>1 DEF Tidy, Repos
  <2>4. CASE DeleteStaleRefs(n)
    <3> DEFINE gone == change[n].staleBranches
               kept == [b \in Branches |-> IF b \in gone THEN NoCommit
                                           ELSE repo[n].branches[b]]
    <3>1. Has(repo[n].branches) \ gone \subseteq Has(kept)
      BY <1>0 DEF Has, Repos, Refs
    <3> HIDE DEF kept
    <3>2. \/ repo' = repo
          \/ \E tags : repo'[n] = [repo[n] EXCEPT
               !.tags = tags, !.branches = kept, !.requests = @ \ gone]
      BY <1>0, <2>4 DEF DeleteStaleRefs, Write, forgeVars, kept
    <3> HIDE DEF gone
    <3> QED BY <1>0, <3>1, <3>2 DEF Tidy, Repos
  <2>5. CASE ~(PushSeed(n) \/ CreateLands(n) \/ Label(n) \/ SetTopics(n) \/ DeleteStaleRefs(n))
    BY <1>3, <2>5
    DEF ApplyTask, Diff, CreateErrs, CreateConflicts, CheckLanded, Adopt, Appear, Unarchived,
        Replied, Recheck, ReadBack, WaitPushed, WaitPushedTimesOut, GivesUp, Settle, Settled,
        ForgeReadsRow, forgeVars
  <2> QED BY <2>1, <2>2, <2>3, <2>4, <2>5
<1> QED
  BY <1>1, <1>2, <1>3 DEF RunTask

\* compare_one: what it has nothing to say against is as declared, unless it
\* could not be read.
LEMMA CompareWell ==
  ASSUME NEW want \in Wants, NEW who, NEW r \in Repos,
         ~CompareOne(want, who, r).guard, ~CompareOne(want, who, r).drift,
         want.empty /\ r.empty => r.requests = {} /\ Has(r.branches) = {}
  PROVE  \/ Unreadable(r)
         \/ Pristine(want, who, r) /\ (~want.empty => ~r.empty)
<1> SUFFICES ASSUME ~Unreadable(r)
             PROVE  Pristine(want, who, r) /\ (~want.empty => ~r.empty)
  OBVIOUS
<1>1. /\ ~CompareGuards(want, who, r) /\ ~SettingsDiffer(want, r)
      /\ ~want.empty => /\ r.default = want.default /\ ~RefsMoved(want, r)
                        /\ ExtraBranches(want, r) = {} /\ ExtraTags(want, r) = {}
                        /\ r.requests = {}
  BY DEF CompareOne
<1>2. IsOurs(who) /\ SettingsAs(want, r)
  BY <1>1 DEF CompareGuards, SettingsDiffer, SettingsAs
<1>3. CASE want.empty
  <2>1. r.empty
    BY <1>1, <1>3 DEF CompareGuards
  <2>2. \A b \in Branches : r.branches[b] = NoCommit
    BY <1>3, <2>1 DEF Has, Repos, Refs
  <2> QED
    BY <1>2, <1>3, <2>1, <2>2 DEF Pristine
<1>4. CASE ~want.empty
  <2>1. ~r.empty /\ r.tags[Baseline] = want.baseline
    BY <1>1, <1>4 DEF CompareGuards
  <2>2. \A b \in Branches :
          r.branches[b] = IF b = want.default THEN want.baseline ELSE NoCommit
    BY <1>1, <1>4 DEF RefsMoved, ExtraBranches, Has, Repos, Refs
  <2>3. \A t \in AllTags :
          r.tags[t] = IF t \in want.tags \cup {Baseline} THEN want.baseline ELSE NoCommit
    BY <1>1, <1>4, <2>1 DEF RefsMoved, ExtraTags, Has, Repos, Refs, Wants
  <2> QED
    BY <1>1, <1>2, <1>4, <2>1, <2>2, <2>3 DEF Pristine
<1> QED
  BY <1>3, <1>4

\* In a phase that compares, a task compares, or fails.
LEMMA TaskCompares ==
  ASSUME CourseInv, NEW n \in Names, RunTask(n), phase \in {"survey", "check"}
  PROVE  Compare(n) \/ CompareBelievesMissing(n) \/ StepFails(n)
<1>1. task[n] = "compare"
  BY TaskBusy DEF CourseInv, Course, InStage, Stages
<1> QED
  BY <1>1
  DEF RunTask, CommandTask, ForcePushErrs, Lift, Unarchive, Archive,
      Archived, Replied, Await, AwaitTimesOut, ApplyTask, Diff,
      CreateLands, CreateErrs, CreateConflicts, CheckLanded, Adopt, Label, Appear,
      Unarchived, Recheck, PushSeed, ForcePush, ReadBack, WaitPushed, WaitPushedTimesOut,
      Settle, Settled, SetTopics, DeleteStaleRefs, ResetTask, LiftedForReset, Rewind,
      RewindDone, WaitRewound, WaitRewoundTimesOut, RestoreSettings, SettingsRestored,
      CloseRequests, DeleteBranches, DeleteTags, RestoreTopics

\* What a comparison finds well is.
LEMMA TaskFound ==
  ASSUME OkInv, Telling, NEW n \in Names, RunTask(n)
  PROVE  \A m \in Declared' : FoundWell(m)'
<1>0. /\ TypeInv /\ CourseInv /\ Aside(n) /\ UNCHANGED <<diskVars, runVars>> /\ n \in Declared
      /\ Want(n) \in Wants /\ repo[n] \in Repos /\ Declared \subseteq Names
      /\ state \in [Names -> States] /\ task \in [Names -> Tasks]
      /\ Tidy(repo[n]) /\ (~SavesRow => Known(repo[n]))
  BY TaskAside, TaskDeclared, WantType, FleetsAssumption
  DEF OkInv, EmptyInv, CourseInv, OwnInv, TypeInv, TypeOK, CommandTypeOK, ForgeTypeOK, Declared
<1>1. Declared' = Declared /\ \A m \in Declared : Want(m)' = Want(m)
  BY <1>0 DEF Declared, Want, diskVars
<1>2. ASSUME NEW m \in Declared, m # n
      PROVE  FoundWell(m)'
  BY <1>0, <1>1, <1>2 DEF OkInv, FoundWell, Aside, runVars
<1>3. ASSUME phase \in {"survey", "check"}
      PROVE  FoundWell(n)'
  <2>1. CASE Compare(n) /\ owner[n] # "nobody"
    <3> DEFINE s == CompareOne(Want(n), owner[n], repo[n])
    <3>1. state'[n] = s /\ UNCHANGED forgeVars
      BY <1>0, <2>1 DEF Compare
    <3>2. Want(n).empty /\ repo[n].empty => repo[n].requests = {} /\ Has(repo[n].branches) = {}
      <4>1. Want(n).empty => ~Background /\ ~SavesRow
        BY <1>0, WantsContent DEF Telling
      <4> QED
        BY <1>0, <4>1 DEF Known, HasRefs, Tidy
    <3>3. ~s.guard /\ ~s.drift =>
            \/ Unreadable(repo[n])
            \/ Pristine(Want(n), owner[n], repo[n]) /\ (~Want(n).empty => ~repo[n].empty)
      BY <1>0, <3>2, CompareWell
    <3> HIDE DEF s
    <3> QED
      BY <1>0, <1>1, <2>1, <3>1, <3>3 DEF FoundWell, forgeVars
  <2>2. CASE (Compare(n) /\ owner[n] = "nobody") \/ CompareBelievesMissing(n)
    <3>1. state'[n] = Missing
      BY <1>0, <2>2 DEF Compare, CompareBelievesMissing
    <3> QED
      BY <3>1 DEF FoundWell, Missing
  <2>3. CASE StepFails(n)
    BY <1>0, <2>3 DEF StepFails, Ends, FoundWell
  <2> QED
    BY <1>0, <1>3, <2>1, <2>2, <2>3, TaskCompares
<1>4. ASSUME phase \notin {"survey", "check"}
      PROVE  FoundWell(n)'
  BY <1>0, <1>4 DEF FoundWell, runVars
<1> QED
  BY <1>1, <1>2, <1>3, <1>4

\* A task keeps all of this.
LEMMA TaskOk ==
  ASSUME OkInv, Telling, NEW n \in Names, RunTask(n)
  PROVE  (\A m \in Names : Awaited(m)' /\ Tidy(repo[m])') /\ (\A m \in Declared' : FoundWell(m)')
<1>1. /\ TypeInv /\ CourseInv /\ Aside(n) /\ UNCHANGED <<cmd, phase>>
  BY TaskAside DEF OkInv, CourseInv, OwnInv, runVars
<1>2. ASSUME NEW m \in Names, m # n
      PROVE  Awaited(m)' /\ Tidy(repo[m])'
  BY <1>1, <1>2 DEF OkInv, Awaited, Tidy, Aside
<1>3. Awaited(n)' /\ Tidy(repo[n])'
  BY <1>1, TaskAwaited, TaskTidy DEF OkInv
<1> QED
  BY <1>2, <1>3, TaskFound

\* The action property, without its box.
OkStep ==
  cmd # "none" /\ cmd' = "none" /\ exit' = "ok" =>
    \A n \in Declared : Unreadable(repo[n]) \/ Pristine(Want(n), owner[n], repo[n])

\* A command that ends leaves nothing to answer for.
LEMMA FinishOk ==
  ASSUME OkInv, NEW code, Finish(code), UNCHANGED <<repo, patch>>
  PROVE  (\A n \in Names : Awaited(n)' /\ Tidy(repo[n])') /\ (\A n \in Declared' : FoundWell(n)')
BY DEF OkInv, Finish, Awaited, Tidy, FoundWell, Comparing

\* A phase that begins after all went well finds no settings write under way, and
\* nothing compared yet.
LEMMA EnterOk ==
  ASSUME OkInv, NEW p, NEW start, Enter(p, start), cmd # "none",
         UNCHANGED <<forgeVars, fleet>>,
         \A n \in Names : task[n] \in {"done", "pushed"},
         p # "survey", p = "check" => \A n \in Declared : start[n] # "done"
  PROVE  (\A n \in Names : Awaited(n)' /\ Tidy(repo[n])') /\ (\A n \in Declared' : FoundWell(n)')
<1>1. \A n \in Names : ~patch[n].busy
  BY DEF OkInv, Awaited, AwaitingReply
<1>2. \A n \in Names : Awaited(n)' /\ Tidy(repo[n])'
  BY <1>1 DEF OkInv, Awaited, Tidy, forgeVars
<1>3. \A n \in Declared' : FoundWell(n)'
  BY DEF Enter, FoundWell, Declared
<1> QED
  BY <1>2, <1>3

\* A failed task is told in the outcome.
LEMMA OutcomeNotOk ==
  ASSUME CourseInv, ~AllWell
  PROVE  Outcome # "ok"
<1>1. PICK n \in Names : result[n] \in Results /\ result[n] # "ok"
  BY DEF CourseInv, Course, InStage, OwnInv, TypeInv, TypeOK, CommandTypeOK, AllWell
<1> QED
  BY <1>1 DEF Outcome, Results

\* A step from one phase to the next keeps this, and ends the command with exit
\* code 0 only if all was found well.
LEMMA RunStepOk ==
  ASSUME OkInv, RunStep
  PROVE  /\ \A n \in Names : Awaited(n)' /\ Tidy(repo[n])'
         /\ \A n \in Declared' : FoundWell(n)'
         /\ OkStep
<1>0. /\ CourseInv /\ Declared \subseteq Names
      /\ phase \in {"plan", "apply", "settle"} => cmd = "apply"
      /\ phase \in {"survey", "reset"} => cmd = "reset"
      /\ cmd = "none" <=> phase = "idle"
      /\ PhaseOver /\ AllWell => \A n \in Names : task[n] = "done"
  BY FleetsAssumption
  DEF OkInv, CourseInv, Course, OwnInv, TypeInv, TypeOK, CommandTypeOK, Declared, PhaseOver,
      AllWell
<1>1. CASE Abort \/ (StartSettle /\ ~AllWell)
  <2>1. Finish(Outcome) /\ UNCHANGED forgeVars /\ ~AllWell
    BY <1>1 DEF Abort, StartSettle
  <2>2. Outcome # "ok"
    BY <1>0, <2>1, OutcomeNotOk
  <2>3. OkStep
    BY <2>1, <2>2 DEF OkStep, Finish
  <2> QED
    BY <2>1, <2>3, FinishOk DEF forgeVars
<1>2. CASE EndCheck \/ (StartRepairs /\ Verdict # "drift")
  <2>1. /\ Finish(Verdict) /\ UNCHANGED forgeVars /\ phase \in {"survey", "check"}
        /\ \A n \in Names : task[n] = "done"
    BY <1>0, <1>2 DEF EndCheck, StartRepairs
  <2>2. ASSUME Verdict = "ok", NEW n \in Declared
        PROVE  Unreadable(repo[n]) \/ Pristine(Want(n), owner[n], repo[n])
    <3>1. ~state[n].guard /\ ~state[n].drift
      BY <2>2 DEF Verdict
    <3> QED
      BY <1>0, <2>1, <3>1 DEF OkInv, FoundWell
  <2>3. OkStep
    BY <2>1, <2>2 DEF OkStep, Finish
  <2> QED
    BY <2>1, <2>3, FinishOk DEF forgeVars
<1>3. CASE StartWork \/ (StartSettle /\ AllWell) \/ WriteLock \/ StartReady \/ StartCheck
           \/ (StartRepairs /\ Verdict = "drift")
  <2>1. PICK p, start :
          /\ Enter(p, start) /\ p \in {"apply", "settle", "ready", "check", "reset"}
          /\ p = "check" => \A n \in Declared : start[n] # "done"
    <3>1. CASE StartWork
      BY <3>1 DEF StartWork
    <3>2. CASE StartSettle /\ AllWell
      BY <3>2 DEF StartSettle
    <3>3. CASE WriteLock
      BY <3>3 DEF WriteLock
    <3>4. CASE StartReady
      BY <3>4 DEF StartReady
    <3>5. CASE StartCheck
      BY <1>0, <3>5 DEF StartCheck, Each
    <3>6. CASE StartRepairs /\ Verdict = "drift"
      BY <3>6 DEF StartRepairs
    <3> QED BY <1>3, <3>1, <3>2, <3>3, <3>4, <3>5, <3>6
  <2>2. /\ cmd # "none" /\ UNCHANGED <<forgeVars, fleet>>
        /\ \A n \in Names : task[n] \in {"done", "pushed"}
    BY <1>0, <1>3
    DEF StartWork, StartSettle, WriteLock, StartReady, StartCheck, StartRepairs, diskVars,
        PushesOver, AllWell
  <2>3. OkStep
    BY <2>1, <2>2 DEF OkStep, Enter
  <2> QED
    BY <2>1, <2>2, <2>3, EnterOk
<1> QED
  BY <1>1, <1>2, <1>3 DEF RunStep, CommandStep, ApplyStep, ResetStep

\* The forge's own work makes nothing worse.
LEMMA ForgesOk ==
  ASSUME OkInv, Telling, NEW n \in Names, Forges(n)
  PROVE  (\A m \in Names : Awaited(m)' /\ Tidy(repo[m])') /\ (\A m \in Declared' : FoundWell(m)')
<1>0. /\ repo \in [Names -> Repos] /\ repo[n] \in Repos /\ patch \in [Names -> Patches]
      /\ Awaited(n) /\ Tidy(repo[n]) /\ CourseInv /\ Declared \subseteq Names
      /\ UNCHANGED <<fleet, cmd, phase, task, change, state, owner>>
      /\ \A m \in Names \ {n} : repo'[m] = repo[m] /\ patch'[m] = patch[m]
  BY FleetsAssumption
  DEF OkInv, CourseInv, OwnInv, TypeInv, TypeOK, ForgeTypeOK, CommandTypeOK, Forges, Saves,
      ForgeSaves, Reflects, ForgeReflects, Answers, ForgeAnswers, diskVars, commandVars,
      runVars, poolVars, Declared
<1>1. Declared' = Declared /\ \A m \in Declared : Want(m)' = Want(m)
  BY <1>0 DEF Declared, Want
<1>2. \A m \in Names \ {n} : Awaited(m)' /\ Tidy(repo[m])'
  BY <1>0 DEF OkInv, Awaited, Tidy
<1>3. \A m \in Declared \ {n} : FoundWell(m)'
  BY <1>0, <1>1 DEF OkInv, FoundWell
<1>4. CASE Saves(n)
  <2>1. repo'[n] = Saved(n) /\ ~patch'[n].busy /\ patch[n].busy
    BY <1>0, <1>4 DEF Saves, ForgeSaves, NoPatch
  <2>2. /\ Saved(n).pending = repo[n].pending /\ Saved(n).branches = repo[n].branches
        /\ Saved(n).requests = repo[n].requests
    BY <1>0 DEF Saved, Relaxed, Repos
  <2>3. Tidy(repo'[n])
    BY <1>0, <2>1, <2>2 DEF Tidy
  <2>4. phase \notin {"survey", "check"}
    BY <1>0, <2>1 DEF Awaited, Comparing
  <2> QED
    BY <1>0, <1>1, <1>2, <1>3, <2>1, <2>3, <2>4 DEF Awaited, FoundWell
<1>5. CASE Reflects(n)
  <2> DEFINE r == [repo[n] EXCEPT !.pending = FALSE]
  <2>1. /\ patch' = patch /\ repo[n].pending
        /\ repo'[n] = IF r.empty THEN Begun(r) ELSE r
    BY <1>0, <1>5 DEF Reflects, ForgeReflects
  <2>2. /\ ~repo'[n].pending /\ repo'[n].branches = repo[n].branches
        /\ repo'[n].requests = repo[n].requests /\ repo'[n].archived = repo[n].archived
    BY <1>0, <2>1 DEF Begun, Repos
  <2>3. Tidy(repo'[n])
    BY <1>0, <2>2 DEF Tidy
  <2>4. ASSUME n \in Declared
        PROVE  FoundWell(n)'
    <3>1. ~Want(n).empty
      BY <1>0, <2>1, <2>4, WantsContent DEF Tidy, Telling
    <3>2. CASE repo[n].empty
      BY <1>0, <1>1, <2>2, <2>4, <3>1, <3>2 DEF OkInv, FoundWell, Unreadable
    <3>3. CASE ~repo[n].empty
      <4>1. repo'[n] = r /\ ~r.empty
        BY <1>0, <2>1, <3>3 DEF Repos
      <4>2. Pristine(Want(n), owner[n], repo[n]) => Pristine(Want(n), owner[n], r)
        BY <1>0 DEF Pristine, SettingsAs, Repos
      <4>3. Unreadable(repo[n]) => Unreadable(r)
        BY <1>0 DEF Unreadable, Repos
      <4> HIDE DEF r
      <4> QED
        BY <1>0, <1>1, <2>4, <4>1, <4>2, <4>3 DEF OkInv, FoundWell
    <3> QED BY <3>2, <3>3
  <2> QED
    BY <1>0, <1>1, <1>2, <1>3, <2>1, <2>3, <2>4 DEF Awaited
<1>6. CASE Answers(n)
  BY <1>0, <1>1, <1>2, <1>3, <1>6 DEF OkInv, Answers, ForgeAnswers, Awaited, FoundWell
<1> QED
  BY <1>4, <1>5, <1>6 DEF Forges

\* A test deletes no branch a request points at, and opens none for a branch that
\* is not there.
LEMMA RepoEditsTidy ==
  ASSUME NEW r \in Repos, NEW s \in RepoEdits(r), Tidy(r)
  PROVE  Tidy(s)
<1>0. /\ TestCommits \subseteq Commits /\ NoCommit \notin Commits
      /\ r.requests \subseteq Has(r.branches)
  BY SandboxAssumption, RefsAssumption DEF Tidy
<1>1. ASSUME s.branches = r.branches, s.pending = r.pending,
             s.requests \subseteq Has(r.branches)
      PROVE  Tidy(s)
  BY <1>1 DEF Tidy
<1>2. ASSUME NEW b, NEW c, s = PushBranch(r, b, c),
             c # NoCommit \/ b \notin r.requests
      PROVE  Tidy(s)
  <2>1. r.requests \subseteq Has([r.branches EXCEPT ![b] = c])
    BY <1>0, <1>2 DEF Has, Repos, Refs
  <2> QED
    BY <1>2, <2>1, PushedTidy DEF PushBranch
<1>3. ASSUME NEW t, NEW c, s = PushTag(r, t, c)
      PROVE  Tidy(s)
  BY <1>0, <1>3, PushedTidy DEF PushTag
<1>4. CASE s \in RefEdits(r)
  <2>1. ASSUME NEW b \in Has(r.branches), s = [r EXCEPT !.requests = @ \cup {b}]
        PROVE  Tidy(s)
    BY <1>0, <1>1, <2>1 DEF Repos
  <2>2. \A c \in TestCommits : c # NoCommit
    BY <1>0
  <2>3. \/ \E b, c : s = PushBranch(r, b, c) /\ (c # NoCommit \/ b \notin r.requests)
        \/ \E b \in Has(r.branches) : s = [r EXCEPT !.requests = @ \cup {b}]
        \/ \E t, c : s = PushTag(r, t, c)
    BY <1>4, <2>2 DEF RefEdits
  <2> QED
    BY <1>2, <1>3, <2>1, <2>3
<1>5. CASE s \in BaselineEdits(r)
  BY <1>3, <1>5 DEF BaselineEdits
<1>6. CASE s \in SettingsEdits(r) \cup ProtectionEdits(r)
  BY <1>0, <1>1, <1>6 DEF SettingsEdits, ProtectionEdits, Repos
<1> QED
  BY <1>4, <1>5, <1>6 DEF RepoEdits

\* What others do, they do to what was not found well, or between commands.
LEMMA OthersOk ==
  ASSUME OkInv, NEW n \in Names, Others(n)
  PROVE  (\A m \in Names : Awaited(m)' /\ Tidy(repo[m])') /\ (\A m \in Declared' : FoundWell(m)')
<1>0. /\ repo \in [Names -> Repos] /\ repo[n] \in Repos /\ Tidy(repo[n]) /\ Declared \subseteq Names
      /\ owner \in [Names -> Owners]
      /\ UNCHANGED <<patch, fleet, cmd, phase, task, change, state>>
      /\ \A m \in Names \ {n} : repo'[m] = repo[m] /\ owner'[m] = owner[m]
  BY FleetsAssumption
  DEF OkInv, CourseInv, OwnInv, TypeInv, TypeOK, ForgeTypeOK, CommandTypeOK, Others,
      TestEdits, UserDeletes, StrangerCreates, Write, diskVars, commandVars, runVars,
      poolVars, Declared
<1>1. Declared' = Declared /\ \A m \in Declared : Want(m)' = Want(m)
  BY <1>0 DEF Declared, Want
<1>2. \A m \in Names : Awaited(m)'
  BY <1>0 DEF OkInv, Awaited
<1>3. Tidy(repo'[n])
  <2>1. CASE repo'[n] = Blank
    BY <2>1 DEF Blank, Tidy
  <2>2. CASE repo'[n] = [repo[n] EXCEPT !.archived = FALSE]
    BY <1>0, <2>2 DEF Tidy, Repos
  <2>3. CASE repo'[n] \in RepoEdits(repo[n])
    BY <1>0, <2>3, RepoEditsTidy
  <2>4. \/ repo'[n] = Blank \/ repo'[n] = [repo[n] EXCEPT !.archived = FALSE]
        \/ repo'[n] \in RepoEdits(repo[n])
    BY <1>0 DEF Others, TestEdits, UserDeletes, StrangerCreates, Write
  <2> QED BY <2>1, <2>2, <2>3, <2>4
<1>4. \A m \in Declared \ {n} : FoundWell(m)'
  BY <1>0, <1>1 DEF OkInv, FoundWell
<1>5. ASSUME n \in Declared
      PROVE  FoundWell(n)'
  <2>1. CASE cmd = "none"
    BY <1>0, <2>1 DEF OkInv, CourseInv, Course, FoundWell
  <2>2. CASE cmd # "none"
    <3>1. owner[n] = "nobody"
      BY <2>2 DEF Others, TestEdits, UserDeletes, StrangerCreates, Quiet
    <3> QED
      BY <1>0, <1>5, <3>1 DEF OkInv, FoundWell
  <2> QED BY <2>1, <2>2
<1> QED
  BY <1>0, <1>1, <1>2, <1>3, <1>4, <1>5 DEF OkInv, Tidy

\* A command starts when the settings writes of the last one have been served.
LEMMA RunOk ==
  ASSUME OkInv, ~SlowSaves, RunApply \/ RunVerify \/ RunReset
  PROVE  (\A n \in Names : Awaited(n)' /\ Tidy(repo[n])') /\ (\A n \in Declared' : FoundWell(n)')
<1>1. /\ cmd = "none" /\ UNCHANGED <<forgeVars, fleet, state>> /\ \A n \in Names : ~patch[n].busy
      /\ phase = "idle" /\ Declared \subseteq Names
  BY FleetsAssumption
  DEF OkInv, CourseInv, Course, OwnInv, TypeInv, TypeOK, CommandTypeOK, RunApply, StartApply,
      RunVerify, StartVerify, RunReset, StartReset, Refuse, Served, diskVars, Declared
<1>2. \A n \in Names : Awaited(n)' /\ Tidy(repo[n])'
  BY <1>1 DEF OkInv, Awaited, Tidy, forgeVars
<1>3. \/ phase' \in {"plan", "idle"}
      \/ task' = Each(Declared, "compare")
  BY <1>1
  DEF RunApply, StartApply, RunVerify, StartVerify, RunReset, StartReset, Refuse
<1>4. \A n \in Declared' : FoundWell(n)'
  BY <1>1, <1>3 DEF FoundWell, Each, Declared
<1> QED
  BY <1>2, <1>4

\* Every step keeps this, and gives exit code 0 only where it is earned.
LEMMA OkInvStep == ~SlowSaves /\ Telling /\ OkInv /\ [Next]_vars => OkInv' /\ OkStep
<1> SUFFICES ASSUME ~SlowSaves, Telling, OkInv, [Next]_vars
             PROVE  /\ \A n \in Names : Awaited(n)' /\ Tidy(repo[n])'
                    /\ \A n \in Declared' : FoundWell(n)'
                    /\ OkStep
  <2>1. OkInv /\ [Next]_vars => CourseInv'
    BY CourseStep DEF OkInv
  <2>2. OkInv /\ [Next]_vars /\ ~SavesRow => EmptyInv'
    BY EmptyInvStep DEF OkInv, Heedful
  <2> QED BY <2>1, <2>2 DEF OkInv
<1>1. ASSUME NEW n \in Names, RunTask(n)
      PROVE  /\ \A m \in Names : Awaited(m)' /\ Tidy(repo[m])'
             /\ \A m \in Declared' : FoundWell(m)'
             /\ OkStep
  <2>1. cmd' = cmd
    BY <1>1, TaskAside DEF OkInv, CourseInv, OwnInv, runVars
  <2> QED
    BY <1>1, <2>1, TaskOk DEF OkStep
<1>2. ASSUME NEW n \in Names, Forges(n)
      PROVE  /\ \A m \in Names : Awaited(m)' /\ Tidy(repo[m])'
             /\ \A m \in Declared' : FoundWell(m)'
             /\ OkStep
  <2>1. cmd' = cmd
    BY <1>2 DEF Forges, Saves, Reflects, Answers, commandVars, runVars
  <2> QED
    BY <1>2, <2>1, ForgesOk DEF OkStep
<1>3. ASSUME NEW n \in Names, Others(n)
      PROVE  /\ \A m \in Names : Awaited(m)' /\ Tidy(repo[m])'
             /\ \A m \in Declared' : FoundWell(m)'
             /\ OkStep
  <2>1. cmd' = cmd
    BY <1>3 DEF Others, TestEdits, UserDeletes, StrangerCreates, commandVars, runVars
  <2> QED
    BY <1>3, <2>1, OthersOk DEF OkStep
<1>4. CASE RunStep
  BY <1>4, RunStepOk
<1>5. CASE RunApply \/ RunVerify \/ RunReset
  <2>1. cmd = "none"
    BY <1>5 DEF RunApply, StartApply, RunVerify, StartVerify, RunReset, StartReset
  <2> QED
    BY <1>5, <2>1, RunOk DEF OkStep
<1>6. CASE Kill
  <2>1. Finish("killed") /\ UNCHANGED forgeVars
    BY <1>6 DEF Kill
  <2>2. OkStep
    BY <2>1 DEF OkStep, Finish
  <2> QED
    BY <2>1, <2>2, FinishOk DEF forgeVars
<1>7. CASE EditFleet
  <2>1. cmd = "none" /\ UNCHANGED <<forgeVars, cmd, phase>>
    BY <1>7 DEF EditFleet, Quiet, commandVars, runVars
  <2>2. phase = "idle"
    BY <2>1 DEF OkInv, CourseInv, Course
  <2> QED
    BY <2>1, <2>2 DEF OkInv, Awaited, Tidy, FoundWell, Comparing, OkStep, forgeVars
<1>8. CASE UNCHANGED vars
  BY <1>8
  DEF vars, forgeVars, diskVars, runVars, poolVars, OkInv, Awaited, Tidy, FoundWell, OkStep,
      Declared, Want
<1> QED
  BY <1>1, <1>2, <1>3, <1>4, <1>5, <1>6, <1>7, <1>8 DEF Next

\* Exit code 0 says that every declared repository that can be read is what the
\* lock says: provided that no settings write outlives its command unserved and,
\* where a push shows only later or a settings write may undo that it shows, that
\* every repository is declared with content.
THEOREM OkIsPristine ==
  ASSUME ~SlowSaves, Background \/ SavesRow => NoEmpties
  PROVE  Spec => OkMeansPristine
<1>0. Telling
  BY DEF Telling
<1>1. Init => OkInv
  <2> SUFFICES ASSUME Init PROVE OkInv
    OBVIOUS
  <2>1. CourseInv /\ phase = "idle"
    BY CourseInit DEF Init, CommandInit
  <2>2. \A n \in Names : Awaited(n) /\ Tidy(repo[n])
    BY DEF Init, CommandInit, NoPatch, Awaited, Comparing, Tidy, Blank
  <2>3. ~SavesRow => EmptyInv
    BY <2>1 DEF Init, EmptyInv, Known, HasRefs, Blank, Has
  <2> QED
    BY <2>1, <2>2, <2>3 DEF OkInv, FoundWell
<1>2. OkInv /\ [Next]_vars => OkInv' /\ [OkStep]_vars
  BY <1>0, OkInvStep
<1>3. Spec => [][OkStep]_vars
  BY <1>1, <1>2, PTL DEF Spec
<1> QED
  BY <1>3, PTL DEF OkMeansPristine, OkStep
=============================================================================
