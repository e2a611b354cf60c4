------------------------------ MODULE LockProofs ------------------------------
(***************************************************************************)
(* What the lock stands for: that the old one is replaced only when        *)
(* nothing is left of what it alone still names, and that a new one is     *)
(* written only over a fleet that is applied -- for every fleet, number of *)
(* repositories and of faults, and every forge the hypotheses of each      *)
(* theorem allow.                                                          *)
(***************************************************************************)
EXTENDS CommandProofs

-----------------------------------------------------------------------------
(* The lock forgets nothing                                                *)
(*                                                                         *)
(* What the fleet used to declare and does not any more is known from the  *)
(* old lock alone.  A plan takes it from there, unless the repository reads *)
(* as missing or as empty; so nothing may be hidden behind either.         *)

\* Settings writes and pushes are not what makes a repository read as empty: the
\* hypotheses under which that is so.  One archived has to be readable, too.
Watchful ==
  /\ ~ArchivedUnreadable
  /\ SavesRow => ~SlowSaves
  /\ Background \/ SavesRow => People # "hasty" /\ NoEmpties

\* What verify, reset and the end of apply go by is the lock of the fleet.
Holding == cmd \in {"verify", "reset"} \/ phase \in {"ready", "check"} => lock = fleet

\* What the API does not answer for has no content yet.
Hidden(n) == ~visible[n] => ~HasRefs(repo[n])

\* Only some forges reflect a push later.
Late(r) == r.pending => Background

SightInv == Holding /\ \A n \in Names : Hidden(n) /\ Late(repo[n])

\* Only a creation makes a name one that may not answer yet.
LEMMA TaskVisible ==
  ASSUME NEW n \in Names, RunTask(n)
  PROVE  visible' = visible \/ CreateLands(n)
<1>1. CommandTask(n) => visible' = visible
  BY DEF CommandTask, StepFails, ForcePushErrs, Lift, Unarchive, Archive, Archived, Replied,
         Await, AwaitTimesOut, GivesUp, Compare, CompareBelievesMissing, Write,
         ForgeReadsRow, forgeVars
<1>2. ResetTask(n) => visible' = visible
  BY DEF ResetTask, LiftedForReset, Replied, Rewind, ForcePush, RewindDone, WaitRewound,
         WaitRewoundTimesOut, GivesUp, RestoreSettings, SettingsRestored, CloseRequests,
         DeleteBranches, DeleteTags, RestoreTopics, Write, ForgeReadsRow, forgeVars
<1>3. ApplyTask(n) => visible' = visible \/ CreateLands(n)
  BY DEF ApplyTask, Diff, CreateErrs, CreateConflicts, CheckLanded, Adopt, Label, Appear,
         Unarchived, Replied, Recheck, PushSeed, ForcePush, ReadBack, WaitPushed,
         WaitPushedTimesOut, GivesUp, Settle, Settled, SetTopics, DeleteStaleRefs, Write,
         ForgeReadsRow, forgeVars
<1> QED
  BY <1>1, <1>2, <1>3 DEF RunTask

\* What a task does to what can be seen.
LEMMA TaskSight ==
  ASSUME EmptyInv, SightInv, NEW n \in Names, RunTask(n)
  PROVE  \A m \in Names : Hidden(m)' /\ Late(repo[m])'
<1>0. /\ CourseInv /\ Aside(n) /\ repo[n] \in Repos /\ Known(repo[n])
      /\ visible \in [Names -> BOOLEAN]
  BY TaskAside
  DEF EmptyInv, CourseInv, OwnInv, TypeInv, TypeOK, ForgeTypeOK
<1>1. visible' = visible \/ CreateLands(n)
  BY TaskVisible
<1>2. ASSUME NEW m \in Names, m # n
      PROVE  Hidden(m)' /\ Late(repo[m])'
  <2>1. visible'[m] = visible[m]
    BY <1>0, <1>1, <1>2 DEF CreateLands, ForgeCreates
  <2> QED
    BY <1>0, <1>2, <2>1 DEF SightInv, Hidden, Late, Aside
<1>3. CASE CreateLands(n)
  <2>1. \E b \in Branches, t \in Topics : repo'[n] = NewRepo(Want(n), b, t)
    BY <1>0, <1>3 DEF CreateLands, ForgeCreates, CourseInv, OwnInv, TypeInv, TypeOK, ForgeTypeOK
  <2>2. ~HasRefs(repo'[n]) /\ ~repo'[n].pending
    BY <2>1 DEF NewRepo, Has, HasRefs
  <2> QED
    BY <1>2, <2>2 DEF Hidden, Late
<1>4. CASE visible' = visible
  <2>1. CASE Milder(repo[n], repo'[n])
    BY <1>2, <1>4, <2>1 DEF SightInv, Hidden, Late, Milder, HasRefs
  <2>2. CASE visible[n] /\ \E b, t : repo'[n] = Pushed(repo[n], b, t)
    <3>1. repo'[n].pending => repo[n].pending \/ Background
      BY <1>0, <2>2, PushedKnown
    <3> QED
      BY <1>2, <1>4, <2>2, <3>1 DEF SightInv, Hidden, Late
  <2>3. CASE ~HasRefs(repo'[n]) /\ ~repo'[n].pending
    BY <1>2, <2>3 DEF Hidden, Late
  <2> QED
    BY <1>0, <2>1, <2>2, <2>3, TaskRepo
<1> QED
  BY <1>1, <1>3, <1>4

\* The forge has nothing more to reflect by itself.
LEMMA ForgesPending ==
  ASSUME ForgeTypeOK, NEW n \in Names, Forges(n)
  PROVE  \A m \in Names : repo'[m].pending => repo[m].pending
<1>0. repo \in [Names -> Repos] /\ repo[n] \in Repos
  BY DEF ForgeTypeOK
<1>1. CASE Saves(n)
  <2>1. Saved(n).pending = repo[n].pending
    BY <1>0 DEF Saved, Relaxed, Repos
  <2> QED BY <1>0, <1>1, <2>1 DEF Saves, ForgeSaves
<1>2. CASE Reflects(n)
  <2>1. ~[repo[n] EXCEPT !.pending = FALSE].pending
    BY <1>0 DEF Repos
  <2>2. ~Begun([repo[n] EXCEPT !.pending = FALSE]).pending
    BY <1>0 DEF Begun, Repos
  <2> QED BY <1>0, <1>2, <2>1, <2>2 DEF Reflects, ForgeReflects
<1>3. CASE Answers(n)
  BY <1>3 DEF Answers, ForgeAnswers
<1> QED BY <1>1, <1>2, <1>3 DEF Forges

\* What others, and the forge, do to it.
LEMMA OthersSight ==
  ASSUME EmptyInv, SightInv, NEW n \in Names, Others(n) \/ Forges(n)
  PROVE  \A m \in Names : Hidden(m)' /\ Late(repo[m])'
<1>0. /\ ForgeTypeOK /\ repo \in [Names -> Repos] /\ repo[n] \in Repos /\ Known(repo[n])
      /\ visible \in [Names -> BOOLEAN]
  BY DEF EmptyInv, CourseInv, OwnInv, TypeInv, TypeOK, ForgeTypeOK
<1>1. /\ \A m \in Names \ {n} : repo'[m] = repo[m] /\ visible'[m] = visible[m]
      /\ visible[n] => visible'[n]
  BY <1>0
  DEF Others, TestEdits, UserDeletes, StrangerCreates, Write, Forges, Saves, ForgeSaves,
      Reflects, ForgeReflects, Answers, ForgeAnswers
<1>2. \A m \in Names \ {n} : Hidden(m)' /\ Late(repo[m])'
  BY <1>1 DEF SightInv, Hidden, Late
<1>3. CASE Forges(n)
  <2>1. SameRefs(repo[n], repo'[n])
    BY <1>0, <1>3, ForgesRefs
  <2>2. repo'[n].pending => repo[n].pending
    BY <1>0, <1>3, ForgesPending
  <2> QED
    BY <1>1, <1>2, <2>1, <2>2 DEF SightInv, Hidden, Late, SameRefs, HasRefs
<1>4. CASE UserDeletes(n) \/ StrangerCreates(n)
  <2>1. repo'[n] = Blank
    BY <1>0, <1>4 DEF UserDeletes, StrangerCreates
  <2>2. ~Blank.pending /\ ~HasRefs(Blank)
    BY DEF Blank, Has, HasRefs
  <2> QED
    BY <1>2, <2>1, <2>2 DEF Hidden, Late
<1>5. CASE TestEdits(n)
  <2>1. /\ visible[n]
        /\ \/ ~repo[n].archived /\ repo'[n] \in RepoEdits(repo[n])
           \/ repo'[n] = [repo[n] EXCEPT !.archived = FALSE]
    BY <1>0, <1>5 DEF TestEdits, Write
  <2>2. repo'[n].pending => repo[n].pending \/ Background
    <3>1. CASE repo'[n] = [repo[n] EXCEPT !.archived = FALSE]
      BY <1>0, <3>1 DEF Repos
    <3>2. CASE ~repo[n].archived /\ repo'[n] \in RepoEdits(repo[n])
      BY <1>0, <3>2, RepoEditsRow
    <3> QED BY <2>1, <3>1, <3>2
  <2> QED
    BY <1>1, <1>2, <2>1, <2>2 DEF SightInv, Hidden, Late
<1> QED
  BY <1>3, <1>4, <1>5 DEF Others

\* Every step keeps content in sight, and the lock in hand.
LEMMA SightStep == EmptyInv /\ SightInv /\ [Next]_vars => SightInv'
<1> SUFFICES ASSUME EmptyInv, SightInv, [Next]_vars
             PROVE  SightInv'
  OBVIOUS
<1>0. /\ cmd = "none" <=> phase = "idle"
      /\ phase \in {"plan", "apply", "settle"} => cmd = "apply"
      /\ phase \in {"survey", "reset"} => cmd = "reset"
  BY DEF EmptyInv, CourseInv, Course
<1>1. ASSUME NEW n \in Names, RunTask(n) \/ Forges(n) \/ Others(n)
      PROVE  SightInv'
  <2>1. UNCHANGED <<fleet, lock, cmd, phase>>
    BY <1>1, TaskAside
    DEF EmptyInv, CourseInv, OwnInv, diskVars, runVars, Forges, Saves, Reflects, Answers,
        Others, TestEdits, UserDeletes, StrangerCreates, commandVars
  <2> QED
    BY <1>1, <2>1, TaskSight, OthersSight DEF SightInv, Holding
<1>2. ASSUME UNCHANGED forgeVars, Holding'
      PROVE  SightInv'
  BY <1>2 DEF SightInv, Hidden, Late, forgeVars
<1>3. CASE RunStep
  <2>1. UNCHANGED forgeVars
    BY <1>3
    DEF RunStep, CommandStep, Abort, StartCheck, EndCheck, ApplyStep, StartWork, StartSettle,
        WriteLock, ResetStep, StartRepairs, StartReady
  <2>2. Holding'
    BY <1>0, <1>3
    DEF SightInv, Holding, RunStep, CommandStep, Abort, StartCheck, EndCheck, ApplyStep,
        StartWork, StartSettle, WriteLock, ResetStep, StartRepairs, StartReady, Finish, Enter,
        diskVars
  <2> QED BY <1>2, <2>1, <2>2
<1>4. CASE RunApply \/ RunVerify \/ RunReset \/ Kill \/ EditFleet
  <2>1. UNCHANGED forgeVars
    BY <1>4
    DEF RunApply, StartApply, RunVerify, StartVerify, RunReset, StartReset, Refuse, Kill,
        EditFleet
  <2>2. Holding'
    BY <1>0, <1>4
    DEF SightInv, Holding, RunApply, StartApply, RunVerify, StartVerify, RunReset, StartReset,
        LockHolds, Refuse, Kill, Finish, EditFleet, Quiet, commandVars, diskVars, runVars
  <2> QED BY <1>2, <2>1, <2>2
<1>5. CASE UNCHANGED vars
  BY <1>2, <1>5 DEF SightInv, Holding, vars, diskVars, runVars
<1> QED
  BY <1>1, <1>3, <1>4, <1>5 DEF Next

\* What a comparison finds in order has content, and keeps it.
FoundThere(n) ==
  /\ phase \in {"survey", "check"} /\ task[n] = "done"
  /\ ~state[n].guard /\ ~Want(n).empty
  => owner[n] # "nobody" /\ ~repo[n].empty

\* So tests, which run on what was found in order, find content there.
Vouched(n) ==
  cmd = "none" /\ exit = "ok" /\ owner[n] = "forgelab" =>
    \A p \in Previous(n) : ~p.empty => ~repo[n].empty

TestedInv ==
  /\ \A n \in Declared : FoundThere(n)
  /\ \A n \in Names : Vouched(n)

\* A comparison has something against what reads as empty and should not.
LEMMA CompareOneThere ==
  ASSUME ~ArchivedUnreadable, NEW want, NEW who, NEW r, ~want.empty, r.empty
  PROVE  CompareOne(want, who, r).guard
BY DEF CompareOne, CompareGuards, Unreadable

\* What a task found there is there.
LEMMA TaskThere ==
  ASSUME ~ArchivedUnreadable, EmptyInv, TestedInv, NEW n \in Names, RunTask(n)
  PROVE  TestedInv'
<1>0. /\ CourseInv /\ Aside(n) /\ UNCHANGED <<diskVars, runVars>> /\ cmd # "none"
      /\ n \in Declared /\ Declared \subseteq Names
      /\ state \in [Names -> States] /\ task \in [Names -> Tasks]
  BY TaskAside, TaskCourse, TaskDeclared, FleetsAssumption
  DEF EmptyInv, CourseInv, OwnInv, TypeInv, TypeOK, CommandTypeOK, Declared
<1>1. Declared' = Declared /\ \A m \in Declared : Want(m)' = Want(m)
  BY <1>0 DEF Declared, Want, diskVars
<1>2. \A m \in Names : Vouched(m)'
  BY <1>0 DEF Vouched, runVars
<1>3. \A m \in Declared \ {n} : FoundThere(m)'
  BY <1>0, <1>1 DEF TestedInv, FoundThere, Aside, runVars
<1>4. ASSUME phase \notin {"survey", "check"}
      PROVE  FoundThere(n)'
  BY <1>0, <1>4 DEF FoundThere, runVars
<1>5. ASSUME phase \in {"survey", "check"}
      PROVE  FoundThere(n)'
  <2>1. CASE Compare(n) /\ owner[n] # "nobody"
    <3>1. state'[n] = CompareOne(Want(n), owner[n], repo[n]) /\ UNCHANGED forgeVars
      BY <1>0, <2>1 DEF Compare
    <3>2. ~Want(n).empty /\ ~state'[n].guard => ~repo[n].empty
      BY <3>1, CompareOneThere
    <3> QED
      BY <1>0, <1>1, <2>1, <3>1, <3>2 DEF FoundThere, forgeVars
  <2>2. CASE (Compare(n) /\ owner[n] = "nobody") \/ CompareBelievesMissing(n)
    <3>1. state'[n] = Missing
      BY <1>0, <2>2 DEF Compare, CompareBelievesMissing
    <3> QED BY <3>1 DEF FoundThere, Missing
  <2>3. CASE StepFails(n)
    BY <1>0, <2>3 DEF StepFails, Ends, FoundThere
  <2> QED
    BY <1>0, <1>5, <2>1, <2>2, <2>3, TaskCompares
<1> QED
  BY <1>1, <1>2, <1>3, <1>4, <1>5 DEF TestedInv

\* The forge takes no content from sight: a settings write that would is not under
\* way.
LEMMA ForgesThere ==
  ASSUME EmptyInv, NEW n \in Names, Forges(n)
  PROVE  /\ \A m \in Names : ~repo[m].empty => ~repo'[m].empty
         /\ UNCHANGED <<owner, diskVars, commandVars>>
<1>0. /\ repo \in [Names -> Repos] /\ repo[n] \in Repos /\ (SavesRow => RowSafe(n))
      /\ UNCHANGED <<owner, diskVars, commandVars>>
      /\ \A m \in Names \ {n} : repo'[m] = repo[m]
  BY DEF EmptyInv, CourseInv, OwnInv, TypeInv, TypeOK, ForgeTypeOK, Forges, Saves, ForgeSaves,
         Reflects, ForgeReflects, Answers, ForgeAnswers
<1>1. CASE Saves(n)
  <2>1. repo'[n] = Saved(n) /\ patch[n].busy
    BY <1>0, <1>1 DEF Saves, ForgeSaves
  <2>2. Saved(n).empty = IF SavesRow THEN patch[n].empty ELSE repo[n].empty
    BY <1>0 DEF Saved, Relaxed, Repos
  <2> QED
    BY <1>0, <2>1, <2>2 DEF RowSafe
<1>2. CASE Reflects(n)
  <2>1. ~repo'[n].empty
    BY <1>0, <1>2 DEF Reflects, ForgeReflects, Begun, Repos
  <2> QED BY <1>0, <2>1
<1>3. CASE Answers(n)
  BY <1>0, <1>3 DEF Answers, ForgeAnswers
<1> QED
  BY <1>1, <1>2, <1>3 DEF Forges

\* Nor does a test.
LEMMA TestEditsThere ==
  ASSUME EmptyInv, NEW n \in Names, TestEdits(n)
  PROVE  repo'[n].empty => repo[n].empty
<1>1. /\ repo \in [Names -> Repos] /\ repo[n] \in Repos /\ Known(repo[n])
  BY DEF EmptyInv, CourseInv, OwnInv, TypeInv, TypeOK, ForgeTypeOK
<1>2. \/ ~repo[n].archived /\ repo'[n] \in RepoEdits(repo[n])
      \/ repo'[n] = [repo[n] EXCEPT !.archived = FALSE]
  BY <1>1 DEF TestEdits, Write
<1>3. CASE repo'[n] = [repo[n] EXCEPT !.archived = FALSE]
  BY <1>1, <1>3 DEF Repos
<1>4. CASE ~repo[n].archived /\ repo'[n] \in RepoEdits(repo[n])
  BY <1>1, <1>4, RepoEditsRow
<1> QED
  BY <1>2, <1>3, <1>4

\* Whoever takes content away takes the repository with it.
LEMMA OthersThere ==
  ASSUME EmptyInv, TestedInv, NEW n \in Names, Others(n)
  PROVE  TestedInv'
<1>0. /\ UNCHANGED <<fleet, lock, cmd, phase, exit, task, change, state>>
      /\ \A m \in Names \ {n} : repo'[m] = repo[m] /\ owner'[m] = owner[m]
      /\ CourseInv /\ owner \in [Names -> Owners] /\ repo \in [Names -> Repos]
      /\ Declared \subseteq Names
  BY FleetsAssumption
  DEF EmptyInv, CourseInv, OwnInv, TypeInv, TypeOK, ForgeTypeOK, CommandTypeOK, Others,
      TestEdits, UserDeletes, StrangerCreates, Write, commandVars, runVars, poolVars, Declared
<1>1. /\ Declared' = Declared /\ \A m \in Declared : Want(m)' = Want(m)
      /\ \A m \in Names : Previous(m)' = Previous(m)
  BY <1>0 DEF Declared, Want, Previous
<1>2. /\ \A m \in Declared \ {n} : FoundThere(m)'
      /\ \A m \in Names \ {n} : Vouched(m)'
  BY <1>0, <1>1 DEF TestedInv, FoundThere, Vouched
<1>3. CASE UserDeletes(n) \/ StrangerCreates(n)
  <2>1. owner'[n] # "forgelab" /\ (cmd = "none" \/ owner[n] = "nobody")
    BY <1>0, <1>3 DEF UserDeletes, StrangerCreates, Quiet
  <2>2. n \in Declared => FoundThere(n)'
    BY <1>0, <1>1, <2>1 DEF CourseInv, Course, TestedInv, FoundThere
  <2> QED
    BY <1>1, <1>2, <2>1, <2>2 DEF TestedInv, Vouched
<1>4. CASE TestEdits(n)
  <2>1. cmd = "none" /\ owner' = owner
    BY <1>4 DEF TestEdits, Quiet, Write
  <2>2. n \in Declared => FoundThere(n)'
    BY <1>0, <2>1 DEF CourseInv, Course, FoundThere
  <2>3. Vouched(n)'
    BY <1>0, <1>1, <1>4, <2>1, TestEditsThere DEF TestedInv, Vouched
  <2> QED
    BY <1>1, <1>2, <2>2, <2>3 DEF TestedInv
<1> QED
  BY <1>3, <1>4 DEF Others

\* Exit code 0 is given where content was found.
LEMMA RunStepThere ==
  ASSUME EmptyInv, SightInv, TestedInv, RunStep
  PROVE  TestedInv'
<1>0. /\ CourseInv /\ Declared \subseteq Names
      /\ cmd = "none" <=> phase = "idle"
      /\ PhaseOver /\ AllWell => \A n \in Names : task[n] = "done"
      /\ UNCHANGED forgeVars
  BY FleetsAssumption
  DEF EmptyInv, CourseInv, Course, OwnInv, TypeInv, TypeOK, CommandTypeOK, Declared, PhaseOver,
      AllWell, RunStep, CommandStep, Abort, StartCheck, EndCheck, ApplyStep, StartWork,
      StartSettle, WriteLock, ResetStep, StartRepairs, StartReady
<1>1. CASE Abort \/ (StartSettle /\ ~AllWell)
  <2>1. Finish(Outcome) /\ ~AllWell
    BY <1>1 DEF Abort, StartSettle
  <2>2. Outcome # "ok"
    BY <1>0, <2>1, OutcomeNotOk
  <2> QED
    BY <2>1, <2>2 DEF TestedInv, FoundThere, Vouched, Finish
<1>2. CASE EndCheck \/ (StartRepairs /\ Verdict # "drift")
  <2>1. /\ Finish(Verdict) /\ UNCHANGED <<fleet, lock>> /\ phase \in {"survey", "check"}
        /\ \A n \in Names : task[n] = "done"
    BY <1>0, <1>2 DEF EndCheck, StartRepairs, diskVars
  <2>2. lock = fleet
    BY <1>0, <2>1 DEF SightInv, Holding, CourseInv, Course
  <2>3. ASSUME Verdict = "ok", NEW n \in Names, NEW p \in Previous(n), ~p.empty
        PROVE  ~repo[n].empty
    <3>1. n \in Declared /\ p = Want(n)
      BY <2>2, <2>3 DEF Previous, Declared, Want
    <3>2. ~state[n].guard
      BY <2>3, <3>1 DEF Verdict
    <3> QED
      BY <2>1, <2>3, <3>1, <3>2 DEF TestedInv, FoundThere
  <2>4. \A n \in Names : Previous(n)' = Previous(n)
    BY <2>1 DEF Previous
  <2> QED
    BY <1>0, <2>1, <2>3, <2>4 DEF TestedInv, FoundThere, Vouched, Finish, forgeVars
<1>3. CASE StartWork \/ (StartSettle /\ AllWell) \/ WriteLock \/ StartReady \/ StartCheck
           \/ (StartRepairs /\ Verdict = "drift")
  <2>1. cmd' # "none"
    BY <1>0, <1>3
    DEF StartWork, StartSettle, WriteLock, StartReady, StartCheck, StartRepairs, Enter,
        CourseInv, Course
  <2>2. \/ phase' \notin {"survey", "check"}
        \/ fleet' = fleet /\ \A n \in Declared : task'[n] = "compare"
    BY <1>0, <1>3
    DEF StartWork, StartSettle, WriteLock, StartReady, StartCheck, StartRepairs, Enter, Each,
        diskVars
  <2>3. \A n \in Declared' : FoundThere(n)'
    BY <2>2 DEF FoundThere, Declared
  <2> QED
    BY <2>1, <2>3 DEF TestedInv, Vouched
<1> QED
  BY <1>1, <1>2, <1>3 DEF RunStep, CommandStep, ApplyStep, ResetStep

\* Every step keeps what was found in order.
LEMMA TestedStep ==
  ~ArchivedUnreadable /\ EmptyInv /\ SightInv /\ TestedInv /\ [Next]_vars => TestedInv'
<1> SUFFICES ASSUME ~ArchivedUnreadable, EmptyInv, SightInv, TestedInv, [Next]_vars
             PROVE  TestedInv'
  OBVIOUS
<1>0. (cmd = "none" <=> phase = "idle") /\ Declared \subseteq Names
  BY FleetsAssumption
  DEF EmptyInv, CourseInv, Course, OwnInv, TypeInv, TypeOK, CommandTypeOK, Declared
<1>1. ASSUME NEW n \in Names, RunTask(n)
      PROVE  TestedInv'
  BY <1>1, TaskThere
<1>2. ASSUME NEW n \in Names, Forges(n)
      PROVE  TestedInv'
  <2>1. /\ \A m \in Names : ~repo[m].empty => ~repo'[m].empty
        /\ UNCHANGED <<owner, diskVars, commandVars>>
    BY <1>2, ForgesThere
  <2>2. /\ Declared' = Declared /\ \A m \in Declared : Want(m)' = Want(m)
        /\ \A m \in Names : Previous(m)' = Previous(m)
    BY <2>1 DEF Declared, Want, Previous, diskVars
  <2>3. \A m \in Declared : FoundThere(m)'
    BY <1>0, <2>1, <2>2 DEF TestedInv, FoundThere, commandVars, runVars, poolVars
  <2>4. \A m \in Names : Vouched(m)'
    BY <2>1, <2>2 DEF TestedInv, Vouched, commandVars, runVars
  <2> QED
    BY <2>2, <2>3, <2>4 DEF TestedInv
<1>3. ASSUME NEW n \in Names, Others(n)
      PROVE  TestedInv'
  BY <1>3, OthersThere
<1>4. CASE RunStep
  BY <1>4, RunStepThere
<1>5. CASE RunApply \/ RunVerify \/ RunReset
  <2>1. cmd' # "none" \/ exit' = "guard"
    BY <1>5
    DEF RunApply, StartApply, RunVerify, StartVerify, RunReset, StartReset, Refuse
  <2>2. \/ phase' \notin {"survey", "check"}
        \/ fleet' = fleet /\ \A n \in Declared : task'[n] = "compare"
    BY <1>0, <1>5
    DEF RunApply, StartApply, RunVerify, StartVerify, RunReset, StartReset, Refuse, Each,
        diskVars
  <2>3. \A n \in Declared' : FoundThere(n)'
    BY <2>2 DEF FoundThere, Declared
  <2> QED
    BY <2>1, <2>3 DEF TestedInv, Vouched
<1>6. CASE Kill
  BY <1>6 DEF Kill, Finish, TestedInv, FoundThere, Vouched
<1>7. CASE EditFleet
  <2>1. UNCHANGED <<forgeVars, lock, commandVars>> /\ phase = "idle"
    BY <1>0, <1>7 DEF EditFleet, Quiet
  <2> QED
    BY <2>1 DEF TestedInv, FoundThere, Vouched, Previous, forgeVars, commandVars, runVars
<1>8. CASE UNCHANGED vars
  <2>1. UNCHANGED <<owner, repo, fleet, lock, cmd, phase, exit, task, state>>
    BY <1>8 DEF vars, forgeVars, diskVars, runVars, poolVars
  <2> QED
    BY <2>1 DEF TestedInv, FoundThere, Vouched, Previous, Declared, Want
<1> QED
  BY <1>1, <1>2, <1>3, <1>4, <1>5, <1>6, <1>7, <1>8 DEF Next

\* What the lock names and the fleet does not, and is still there.
OwedTags(n) ==
  Has(repo[n].tags) \cap ((UNION {p.tags : p \in Previous(n)}) \ Want(n).tags)

OwedBranches(n) ==
  Has(repo[n].branches) \cap ({p.default : p \in Previous(n)} \ {Want(n).default})

Cleared(n) == OwedTags(n) = {} /\ OwedBranches(n) = {}

Planned(n) ==
  /\ OwedTags(n) \subseteq change[n].staleTags
  /\ OwedBranches(n) \subseteq change[n].staleBranches

\* A plan to delete is a plan.
Noted(n) == change[n].staleTags # {} \/ change[n].staleBranches # {} => change[n].notes

\* All that is owed is planned for, and gone when n is done.
Owing(n) ==
  /\ phase = "plan" /\ task[n] = "done" => Planned(n)
  /\ phase \in {"apply", "settle"} =>
       /\ Planned(n)
       /\ task[n] \in {"archive", "archiving", "done"} => Cleared(n)

\* What reads as empty has nothing owed in it.
Fresh(n) == lock # fleet /\ repo[n].empty => Cleared(n)

DebtInv ==
  /\ \A n \in Names : Noted(n)
  /\ \A n \in Declared : ~Want(n).empty => Owing(n) /\ Fresh(n)

\* Where there are no refs none is owed ...
LEMMA NoRefsCleared ==
  ASSUME NEW n \in Names, ~HasRefs(repo[n])
  PROVE  Cleared(n) /\ Planned(n)
BY DEF HasRefs, Cleared, Planned, OwedTags, OwedBranches

\* ... and none is owed to the lock of the fleet itself.
LEMMA SameLockCleared ==
  ASSUME NEW n \in Names, lock = fleet
  PROVE  Cleared(n) /\ Planned(n)
<1>1. \A p \in Previous(n) : p = Want(n)
  BY DEF Previous, Want
<1> QED
  BY <1>1 DEF Cleared, Planned, OwedTags, OwedBranches

\* No fewer refs, no more debts.
LEMMA FewerRefs ==
  ASSUME NEW n \in Names, UNCHANGED <<fleet, lock>>,
         Has(repo'[n].tags) \subseteq Has(repo[n].tags) \cup Want(n).tags \cup {Baseline},
         Has(repo'[n].branches) \subseteq Has(repo[n].branches) \cup {Want(n).default},
         \A p \in Previous(n) : Baseline \notin p.tags
  PROVE  OwedTags(n)' \subseteq OwedTags(n) /\ OwedBranches(n)' \subseteq OwedBranches(n)
<1>1. Previous(n)' = Previous(n) /\ Want(n)' = Want(n)
  BY DEF Previous, Want
<1> QED
  BY <1>1 DEF OwedTags, OwedBranches

\* The lock does not name the baseline tag.
LEMMA PreviousTags ==
  ASSUME TypeInv, NEW n \in Names
  PROVE  \A p \in Previous(n) : p \in Wants /\ Baseline \notin p.tags
<1>1. lock # 0 => lock \in DOMAIN Fleets
  BY DEF TypeInv, TypeOK, CommandTypeOK
<1> QED
  BY <1>1, FleetsAssumption, RefsAssumption DEF Previous, Wants

\* A push of apply brings what the fleet declares.
LEMMA PushSeedRefs ==
  ASSUME EmptyInv, NEW n \in Names, n \in Declared, PushSeed(n)
  PROVE  /\ Has(repo'[n].tags) \subseteq Has(repo[n].tags) \cup Want(n).tags \cup {Baseline}
         /\ Has(repo'[n].branches) \subseteq Has(repo[n].branches) \cup {Want(n).default}
<1> DEFINE tags == Want(n).tags \cup {Baseline}
           c == Want(n).baseline
<1>0. /\ repo \in [Names -> Repos] /\ repo[n] \in Repos
      /\ c \in Commits /\ Want(n).default \in Branches
  BY WantType DEF EmptyInv, CourseInv, OwnInv, TypeInv, TypeOK, ForgeTypeOK, Wants
<1>1. \/ repo'[n] = repo[n]
      \/ repo'[n] = PushRefs(repo[n], c, Want(n).default, tags)
      \/ repo'[n] = PushTags(repo[n], c, tags)
  BY <1>0 DEF PushSeed, ForcePush, Write, forgeVars
<1>2. Has(Retagged(repo[n], c, tags)) \subseteq Has(repo[n].tags) \cup tags
  BY <1>0 DEF Retagged, Has, Repos, Refs
<1>3. Has([repo[n].branches EXCEPT ![Want(n).default] = c])
        \subseteq Has(repo[n].branches) \cup {Want(n).default}
  BY <1>0 DEF Has, Repos, Refs
<1>4. CASE repo'[n] = PushRefs(repo[n], c, Want(n).default, tags)
  <2>1. /\ repo'[n].tags = Retagged(repo[n], c, tags)
        /\ repo'[n].branches = [repo[n].branches EXCEPT ![Want(n).default] = c]
    BY <1>0, <1>4, PushRefsTags, PushRefsBranches
  <2> QED
    BY <1>2, <1>3, <2>1
<1>5. CASE repo'[n] = PushTags(repo[n], c, tags)
  <2>1. /\ repo'[n].tags = Retagged(repo[n], c, tags)
        /\ repo'[n].branches = repo[n].branches
    BY <1>0, <1>5, PushTagsMoves
  <2> QED
    BY <1>2, <2>1
<1> QED
  BY <1>1, <1>4, <1>5

\* So a task of apply runs into no debt.
LEMMA TaskOwes ==
  ASSUME EmptyInv, NEW n \in Names, RunTask(n), cmd = "apply"
  PROVE  /\ OwedTags(n)' \subseteq OwedTags(n) /\ OwedBranches(n)' \subseteq OwedBranches(n)
         /\ repo'[n].empty => repo[n].empty \/ ~HasRefs(repo'[n])
<1>0. /\ CourseInv /\ UNCHANGED <<fleet, lock>> /\ n \in Declared
      /\ repo[n] \in Repos /\ Known(repo[n])
      /\ \A p \in Previous(n) : Baseline \notin p.tags
  BY TaskAside, TaskDeclared, PreviousTags
  DEF EmptyInv, CourseInv, OwnInv, TypeInv, TypeOK, ForgeTypeOK, diskVars
<1>1. CASE Milder(repo[n], repo'[n])
  <2>1. /\ Has(repo'[n].tags) \subseteq Has(repo[n].tags) \cup Want(n).tags \cup {Baseline}
        /\ Has(repo'[n].branches) \subseteq Has(repo[n].branches) \cup {Want(n).default}
    BY <1>1 DEF Milder
  <2> QED
    BY <1>0, <1>1, <2>1, FewerRefs DEF Milder
<1>2. CASE ~HasRefs(repo'[n])
  <2>1. /\ Has(repo'[n].tags) \subseteq Has(repo[n].tags) \cup Want(n).tags \cup {Baseline}
        /\ Has(repo'[n].branches) \subseteq Has(repo[n].branches) \cup {Want(n).default}
    BY <1>2 DEF HasRefs
  <2> QED
    BY <1>0, <1>2, <2>1, FewerRefs
<1>3. CASE PushSeed(n)
  <2>1. /\ Has(repo'[n].tags) \subseteq Has(repo[n].tags) \cup Want(n).tags \cup {Baseline}
        /\ Has(repo'[n].branches) \subseteq Has(repo[n].branches) \cup {Want(n).default}
    BY <1>0, <1>3, PushSeedRefs
  <2>2. ASSUME \E b, t : repo'[n] = Pushed(repo[n], b, t)
        PROVE  repo'[n].empty => repo[n].empty
    BY <1>0, <2>2, PushedKnown
  <2>3. repo'[n].empty => repo[n].empty \/ ~HasRefs(repo'[n])
    BY <1>0, <1>1, <2>2, TaskRepo DEF Milder
  <2> QED
    BY <1>0, <2>1, <2>3, FewerRefs
<1>4. CASE ~PushSeed(n)
  <2>1. ~ResetTask(n)
    BY <1>0, ResetTaskResets
  <2>2. CASE CommandTask(n)
    BY <1>0, <1>1, <2>2, TaskRepoShared
  <2>3. CASE ApplyTask(n)
    <3>1. task[n] \notin {"push", "push again"}
      BY <1>4, <2>3
      DEF ApplyTask, Diff, CreateLands, CreateErrs, CreateConflicts, CheckLanded, Adopt, Label,
          Appear, Unarchived, Replied, Recheck, ReadBack, WaitPushed, WaitPushedTimesOut,
          Settle, Settled, SetTopics, DeleteStaleRefs
    <3> QED
      BY <1>0, <1>1, <1>2, <3>1, TaskRepo
  <2> QED
    BY <2>1, <2>2, <2>3 DEF RunTask
<1> QED
  BY <1>3, <1>4


\* Debts are what the refs, the fleet and the lock make them.
LEMMA SameDebt ==
  ASSUME NEW m \in Names, UNCHANGED <<fleet, lock, phase>>,
         SameRefs(repo[m], repo'[m]), repo'[m].empty => repo[m].empty,
         task'[m] = task[m], change'[m] = change[m]
  PROVE  /\ Noted(m) => Noted(m)'
         /\ Owing(m) => Owing(m)'
         /\ Fresh(m) => Fresh(m)'
<1>1. Want(m)' = Want(m) /\ Previous(m)' = Previous(m)
  BY DEF Want, Previous
<1>2. OwedTags(m)' = OwedTags(m) /\ OwedBranches(m)' = OwedBranches(m)
  BY <1>1 DEF OwedTags, OwedBranches, SameRefs
<1> QED
  BY <1>1, <1>2 DEF Noted, Owing, Fresh, Cleared, Planned

\* Only a diff changes what is planned.
LEMMA TaskPlans ==
  ASSUME TypeInv, NEW n \in Names, RunTask(n), ~Diff(n)
  PROVE  /\ change'[n].staleTags = change[n].staleTags
         /\ change'[n].staleBranches = change[n].staleBranches
         /\ change'[n].notes = change[n].notes
         /\ change'[n].create = change[n].create
         /\ change'[n].recheck = change[n].recheck
<1>1. change \in [Names -> Changes]
  BY DEF TypeInv, TypeOK, CommandTypeOK
<1>2. CASE Recheck(n) \/ ReadBack(n)
  BY <1>1, <1>2 DEF Recheck, ReadBack, Changes
<1>3. CASE ~Recheck(n) /\ ~ReadBack(n)
  BY <1>3
  DEF RunTask, CommandTask, StepFails, ForcePushErrs, Lift, Unarchive, Archive, Archived,
      Replied, Await, AwaitTimesOut, GivesUp, Compare, CompareBelievesMissing, ApplyTask,
      CreateLands, CreateErrs, CreateConflicts, CheckLanded, Adopt, Label, Appear,
      Unarchived, PushSeed, ForcePush, WaitPushed, WaitPushedTimesOut, Settle, Settled,
      SetTopics, DeleteStaleRefs, ResetTask, LiftedForReset, Rewind, RewindDone, WaitRewound,
      WaitRewoundTimesOut, RestoreSettings, SettingsRestored, CloseRequests, DeleteBranches,
      DeleteTags, RestoreTopics
<1> QED
  BY <1>2, <1>3

\* A diff plans for all that is owed, and says so.
LEMMA DiffPlans ==
  ASSUME ~ArchivedUnreadable, EmptyInv, SightInv, DebtInv, NEW n \in Names, Diff(n),
         n \in Declared
  PROVE  /\ Noted(n)'
         /\ task'[n] = "done" /\ ~Want(n).empty => Planned(n)'
<1>0. /\ change \in [Names -> Changes] /\ task \in [Names -> Tasks]
      /\ owner[n] = "nobody" => repo[n] = Blank
      /\ UNCHANGED <<forgeVars, diskVars>>
  BY DEF EmptyInv, CourseInv, OwnInv, LeftAlone, TypeInv, TypeOK, CommandTypeOK, Diff
<1>1. OwedTags(n)' = OwedTags(n) /\ OwedBranches(n)' = OwedBranches(n)
  BY <1>0 DEF OwedTags, OwedBranches, Previous, Want, forgeVars, diskVars
<1>2. CASE Lookup(n) = "nobody"
  <2>1. ~HasRefs(Blank)
    BY DEF Blank, Has, HasRefs
  <2>2. ~HasRefs(repo[n])
    BY <1>0, <1>2, <2>1 DEF Lookup, SightInv, Hidden
  <2>3. Cleared(n)
    BY <2>2, NoRefsCleared
  <2>4. change'[n].staleTags = {} /\ change'[n].staleBranches = {}
    BY <1>0, <1>2 DEF Diff, Creation
  <2> QED
    BY <1>1, <2>3, <2>4 DEF Noted, Planned, Cleared
<1>3. CASE Lookup(n) # "nobody" /\ DiffGuards(Want(n), owner[n], repo[n])
  BY <1>0, <1>3 DEF Diff, Ends, DebtInv, Noted
<1>4. CASE Lookup(n) # "nobody" /\ ~DiffGuards(Want(n), owner[n], repo[n])
  <2> DEFINE c == DiffOne(Want(n), repo[n], Previous(n))
  <2>1. change'[n] = c
    BY <1>0, <1>4 DEF Diff
  <2>2. c.staleTags # {} \/ c.staleBranches # {} => c.notes
    BY DEF DiffOne
  <2>3. CASE repo[n].empty /\ ~Want(n).empty
    <3>1. Cleared(n)
      BY <2>3, SameLockCleared DEF DebtInv, Fresh
    <3> QED
      BY <1>1, <2>1, <2>2, <3>1 DEF Noted, Planned, Cleared
  <2>4. CASE ~repo[n].empty /\ ~Want(n).empty
    <3>1. OwedTags(n) \subseteq c.staleTags /\ OwedBranches(n) \subseteq c.staleBranches
      BY <2>4 DEF DiffOne, Unreadable, OwedTags, OwedBranches
    <3> QED
      BY <1>1, <2>1, <2>2, <3>1 DEF Noted, Planned
  <2> QED
    BY <2>1, <2>2, <2>3, <2>4 DEF Noted
<1> QED
  BY <1>2, <1>3, <1>4

\* What a task of apply is done with, or about to archive, is cleared.
LEMMA TaskClears ==
  ASSUME EmptyInv, NEW n \in Names, RunTask(n), phase \in {"apply", "settle"}, Owing(n),
         task'[n] \in {"archive", "archiving", "done"}
  PROVE  Cleared(n)'
<1>0. /\ cmd = "apply" /\ CourseInv /\ UNCHANGED <<fleet, lock>> /\ Planned(n)
      /\ task \in [Names -> Tasks] /\ repo \in [Names -> Repos] /\ repo[n] \in Repos
      /\ task[n] \in Stages(phase)
  BY TaskAside
  DEF EmptyInv, CourseInv, Course, InStage, OwnInv, TypeInv, TypeOK, CommandTypeOK,
      ForgeTypeOK, diskVars, Owing
<1>1. CASE task[n] \in {"archive", "archiving"}
  BY <1>0, <1>1, TaskOwes DEF Owing, Cleared
<1>2. CASE DeleteStaleRefs(n) /\ change[n].staleTags = {} /\ change[n].staleBranches = {}
  <2>1. Cleared(n)
    BY <1>0, <1>2 DEF Planned, Cleared
  <2> QED
    BY <1>0, <2>1, TaskOwes DEF Cleared
<1>3. CASE /\ DeleteStaleRefs(n)
           /\ change[n].staleTags # {} \/ change[n].staleBranches # {}
  <2>1. task'[n] # "failed"
    OBVIOUS
  <2>2. \E requests : repo'[n] = [repo[n] EXCEPT
           !.tags = [t \in AllTags |->
                       IF t \in change[n].staleTags THEN NoCommit ELSE repo[n].tags[t]],
           !.branches = [b \in Branches |->
                       IF b \in change[n].staleBranches THEN NoCommit
                       ELSE repo[n].branches[b]],
           !.requests = requests]
    BY <1>0, <1>3, <2>1 DEF DeleteStaleRefs, Write, Ends
  <2>3. /\ repo'[n].tags = [t \in AllTags |->
                       IF t \in change[n].staleTags THEN NoCommit ELSE repo[n].tags[t]]
        /\ repo'[n].branches = [b \in Branches |->
                       IF b \in change[n].staleBranches THEN NoCommit
                       ELSE repo[n].branches[b]]
    BY <1>0, <2>2 DEF Repos
  <2>4. /\ Has(repo'[n].tags) \cap change[n].staleTags = {}
        /\ Has(repo'[n].branches) \cap change[n].staleBranches = {}
    BY <2>3 DEF Has
  <2>5. /\ OwedTags(n)' \subseteq Has(repo'[n].tags)
        /\ OwedBranches(n)' \subseteq Has(repo'[n].branches)
    BY DEF OwedTags, OwedBranches
  <2> QED
    BY <1>0, <2>4, <2>5, TaskOwes DEF Planned, Cleared
<1>4. CASE task[n] \notin {"archive", "archiving", "stale refs"}
  <2>1. ~ResetTask(n)
    BY <1>0, ResetTaskResets
  <2> USE DEF Goes, Ends
  <2>2. ~CommandTask(n)
    BY <1>0, <1>4
    DEF CommandTask, StepFails, ForcePushErrs, Lift, Unarchive, Archive, Archived, Replied,
        Await, AwaitTimesOut, GivesUp, Compare, CompareBelievesMissing, Stages, Seeds,
        Settling
  <2>3. ~ApplyTask(n)
    BY <1>0, <1>4
    DEF ApplyTask, Diff, CreateLands, CreateErrs, CreateConflicts, CheckLanded, Adopt,
        Recognise, Label, Appear, Unarchived, Seeding, Replied, Recheck, PushSeed, ForcePush,
        ReadBack, WaitPushed, WaitPushedTimesOut, GivesUp, Settle, Settled, SetTopics,
        DeleteStaleRefs, Stages, Seeds, Settling
  <2> QED BY <2>1, <2>2, <2>3 DEF RunTask
<1>5. CASE task[n] = "stale refs"
  <2>1. DeleteStaleRefs(n)
    <3>1. ~StepFails(n) /\ ~ResetTask(n)
      BY <1>0, ResetTaskResets DEF StepFails, Ends
    <3> QED
      BY <1>5, <3>1
      DEF RunTask, CommandTask, ForcePushErrs, Lift, Unarchive, Archive, Archived, Replied,
          Await, AwaitTimesOut, Compare, CompareBelievesMissing, ApplyTask, Diff,
          CreateLands, CreateErrs, CreateConflicts, CheckLanded, Adopt, Label, Appear,
          Unarchived, Recheck, PushSeed, ForcePush, ReadBack, WaitPushed, WaitPushedTimesOut,
          Settle, Settled, SetTopics
  <2> QED BY <1>2, <1>3, <2>1
<1> QED
  BY <1>1, <1>4, <1>5

\* A task keeps the account of what is owed.
LEMMA TaskDebt ==
  ASSUME ~ArchivedUnreadable, EmptyInv, SightInv, DebtInv, NEW n \in Names, RunTask(n)
  PROVE  DebtInv'
<1>0. /\ CourseInv /\ Aside(n) /\ UNCHANGED <<fleet, lock, cmd, phase>> /\ n \in Declared
      /\ cmd # "none" /\ cmd \in Commands /\ Declared' = Declared /\ Declared \subseteq Names
      /\ task[n] \in Stages(phase) /\ (phase \in {"plan", "apply", "settle"} => cmd = "apply")
  BY TaskAside, TaskCourse, TaskDeclared, FleetsAssumption
  DEF EmptyInv, CourseInv, Course, InStage, OwnInv, TypeInv, TypeOK, CommandTypeOK, diskVars,
      runVars, Declared
<1>1. ASSUME NEW m \in Names, m # n
      PROVE  /\ Noted(m)'
             /\ m \in Declared /\ ~Want(m)'.empty => Owing(m)' /\ Fresh(m)'
  BY <1>0, <1>1, SameDebt DEF Aside, SameRefs, DebtInv, Want
<1>2. Want(n)' = Want(n)
  BY <1>0 DEF Want
<1>3. Noted(n)'
  <2>1. CASE Diff(n)
    BY <1>0, <2>1, DiffPlans
  <2>2. CASE ~Diff(n)
    BY <1>0, <2>2, TaskPlans DEF CourseInv, OwnInv, DebtInv, Noted
  <2> QED BY <2>1, <2>2
<1>4. ASSUME ~Want(n).empty
      PROVE  Owing(n)'
  <2>1. CASE phase = "plan"
    <3>1. task'[n] = "done" => Diff(n)
      <4>1. task[n] = "diff" /\ ~ResetTask(n)
        BY <1>0, <2>1, TaskBusy, ResetTaskResets DEF Stages
      <4> QED
        BY <1>0, <4>1
        DEF RunTask, CommandTask, StepFails, Ends, ForcePushErrs, Lift, Unarchive, Archive,
            Archived, Replied, Await, AwaitTimesOut, Compare, CompareBelievesMissing,
            ApplyTask, CreateLands, CreateErrs, CreateConflicts, CheckLanded, Adopt, Label,
            Appear, Unarchived, Recheck, PushSeed, ForcePush, ReadBack, WaitPushed,
            WaitPushedTimesOut, Settle, Settled, SetTopics, DeleteStaleRefs, CourseInv,
            OwnInv, TypeInv, TypeOK, CommandTypeOK
    <3> QED
      BY <1>0, <1>4, <2>1, <3>1, DiffPlans DEF Owing
  <2>2. CASE phase \in {"apply", "settle"}
    <3>1. Owing(n) /\ Planned(n) /\ ~Diff(n)
      BY <1>0, <1>4, <2>2 DEF DebtInv, Owing, Diff, Stages, Seeds, Settling
    <3>2. Planned(n)'
      BY <1>0, <2>2, <3>1, TaskOwes, TaskPlans DEF CourseInv, OwnInv, Planned
    <3>3. task'[n] \in {"archive", "archiving", "done"} => Cleared(n)'
      BY <2>2, <3>1, TaskClears
    <3> QED
      BY <1>0, <2>2, <3>2, <3>3 DEF Owing
  <2>3. CASE phase \notin {"plan", "apply", "settle"}
    BY <1>0, <2>3 DEF Owing
  <2> QED BY <2>1, <2>2, <2>3
<1>5. ASSUME ~Want(n).empty
      PROVE  Fresh(n)'
  <2>1. CASE cmd # "apply"
    BY <1>0, <2>1 DEF Commands, SightInv, Holding, Fresh
  <2>2. CASE cmd = "apply"
    <3>1. repo[n].empty /\ lock # fleet => Cleared(n)
      BY <1>0, <1>5 DEF DebtInv, Fresh
    <3>2. ~HasRefs(repo'[n]) => Cleared(n)'
      BY DEF HasRefs, Cleared, OwedTags, OwedBranches
    <3> QED
      BY <1>0, <2>2, <3>1, <3>2, TaskOwes DEF Fresh, Cleared
  <2> QED BY <2>1, <2>2
<1>6. /\ \A m \in Names : Noted(m)'
      /\ \A m \in Declared : ~Want(m)'.empty => Owing(m)' /\ Fresh(m)'
  BY <1>0, <1>1, <1>2, <1>3, <1>4, <1>5
<1> QED
  BY <1>0, <1>6 DEF DebtInv

\* The forge's own work, and what is done between commands, moves no ref of what was
\* planned; and what reads as empty afterwards owes nothing.
LEMMA BesideDebt ==
  ASSUME EmptyInv, DebtInv, UNCHANGED <<fleet, lock, phase, task, change>>, NEW n \in Names,
         \A m \in Names \ {n} : SameRefs(repo[m], repo'[m])
                                /\ (repo'[m].empty => repo[m].empty),
         \/ SameRefs(repo[n], repo'[n]) /\ (repo'[n].empty => repo[n].empty)
         \/ ~HasRefs(repo'[n])
         \/ phase = "idle" /\ (n \in Declared /\ ~Want(n).empty => Fresh(n)')
  PROVE  DebtInv'
<1>0. /\ Declared' = Declared /\ Declared \subseteq Names
      /\ \A m \in Declared : Want(m)' = Want(m)
  BY FleetsAssumption
  DEF EmptyInv, CourseInv, OwnInv, TypeInv, TypeOK, CommandTypeOK, Declared, Want
<1>1. \A m \in Names : Noted(m)'
  BY DEF DebtInv, Noted
<1>2. ASSUME NEW m \in Declared, ~Want(m).empty
      PROVE  Owing(m)' /\ Fresh(m)'
  <2>1. CASE SameRefs(repo[m], repo'[m]) /\ (repo'[m].empty => repo[m].empty)
    BY <1>0, <1>2, <2>1, SameDebt DEF DebtInv
  <2>2. CASE ~HasRefs(repo'[m])
    <3>1. OwedTags(m)' = {} /\ OwedBranches(m)' = {}
      BY <2>2 DEF HasRefs, OwedTags, OwedBranches
    <3> QED
      BY <3>1 DEF Owing, Fresh, Planned, Cleared
  <2>3. CASE m = n /\ phase = "idle" /\ Fresh(n)'
    BY <2>3 DEF Owing
  <2> QED
    BY <1>0, <1>2, <2>1, <2>2, <2>3
<1> QED
  BY <1>0, <1>1, <1>2 DEF DebtInv

\* Forges and others keep it too: tests run on what was found in order, and on a forge
\* that is done with earlier pushes.
LEMMA BesideTaskDebt ==
  ASSUME Watchful, EmptyInv, EmptyInv', SightInv', TestedInv, DebtInv, NEW n \in Names,
         Forges(n) \/ Others(n)
  PROVE  DebtInv'
<1>0. /\ ForgeTypeOK /\ repo \in [Names -> Repos] /\ owner \in [Names -> Owners]
      /\ repo[n] \in Repos /\ cmd = "none" <=> phase = "idle"
      /\ Known(repo'[n]) /\ (repo'[n].pending => Background)
  BY DEF EmptyInv, SightInv, Late, CourseInv, Course, OwnInv, TypeInv, TypeOK, ForgeTypeOK
<1>1. CASE Forges(n)
  <2>1. /\ UNCHANGED <<fleet, lock, phase, task, change>>
        /\ \A m \in Names : SameRefs(repo[m], repo'[m])
    BY <1>0, <1>1, ForgesRefs, ForgesThere DEF diskVars, commandVars, runVars, poolVars
  <2>2. \A m \in Names : repo'[m].empty => repo[m].empty
    BY <1>1, ForgesThere
  <2> QED
    BY <2>1, <2>2, BesideDebt
<1>2. CASE Others(n)
  <2>1. /\ UNCHANGED <<fleet, lock, phase, task, change>>
        /\ \A m \in Names \ {n} : repo'[m] = repo[m]
    BY <1>0, <1>2
    DEF Others, TestEdits, UserDeletes, StrangerCreates, Write, commandVars, runVars, poolVars
  <2>2. \A m \in Names \ {n} : SameRefs(repo[m], repo'[m]) /\ (repo'[m].empty => repo[m].empty)
    BY <2>1 DEF SameRefs
  <2>3. CASE UserDeletes(n) \/ StrangerCreates(n)
    <3>1. repo'[n] = Blank /\ ~HasRefs(Blank)
      BY <1>0, <2>3 DEF UserDeletes, StrangerCreates, Blank, Has, HasRefs
    <3> QED BY <2>1, <2>2, <3>1, BesideDebt
  <2>4. CASE TestEdits(n)
    <3>1. phase = "idle" /\ cmd = "none" /\ owner[n] = "forgelab"
      BY <1>0, <2>4 DEF TestEdits, Quiet
    <3>2. CASE ~repo'[n].pending
      <4>1. repo'[n].empty => ~HasRefs(repo'[n])
        BY <1>0, <3>2 DEF Known
      <4>2. Fresh(n)'
        BY <4>1 DEF Fresh, Cleared, HasRefs, OwedTags, OwedBranches
      <4> QED BY <2>1, <2>2, <3>1, <4>2, BesideDebt
    <3>3. CASE Background
      <4>1. exit = "ok" /\ NoEmpties
        BY <2>4, <3>3 DEF Watchful, TestEdits
      <4>2. \A p \in Previous(n) : ~p.empty
        BY <4>1 DEF NoEmpties, Previous, EmptyInv, CourseInv, OwnInv, TypeInv, TypeOK,
                    CommandTypeOK
      <4>3. repo'[n].empty => Previous(n) = {}
        BY <2>4, <3>1, <4>1, <4>2, TestEditsThere DEF TestedInv, Vouched
      <4>4. Previous(n)' = Previous(n)
        BY <2>1 DEF Previous
      <4>5. Fresh(n)'
        BY <4>3, <4>4 DEF Fresh, Cleared, OwedTags, OwedBranches
      <4> QED BY <2>1, <2>2, <3>1, <4>5, BesideDebt
    <3> QED BY <1>0, <3>2, <3>3
  <2> QED BY <1>2, <2>3, <2>4 DEF Others
<1> QED BY <1>1, <1>2

\* The property, without its box.
ForgetStep ==
  lock' # lock /\ lock # 0 =>
    \A n \in Declared \cap DOMAIN Fleets[lock] :
      LET old == Fleets[lock][n]
      IN ~Want(n).empty =>
           /\ Has(repo[n].tags) \cap (old.tags \ Want(n).tags) = {}
           /\ old.default # Want(n).default => repo[n].branches[old.default] = NoCommit

\* Where nothing is owed the old lock may go.
LEMMA ClearedForgets ==
  ASSUME TypeInv, NEW n \in Declared \cap DOMAIN Fleets[lock], lock # 0, Cleared(n),
         repo[n] \in Repos, n \in Names
  PROVE  LET old == Fleets[lock][n]
         IN /\ Has(repo[n].tags) \cap (old.tags \ Want(n).tags) = {}
            /\ old.default # Want(n).default => repo[n].branches[old.default] = NoCommit
<1> DEFINE old == Fleets[lock][n]
<1>1. Previous(n) = {old} /\ old \in Wants
  BY PreviousTags DEF Previous
<1>2. old.default \in DOMAIN repo[n].branches
  BY <1>1 DEF Wants, Repos, Refs
<1> HIDE DEF old
<1>3. Has(repo[n].tags) \cap (old.tags \ Want(n).tags) = {}
  BY <1>1 DEF Cleared, OwedTags
<1>4. old.default # Want(n).default => repo[n].branches[old.default] = NoCommit
  BY <1>1, <1>2 DEF Cleared, OwedBranches, Has
<1> QED
  BY <1>3, <1>4 DEF old

\* A command that ends owes nothing more than it found.
LEMMA FinishDebt ==
  ASSUME EmptyInv, DebtInv, NEW code, Finish(code), UNCHANGED <<forgeVars, diskVars>>
  PROVE  DebtInv' /\ ForgetStep
<1>1. \A n \in Names : Noted(n)'
  BY DEF Finish, Nothing, Noted
<1>2. ASSUME NEW n \in Declared, ~Want(n).empty
      PROVE  Owing(n)' /\ Fresh(n)'
  BY <1>2
  DEF DebtInv, Finish, Owing, Fresh, Cleared, OwedTags, OwedBranches, Previous, Want,
      forgeVars, diskVars
<1>3. Declared' = Declared /\ \A n \in Declared : Want(n)' = Want(n)
  BY DEF Declared, Want, diskVars
<1> QED
  BY <1>1, <1>2, <1>3 DEF DebtInv, ForgetStep, diskVars

\* A phase that begins takes over what was planned.
LEMMA EnterDebt ==
  ASSUME EmptyInv, DebtInv, UNCHANGED <<repo, fleet, lock>>,
         \A n \in Names :
           /\ change'[n].staleTags = change[n].staleTags
           /\ change'[n].staleBranches = change[n].staleBranches
           /\ change'[n].notes = change[n].notes,
         \A n \in Declared : ~Want(n).empty => Owing(n)'
  PROVE  DebtInv' /\ ForgetStep
<1>1. \A n \in Names : Noted(n)'
  BY DEF DebtInv, Noted
<1>2. Declared' = Declared /\ \A n \in Declared : Want(n)' = Want(n)
  BY DEF Declared, Want
<1>3. \A n \in Declared : Fresh(n) => Fresh(n)'
  BY DEF Fresh, Cleared, OwedTags, OwedBranches, Previous, Want
<1> QED
  BY <1>1, <1>2, <1>3 DEF DebtInv, ForgetStep

\* What is not worked on owes nothing.
LEMMA StartWorkDebt ==
  ASSUME EmptyInv, DebtInv, StartWork
  PROVE  DebtInv' /\ ForgetStep
<1>0. /\ UNCHANGED <<repo, fleet, lock, change>> /\ phase = "plan" /\ phase' = "apply"
      /\ Declared \subseteq Names /\ \A n \in Names : task[n] = "done"
  BY FleetsAssumption
  DEF StartWork, Enter, forgeVars, diskVars, PhaseOver, AllWell, EmptyInv, CourseInv, OwnInv,
      TypeInv, TypeOK, CommandTypeOK, Declared
<1>1. ASSUME NEW n \in Declared, ~Want(n).empty
      PROVE  Owing(n)'
  <2>1. n \in Names /\ Planned(n) /\ Noted(n)
    BY <1>0, <1>1 DEF DebtInv, Owing
  <2>2. /\ OwedTags(n)' = OwedTags(n) /\ OwedBranches(n)' = OwedBranches(n)
        /\ Want(n)' = Want(n)
    BY <1>0 DEF OwedTags, OwedBranches, Previous, Want
  <2>3. CASE Needed(change[n])
    <3>1. task'[n] = FirstStep(n)
      BY <2>1, <2>3 DEF StartWork, Enter
    <3>2. task'[n] \notin {"archive", "archiving", "done"}
      BY <3>1 DEF FirstStep, Seeding
    <3> QED
      BY <1>0, <2>1, <2>2, <3>2 DEF Owing, Planned
  <2>4. CASE ~Needed(change[n])
    <3>1. change[n].staleTags = {} /\ change[n].staleBranches = {}
      BY <2>1, <2>4 DEF Noted, Needed
    <3>2. OwedTags(n) = {} /\ OwedBranches(n) = {}
      BY <2>1, <3>1 DEF Planned
    <3> QED
      BY <1>0, <2>2, <3>2 DEF Owing, Planned, Cleared
  <2> QED BY <2>3, <2>4
<1> QED
  BY <1>0, <1>1, EnterDebt

\* A task that has settled elsewhere is not done with.
LEMMA StartSettleDebt ==
  ASSUME EmptyInv, DebtInv, StartSettle
  PROVE  DebtInv' /\ ForgetStep
<1>0. /\ UNCHANGED <<repo, fleet, lock>> /\ phase = "apply"
      /\ Declared \subseteq Names /\ change \in [Names -> Changes]
  BY FleetsAssumption
  DEF StartSettle, forgeVars, diskVars, EmptyInv, CourseInv, OwnInv, TypeInv, TypeOK,
      CommandTypeOK, Declared
<1>1. CASE ~AllWell
  BY <1>1, FinishDebt DEF StartSettle
<1>2. CASE AllWell
  <2>1. \A n \in Names :
          /\ change'[n].staleTags = change[n].staleTags
          /\ change'[n].staleBranches = change[n].staleBranches
          /\ change'[n].notes = change[n].notes
    BY <1>0, <1>2 DEF StartSettle, Changes
  <2>2. ASSUME NEW n \in Declared, ~Want(n).empty
        PROVE  Owing(n)'
    <3>1. Planned(n) /\ (task[n] = "done" => Cleared(n)) /\ n \in Names
      BY <1>0, <2>2 DEF DebtInv, Owing
    <3>2. /\ OwedTags(n)' = OwedTags(n) /\ OwedBranches(n)' = OwedBranches(n)
      BY <1>0 DEF OwedTags, OwedBranches, Previous, Want
    <3>3. phase' = "settle" /\ (task'[n] = "wait" \/ (task'[n] = "done" /\ task[n] = "done"))
      BY <1>2, <3>1 DEF StartSettle, Enter, PushesOver, AllWell
    <3> QED
      BY <2>1, <3>1, <3>2, <3>3 DEF Owing, Planned, Cleared
  <2> QED
    BY <1>0, <2>1, <2>2, EnterDebt
<1> QED BY <1>1, <1>2

\* The lock is written where nothing is owed to the old one, and to the new one
\* nothing is.
LEMMA WriteLockDebt ==
  ASSUME EmptyInv, DebtInv, WriteLock
  PROVE  DebtInv' /\ ForgetStep
<1>0. /\ UNCHANGED <<repo, fleet, change>> /\ lock' = fleet /\ phase' = "ready"
      /\ phase \in {"apply", "settle"} /\ Declared \subseteq Names
      /\ \A n \in Names : task[n] = "done"
      /\ TypeInv /\ repo \in [Names -> Repos]
  BY FleetsAssumption
  DEF WriteLock, Enter, forgeVars, PhaseOver, AllWell, EmptyInv, CourseInv, OwnInv, TypeInv,
      TypeOK, CommandTypeOK, ForgeTypeOK, Declared
<1>1. \A n \in Names : Noted(n)'
  BY <1>0 DEF DebtInv, Noted
<1>2. \A n \in Declared' : Owing(n)' /\ Fresh(n)'
  BY <1>0 DEF Owing, Fresh
<1>3. \A n \in Declared : ~Want(n).empty => Cleared(n)
  BY <1>0 DEF DebtInv, Owing
<1>4. ForgetStep
  BY <1>0, <1>3, ClearedForgets DEF ForgetStep
<1> QED
  BY <1>1, <1>2, <1>4 DEF DebtInv

\* Every other step of a run, and of who starts and ends one.
LEMMA RunDebt ==
  ASSUME Watchful, EmptyInv, SightInv, DebtInv,
         RunStep \/ RunApply \/ RunVerify \/ RunReset \/ Kill \/ EditFleet
  PROVE  DebtInv' /\ ForgetStep
<1>0. cmd = "none" <=> phase = "idle"
  BY DEF EmptyInv, CourseInv, Course
<1>1. CASE StartWork \/ StartSettle \/ WriteLock
  BY <1>1, StartWorkDebt, StartSettleDebt, WriteLockDebt
<1>2. CASE Abort \/ EndCheck \/ Kill \/ (StartRepairs /\ Verdict # "drift")
  BY <1>2, FinishDebt DEF Abort, EndCheck, Kill, StartRepairs
<1>3. CASE StartCheck \/ StartReady \/ (StartRepairs /\ Verdict = "drift")
           \/ RunApply \/ RunVerify \/ RunReset
  <2>1. UNCHANGED <<repo, fleet, lock, change>>
    BY <1>3
    DEF StartCheck, StartReady, StartRepairs, RunApply, StartApply, RunVerify, StartVerify,
        RunReset, StartReset, Refuse, forgeVars, diskVars
  <2>2. \/ phase' \in {"idle", "check", "reset", "ready", "survey"}
        \/ phase' = "plan" /\ \A n \in Declared : task'[n] = "diff"
    BY <1>0, <1>3, FleetsAssumption
    DEF StartCheck, StartReady, StartRepairs, RunApply, StartApply, RunVerify, StartVerify,
        RunReset, StartReset, Refuse, Enter, Each, Declared, EmptyInv, CourseInv, OwnInv,
        TypeInv, TypeOK, CommandTypeOK
  <2>3. \A n \in Declared : Owing(n)'
    BY <2>2 DEF Owing
  <2> QED
    BY <2>1, <2>3, EnterDebt
<1>4. CASE EditFleet
  <2>1. /\ UNCHANGED <<repo, lock, change, phase>> /\ phase = "idle"
        /\ \A n \in Names : ~repo[n].pending
    BY <1>0, <1>4
    DEF EditFleet, Quiet, commandVars, runVars, forgeVars, Watchful, SightInv, Late
  <2>2. fleet' \in DOMAIN Fleets
    BY <1>4 DEF EditFleet
  <2>3. \A n \in Names : Noted(n)'
    BY <2>1 DEF DebtInv, Noted
  <2>4. ASSUME NEW n \in Declared'
        PROVE  Owing(n)' /\ Fresh(n)'
    <3>1. n \in Names
      BY <2>2, FleetsAssumption DEF Declared
    <3>2. repo[n].empty => ~HasRefs(repo[n])
      BY <2>1, <3>1 DEF EmptyInv, Known
    <3>3. Fresh(n)'
      BY <2>1, <3>2 DEF Fresh, Cleared, HasRefs, OwedTags, OwedBranches
    <3> QED BY <2>1, <3>3 DEF Owing
  <2> QED
    BY <2>1, <2>3, <2>4 DEF DebtInv, ForgetStep
<1> QED
  BY <1>1, <1>2, <1>3, <1>4 DEF RunStep, CommandStep, ApplyStep, ResetStep

\* Every step keeps the account, and no lock goes that something is owed to.
LEMMA DebtStep ==
  /\ Watchful /\ EmptyInv /\ EmptyInv' /\ SightInv /\ SightInv' /\ TestedInv /\ DebtInv
  /\ [Next]_vars
  => DebtInv' /\ ForgetStep
<1> SUFFICES ASSUME Watchful, EmptyInv, EmptyInv', SightInv, SightInv', TestedInv, DebtInv,
                    [Next]_vars
             PROVE  DebtInv' /\ ForgetStep
  OBVIOUS
<1>1. ASSUME NEW n \in Names, RunTask(n)
      PROVE  DebtInv' /\ ForgetStep
  <2>1. lock' = lock
    BY <1>1, TaskAside DEF EmptyInv, CourseInv, OwnInv, diskVars
  <2> QED
    BY <1>1, <2>1, TaskDebt DEF Watchful, ForgetStep
<1>2. ASSUME NEW n \in Names, Forges(n) \/ Others(n)
      PROVE  DebtInv' /\ ForgetStep
  <2>1. lock' = lock
    BY <1>2
    DEF Forges, Saves, Reflects, Answers, Others, TestEdits, UserDeletes, StrangerCreates,
        diskVars
  <2> QED
    BY <1>2, <2>1, BesideTaskDebt DEF ForgetStep
<1>3. CASE RunStep \/ RunApply \/ RunVerify \/ RunReset \/ Kill \/ EditFleet
  BY <1>3, RunDebt
<1>4. CASE UNCHANGED vars
  <2>1. UNCHANGED <<repo, fleet, lock, phase, task, change>>
    BY <1>4 DEF vars, forgeVars, diskVars, runVars, poolVars
  <2>2. DebtInv'
    BY <2>1
    DEF DebtInv, Noted, Owing, Fresh, Planned, Cleared, OwedTags, OwedBranches, Previous,
        Want, Declared
  <2> QED BY <2>1, <2>2 DEF ForgetStep
<1> QED
  BY <1>1, <1>2, <1>3, <1>4 DEF Next

\* What was found in order is, at all times.
LEMMA TestedAlways ==
  ASSUME Heedful, ~ArchivedUnreadable
  PROVE  Spec => [](EmptyInv /\ SightInv /\ TestedInv)
<1>1. Spec => []EmptyInv
  BY EmptyAlways
<1>2. Init => SightInv /\ TestedInv
  <2> SUFFICES ASSUME Init
               PROVE  SightInv /\ TestedInv
    OBVIOUS
  <2>1. /\ \A n \in Names : repo[n] = Blank /\ visible[n]
        /\ phase = "idle" /\ cmd = "none" /\ exit = "failed"
    BY DEF Init, CommandInit
  <2>2. ~Blank.pending
    BY DEF Blank
  <2> QED
    BY <2>1, <2>2 DEF SightInv, Holding, Hidden, Late, TestedInv, FoundThere, Vouched
<1>3. EmptyInv /\ SightInv /\ [Next]_vars => SightInv'
  BY SightStep
<1>4. EmptyInv /\ SightInv /\ TestedInv /\ [Next]_vars => TestedInv'
  BY TestedStep
<1> QED
  BY <1>1, <1>2, <1>3, <1>4, PTL DEF Spec

\* The old lock goes only when nothing is left of what it names and the fleet does
\* not: provided that archived repositories can be read, that no settings write that
\* saves a whole row outlives its command, and, where forges reflect pushes later,
\* that tests and the author wait for that and every repository is declared with
\* content.
THEOREM LockForgets ==
  ASSUME ~ArchivedUnreadable, SavesRow => ~SlowSaves,
         Background \/ SavesRow => People # "hasty" /\ NoEmpties
  PROVE  Spec => LockForgetsNothing
<1>1. Watchful
  BY DEF Watchful
<1>2. Spec => [](EmptyInv /\ SightInv /\ TestedInv)
  BY TestedAlways DEF Heedful
<1>3. Init => DebtInv
  <2> SUFFICES ASSUME Init PROVE DebtInv
    OBVIOUS
  <2>1. (\A n \in Names : change[n] = Nothing) /\ phase = "idle" /\ lock = 0
    BY DEF Init, CommandInit
  <2>2. \A n \in Names : Noted(n)
    <3>1. Nothing.staleTags = {} /\ Nothing.staleBranches = {}
      BY DEF Nothing
    <3> QED BY <2>1, <3>1 DEF Noted
  <2>3. \A n \in Declared : Owing(n) /\ Fresh(n)
    BY <2>1 DEF Owing, Fresh, Cleared, OwedTags, OwedBranches, Previous
  <2> QED BY <2>2, <2>3 DEF DebtInv
<1>4. /\ EmptyInv /\ EmptyInv' /\ SightInv /\ SightInv' /\ TestedInv /\ DebtInv
      /\ [Next]_vars
      => DebtInv' /\ [ForgetStep]_vars
  BY <1>1, DebtStep
<1>5. Spec => [][ForgetStep]_vars
  BY <1>2, <1>3, <1>4, PTL DEF Spec
<1> QED
  BY <1>5, PTL DEF LockForgetsNothing, ForgetStep

-----------------------------------------------------------------------------
(* The lock is written when everything is applied                          *)
(*                                                                         *)
(* apply reads a repository once, before it works on any, and settles what *)
(* differed then.  So what it read has to stay true until it is written: no *)
(* earlier write may land, and the forge may change nothing by itself.     *)

Lifting == {"unarchive", "unarchiving"}

Pushing == {"push", "lift", "push again"}

Unsettled == {"pushed", "wait", "settings"}

Finishing == {"topics", "stale refs", "archive", "archiving"}

\* What does not answer yet has seen no settings write.
Young(n) == ~visible[n] => ~repo[n].archived /\ ~patch[n].busy

\* What is to be written to has answered: where it was just created, its push has.
Answered(n) ==
  \/ phase = "plan" /\ n \in Declared /\ task[n] = "done" /\ ~change[n].create
  \/ phase = "survey" /\ state[n].drift
  \/ phase = "reset" /\ task[n] \notin {"done", "failed"}
  \/ /\ phase \in {"apply", "settle"}
     /\ task[n] \in Lifting \cup Unsettled \cup Finishing \cup {"recheck", "saving"}
  => visible[n]

WaitInv ==
  CourseInv /\ \A n \in Names : Awaited(n) /\ Late(repo[n]) /\ Young(n) /\ Answered(n)

\* A task goes on to write only where it had an answer.
LEMMA TaskAnswered ==
  ASSUME CourseInv, NEW n \in Names, RunTask(n), Answered(n)
  PROVE  Answered(n)'
<1>0. /\ task \in [Names -> Tasks] /\ visible \in [Names -> BOOLEAN]
      /\ change \in [Names -> Changes] /\ state \in [Names -> States]
      /\ task[n] \in Stages(phase) /\ phase \in Phases /\ n \in Declared
      /\ phase \in {"plan", "apply", "settle"} => cmd = "apply"
      /\ phase \in {"survey", "reset"} => cmd = "reset"
      /\ UNCHANGED <<fleet, phase>> /\ task[n] \notin {"done", "failed"}
      /\ visible' = visible \/ CreateLands(n)
  BY TaskAside, TaskDeclared, TaskBusy, TaskVisible
  DEF CourseInv, Course, InStage, OwnInv, TypeInv, TypeOK, CommandTypeOK, ForgeTypeOK, diskVars,
      runVars
<1>6. CASE CreateLands(n)
  <2>1. phase = "apply" /\ task'[n] \in {"label", "landed?"}
    BY <1>0, <1>6 DEF CreateLands, Goes, Stages, Seeds, Settling, Phases
  <2> QED
    BY <1>0, <2>1 DEF Answered, Lifting, Unsettled, Finishing
<1>7. visible[n] => Answered(n)' \/ CreateLands(n)
  BY <1>0 DEF Answered
<1> USE DEF Goes, Ends
<1>1. CASE phase = "plan"
  <2>1. task[n] = "diff" /\ ~ResetTask(n)
    BY <1>0, <1>1, ResetTaskResets DEF Stages
  <2>2. task'[n] = "done" => Diff(n)
    BY <1>0, <2>1
    DEF RunTask, CommandTask, StepFails, ForcePushErrs, Lift, Unarchive, Archive, Archived,
        Replied, Await, AwaitTimesOut, Compare, CompareBelievesMissing, ApplyTask, CreateLands,
        CreateErrs, CreateConflicts, CheckLanded, Adopt, Label, Appear, Unarchived, Recheck,
        PushSeed, ForcePush, ReadBack, WaitPushed, WaitPushedTimesOut, Settle, Settled,
        SetTopics, DeleteStaleRefs
  <2>3. Diff(n) /\ task'[n] = "done" /\ ~change'[n].create => visible[n]
    BY <1>0 DEF Diff, Creation, Lookup
  <2> QED
    BY <1>0, <1>1, <1>6, <1>7, <2>2, <2>3 DEF Answered
<1>2. CASE phase = "survey"
  <2>1. state'[n].drift => state[n].drift \/ visible[n]
    BY <1>0, <1>2, TaskCompares, UncheckedType DEF Compare, CompareBelievesMissing, StepFails
  <2> QED
    BY <1>0, <1>2, <1>6, <1>7, <2>1 DEF Answered
<1>3. CASE phase = "reset"
  BY <1>0, <1>3, <1>6, <1>7 DEF Answered
<1>4. CASE phase \in {"apply", "settle"}
  <2> DEFINE Writes(t) == t \in Lifting \cup Unsettled \cup Finishing \cup {"recheck", "saving"}
  <2>1. ~ResetTask(n)
    BY <1>0, <1>4, ResetTaskResets
  <2>2. Writes(task'[n]) => visible[n] \/ Writes(task[n])
    <3>1. CASE CommandTask(n)
      BY <1>0, <1>4, <3>1
      DEF CommandTask, StepFails, ForcePushErrs, Lift, Unarchive, Archive, Archived, Replied,
          Await, AwaitTimesOut, GivesUp, Compare, CompareBelievesMissing, Lifting, Unsettled,
          Finishing
    <3>2. CASE Diff(n) \/ CreateLands(n) \/ CreateErrs(n) \/ CreateConflicts(n)
               \/ CheckLanded(n) \/ Adopt(n) \/ Label(n) \/ Appear(n) \/ Unarchived(n)
               \/ Recheck(n)
      BY <1>0, <1>4, <3>2
      DEF Diff, CreateLands, CreateErrs, CreateConflicts, CheckLanded, Adopt, Recognise,
          Label, Appear, Unarchived, Seeding, Replied, Recheck, Lifting, Unsettled, Finishing
    <3>3. CASE PushSeed(n) \/ ReadBack(n) \/ WaitPushed(n) \/ WaitPushedTimesOut(n)
               \/ Settle(n) \/ Settled(n) \/ SetTopics(n) \/ DeleteStaleRefs(n)
      BY <1>0, <1>4, <3>3
      DEF PushSeed, ForcePush, ReadBack, WaitPushed, WaitPushedTimesOut, GivesUp, Settle,
          Settled, Replied, SetTopics, DeleteStaleRefs, Lifting, Unsettled, Finishing
    <3> QED BY <2>1, <3>1, <3>2, <3>3 DEF RunTask, ApplyTask
  <2> QED
    BY <1>0, <1>4, <1>6, <1>7, <2>2 DEF Answered
<1>5. CASE phase \notin {"plan", "survey", "reset", "apply", "settle"}
  BY <1>0, <1>5 DEF Answered
<1> QED
  BY <1>1, <1>2, <1>3, <1>4, <1>5

\* A push is all that a task has the forge reflect later.
LEMMA TaskLate ==
  ASSUME CourseInv, NEW n \in Names, RunTask(n)
  PROVE  repo'[n].pending => repo[n].pending \/ Background
<1>1. repo[n] \in Repos
  BY DEF CourseInv, OwnInv, TypeInv, TypeOK, ForgeTypeOK
<1>2. ASSUME \E b, t : repo'[n] = Pushed(repo[n], b, t)
      PROVE  repo'[n].pending => repo[n].pending \/ Background
  BY <1>1, <1>2, PushedKnown
<1> QED
  BY <1>2, TaskRepo DEF Milder

\* A settings write is sent where there was an answer, and a creation is none.
LEMMA TaskYoung ==
  ASSUME WaitInv, NEW n \in Names, RunTask(n)
  PROVE  Young(n)'
<1>0. /\ repo[n] \in Repos /\ repo \in [Names -> Repos] /\ visible \in [Names -> BOOLEAN]
      /\ CourseInv /\ Young(n) /\ Answered(n) /\ task[n] \in Stages(phase) /\ phase \in Phases
      /\ owner[n] = "nobody" => ~patch[n].busy
  BY DEF WaitInv, CourseInv, Course, InStage, OwnInv, LeftAlone, NotOurs, Harmless, TypeInv,
         TypeOK, CommandTypeOK, ForgeTypeOK
<1>1. CASE CreateLands(n)
  <2>1. patch' = patch /\ owner[n] = "nobody"
    BY <1>1 DEF CreateLands, ForgeCreates
  <2>2. ~repo'[n].archived
    <3>1. \E b \in Branches, t \in Topics : repo'[n] = NewRepo(Want(n), b, t)
      BY <1>0, <1>1 DEF CreateLands, ForgeCreates
    <3> QED BY <3>1 DEF NewRepo
  <2> QED BY <1>0, <2>1, <2>2 DEF Young
<1>2. CASE visible' = visible /\ ~visible[n]
  <2>1. task[n] \notin {"unarchive", "settings", "archive"}
    BY <1>0, <1>2 DEF Answered, Lifting, Unsettled, Finishing, Stages, Phases
  <2>2. patch'[n] = patch[n]
    BY <1>0, <2>1, TaskPatch
  <2>3. ASSUME \E b, t : repo'[n] = Pushed(repo[n], b, t)
        PROVE  repo'[n].archived = repo[n].archived
    BY <1>0, <2>3, PushedKnown
  <2>4. ~repo'[n].archived
    BY <1>0, <1>2, <2>3, TaskRepo DEF Young, Milder
  <2> QED BY <1>0, <1>2, <2>2, <2>4 DEF Young
<1>3. CASE visible' = visible /\ visible[n]
  BY <1>3 DEF Young
<1> QED
  BY <1>1, <1>2, <1>3, TaskVisible

\* A task keeps all that.
LEMMA TaskWait ==
  ASSUME WaitInv, NEW n \in Names, RunTask(n)
  PROVE  \A m \in Names : Awaited(m)' /\ Late(repo[m])' /\ Young(m)' /\ Answered(m)'
<1>0. /\ CourseInv /\ Aside(n) /\ UNCHANGED <<fleet, cmd, phase>>
      /\ \A m \in Names \ {n} : visible'[m] = visible[m]
  <2>1. \A m \in Names \ {n} : visible'[m] = visible[m]
    BY TaskVisible
    DEF CreateLands, ForgeCreates, WaitInv, CourseInv, OwnInv, TypeInv, TypeOK, ForgeTypeOK
  <2> QED
    BY <2>1, TaskAside DEF WaitInv, CourseInv, OwnInv, diskVars, runVars
<1>1. ASSUME NEW m \in Names, m # n
      PROVE  Awaited(m)' /\ Late(repo[m])' /\ Young(m)' /\ Answered(m)'
  BY <1>0, <1>1 DEF WaitInv, Aside, Awaited, Late, Young, Answered, Declared
<1>2. Awaited(n)' /\ Young(n)' /\ Answered(n)'
  BY <1>0, TaskAwaited, TaskYoung, TaskAnswered DEF WaitInv
<1>3. Late(repo[n])'
  BY <1>0, TaskLate DEF WaitInv, Late
<1> QED
  BY <1>1, <1>2, <1>3

\* So do the forge and others.
LEMMA BesideWait ==
  ASSUME WaitInv, NEW n \in Names, Forges(n) \/ Others(n)
  PROVE  \A m \in Names : Awaited(m)' /\ Late(repo[m])' /\ Young(m)' /\ Answered(m)'
<1>0. /\ UNCHANGED <<fleet, cmd, phase, task, change, state>>
      /\ \A m \in Names \ {n} : /\ repo'[m] = repo[m] /\ patch'[m] = patch[m]
                                /\ visible'[m] = visible[m]
      /\ visible[n] => visible'[n]
      /\ patch'[n].busy => patch[n].busy
      /\ repo[n] \in Repos /\ repo \in [Names -> Repos] /\ visible \in [Names -> BOOLEAN]
      /\ Awaited(n) /\ Late(repo[n]) /\ Young(n) /\ Answered(n)
  BY DEF WaitInv, CourseInv, OwnInv, TypeInv, TypeOK, ForgeTypeOK, Forges, Saves, ForgeSaves,
         Reflects, ForgeReflects, Answers, ForgeAnswers, Others, TestEdits, UserDeletes,
         StrangerCreates, Write, NoPatch, diskVars, commandVars, runVars, poolVars
<1>1. ASSUME NEW m \in Names, m # n
      PROVE  Awaited(m)' /\ Late(repo[m])' /\ Young(m)' /\ Answered(m)'
  BY <1>0, <1>1 DEF WaitInv, Awaited, Late, Young, Answered, Declared
<1>2. Awaited(n)' /\ Answered(n)'
  BY <1>0 DEF Awaited, Answered, Declared
<1>3. Late(repo[n])' /\ Young(n)'
  <2>1. CASE Saves(n)
    <3>1. Saved(n).pending = repo[n].pending
      BY <1>0 DEF Saved, Relaxed, Repos
    <3> QED
      BY <1>0, <2>1, <3>1 DEF Saves, ForgeSaves, Late, Young
  <2>2. CASE Reflects(n)
    <3>1. ~repo'[n].pending /\ repo'[n].archived = repo[n].archived
      BY <1>0, <2>2 DEF Reflects, ForgeReflects, Begun, Repos
    <3> QED
      BY <1>0, <2>2, <3>1 DEF Reflects, ForgeReflects, Late, Young
  <2>3. CASE Answers(n)
    BY <1>0, <2>3 DEF Answers, ForgeAnswers, Late, Young
  <2>4. CASE UserDeletes(n) \/ StrangerCreates(n)
    <3>1. repo'[n] = Blank /\ ~Blank.pending /\ visible'[n]
      BY <1>0, <2>4 DEF UserDeletes, StrangerCreates, Blank
    <3> QED
      BY <3>1 DEF Late, Young
  <2>5. CASE TestEdits(n)
    <3>1. repo'[n].pending => repo[n].pending \/ Background
      <4>1. \/ ~repo[n].archived /\ repo'[n] \in RepoEdits(repo[n])
            \/ repo'[n] = [repo[n] EXCEPT !.archived = FALSE]
        BY <1>0, <2>5 DEF TestEdits, Write
      <4>2. CASE repo'[n] = [repo[n] EXCEPT !.archived = FALSE]
        BY <1>0, <4>2 DEF Repos
      <4>3. CASE ~repo[n].archived /\ repo'[n] \in RepoEdits(repo[n])
        BY <1>0, <4>3, RepoEditsRow
      <4> QED BY <4>1, <4>2, <4>3
    <3>2. visible'[n]
      BY <2>5 DEF TestEdits, Write
    <3> QED
      BY <1>0, <3>1, <3>2 DEF Late, Young
  <2> QED BY <2>1, <2>2, <2>3, <2>4, <2>5 DEF Forges, Others
<1> QED
  BY <1>1, <1>2, <1>3

\* A step that touches no repository keeps it if it starts no task where there was no
\* answer, and none but an earlier command's write is under way.
LEMMA RunWait ==
  ASSUME ~SlowSaves, WaitInv, RunStep \/ RunApply \/ RunVerify \/ RunReset \/ Kill \/ EditFleet
  PROVE  \A m \in Names : Awaited(m)' /\ Late(repo[m])' /\ Young(m)' /\ Answered(m)'
<1>0. /\ UNCHANGED forgeVars /\ CourseInv /\ (cmd = "none" <=> phase = "idle")
      /\ \A m \in Names : Awaited(m) /\ Late(repo[m]) /\ Young(m) /\ Answered(m)
      /\ Declared \subseteq Names
      /\ PhaseOver /\ AllWell => \A n \in Names : task[n] = "done"
      /\ cmd = "none" => \A n \in Names : state[n] = Unchecked
      /\ phase \in {"plan", "apply", "settle"} => cmd = "apply"
      /\ phase \in {"survey", "reset"} => cmd = "reset"
  BY FleetsAssumption
  DEF WaitInv, CourseInv, Course, InStage, OwnInv, TypeInv, TypeOK, CommandTypeOK, Declared,
      RunStep, CommandStep, Abort, StartCheck, EndCheck, ApplyStep, StartWork, StartSettle,
      WriteLock, ResetStep, StartRepairs, StartReady, RunApply, StartApply, RunVerify,
      StartVerify, RunReset, StartReset, Refuse, Kill, EditFleet, PhaseOver, AllWell
<1>1. \A m \in Names : Late(repo[m])' /\ Young(m)'
  BY <1>0 DEF Late, Young, forgeVars
<1>2. ASSUME cmd' = "none", phase' = "idle"
      PROVE  \A m \in Names : Awaited(m)' /\ Answered(m)'
  BY <1>2 DEF Awaited, Answered, Comparing
<1>3. CASE Abort \/ EndCheck \/ Kill \/ EditFleet \/ (StartSettle /\ ~AllWell)
           \/ (StartRepairs /\ Verdict # "drift")
  BY <1>0, <1>1, <1>2, <1>3
  DEF Abort, EndCheck, Kill, EditFleet, StartSettle, StartRepairs, Finish, Quiet, commandVars,
      runVars
<1>4. CASE RunApply \/ RunVerify \/ RunReset
  <2>1. /\ cmd = "none" /\ \A m \in Names : ~patch[m].busy
        /\ UNCHANGED <<fleet, change, state>>
        /\ phase' \in {"idle", "plan", "check", "survey"}
        /\ phase' = "plan" => task' = Each(Declared, "diff")
    BY <1>0, <1>4
    DEF RunApply, StartApply, RunVerify, StartVerify, RunReset, StartReset, Refuse, Served,
        diskVars
  <2>2. \A m \in Names : ~Unchecked.drift /\ Awaited(m)'
    BY <1>0, <2>1, UncheckedType DEF Awaited, forgeVars
  <2>3. \A m \in Names : Answered(m)'
    BY <1>0, <2>1, <2>2 DEF Answered, Each, Declared
  <2> QED BY <1>1, <2>2, <2>3
<1>5. CASE StartWork \/ StartCheck \/ WriteLock \/ StartReady \/ (StartRepairs /\ Verdict = "drift")
  <2>1. /\ \A m \in Names : task[m] = "done"
        /\ UNCHANGED <<cmd, fleet, change, state>> /\ cmd # "none"
    BY <1>0, <1>5
    DEF StartWork, StartCheck, WriteLock, StartReady, StartRepairs, Enter, diskVars
  <2>2. \A m \in Names : ~patch[m].busy
    BY <1>0, <2>1 DEF Awaited, AwaitingReply
  <2>3. \A m \in Names : Awaited(m)'
    BY <1>0, <2>2 DEF Awaited, forgeVars
  <2>4. CASE StartWork
    <3>1. phase = "plan" /\ phase' = "apply"
      BY <2>4 DEF StartWork, Enter
    <3>2. ASSUME NEW m \in Names, task'[m] # "done"
          PROVE  \/ task'[m] \in Creating \cup Pushing
                 \/ visible[m]
      <4>1. /\ m \in Declared /\ task'[m] = FirstStep(m)
            /\ task'[m] \in {"create", "unarchive", "recheck", "push", "pushed"}
        BY <2>4, <3>2 DEF StartWork, Enter, FirstStep, Seeding
      <4>2. CASE change[m].create
        BY <4>1, <4>2 DEF FirstStep, Creating
      <4>3. CASE ~change[m].create
        BY <1>0, <2>1, <3>1, <4>1, <4>3 DEF Answered
      <4> QED BY <4>2, <4>3
    <3>3. \A m \in Names : Answered(m)'
      BY <1>0, <3>1, <3>2
      DEF Answered, Creating, Pushing, Lifting, Unsettled, Finishing, forgeVars
    <3> QED BY <1>1, <2>3, <3>3
  <2>5. CASE StartRepairs
    <3>1. phase = "survey" /\ phase' = "reset" /\ \A m \in Names \ Drifted : task'[m] = "done"
      BY <1>5, <2>1, <2>5 DEF StartRepairs, Enter, StartWork, StartCheck, WriteLock, StartReady
    <3>2. \A m \in Names : task'[m] # "done" => visible[m]
      BY <1>0, <3>1 DEF Answered, Drifted
    <3>3. \A m \in Names : Answered(m)'
      BY <1>0, <3>1, <3>2 DEF Answered, forgeVars
    <3> QED BY <1>1, <2>3, <3>3
  <2>6. CASE StartCheck \/ WriteLock \/ StartReady
    <3>1. phase' \in {"check", "ready"}
      BY <2>6 DEF StartCheck, WriteLock, StartReady, Enter
    <3>2. \A m \in Names : Answered(m)'
      BY <3>1 DEF Answered
    <3> QED BY <1>1, <2>3, <3>2
  <2> QED BY <1>5, <2>4, <2>5, <2>6
<1>6. CASE StartSettle /\ AllWell
  <2>1. /\ cmd = "apply" /\ phase = "apply" /\ phase' = "settle" /\ cmd' = cmd
        /\ \A m \in Names : task[m] \in {"pushed", "done"}
        /\ \A m \in Names : task'[m] = IF task[m] = "pushed" THEN "wait" ELSE "done"
    BY <1>6 DEF StartSettle, PushesOver, AllWell, Enter
  <2>2. \A m \in Names : Awaited(m)'
    BY <1>0, <2>1 DEF Awaited, AwaitingReply, Comparing, forgeVars
  <2>3. \A m \in Names : Answered(m)'
    BY <1>0, <2>1 DEF Answered, Unsettled, Finishing, Lifting, forgeVars
  <2> QED BY <1>1, <2>2, <2>3
<1> QED
  BY <1>3, <1>4, <1>5, <1>6 DEF RunStep, CommandStep, ApplyStep, ResetStep

\* Nothing is ever written to what has not answered.
LEMMA WaitAlways ==
  ASSUME ~SlowSaves
  PROVE  Spec => []WaitInv
<1>1. Init => WaitInv
  <2> SUFFICES ASSUME Init PROVE \A n \in Names : Awaited(n) /\ Late(repo[n]) /\ Young(n)
                                                  /\ Answered(n)
    BY CourseInit DEF WaitInv
  <2>1. /\ \A n \in Names : repo[n] = Blank /\ visible[n] /\ patch[n] = NoPatch
        /\ phase = "idle" /\ cmd = "none"
    BY DEF Init, CommandInit
  <2>2. ~Blank.pending /\ ~NoPatch.busy
    BY DEF Blank, NoPatch
  <2> QED
    BY <2>1, <2>2 DEF Awaited, Late, Young, Answered
<1>2. WaitInv /\ [Next]_vars => WaitInv'
  <2> SUFFICES ASSUME WaitInv, [Next]_vars
               PROVE  \A n \in Names : Awaited(n)' /\ Late(repo[n])' /\ Young(n)' /\ Answered(n)'
    BY CourseStep DEF WaitInv
  <2>1. CASE UNCHANGED vars
    BY <2>1
    DEF WaitInv, Awaited, Late, Young, Answered, Declared, vars, forgeVars, diskVars, runVars,
        poolVars
  <2> QED
    BY <2>1, TaskWait, BesideWait, RunWait DEF Next
<1> QED
  BY <1>1, <1>2, PTL DEF Spec

\* What a plan never says: to ask again for the seed of a repository that can be read, or
\* to delete a ref the fleet declares.
Spares(n) ==
  /\ change[n].staleTags \cap (Want(n).tags \cup {Baseline}) = {}
  /\ Want(n).default \notin change[n].staleBranches

PlanInv ==
  /\ \A n \in Names : ~change[n].recheck
  /\ \A n \in Declared : Spares(n)

\* Nothing planned is such a plan.
LEMMA NothingPlanned ==
  /\ ~Nothing.recheck
  /\ Nothing.staleTags = {} /\ Nothing.staleBranches = {}
BY DEF Nothing

\* So is a creation, and a difference.
LEMMA DiffSpares ==
  ASSUME ~ArchivedUnreadable, CourseInv, NEW n \in Declared, Diff(n)
  PROVE  change'[n] # change[n] => ~change'[n].recheck /\ Spares(n)'
<1>0. /\ change \in [Names -> Changes] /\ n \in Names /\ Want(n)' = Want(n)
      /\ \A p \in Previous(n) : Baseline \notin p.tags
  BY WantType, PreviousTags
  DEF CourseInv, OwnInv, TypeInv, TypeOK, CommandTypeOK, Diff, diskVars, Want
<1>1. CASE change'[n] = Creation(Want(n))
  BY <1>0, <1>1 DEF Creation, Spares
<1>2. CASE change'[n] = DiffOne(Want(n), repo[n], Previous(n))
  <2> DEFINE c == DiffOne(Want(n), repo[n], Previous(n))
  <2>1. /\ ~c.recheck
        /\ c.staleTags \subseteq (UNION {p.tags : p \in Previous(n)}) \ Want(n).tags
        /\ c.staleBranches \subseteq {p.default : p \in Previous(n)} \ {Want(n).default}
    BY DEF DiffOne, Unreadable
  <2> HIDE DEF c
  <2> QED BY <1>0, <1>2, <2>1 DEF Spares, c
<1> QED
  BY <1>0, <1>1, <1>2 DEF Diff

\* Plans stay so.
LEMMA PlanStep == ~ArchivedUnreadable /\ CourseInv /\ PlanInv /\ [Next]_vars => PlanInv'
<1> SUFFICES ASSUME ~ArchivedUnreadable, CourseInv, PlanInv, [Next]_vars
             PROVE  PlanInv'
  OBVIOUS
<1>0. /\ TypeInv /\ change \in [Names -> Changes] /\ Declared \subseteq Names
      /\ cmd = "none" => \A n \in Names : change[n] = Nothing
  BY FleetsAssumption
  DEF CourseInv, Course, InStage, OwnInv, TypeInv, TypeOK, CommandTypeOK, Declared
<1>1. ASSUME fleet' = fleet,
             \A n \in Names : /\ change'[n].recheck => change[n].recheck
                              /\ change'[n].staleTags \subseteq change[n].staleTags
                              /\ change'[n].staleBranches \subseteq change[n].staleBranches
      PROVE  PlanInv'
  BY <1>0, <1>1 DEF PlanInv, Spares, Declared, Want
<1>2. ASSUME fleet' \in DOMAIN Fleets, \A n \in Names : change'[n] = Nothing
      PROVE  PlanInv'
  <2>1. Declared' \subseteq Names
    BY <1>2, FleetsAssumption DEF Declared
  <2> QED
    BY <1>2, <2>1, NothingPlanned DEF PlanInv, Spares
<1>3. ASSUME NEW n \in Names, RunTask(n)
      PROVE  PlanInv'
  <2>1. /\ n \in Declared /\ fleet' = fleet
        /\ \A m \in Names \ {n} : change'[m] = change[m]
    BY <1>0, <1>3, TaskDeclared, TaskAside DEF diskVars, Aside
  <2>2. CASE Diff(n) /\ change'[n] # change[n]
    <3>1. ~change'[n].recheck /\ Spares(n)'
      BY <2>1, <2>2, DiffSpares
    <3> QED
      BY <1>0, <2>1, <3>1 DEF PlanInv, Spares, Declared, Want
  <2>3. CASE ~(Diff(n) /\ change'[n] # change[n])
    <3>1. /\ change'[n].recheck = change[n].recheck
          /\ change'[n].staleTags = change[n].staleTags
          /\ change'[n].staleBranches = change[n].staleBranches
      BY <1>0, <1>3, <2>3, TaskPlans
    <3> QED
      BY <1>1, <2>1, <3>1
  <2> QED BY <2>2, <2>3
<1>4. ASSUME NEW n \in Names, Forges(n) \/ Others(n)
      PROVE  PlanInv'
  BY <1>1, <1>4
  DEF Forges, Saves, Reflects, Answers, Others, TestEdits, UserDeletes, StrangerCreates,
      diskVars, commandVars
<1>5. CASE StartSettle /\ AllWell
  <2>1. \A n \in Names : /\ change'[n].recheck = change[n].recheck
                         /\ change'[n].staleTags = change[n].staleTags
                         /\ change'[n].staleBranches = change[n].staleBranches
    BY <1>0, <1>5 DEF StartSettle, Changes
  <2> QED
    BY <1>1, <1>5, <2>1 DEF StartSettle, diskVars
<1>6. CASE Abort \/ EndCheck \/ Kill \/ (StartSettle /\ ~AllWell)
           \/ (StartRepairs /\ Verdict # "drift")
  BY <1>0, <1>2, <1>6
  DEF Abort, EndCheck, Kill, StartSettle, StartRepairs, Finish, diskVars, TypeInv, TypeOK,
      CommandTypeOK
<1>7. CASE StartWork \/ StartCheck \/ WriteLock \/ StartReady \/ (StartRepairs /\ Verdict = "drift")
           \/ RunApply \/ RunVerify \/ RunReset
  BY <1>1, <1>7
  DEF StartWork, StartCheck, WriteLock, StartReady, StartRepairs, RunApply, StartApply,
      RunVerify, StartVerify, RunReset, StartReset, Refuse, diskVars
<1>8. CASE EditFleet
  BY <1>0, <1>2, <1>8 DEF EditFleet, Quiet, commandVars
<1>9. CASE UNCHANGED vars
  BY <1>1, <1>9 DEF vars, diskVars
<1> QED
  BY <1>3, <1>4, <1>5, <1>6, <1>7, <1>8, <1>9
  DEF Next, RunStep, CommandStep, ApplyStep, ResetStep

\* Only a push, a creation and the deletion of stale refs change refs in an apply.
LEMMA ApplyTaskRefs ==
  ASSUME CourseInv, NEW n \in Names, ApplyTask(n)
  PROVE  \/ SameRefs(repo[n], repo'[n])
         \/ CreateLands(n) \/ PushSeed(n) \/ DeleteStaleRefs(n)
<1>1. repo \in [Names -> Repos] /\ repo[n] \in Repos
  BY DEF CourseInv, OwnInv, TypeInv, TypeOK, ForgeTypeOK
<1>2. CASE Label(n) \/ SetTopics(n)
  <2>1. repo' = repo \/ repo'[n] = [repo[n] EXCEPT !.topics = Want(n).topics]
    BY <1>1, <1>2 DEF Label, SetTopics, Write, forgeVars
  <2> QED BY <1>1, <2>1 DEF SameRefs, Repos
<1>3. CASE Diff(n) \/ CreateErrs(n) \/ CreateConflicts(n) \/ CheckLanded(n) \/ Adopt(n)
           \/ Appear(n) \/ Unarchived(n) \/ Recheck(n) \/ ReadBack(n) \/ WaitPushed(n)
           \/ WaitPushedTimesOut(n) \/ Settle(n) \/ Settled(n)
  BY <1>3
  DEF Diff, CreateErrs, CreateConflicts, CheckLanded, Adopt, Appear, Unarchived, Replied,
      Recheck, ReadBack, WaitPushed, WaitPushedTimesOut, GivesUp, Settle, Settled,
      ForgeReadsRow, forgeVars, SameRefs
<1> QED
  BY <1>2, <1>3 DEF ApplyTask

\* The deletion of stale refs spares what is declared, and touches no setting.
LEMMA DeleteStaleSpares ==
  ASSUME CourseInv, NEW n \in Declared, DeleteStaleRefs(n), Spares(n)
  PROVE  /\ repo'[n].branches[Want(n).default] = repo[n].branches[Want(n).default]
         /\ \A t \in Want(n).tags \cup {Baseline} : repo'[n].tags[t] = repo[n].tags[t]
         /\ repo'[n].visibility = repo[n].visibility /\ repo'[n].topics = repo[n].topics
         /\ repo'[n].archived = repo[n].archived /\ repo'[n].default = repo[n].default
<1>0. /\ repo \in [Names -> Repos] /\ repo[n] \in Repos /\ n \in Names
      /\ Want(n).default \in Branches /\ Want(n).tags \cup {Baseline} \subseteq AllTags
  BY WantType DEF CourseInv, OwnInv, TypeInv, TypeOK, ForgeTypeOK, Wants, AllTags
<1> DEFINE kept == [b \in Branches |-> IF b \in change[n].staleBranches THEN NoCommit
                                       ELSE repo[n].branches[b]]
           tagged == [t \in AllTags |-> IF t \in change[n].staleTags THEN NoCommit
                                        ELSE repo[n].tags[t]]
<1>1. /\ kept[Want(n).default] = repo[n].branches[Want(n).default]
      /\ \A t \in Want(n).tags \cup {Baseline} : tagged[t] = repo[n].tags[t]
  BY <1>0 DEF Spares
<1>2. \/ repo' = repo
      \/ \E requests : repo'[n] = [repo[n] EXCEPT
            !.tags = tagged, !.branches = kept, !.requests = requests]
  BY <1>0 DEF DeleteStaleRefs, Write, forgeVars
<1> HIDE DEF kept, tagged
<1> QED
  BY <1>0, <1>1, <1>2 DEF Repos

\* A push that changes no settings: the default branch may be the first one pushed, where
\* there was none.
LEMMA PushedSettings ==
  ASSUME NEW r \in Repos, NEW b \in Refs(Branches), NEW t \in Refs(AllTags)
  PROVE  /\ Pushed(r, b, t).visibility = r.visibility
         /\ Pushed(r, b, t).topics = r.topics
         /\ Pushed(r, b, t).archived = r.archived
         /\ r.default \in Has(b) => Pushed(r, b, t).default = r.default
<1> DEFINE s == [r EXCEPT !.branches = b, !.tags = t]
<1>1. /\ s.visibility = r.visibility /\ s.topics = r.topics /\ s.archived = r.archived
      /\ s.default = r.default /\ s.branches = b
  BY DEF Repos
<1>2. /\ Begun(s).visibility = s.visibility /\ Begun(s).topics = s.topics
      /\ Begun(s).archived = s.archived
      /\ s.default \in Has(s.branches) => Begun(s).default = s.default
  BY DEF Begun, Repos
<1>3. LET p == [s EXCEPT !.pending = TRUE]
      IN p.visibility = s.visibility /\ p.topics = s.topics /\ p.archived = s.archived
         /\ p.default = s.default
  BY DEF Repos
<1> HIDE DEF s
<1> QED
  BY <1>1, <1>2, <1>3 DEF Pushed, s

\* Where the declared default branch is, and every declared tag.
SeedThere(n) ==
  ~Want(n).empty =>
    /\ repo[n].branches[Want(n).default] # NoCommit
    /\ \A t \in Want(n).tags \cup {Baseline} : repo[n].tags[t] = Want(n).baseline

\* A push of the seed brings it there, or is refused at the branch that is there.
LEMMA PushSeedLands ==
  ASSUME CourseInv, NEW n \in Declared, PushSeed(n)
  PROVE  /\ repo'[n] = repo[n] \/ repo'[n].branches[Want(n).default] # NoCommit
         /\ repo[n].branches[Want(n).default] # NoCommit
              => repo'[n].branches[Want(n).default] # NoCommit
         /\ task'[n] = "pushed" => SeedThere(n)'
         /\ repo'[n].visibility = repo[n].visibility /\ repo'[n].topics = repo[n].topics
         /\ repo'[n].archived = repo[n].archived
         /\ repo[n].default = Want(n).default => repo'[n].default = Want(n).default
         /\ task'[n] = "pushed" => ~repo[n].archived
<1> DEFINE tags == Want(n).tags \cup {Baseline}
           c == Want(n).baseline
           d == Want(n).default
           moved == Retagged(repo[n], c, tags)
           ahead == [repo[n].branches EXCEPT ![d] = c]
<1>0. /\ repo \in [Names -> Repos] /\ repo[n] \in Repos /\ n \in Names
      /\ c \in Commits /\ c # NoCommit /\ d \in Branches /\ tags \subseteq AllTags
      /\ Want(n)' = Want(n) /\ task \in [Names -> Tasks]
  BY WantType, RefsAssumption
  DEF CourseInv, OwnInv, TypeInv, TypeOK, CommandTypeOK, ForgeTypeOK, Wants, AllTags, PushSeed,
      ForcePush, diskVars, Want
<1>1. /\ ahead \in Refs(Branches) /\ moved \in Refs(AllTags)
      /\ repo[n].branches \in Refs(Branches) /\ repo[n].branches[d] = repo[n].branches[d]
      /\ ahead[d] = c /\ \A t \in tags : moved[t] = c
  BY <1>0 DEF Repos, Refs, Retagged
<1>2. \/ /\ repo'[n] = Pushed(repo[n], ahead, moved)
         /\ task'[n] = "pushed" /\ ~repo[n].archived
      \/ /\ repo'[n] = Pushed(repo[n], repo[n].branches, moved)
         /\ repo[n].branches[d] # NoCommit /\ task'[n] # "pushed"
      \/ repo'[n] = repo[n] /\ task'[n] # "pushed"
  BY <1>0
  DEF PushSeed, ForcePush, Write, PushRefs, PushTags, Retagged, forgeVars, Goes, Ends
<1> HIDE DEF ahead, moved
<1>3. ASSUME NEW b \in Refs(Branches), repo'[n] = Pushed(repo[n], b, moved), b[d] # NoCommit,
             task'[n] = "pushed" => b[d] = c /\ ~repo[n].archived
      PROVE  /\ repo'[n].branches[Want(n).default] # NoCommit
             /\ task'[n] = "pushed" => SeedThere(n)'
             /\ repo'[n].visibility = repo[n].visibility /\ repo'[n].topics = repo[n].topics
             /\ repo'[n].archived = repo[n].archived
             /\ repo[n].default = Want(n).default => repo'[n].default = Want(n).default
             /\ task'[n] = "pushed" => ~repo[n].archived
  <2>1. repo'[n].branches = b /\ repo'[n].tags = moved
    BY <1>0, <1>1, <1>3, PushedRefs
  <2>2. /\ repo'[n].visibility = repo[n].visibility /\ repo'[n].topics = repo[n].topics
        /\ repo'[n].archived = repo[n].archived
        /\ repo[n].default \in Has(b) => repo'[n].default = repo[n].default
    BY <1>0, <1>1, <1>3, PushedSettings
  <2>3. d \in Has(b)
    BY <1>0, <1>3 DEF Has, Refs
  <2>4. task'[n] = "pushed" => SeedThere(n)'
    BY <1>0, <1>1, <1>3, <2>1 DEF SeedThere
  <2> QED
    BY <1>3, <2>1, <2>2, <2>3, <2>4
<1>4. CASE repo'[n] = Pushed(repo[n], ahead, moved) /\ ~repo[n].archived
  BY <1>0, <1>1, <1>3, <1>4
<1>5. CASE /\ repo'[n] = Pushed(repo[n], repo[n].branches, moved)
           /\ repo[n].branches[d] # NoCommit /\ task'[n] # "pushed"
  BY <1>1, <1>3, <1>5
<1>6. CASE repo'[n] = repo[n] /\ task'[n] # "pushed"
  BY <1>6
<1> QED
  BY <1>2, <1>4, <1>5, <1>6

\* No task of any command takes the declared default branch away.
LEMMA TaskKeepsDefault ==
  ASSUME ~ArchivedUnreadable, RewindInv, PlanInv, NEW n \in Names, RunTask(n),
         ~CreateLands(n), repo[n].branches[Want(n).default] # NoCommit
  PROVE  repo'[n].branches[Want(n).default] # NoCommit
<1>0. /\ CourseInv /\ n \in Declared /\ Want(n).default \in Branches
      /\ Want(n).baseline # NoCommit /\ Spares(n)
  BY TaskDeclared, WantType, RefsAssumption
  DEF RewindInv, PlanInv, CourseInv, OwnInv, Wants
<1>1. CASE CommandTask(n)
  BY <1>0, <1>1, CommandTaskRewinds DEF SameRefs
<1>2. CASE ResetTask(n)
  BY <1>0, <1>2, ResetTaskResets, ResetTaskRewinds DEF OnlyRewinds
<1>3. CASE ApplyTask(n)
  BY <1>0, <1>3, ApplyTaskRefs, PushSeedLands, DeleteStaleSpares DEF SameRefs
<1> QED
  BY <1>1, <1>2, <1>3 DEF RunTask

\* A first push that is not yet reflected brought the declared default branch: the forge
\* that makes a branch the default then has that one to keep.
Begins(n) ==
  AutoProtect /\ ~Want(n).empty /\ Unnoticed(repo[n]) =>
    repo[n].branches[Want(n).default] # NoCommit

BeginsInv ==
  /\ exit = "ok" => lock # 0
  /\ \A n \in Declared : Begins(n)

\* A task pushes the default branch if it pushes anything.
LEMMA TaskBegins ==
  ASSUME ~ArchivedUnreadable, RewindInv, PlanInv, NEW n \in Names, RunTask(n), Begins(n)
  PROVE  Begins(n)'
<1>0. /\ CourseInv /\ n \in Declared /\ repo[n] \in Repos /\ Want(n)' = Want(n)
      /\ Want(n).default \in Branches /\ Want(n).baseline # NoCommit
  BY TaskDeclared, TaskAside, WantType, RefsAssumption
  DEF RewindInv, CourseInv, OwnInv, TypeInv, TypeOK, ForgeTypeOK, Wants, diskVars, Want
<1>1. CASE CreateLands(n)
  <2>1. \E b \in Branches, t \in Topics : repo'[n] = NewRepo(Want(n), b, t)
    BY <1>0, <1>1
    DEF CreateLands, ForgeCreates, RewindInv, CourseInv, OwnInv, TypeInv, TypeOK, ForgeTypeOK
  <2>2. ~repo'[n].pending
    BY <2>1 DEF NewRepo
  <2> QED BY <2>2 DEF Begins, Unnoticed
<1>2. CASE ~CreateLands(n) /\ Milder(repo[n], repo'[n])
  BY <1>0, <1>2, TaskKeepsDefault DEF Begins, Unnoticed, Milder
<1>3. CASE PushSeed(n)
  BY <1>0, <1>3, PushSeedLands DEF Begins
<1>4. CASE Rewind(n)
  <2> DEFINE d == Want(n).default
  <2>0. PICK c : c = repo[n].tags[Baseline]
    OBVIOUS
  <2>1. CASE c = NoCommit
    BY <1>0, <1>4, <2>0, <2>1 DEF Rewind, Begins, forgeVars
  <2>2. CASE c # NoCommit
    <3>1. ForcePush(n, c, Want(n).tags) /\ c \in Commits /\ repo \in [Names -> Repos]
      BY <1>0, <1>4, <2>0, <2>2
      DEF Rewind, Repos, Refs, AllTags, CourseInv, OwnInv, TypeInv, TypeOK, ForgeTypeOK
    <3>2. \/ repo'[n] = repo[n]
          \/ repo'[n] = PushRefs(repo[n], c, d, Want(n).tags)
          \/ repo'[n] = PushTags(repo[n], c, Want(n).tags) /\ repo[n].branches[d] # NoCommit
      BY <1>0, <3>1 DEF ForcePush, Write, forgeVars
    <3>3. CASE repo'[n] = PushRefs(repo[n], c, d, Want(n).tags)
      <4>1. repo'[n].branches = [repo[n].branches EXCEPT ![d] = c]
        <5>1. \A tags : PushRefs(repo[n], c, d, tags).branches = [repo[n].branches EXCEPT ![d] = c]
          BY <1>0, <3>1, PushRefsBranches
        <5> QED BY <3>3, <5>1
      <4> QED BY <1>0, <2>2, <4>1 DEF Begins, Repos, Refs
    <3>4. CASE repo'[n] = PushTags(repo[n], c, Want(n).tags) /\ repo[n].branches[d] # NoCommit
      <4>1. repo'[n].branches = repo[n].branches
        BY <1>0, <3>1, <3>4, PushTagsMoves
      <4> QED BY <1>0, <3>4, <4>1 DEF Begins
    <3> QED BY <1>0, <3>2, <3>3, <3>4 DEF Begins
  <2> QED BY <2>1, <2>2
<1>5. CASE task[n] \in {"push", "push again"} /\ ~PushSeed(n) /\ ~Rewind(n)
  <2>1. UNCHANGED repo
    BY <1>5
    DEF RunTask, CommandTask, StepFails, ForcePushErrs, Lift, Unarchive, Archive, Archived,
        Replied, Await, AwaitTimesOut, Compare, CompareBelievesMissing, ApplyTask, Diff,
        CreateLands, CreateErrs, CreateConflicts, CheckLanded, Adopt, Label, Appear,
        Unarchived, Recheck, ReadBack, WaitPushed, WaitPushedTimesOut, Settle, Settled,
        SetTopics, DeleteStaleRefs, ResetTask, LiftedForReset, RewindDone, WaitRewound,
        WaitRewoundTimesOut, RestoreSettings, SettingsRestored, CloseRequests, DeleteBranches,
        DeleteTags, RestoreTopics, forgeVars
  <2> QED BY <1>0, <2>1 DEF Begins
<1>6. task[n] = "create" => CreateLands(n) \/ repo' = repo
  BY DEF RunTask, CommandTask, StepFails, ForcePushErrs, Lift, Unarchive, Archive, Archived,
         Replied, Await, AwaitTimesOut, Compare, CompareBelievesMissing, ApplyTask, Diff,
         CreateErrs, CreateConflicts, CheckLanded, Adopt, Label, Appear, Unarchived, Recheck,
         PushSeed, ForcePush, ReadBack, WaitPushed, WaitPushedTimesOut, Settle, Settled,
         SetTopics, DeleteStaleRefs, ResetTask, LiftedForReset, Rewind, RewindDone, WaitRewound,
         WaitRewoundTimesOut, RestoreSettings, SettingsRestored, CloseRequests, DeleteBranches,
         DeleteTags, RestoreTopics, forgeVars
<1>7. repo' = repo => Milder(repo[n], repo'[n])
  BY DEF Milder
<1> QED
  BY <1>0, <1>1, <1>2, <1>3, <1>4, <1>5, <1>6, <1>7, TaskRepo

\* Fleets differ in what they declare of a repository, not in which.
SameNames == \A v, w \in DOMAIN Fleets : DOMAIN Fleets[v] = DOMAIN Fleets[w]

\* Tests and the author leave a forge time, and find nothing that is empty or new.
Timely == People # "hasty" /\ NoEmpties /\ SameNames

\* Whatever else is done between commands finds no first push to reflect.
LEMMA OthersBegins ==
  ASSUME Timely, EmptyInv, TestedInv, BeginsInv, NEW n \in Names, Others(n)
  PROVE  \A m \in Declared : Begins(m)'
<1>0. /\ UNCHANGED <<fleet, lock>> /\ \A m \in Names \ {n} : repo'[m] = repo[m]
      /\ Declared \subseteq Names /\ ForgeTypeOK /\ TypeInv
      /\ repo \in [Names -> Repos]
  BY FleetsAssumption
  DEF Others, TestEdits, UserDeletes, StrangerCreates, Write, EmptyInv, CourseInv, OwnInv,
      TypeInv, TypeOK, CommandTypeOK, ForgeTypeOK, Declared
<1>1. \A m \in Declared \ {n} : Begins(m)'
  BY <1>0 DEF BeginsInv, Begins, Want
<1>2. ASSUME n \in Declared
      PROVE  Begins(n)'
  <2>1. CASE UserDeletes(n) \/ StrangerCreates(n)
    <3>1. repo'[n] = Blank /\ ~Blank.pending
      BY <1>0, <2>1 DEF UserDeletes, StrangerCreates, Blank
    <3> QED BY <3>1 DEF Begins, Unnoticed
  <2>2. CASE TestEdits(n)
    <3>1. exit = "ok" /\ cmd = "none" /\ owner[n] = "forgelab"
      BY <2>2 DEF TestEdits, Quiet, Timely
    <3>2. lock # 0 /\ lock \in DOMAIN Fleets /\ fleet \in DOMAIN Fleets
      BY <1>0, <3>1 DEF BeginsInv, TypeInv, TypeOK, CommandTypeOK
    <3>3. n \in DOMAIN Fleets[lock]
      BY <1>2, <3>2 DEF Timely, SameNames, Declared
    <3>4. ~Fleets[lock][n].empty /\ Fleets[lock][n] \in Previous(n)
      BY <3>2, <3>3 DEF Timely, NoEmpties, Previous
    <3>5. ~repo[n].empty
      BY <3>1, <3>4 DEF TestedInv, Vouched
    <3>6. ~repo'[n].empty
      BY <2>2, <3>5, TestEditsThere
    <3> QED BY <3>6 DEF Begins, Unnoticed
  <2> QED BY <2>1, <2>2 DEF Others
<1> QED
  BY <1>0, <1>1, <1>2 DEF Declared

\* Every step keeps this.
LEMMA BeginsStep ==
  /\ ~ArchivedUnreadable /\ Timely
  /\ EmptyInv /\ SightInv /\ TestedInv /\ RewindInv /\ PlanInv /\ BeginsInv
  /\ [Next]_vars
  => BeginsInv'
<1> SUFFICES ASSUME ~ArchivedUnreadable, Timely, EmptyInv, SightInv, TestedInv, RewindInv,
                    PlanInv, BeginsInv, [Next]_vars
             PROVE  BeginsInv'
  OBVIOUS
<1>0. /\ Declared \subseteq Names /\ ForgeTypeOK /\ TypeInv /\ CourseInv
      /\ fleet \in DOMAIN Fleets /\ 0 \notin DOMAIN Fleets
      /\ cmd = "none" <=> phase = "idle"
  BY FleetsAssumption
  DEF EmptyInv, CourseInv, Course, OwnInv, TypeInv, TypeOK, CommandTypeOK, Declared
<1>1. ASSUME NEW n \in Names, RunTask(n)
      PROVE  BeginsInv'
  <2>1. /\ n \in Declared /\ UNCHANGED <<fleet, lock, exit>>
        /\ \A m \in Names \ {n} : repo'[m] = repo[m]
    BY <1>0, <1>1, TaskDeclared, TaskAside DEF diskVars, runVars, Aside
  <2>2. Begins(n)'
    BY <1>1, <2>1, TaskBegins DEF BeginsInv
  <2>3. \A m \in Declared \ {n} : Begins(m)'
    BY <1>0, <2>1 DEF BeginsInv, Begins, Want
  <2> QED
    BY <2>1, <2>2, <2>3 DEF BeginsInv, Declared
<1>2. ASSUME NEW n \in Names, Forges(n)
      PROVE  BeginsInv'
  <2>1. UNCHANGED <<fleet, lock, exit>>
    BY <1>2 DEF Forges, Saves, Reflects, Answers, diskVars, commandVars, runVars
  <2>2. \A m \in Names : /\ SameRefs(repo[m], repo'[m])
                         /\ repo'[m].pending => repo[m].pending
                         /\ ~repo[m].empty => ~repo'[m].empty
    BY <1>0, <1>2, ForgesRefs, ForgesPending, ForgesThere
  <2>3. \A m \in Declared : Unnoticed(repo[m])' => Unnoticed(repo[m])
    BY <1>0, <2>2 DEF Unnoticed
  <2>4. \A m \in Declared : Begins(m)'
    BY <1>0, <2>1, <2>2, <2>3 DEF BeginsInv, Begins, SameRefs, Want
  <2> QED
    BY <2>1, <2>4 DEF BeginsInv, Declared
<1>3. ASSUME NEW n \in Names, Others(n)
      PROVE  BeginsInv'
  <2>1. UNCHANGED <<fleet, lock, exit>>
    BY <1>3
    DEF Others, TestEdits, UserDeletes, StrangerCreates, commandVars, runVars
  <2> QED
    BY <1>3, <2>1, OthersBegins DEF BeginsInv, Declared
<1>4. ASSUME UNCHANGED <<repo, fleet>>, exit' = "ok" => lock' # 0
      PROVE  BeginsInv'
  BY <1>4 DEF BeginsInv, Begins, Declared, Want
<1>5. CASE Abort \/ (StartSettle /\ ~AllWell)
  <2>1. Finish(Outcome) /\ ~AllWell /\ UNCHANGED <<repo, fleet, lock>>
    BY <1>5 DEF Abort, StartSettle, forgeVars, diskVars
  <2>2. Outcome # "ok"
    BY <1>0, <2>1, OutcomeNotOk
  <2> QED
    BY <1>4, <2>1, <2>2 DEF Finish
<1>6. CASE EndCheck \/ (StartRepairs /\ Verdict # "drift")
  <2>1. UNCHANGED <<repo, fleet, lock>> /\ phase \in {"survey", "check"}
    BY <1>6 DEF EndCheck, StartRepairs, forgeVars, diskVars
  <2>2. lock = fleet
    BY <1>0, <2>1 DEF SightInv, Holding, CourseInv, Course
  <2> QED
    BY <1>0, <1>4, <2>1, <2>2
<1>7. CASE StartWork \/ (StartSettle /\ AllWell) \/ StartCheck \/ WriteLock \/ StartReady
           \/ (StartRepairs /\ Verdict = "drift") \/ RunApply \/ RunVerify \/ RunReset
  BY <1>0, <1>4, <1>7
  DEF StartWork, StartSettle, StartCheck, WriteLock, StartReady, StartRepairs, RunApply,
      StartApply, RunVerify, StartVerify, RunReset, StartReset, Refuse, Enter, forgeVars,
      diskVars, BeginsInv
<1>8. CASE Kill
  BY <1>4, <1>8 DEF Kill, Finish, forgeVars, diskVars
<1>9. CASE EditFleet
  <2>1. /\ UNCHANGED <<repo, lock, exit>> /\ fleet' \in DOMAIN Fleets
        /\ \A n \in Names : ~repo[n].pending
    BY <1>9 DEF EditFleet, Quiet, commandVars, runVars, forgeVars, Timely
  <2>2. Declared' \subseteq Names
    BY <2>1, FleetsAssumption DEF Declared
  <2> QED
    BY <2>1, <2>2 DEF BeginsInv, Begins, Unnoticed
<1>10. CASE UNCHANGED vars
  BY <1>4, <1>10 DEF vars, forgeVars, diskVars, runVars, BeginsInv
<1> QED
  BY <1>1, <1>2, <1>3, <1>5, <1>6, <1>7, <1>8, <1>9, <1>10
  DEF Next, RunStep, CommandStep, ApplyStep, ResetStep

\* The default branch the forge makes of a first push is the declared one: where it makes
\* one at all it has reflected every push before tests and the author go on.
LEMMA BeginsAlways ==
  ASSUME ~ArchivedUnreadable, ~SlowSaves, AutoProtect /\ Background => Timely
  PROVE  Spec => [](RewindInv /\ PlanInv /\ \A n \in Declared : Begins(n))
<1>1. Spec => []RewindInv
  BY RewindInvInit, RewindInvStep, PTL DEF Spec
<1>2. Init => PlanInv
  <2> SUFFICES ASSUME Init PROVE PlanInv
    OBVIOUS
  <2>1. (\A n \in Names : change[n] = Nothing) /\ Declared \subseteq Names
    BY FleetsAssumption DEF Init, CommandInit, Declared
  <2> QED BY <2>1, NothingPlanned DEF PlanInv, Spares
<1>3. RewindInv /\ PlanInv /\ [Next]_vars => PlanInv'
  BY PlanStep DEF RewindInv
<1>4. CASE AutoProtect /\ Background
  <2>1. Timely /\ Heedful
    BY <1>4 DEF Heedful, Timely
  <2>2. Spec => [](EmptyInv /\ SightInv /\ TestedInv)
    BY <2>1, TestedAlways
  <2>3. Init => BeginsInv
    <3> SUFFICES ASSUME Init PROVE BeginsInv
      OBVIOUS
    <3>1. (\A n \in Names : repo[n] = Blank) /\ exit = "failed" /\ Declared \subseteq Names
      BY FleetsAssumption DEF Init, CommandInit, Declared
    <3>2. ~Blank.pending
      BY DEF Blank
    <3> QED BY <3>1, <3>2 DEF BeginsInv, Begins, Unnoticed
  <2>4. /\ EmptyInv /\ SightInv /\ TestedInv /\ RewindInv /\ PlanInv /\ BeginsInv
        /\ [Next]_vars
        => BeginsInv'
    BY <2>1, BeginsStep
  <2>5. Spec => [](RewindInv /\ PlanInv /\ BeginsInv)
    BY <1>1, <1>2, <1>3, <2>2, <2>3, <2>4, PTL DEF Spec
  <2>6. BeginsInv => \A n \in Declared : Begins(n)
    BY DEF BeginsInv
  <2> QED
    BY <2>5, <2>6, PTL
<1>5. CASE ~(AutoProtect /\ Background)
  <2>1. Spec => []WaitInv
    BY WaitAlways
  <2>2. WaitInv => \A n \in Declared : Begins(n)
    <3> SUFFICES ASSUME WaitInv, NEW n \in Declared PROVE Begins(n)
      OBVIOUS
    <3>1. n \in Names /\ Late(repo[n])
      BY WantType DEF WaitInv, CourseInv, OwnInv
    <3> QED BY <1>5, <3>1 DEF Late, Begins, Unnoticed
  <2> QED
    BY <1>1, <1>2, <1>3, <2>1, <2>2, PTL DEF Spec
<1> QED
  BY <1>4, <1>5

\* What apply answers for, part by part.
Shown(n) == HasVisibility => repo[n].visibility = Want(n).visibility

Based(n) == ~Want(n).empty => repo[n].default = Want(n).default

Topical(n) == HasTopics => repo[n].topics = Want(n).topics

AsWanted(n) ==
  /\ ~NotOurs(n)
  /\ SeedThere(n) /\ Shown(n) /\ Based(n) /\ Topical(n)
  /\ repo[n].archived = Want(n).archived

\* What was read of the settings is still so; a default branch that is not the declared
\* one may be another by now.
SeenTopics(n) == change[n].live.known => change[n].live.topics = repo[n].topics

Seen(n) ==
  /\ SeenTopics(n)
  /\ change[n].live.known =>
       /\ change[n].live.visibility = repo[n].visibility
       /\ ~Want(n).empty /\ change[n].live.default = Want(n).default =>
            repo[n].default = Want(n).default

\* Nothing was read: it is to be created.
Unmade(n) == ~change[n].live.known /\ ~repo[n].archived

\* A settings write that archives, or lifts that, and its reply.
Requested(n, to) ==
  IF patch[n].busy
  THEN patch[n].visibility = {} /\ patch[n].default = {} /\ patch[n].archived = {to}
  ELSE repo[n].archived = to

\* One that sets visibility and default branch.
Saving(n) ==
  /\ ~repo[n].archived /\ SeenTopics(n)
  /\ IF patch[n].busy
     THEN /\ patch[n].archived = {}
          /\ HasVisibility => Asked(repo[n].visibility, patch[n].visibility) = Want(n).visibility
          /\ ~Want(n).empty => Asked(repo[n].default, patch[n].default) = Want(n).default
     ELSE Shown(n) /\ Based(n)

\* The plan for n is true of it ...
Readied(n) ==
  IF change[n].create THEN Unmade(n)
  ELSE /\ Seen(n) /\ (change[n].push \/ SeedThere(n))
       /\ change[n].live.archived = repo[n].archived
       /\ ~Needed(change[n]) => AsWanted(n)

\* ... and each stage brings it closer to what is declared.
Applying(n) ==
  /\ task[n] # "recheck"
  /\ task[n] \in Creating => Unmade(n) /\ (task[n] = "appear" => Want(n).empty)
  /\ task[n] \in Lifting => Seen(n) /\ (change[n].push \/ SeedThere(n))
  /\ task[n] = "unarchiving" => Requested(n, FALSE)
  /\ task[n] \in Pushing \cup Unsettled => Seen(n) /\ ~repo[n].archived
  /\ task[n] \in Unsettled \cup Finishing \cup {"saving"} => SeedThere(n)
  /\ task[n] = "saving" => Saving(n)
  /\ task[n] \in Finishing => Shown(n) /\ Based(n)
  /\ task[n] = "topics" => SeenTopics(n)
  /\ task[n] \in {"topics", "stale refs", "archive"} => ~repo[n].archived
  /\ task[n] \in {"stale refs", "archive", "archiving"} => Topical(n)
  /\ task[n] = "archiving" => Want(n).archived /\ Requested(n, TRUE)
  /\ task[n] = "done" => AsWanted(n)

Proper(n) ==
  /\ phase = "plan" /\ task[n] = "done" => Readied(n)
  /\ phase \in {"apply", "settle"} => Applying(n)
  /\ cmd = "apply" /\ phase = "ready" => AsWanted(n)

AppliedInv == \A n \in Declared : Proper(n)

\* What the proof below rests on.
Ground == WaitInv /\ RewindInv /\ PlanInv /\ \A n \in Declared : Begins(n)

\* Nothing apply has set changes, nor do refs.
Alike(n) ==
  /\ SameRefs(repo[n], repo'[n])
  /\ repo'[n].visibility = repo[n].visibility /\ repo'[n].topics = repo[n].topics
  /\ repo'[n].archived = repo[n].archived
  /\ ~Want(n).empty /\ repo[n].default = Want(n).default => repo'[n].default = Want(n).default

\* Then all that was so still is.
LEMMA StillSo ==
  ASSUME NEW n, fleet' = fleet, Alike(n)
  PROVE  /\ SeedThere(n) => SeedThere(n)'
         /\ Shown(n) => Shown(n)'
         /\ Based(n) => Based(n)'
         /\ Topical(n) => Topical(n)'
         /\ owner'[n] = owner[n] /\ AsWanted(n) => AsWanted(n)'
<1>1. Want(n)' = Want(n)
  BY DEF Want
<1>2. /\ SeedThere(n) => SeedThere(n)'
      /\ Shown(n) => Shown(n)'
      /\ Based(n) => Based(n)'
      /\ Topical(n) => Topical(n)'
  BY <1>1 DEF Alike, SameRefs, SeedThere, Shown, Based, Topical
<1>3. owner'[n] = owner[n] /\ ~NotOurs(n) => ~NotOurs(n)'
  BY DEF NotOurs
<1> QED
  BY <1>1, <1>2, <1>3 DEF AsWanted, Alike

\* Nor does what was read of it, or asked for, become untrue.
LEMMA StillSeen ==
  ASSUME NEW n, fleet' = fleet, Alike(n), change'[n] = change[n]
  PROVE  /\ SeenTopics(n) => SeenTopics(n)'
         /\ Seen(n) => Seen(n)'
         /\ Unmade(n) => Unmade(n)'
         /\ patch'[n] = patch[n] => \A to : Requested(n, to) => Requested(n, to)'
         /\ patch'[n] = patch[n] /\ Saving(n) => Saving(n)'
<1>1. Want(n)' = Want(n)
  BY DEF Want
<1>2. /\ SeenTopics(n) => SeenTopics(n)'
      /\ Seen(n) => Seen(n)'
      /\ Unmade(n) => Unmade(n)'
      /\ patch'[n] = patch[n] => \A to : Requested(n, to) => Requested(n, to)'
  BY <1>1 DEF Alike, SeenTopics, Seen, Unmade, Requested
<1>3. patch'[n] = patch[n] /\ Saving(n) => Saving(n)'
  <2>1. Shown(n) /\ Based(n) => (Shown(n) /\ Based(n))'
    BY StillSo
  <2>2. ~Want(n).empty /\ Asked(repo[n].default, patch[n].default) = Want(n).default
          => Asked(repo'[n].default, patch[n].default) = Want(n).default
    BY DEF Alike, Asked
  <2> QED
    BY <1>1, <1>2, <2>1, <2>2 DEF Saving, Alike
<1> QED
  BY <1>2, <1>3

\* A step that leaves n, its task and its plan alike leaves it proper.
LEMMA StillProper ==
  ASSUME NEW n, UNCHANGED <<fleet, cmd, phase>>, Alike(n), task'[n] = task[n],
         change'[n] = change[n], patch'[n] = patch[n], owner'[n] = owner[n], Proper(n)
  PROVE  Proper(n)'
<1>0. Want(n)' = Want(n) /\ repo'[n].archived = repo[n].archived
  BY DEF Want, Alike
<1>1. phase = "plan" /\ task[n] = "done" => Readied(n)'
  BY <1>0, StillSo, StillSeen DEF Proper, Readied
<1>2. phase \in {"apply", "settle"} => Applying(n)'
  BY <1>0, StillSo, StillSeen DEF Proper, Applying
<1>3. cmd = "apply" /\ phase = "ready" => AsWanted(n)'
  BY StillSo DEF Proper
<1> QED
  BY <1>1, <1>2, <1>3 DEF Proper

\* What is left as it is, is alike.
LEMMA UnchangedAlike ==
  ASSUME NEW n, repo'[n] = repo[n]
  PROVE  Alike(n)
BY DEF Alike, SameRefs

\* A push that is reflected makes the declared branch the default, or leaves that.
LEMMA ReflectsAlike ==
  ASSUME Ground, NEW n \in Declared, Reflects(n)
  PROVE  Alike(n)
<1> DEFINE r == [repo[n] EXCEPT !.pending = FALSE]
<1>0. /\ n \in Names /\ repo \in [Names -> Repos] /\ repo[n] \in Repos /\ Begins(n)
      /\ Want(n).default \in Branches
  BY WantType
  DEF Ground, WaitInv, CourseInv, OwnInv, TypeInv, TypeOK, ForgeTypeOK, Wants
<1>1. /\ SameRefs(repo[n], r) /\ r.visibility = repo[n].visibility /\ r.topics = repo[n].topics
      /\ r.archived = repo[n].archived /\ r.default = repo[n].default /\ r \in Repos
  BY <1>0 DEF SameRefs, Repos
<1>2. repo'[n] = IF r.empty THEN Begun(r) ELSE r
  BY <1>0 DEF Reflects, ForgeReflects
<1>3. repo[n].pending /\ r.empty = repo[n].empty
  BY <1>0 DEF Reflects, ForgeReflects, Repos
<1> HIDE DEF r
<1>4. /\ SameRefs(r, Begun(r)) /\ Begun(r).visibility = r.visibility
      /\ Begun(r).topics = r.topics /\ Begun(r).archived = r.archived
      /\ ~AutoProtect \/ r.default \in Has(r.branches) => Begun(r).default = r.default
  BY <1>1 DEF SameRefs, Begun, Repos
<1>5. CASE r.empty
  <2>1. ASSUME ~Want(n).empty, repo[n].default = Want(n).default, AutoProtect
        PROVE  r.default \in Has(r.branches)
    <3>1. repo[n].branches[Want(n).default] # NoCommit
      BY <1>0, <1>3, <1>5, <2>1 DEF Begins, Unnoticed
    <3> QED BY <1>0, <1>1, <2>1, <3>1 DEF Has, SameRefs, Repos, Refs
  <2> QED
    BY <1>1, <1>2, <1>4, <1>5, <2>1 DEF Alike, SameRefs
<1>6. CASE ~r.empty
  BY <1>1, <1>2, <1>6 DEF Alike, SameRefs
<1> QED
  BY <1>5, <1>6

\* A row that is saved has what was asked for, and the rest as it was.
LEMMA SavedSettings ==
  ASSUME ForgeTypeOK, NEW n \in Names, Saves(n)
  PROVE  /\ SameRefs(repo[n], repo'[n]) /\ repo'[n].topics = repo[n].topics
         /\ repo'[n].visibility = Asked(repo[n].visibility, patch[n].visibility)
         /\ repo'[n].default = Asked(repo[n].default, patch[n].default)
         /\ repo'[n].archived = Asked(repo[n].archived, patch[n].archived)
         /\ patch'[n] = NoPatch /\ ~NoPatch.busy /\ patch[n].busy
<1>0. /\ repo \in [Names -> Repos] /\ patch \in [Names -> Patches] /\ repo[n] \in Repos
  BY DEF ForgeTypeOK
<1> DEFINE d == Asked(repo[n].default, patch[n].default)
           v == Asked(repo[n].visibility, patch[n].visibility)
           a == Asked(repo[n].archived, patch[n].archived)
           e == IF SavesRow THEN patch[n].empty ELSE repo[n].empty
           s == [repo[n] EXCEPT !.visibility = v, !.default = d, !.archived = a, !.empty = e]
<1>1. repo'[n] = Saved(n) /\ patch'[n] = NoPatch /\ patch[n].busy
  BY <1>0 DEF Saves, ForgeSaves
<1>2. Saved(n) = IF AutoProtect /\ patch[n].default # {} THEN Relaxed(s, d) ELSE s
  BY DEF Saved
<1> HIDE DEF d, v, a, e
<1>3. /\ s.branches = repo[n].branches /\ s.tags = repo[n].tags /\ s.topics = repo[n].topics
      /\ s.visibility = v /\ s.default = d /\ s.archived = a
  BY <1>0 DEF Repos
<1>4. LET x == Relaxed(s, d)
      IN /\ x.branches = s.branches /\ x.tags = s.tags /\ x.topics = s.topics
         /\ x.visibility = s.visibility /\ x.default = s.default /\ x.archived = s.archived
  BY <1>0 DEF Relaxed, Repos
<1> HIDE DEF s
<1> QED
  BY <1>1, <1>2, <1>3, <1>4 DEF SameRefs, d, v, a, NoPatch

\* The reply to a settings write finds what was asked for.
LEMMA SavesProper ==
  ASSUME Ground, NEW n \in Declared, Saves(n), Proper(n)
  PROVE  Proper(n)'
<1>0. /\ n \in Names /\ ForgeTypeOK /\ Awaited(n) /\ task[n] \in Stages(phase)
      /\ (cmd = "none" <=> phase = "idle")
  BY WantType
  DEF Ground, WaitInv, CourseInv, Course, InStage, OwnInv, TypeInv, TypeOK
<1>1. /\ UNCHANGED <<fleet, cmd, phase, task, change, owner>> /\ Want(n)' = Want(n)
  BY DEF Saves, ForgeSaves, diskVars, commandVars, runVars, poolVars, Want
<1>2. /\ SameRefs(repo[n], repo'[n]) /\ repo'[n].topics = repo[n].topics
      /\ repo'[n].visibility = Asked(repo[n].visibility, patch[n].visibility)
      /\ repo'[n].default = Asked(repo[n].default, patch[n].default)
      /\ repo'[n].archived = Asked(repo[n].archived, patch[n].archived)
      /\ ~patch'[n].busy /\ patch[n].busy
  BY <1>0, SavedSettings
<1>3. phase \notin Comparing /\ (phase \in {"apply", "settle"} =>
                                   task[n] \in {"saving", "unarchiving", "archiving", "failed"})
  BY <1>0, <1>2 DEF Awaited, AwaitingReply
<1>4. CASE phase \notin {"apply", "settle"}
  BY <1>1, <1>3, <1>4 DEF Proper, Comparing
<1>5. CASE phase \in {"apply", "settle"} /\ task[n] = "failed"
  <2>1. Applying(n)'
    BY <1>1, <1>5 DEF Applying, Creating, Lifting, Pushing, Unsettled, Finishing
  <2> QED BY <1>1, <1>5, <2>1 DEF Proper
<1>6. SeedThere(n) => SeedThere(n)'
  BY <1>1, <1>2 DEF SeedThere, SameRefs
<1>7. CASE phase \in {"apply", "settle"} /\ task[n] = "saving"
  <2>1. Saving(n) /\ SeedThere(n)
    BY <1>7 DEF Proper, Applying
  <2>2. repo'[n].archived = repo[n].archived
    BY <1>2, <2>1 DEF Saving, Asked
  <2>3. Shown(n)' /\ Based(n)' /\ SeenTopics(n)'
    BY <1>1, <1>2, <2>1 DEF Saving, Shown, Based, SeenTopics
  <2>4. Saving(n)'
    BY <1>2, <2>1, <2>2, <2>3 DEF Saving
  <2>5. Applying(n)'
    BY <1>1, <1>6, <1>7, <2>1, <2>4 DEF Applying, Creating, Lifting, Pushing, Unsettled, Finishing
  <2> QED BY <1>1, <1>7, <2>5 DEF Proper
<1>8. CASE phase \in {"apply", "settle"} /\ task[n] = "unarchiving"
  <2>1. Requested(n, FALSE) /\ Seen(n) /\ (change[n].push \/ SeedThere(n))
    BY <1>8 DEF Proper, Applying, Lifting
  <2>2. /\ repo'[n].visibility = repo[n].visibility /\ repo'[n].default = repo[n].default
        /\ ~repo'[n].archived
    BY <1>2, <2>1 DEF Requested, Asked
  <2>3. Requested(n, FALSE)'
    BY <1>2, <2>2 DEF Requested
  <2>4. Seen(n)'
    BY <1>1, <1>2, <2>1, <2>2 DEF Seen, SeenTopics
  <2>5. Applying(n)'
    BY <1>1, <1>6, <1>8, <2>1, <2>3, <2>4
    DEF Applying, Creating, Lifting, Pushing, Unsettled, Finishing
  <2> QED BY <1>1, <1>8, <2>5 DEF Proper
<1>9. CASE phase \in {"apply", "settle"} /\ task[n] = "archiving"
  <2>1. /\ Requested(n, TRUE) /\ SeedThere(n) /\ Shown(n) /\ Based(n) /\ Topical(n)
        /\ Want(n).archived
    BY <1>9 DEF Proper, Applying, Finishing
  <2>2. /\ repo'[n].visibility = repo[n].visibility /\ repo'[n].default = repo[n].default
        /\ repo'[n].archived
    BY <1>2, <2>1 DEF Requested, Asked
  <2>3. Requested(n, TRUE)'
    BY <1>2, <2>2 DEF Requested
  <2>4. Shown(n)' /\ Based(n)' /\ Topical(n)'
    BY <1>1, <1>2, <2>1, <2>2 DEF Shown, Based, Topical
  <2>5. Applying(n)'
    BY <1>1, <1>6, <1>9, <2>1, <2>3, <2>4
    DEF Applying, Creating, Lifting, Pushing, Unsettled, Finishing
  <2> QED BY <1>1, <1>9, <2>5 DEF Proper
<1> QED
  BY <1>3, <1>4, <1>5, <1>7, <1>8, <1>9

\* The forge breaks nothing that apply found or brought about.
LEMMA ForgesProper ==
  ASSUME Ground, AppliedInv, NEW n \in Names, Forges(n)
  PROVE  AppliedInv'
<1>0. /\ ForgeTypeOK /\ UNCHANGED <<fleet, cmd, phase, task, change, owner>>
      /\ Declared' = Declared /\ Declared \subseteq Names
  BY WantType
  DEF Ground, WaitInv, CourseInv, OwnInv, TypeInv, TypeOK, Forges, Saves, ForgeSaves, Reflects,
      ForgeReflects, Answers, ForgeAnswers, diskVars, commandVars, runVars, poolVars, Declared
<1>1. ASSUME NEW m \in Declared, repo'[m] = repo[m], patch'[m] = patch[m]
      PROVE  Proper(m)'
  BY <1>0, <1>1, UnchangedAlike, StillProper DEF AppliedInv
<1>2. \A m \in Declared \ {n} : Proper(m)'
  BY <1>0, <1>1
  DEF ForgeTypeOK, Forges, Saves, ForgeSaves, Reflects, ForgeReflects, Answers, ForgeAnswers
<1>3. ASSUME n \in Declared
      PROVE  Proper(n)'
  <2>1. CASE Saves(n)
    BY <1>3, <2>1, SavesProper DEF AppliedInv
  <2>2. CASE Reflects(n)
    <3>1. Alike(n) /\ patch' = patch
      BY <1>3, <2>2, ReflectsAlike DEF Reflects, ForgeReflects
    <3> QED BY <1>0, <1>3, <3>1, StillProper DEF AppliedInv
  <2>3. CASE Answers(n)
    BY <1>1, <1>3, <2>3 DEF Answers, ForgeAnswers
  <2> QED BY <2>1, <2>2, <2>3 DEF Forges
<1> QED
  BY <1>0, <1>2, <1>3 DEF AppliedInv

\* What is not forgelab's is not worked on, and was not found in order.
LEMMA NotOursProper ==
  ASSUME Ground, NEW n \in Declared, Proper(n), NotOurs(n)
  PROVE  /\ phase = "plan" /\ task[n] = "done" => change[n].create /\ Unmade(n)
         /\ phase \in {"apply", "settle"} =>
              /\ task[n] \in {"create", "landed?", "adopt", "failed"}
              /\ task[n] # "failed" => Unmade(n)
         /\ ~(cmd = "apply" /\ phase = "ready")
<1>0. Harmless(n) /\ task[n] \in Stages(phase)
  BY WantType DEF Ground, WaitInv, CourseInv, Course, InStage, OwnInv, LeftAlone
<1>1. ~AsWanted(n)
  BY DEF AsWanted
<1>2. phase = "plan" /\ task[n] = "done" => change[n].create /\ Unmade(n)
  BY <1>0, <1>1 DEF Proper, Readied, Harmless
<1>3. ASSUME phase \in {"apply", "settle"}
      PROVE  task[n] \in {"create", "landed?", "adopt", "failed"}
  BY <1>0, <1>1, <1>3 DEF Proper, Applying, Harmless, Writing, Stages, Seeds, Settling
<1>4. phase \in {"apply", "settle"} /\ task[n] # "failed" => Unmade(n)
  BY <1>3 DEF Proper, Applying, Creating
<1> QED
  BY <1>1, <1>2, <1>3, <1>4 DEF Proper

\* Whoever takes a name takes one that is free.
LEMMA OthersProper ==
  ASSUME Ground, AppliedInv, NEW n \in Names, Others(n)
  PROVE  AppliedInv'
<1>0. /\ ForgeTypeOK /\ UNCHANGED <<fleet, cmd, phase, task, change, patch>>
      /\ Declared' = Declared /\ Declared \subseteq Names /\ LeftAlone(n)
      /\ (cmd = "none" <=> phase = "idle")
  BY WantType
  DEF Ground, WaitInv, CourseInv, Course, OwnInv, TypeInv, TypeOK, Others, TestEdits,
      UserDeletes, StrangerCreates, Write, diskVars, commandVars, runVars, poolVars, Declared
<1>1. CASE cmd = "none"
  BY <1>0, <1>1 DEF AppliedInv, Proper
<1>2. CASE cmd # "none"
  <2>1. StrangerCreates(n) /\ owner[n] = "nobody" /\ repo[n] = Blank
    BY <1>0, <1>2
    DEF Others, TestEdits, UserDeletes, StrangerCreates, Quiet, LeftAlone
  <2>2. repo' = repo /\ \A m \in Names \ {n} : owner'[m] = owner[m]
    BY <1>0, <2>1 DEF StrangerCreates, ForgeTypeOK
  <2>3. \A m \in Declared \ {n} : Proper(m)'
    BY <1>0, <2>2, UnchangedAlike, StillProper DEF AppliedInv
  <2>4. ASSUME n \in Declared
        PROVE  Proper(n)'
    <3>1. /\ phase = "plan" /\ task[n] = "done" => change[n].create /\ Unmade(n)
          /\ phase \in {"apply", "settle"} =>
               /\ task[n] \in {"create", "landed?", "adopt", "failed"}
               /\ task[n] # "failed" => Unmade(n)
          /\ ~(cmd = "apply" /\ phase = "ready")
      BY <2>1, <2>4, NotOursProper DEF AppliedInv, NotOurs
    <3>2. Unmade(n) => Unmade(n)'
      BY <1>0, <2>2 DEF Unmade
    <3>3. phase \in {"apply", "settle"} => Applying(n)'
      BY <1>0, <3>1, <3>2 DEF Applying, Creating, Lifting, Pushing, Unsettled, Finishing
    <3> QED
      BY <1>0, <3>1, <3>2, <3>3 DEF Proper, Readied
  <2> QED
    BY <1>0, <2>3, <2>4 DEF AppliedInv
<1> QED
  BY <1>1, <1>2

\* A plan says what is to be done, and nothing where there is nothing to do.
LEMMA DiffProper ==
  ASSUME ~ArchivedUnreadable, Ground, NEW n \in Declared, Diff(n), task'[n] = "done"
  PROVE  Readied(n)'
<1>0. /\ change \in [Names -> Changes] /\ n \in Names /\ Want(n)' = Want(n)
      /\ UNCHANGED <<repo, owner>> /\ repo[n] \in Repos /\ Young(n)
      /\ owner[n] = "nobody" => repo[n] = Blank
      /\ Want(n).archived \in BOOLEAN /\ task \in [Names -> Tasks]
  BY WantType
  DEF Ground, WaitInv, CourseInv, OwnInv, LeftAlone, TypeInv, TypeOK, CommandTypeOK, ForgeTypeOK,
      Diff, diskVars, forgeVars, Want, Wants
<1>1. CASE Lookup(n) = "nobody"
  <2>1. change'[n] = Creation(Want(n))
    BY <1>0, <1>1 DEF Diff
  <2>2. change'[n].create /\ ~change'[n].live.known
    BY <2>1 DEF Creation, Unseen
  <2>3. ~repo[n].archived
    BY <1>0, <1>1 DEF Lookup, Young, Blank
  <2> QED BY <1>0, <2>2, <2>3 DEF Readied, Unmade
<1>2. CASE Lookup(n) # "nobody"
  <2> DEFINE r == repo[n]
             w == Want(n)
             c == DiffOne(w, r, Previous(n))
  <2>1. change'[n] = c /\ ~DiffGuards(w, owner[n], r)
    BY <1>0, <1>2 DEF Diff, Ends
  <2>2. IsOurs(owner[n]) /\ owner[n] # "nobody" /\ ~(w.empty /\ ~r.empty)
    BY <1>2, <2>1 DEF DiffGuards, Unreadable, Lookup
  <2>3. /\ ~c.create /\ c.live = SeenOf(r)
        /\ c.push <=> ~w.empty /\ (r.empty \/ SeedMissing(w, r))
        /\ ~c.notes => ~SettingsDiffer(w, r) /\ (~w.empty /\ ~r.empty => r.default = w.default)
    BY DEF DiffOne, Unreadable
  <2> HIDE DEF c
  <2>4. c.push \/ SeedThere(n)
    BY <2>3 DEF SeedThere, SeedMissing
  <2>5. ASSUME ~Needed(c)
        PROVE  AsWanted(n)
    <3>1. ~c.push /\ ~c.notes
      BY <2>5 DEF Needed
    <3>2. Shown(n) /\ Topical(n) /\ r.archived = w.archived
      BY <2>3, <3>1 DEF SettingsDiffer, Shown, Topical
    <3>3. Based(n)
      BY <2>3, <3>1 DEF Based
    <3> QED BY <2>2, <2>4, <3>1, <3>2, <3>3 DEF AsWanted, NotOurs, IsOurs
  <2>6. /\ c.live.topics = r.topics /\ c.live.visibility = r.visibility
        /\ c.live.default = r.default /\ c.live.archived = r.archived
    BY <2>3 DEF SeenOf
  <2>7. Seen(n)'
    BY <1>0, <2>1, <2>6 DEF Seen, SeenTopics
  <2>8. (SeedThere(n) => SeedThere(n)') /\ (AsWanted(n) => AsWanted(n)')
    BY <1>0 DEF SeedThere, AsWanted, NotOurs, Shown, Based, Topical
  <2> QED BY <1>0, <2>1, <2>3, <2>4, <2>5, <2>6, <2>7, <2>8 DEF Readied
<1> QED
  BY <1>1, <1>2

\* What a failed task has done is not asked.
LEMMA FailedProper ==
  ASSUME NEW n, task'[n] = "failed"
  PROVE  Applying(n)'
BY DEF Applying, Creating, Lifting, Pushing, Unsettled, Finishing

\* What a task of apply can rely on.
Working(n) ==
  /\ n \in Names /\ n \in Declared /\ repo \in [Names -> Repos] /\ repo[n] \in Repos
  /\ task \in [Names -> Tasks] /\ change \in [Names -> Changes] /\ patch \in [Names -> Patches]
  /\ Want(n) \in Wants /\ UNCHANGED fleet /\ Want(n)' = Want(n)
  /\ ~change[n].recheck /\ Applying(n)

\* Creating a repository leaves it to be pushed to, or empty as declared.
LEMMA CreatingProper ==
  ASSUME NEW n, Working(n),
         \/ CreateLands(n) \/ CreateErrs(n) \/ CreateConflicts(n) \/ CheckLanded(n) \/ Adopt(n)
         \/ Label(n) \/ Appear(n)
  PROVE  Applying(n)'
<1> USE DEF Goes, Ends
<1>0. /\ task \in [Names -> Tasks] /\ repo \in [Names -> Repos] /\ n \in Names /\ change' = change
      /\ Want(n)' = Want(n) /\ repo[n] \in Repos
      /\ task[n] \in Creating /\ Unmade(n) /\ (task[n] = "appear" => Want(n).empty)
  BY DEF Working, CreateLands, CreateErrs, CreateConflicts, CheckLanded, Adopt, Label, Appear,
         Creating, Applying
<1>1. ~repo'[n].archived
  <2>1. CASE CreateLands(n)
    <3>1. \E b \in Branches, t \in Topics : repo'[n] = NewRepo(Want(n), b, t)
      BY <1>0, <2>1 DEF CreateLands, ForgeCreates
    <3> QED BY <3>1 DEF NewRepo
  <2>2. CASE Label(n)
    <3>1. repo' = repo \/ repo'[n] = [repo[n] EXCEPT !.topics = Want(n).topics]
      BY <1>0, <2>2 DEF Label, Write, forgeVars
    <3> QED BY <1>0, <3>1 DEF Unmade, Repos
  <2>3. CASE ~CreateLands(n) /\ ~Label(n)
    BY <1>0, <2>3
    DEF CreateErrs, CreateConflicts, CheckLanded, Adopt, Appear, forgeVars, Unmade
  <2> QED BY <2>1, <2>2, <2>3
<1>2. Unmade(n)' /\ ~change'[n].live.known
  BY <1>0, <1>1 DEF Unmade
<1>3. Seen(n)'
  BY <1>2 DEF Seen, SeenTopics
<1>4. Want(n).empty => SeedThere(n)'
  BY <1>0 DEF SeedThere
<1>5. \/ task'[n] \in {"create", "landed?", "adopt", "label", "failed"}
      \/ task'[n] = "push"
      \/ task'[n] = "appear" /\ Want(n).empty
      \/ task'[n] = "pushed" /\ Want(n).empty
  BY <1>0
  DEF CreateLands, CreateErrs, CreateConflicts, CheckLanded, Adopt, Recognise, Label, Appear,
      Built
<1> QED
  BY <1>0, <1>1, <1>2, <1>3, <1>4, <1>5
  DEF Applying, Creating, Lifting, Pushing, Unsettled, Finishing

\* So does what a command does to be able to push.
LEMMA LiftingProper ==
  ASSUME NEW n, Working(n), ForcePushErrs(n) \/ Lift(n) \/ Unarchive(n) \/ Unarchived(n)
  PROVE  Applying(n)'
<1> USE DEF Goes, Ends
<1>0. /\ task \in [Names -> Tasks] /\ repo \in [Names -> Repos] /\ n \in Names /\ change' = change
      /\ patch \in [Names -> Patches] /\ Want(n)' = Want(n) /\ repo[n] \in Repos
      /\ fleet' = fleet /\ ~change[n].recheck
      /\ task[n] \in Lifting \cup Pushing /\ Seen(n)
      /\ task[n] \in Lifting => change[n].push \/ SeedThere(n)
      /\ task[n] = "unarchiving" => Requested(n, FALSE)
      /\ task[n] \in Pushing => ~repo[n].archived
  BY DEF Working, ForcePushErrs, Lift, Unarchive, Unarchived, Replied, Lifting, Pushing, Applying
<1>1. Alike(n)
  <2>1. CASE Lift(n)
    <3>1. repo'[n] = Relaxed(repo[n], Want(n).default)
      BY <1>0, <2>1 DEF Lift, Write
    <3> QED BY <1>0, <3>1 DEF Relaxed, Alike, SameRefs, Repos
  <2>2. CASE ~Lift(n)
    BY <2>2, UnchangedAlike
    DEF ForcePushErrs, Unarchive, Unarchived, Replied, ForgeReadsRow, forgeVars
  <2> QED BY <2>1, <2>2
<1>2. /\ Seen(n)' /\ (SeedThere(n) => SeedThere(n)') /\ repo'[n].archived = repo[n].archived
      /\ change'[n] = change[n]
  BY <1>0, <1>1, StillSo, StillSeen DEF Alike
<1>3. CASE ForcePushErrs(n) \/ Lift(n)
  <2>1. task'[n] \in {"lift", "push again"} /\ task[n] \in Pushing
    BY <1>0, <1>3 DEF ForcePushErrs, Lift, Pushing
  <2> QED
    BY <1>0, <1>2, <2>1 DEF Applying, Creating, Lifting, Pushing, Unsettled, Finishing
<1>4. CASE Unarchive(n)
  <2>1. /\ task[n] = "unarchive" /\ task'[n] = "unarchiving"
        /\ patch'[n] = [busy |-> TRUE, empty |-> repo[n].empty,
                        visibility |-> {}, default |-> {}, archived |-> {FALSE}]
    BY <1>0, <1>4 DEF Unarchive, ForgeReadsRow
  <2>2. Requested(n, FALSE)'
    BY <2>1 DEF Requested
  <2>3. change'[n].push \/ SeedThere(n)'
    BY <1>0, <1>2, <2>1 DEF Lifting
  <2> QED
    BY <1>2, <2>1, <2>2, <2>3
    DEF Applying, Creating, Lifting, Pushing, Unsettled, Finishing
<1>5. CASE Unarchived(n)
  <2>1. /\ task[n] = "unarchiving" /\ ~patch[n].busy
        /\ task'[n] = IF change[n].push THEN "push" ELSE "pushed"
    BY <1>0, <1>5 DEF Unarchived, Replied, Seeding
  <2>2. ~repo'[n].archived
    BY <1>0, <1>2, <2>1 DEF Requested
  <2>3. task'[n] = "pushed" => SeedThere(n)'
    BY <1>0, <1>2, <2>1 DEF Lifting
  <2> QED
    BY <1>2, <2>1, <2>2, <2>3
    DEF Applying, Creating, Lifting, Pushing, Unsettled, Finishing
<1> QED
  BY <1>3, <1>4, <1>5

\* A push that is taken brings the seed.
LEMMA PushingProper ==
  ASSUME CourseInv, NEW n, Working(n), PushSeed(n)
  PROVE  Applying(n)'
<1> USE DEF Goes, Ends
<1>0. /\ task \in [Names -> Tasks] /\ n \in Names /\ n \in Declared /\ change' = change
      /\ Want(n)' = Want(n) /\ task[n] \in Pushing /\ Seen(n) /\ ~repo[n].archived
  BY DEF Working, PushSeed, ForcePush, Pushing, Applying
<1>1. task'[n] \in {"pushed", "lift", "failed"}
  BY <1>0 DEF PushSeed, ForcePush
<1>2. /\ task'[n] = "pushed" => SeedThere(n)'
      /\ repo'[n].visibility = repo[n].visibility /\ repo'[n].topics = repo[n].topics
      /\ repo'[n].archived = repo[n].archived
      /\ repo[n].default = Want(n).default => repo'[n].default = Want(n).default
  BY <1>0, PushSeedLands
<1>3. Seen(n)'
  BY <1>0, <1>2 DEF Seen, SeenTopics
<1> QED
  BY <1>0, <1>1, <1>2, <1>3 DEF Applying, Creating, Lifting, Pushing, Unsettled, Finishing

\* What is read back is what there is.
LEMMA CurrentSeen ==
  ASSUME NEW n, Working(n), repo' = repo, Seen(n),
         change'[n].live = Current(n) \/ change'[n].live = Unseen(Want(n))
  PROVE  Seen(n)'
<1>0. Want(n)' = Want(n) /\ repo'[n] = repo[n]
  BY DEF Working
<1>1. CASE change'[n].live = change[n].live
  BY <1>0, <1>1 DEF Seen, SeenTopics
<1>2. CASE change'[n].live = Unseen(Want(n))
  BY <1>2 DEF Seen, SeenTopics, Unseen
<1>3. CASE change'[n].live = SeenOf(repo[n])
  BY <1>0, <1>3 DEF Seen, SeenTopics, SeenOf
<1> QED
  BY <1>1, <1>2, <1>3 DEF Current

\* With the push reported, the settings are next.
LEMMA ReadingProper ==
  ASSUME NEW n, Working(n), ReadBack(n) \/ WaitPushed(n)
  PROVE  Applying(n)'
<1> USE DEF Goes, Ends
<1>0. /\ task \in [Names -> Tasks] /\ change \in [Names -> Changes] /\ n \in Names
      /\ UNCHANGED <<repo, fleet>>
      /\ task[n] \in Unsettled /\ Seen(n) /\ ~repo[n].archived /\ SeedThere(n)
      /\ task'[n] \in {"wait", "settings"}
  BY DEF Working, ReadBack, WaitPushed, Unsettled, Applying, forgeVars
<1>1. Alike(n)
  BY <1>0, UnchangedAlike
<1>2. SeedThere(n)' /\ ~repo'[n].archived
  BY <1>0, <1>1, StillSo
<1>3. Seen(n)'
  <2>1. CASE ReadBack(n)
    <3>1. \E x \in {Current(n), Unseen(Want(n))} : change' = [change EXCEPT ![n].live = x]
      BY <2>1 DEF ReadBack
    <3>2. change'[n].live \in {Current(n), Unseen(Want(n))}
      BY <1>0, <3>1 DEF Changes
    <3> QED BY <1>0, <3>2, CurrentSeen
  <2>2. CASE WaitPushed(n)
    BY <1>0, <1>1, <2>2, StillSeen DEF WaitPushed
  <2> QED BY <2>1, <2>2
<1> QED
  BY <1>0, <1>2, <1>3 DEF Applying, Creating, Lifting, Pushing, Unsettled, Finishing

\* A settings write asks for what is declared; where none is needed that is there.
LEMMA SettleProper ==
  ASSUME NEW n, Working(n), Settle(n)
  PROVE  Applying(n)'
<1> USE DEF Goes, Ends
<1>0. /\ task \in [Names -> Tasks] /\ patch \in [Names -> Patches] /\ n \in Names
      /\ change' = change /\ repo' = repo /\ fleet' = fleet /\ Want(n)' = Want(n)
      /\ task[n] \in Unsettled /\ Seen(n) /\ ~repo[n].archived /\ SeedThere(n)
  BY DEF Working, Settle, ForgeReadsRow, Unsettled, Applying, forgeVars
<1>1. Alike(n)
  BY <1>0, UnchangedAlike
<1>2. SeedThere(n)' /\ ~repo'[n].archived /\ SeenTopics(n)'
  BY <1>0, <1>1, StillSo, StillSeen DEF Seen
<1>3. /\ HasVisibility /\ NewVisibility(n) = {} => repo[n].visibility = Want(n).visibility
      /\ ~Want(n).empty /\ NewDefault(n) = {} => repo[n].default = Want(n).default
  BY <1>0 DEF NewVisibility, NewDefault, Built, Seen
<1>4. CASE ~NewSettings(n)
  <2>1. task'[n] = "topics"
    BY <1>0, <1>4 DEF Settle
  <2>2. Shown(n) /\ Based(n)
    BY <1>3, <1>4 DEF NewSettings, Shown, Based
  <2>3. Shown(n)' /\ Based(n)'
    BY <1>0, <1>1, <2>2, StillSo
  <2> QED
    BY <1>2, <2>1, <2>3 DEF Applying, Creating, Lifting, Pushing, Unsettled, Finishing
<1>5. CASE NewSettings(n) /\ SettingsTaken(n)
  <2>1. /\ task'[n] = "saving"
        /\ patch'[n] = [busy |-> TRUE, empty |-> repo[n].empty,
                        visibility |-> NewVisibility(n), default |-> NewDefault(n),
                        archived |-> {}]
    BY <1>0, <1>5 DEF Settle, ForgeReadsRow
  <2>2. /\ NewVisibility(n) \in {{}, {Want(n).visibility}}
        /\ NewDefault(n) \in {{}, {Want(n).default}}
    BY DEF NewVisibility, NewDefault
  <2>3. /\ HasVisibility =>
             Asked(repo[n].visibility, NewVisibility(n)) = Want(n).visibility
        /\ ~Want(n).empty => Asked(repo[n].default, NewDefault(n)) = Want(n).default
    BY <1>3, <2>2 DEF Asked
  <2>4. Saving(n)'
    BY <1>0, <1>2, <2>1, <2>3 DEF Saving
  <2> QED
    BY <1>2, <2>1, <2>4 DEF Applying, Creating, Lifting, Pushing, Unsettled, Finishing
<1>6. CASE NewSettings(n) /\ ~SettingsTaken(n)
  BY <1>0, <1>6, FailedProper DEF Settle
<1> QED
  BY <1>4, <1>5, <1>6

\* The reply is that they are saved.
LEMMA SettledProper ==
  ASSUME NEW n, Working(n), Settled(n)
  PROVE  Applying(n)'
<1> USE DEF Goes, Ends
<1>0. /\ task \in [Names -> Tasks] /\ n \in Names /\ UNCHANGED <<change, repo, fleet>>
      /\ task'[n] = "topics" /\ task[n] = "saving" /\ Saving(n) /\ SeedThere(n) /\ ~patch[n].busy
  BY DEF Working, Settled, Replied, Applying, forgeVars
<1>1. /\ Alike(n) /\ change'[n] = change[n]
      /\ ~repo[n].archived /\ SeenTopics(n) /\ Shown(n) /\ Based(n)
  BY <1>0, UnchangedAlike DEF Saving
<1>2. /\ SeedThere(n)' /\ Shown(n)' /\ Based(n)' /\ SeenTopics(n)' /\ ~repo'[n].archived
  BY <1>0, <1>1, StillSo, StillSeen DEF Alike
<1> QED
  BY <1>0, <1>2 DEF Applying, Creating, Lifting, Pushing, Unsettled, Finishing

\* Topics are set where they differ.
LEMMA TopicsProper ==
  ASSUME NEW n, Working(n), SetTopics(n)
  PROVE  Applying(n)'
<1> USE DEF Goes, Ends
<1>0. /\ task \in [Names -> Tasks] /\ repo \in [Names -> Repos] /\ repo[n] \in Repos
      /\ n \in Names /\ UNCHANGED <<change, fleet>> /\ Want(n)' = Want(n)
      /\ task[n] = "topics" /\ SeenTopics(n) /\ Shown(n) /\ Based(n) /\ SeedThere(n)
      /\ ~repo[n].archived
  BY DEF Working, SetTopics, Applying, Finishing
<1>1. CASE task'[n] = "failed"
  BY <1>1, FailedProper
<1>2. CASE task'[n] # "failed"
  <2>1. /\ task'[n] = "stale refs"
        /\ \/ repo' = repo /\ Topical(n)
           \/ repo'[n] = [repo[n] EXCEPT !.topics = Want(n).topics]
    BY <1>0, <1>2 DEF SetTopics, Write, forgeVars, SeenTopics, Topical
  <2>2. /\ SameRefs(repo[n], repo'[n]) /\ repo'[n].visibility = repo[n].visibility
        /\ repo'[n].default = repo[n].default /\ ~repo'[n].archived
        /\ HasTopics => repo'[n].topics = Want(n).topics
    BY <1>0, <2>1 DEF SameRefs, Repos, Topical
  <2>3. SeedThere(n)' /\ Shown(n)' /\ Based(n)' /\ Topical(n)'
    BY <1>0, <2>2 DEF SeedThere, SameRefs, Shown, Based, Topical
  <2> QED
    BY <2>1, <2>2, <2>3 DEF Applying, Creating, Lifting, Pushing, Unsettled, Finishing
<1> QED
  BY <1>1, <1>2

\* The refs deleted are none that are declared.
LEMMA StaleProper ==
  ASSUME CourseInv, NEW n, Spares(n), Working(n), DeleteStaleRefs(n)
  PROVE  Applying(n)'
<1> USE DEF Goes, Ends
<1>0. /\ task \in [Names -> Tasks] /\ n \in Declared /\ n \in Names /\ Want(n)' = Want(n)
      /\ task[n] = "stale refs" /\ Shown(n) /\ Based(n) /\ SeedThere(n) /\ Topical(n)
      /\ ~repo[n].archived /\ task'[n] \in {"archive", "failed"}
  BY DEF Working, DeleteStaleRefs, Applying, Finishing
<1>1. /\ repo'[n].branches[Want(n).default] = repo[n].branches[Want(n).default]
      /\ \A t \in Want(n).tags \cup {Baseline} : repo'[n].tags[t] = repo[n].tags[t]
      /\ repo'[n].visibility = repo[n].visibility /\ repo'[n].topics = repo[n].topics
      /\ repo'[n].archived = repo[n].archived /\ repo'[n].default = repo[n].default
  BY <1>0, DeleteStaleSpares
<1>2. SeedThere(n)' /\ Shown(n)' /\ Based(n)' /\ Topical(n)'
  BY <1>0, <1>1 DEF SeedThere, Shown, Based, Topical
<1> QED
  BY <1>0, <1>1, <1>2 DEF Applying, Creating, Lifting, Pushing, Unsettled, Finishing

\* Archiving comes last, and is waited for.
LEMMA ArchiveProper ==
  ASSUME NEW n, Working(n), Archive(n) \/ Archived(n), owner'[n] = owner[n], ~NotOurs(n)
  PROVE  Applying(n)'
<1> USE DEF Goes, Ends
<1>0. /\ task \in [Names -> Tasks] /\ patch \in [Names -> Patches] /\ n \in Names
      /\ change' = change /\ repo' = repo /\ fleet' = fleet /\ Want(n)' = Want(n)
      /\ Want(n).archived \in BOOLEAN /\ repo[n].archived \in BOOLEAN
      /\ task[n] \in Finishing /\ SeedThere(n) /\ Shown(n) /\ Based(n) /\ Topical(n)
      /\ task[n] = "archive" => ~repo[n].archived
      /\ task[n] = "archiving" => Want(n).archived /\ Requested(n, TRUE)
  BY DEF Working, Archive, Archived, Replied, ForgeReadsRow, Finishing, Applying, forgeVars, Wants,
         Repos
<1>1. Alike(n)
  BY <1>0, UnchangedAlike
<1>2. /\ SeedThere(n)' /\ Shown(n)' /\ Based(n)' /\ Topical(n)'
      /\ ~NotOurs(n)' /\ repo'[n].archived = repo[n].archived
  BY <1>0, <1>1, StillSo DEF NotOurs
<1>3. CASE Archive(n) /\ Want(n).archived
  <2>1. /\ task'[n] = "archiving"
        /\ patch'[n] = [busy |-> TRUE, empty |-> repo[n].empty,
                        visibility |-> {}, default |-> {}, archived |-> {TRUE}]
    BY <1>0, <1>3 DEF Archive, ForgeReadsRow
  <2>2. Requested(n, TRUE)'
    BY <2>1 DEF Requested
  <2> QED
    BY <1>0, <1>2, <1>3, <2>1, <2>2
    DEF Applying, Creating, Lifting, Pushing, Unsettled, Finishing
<1>4. CASE (Archive(n) /\ ~Want(n).archived) \/ Archived(n)
  <2>1. task'[n] = "done" /\ repo[n].archived = Want(n).archived
    BY <1>0, <1>4 DEF Archive, Archived, Replied, Requested
  <2>2. AsWanted(n)'
    BY <1>0, <1>2, <2>1 DEF AsWanted
  <2> QED
    BY <2>1, <2>2 DEF Applying, Creating, Lifting, Pushing, Unsettled, Finishing
<1> QED
  BY <1>3, <1>4

\* A task of apply goes on from there.
LEMMA ApplyingProper ==
  ASSUME Ground, NEW n \in Names, RunTask(n), phase \in {"apply", "settle"}, Applying(n)
  PROVE  Applying(n)'
<1>0. /\ CourseInv /\ n \in Declared /\ Spares(n) /\ ~ResetTask(n) /\ Working(n)
      /\ task[n] \in Stages(phase) /\ task[n] # "recheck"
  <2>1. /\ CourseInv /\ n \in Declared /\ cmd = "apply" /\ fleet' = fleet
        /\ task[n] \in Stages(phase)
    BY TaskDeclared, TaskAside
    DEF Ground, WaitInv, CourseInv, Course, InStage, OwnInv, diskVars
  <2>2. Want(n)' = Want(n) /\ Want(n) \in Wants
    BY <2>1, WantType DEF Want, CourseInv, OwnInv
  <2> QED
    BY <2>1, <2>2, ResetTaskResets
    DEF Working, Ground, PlanInv, CourseInv, OwnInv, TypeInv, TypeOK, ForgeTypeOK,
        CommandTypeOK, Applying
<1>1. CASE task'[n] = "failed"
  BY <1>1, FailedProper
<1>2. CASE task'[n] # "failed"
  <2>1. \/ ForcePushErrs(n) \/ Lift(n) \/ Unarchive(n) \/ Archive(n) \/ Archived(n)
        \/ ApplyTask(n)
    BY <1>0, <1>2
    DEF RunTask, CommandTask, StepFails, Await, AwaitTimesOut, Compare, CompareBelievesMissing,
        Ends, Working, Stages, Seeds, Settling
  <2>2. CASE CreateLands(n) \/ CreateErrs(n) \/ CreateConflicts(n) \/ CheckLanded(n) \/ Adopt(n)
             \/ Label(n) \/ Appear(n)
    BY <1>0, <2>2, CreatingProper
  <2>3. CASE ForcePushErrs(n) \/ Lift(n) \/ Unarchive(n) \/ Unarchived(n)
    BY <1>0, <2>3, LiftingProper
  <2>4. CASE PushSeed(n)
    BY <1>0, <2>4, PushingProper
  <2>5. CASE ReadBack(n) \/ WaitPushed(n)
    BY <1>0, <2>5, ReadingProper
  <2>6. CASE Settle(n) \/ Settled(n) \/ SetTopics(n)
    BY <1>0, <2>6, SettleProper, SettledProper, TopicsProper
  <2>7. CASE DeleteStaleRefs(n)
    BY <1>0, <2>7, StaleProper
  <2>8. CASE Archive(n) \/ Archived(n)
    <3>1. task[n] \in {"archive", "archiving"} /\ owner' = owner
      BY <2>8 DEF Archive, Archived, Replied, ForgeReadsRow, forgeVars
    <3>2. ~NotOurs(n)
      BY <1>0, <3>1 DEF CourseInv, OwnInv, LeftAlone, Harmless, Writing
    <3> QED BY <1>0, <2>8, <3>1, <3>2, ArchiveProper
  <2>9. ~Recheck(n) /\ ~Diff(n) /\ ~WaitPushedTimesOut(n)
    BY <1>0, <1>2
    DEF Recheck, Diff, WaitPushedTimesOut, GivesUp, Ends, Working, Stages, Seeds, Settling
  <2> QED
    BY <2>1, <2>2, <2>3, <2>4, <2>5, <2>6, <2>7, <2>8, <2>9 DEF ApplyTask
<1> QED
  BY <1>1, <1>2

\* So does every task.
LEMMA TaskProper ==
  ASSUME ~ArchivedUnreadable, Ground, AppliedInv, NEW n \in Names, RunTask(n)
  PROVE  AppliedInv'
<1>0. /\ CourseInv /\ Aside(n) /\ UNCHANGED <<fleet, cmd, phase>> /\ n \in Declared
      /\ task[n] \in Stages(phase) /\ Declared' = Declared /\ Declared \subseteq Names
      /\ phase \in {"plan", "apply", "settle"} => cmd = "apply"
      /\ task \in [Names -> Tasks]
  BY TaskAside, TaskDeclared, WantType
  DEF Ground, WaitInv, CourseInv, Course, InStage, OwnInv, TypeInv, TypeOK, CommandTypeOK,
      diskVars, runVars, Declared
<1>1. \A m \in Declared \ {n} : Proper(m)'
  BY <1>0, UnchangedAlike, StillProper DEF AppliedInv, Aside
<1>2. phase = "plan" /\ task'[n] = "done" => Readied(n)'
  <2> SUFFICES ASSUME phase = "plan", task'[n] = "done" PROVE Readied(n)'
    OBVIOUS
  <2>1. task[n] = "diff" /\ ~ResetTask(n)
    BY <1>0, TaskBusy, ResetTaskResets DEF Stages
  <2>2. Diff(n)
    BY <1>0, <2>1
    DEF RunTask, CommandTask, StepFails, ForcePushErrs, Lift, Unarchive, Archive, Archived,
        Replied, Await, AwaitTimesOut, Compare, CompareBelievesMissing, ApplyTask, CreateLands,
        CreateErrs, CreateConflicts, CheckLanded, Adopt, Label, Appear, Unarchived, Recheck,
        PushSeed, ForcePush, ReadBack, WaitPushed, WaitPushedTimesOut, Settle, Settled,
        SetTopics, DeleteStaleRefs, Ends
  <2> QED BY <1>0, <2>2, DiffProper
<1>3. phase \in {"apply", "settle"} => Applying(n)'
  BY <1>0, ApplyingProper DEF AppliedInv, Proper
<1>4. cmd = "apply" /\ phase = "ready" => AsWanted(n)'
  <2> SUFFICES ASSUME cmd = "apply", phase = "ready" PROVE AsWanted(n)'
    OBVIOUS
  <2>1. task[n] = "await" /\ ~ResetTask(n)
    BY <1>0, TaskBusy, ResetTaskResets DEF Stages
  <2>2. UNCHANGED forgeVars
    BY <2>1
    DEF RunTask, CommandTask, StepFails, ForcePushErrs, Lift, Unarchive, Archive, Archived,
        Replied, Await, AwaitTimesOut, GivesUp, Compare, CompareBelievesMissing, ApplyTask,
        Diff, CreateLands, CreateErrs, CreateConflicts, CheckLanded, Adopt, Label, Appear,
        Unarchived, Recheck, PushSeed, ForcePush, ReadBack, WaitPushed, WaitPushedTimesOut,
        Settle, Settled, SetTopics, DeleteStaleRefs
  <2> QED
    BY <1>0, <2>2, UnchangedAlike, StillSo DEF AppliedInv, Proper, forgeVars
<1>5. Proper(n)'
  BY <1>0, <1>2, <1>3, <1>4 DEF Proper
<1> QED
  BY <1>0, <1>1, <1>5 DEF AppliedInv

\* The property, without its box: what the lock is written over is as declared.
AppliedStep ==
  cmd = "apply" /\ phase' = "ready" => \A n \in Declared : Applied(Want(n), owner[n], repo[n])

\* What is as wanted is applied.
LEMMA WantedApplied ==
  ASSUME Ground, NEW n \in Declared, AsWanted(n)
  PROVE  Applied(Want(n), owner[n], repo[n])
<1>1. owner[n] \in Owners
  BY WantType DEF Ground, WaitInv, CourseInv, OwnInv, TypeInv, TypeOK, ForgeTypeOK
<1> QED
  BY <1>1
  DEF AsWanted, NotOurs, Owners, IsOurs, SeedThere, Shown, Based, Topical, Applied, SettingsAs

\* Work starts where the plan says.
LEMMA FirstStepProper ==
  ASSUME NEW n, Readied(n), ~change[n].recheck, UNCHANGED <<fleet, change, forgeVars>>,
         task'[n] = IF Needed(change[n]) THEN FirstStep(n) ELSE "done"
  PROVE  Applying(n)'
<1>0. Want(n)' = Want(n) /\ repo'[n] = repo[n] /\ owner'[n] = owner[n] /\ Alike(n)
  BY UnchangedAlike DEF Want, forgeVars
<1>1. CASE change[n].create
  <2>1. task'[n] = "create" /\ Unmade(n)'
    BY <1>0, <1>1, StillSeen DEF Readied, FirstStep, Needed
  <2> QED BY <2>1 DEF Applying, Creating, Lifting, Pushing, Unsettled, Finishing
<1>2. CASE ~change[n].create /\ ~Needed(change[n])
  <2>1. task'[n] = "done" /\ AsWanted(n)'
    BY <1>0, <1>2, StillSo DEF Readied
  <2> QED BY <2>1 DEF Applying, Creating, Lifting, Pushing, Unsettled, Finishing
<1>3. CASE ~change[n].create /\ Needed(change[n])
  <2>1. /\ Seen(n)' /\ (change'[n].push \/ SeedThere(n)')
        /\ change[n].live.archived = repo'[n].archived
    BY <1>0, <1>3, StillSo, StillSeen DEF Readied
  <2>2. task'[n] = IF change[n].live.archived THEN "unarchive"
                   ELSE IF change[n].push THEN "push" ELSE "pushed"
    BY <1>3 DEF FirstStep, Seeding
  <2> QED
    BY <2>1, <2>2 DEF Applying, Creating, Lifting, Pushing, Unsettled, Finishing
<1> QED
  BY <1>1, <1>2, <1>3

\* A forge with batched lookups is asked once more when everything is pushed.
LEMMA StartSettleProper ==
  ASSUME NEW n, Applying(n), UNCHANGED <<fleet, forgeVars>>, task[n] \in {"pushed", "done"},
         Want(n)' = Want(n),
         IF task[n] = "pushed"
         THEN task'[n] = "wait" /\ change'[n].live = Current(n)
         ELSE task'[n] = "done"
  PROVE  Applying(n)'
<1>0. repo'[n] = repo[n] /\ owner'[n] = owner[n] /\ Alike(n)
  BY UnchangedAlike DEF forgeVars
<1>1. CASE task[n] = "pushed"
  <2>1. Seen(n) /\ ~repo[n].archived /\ SeedThere(n)
    BY <1>1 DEF Applying, Unsettled
  <2>2. SeedThere(n)' /\ ~repo'[n].archived
    BY <1>0, <2>1, StillSo
  <2>3. Seen(n)'
    <3>1. CASE change'[n].live = change[n].live
      BY <1>0, <2>1, <3>1 DEF Seen, SeenTopics
    <3>2. CASE change'[n].live = Unseen(Want(n))
      BY <3>2 DEF Seen, SeenTopics, Unseen
    <3>3. CASE change'[n].live = SeenOf(repo[n])
      BY <1>0, <3>3 DEF Seen, SeenTopics, SeenOf
    <3> QED BY <1>1, <3>1, <3>2, <3>3 DEF Current
  <2> QED
    BY <1>1, <2>2, <2>3 DEF Applying, Creating, Lifting, Pushing, Unsettled, Finishing
<1>2. CASE task[n] = "done"
  <2>1. AsWanted(n)' /\ task'[n] = "done"
    BY <1>0, <1>2, StillSo DEF Applying
  <2> QED BY <2>1 DEF Applying, Creating, Lifting, Pushing, Unsettled, Finishing
<1> QED
  BY <1>1, <1>2

\* A phase follows another when all its tasks are through.
LEMMA RunProper ==
  ASSUME Ground, AppliedInv, RunStep \/ RunApply \/ RunVerify \/ RunReset \/ Kill \/ EditFleet
  PROVE  AppliedInv' /\ AppliedStep
<1>0. /\ Declared \subseteq Names /\ (cmd = "none" <=> phase = "idle") /\ UNCHANGED forgeVars
      /\ \A n \in Names : ~change[n].recheck
      /\ PhaseOver /\ AllWell => \A n \in Names : task[n] = "done"
      /\ phase \in {"plan", "apply", "settle"} => cmd = "apply"
      /\ phase \in {"survey", "reset"} => cmd = "reset"
      /\ change \in [Names -> Changes]
  BY FleetsAssumption
  DEF Ground, PlanInv, WaitInv, CourseInv, Course, OwnInv, TypeInv, TypeOK, CommandTypeOK,
      Declared, PhaseOver, AllWell, RunStep, CommandStep, Abort, StartCheck, EndCheck, ApplyStep,
      StartWork, StartSettle, WriteLock, ResetStep, StartRepairs, StartReady, RunApply,
      StartApply, RunVerify, StartVerify, RunReset, StartReset, Refuse, Kill, EditFleet
<1>1. ASSUME phase' = "idle", cmd' = "none"
      PROVE  AppliedInv' /\ AppliedStep
  BY <1>1 DEF AppliedInv, Proper, AppliedStep
<1>2. CASE Abort \/ EndCheck \/ Kill \/ EditFleet \/ (StartSettle /\ ~AllWell)
           \/ (StartRepairs /\ Verdict # "drift")
  BY <1>0, <1>1, <1>2
  DEF Abort, EndCheck, Kill, EditFleet, StartSettle, StartRepairs, Finish, Quiet, commandVars,
      runVars
<1>3. CASE RunApply \/ RunVerify \/ RunReset
  <2>1. phase' \in {"idle", "plan", "check", "survey"} /\ cmd = "none"
    BY <1>0, <1>3
    DEF RunApply, StartApply, RunVerify, StartVerify, RunReset, StartReset, Refuse
  <2>2. ASSUME phase' = "plan", NEW n \in Names, task'[n] = "done"
        PROVE  n \notin Declared'
    BY <1>0, <1>3, <2>1, <2>2
    DEF RunApply, StartApply, RunVerify, StartVerify, RunReset, StartReset, Refuse, Each,
        Declared, diskVars
  <2>3. Declared' \subseteq Names
    BY <1>0, <1>3
    DEF RunApply, StartApply, RunVerify, StartVerify, RunReset, StartReset, Refuse, Declared,
        diskVars
  <2> QED
    BY <2>1, <2>2, <2>3 DEF AppliedInv, Proper, AppliedStep
<1>4. CASE StartCheck \/ (StartRepairs /\ Verdict = "drift")
  <2>1. phase' \in {"check", "reset"}
    BY <1>4 DEF StartCheck, StartRepairs, Enter
  <2> QED BY <2>1 DEF AppliedInv, Proper, AppliedStep
<1>5. CASE StartReady
  <2>1. cmd = "reset" /\ cmd' = cmd
    BY <1>0, <1>5 DEF StartReady, Enter
  <2>2. phase' = "ready"
    BY <1>5 DEF StartReady, Enter
  <2> QED BY <2>1, <2>2 DEF AppliedInv, Proper, AppliedStep
<1>6. CASE WriteLock
  <2>1. /\ phase \in {"apply", "settle"} /\ phase' = "ready" /\ fleet' = fleet
        /\ \A n \in Names : task[n] = "done"
    BY <1>0, <1>6 DEF WriteLock, Enter
  <2>2. \A n \in Declared : AsWanted(n)
    BY <1>0, <2>1 DEF AppliedInv, Proper, Applying
  <2>3. AppliedStep
    BY <2>2, WantedApplied DEF AppliedStep
  <2>4. \A n \in Declared : AsWanted(n)'
    BY <1>0, <2>1, <2>2, UnchangedAlike, StillSo DEF forgeVars
  <2>5. Declared' = Declared
    BY <2>1 DEF Declared
  <2> QED BY <2>1, <2>3, <2>4, <2>5 DEF AppliedInv, Proper
<1>7. CASE StartWork
  <2>1. /\ phase = "plan" /\ phase' = "apply" /\ UNCHANGED <<fleet, change>>
        /\ \A n \in Names : task[n] = "done"
        /\ \A n \in Declared : task'[n] = IF Needed(change[n]) THEN FirstStep(n) ELSE "done"
    BY <1>0, <1>7 DEF StartWork, Enter, diskVars
  <2>2. \A n \in Declared : Applying(n)'
    BY <1>0, <2>1, FirstStepProper DEF AppliedInv, Proper
  <2>3. Declared' = Declared
    BY <2>1 DEF Declared
  <2> QED BY <2>1, <2>2, <2>3 DEF AppliedInv, Proper, AppliedStep
<1>8. CASE StartSettle /\ AllWell
  <2>1. /\ phase = "apply" /\ phase' = "settle" /\ fleet' = fleet
        /\ \A n \in Names : task[n] \in {"pushed", "done"}
        /\ \A n \in Names : task'[n] = IF task[n] = "pushed" THEN "wait" ELSE "done"
    BY <1>8 DEF StartSettle, Enter, PushesOver, AllWell, diskVars
  <2>2. \A n \in Names : task[n] = "pushed" => change'[n].live = Current(n)
    BY <1>0, <1>8 DEF StartSettle, Changes
  <2>3. \A n \in Declared : Applying(n)'
    <3> TAKE n \in Declared
    <3>1. n \in Names /\ Want(n)' = Want(n) /\ Applying(n)
      BY <1>0, <2>1 DEF AppliedInv, Proper, Want
    <3> QED BY <1>0, <2>1, <2>2, <3>1, StartSettleProper
  <2>4. Declared' = Declared
    BY <2>1 DEF Declared
  <2> QED BY <2>1, <2>3, <2>4 DEF AppliedInv, Proper, AppliedStep
<1> QED
  BY <1>2, <1>3, <1>4, <1>5, <1>6, <1>7, <1>8 DEF RunStep, CommandStep, ApplyStep, ResetStep

\* LockMeansApplied: when the lock is written every declared repository exists, is
\* forgelab's, and has what the fleet declares -- on a forge that lets archived
\* repositories be read and serves a settings write with the command that asked for it;
\* and, where it makes the first branch pushed the default and reflects pushes later, if
\* tests and the author let it catch up and no declared repository is empty, or new.
THEOREM LockApplied ==
  ASSUME ~ArchivedUnreadable, ~SlowSaves,
         AutoProtect /\ Background => People # "hasty" /\ NoEmpties /\ SameNames
  PROVE  Spec => LockMeansApplied
<1>1. Spec => []WaitInv
  BY WaitAlways
<1>2. Spec => [](RewindInv /\ PlanInv /\ \A n \in Declared : Begins(n))
  BY BeginsAlways DEF Timely
<1>3. WaitInv /\ RewindInv /\ PlanInv /\ (\A n \in Declared : Begins(n)) => Ground
  BY DEF Ground
<1>4. Init => AppliedInv
  BY DEF Init, CommandInit, AppliedInv, Proper
<1>5. Ground /\ AppliedInv /\ [Next]_vars => AppliedInv' /\ AppliedStep
  <2> SUFFICES ASSUME Ground, AppliedInv, [Next]_vars
               PROVE  AppliedInv' /\ AppliedStep
    OBVIOUS
  <2>0. /\ \A n \in Declared : Proper(n)
        /\ phase' = phase => AppliedStep
    BY WantedApplied DEF AppliedInv, Proper, AppliedStep
  <2>1. ASSUME NEW n \in Names, RunTask(n)
        PROVE  AppliedInv' /\ AppliedStep
    <3>1. phase' = phase
      BY <2>1, TaskAside DEF Ground, WaitInv, CourseInv, OwnInv, runVars
    <3> QED BY <2>0, <2>1, <3>1, TaskProper
  <2>2. ASSUME NEW n \in Names, Forges(n) \/ Others(n)
        PROVE  AppliedInv' /\ AppliedStep
    <3>1. phase' = phase
      BY <2>2
      DEF Forges, Saves, Reflects, Answers, Others, TestEdits, UserDeletes, StrangerCreates,
          commandVars, runVars
    <3> QED BY <2>0, <2>2, <3>1, ForgesProper, OthersProper
  <2>3. CASE UNCHANGED vars
    <3>1. /\ UNCHANGED <<fleet, cmd, phase, repo, task, change, patch, owner>>
          /\ Declared' = Declared
      BY <2>3 DEF vars, forgeVars, diskVars, runVars, poolVars, Declared
    <3>2. \A n \in Declared : Proper(n)'
      BY <2>0, <3>1, UnchangedAlike, StillProper
    <3> QED BY <2>0, <3>1, <3>2 DEF AppliedInv
  <2> QED
    BY <2>1, <2>2, <2>3, RunProper DEF Next
<1>6. AppliedStep /\ [Next]_vars
      => [cmd = "apply" /\ phase' = "ready" =>
            \A n \in Declared : Applied(Want(n), owner[n], repo[n])]_vars
  BY DEF AppliedStep
<1>7. Spec => [][cmd = "apply" /\ phase' = "ready" =>
                   \A n \in Declared : Applied(Want(n), owner[n], repo[n])]_vars
  BY <1>1, <1>2, <1>3, <1>4, <1>5, <1>6, PTL DEF Spec
<1> QED
  BY <1>7 DEF LockMeansApplied
=============================================================================
