------------------------------ MODULE ResetProofs ------------------------------
(***************************************************************************)
(* That reset can repair what it reports: as long as nothing fails, no     *)
(* task of it does, and its second comparison finds everything in order -- *)
(* for every fleet, number of repositories and drift, and every forge the  *)
(* hypotheses of each theorem allow.                                       *)
(***************************************************************************)
EXTENDS LockProofs

-----------------------------------------------------------------------------
(* The invariant                                                           *)
(*                                                                         *)
(* What is compared may look different only in a flag the forge sets when  *)
(* it reflects a push: the repository is taken to be as empty as declared. *)

ReadAs(n) == [repo[n] EXCEPT !.empty = Want(n).empty]

Found(n) == CompareOne(Want(n), owner[n], ReadAs(n))

InOrder(n) == ~Found(n).guard /\ ~Found(n).drift

\* A settings write is served before its task goes on, unless something fails.
Swift(n) == patch[n].busy => task[n] \in AwaitingReply

\* It is there, and has content where it should; but where a push is reflected
\* later, one that should be empty may yet turn out not to be.
Stands(n) ==
  /\ owner[n] # "nobody"
  /\ \/ Want(n).empty /\ Background
     \/ /\ repo[n].empty = Want(n).empty
        /\ patch[n].busy => patch[n].empty = Want(n).empty

Repushing == {"push", "lift", "push again", "pushed", "wait"}

Tidying == {"requests", "branches", "tags", "topics", "archive"}

\* The settings write that puts visibility and default branch back, and its reply.
Restoring(n) ==
  IF patch[n].busy
  THEN /\ patch[n].archived = {}
       /\ HasVisibility => Asked(repo[n].visibility, patch[n].visibility) = Want(n).visibility
       /\ ~Want(n).empty => Asked(repo[n].default, patch[n].default) = Want(n).default
  ELSE Shown(n) /\ Based(n)

\* Every ref there should not be is still on the list of what is left to do, and
\* the ones there should be are rewound, or going to be.
RefsLeft(n) ==
  IF Want(n).empty
  THEN ~state[n].dirty /\ state[n].branches = {} /\ state[n].tags = {}
       /\ state[n].requests = {}
  ELSE /\ repo[n].tags[Baseline] = Want(n).baseline
       /\ ExtraBranches(Want(n), repo[n]) \subseteq state[n].branches
       /\ ExtraTags(Want(n), repo[n]) \subseteq state[n].tags
       /\ repo[n].requests \subseteq state[n].requests
       /\ \/ state[n].dirty /\ task[n] \in Lifting \cup Pushing
          \/ ~RefsMoved(Want(n), repo[n])

\* How far the repair of n has come.
Mending(n) ==
  /\ IsOurs(owner[n]) /\ RefsLeft(n)
  /\ task[n] = "unarchiving" => Requested(n, FALSE)
  /\ task[n] \in Repushing \cup Tidying \cup {"settings", "saving"} => ~repo[n].archived
  /\ task[n] \in Repushing => ~Want(n).empty
  /\ task[n] = "push again" => repo[n].protected[Want(n).default] # "yes"
  /\ task[n] = "saving" => Restoring(n)
  /\ task[n] \in Tidying \cup {"archiving", "done"} => Shown(n) /\ Based(n)
  /\ task[n] \in {"branches", "tags", "topics", "archive", "archiving", "done"} =>
       state[n].requests = {}
  /\ task[n] \in {"tags", "topics", "archive", "archiving", "done"} => state[n].branches = {}
  /\ task[n] \in {"topics", "archive", "archiving", "done"} => state[n].tags = {}
  /\ task[n] \in {"archive", "archiving", "done"} => Topical(n)
  /\ task[n] = "archiving" => Want(n).archived /\ Requested(n, TRUE)
  /\ task[n] = "done" => repo[n].archived = Want(n).archived

\* The survey is still true when it is acted on; a repository is being mended, or
\* is in order; and the second comparison sees that.
Repairing(n) ==
  /\ phase = "survey" /\ task[n] = "done" /\ ~state[n].guard =>
       Stands(n) /\ state[n] = Found(n)
  /\ phase = "reset" =>
       /\ Stands(n)
       /\ IF state[n].drift THEN task[n] # "failed" => Mending(n)
          ELSE task[n] = "done" /\ InOrder(n)
  /\ phase = "ready" => Stands(n) /\ InOrder(n) /\ task[n] # "failed"
  /\ phase = "check" =>
       /\ task[n] # "failed"
       /\ task[n] = "compare" => Stands(n) /\ InOrder(n)
       /\ task[n] = "done" /\ (Background => ~Want(n).empty) =>
            ~state[n].guard /\ ~state[n].drift

Repairable ==
  /\ \A n \in Names : Swift(n)
  /\ cmd = "reset" => \A n \in Declared : Repairing(n)

RepairInv ==
  /\ RewindInv
  /\ \A n \in Names : Late(repo[n])
  /\ faults = 0 => Repairable

-----------------------------------------------------------------------------
(* The comparison *)

\* compare_one, part by part, of a repository that can be read.
Compared(want, who, r) == ~CompareGuards(want, who, r) /\ ~want.empty

Parts(want, who, r, s) ==
  /\ s.guard = CompareGuards(want, who, r)
  /\ s.archived = r.archived
  /\ s.dirty = (Compared(want, who, r) /\ RefsMoved(want, r))
  /\ s.branches = IF Compared(want, who, r) THEN ExtraBranches(want, r) ELSE {}
  /\ s.tags = IF Compared(want, who, r) THEN ExtraTags(want, r) ELSE {}
  /\ s.requests = IF Compared(want, who, r) THEN r.requests ELSE {}
  /\ s.drift = (/\ ~CompareGuards(want, who, r)
                /\ \/ SettingsDiffer(want, r)
                   \/ Compared(want, who, r) /\ r.default # want.default
                   \/ s.dirty \/ s.branches # {} \/ s.tags # {} \/ s.requests # {})
  /\ s = [guard |-> s.guard, drift |-> s.drift, archived |-> s.archived, dirty |-> s.dirty,
          branches |-> s.branches, tags |-> s.tags, requests |-> s.requests]

\* compare_one of a repository that can be read, as its parts.
LEMMA CompareOneParts ==
  ASSUME NEW want, NEW who, NEW r, ~Unreadable(r)
  PROVE  Parts(want, who, r, CompareOne(want, who, r))
<1> DEFINE s == CompareOne(want, who, r)
           compared == ~CompareGuards(want, who, r) /\ ~want.empty
<1>1. s.guard = CompareGuards(want, who, r) /\ s.archived = r.archived
  BY DEF CompareOne
<1>2. s.dirty = (compared /\ RefsMoved(want, r))
  BY DEF CompareOne
<1>3. s.branches = IF compared THEN ExtraBranches(want, r) ELSE {}
  BY DEF CompareOne
<1>4. s.tags = IF compared THEN ExtraTags(want, r) ELSE {}
  BY DEF CompareOne
<1>5. s.requests = IF compared THEN r.requests ELSE {}
  BY DEF CompareOne
<1>6. s.drift = (/\ ~CompareGuards(want, who, r)
                 /\ \/ SettingsDiffer(want, r)
                    \/ compared /\ r.default # want.default
                    \/ s.dirty \/ s.branches # {} \/ s.tags # {} \/ s.requests # {})
  BY DEF CompareOne
<1>7. s = [guard |-> s.guard, drift |-> s.drift, archived |-> s.archived, dirty |-> s.dirty,
           branches |-> s.branches, tags |-> s.tags, requests |-> s.requests]
  BY DEF CompareOne
<1> HIDE DEF s
<1> QED
  BY <1>1, <1>2, <1>3, <1>4, <1>5, <1>6, <1>7 DEF Parts, Compared, s

\* It reads nothing of a repository that is to be empty but its settings, and of no
\* repository what is pending or protected.
LEMMA CompareOneSame ==
  ASSUME ~ArchivedUnreadable, NEW want, NEW who, NEW r \in Repos, NEW s \in Repos,
         s.visibility = r.visibility, s.topics = r.topics, s.archived = r.archived,
         \/ want.empty
         \/ s.default = r.default /\ SameRefs(r, s) /\ s.requests = r.requests
  PROVE  CompareOne(want, who, [s EXCEPT !.empty = want.empty])
           = CompareOne(want, who, [r EXCEPT !.empty = want.empty])
<1> DEFINE p == [r EXCEPT !.empty = want.empty]
           q == [s EXCEPT !.empty = want.empty]
<1>1. /\ q.visibility = p.visibility /\ q.topics = p.topics /\ q.archived = p.archived
      /\ q.empty = want.empty /\ p.empty = want.empty
      /\ \/ want.empty
         \/ /\ q.default = p.default /\ q.branches = p.branches /\ q.tags = p.tags
            /\ q.requests = p.requests
  BY DEF Repos, SameRefs
<1> HIDE DEF p, q
<1>2. ~Unreadable(p) /\ ~Unreadable(q)
  BY DEF Unreadable
<1>3. /\ SettingsDiffer(want, q) = SettingsDiffer(want, p)
      /\ CompareGuards(want, who, q) = CompareGuards(want, who, p)
  <2>1. SettingsDiffer(want, q) = SettingsDiffer(want, p)
    BY <1>1 DEF SettingsDiffer
  <2>2. CompareGuards(want, who, q) = CompareGuards(want, who, p)
    BY <1>1, <1>2 DEF CompareGuards
  <2> QED BY <2>1, <2>2
<1>4. ~want.empty => /\ RefsMoved(want, q) = RefsMoved(want, p)
                     /\ ExtraBranches(want, q) = ExtraBranches(want, p)
                     /\ ExtraTags(want, q) = ExtraTags(want, p)
                     /\ q.default = p.default /\ q.requests = p.requests
  BY <1>1 DEF RefsMoved, ExtraBranches, ExtraTags
<1> DEFINE f == CompareOne(want, who, p)
           g == CompareOne(want, who, q)
<1>5. Parts(want, who, p, f) /\ Parts(want, who, q, g)
  BY <1>2, CompareOneParts
<1> HIDE DEF f, g
<1>6. Compared(want, who, q) <=> Compared(want, who, p)
  BY <1>3 DEF Compared
<1>7. /\ g.guard = f.guard /\ g.archived = f.archived /\ g.branches = f.branches
      /\ g.tags = f.tags /\ g.requests = f.requests
  BY <1>1, <1>3, <1>4, <1>5, <1>6 DEF Parts, Compared
<1>8. g.dirty = f.dirty
  BY <1>4, <1>5, <1>6 DEF Parts, Compared
<1>9. g.drift = f.drift
  BY <1>3, <1>4, <1>5, <1>6, <1>7, <1>8 DEF Parts, Compared
<1>10. g = f
  BY <1>5, <1>7, <1>8, <1>9 DEF Parts
<1> QED
  BY <1>10 DEF f, g, p, q

\* What a repository that is read as it should be is found to be.
LEMMA FoundParts ==
  ASSUME ~ArchivedUnreadable, NEW n \in Names, repo[n] \in Repos
  PROVE  LET s == Found(n)
         IN /\ s.archived = repo[n].archived
            /\ s.guard <=> \/ ~IsOurs(owner[n])
                           \/ ~Want(n).empty /\ repo[n].tags[Baseline] # Want(n).baseline
            /\ ~s.guard =>
                 /\ s.dirty <=> ~Want(n).empty /\ RefsMoved(Want(n), repo[n])
                 /\ s.branches = IF Want(n).empty THEN {}
                                 ELSE ExtraBranches(Want(n), repo[n])
                 /\ s.tags = IF Want(n).empty THEN {} ELSE ExtraTags(Want(n), repo[n])
                 /\ s.requests = IF Want(n).empty THEN {} ELSE repo[n].requests
                 /\ s.drift <=> \/ SettingsDiffer(Want(n), repo[n])
                                \/ ~Want(n).empty /\ repo[n].default # Want(n).default
                                \/ s.dirty \/ s.branches # {} \/ s.tags # {}
                                \/ s.requests # {}
<1> DEFINE r == ReadAs(n)
<1>1. /\ r.archived = repo[n].archived /\ r.visibility = repo[n].visibility
      /\ r.topics = repo[n].topics /\ r.default = repo[n].default
      /\ r.branches = repo[n].branches /\ r.tags = repo[n].tags
      /\ r.requests = repo[n].requests /\ r.empty = Want(n).empty
  BY DEF ReadAs, Repos
<1> HIDE DEF r
<1>2. /\ ~Unreadable(r)
      /\ SettingsDiffer(Want(n), r) <=> SettingsDiffer(Want(n), repo[n])
      /\ RefsMoved(Want(n), r) <=> RefsMoved(Want(n), repo[n])
      /\ ExtraBranches(Want(n), r) = ExtraBranches(Want(n), repo[n])
      /\ ExtraTags(Want(n), r) = ExtraTags(Want(n), repo[n])
      /\ CompareGuards(Want(n), owner[n], r)
           <=> \/ ~IsOurs(owner[n])
               \/ ~Want(n).empty /\ repo[n].tags[Baseline] # Want(n).baseline
  BY <1>1
  DEF Unreadable, SettingsDiffer, RefsMoved, ExtraBranches, ExtraTags, CompareGuards
<1>3. Parts(Want(n), owner[n], r, Found(n))
  BY <1>2, CompareOneParts DEF Found, r
<1>4. Compared(Want(n), owner[n], r) <=> ~Found(n).guard /\ ~Want(n).empty
  BY <1>3 DEF Parts, Compared
<1> QED
  BY <1>1, <1>2, <1>3, <1>4 DEF Parts

\* A repository that has been mended is in order.
LEMMA MendedInOrder ==
  ASSUME ~ArchivedUnreadable, NEW n \in Names, repo[n] \in Repos, task[n] = "done", Mending(n)
  PROVE  InOrder(n)
<1>1. /\ IsOurs(owner[n]) /\ RefsLeft(n) /\ Shown(n) /\ Based(n) /\ Topical(n)
      /\ state[n].requests = {} /\ state[n].branches = {} /\ state[n].tags = {}
      /\ repo[n].archived = Want(n).archived
  BY DEF Mending
<1>2. ~SettingsDiffer(Want(n), repo[n])
  BY <1>1 DEF SettingsDiffer, Shown, Topical
<1>3. ~Want(n).empty =>
        /\ repo[n].tags[Baseline] = Want(n).baseline
        /\ ~RefsMoved(Want(n), repo[n])
        /\ ExtraBranches(Want(n), repo[n]) = {} /\ ExtraTags(Want(n), repo[n]) = {}
        /\ repo[n].requests = {} /\ repo[n].default = Want(n).default
  BY <1>1 DEF RefsLeft, Based, Lifting, Pushing
<1> QED
  BY <1>1, <1>2, <1>3, FoundParts DEF InOrder

\* The repair of what was found to have drifted starts from there.
LEMMA FirstMending ==
  ASSUME ~ArchivedUnreadable, NEW n \in Names, repo[n] \in Repos, state[n] = Found(n),
         ~state[n].guard, task'[n] = FirstRepair(n),
         UNCHANGED <<fleet, forgeVars, state>>
  PROVE  Mending(n)'
<1>1. /\ Want(n)' = Want(n) /\ repo'[n] = repo[n] /\ owner'[n] = owner[n]
      /\ state'[n] = state[n]
  BY DEF Want, forgeVars
<1>2. /\ IsOurs(owner[n]) /\ state[n].archived = repo[n].archived
      /\ ~Want(n).empty => repo[n].tags[Baseline] = Want(n).baseline
      /\ state[n].dirty <=> ~Want(n).empty /\ RefsMoved(Want(n), repo[n])
      /\ state[n].branches = IF Want(n).empty THEN {} ELSE ExtraBranches(Want(n), repo[n])
      /\ state[n].tags = IF Want(n).empty THEN {} ELSE ExtraTags(Want(n), repo[n])
      /\ state[n].requests = IF Want(n).empty THEN {} ELSE repo[n].requests
  BY FoundParts
<1>3. /\ task'[n] \in {"unarchive", "push", "settings"}
      /\ task'[n] = "push" => state[n].dirty
      /\ task'[n] # "unarchive" => ~state[n].archived
      /\ task'[n] = "settings" => ~state[n].dirty
  BY DEF FirstRepair, Rewinding
<1>4. RefsLeft(n)'
  BY <1>1, <1>2, <1>3 DEF RefsLeft, Lifting, Pushing
<1> QED
  BY <1>1, <1>2, <1>3, <1>4 DEF Mending, Repushing, Tidying

-----------------------------------------------------------------------------
(* Nothing fails *)

\* What was no fault leaves their count as it is; and these are.
LEMMA TaskFaults ==
  ASSUME CourseInv, NEW n \in Names, RunTask(n), faults' = 0
  PROVE  faults = 0 /\ ~StepFails(n) /\ ~ForcePushErrs(n) /\ ~CompareBelievesMissing(n)
<1>1. faults \in Nat /\ ~Fault
  BY CommandAssumption DEF CourseInv, OwnInv, TypeInv, TypeOK, CommandTypeOK, Fault
<1>2. CASE CommandTask(n)
  BY <1>1, <1>2
  DEF CommandTask, StepFails, ForcePushErrs, Lift, Unarchive, Archive, Archived, Replied,
      Await, AwaitTimesOut, GivesUp, Compare, CompareBelievesMissing
<1>3. CASE ResetTask(n)
  <2>1. faults' = faults
    BY <1>1, <1>3
    DEF ResetTask, LiftedForReset, Replied, Rewind, ForcePush, RewindDone, WaitRewound,
        WaitRewoundTimesOut, GivesUp, RestoreSettings, SettingsRestored, CloseRequests,
        DeleteBranches, DeleteTags, RestoreTopics
  <2> QED BY <1>1, <2>1 DEF StepFails, ForcePushErrs, CompareBelievesMissing
<1>4. CASE ApplyTask(n)
  <2>1. faults' = faults
    BY <1>1, <1>4
    DEF ApplyTask, Diff, CreateLands, CreateErrs, CreateConflicts, CheckLanded, Adopt, Label,
        Appear, Unarchived, Replied, Recheck, PushSeed, ForcePush, ReadBack, WaitPushed,
        WaitPushedTimesOut, GivesUp, Settle, Settled, SetTopics, DeleteStaleRefs
  <2> QED BY <1>1, <2>1 DEF StepFails, ForcePushErrs, CompareBelievesMissing
<1> QED
  BY <1>2, <1>3, <1>4 DEF RunTask

\* Then a task that waits for a reply gets it before it goes on.
LEMMA TaskServed ==
  ASSUME NEW n \in Names, RunTask(n), ~StepFails(n), task[n] \in AwaitingReply
  PROVE  ~patch[n].busy
BY DEF RunTask, CommandTask, ForcePushErrs, Lift, Unarchive, Archive, Archived,
       Replied, Await, AwaitTimesOut, Compare, CompareBelievesMissing, ApplyTask, Diff,
       CreateLands, CreateErrs, CreateConflicts, CheckLanded, Adopt, Label, Appear,
       Unarchived, Recheck, PushSeed, ForcePush, ReadBack, WaitPushed, WaitPushedTimesOut,
       Settle, Settled, SetTopics, DeleteStaleRefs, ResetTask, LiftedForReset, Rewind,
       RewindDone, WaitRewound, WaitRewoundTimesOut, RestoreSettings, SettingsRestored,
       CloseRequests, DeleteBranches, DeleteTags, RestoreTopics, AwaitingReply

\* A task that asks for a settings write waits for it, unless its step fails.
LEMMA TaskSwift ==
  ASSUME CourseInv, NEW n \in Names, RunTask(n), ~StepFails(n), Swift(n)
  PROVE  Swift(n)'
<1>1. CASE patch'[n] = patch[n]
  BY <1>1, TaskServed DEF Swift
<1>2. CASE patch'[n] # patch[n]
  BY <1>2, TaskPatch DEF Swift, AwaitingReply
<1> QED
  BY <1>1, <1>2

\* A push to what has content leaves all but refs as it is.
LEMMA PushedFull ==
  ASSUME NEW r \in Repos, NEW s, r.empty = FALSE, \E b, t : s = Pushed(r, b, t)
  PROVE  /\ s.empty = FALSE
         /\ s.visibility = r.visibility /\ s.topics = r.topics
         /\ s.archived = r.archived /\ s.default = r.default
         /\ s.protected = r.protected /\ s.requests = r.requests
<1>1. PICK b, t : s = Pushed(r, b, t)
  OBVIOUS
<1> QED
  BY <1>1 DEF Pushed, Repos

\* A repository that is mended stays there, and as empty as it is.
LEMMA TaskStands ==
  ASSUME CourseInv, NEW n \in Names, RunTask(n), cmd = "reset", Stands(n),
         task[n] \in {"push", "push again"} => ~Want(n).empty
  PROVE  Stands(n)'
<1>0. /\ repo \in [Names -> Repos] /\ repo[n] \in Repos /\ task[n] \in Stages(phase)
      /\ phase \in {"plan", "apply", "settle"} => cmd = "apply"
      /\ Want(n)' = Want(n) /\ phase \in Phases /\ patch \in [Names -> Patches]
      /\ n \in Declared /\ Want(n) \in Wants
  BY TaskAside, TaskDeclared, WantType
  DEF CourseInv, Course, InStage, OwnInv, TypeInv, TypeOK, ForgeTypeOK, CommandTypeOK, Want,
      diskVars
<1>1. owner' = owner
  <2>1. ~ApplyTask(n)
    BY <1>0, ApplyTaskApplies
  <2> QED
    BY <2>1
    DEF RunTask, CommandTask, StepFails, ForcePushErrs, Lift, Unarchive, Archive, Archived,
        Replied, Await, AwaitTimesOut, GivesUp, Compare, CompareBelievesMissing, ResetTask,
        LiftedForReset, Rewind, ForcePush, RewindDone, WaitRewound, WaitRewoundTimesOut,
        RestoreSettings, SettingsRestored, CloseRequests, DeleteBranches, DeleteTags,
        RestoreTopics, Write, ForgeReadsRow, forgeVars
<1>2. CASE repo'[n].empty = repo[n].empty /\ patch'[n] = patch[n]
  BY <1>0, <1>1, <1>2 DEF Stands
<1>3. CASE patch'[n] # patch[n]
  BY <1>0, <1>1, <1>3, TaskPatch DEF Stands
<1>4. CASE repo'[n].empty # repo[n].empty
  <2>1. task[n] # "create"
    BY <1>0 DEF Stages, Phases, Seeds, Settling
  <2>2. /\ task[n] \in {"push", "push again"} /\ \E b, t : repo'[n] = Pushed(repo[n], b, t)
    BY <1>4, <2>1, TaskRepo DEF Milder
  <2>3. repo[n].empty = FALSE
    BY <1>0, <2>2 DEF Stands, Repos, Wants
  <2> QED
    BY <1>0, <1>4, <2>2, <2>3, PushedFull
<1> QED
  BY <1>2, <1>3, <1>4

-----------------------------------------------------------------------------
(* One repository is mended *)

\* Nothing in it is protected, or what is can be deleted all the same.
Bare(r) == \A b \in Branches : r.protected[b] = "no"

Free(r) == AutoProtect \/ Bare(r)

\* What a step of the repair of n rests on.
Mender(n) ==
  /\ n \in Names /\ owner[n] # "nobody" /\ owner'[n] = owner[n]
  /\ repo \in [Names -> Repos] /\ repo[n] \in Repos /\ patch \in [Names -> Patches]
  /\ task \in [Names -> Tasks] /\ state \in [Names -> States]
  /\ Want(n) \in Wants /\ UNCHANGED fleet /\ Want(n)' = Want(n)
  /\ ~Want(n).empty => repo[n].empty = FALSE
  /\ Rewindable(n) /\ Mending(n)

\* To lift the archiving, and then the protection.
LEMMA LiftMends ==
  ASSUME NEW n, Mender(n), Unarchive(n) \/ LiftedForReset(n) \/ Lift(n)
  PROVE  task'[n] # "failed" /\ Mending(n)'
<1> USE DEF Goes
<1>1. CASE Unarchive(n)
  <2>1. /\ task[n] = "unarchive" /\ task'[n] = "unarchiving" /\ repo' = repo
        /\ state' = state /\ Requested(n, FALSE)'
    BY <1>1 DEF Mender, Unarchive, ForgeReadsRow, Requested
  <2> QED
    BY <2>1 DEF Mender, Mending, RefsLeft, Repushing, Tidying, Lifting
<1>2. CASE LiftedForReset(n)
  <2>1. /\ task[n] = "unarchiving" /\ task'[n] = Rewinding(n) /\ repo' = repo
        /\ state' = state /\ ~repo[n].archived
    BY <1>2 DEF Mender, Mending, LiftedForReset, Replied, Requested, forgeVars
  <2>2. CASE state[n].dirty
    <3>1. task'[n] = "push" /\ ~Want(n).empty
      BY <2>1, <2>2 DEF Mender, Mending, RefsLeft, Rewinding
    <3> QED
      BY <2>1, <2>2, <3>1
      DEF Mender, Mending, RefsLeft, Repushing, Tidying, Lifting, Pushing
  <2>3. CASE ~state[n].dirty
    BY <2>1, <2>3
    DEF Mender, Mending, RefsLeft, Repushing, Tidying, Rewinding
  <2> QED BY <2>2, <2>3
<1>3. CASE Lift(n)
  <2>1. /\ task[n] = "lift" /\ task'[n] = "push again" /\ state' = state
        /\ repo'[n] = Relaxed(repo[n], Want(n).default)
    BY <1>3 DEF Mender, Lift, Write
  <2>2. /\ repo'[n].protected[Want(n).default] # "yes"
        /\ SameRefs(repo[n], repo'[n]) /\ repo'[n].requests = repo[n].requests
        /\ repo'[n].archived = repo[n].archived
    BY <2>1 DEF Mender, Relaxed, SameRefs, Repos, Wants
  <2>3. RefsLeft(n)'
    BY <2>1, <2>2
    DEF Mender, Mending, RefsLeft, SameRefs, ExtraBranches, ExtraTags, RefsMoved, Lifting,
        Pushing
  <2> QED
    BY <2>1, <2>2, <2>3 DEF Mender, Mending, Repushing, Tidying
<1> QED
  BY <1>1, <1>2, <1>3

\* To rewind its refs: what protects the default branch is lifted first.
LEMMA RewindMends ==
  ASSUME NEW n, Mender(n), Rewind(n)
  PROVE  task'[n] # "failed" /\ Mending(n)'
<1> USE DEF Goes, Ends
<1> DEFINE r == repo[n]
           base == Want(n).baseline
           branch == Want(n).default
           tags == Want(n).tags
<1>1. task[n] \in {"push", "push again"}
  BY DEF Rewind, ForcePush
<1>2. /\ ~Want(n).empty /\ ~r.archived /\ IsOurs(owner[n]) /\ RefsLeft(n)
      /\ task[n] = "push again" => r.protected[branch] # "yes"
  BY <1>1 DEF Mender, Mending, Repushing
<1>3. /\ r.tags[Baseline] = base /\ base \in Commits /\ base # NoCommit
      /\ branch \in Branches /\ tags \subseteq Tags /\ Baseline \notin tags
      /\ r \in Repos /\ r.empty = FALSE
  BY <1>2, RefsAssumption DEF Mender, RefsLeft, Wants
<1>4. ForcePush(n, base, tags)
  BY <1>3 DEF Rewind
<1>5. state' = state
  BY <1>4 DEF ForcePush
<1>6. ASSUME NEW s, repo'[n] = s, s.requests = r.requests, s.archived = r.archived,
             s.branches = r.branches \/ s.branches = [r.branches EXCEPT ![branch] = base],
             s.tags = r.tags \/ s.tags = Retagged(r, base, tags)
      PROVE  /\ s.tags[Baseline] = base
             /\ ExtraBranches(Want(n), s) = ExtraBranches(Want(n), r)
             /\ ExtraTags(Want(n), s) = ExtraTags(Want(n), r)
  <2>1. s.tags[Baseline] = base
    BY <1>3, <1>6 DEF Retagged, AllTags
  <2>2. ExtraBranches(Want(n), s) = ExtraBranches(Want(n), r)
    BY <1>3, <1>6 DEF ExtraBranches, Has, Repos, Refs
  <2>3. ExtraTags(Want(n), s) = ExtraTags(Want(n), r)
    BY <1>3, <1>6 DEF ExtraTags, Has, Retagged, Repos, Refs
  <2> QED BY <2>1, <2>2, <2>3
<1>7. CASE task'[n] = "pushed"
  <2>1. repo'[n] = PushRefs(r, base, branch, tags)
    BY <1>1, <1>4, <1>7 DEF Mender, ForcePush, Write
  <2>2. /\ repo'[n].branches = [r.branches EXCEPT ![branch] = base]
        /\ repo'[n].tags = Retagged(r, base, tags)
    BY <1>3, <2>1, PushRefsBranches, PushRefsTags
  <2>3. repo'[n].requests = r.requests /\ repo'[n].archived = r.archived
    <3>1. \E b, t : repo'[n] = Pushed(r, b, t)
      BY <2>1 DEF PushRefs
    <3> QED BY <1>3, <3>1, PushedFull
  <2>4. ~RefsMoved(Want(n), repo'[n])
    BY <1>3, <2>2 DEF RefsMoved, Retagged, AllTags, Repos, Refs
  <2>5. RefsLeft(n)'
    BY <1>2, <1>5, <1>6, <2>2, <2>3, <2>4 DEF Mender, RefsLeft
  <2> QED
    BY <1>2, <1>7, <2>3, <2>5 DEF Mender, Mending, Repushing, Tidying
<1>8. CASE task'[n] # "pushed"
  <2>1. /\ r.protected[branch] = "yes"
        /\ \/ repo'[n] = PushTags(r, base, tags)
           \/ repo'[n] = r
        /\ task[n] = "push" /\ task'[n] = "lift"
    BY <1>1, <1>2, <1>4, <1>8 DEF Mender, ForcePush, Write, forgeVars
  <2>2. /\ repo'[n].branches = r.branches
        /\ repo'[n].tags = r.tags \/ repo'[n].tags = Retagged(r, base, tags)
    BY <1>3, <2>1, PushTagsMoves
  <2>3. repo'[n].requests = r.requests /\ repo'[n].archived = r.archived
    <3>1. CASE repo'[n] = PushTags(r, base, tags)
      <4>1. \E b, t : repo'[n] = Pushed(r, b, t)
        BY <3>1 DEF PushTags
      <4> QED BY <1>3, <4>1, PushedFull
    <3> QED BY <2>1, <3>1
  <2>4. state[n].dirty
    BY <2>1 DEF Mender, Rewindable, Rewind
  <2>5. RefsLeft(n)'
    BY <1>2, <1>5, <1>6, <2>1, <2>2, <2>3, <2>4 DEF Mender, RefsLeft, Pushing
  <2> QED
    BY <1>2, <2>1, <2>3, <2>5 DEF Mender, Mending, Repushing, Tidying
<1> QED
  BY <1>7, <1>8

\* To wait for that to show.
LEMMA WaitMends ==
  ASSUME ~ArchivedUnreadable, NEW n, Mender(n), faults' = faults, faults \in Nat,
         RewindDone(n) \/ WaitRewound(n) \/ WaitRewoundTimesOut(n)
  PROVE  task'[n] # "failed" /\ Mending(n)'
<1> USE DEF Goes
<1>1. ~WaitRewoundTimesOut(n)
  <2> SUFFICES ASSUME WaitRewoundTimesOut(n) PROVE FALSE
    OBVIOUS
  <2>1. task[n] = "wait" /\ ~Reports(Want(n), repo[n]) /\ ~repo[n].pending
    BY DEF WaitRewoundTimesOut, GivesUp, Fault
  <2>2. ~Want(n).empty /\ ~RefsMoved(Want(n), repo[n])
    BY <2>1 DEF Mender, Mending, Repushing, RefsLeft, Lifting, Pushing
  <2> QED
    BY <2>1, <2>2 DEF Reports, RefsMoved, Unreadable
<1>2. CASE RewindDone(n)
  <2>1. task[n] = "pushed" /\ task'[n] = "wait" /\ repo' = repo /\ state' = state
    BY <1>2 DEF Mender, RewindDone, forgeVars
  <2> QED
    BY <2>1 DEF Mender, Mending, RefsLeft, Repushing, Tidying, Lifting, Pushing
<1>3. CASE WaitRewound(n)
  <2>1. task[n] = "wait" /\ task'[n] = "settings" /\ repo' = repo /\ state' = state
    BY <1>3 DEF Mender, WaitRewound, forgeVars
  <2> QED
    BY <2>1 DEF Mender, Mending, RefsLeft, Repushing, Tidying, Lifting, Pushing
<1> QED
  BY <1>1, <1>2, <1>3

\* To put visibility and default branch back: it has that branch by now.
LEMMA SettingsMends ==
  ASSUME NEW n, Mender(n), RestoreSettings(n) \/ SettingsRestored(n)
  PROVE  task'[n] # "failed" /\ Mending(n)'
<1> USE DEF Goes, Ends
<1>1. CASE RestoreSettings(n)
  <2> DEFINE default == IF Want(n).empty THEN {} ELSE {Want(n).default}
             visibility == IF HasVisibility THEN {Want(n).visibility} ELSE {}
  <2>1. task[n] = "settings" /\ ~repo[n].archived /\ RefsLeft(n) /\ state' = state
    BY <1>1 DEF Mender, Mending, RestoreSettings
  <2>2. default \subseteq Has(repo[n].branches)
    <3>1. ~Want(n).empty => repo[n].branches[Want(n).default] = Want(n).baseline
      BY <2>1 DEF RefsLeft, Lifting, Pushing, RefsMoved
    <3> QED
      BY <3>1, RefsAssumption DEF Mender, Has, Wants, Repos, Refs
  <2>3. ForgeReadsRow(n, visibility, default, {}) /\ task'[n] = "saving"
    BY <1>1, <2>1, <2>2 DEF Mender, RestoreSettings, Writable
  <2>4. /\ repo' = repo /\ patch'[n].busy /\ patch'[n].archived = {}
        /\ patch'[n].visibility = visibility /\ patch'[n].default = default
    BY <2>3 DEF Mender, ForgeReadsRow
  <2>5. Restoring(n)'
    <3>1. HasVisibility => Asked(repo[n].visibility, visibility) = Want(n).visibility
      BY DEF Asked
    <3>2. ~Want(n).empty => Asked(repo[n].default, default) = Want(n).default
      BY DEF Asked
    <3> HIDE DEF default, visibility
    <3> QED
      BY <2>4, <3>1, <3>2 DEF Mender, Restoring
  <2> QED
    BY <2>1, <2>3, <2>4, <2>5
    DEF Mender, Mending, RefsLeft, Repushing, Tidying, Lifting, Pushing
<1>2. CASE SettingsRestored(n)
  <2>1. /\ task[n] = "saving" /\ task'[n] = "requests" /\ ~patch[n].busy /\ state' = state
        /\ UNCHANGED forgeVars
    BY <1>2 DEF Mender, SettingsRestored, Replied
  <2>2. Shown(n)' /\ Based(n)'
    BY <2>1 DEF Mender, Mending, Restoring, Shown, Based, forgeVars
  <2> QED
    BY <2>1, <2>2
    DEF Mender, Mending, RefsLeft, Repushing, Tidying, Lifting, Pushing, forgeVars
<1> QED
  BY <1>1, <1>2

\* To close the requests that were found, and what was opened since is none.
LEMMA RequestsMends ==
  ASSUME NEW n, Mender(n), CloseRequests(n)
  PROVE  task'[n] # "failed" /\ Mending(n)'
<1> USE DEF Goes, Ends, poolVars
<1>1. /\ task[n] = "requests" /\ ~repo[n].archived /\ IsOurs(owner[n]) /\ RefsLeft(n)
      /\ Shown(n) /\ Based(n) /\ Writable(n)
  BY DEF Mender, Mending, CloseRequests, Tidying, Writable
<1>2. CASE state[n].requests = {} /\ UNCHANGED <<forgeVars, state>>
  <2>1. task'[n] = "branches"
    BY <1>1, <1>2 DEF Mender, CloseRequests
  <2> QED
    BY <1>1, <1>2, <2>1
    DEF Mender, Mending, RefsLeft, Repushing, Tidying, Lifting, Pushing, Shown, Based,
        forgeVars
<1>3. CASE \E b \in state[n].requests :
             /\ Write(n, [repo[n] EXCEPT !.requests = @ \ {b}])
             /\ state' = [state EXCEPT ![n].requests = @ \ {b}]
             /\ UNCHANGED poolVars
  <2>1. PICK b \in state[n].requests :
          /\ repo'[n] = [repo[n] EXCEPT !.requests = @ \ {b}]
          /\ state'[n] = [state[n] EXCEPT !.requests = @ \ {b}]
          /\ task' = task
    BY <1>3 DEF Mender, Write
  <2>2. /\ repo'[n].requests = repo[n].requests \ {b} /\ SameRefs(repo[n], repo'[n])
        /\ repo'[n].visibility = repo[n].visibility /\ repo'[n].default = repo[n].default
        /\ repo'[n].archived = repo[n].archived
        /\ state'[n].requests = state[n].requests \ {b}
        /\ state'[n].branches = state[n].branches /\ state'[n].tags = state[n].tags
        /\ state'[n].dirty = state[n].dirty
    BY <2>1 DEF Mender, Repos, States, SameRefs
  <2>3. RefsLeft(n)' /\ Shown(n)' /\ Based(n)'
    BY <1>1, <2>1, <2>2
    DEF Mender, RefsLeft, SameRefs, ExtraBranches, ExtraTags, RefsMoved, Shown, Based,
        Lifting, Pushing
  <2> QED
    BY <1>1, <2>1, <2>2, <2>3 DEF Mender, Mending, Repushing, Tidying
<1> QED
  BY <1>1, <1>2, <1>3 DEF CloseRequests

\* To delete the branches that were found: none is the default branch, and no
\* request points at one any more.
LEMMA BranchesMends ==
  ASSUME NEW n, Mender(n), DeleteBranches(n)
  PROVE  /\ Free(repo[n]) => task'[n] # "failed"
         /\ task'[n] # "failed" => Mending(n)'
<1> USE DEF Goes, Ends, poolVars
<1>1. /\ task[n] = "branches" /\ ~repo[n].archived /\ IsOurs(owner[n]) /\ RefsLeft(n)
      /\ Shown(n) /\ Based(n) /\ Writable(n) /\ state[n].requests = {}
      /\ state[n].branches \subseteq Branches
  BY DEF Mender, Mending, DeleteBranches, Tidying, Writable, States
<1>2. CASE state[n].branches = {} /\ UNCHANGED <<forgeVars, state>>
  <2>1. task'[n] = "tags"
    BY <1>1, <1>2 DEF Mender, DeleteBranches
  <2> QED
    BY <1>1, <1>2, <2>1
    DEF Mender, Mending, RefsLeft, Repushing, Tidying, Lifting, Pushing, Shown, Based,
        forgeVars
<1>3. ASSUME NEW b \in state[n].branches, Free(repo[n])
      PROVE  Deletable(n, b)
  <2>1. ~Want(n).empty /\ b # Want(n).default
    BY <1>1, <1>3 DEF Mender, Rewindable, RefsLeft
  <2> QED
    BY <1>1, <1>3, <2>1 DEF RefsLeft, Based, Deletable, Free, Bare
<1>4. CASE \E b \in state[n].branches :
             /\ Write(n, [repo[n] EXCEPT !.branches[b] = NoCommit])
             /\ state' = [state EXCEPT ![n].branches = @ \ {b}]
             /\ UNCHANGED poolVars
  <2>1. PICK b \in state[n].branches :
          /\ repo'[n] = [repo[n] EXCEPT !.branches[b] = NoCommit]
          /\ state'[n] = [state[n] EXCEPT !.branches = @ \ {b}]
          /\ task' = task
    BY <1>4 DEF Mender, Write
  <2>2. ~Want(n).empty /\ b # Want(n).default /\ b \in Branches
    BY <1>1, <2>1 DEF Mender, Rewindable, RefsLeft
  <2>3. /\ repo'[n].branches = [repo[n].branches EXCEPT ![b] = NoCommit]
        /\ repo'[n].requests = repo[n].requests /\ repo'[n].tags = repo[n].tags
        /\ repo'[n].visibility = repo[n].visibility /\ repo'[n].default = repo[n].default
        /\ repo'[n].archived = repo[n].archived
        /\ state'[n].branches = state[n].branches \ {b}
        /\ state'[n].requests = state[n].requests /\ state'[n].tags = state[n].tags
        /\ state'[n].dirty = state[n].dirty
    BY <2>1 DEF Mender, Repos, States
  <2>4. ExtraBranches(Want(n), repo'[n]) \subseteq ExtraBranches(Want(n), repo[n]) \ {b}
    BY <2>2, <2>3 DEF Mender, ExtraBranches, Has, Repos, Refs
  <2>5. ~RefsMoved(Want(n), repo'[n])
    BY <1>1, <2>2, <2>3 DEF Mender, RefsLeft, RefsMoved, Lifting, Pushing, Repos, Refs, Wants
  <2>6. RefsLeft(n)' /\ Shown(n)' /\ Based(n)'
    BY <1>1, <2>1, <2>2, <2>3, <2>4, <2>5 DEF Mender, RefsLeft, ExtraTags, Shown, Based
  <2> QED
    BY <1>1, <2>1, <2>3, <2>6 DEF Mender, Mending, Repushing, Tidying
<1>5. CASE task'[n] = "failed" /\ \E b \in state[n].branches : ~Deletable(n, b)
  BY <1>3, <1>5
<1> QED
  BY <1>1, <1>2, <1>4, <1>5 DEF DeleteBranches, Mender

\* To delete the tags.
LEMMA TagsMends ==
  ASSUME NEW n, Mender(n), DeleteTags(n)
  PROVE  task'[n] # "failed" /\ Mending(n)'
<1> USE DEF Goes, Ends, poolVars
<1>1. /\ task[n] = "tags" /\ ~repo[n].archived /\ IsOurs(owner[n]) /\ RefsLeft(n)
      /\ Shown(n) /\ Based(n) /\ Writable(n) /\ state[n].requests = {}
      /\ state[n].branches = {} /\ state[n].tags \subseteq Tags
  BY DEF Mender, Mending, DeleteTags, Tidying, Writable, States
<1>2. CASE state[n].tags = {} /\ UNCHANGED <<forgeVars, state>>
  <2>1. task'[n] = "topics"
    BY <1>1, <1>2 DEF Mender, DeleteTags
  <2> QED
    BY <1>1, <1>2, <2>1
    DEF Mender, Mending, RefsLeft, Repushing, Tidying, Lifting, Pushing, Shown, Based,
        forgeVars
<1>3. CASE \E t \in state[n].tags :
             /\ Write(n, [repo[n] EXCEPT !.tags[t] = NoCommit])
             /\ state' = [state EXCEPT ![n].tags = @ \ {t}]
             /\ UNCHANGED poolVars
  <2>1. PICK t \in state[n].tags :
          /\ repo'[n] = [repo[n] EXCEPT !.tags[t] = NoCommit]
          /\ state'[n] = [state[n] EXCEPT !.tags = @ \ {t}]
          /\ task' = task
    BY <1>3 DEF Mender, Write
  <2>2. ~Want(n).empty /\ t \notin Want(n).tags /\ t # Baseline /\ t \in AllTags
    BY <1>1, <2>1, RefsAssumption DEF Mender, Rewindable, RefsLeft, AllTags
  <2>3. /\ repo'[n].tags = [repo[n].tags EXCEPT ![t] = NoCommit]
        /\ repo'[n].requests = repo[n].requests /\ repo'[n].branches = repo[n].branches
        /\ repo'[n].visibility = repo[n].visibility /\ repo'[n].default = repo[n].default
        /\ repo'[n].archived = repo[n].archived
        /\ state'[n].tags = state[n].tags \ {t}
        /\ state'[n].requests = state[n].requests /\ state'[n].branches = state[n].branches
        /\ state'[n].dirty = state[n].dirty
    BY <2>1 DEF Mender, Repos, States
  <2>4. /\ ExtraTags(Want(n), repo'[n]) \subseteq ExtraTags(Want(n), repo[n]) \ {t}
        /\ repo'[n].tags[Baseline] = repo[n].tags[Baseline]
    BY <2>2, <2>3 DEF Mender, ExtraTags, Has, Repos, Refs, AllTags
  <2>5. ~RefsMoved(Want(n), repo'[n])
    BY <1>1, <2>2, <2>3
    DEF Mender, RefsLeft, RefsMoved, Lifting, Pushing, Repos, Refs, Wants, AllTags
  <2>6. RefsLeft(n)' /\ Shown(n)' /\ Based(n)'
    BY <1>1, <2>1, <2>2, <2>3, <2>4, <2>5 DEF Mender, RefsLeft, ExtraBranches, Shown, Based
  <2> QED
    BY <1>1, <2>1, <2>3, <2>6 DEF Mender, Mending, Repushing, Tidying
<1> QED
  BY <1>1, <1>2, <1>3 DEF DeleteTags

\* To set the topics, and archive it again.
LEMMA EndMends ==
  ASSUME NEW n, Mender(n), RestoreTopics(n) \/ Archive(n) \/ Archived(n)
  PROVE  task'[n] # "failed" /\ Mending(n)'
<1> USE DEF Goes, Ends
<1>1. CASE RestoreTopics(n)
  <2>1. /\ task[n] = "topics" /\ ~repo[n].archived /\ Writable(n) /\ state' = state
    BY <1>1 DEF Mender, Mending, RestoreTopics, Tidying, Writable
  <2>2. /\ task'[n] = "archive"
        /\ \/ ~HasTopics /\ repo'[n] = repo[n]
           \/ repo'[n] = [repo[n] EXCEPT !.topics = Want(n).topics]
    BY <1>1, <2>1 DEF Mender, RestoreTopics, Write, forgeVars
  <2>3. /\ SameRefs(repo[n], repo'[n]) /\ repo'[n].requests = repo[n].requests
        /\ repo'[n].visibility = repo[n].visibility /\ repo'[n].default = repo[n].default
        /\ repo'[n].archived = repo[n].archived
        /\ HasTopics => repo'[n].topics = Want(n).topics
    BY <2>2 DEF Mender, Repos, SameRefs
  <2>4. RefsLeft(n)' /\ Shown(n)' /\ Based(n)' /\ Topical(n)'
    BY <2>1, <2>2, <2>3
    DEF Mender, Mending, Tidying, RefsLeft, SameRefs, ExtraBranches, ExtraTags, RefsMoved,
        Shown, Based, Topical, Lifting, Pushing
  <2> QED
    BY <2>1, <2>2, <2>3, <2>4 DEF Mender, Mending, Repushing, Tidying
<1>2. CASE Archive(n)
  <2>1. /\ task[n] = "archive" /\ ~repo[n].archived /\ state' = state /\ repo' = repo
    BY <1>2 DEF Mender, Mending, Archive, Tidying, ForgeReadsRow, forgeVars
  <2>2. RefsLeft(n)' /\ Shown(n)' /\ Based(n)' /\ Topical(n)'
    BY <1>2, <2>1
    DEF Mender, Mending, Tidying, RefsLeft, Archive, Shown, Based, Topical, Lifting, Pushing
  <2>3. CASE Want(n).archived
    <3>1. task'[n] = "archiving" /\ ForgeReadsRow(n, {}, {}, {TRUE})
      BY <1>2, <2>3 DEF Mender, Archive
    <3>2. /\ patch'[n].busy /\ patch'[n].visibility = {} /\ patch'[n].default = {}
          /\ patch'[n].archived = {TRUE}
      BY <3>1 DEF Mender, ForgeReadsRow
    <3>3. Requested(n, TRUE)'
      BY <3>2 DEF Requested
    <3> QED
      BY <2>1, <2>2, <2>3, <3>1, <3>3 DEF Mender, Mending, Repushing, Tidying
  <2>4. CASE ~Want(n).archived
    <3>1. task'[n] = "done" /\ repo'[n].archived = Want(n).archived
      BY <1>2, <2>1, <2>4 DEF Mender, Archive, Repos, Wants
    <3> QED
      BY <2>1, <2>2, <3>1 DEF Mender, Mending, Repushing, Tidying
  <2> QED BY <2>3, <2>4
<1>3. CASE Archived(n)
  <2>1. /\ task[n] = "archiving" /\ task'[n] = "done" /\ state' = state /\ repo' = repo
        /\ ~patch[n].busy
    BY <1>3 DEF Mender, Archived, Replied, forgeVars
  <2>2. RefsLeft(n)' /\ Shown(n)' /\ Based(n)' /\ Topical(n)'
    BY <2>1 DEF Mender, Mending, RefsLeft, Shown, Based, Topical, Lifting, Pushing
  <2>3. repo'[n].archived = Want(n).archived
    BY <2>1 DEF Mender, Mending, Requested, Repos, Wants
  <2> QED
    BY <2>1, <2>2, <2>3 DEF Mender, Mending, Repushing, Tidying
<1> QED
  BY <1>1, <1>2, <1>3

\* Each step of a repair leads on; only a protection could make one fail.
LEMMA TaskMends ==
  ASSUME ~ArchivedUnreadable, RewindInv, NEW n \in Names, RunTask(n), faults' = 0,
         phase = "reset", Stands(n), Mending(n)
  PROVE  /\ Stands(n)'
         /\ Free(repo[n]) => task'[n] # "failed"
         /\ task'[n] # "failed" => Mending(n)'
<1>0. /\ CourseInv /\ n \in Declared /\ cmd = "reset" /\ task[n] \in Stages("reset")
      /\ task[n] \notin {"done", "failed"} /\ faults \in Nat
      /\ ~StepFails(n) /\ ~ForcePushErrs(n) /\ ~CompareBelievesMissing(n)
      /\ faults = 0 /\ ~ApplyTask(n) /\ UNCHANGED fleet
  BY TaskDeclared, TaskBusy, TaskFaults, TaskAside, ApplyTaskApplies, CommandAssumption
  DEF RewindInv, CourseInv, Course, InStage, OwnInv, TypeInv, TypeOK, CommandTypeOK, diskVars
<1>1. Stands(n)'
  BY <1>0, TaskStands DEF Mending, Repushing
<1>2. Mender(n)
  <2>1. /\ Want(n) \in Wants /\ Want(n)' = Want(n) /\ Rewindable(n)
        /\ repo \in [Names -> Repos] /\ repo[n] \in Repos /\ patch \in [Names -> Patches]
        /\ task \in [Names -> Tasks] /\ state \in [Names -> States]
    BY <1>0, WantType
    DEF RewindInv, CourseInv, OwnInv, TypeInv, TypeOK, ForgeTypeOK, CommandTypeOK, Want
  <2>2. owner'[n] = owner[n]
    BY <1>0
    DEF RunTask, CommandTask, StepFails, ForcePushErrs, Lift, Unarchive, Archive, Archived,
        Replied, Await, AwaitTimesOut, GivesUp, Compare, CompareBelievesMissing, ResetTask,
        LiftedForReset, Rewind, ForcePush, RewindDone, WaitRewound, WaitRewoundTimesOut,
        RestoreSettings, SettingsRestored, CloseRequests, DeleteBranches, DeleteTags,
        RestoreTopics, Write, ForgeReadsRow, forgeVars
  <2>3. ~Want(n).empty => repo[n].empty = FALSE
    BY <2>1 DEF Stands, Wants, Repos
  <2> QED
    BY <1>0, <2>1, <2>2, <2>3 DEF Mender, Stands
<1>3. \/ Unarchive(n) \/ LiftedForReset(n) \/ Lift(n) \/ Rewind(n)
      \/ RewindDone(n) \/ WaitRewound(n) \/ WaitRewoundTimesOut(n)
      \/ RestoreSettings(n) \/ SettingsRestored(n) \/ CloseRequests(n)
      \/ DeleteBranches(n) \/ DeleteTags(n) \/ RestoreTopics(n) \/ Archive(n) \/ Archived(n)
  BY <1>0
  DEF RunTask, CommandTask, ResetTask, Await, AwaitTimesOut, Compare, Stages, Seeds
<1>4. CASE RewindDone(n) \/ WaitRewound(n) \/ WaitRewoundTimesOut(n)
  BY <1>0, <1>1, <1>2, <1>4, WaitMends
<1>5. CASE DeleteBranches(n)
  BY <1>1, <1>2, <1>5, BranchesMends
<1> QED
  BY <1>1, <1>2, <1>3, <1>4, <1>5, LiftMends, RewindMends, SettingsMends, RequestsMends,
     TagsMends, EndMends

-----------------------------------------------------------------------------
(* The invariant is kept *)

\* Only some forges reflect a push later.
LEMMA LateStep ==
  CourseInv /\ (\A n \in Names : Late(repo[n])) /\ [Next]_vars
  => \A n \in Names : Late(repo[n])'
<1> SUFFICES ASSUME CourseInv, \A n \in Names : Late(repo[n]), [Next]_vars
             PROVE  \A n \in Names : Late(repo[n])'
  OBVIOUS
<1>0. ForgeTypeOK
  BY DEF CourseInv, OwnInv, TypeInv, TypeOK
<1>1. ASSUME NEW n \in Names, RunTask(n) PROVE \A m \in Names : Late(repo[m])'
  BY <1>1, TaskAside, TaskLate DEF CourseInv, OwnInv, Aside, Late
<1>2. ASSUME NEW n \in Names, Forges(n) PROVE \A m \in Names : Late(repo[m])'
  BY <1>0, <1>2, ForgesPending DEF Late
<1>3. ASSUME NEW n \in Names, Others(n) PROVE \A m \in Names : Late(repo[m])'
  <2>0. repo \in [Names -> Repos] /\ repo[n] \in Repos
    BY <1>0 DEF ForgeTypeOK
  <2>1. \A m \in Names \ {n} : repo'[m] = repo[m]
    BY <1>3, <2>0 DEF Others, TestEdits, UserDeletes, StrangerCreates, Write
  <2>2. \/ repo'[n] = Blank \/ repo'[n] = [repo[n] EXCEPT !.archived = FALSE]
        \/ ~repo[n].archived /\ repo'[n] \in RepoEdits(repo[n])
    BY <1>3, <2>0 DEF Others, TestEdits, UserDeletes, StrangerCreates, Write
  <2>3. Late(repo[n])'
    <3>1. CASE repo'[n] = Blank
      BY <3>1 DEF Blank, Late
    <3>2. CASE repo'[n] = [repo[n] EXCEPT !.archived = FALSE]
      BY <2>0, <3>2 DEF Late, Repos
    <3>3. CASE ~repo[n].archived /\ repo'[n] \in RepoEdits(repo[n])
      BY <2>0, <3>3, RepoEditsRow DEF Late
    <3> QED BY <2>2, <3>1, <3>2, <3>3
  <2> QED BY <2>1, <2>3 DEF Late
<1>4. CASE RunStep \/ RunApply \/ RunVerify \/ RunReset \/ EditFleet \/ Kill
  <2>1. UNCHANGED forgeVars
    BY <1>4
    DEF RunStep, CommandStep, Abort, StartCheck, EndCheck, ApplyStep, StartWork, StartSettle,
        WriteLock, ResetStep, StartRepairs, StartReady, RunApply, StartApply, RunVerify,
        StartVerify, RunReset, StartReset, Refuse, Kill, EditFleet
  <2> QED BY <2>1 DEF forgeVars, Late
<1>5. CASE UNCHANGED vars
  BY <1>5 DEF vars, forgeVars, Late
<1> QED
  BY <1>1, <1>2, <1>3, <1>4, <1>5 DEF Next

\* All that a comparison would read of it, and what stands in the way of a push.
Unmoved(n) ==
  /\ repo'[n].visibility = repo[n].visibility /\ repo'[n].topics = repo[n].topics
  /\ repo'[n].archived = repo[n].archived
  /\ \/ Want(n).empty /\ Background
     \/ /\ SameRefs(repo[n], repo'[n]) /\ repo'[n].requests = repo[n].requests
        /\ repo'[n].default = repo[n].default /\ repo'[n].protected = repo[n].protected
        /\ repo'[n].empty = repo[n].empty

\* A step that leaves that, and its task, leaves the repair where it is.
LEMMA StillMending ==
  ASSUME NEW n, UNCHANGED fleet, Unmoved(n), owner'[n] = owner[n], task'[n] = task[n],
         state'[n] = state[n], patch'[n] = patch[n], Mending(n)
  PROVE  Mending(n)'
<1>0. Want(n)' = Want(n)
  BY DEF Want
<1>1. Shown(n) => Shown(n)'
  BY <1>0 DEF Unmoved, Shown
<1>2. Based(n) => Based(n)'
  BY <1>0 DEF Unmoved, Based
<1>3. Topical(n) => Topical(n)'
  BY <1>0 DEF Unmoved, Topical
<1>4. \A to : Requested(n, to) => Requested(n, to)'
  BY DEF Unmoved, Requested
<1>5. Restoring(n) => Restoring(n)'
  BY <1>0, <1>1, <1>2 DEF Unmoved, Restoring, Asked
<1>6. RefsLeft(n) => RefsLeft(n)'
  <2>1. CASE Want(n).empty
    BY <1>0, <2>1 DEF RefsLeft
  <2>2. CASE ~Want(n).empty
    BY <1>0, <2>2 DEF Unmoved, RefsLeft, SameRefs, ExtraBranches, ExtraTags, RefsMoved
  <2> QED BY <2>1, <2>2
<1>7. task[n] = "push again" => repo'[n].protected[Want(n).default] # "yes"
  BY DEF Mending, Unmoved, Repushing
<1>8. repo'[n].archived = repo[n].archived
  BY DEF Unmoved
<1> QED
  BY <1>0, <1>1, <1>2, <1>3, <1>4, <1>5, <1>6, <1>7, <1>8 DEF Mending

\* Such a step leaves all that is said of the repository in a reset.
LEMMA StillRepairing ==
  ASSUME ~ArchivedUnreadable, NEW n, UNCHANGED <<fleet, phase>>, Unmoved(n),
         repo[n] \in Repos, repo'[n] \in Repos, owner'[n] = owner[n], task'[n] = task[n],
         state'[n] = state[n], patch'[n] = patch[n], Repairing(n)
  PROVE  Repairing(n)'
<1>0. Want(n)' = Want(n)
  BY DEF Want
<1>1. Mending(n) => Mending(n)'
  BY StillMending
<1>2. Stands(n) => Stands(n)'
  BY <1>0 DEF Unmoved, Stands
<1>3. Found(n)' = Found(n)
  BY <1>0, CompareOneSame DEF Unmoved, Found, ReadAs
<1>4. InOrder(n) => InOrder(n)'
  BY <1>3 DEF InOrder
<1> QED
  BY <1>0, <1>1, <1>2, <1>3, <1>4 DEF Repairing

\* Of what is not there, or not as empty as it should be, nothing was said.
LEMMA NotStanding ==
  ASSUME NEW n, UNCHANGED <<fleet, phase>>, task'[n] = task[n], state'[n] = state[n],
         ~Stands(n), Repairing(n)
  PROVE  Repairing(n)'
<1>1. Want(n)' = Want(n)
  BY DEF Want
<1> QED
  BY <1>1 DEF Repairing

\* The phases of a reset.
LEMMA ResetPhases ==
  ASSUME CourseInv, cmd = "reset"
  PROVE  phase \in {"survey", "reset", "ready", "check"}
BY DEF CourseInv, Course, OwnInv, TypeInv, TypeOK, CommandTypeOK, Phases

\* What reads as it should is read as it is.
LEMMA ReadAsIs ==
  ASSUME NEW n, repo[n] \in Repos, repo[n].empty = Want(n).empty
  PROVE  ReadAs(n) = repo[n]
BY DEF ReadAs, Repos

\* A comparison that has nothing against a repository saw it as empty as declared.
LEMMA Unguarded ==
  ASSUME ~ArchivedUnreadable, NEW want \in Wants, NEW who, NEW r \in Repos,
         ~CompareOne(want, who, r).guard
  PROVE  r.empty = want.empty
<1>1. ~CompareGuards(want, who, r)
  BY DEF CompareOne
<1> QED
  BY <1>1 DEF CompareGuards, Unreadable, Repos, Wants

\* That a repository has drifted is not forgotten while it is repaired.
LEMMA TaskDrift ==
  ASSUME CourseInv, NEW n \in Names, RunTask(n), phase = "reset"
  PROVE  state'[n].drift = state[n].drift
<1>0. /\ cmd = "reset" /\ ~ApplyTask(n) /\ task[n] \in Stages("reset")
      /\ state \in [Names -> States] /\ state[n] \in States
  BY ApplyTaskApplies
  DEF CourseInv, Course, InStage, OwnInv, TypeInv, TypeOK, CommandTypeOK
<1>1. CASE CloseRequests(n) \/ DeleteBranches(n) \/ DeleteTags(n)
  <2>1. \/ state' = state
        \/ \E x : state'[n] = [state[n] EXCEPT !.requests = x]
        \/ \E x : state'[n] = [state[n] EXCEPT !.branches = x]
        \/ \E x : state'[n] = [state[n] EXCEPT !.tags = x]
    BY <1>0, <1>1 DEF CloseRequests, DeleteBranches, DeleteTags
  <2> QED BY <1>0, <2>1 DEF States
<1>2. CASE ~(CloseRequests(n) \/ DeleteBranches(n) \/ DeleteTags(n))
  <2>1. state' = state
    BY <1>0, <1>2
    DEF RunTask, CommandTask, StepFails, ForcePushErrs, Lift, Unarchive, Archive, Archived,
        Replied, Await, AwaitTimesOut, GivesUp, Compare, CompareBelievesMissing, ResetTask,
        LiftedForReset, Rewind, ForcePush, RewindDone, WaitRewound, WaitRewoundTimesOut,
        RestoreSettings, SettingsRestored, RestoreTopics, Stages, Seeds
  <2> QED BY <2>1
<1> QED
  BY <1>1, <1>2

\* A task brings its own repository closer to the end, and leaves the others.
LEMMA TaskRepairs ==
  ASSUME ~ArchivedUnreadable, RewindInv, Repairable, NEW n \in Names, RunTask(n), faults' = 0
  PROVE  /\ Repairable'
         /\ cmd = "reset" /\ Free(repo[n]) => task'[n] # "failed"
<1>0. /\ CourseInv /\ n \in Declared /\ Aside(n) /\ UNCHANGED <<fleet, cmd, phase>>
      /\ task[n] \in Stages(phase) /\ task[n] \notin {"done", "failed"} /\ faults \in Nat
      /\ faults = 0 /\ ~StepFails(n) /\ ~ForcePushErrs(n) /\ ~CompareBelievesMissing(n)
      /\ Declared' = Declared /\ Declared \subseteq Names
      /\ repo \in [Names -> Repos] /\ task \in [Names -> Tasks] /\ state \in [Names -> States]
      /\ Want(n) \in Wants /\ Want(n)' = Want(n)
  BY TaskDeclared, TaskBusy, TaskFaults, TaskAside, CommandAssumption, WantType
  DEF RewindInv, CourseInv, Course, InStage, OwnInv, TypeInv, TypeOK, CommandTypeOK,
      ForgeTypeOK, diskVars, runVars, Declared, Want
<1>1. \A m \in Names : Swift(m)'
  BY <1>0, TaskSwift DEF Repairable, Aside, Swift
<1>2. ASSUME cmd = "reset", NEW m \in Declared \ {n}
      PROVE  Repairing(m)'
  <2>1. /\ repo'[m] = repo[m] /\ owner'[m] = owner[m] /\ task'[m] = task[m]
        /\ state'[m] = state[m] /\ patch'[m] = patch[m] /\ repo[m] \in Repos
    BY <1>0, <1>2 DEF Aside
  <2>2. Unmoved(m) /\ Repairing(m)
    BY <1>2, <2>1 DEF Unmoved, SameRefs, Repairable
  <2> QED BY <1>0, <2>1, <2>2, StillRepairing
<1>3. ASSUME cmd = "reset"
      PROVE  Repairing(n)' /\ (Free(repo[n]) => task'[n] # "failed")
  <2>0. Repairing(n) /\ ~ApplyTask(n)
    BY <1>0, <1>3, ApplyTaskApplies DEF Repairable
  <2>1. CASE phase \in {"survey", "check"}
    <3>1. /\ Compare(n) /\ task[n] = "compare"
      BY <1>0, <2>1, TaskCompares DEF Stages
    <3>2. /\ task'[n] = "done" /\ UNCHANGED forgeVars
          /\ \/ owner[n] = "nobody" /\ state'[n] = Missing
             \/ owner[n] # "nobody" /\ state'[n] = CompareOne(Want(n), owner[n], repo[n])
      BY <1>0, <3>1 DEF Compare, Goes
    <3>3. CASE phase = "survey"
      <4>1. ASSUME ~state'[n].guard
            PROVE  Stands(n)' /\ state'[n] = Found(n)'
        <5>1. owner[n] # "nobody" /\ state'[n] = CompareOne(Want(n), owner[n], repo[n])
          BY <3>2, <4>1 DEF Missing
        <5>2. repo[n].empty = Want(n).empty
          BY <1>0, <4>1, <5>1, Unguarded
        <5>3. ~patch[n].busy
          BY <3>1 DEF Repairable, Swift, AwaitingReply
        <5>4. Stands(n)'
          BY <1>0, <3>2, <5>1, <5>2, <5>3 DEF Stands, forgeVars
        <5>5. state'[n] = Found(n)
          BY <1>0, <5>1, <5>2, ReadAsIs DEF Found
        <5>6. Found(n)' = Found(n)
          BY <1>0, <3>2 DEF Found, ReadAs, forgeVars
        <5> QED BY <5>4, <5>5, <5>6
      <4> QED
        BY <1>0, <3>2, <3>3, <4>1 DEF Repairing
    <3>4. CASE phase = "check"
      <4>1. Stands(n) /\ InOrder(n)
        BY <2>0, <3>1, <3>4 DEF Repairing
      <4>2. state'[n] = CompareOne(Want(n), owner[n], repo[n])
        BY <3>2, <4>1 DEF Stands
      <4>3. ASSUME Background => ~Want(n).empty
            PROVE  ~state'[n].guard /\ ~state'[n].drift
        <5>1. ReadAs(n) = repo[n]
          BY <1>0, <4>1, <4>3, ReadAsIs DEF Stands
        <5> QED BY <4>1, <4>2, <5>1 DEF InOrder, Found
      <4> QED
        BY <1>0, <3>2, <3>4, <4>3 DEF Repairing
    <3> QED BY <2>1, <3>2, <3>3, <3>4
  <2>2. CASE phase = "reset"
    <3>1. state[n].drift
      BY <1>0, <2>0, <2>2 DEF Repairing
    <3>2. Stands(n) /\ Mending(n)
      BY <1>0, <2>0, <2>2, <3>1 DEF Repairing
    <3>3. /\ Stands(n)'
          /\ Free(repo[n]) => task'[n] # "failed"
          /\ task'[n] # "failed" => Mending(n)'
      BY <2>2, <3>2, TaskMends
    <3>4. state'[n].drift
      BY <1>0, <2>2, <3>1, TaskDrift
    <3> QED
      BY <1>0, <2>2, <3>3, <3>4 DEF Repairing
  <2>3. CASE phase = "ready"
    <3>1. task[n] = "await" /\ Stands(n) /\ InOrder(n)
      BY <1>0, <2>0, <2>3 DEF Stages, Repairing
    <3>2. Await(n) \/ AwaitTimesOut(n)
      BY <1>0, <2>0, <3>1
      DEF RunTask, CommandTask, Lift, Unarchive, Archive, Archived, Replied, Compare,
          ResetTask, LiftedForReset, Rewind, ForcePush, RewindDone, WaitRewound,
          WaitRewoundTimesOut, RestoreSettings, SettingsRestored, CloseRequests,
          DeleteBranches, DeleteTags, RestoreTopics
    <3>3. ~AwaitTimesOut(n)
      <4> SUFFICES ASSUME AwaitTimesOut(n) PROVE FALSE
        OBVIOUS
      <4>1. ~Want(n).empty /\ ~Reports(Want(n), repo[n]) /\ ~repo[n].pending
        BY <1>0 DEF AwaitTimesOut, GivesUp, Fault, NothingToAwait
      <4>2. ~RefsMoved(Want(n), repo[n])
        BY <1>0, <3>1, <4>1, FoundParts DEF InOrder
      <4> QED
        BY <4>1, <4>2 DEF Reports, RefsMoved, Unreadable
    <3>4. task'[n] = "done" /\ UNCHANGED forgeVars
      BY <1>0, <3>2, <3>3 DEF Await, Goes
    <3>5. Stands(n)' /\ InOrder(n)'
      BY <1>0, <3>1, <3>4 DEF Stands, InOrder, Found, ReadAs, forgeVars
    <3> QED
      BY <1>0, <2>3, <3>4, <3>5 DEF Repairing
  <2> QED
    BY <1>0, <1>3, <2>1, <2>2, <2>3, ResetPhases
<1> QED
  BY <1>0, <1>1, <1>2, <1>3 DEF Repairable

\* A push that is reflected changes nothing a comparison would read, unless it is
\* the first, and the repository was to be empty.
LEMMA ReflectsRepairs ==
  ASSUME ~ArchivedUnreadable, CourseInv, NEW n \in Declared, Late(repo[n]), Reflects(n),
         repo'[n] \in Repos, Repairing(n)
  PROVE  Repairing(n)'
<1> DEFINE r == [repo[n] EXCEPT !.pending = FALSE]
<1>0. /\ n \in Names /\ repo \in [Names -> Repos] /\ repo[n] \in Repos /\ Want(n) \in Wants
      /\ UNCHANGED <<fleet, phase, task, state, owner, patch>>
  BY WantType
  DEF CourseInv, OwnInv, TypeInv, TypeOK, ForgeTypeOK, Reflects, ForgeReflects, diskVars,
      commandVars, runVars, poolVars
<1>1. CASE ~Stands(n)
  BY <1>0, <1>1, NotStanding
<1>2. CASE Stands(n)
  <2>1. /\ SameRefs(repo[n], r) /\ r.visibility = repo[n].visibility
        /\ r.topics = repo[n].topics /\ r.archived = repo[n].archived
        /\ r.default = repo[n].default /\ r.requests = repo[n].requests
        /\ r.protected = repo[n].protected /\ r.empty = repo[n].empty /\ r \in Repos
    BY <1>0 DEF SameRefs, Repos
  <2>2. repo'[n] = (IF r.empty THEN Begun(r) ELSE r) /\ Background
    BY <1>0 DEF Reflects, ForgeReflects, Late
  <2> HIDE DEF r
  <2>3. /\ Begun(r).visibility = r.visibility /\ Begun(r).topics = r.topics
        /\ Begun(r).archived = r.archived
    BY <2>1 DEF Begun, Repos
  <2>4. Want(n).empty \/ ~r.empty
    BY <1>0, <1>2, <2>1 DEF Stands, Repos, Wants
  <2>5. Unmoved(n)
    BY <2>1, <2>2, <2>3, <2>4 DEF Unmoved
  <2> QED
    BY <1>0, <2>5, StillRepairing
<1> QED
  BY <1>1, <1>2

\* A settings write that is served brings about what its task asked for.
LEMMA SavesRepairs ==
  ASSUME CourseInv, NEW n \in Declared, cmd = "reset", Saves(n), Swift(n), Repairing(n)
  PROVE  Repairing(n)'
<1>0. /\ n \in Names /\ ForgeTypeOK /\ repo \in [Names -> Repos] /\ repo[n] \in Repos
      /\ patch \in [Names -> Patches] /\ task[n] \in Stages(phase) /\ Want(n) \in Wants
      /\ UNCHANGED <<fleet, phase, task, state, owner>> /\ Want(n)' = Want(n)
  BY WantType
  DEF CourseInv, Course, InStage, OwnInv, TypeInv, TypeOK, ForgeTypeOK, Saves, ForgeSaves,
      diskVars, commandVars, runVars, poolVars, Want
<1>1. /\ SameRefs(repo[n], repo'[n]) /\ repo'[n].topics = repo[n].topics
      /\ repo'[n].visibility = Asked(repo[n].visibility, patch[n].visibility)
      /\ repo'[n].default = Asked(repo[n].default, patch[n].default)
      /\ repo'[n].archived = Asked(repo[n].archived, patch[n].archived)
      /\ ~patch'[n].busy /\ patch[n].busy
  BY <1>0, SavedSettings
<1>2. /\ repo'[n].requests = repo[n].requests
      /\ repo'[n].empty = IF SavesRow THEN patch[n].empty ELSE repo[n].empty
  <2>1. repo'[n] = Saved(n)
    BY <1>0 DEF Saves, ForgeSaves
  <2> QED BY <1>0, <2>1 DEF Saved, Relaxed, Repos
<1>3. task[n] \in AwaitingReply /\ phase = "reset"
  BY <1>0, <1>1, ResetPhases DEF Swift, AwaitingReply, Stages
<1>4. Stands(n) /\ Mending(n) /\ state[n].drift
  BY <1>3 DEF Repairing, AwaitingReply
<1>5. Stands(n)'
  BY <1>0, <1>1, <1>2, <1>4 DEF Stands
<1>6. RefsLeft(n)'
  BY <1>0, <1>1, <1>2, <1>4
  DEF Mending, RefsLeft, SameRefs, ExtraBranches, ExtraTags, RefsMoved
<1>7. CASE task[n] = "unarchiving"
  <2>1. Requested(n, FALSE)'
    BY <1>1, <1>4, <1>7 DEF Mending, Requested, Asked
  <2> QED
    BY <1>0, <1>3, <1>4, <1>5, <1>6, <1>7, <2>1 DEF Repairing, Mending, Repushing, Tidying
<1>8. CASE task[n] = "saving"
  <2>1. Restoring(n) /\ ~repo[n].archived
    BY <1>4, <1>8 DEF Mending
  <2>2. repo'[n].archived = repo[n].archived
    BY <1>1, <2>1 DEF Restoring, Asked
  <2>3. Restoring(n)'
    BY <1>0, <1>1, <2>1 DEF Restoring, Shown, Based
  <2> QED
    BY <1>0, <1>3, <1>4, <1>5, <1>6, <1>8, <2>1, <2>2, <2>3
    DEF Repairing, Mending, Repushing, Tidying
<1>9. CASE task[n] = "archiving"
  <2>1. Requested(n, TRUE) /\ Shown(n) /\ Based(n) /\ Topical(n)
    BY <1>4, <1>9 DEF Mending
  <2>2. /\ repo'[n].visibility = repo[n].visibility /\ repo'[n].default = repo[n].default
        /\ repo'[n].archived
    BY <1>1, <2>1 DEF Requested, Asked
  <2>3. Requested(n, TRUE)'
    BY <1>1, <2>2 DEF Requested
  <2>4. Shown(n)' /\ Based(n)' /\ Topical(n)'
    BY <1>0, <1>1, <2>1, <2>2 DEF Shown, Based, Topical
  <2> QED
    BY <1>0, <1>3, <1>4, <1>5, <1>6, <1>9, <2>3, <2>4
    DEF Repairing, Mending, Repushing, Tidying
<1> QED
  BY <1>3, <1>7, <1>8, <1>9 DEF AwaitingReply

\* The forge's own work undoes nothing that was repaired.
LEMMA ForgesRepair ==
  ASSUME ~ArchivedUnreadable, CourseInv, CourseInv', Repairable, NEW n \in Names, Forges(n),
         Late(repo[n])
  PROVE  Repairable'
<1>0. /\ UNCHANGED <<fleet, cmd, phase, task, state, owner>> /\ Declared' = Declared
      /\ Declared \subseteq Names /\ repo \in [Names -> Repos] /\ repo' \in [Names -> Repos]
      /\ patch \in [Names -> Patches]
      /\ \A m \in Names \ {n} : repo'[m] = repo[m] /\ patch'[m] = patch[m]
      /\ \A m \in Names : patch'[m] = patch[m] \/ ~patch'[m].busy
  BY WantType
  DEF CourseInv, OwnInv, TypeInv, TypeOK, ForgeTypeOK, Forges, Saves, ForgeSaves, Reflects,
      ForgeReflects, Answers, ForgeAnswers, NoPatch, diskVars, commandVars, runVars, poolVars,
      Declared
<1>1. \A m \in Names : Swift(m)'
  BY <1>0 DEF Repairable, Swift
<1>2. ASSUME NEW m \in Declared, Repairing(m), repo'[m] = repo[m], patch'[m] = patch[m]
      PROVE  Repairing(m)'
  <2>1. Unmoved(m) /\ m \in Names
    BY <1>0, <1>2 DEF Unmoved, SameRefs
  <2> QED BY <1>0, <1>2, <2>1, StillRepairing
<1>3. ASSUME cmd = "reset", n \in Declared
      PROVE  Repairing(n)'
  <2>0. Repairing(n) /\ Swift(n)
    BY <1>3 DEF Repairable
  <2>1. CASE Saves(n)
    BY <1>3, <2>0, <2>1, SavesRepairs
  <2>2. CASE Reflects(n)
    BY <1>0, <1>3, <2>0, <2>2, ReflectsRepairs
  <2>3. CASE Answers(n)
    BY <1>2, <1>3, <2>0, <2>3 DEF Answers, ForgeAnswers
  <2> QED BY <2>1, <2>2, <2>3 DEF Forges
<1> QED
  BY <1>0, <1>1, <1>2, <1>3 DEF Repairable

\* Whoever takes a name takes one of which nothing was said.
LEMMA OthersRepair ==
  ASSUME ~ArchivedUnreadable, CourseInv, Repairable, NEW n \in Names, Others(n)
  PROVE  Repairable'
<1>0. /\ UNCHANGED <<fleet, cmd, phase, task, state, patch>> /\ Declared' = Declared
      /\ Declared \subseteq Names /\ repo \in [Names -> Repos] /\ owner \in [Names -> Owners]
      /\ \A m \in Names \ {n} : repo'[m] = repo[m] /\ owner'[m] = owner[m]
  BY WantType
  DEF CourseInv, OwnInv, TypeInv, TypeOK, ForgeTypeOK, Others, TestEdits, UserDeletes,
      StrangerCreates, Write, diskVars, commandVars, runVars, poolVars, Declared
<1>1. \A m \in Names : Swift(m)'
  BY <1>0 DEF Repairable, Swift
<1>2. ASSUME cmd = "reset", NEW m \in Declared
      PROVE  Repairing(m)'
  <2>1. Repairing(m) /\ m \in Names
    BY <1>0, <1>2 DEF Repairable
  <2>2. CASE m = n
    <3>1. owner[n] = "nobody"
      BY <1>2 DEF Others, TestEdits, UserDeletes, StrangerCreates, Quiet
    <3> QED
      BY <1>0, <2>1, <2>2, <3>1, NotStanding DEF Stands
  <2>3. CASE m # n
    <3>1. Unmoved(m)
      BY <1>0, <2>1, <2>3 DEF Unmoved, SameRefs
    <3> QED
      BY <1>0, <2>1, <2>3, <3>1, StillRepairing
  <2> QED BY <2>2, <2>3
<1> QED
  BY <1>0, <1>1, <1>2 DEF Repairable

\* From one phase to the next: the survey leads to the repairs it calls for, and
\* they to a fleet that is in order.
LEMMA RunRepair ==
  ASSUME ~ArchivedUnreadable, CourseInv, Repairable,
         RunStep \/ RunApply \/ RunVerify \/ RunReset \/ EditFleet
  PROVE  Repairable'
<1>0. /\ Declared \subseteq Names /\ (cmd = "none" <=> phase = "idle") /\ UNCHANGED forgeVars
      /\ PhaseOver /\ AllWell => \A n \in Names : task[n] = "done"
      /\ phase \in {"plan", "apply", "settle"} => cmd = "apply"
      /\ phase \in {"survey", "reset"} => cmd = "reset"
      /\ cmd = "none" => \A n \in Names : task[n] = "done"
      /\ repo \in [Names -> Repos]
  BY WantType
  DEF CourseInv, Course, OwnInv, TypeInv, IdleIsClean, TypeOK, ForgeTypeOK, Declared, PhaseOver,
      AllWell, RunStep, CommandStep, Abort, StartCheck, EndCheck, ApplyStep, StartWork,
      StartSettle, WriteLock, ResetStep, StartRepairs, StartReady, RunApply, StartApply,
      RunVerify, StartVerify, RunReset, StartReset, Refuse, EditFleet
<1>1. \A n \in Names : Swift(n)'
  <2>1. CASE EditFleet
    BY <1>0, <2>1 DEF EditFleet, commandVars, poolVars, forgeVars, Repairable, Swift
  <2>2. CASE ~EditFleet
    <3>1. \A n \in Names : task[n] \in {"done", "failed", "pushed"}
      BY <1>0, <2>2
      DEF PhaseOver, PushesOver, RunStep, CommandStep, Abort, StartCheck, EndCheck, ApplyStep,
          StartWork, StartSettle, WriteLock, ResetStep, StartRepairs, StartReady, RunApply,
          StartApply, RunVerify, StartVerify, RunReset, StartReset
    <3>2. \A n \in Names : ~patch[n].busy
      BY <3>1 DEF Repairable, Swift, AwaitingReply
    <3> QED
      BY <1>0, <3>2 DEF forgeVars, Swift
  <2> QED BY <2>1, <2>2
<1>2. ASSUME cmd' # "reset"
      PROVE  Repairable'
  BY <1>1, <1>2 DEF Repairable
<1>3. CASE Abort \/ EndCheck \/ EditFleet \/ RunApply \/ RunVerify \/ ApplyStep
           \/ (StartRepairs /\ Verdict # "drift")
  <2>1. cmd' # "reset"
    BY <1>0, <1>3
    DEF Abort, EndCheck, EditFleet, Quiet, commandVars, runVars, RunApply, StartApply,
        RunVerify, StartVerify, Refuse, ApplyStep, StartWork, StartSettle, WriteLock,
        StartRepairs, Finish, Enter
  <2> QED BY <1>2, <2>1
<1>4. CASE RunReset
  <2>1. cmd' = "reset" => /\ phase' = "survey" /\ Declared' = Declared
                          /\ \A n \in Declared : task'[n] = "compare"
    BY <1>0, <1>4 DEF RunReset, StartReset, Refuse, Each, Declared, diskVars
  <2> QED
    BY <1>1, <2>1 DEF Repairable, Repairing
<1>5. ASSUME fleet' = fleet
      PROVE  /\ Declared' = Declared
             /\ \A n \in Declared : (Stands(n) => Stands(n)') /\ (InOrder(n) => InOrder(n)')
  BY <1>0, <1>5 DEF forgeVars, Stands, InOrder, Found, ReadAs, Want, Declared
<1>6. CASE StartRepairs /\ Verdict = "drift"
  <2>1. /\ phase = "survey" /\ cmd = "reset" /\ phase' = "reset" /\ UNCHANGED <<fleet, state>>
        /\ \A n \in Declared : task[n] = "done" /\ ~state[n].guard
        /\ \A n \in Declared : task'[n] = IF state[n].drift THEN FirstRepair(n) ELSE "done"
    BY <1>0, <1>6 DEF StartRepairs, Enter, Verdict, Drifted, diskVars
  <2>2. ASSUME NEW n \in Declared
        PROVE  Repairing(n)'
    <3>1. Stands(n) /\ state[n] = Found(n) /\ n \in Names /\ repo[n] \in Repos
      BY <1>0, <2>1 DEF Repairable, Repairing
    <3>2. CASE state[n].drift
      <4>1. Mending(n)'
        BY <1>0, <2>1, <3>1, <3>2, FirstMending
      <4> QED
        BY <1>5, <2>1, <3>1, <3>2, <4>1 DEF Repairing
    <3>3. CASE ~state[n].drift
      BY <1>5, <2>1, <3>1, <3>3 DEF Repairing, InOrder
    <3> QED BY <3>2, <3>3
  <2> QED
    BY <1>1, <1>5, <2>1, <2>2 DEF Repairable
<1>7. CASE StartReady
  <2>1. /\ phase = "reset" /\ cmd = "reset" /\ phase' = "ready" /\ fleet' = fleet
        /\ \A n \in Declared : task[n] = "done" /\ task'[n] # "failed"
    BY <1>0, <1>7 DEF StartReady, Enter, Each, diskVars
  <2>2. ASSUME NEW n \in Declared
        PROVE  Repairing(n)'
    <3>1. Stands(n) /\ InOrder(n)
      BY <1>0, <2>1, MendedInOrder DEF Repairable, Repairing
    <3> QED
      BY <1>5, <2>1, <3>1 DEF Repairing
  <2> QED
    BY <1>1, <1>5, <2>1, <2>2 DEF Repairable
<1>8. CASE StartCheck
  <2>1. /\ phase = "ready" /\ phase' = "check" /\ fleet' = fleet /\ cmd' = cmd
        /\ \A n \in Declared : task'[n] = "compare"
    BY <1>0, <1>8 DEF StartCheck, Enter, Each, diskVars
  <2>2. ASSUME cmd = "reset", NEW n \in Declared
        PROVE  Repairing(n)'
    <3>1. Stands(n) /\ InOrder(n)
      BY <2>1, <2>2 DEF Repairable, Repairing
    <3> QED
      BY <1>5, <2>1, <3>1 DEF Repairing
  <2> QED
    BY <1>1, <1>5, <2>1, <2>2 DEF Repairable
<1> QED
  BY <1>3, <1>4, <1>6, <1>7, <1>8 DEF RunStep, CommandStep, ResetStep

\* As long as nothing fails every step keeps this.
LEMMA RepairStep ==
  ASSUME ~ArchivedUnreadable
  PROVE  RepairInv /\ [Next]_vars => RepairInv'
<1> SUFFICES ASSUME RepairInv, [Next]_vars PROVE RepairInv'
  OBVIOUS
<1>1. RewindInv /\ CourseInv /\ RewindInv' /\ CourseInv'
  BY RewindInvStep DEF RepairInv, RewindInv
<1>2. (\A n \in Names : Late(repo[n]))'
  BY <1>1, LateStep DEF RepairInv
<1>3. ASSUME faults' = 0
      PROVE  Repairable'
  <2>0. faults \in Nat /\ ~Kill
    BY <1>1, <1>3, CommandAssumption
    DEF CourseInv, OwnInv, TypeInv, TypeOK, CommandTypeOK, Kill, Fault
  <2>1. ASSUME NEW n \in Names, RunTask(n)
        PROVE  Repairable'
    <3>1. faults = 0
      BY <1>1, <1>3, <2>1, TaskFaults
    <3> QED
      BY <1>1, <1>3, <2>1, <3>1, TaskRepairs DEF RepairInv
  <2>2. CASE ~\E n \in Names : RunTask(n)
    <3>1. faults' = faults
      BY <2>0, <2>2
      DEF Next, vars, Forges, Saves, Reflects, Answers, Others, TestEdits, UserDeletes,
          StrangerCreates, EditFleet, commandVars, RunStep, CommandStep, Abort, StartCheck,
          EndCheck, ApplyStep, StartWork, StartSettle, WriteLock, ResetStep, StartRepairs,
          StartReady, RunApply, StartApply, RunVerify, StartVerify, RunReset, StartReset, Refuse
    <3>2. Repairable
      BY <1>3, <3>1 DEF RepairInv
    <3>3. CASE UNCHANGED vars
      <4>1. /\ Declared' = Declared /\ UNCHANGED <<fleet, cmd, phase, repo, task, state, patch, owner>>
            /\ repo \in [Names -> Repos] /\ Declared \subseteq Names
        BY <1>1, <3>3, WantType
        DEF vars, forgeVars, diskVars, runVars, poolVars, Declared, CourseInv, OwnInv, TypeInv,
            TypeOK, ForgeTypeOK
      <4>2. \A n \in Names : Swift(n)'
        BY <3>2, <4>1 DEF Repairable, Swift
      <4>3. ASSUME cmd = "reset", NEW n \in Declared
            PROVE  Repairing(n)'
        <5>1. Unmoved(n) /\ Repairing(n)
          BY <3>2, <4>1, <4>3 DEF Unmoved, SameRefs, Repairable
        <5> QED BY <4>1, <5>1, StillRepairing
      <4> QED BY <4>1, <4>2, <4>3 DEF Repairable
    <3> QED
      BY <1>1, <2>0, <2>2, <3>2, <3>3, ForgesRepair, OthersRepair, RunRepair
      DEF Next, RepairInv
  <2> QED BY <2>1, <2>2
<1> QED
  BY <1>1, <1>2, <1>3 DEF RepairInv

\* Nothing has been surveyed at first.
LEMMA RepairInit == Init => RepairInv
<1> SUFFICES ASSUME Init PROVE RepairInv
  OBVIOUS
<1>1. RewindInv
  BY RewindInvInit
<1>2. \A n \in Names : Late(repo[n])
  BY DEF Init, Blank, Late
<1>3. Repairable
  BY DEF Init, CommandInit, NoPatch, Repairable, Swift
<1> QED
  BY <1>1, <1>2, <1>3 DEF RepairInv

-----------------------------------------------------------------------------
(* Nothing is protected that the forge, or a test, did not protect *)

\* A push protects nothing where the forge does not, ...
LEMMA PushedBare ==
  ASSUME NEW r \in Repos, NEW s, ~AutoProtect, Bare(r), \E b, t : s = Pushed(r, b, t)
  PROVE  Bare(s)
<1>1. PICK b, t : s = Pushed(r, b, t)
  OBVIOUS
<1> DEFINE p == [r EXCEPT !.branches = b, !.tags = t]
<1>2. p.protected = r.protected
  BY DEF Repos
<1>3. Bare(Begun(p))
  BY DEF Begun, Bare, Repos
<1>4. [p EXCEPT !.pending = TRUE].protected = p.protected
  BY DEF Repos
<1> HIDE DEF p
<1> QED
  BY <1>1, <1>2, <1>3, <1>4 DEF Pushed, p, Bare

\* ... nor does a forced one, ...
LEMMA ForcePushBare ==
  ASSUME TypeInv, NEW n \in Names, ~AutoProtect, Bare(repo[n]), NEW c, NEW tags,
         ForcePush(n, c, tags)
  PROVE  Bare(repo'[n])
<1>0. repo \in [Names -> Repos] /\ repo[n] \in Repos
  BY DEF TypeInv, TypeOK, ForgeTypeOK
<1>1. repo'[n] = repo[n] \/ \E b, t : repo'[n] = Pushed(repo[n], b, t)
  <2>1. \/ repo'[n] = repo[n] \/ repo'[n] = PushRefs(repo[n], c, Want(n).default, tags)
        \/ repo'[n] = PushTags(repo[n], c, tags)
    BY <1>0 DEF ForcePush, Write, forgeVars
  <2> QED BY <2>1 DEF PushRefs, PushTags
<1> QED
  BY <1>0, <1>1, PushedBare DEF Bare

\* ... and no other step of a task does; ...
LEMMA TaskBare ==
  ASSUME CourseInv, NEW n \in Names, RunTask(n), ~AutoProtect, Bare(repo[n])
  PROVE  Bare(repo'[n])
<1>0. /\ TypeInv /\ repo \in [Names -> Repos] /\ repo[n] \in Repos /\ n \in Declared
      /\ Want(n) \in Wants
  BY TaskDeclared, WantType DEF CourseInv, OwnInv, TypeInv, TypeOK, ForgeTypeOK
<1>1. CASE CommandTask(n)
  <2>1. CASE Lift(n)
    <3>1. repo'[n] = Relaxed(repo[n], Want(n).default)
      BY <1>0, <2>1 DEF Lift, Write
    <3> QED BY <1>0, <3>1 DEF Relaxed, Bare, Repos
  <2>2. CASE ~Lift(n)
    BY <1>1, <2>2
    DEF CommandTask, StepFails, ForcePushErrs, Unarchive, Archive, Archived, Replied, Await,
        AwaitTimesOut, GivesUp, Compare, CompareBelievesMissing, ForgeReadsRow, forgeVars
  <2> QED BY <2>1, <2>2
<1>2. ASSUME \/ repo' = repo
             \/ \E x : repo'[n] = [repo[n] EXCEPT !.requests = x]
             \/ \E x : repo'[n] = [repo[n] EXCEPT !.branches = x]
             \/ \E x : repo'[n] = [repo[n] EXCEPT !.tags = x]
             \/ \E x : repo'[n] = [repo[n] EXCEPT !.topics = x]
      PROVE  Bare(repo'[n])
  BY <1>0, <1>2 DEF Bare, Repos
<1>3. CASE ResetTask(n)
  <2>1. CASE Rewind(n)
    BY <1>0, <2>1, ForcePushBare DEF Rewind, forgeVars
  <2>2. CASE ~Rewind(n)
    BY <1>0, <1>2, <1>3, <2>2
    DEF ResetTask, LiftedForReset, Replied, RewindDone, WaitRewound, WaitRewoundTimesOut,
        GivesUp, RestoreSettings, SettingsRestored, CloseRequests, DeleteBranches, DeleteTags,
        RestoreTopics, Write, ForgeReadsRow, forgeVars
  <2> QED BY <2>1, <2>2
<1>4. CASE ApplyTask(n)
  <2>1. CASE PushSeed(n)
    BY <1>0, <2>1, ForcePushBare DEF PushSeed
  <2>2. CASE CreateLands(n)
    <3>1. \E b \in Branches, t \in Topics : repo'[n] = NewRepo(Want(n), b, t)
      BY <1>0, <2>2 DEF CreateLands, ForgeCreates
    <3> QED BY <3>1 DEF NewRepo, Bare
  <2>3. CASE DeleteStaleRefs(n)
    <3> DEFINE kept == [b \in Branches |-> IF b \in change[n].staleBranches THEN NoCommit
                                           ELSE repo[n].branches[b]]
               tagged == [t \in AllTags |-> IF t \in change[n].staleTags THEN NoCommit
                                            ELSE repo[n].tags[t]]
    <3> HIDE DEF kept, tagged
    <3>1. \/ repo' = repo
          \/ \E requests : repo'[n] = [repo[n] EXCEPT
                !.tags = tagged, !.branches = kept, !.requests = requests]
      BY <1>0, <2>3 DEF DeleteStaleRefs, Write, forgeVars, kept, tagged
    <3> QED BY <1>0, <3>1 DEF Bare, Repos
  <2>4. CASE ~PushSeed(n) /\ ~CreateLands(n) /\ ~DeleteStaleRefs(n)
    <3>1. \/ repo' = repo
          \/ \E x : repo'[n] = [repo[n] EXCEPT !.topics = x]
      BY <1>0, <1>4, <2>4
      DEF ApplyTask, Diff, CreateErrs, CreateConflicts, CheckLanded, Adopt, Label, Appear,
          Unarchived, Replied, Recheck, ReadBack, WaitPushed, WaitPushedTimesOut, GivesUp,
          Settle, Settled, SetTopics, Write, ForgeReadsRow, forgeVars
    <3> QED BY <1>2, <3>1
  <2> QED BY <2>1, <2>2, <2>3, <2>4
<1> QED
  BY <1>1, <1>3, <1>4 DEF RunTask

\* ... nor the forge by itself, ...
LEMMA ForgesBare ==
  ASSUME ForgeTypeOK, NEW n \in Names, Forges(n), ~AutoProtect, Bare(repo[n])
  PROVE  Bare(repo'[n])
<1>0. repo \in [Names -> Repos] /\ repo[n] \in Repos
  BY DEF ForgeTypeOK
<1>1. CASE Saves(n)
  <2>1. repo'[n] = Saved(n)
    BY <1>0, <1>1 DEF Saves, ForgeSaves
  <2> QED BY <1>0, <2>1 DEF Saved, Bare, Repos
<1>2. CASE Reflects(n)
  <2> DEFINE r == [repo[n] EXCEPT !.pending = FALSE]
  <2>1. repo'[n] = IF r.empty THEN Begun(r) ELSE r
    BY <1>0, <1>2 DEF Reflects, ForgeReflects
  <2>2. r.protected = repo[n].protected /\ Begun(r).protected = repo[n].protected
    BY <1>0 DEF Begun, Repos
  <2> QED BY <2>1, <2>2 DEF Bare
<1>3. CASE Answers(n)
  BY <1>3 DEF Answers, ForgeAnswers
<1> QED
  BY <1>1, <1>2, <1>3 DEF Forges

\* ... nor a test that changes no protection.
LEMMA RepoEditsBare ==
  ASSUME NEW r \in Repos, NEW s \in RepoEdits(r), ~AutoProtect, "protection" \notin Tests,
         Bare(r)
  PROVE  Bare(s)
<1>1. ASSUME \E b, t : s = Pushed(r, b, t)
      PROVE  Bare(s)
  BY <1>1, PushedBare
<1>2. CASE s \in RefEdits(r)
  <2>1. ASSUME NEW b, NEW c, s = PushBranch(r, b, c)
        PROVE  Bare(s)
    BY <1>1, <2>1 DEF PushBranch
  <2>2. ASSUME NEW t, NEW c, s = PushTag(r, t, c)
        PROVE  Bare(s)
    BY <1>1, <2>2 DEF PushTag
  <2>3. ASSUME NEW b, s = [r EXCEPT !.requests = @ \cup {b}]
        PROVE  Bare(s)
    BY <2>3 DEF Bare, Repos
  <2> QED
    BY <1>2, <2>1, <2>2, <2>3 DEF RefEdits
<1>3. CASE s \in BaselineEdits(r)
  BY <1>1, <1>3 DEF BaselineEdits, PushTag
<1>4. CASE s \in SettingsEdits(r)
  BY <1>4 DEF SettingsEdits, Bare, Repos
<1> QED
  BY <1>2, <1>3, <1>4 DEF RepoEdits

\* So nothing is ever protected there.
LEMMA BareStep ==
  ASSUME ~AutoProtect, "protection" \notin Tests
  PROVE  CourseInv /\ (\A n \in Names : Bare(repo[n])) /\ [Next]_vars
         => (\A n \in Names : Bare(repo[n]))'
<1> SUFFICES ASSUME CourseInv, \A n \in Names : Bare(repo[n]), [Next]_vars
             PROVE  \A n \in Names : Bare(repo'[n])
  OBVIOUS
<1>0. ForgeTypeOK /\ TypeInv /\ repo \in [Names -> Repos]
  BY DEF CourseInv, OwnInv, TypeInv, TypeOK, ForgeTypeOK
<1>1. ASSUME NEW n \in Names, RunTask(n) PROVE \A m \in Names : Bare(repo'[m])
  BY <1>0, <1>1, TaskAside, TaskBare DEF Aside
<1>2. ASSUME NEW n \in Names, Forges(n) PROVE \A m \in Names : Bare(repo'[m])
  <2>1. \A m \in Names \ {n} : repo'[m] = repo[m]
    BY <1>0, <1>2
    DEF Forges, Saves, ForgeSaves, Reflects, ForgeReflects, Answers, ForgeAnswers
  <2> QED BY <1>0, <1>2, <2>1, ForgesBare
<1>3. ASSUME NEW n \in Names, Others(n) PROVE \A m \in Names : Bare(repo'[m])
  <2>1. /\ \A m \in Names \ {n} : repo'[m] = repo[m]
        /\ \/ repo'[n] = Blank \/ repo'[n] = [repo[n] EXCEPT !.archived = FALSE]
           \/ repo'[n] \in RepoEdits(repo[n])
    BY <1>0, <1>3 DEF Others, TestEdits, UserDeletes, StrangerCreates, Write
  <2>2. Blank.protected = [b \in Branches |-> "no"] /\ repo[n] \in Repos
    BY <1>0 DEF Blank
  <2>3. Bare(repo'[n])
    BY <2>1, <2>2, RepoEditsBare DEF Bare, Repos
  <2> QED BY <2>1, <2>3
<1>4. CASE RunStep \/ RunApply \/ RunVerify \/ RunReset \/ EditFleet \/ Kill
  <2>1. UNCHANGED forgeVars
    BY <1>4
    DEF RunStep, CommandStep, Abort, StartCheck, EndCheck, ApplyStep, StartWork, StartSettle,
        WriteLock, ResetStep, StartRepairs, StartReady, RunApply, StartApply, RunVerify,
        StartVerify, RunReset, StartReset, Refuse, Kill, EditFleet
  <2> QED BY <2>1 DEF forgeVars
<1>5. CASE UNCHANGED vars
  BY <1>5 DEF vars, forgeVars
<1> QED
  BY <1>1, <1>2, <1>3, <1>4, <1>5 DEF Next

-----------------------------------------------------------------------------
(* The theorems *)

\* A task that did not fail has no failure to tell, and only a declared repository's
\* task may fail.
Blameless(n) ==
  /\ task[n] # "failed" => result[n] = "ok"
  /\ task[n] = "failed" => n \in Declared

\* A task's failure is its own.
LEMMA TaskBlameless ==
  ASSUME CourseInv, NEW n \in Names, RunTask(n), Blameless(n)
  PROVE  Blameless(n)'
<1>0. /\ n \in Declared /\ task \in [Names -> Tasks] /\ Declared' = Declared
      /\ task[n] \notin {"done", "failed"} /\ result[n] = "ok"
  BY TaskDeclared, TaskBusy, TaskAside
  DEF CourseInv, OwnInv, TypeInv, TypeOK, CommandTypeOK, Blameless, Declared, diskVars
<1>1. result' = result \/ task'[n] = "failed"
  BY <1>0
  DEF RunTask, CommandTask, StepFails, ForcePushErrs, Lift, Unarchive, Archive, Archived,
      Replied, Await, AwaitTimesOut, GivesUp, Compare, CompareBelievesMissing, ApplyTask, Diff,
      CreateLands, CreateErrs, CreateConflicts, CheckLanded, Recognise, Adopt, Label, Appear,
      Unarchived, Recheck, PushSeed, ForcePush, ReadBack, WaitPushed, WaitPushedTimesOut,
      Settle, Settled, SetTopics, DeleteStaleRefs, ResetTask, LiftedForReset, Rewind,
      RewindDone, WaitRewound, WaitRewoundTimesOut, RestoreSettings, SettingsRestored,
      CloseRequests, DeleteBranches, DeleteTags, RestoreTopics, Goes, Ends, poolVars
<1> QED
  BY <1>0, <1>1 DEF Blameless

\* A phase starts with tasks that did not fail, after one in which none did.
LEMMA RunBlameless ==
  ASSUME CourseInv, \A n \in Names : Blameless(n),
         RunStep \/ RunApply \/ RunVerify \/ RunReset \/ Kill
  PROVE  \/ \A n \in Names : task'[n] # "failed" /\ result'[n] = "ok"
         \/ UNCHANGED <<fleet, cmd, phase, task, result>>
<1>1. CASE RunStep \/ Kill
  <2>1. \/ \E code : Finish(code)
        \/ AllWell /\ \E p, start : Enter(p, start) /\ \A n \in Names : start[n] # "failed"
    BY <1>1
    DEF RunStep, CommandStep, Abort, StartCheck, EndCheck, ApplyStep, StartWork, StartSettle,
        WriteLock, ResetStep, StartRepairs, StartReady, Kill, Each, FirstStep, Seeding,
        FirstRepair, Rewinding
  <2> QED
    BY <2>1 DEF Finish, Enter, AllWell, Blameless
<1>2. CASE RunApply \/ RunVerify \/ RunReset
  BY <1>2
  DEF CourseInv, OwnInv, TypeInv, IdleIsClean, Blameless, RunApply, StartApply, RunVerify,
      StartVerify, RunReset, StartReset, Refuse, Each, diskVars, poolVars
<1> QED
  BY <1>1, <1>2

\* Every step keeps failures where they happened.
LEMMA BlamelessStep ==
  CourseInv /\ (\A n \in Names : Blameless(n)) /\ [Next]_vars
  => (\A n \in Names : Blameless(n))'
<1> SUFFICES ASSUME CourseInv, \A n \in Names : Blameless(n), [Next]_vars
             PROVE  \A n \in Names : Blameless(n)'
  OBVIOUS
<1>1. ASSUME NEW n \in Names, RunTask(n) PROVE \A m \in Names : Blameless(m)'
  <2>1. /\ Declared' = Declared
        /\ \A m \in Names \ {n} : task'[m] = task[m] /\ result'[m] = result[m]
    BY <1>1, TaskAside DEF CourseInv, OwnInv, Aside, Declared, diskVars
  <2> QED BY <1>1, <2>1, TaskBlameless DEF Blameless
<1>2. ASSUME UNCHANGED <<fleet, task, result>> PROVE \A m \in Names : Blameless(m)'
  BY <1>2 DEF Blameless, Declared
<1>3. ASSUME NEW n \in Names, Forges(n) \/ Others(n) PROVE \A m \in Names : Blameless(m)'
  BY <1>2, <1>3
  DEF Forges, Saves, Reflects, Answers, Others, TestEdits, UserDeletes, StrangerCreates,
      diskVars, commandVars, poolVars
<1>4. CASE RunStep \/ RunApply \/ RunVerify \/ RunReset \/ Kill
  BY <1>2, <1>4, RunBlameless DEF Blameless
<1>5. CASE EditFleet
  BY <1>5
  DEF EditFleet, Quiet, commandVars, poolVars, CourseInv, OwnInv, TypeInv, IdleIsClean, Blameless
<1>6. CASE UNCHANGED vars
  BY <1>2, <1>6 DEF vars, diskVars, poolVars
<1> QED
  BY <1>1, <1>3, <1>4, <1>5, <1>6 DEF Next

\* Nothing a reset does fails.
Unfailed == cmd = "reset" /\ faults = 0 => \A n \in Names : task[n] # "failed"

\* While requests and waits do not fail, no task of a reset meets a state it cannot
\* repair.
LEMMA UnfailedStep ==
  ASSUME ~ArchivedUnreadable
  PROVE  /\ RepairInv /\ Unfailed /\ (\A n \in Names : Blameless(n) /\ Free(repo[n]))
         /\ [Next]_vars
         => Unfailed'
<1> SUFFICES ASSUME RepairInv, Unfailed, \A n \in Names : Blameless(n) /\ Free(repo[n]),
                    [Next]_vars, cmd' = "reset", faults' = 0
             PROVE  \A n \in Names : task'[n] # "failed"
  BY DEF Unfailed
<1>0. CourseInv /\ RewindInv /\ faults \in Nat
  BY CommandAssumption
  DEF RepairInv, RewindInv, CourseInv, OwnInv, TypeInv, TypeOK, CommandTypeOK
<1>1. ASSUME NEW n \in Names, RunTask(n) PROVE \A m \in Names : task'[m] # "failed"
  <2>1. /\ faults = 0 /\ cmd = "reset" /\ \A m \in Names \ {n} : task'[m] = task[m]
    BY <1>0, <1>1, TaskFaults, TaskAside DEF CourseInv, OwnInv, Aside, runVars
  <2>2. task'[n] # "failed"
    BY <1>0, <1>1, <2>1, TaskRepairs DEF RepairInv
  <2> QED BY <2>1, <2>2 DEF Unfailed
<1>2. ASSUME UNCHANGED <<cmd, task, faults>> PROVE \A n \in Names : task'[n] # "failed"
  BY <1>2 DEF Unfailed
<1>3. ASSUME NEW n \in Names, Forges(n) \/ Others(n)
      PROVE  \A m \in Names : task'[m] # "failed"
  BY <1>2, <1>3
  DEF Forges, Saves, Reflects, Answers, Others, TestEdits, UserDeletes, StrangerCreates,
      commandVars, runVars, poolVars
<1>4. CASE RunStep \/ RunApply \/ RunVerify \/ RunReset
  <2>1. faults' = faults
    BY <1>4
    DEF RunStep, CommandStep, Abort, StartCheck, EndCheck, ApplyStep, StartWork, StartSettle,
        WriteLock, ResetStep, StartRepairs, StartReady, RunApply, StartApply, RunVerify,
        StartVerify, RunReset, StartReset, Refuse
  <2> QED BY <1>0, <1>2, <1>4, <2>1, RunBlameless
<1>5. CASE EditFleet
  BY <1>2, <1>5 DEF EditFleet, commandVars, runVars, poolVars
<1>6. CASE Kill
  BY <1>0, <1>6 DEF Kill, Fault
<1>7. CASE UNCHANGED vars
  BY <1>2, <1>7 DEF vars, runVars, poolVars
<1> QED
  BY <1>1, <1>3, <1>4, <1>5, <1>6, <1>7 DEF Next

\* What both theorems rest on.
LEMMA RepairAlways ==
  ASSUME ~ArchivedUnreadable
  PROVE  Spec => [](RepairInv /\ \A n \in Names : Blameless(n))
<1>1. Init => RepairInv /\ \A n \in Names : Blameless(n)
  BY RepairInit DEF Init, CommandInit, Blameless
<1>2. RepairInv /\ (\A n \in Names : Blameless(n)) /\ [Next]_vars
      => (RepairInv /\ \A n \in Names : Blameless(n))'
  <2>1. RepairInv => CourseInv
    BY DEF RepairInv, RewindInv
  <2> QED BY <2>1, RepairStep, BlamelessStep
<1> QED
  BY <1>1, <1>2, PTL DEF Spec

\* DriftIsRepairable: as long as nothing fails no task of a reset does, whatever
\* drifted and in whatever order its parts must be put back -- on a forge that lets
\* archived repositories be read, and on which no test protects a branch, or a
\* protected one can be deleted.
THEOREM DriftRepaired ==
  ASSUME ~ArchivedUnreadable, AutoProtect \/ "protection" \notin Tests
  PROVE  Spec => []DriftIsRepairable
<1> DEFINE Always == RepairInv /\ \A n \in Names : Blameless(n)
           Kept == Unfailed /\ \A n \in Names : Free(repo[n])
<1>1. Spec => []Always
  BY RepairAlways
<1>2. Init => Kept
  <2>1. Free(Blank)
    BY DEF Blank, Free, Bare
  <2>2. Init => Unfailed
    BY DEF Init, CommandInit, Unfailed
  <2> QED BY <2>1, <2>2 DEF Init
<1>3. Always /\ Kept /\ [Next]_vars => Kept'
  <2> SUFFICES ASSUME Always, Kept, [Next]_vars PROVE Kept'
    OBVIOUS
  <2>1. Unfailed'
    BY UnfailedStep
  <2>2. CASE AutoProtect
    BY <2>1, <2>2 DEF Free
  <2>3. CASE ~AutoProtect
    <3>1. (\A n \in Names : Bare(repo[n]))'
      BY <2>3, BareStep DEF Free, RepairInv, RewindInv
    <3> QED BY <2>1, <3>1 DEF Free
  <2> QED BY <2>2, <2>3
<1>4. Always /\ Kept => DriftIsRepairable
  BY DEF Blameless, Unfailed, DriftIsRepairable
<1> HIDE DEF Always, Kept
<1> QED
  BY <1>1, <1>2, <1>3, <1>4, PTL DEF Spec

\* The action property, without its box.
EndsWell == cmd = "reset" /\ phase = "check" /\ cmd' = "none" /\ faults' = 0 => exit' = "ok"

\* ResetEndsWell: a reset that gets as far as its second comparison finds nothing --
\* on a forge that lets archived repositories be read and, where it reflects pushes
\* later, if every repository is declared with content.
THEOREM ResetEnds ==
  ASSUME ~ArchivedUnreadable, Background => NoEmpties
  PROVE  Spec => ResetEndsWell
<1> DEFINE Always == RepairInv /\ \A n \in Names : Blameless(n)
<1>1. Spec => []Always
  BY RepairAlways
<1>2. Always /\ [Next]_vars => EndsWell
  <2> SUFFICES ASSUME Always, [Next]_vars, cmd = "reset", phase = "check", cmd' = "none",
                      faults' = 0
               PROVE  exit' = "ok"
    BY DEF EndsWell
  <2>0. CourseInv /\ faults \in Nat
    BY CommandAssumption
    DEF RepairInv, RewindInv, CourseInv, OwnInv, TypeInv, TypeOK, CommandTypeOK
  <2>1. Abort \/ EndCheck
    <3>1. \A n \in Names : ~RunTask(n)
      BY <2>0, TaskAside DEF CourseInv, OwnInv, runVars
    <3>2. \A n \in Names : ~Forges(n) /\ ~Others(n)
      BY DEF Forges, Saves, Reflects, Answers, Others, TestEdits, UserDeletes,
             StrangerCreates, commandVars, runVars
    <3>3. ~RunApply /\ ~RunVerify /\ ~RunReset /\ ~EditFleet /\ ~Kill /\ ~UNCHANGED vars
      BY <2>0
      DEF RunApply, StartApply, RunVerify, StartVerify, RunReset, StartReset, EditFleet, Quiet,
          Kill, Fault, vars, runVars
    <3>4. ~StartCheck /\ ~ApplyStep /\ ~ResetStep
      BY DEF StartCheck, ApplyStep, StartWork, StartSettle, WriteLock, ResetStep,
             StartRepairs, StartReady
    <3> QED
      BY <3>1, <3>2, <3>3, <3>4 DEF Next, RunStep, CommandStep
  <2>2. PhaseOver /\ faults = 0
    BY <2>1 DEF Abort, EndCheck
  <2>3. \A n \in Declared : Repairing(n)
    BY <2>2 DEF RepairInv, Repairable
  <2>4. AllWell
    BY <2>3 DEF Repairing, Blameless, AllWell
  <2>5. \A n \in Declared : ~state[n].guard /\ ~state[n].drift
    <3> TAKE n \in Declared
    <3>1. n \in Names /\ (Background => ~Want(n).empty)
      BY <2>0, WantType, WantsContent DEF CourseInv, OwnInv
    <3>2. task[n] = "done"
      BY <2>2, <2>4, <3>1 DEF PhaseOver, AllWell
    <3> QED
      BY <2>3, <3>1, <3>2 DEF Repairing
  <2>6. Verdict = "ok"
    BY <2>5 DEF Verdict
  <2> QED
    BY <2>1, <2>4, <2>6 DEF Abort, EndCheck, Finish
<1>3. Spec => [][EndsWell]_vars
  <2> HIDE DEF Always
  <2> QED BY <1>1, <1>2, PTL DEF Spec
<1> QED
  BY <1>3, PTL DEF ResetEndsWell, EndsWell
=============================================================================
