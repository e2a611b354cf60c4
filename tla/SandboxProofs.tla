----------------------------- MODULE SandboxProofs -----------------------------
(***************************************************************************)
(* Theorems about Sandbox: types, and that what is not forgelab's is left  *)
(* alone, for every fleet, forge and number of repositories.               *)
(***************************************************************************)
EXTENDS Sandbox, TLAPS

(* What the operators of Repository and Forge return *)

\* No refs, and no protections, are well-formed maps of refs and protections.
LEMMA EmptyRefsType ==
  /\ [b \in Branches |-> NoCommit] \in Refs(Branches)
  /\ [t \in AllTags |-> NoCommit] \in Refs(AllTags)
  /\ [b \in Branches |-> "no"] \in [Branches -> Protections]
BY DEF Refs, Protections

\* What stands under a name nobody holds is a repository record (Sandbox!Blank).
LEMMA BlankType == Blank \in Repos
BY EmptyRefsType, ValuesAssumption DEF Blank, Repos

\* A POST brings a repository into being, whatever default branch and topics it gets.
LEMMA NewRepoType ==
  ASSUME NEW want \in Wants, NEW b \in Branches, NEW t \in Topics
  PROVE  NewRepo(want, b, t) \in Repos
BY EmptyRefsType DEF NewRepo, Repos, Wants

\* The refs that exist are among those that may.
LEMMA HasType ==
  ASSUME NEW S, NEW refs \in Refs(S)
  PROVE  Has(refs) \subseteq S
BY DEF Has, Refs

\* A first push taking effect leaves a repository.
LEMMA BegunType ==
  ASSUME NEW r \in Repos
  PROVE  Begun(r) \in Repos
<1>1. Has(r.branches) \subseteq Branches
  BY HasType DEF Repos
<1> DEFINE d == IF ~AutoProtect \/ r.default \in Has(r.branches)
                      \/ Has(r.branches) = {}
                 THEN r.default ELSE CHOOSE b \in Has(r.branches) : TRUE
<1>2. d \in Branches
  BY <1>1 DEF Repos
<1>3. [r.protected EXCEPT ![d] = IF AutoProtect THEN "yes" ELSE @] \in [Branches -> Protections]
  BY <1>2 DEF Repos, Protections
<1> HIDE DEF d
<1>4. [r EXCEPT !.empty = FALSE, !.default = d,
               !.protected[d] = IF AutoProtect THEN "yes" ELSE @] \in Repos
  BY <1>2, <1>3 DEF Repos
<1> QED
  BY <1>4 DEF Begun, d

\* A push of any branches and tags leaves a repository.
LEMMA PushedType ==
  ASSUME NEW r \in Repos, NEW b \in Refs(Branches), NEW t \in Refs(AllTags)
  PROVE  Pushed(r, b, t) \in Repos
<1>1. [r EXCEPT !.branches = b, !.tags = t] \in Repos
  BY DEF Repos
<1>2. [[r EXCEPT !.branches = b, !.tags = t] EXCEPT !.pending = TRUE] \in Repos
  BY DEF Repos
<1> QED
  BY <1>1, <1>2, BegunType DEF Pushed

\* allow_force_push leaves a repository.
LEMMA RelaxedType ==
  ASSUME NEW r \in Repos, NEW b \in Branches
  PROVE  Relaxed(r, b) \in Repos
BY DEF Relaxed, Repos, Protections

\* Moving any set of tags to one commit gives tags.
LEMMA RetaggedType ==
  ASSUME NEW r \in Repos, NEW c \in Commits \cup {NoCommit}, NEW S
  PROVE  [t \in AllTags |-> IF t \in S THEN c ELSE r.tags[t]] \in Refs(AllTags)
BY DEF Repos, Refs

\* A push of which only the tags land leaves a repository.
LEMMA PushTagsType ==
  ASSUME NEW r \in Repos, NEW c \in Commits, NEW tags
  PROVE  PushTags(r, c, tags) \in Repos
<1>1. r.branches \in Refs(Branches)
  BY DEF Repos
<1> QED
  BY <1>1, RetaggedType, PushedType DEF PushTags

\* The push of a seed leaves a repository.
LEMMA PushRefsType ==
  ASSUME NEW r \in Repos, NEW c \in Commits, NEW b \in Branches, NEW tags
  PROVE  PushRefs(r, c, b, tags) \in Repos
<1>1. [r.branches EXCEPT ![b] = c] \in Refs(Branches)
  BY DEF Repos, Refs
<1> QED
  BY <1>1, RetaggedType, PushedType DEF PushRefs

\* A field of a settings write is what was asked for, or what it was.
LEMMA AskedType ==
  ASSUME NEW S, NEW value \in S, NEW wish \in SUBSET S
  PROVE  Asked(value, wish) \in S
BY DEF Asked

\* Saving the row of a settings write leaves a repository.
LEMMA SavedType ==
  ASSUME ForgeTypeOK, NEW n \in Names
  PROVE  Saved(n) \in Repos
<1> DEFINE r == repo[n]
           p == patch[n]
           v == Asked(r.visibility, p.visibility)
           d == Asked(r.default, p.default)
           a == Asked(r.archived, p.archived)
           e == IF SavesRow THEN p.empty ELSE r.empty
           s == [r EXCEPT !.visibility = v, !.default = d, !.archived = a,
                          !.empty = e]
<1>1. r \in Repos /\ p \in Patches
  BY DEF ForgeTypeOK
<1>2. v \in Visibilities /\ d \in Branches /\ a \in BOOLEAN
  BY <1>1, AskedType DEF Repos, Patches
<1>3. e \in BOOLEAN
  BY <1>1 DEF Repos, Patches
<1>4. s \in Repos
  <2> HIDE DEF v, d, a, e
  <2> QED BY <1>1, <1>2, <1>3 DEF Repos
<1>5. Saved(n) = IF AutoProtect /\ p.default # {} THEN Relaxed(s, d) ELSE s
  BY DEF Saved
<1> QED
  BY <1>2, <1>4, <1>5, RelaxedType

-----------------------------------------------------------------------------
(* What the comparisons return *)

\* A repository that was read is a sighting (Change::live).
LEMMA SeenType ==
  ASSUME NEW r \in Repos
  PROVE  SeenOf(r) \in Sightings
BY DEF SeenOf, Repos, Sightings

\* So is one that was not, as it is declared.
LEMMA UnseenType ==
  ASSUME NEW want \in Wants
  PROVE  Unseen(want) \in Sightings
BY DEF Unseen, Wants, Sightings

\* The plan for a missing repository is a Change.
LEMMA CreationType ==
  ASSUME NEW want \in Wants
  PROVE  Creation(want) \in Changes
BY UnseenType DEF Creation, Changes

\* diff_one returns a Change, whatever the old lock said.
LEMMA DiffOneType ==
  ASSUME NEW want \in Wants, NEW r \in Repos, NEW prev \in SUBSET Wants
  PROVE  DiffOne(want, r, prev) \in Changes
<1>1. UNION {p.tags : p \in prev} \subseteq Tags /\ {p.default : p \in prev} \subseteq Branches
  BY DEF Wants
<1> QED
  BY <1>1, SeenType DEF DiffOne, Changes

\* compare_one returns a State, whoever owns the repository.
LEMMA CompareOneType ==
  ASSUME NEW want \in Wants, NEW who, NEW r \in Repos
  PROVE  CompareOne(want, who, r) \in States
<1>1. ExtraBranches(want, r) \in SUBSET Branches
  BY HasType DEF ExtraBranches, Repos
<1>2. ExtraTags(want, r) \in SUBSET Tags
  BY HasType DEF ExtraTags, Repos, AllTags
<1>3. r.requests \in SUBSET Branches /\ r.archived \in BOOLEAN
  BY DEF Repos
<1> QED
  BY <1>1, <1>2, <1>3 DEF CompareOne, States, CompareGuards

-----------------------------------------------------------------------------
(* The invariant behind the types *)

Resting == {"done", "failed"}

\* Only what the fleet declares is worked on, and the fleet is not edited while
\* a command runs: every Want(n) a task uses exists.
TasksDeclared == \A n \in Names : task[n] \notin Resting => n \in Declared

\* Between commands nothing is left of the last one.
IdleIsClean ==
  cmd = "none" =>
    /\ phase = "idle"
    /\ \A n \in Names : task[n] = "done" /\ ~Needed(change[n]) /\ ~state[n].drift

TypeInv == TypeOK /\ TasksDeclared /\ IdleIsClean

\* A name the fleet declares is a repository name with a declaration.
LEMMA WantType ==
  ASSUME TypeInv, NEW n \in Declared
  PROVE  n \in Names /\ Want(n) \in Wants
BY FleetsAssumption DEF TypeInv, TypeOK, CommandTypeOK, Declared, Want

\* What the old lock has of a name is declarations.
LEMMA PreviousType ==
  ASSUME TypeInv, NEW n \in Names
  PROVE  Previous(n) \in SUBSET Wants
BY FleetsAssumption DEF TypeInv, TypeOK, CommandTypeOK, Previous

\* Having planned nothing is a Change, and nothing needs doing for it.
LEMMA NothingType == Nothing \in Changes /\ ~Needed(Nothing)
BY ValuesAssumption DEF Nothing, Changes, Needed, Sightings

\* Not having compared, and having found nothing, are States without drift.
LEMMA UncheckedType == Unchecked \in States /\ ~Unchecked.drift /\ Missing \in States /\ ~Missing.drift
BY DEF Unchecked, Missing, States

\* What one step of one task has to show.
LEMMA TaskStep ==
  ASSUME TypeInv, NEW n \in Names, task[n] \notin Resting,
         UNCHANGED <<diskVars, runVars>>,
         \E t \in Tasks : task' = [task EXCEPT ![n] = t],
         result' \in [Names -> Results], ForgeTypeOK',
         change' \in [Names -> Changes], state' \in [Names -> States],
         faults' \in 0 .. MaxFaults
  PROVE  TypeInv'
<1>1. TypeOK'
  BY DEF TypeInv, TypeOK, CommandTypeOK, diskVars, runVars
<1>2. TasksDeclared'
  BY DEF TypeInv, TypeOK, CommandTypeOK, TasksDeclared, Declared, diskVars
<1>3. IdleIsClean'
  BY DEF TypeInv, IdleIsClean, Resting, runVars
<1> QED
  BY <1>1, <1>2, <1>3 DEF TypeInv

\* A write to one repository keeps the types of the forge.
LEMMA WriteType ==
  ASSUME ForgeTypeOK, NEW n \in Names, NEW r \in Repos, Write(n, r)
  PROVE  ForgeTypeOK'
BY DEF ForgeTypeOK, Write

\* A settings write that begins keeps the types of the forge.
LEMMA ReadsRowType ==
  ASSUME ForgeTypeOK, NEW n \in Names, NEW v \in SUBSET Visibilities,
         NEW d \in SUBSET Branches, NEW a \in SUBSET BOOLEAN,
         ForgeReadsRow(n, v, d, a)
  PROVE  ForgeTypeOK'
<1>1. repo[n].empty \in BOOLEAN
  BY DEF ForgeTypeOK, Repos
<1> QED
  BY <1>1 DEF ForgeTypeOK, ForgeReadsRow, Patches

\* Injected faults stay within their bound.
LEMMA FaultType ==
  ASSUME TypeInv, Fault
  PROVE  faults' \in 0 .. MaxFaults
BY CommandAssumption DEF TypeInv, TypeOK, CommandTypeOK, Fault

\* A command that ends leaves everything of its type, and nothing planned.
LEMMA FinishType ==
  ASSUME TypeInv, NEW code \in Exits, Finish(code), ForgeTypeOK',
         UNCHANGED diskVars, faults' \in 0 .. MaxFaults
  PROVE  TypeInv'
BY NothingType, UncheckedType
DEF TypeInv, TypeOK, CommandTypeOK, Finish, Commands, Phases, Tasks, Results,
    TasksDeclared, IdleIsClean, Resting, Declared, diskVars

\* A phase that begins with tasks for declared repositories keeps the invariant.
LEMMA EnterType ==
  ASSUME TypeInv, NEW p \in Phases, NEW start \in [Names -> Tasks],
         Enter(p, start), cmd # "none",
         \A n \in Names : start[n] \notin Resting => n \in Declared,
         ForgeTypeOK', fleet' = fleet, lock' \in DOMAIN Fleets \cup {0},
         edits' = edits,
         change' \in [Names -> Changes], state' \in [Names -> States],
         faults' \in 0 .. MaxFaults
  PROVE  TypeInv'
BY DEF TypeInv, TypeOK, CommandTypeOK, Enter, TasksDeclared, IdleIsClean, Declared

-----------------------------------------------------------------------------
(* The steps *)

\* The steps apply and reset share keep the invariant.
LEMMA CommandTaskType ==
  ASSUME TypeInv, NEW n \in Names, CommandTask(n)
  PROVE  TypeInv'
<1> USE DEF Goes, Ends, Tasks, Results, Resting
<1>0. /\ ForgeTypeOK /\ task \in [Names -> Tasks] /\ result \in [Names -> Results]
      /\ change \in [Names -> Changes] /\ state \in [Names -> States]
      /\ faults \in 0 .. MaxFaults
      /\ task[n] \notin Resting => n \in Declared /\ Want(n) \in Wants
      /\ repo[n] \in Repos
  BY WantType DEF TypeInv, TypeOK, CommandTypeOK, TasksDeclared, ForgeTypeOK
<1>1. CASE StepFails(n)
  BY <1>0, <1>1, FaultType, TaskStep DEF StepFails, ForgeTypeOK, forgeVars
<1>2. CASE ForcePushErrs(n)
  BY <1>0, <1>2, FaultType, TaskStep DEF ForcePushErrs, ForgeTypeOK, forgeVars
<1>3. CASE Lift(n)
  <2>1. Want(n).default \in Branches
    BY <1>0, <1>3 DEF Lift, Wants
  <2>2. ForgeTypeOK'
    BY <1>0, <1>3, <2>1, RelaxedType, WriteType DEF Lift
  <2> QED BY <1>0, <1>3, <2>2, TaskStep DEF Lift
<1>4. CASE Unarchive(n)
  <2>1. ForgeTypeOK'
    BY <1>0, <1>4, ReadsRowType DEF Unarchive
  <2> QED BY <1>0, <1>4, <2>1, TaskStep DEF Unarchive
<1>5. CASE Archive(n)
  <2>1. ForgeTypeOK'
    BY <1>0, <1>5, ReadsRowType DEF Archive, ForgeTypeOK, forgeVars
  <2> QED BY <1>0, <1>5, <2>1, TaskStep DEF Archive
<1>6. CASE Archived(n) \/ Await(n)
  BY <1>0, <1>6, TaskStep DEF Archived, Replied, Await, ForgeTypeOK, forgeVars
<1>7. CASE AwaitTimesOut(n)
  <2>1. faults' \in 0 .. MaxFaults
    BY <1>0, <1>7, FaultType DEF AwaitTimesOut, GivesUp
  <2> QED BY <1>0, <1>7, <2>1, TaskStep DEF AwaitTimesOut, GivesUp, ForgeTypeOK, forgeVars
<1>8. CASE Compare(n)
  <2>1. CompareOne(Want(n), owner[n], repo[n]) \in States
    BY <1>0, <1>8, CompareOneType DEF Compare
  <2>2. state' \in [Names -> States]
    BY <1>0, <1>8, <2>1, UncheckedType DEF Compare
  <2> QED BY <1>0, <1>8, <2>2, TaskStep DEF Compare, ForgeTypeOK, forgeVars
<1>9. CASE CompareBelievesMissing(n)
  <2>1. state' \in [Names -> States] /\ faults' \in 0 .. MaxFaults
    BY <1>0, <1>9, UncheckedType, FaultType DEF CompareBelievesMissing
  <2> QED BY <1>0, <1>9, <2>1, TaskStep DEF CompareBelievesMissing, ForgeTypeOK, forgeVars
<1> QED
  BY <1>1, <1>2, <1>3, <1>4, <1>5, <1>6, <1>7, <1>8, <1>9 DEF CommandTask

\* A push, of whatever commit.
LEMMA ForcePushType ==
  ASSUME TypeInv, NEW n \in Names, NEW c \in Commits, NEW tags,
         ForcePush(n, c, tags)
  PROVE  TypeInv'
<1> USE DEF Goes, Ends, Tasks, Results, Resting
<1>0. /\ ForgeTypeOK /\ task \in [Names -> Tasks] /\ result \in [Names -> Results]
      /\ change \in [Names -> Changes] /\ state \in [Names -> States]
      /\ faults \in 0 .. MaxFaults
      /\ task[n] \notin Resting => n \in Declared /\ Want(n) \in Wants
      /\ repo[n] \in Repos
  BY WantType DEF TypeInv, TypeOK, CommandTypeOK, TasksDeclared, ForgeTypeOK
<1>1. task[n] \notin Resting /\ Want(n).default \in Branches
  BY <1>0 DEF ForcePush, Wants
<1>2. /\ PushRefs(repo[n], c, Want(n).default, tags) \in Repos
      /\ PushTags(repo[n], c, tags) \in Repos
  BY <1>0, <1>1, PushRefsType, PushTagsType
<1>3. ForgeTypeOK'
  BY <1>0, <1>2, WriteType DEF ForcePush, ForgeTypeOK, forgeVars
<1> QED
  BY <1>0, <1>1, <1>3, TaskStep DEF ForcePush

\* A step of apply for one repository keeps the invariant.
LEMMA ApplyTaskType ==
  ASSUME TypeInv, NEW n \in Names, ApplyTask(n)
  PROVE  TypeInv'
<1> USE DEF Goes, Ends, Tasks, Results, Resting
<1>0. /\ ForgeTypeOK /\ task \in [Names -> Tasks] /\ result \in [Names -> Results]
      /\ change \in [Names -> Changes] /\ state \in [Names -> States]
      /\ faults \in 0 .. MaxFaults
      /\ task[n] \notin Resting => n \in Declared /\ Want(n) \in Wants
      /\ repo[n] \in Repos
  BY WantType DEF TypeInv, TypeOK, CommandTypeOK, TasksDeclared, ForgeTypeOK
<1>1. CASE Diff(n)
  <2>1. Want(n) \in Wants
    BY <1>0, <1>1 DEF Diff
  <2>2. /\ Creation(Want(n)) \in Changes
        /\ DiffOne(Want(n), repo[n], Previous(n)) \in Changes
    BY <1>0, <2>1, CreationType, PreviousType, DiffOneType
  <2>3. change' \in [Names -> Changes]
    BY <1>0, <1>1, <2>2 DEF Diff
  <2> QED BY <1>0, <1>1, <2>3, TaskStep DEF Diff, ForgeTypeOK, forgeVars
<1>2. CASE CreateLands(n)
  <2>1. \A b \in Branches, t \in Topics : NewRepo(Want(n), b, t) \in Repos
    BY <1>0, <1>2, NewRepoType DEF CreateLands
  <2>2. ForgeTypeOK'
    <3>1. PICK b \in Branches, t \in Topics :
            repo' = [repo EXCEPT ![n] = NewRepo(Want(n), b, t)]
      BY <1>2 DEF CreateLands, ForgeCreates
    <3>2. PICK seen \in BOOLEAN : visible' = [visible EXCEPT ![n] = seen]
      BY <1>2, ForgeAssumption DEF CreateLands, ForgeCreates
    <3> QED
      BY <1>0, <1>2, <2>1, <3>1, <3>2
      DEF CreateLands, ForgeCreates, ForgeTypeOK, Owners
  <2>3. faults' \in 0 .. MaxFaults
    BY <1>0, <1>2, FaultType DEF CreateLands
  <2> QED BY <1>0, <1>2, <2>2, <2>3, TaskStep DEF CreateLands
<1>3. CASE CreateErrs(n)
  BY <1>0, <1>3, FaultType, TaskStep DEF CreateErrs, ForgeTypeOK, forgeVars
<1>4. CASE CreateConflicts(n) \/ Appear(n)
  BY <1>0, <1>4, TaskStep DEF CreateConflicts, Appear, ForgeTypeOK, forgeVars
<1>14. CASE CheckLanded(n) \/ Adopt(n)
  <2>1. /\ \E t \in Tasks : task' = [task EXCEPT ![n] = t]
        /\ result' \in [Names -> Results]
    BY <1>0, <1>14 DEF CheckLanded, Adopt, Recognise
  <2> QED BY <1>0, <1>14, <2>1, TaskStep DEF CheckLanded, Adopt, ForgeTypeOK, forgeVars
<1>5. CASE Label(n)
  <2>1. [repo[n] EXCEPT !.topics = Want(n).topics] \in Repos
    BY <1>0, <1>5 DEF Label, Repos, Wants
  <2>2. ForgeTypeOK'
    BY <1>0, <1>5, <2>1, WriteType DEF Label, ForgeTypeOK, forgeVars
  <2> QED BY <1>0, <1>5, <2>2, TaskStep DEF Label
<1>6. CASE Unarchived(n) \/ WaitPushed(n) \/ Settled(n)
  BY <1>0, <1>6, TaskStep
  DEF Unarchived, WaitPushed, Settled, Replied, Seeding, ForgeTypeOK, forgeVars
<1>7. CASE Recheck(n)
  <2>1. \A p \in BOOLEAN : [change[n] EXCEPT !.push = p] \in Changes
    BY <1>0 DEF Changes
  <2>2. change' \in [Names -> Changes]
    BY <1>0, <1>7, <2>1 DEF Recheck
  <2> QED BY <1>0, <1>7, <2>2, TaskStep DEF Recheck, ForgeTypeOK, forgeVars
<1>8. CASE PushSeed(n)
  <2>1. Want(n).baseline \in Commits
    BY <1>0, <1>8 DEF PushSeed, ForcePush, Wants
  <2> QED BY <1>8, <2>1, ForcePushType DEF PushSeed
<1>9. CASE ReadBack(n)
  <2>1. Unseen(Want(n)) \in Sightings /\ SeenOf(repo[n]) \in Sightings
    BY <1>0, <1>9, UnseenType, SeenType DEF ReadBack
  <2>2. change[n].live \in Sightings
    BY <1>0 DEF Changes
  <2>3. Current(n) \in Sightings
    BY <2>1, <2>2 DEF Current
  <2>4. change' \in [Names -> Changes]
    <3>1. \A s \in Sightings : [change[n] EXCEPT !.live = s] \in Changes
      BY <1>0 DEF Changes
    <3> QED BY <1>0, <1>9, <2>1, <2>3, <3>1 DEF ReadBack
  <2>5. faults' \in 0 .. MaxFaults
    BY <1>0, <1>9, FaultType DEF ReadBack
  <2> QED BY <1>0, <1>9, <2>4, <2>5, TaskStep DEF ReadBack, ForgeTypeOK, forgeVars
<1>10. CASE WaitPushedTimesOut(n)
  <2>1. faults' \in 0 .. MaxFaults
    BY <1>0, <1>10, FaultType DEF WaitPushedTimesOut, GivesUp
  <2> QED BY <1>0, <1>10, <2>1, TaskStep DEF WaitPushedTimesOut, GivesUp, ForgeTypeOK, forgeVars
<1>11. CASE Settle(n)
  <2>1. /\ NewVisibility(n) \in SUBSET Visibilities
        /\ NewDefault(n) \in SUBSET Branches
        /\ {} \in SUBSET BOOLEAN
    BY <1>0, <1>11 DEF Settle, NewVisibility, NewDefault, Wants
  <2>2. CASE UNCHANGED forgeVars
    BY <1>0, <1>11, <2>2, TaskStep DEF Settle, ForgeTypeOK, forgeVars
  <2>3. CASE ForgeReadsRow(n, NewVisibility(n), NewDefault(n), {})
    <3>1. ForgeTypeOK'
      <4> HIDE DEF Goes, Ends, Tasks, Results, Resting
      <4> QED BY <1>0, <2>1, <2>3, ReadsRowType
    <3> QED BY <1>0, <1>11, <3>1, TaskStep DEF Settle
  <2> QED BY <1>11, <2>2, <2>3 DEF Settle
<1>12. CASE SetTopics(n)
  <2>1. [repo[n] EXCEPT !.topics = Want(n).topics] \in Repos
    BY <1>0, <1>12 DEF SetTopics, Repos, Wants
  <2>2. ForgeTypeOK'
    BY <1>0, <1>12, <2>1, WriteType DEF SetTopics, ForgeTypeOK, forgeVars
  <2> QED BY <1>0, <1>12, <2>2, TaskStep DEF SetTopics
<1>13. CASE DeleteStaleRefs(n)
  <2> DEFINE r == repo[n]
             tags == [t \in AllTags |-> IF t \in change[n].staleTags
                                        THEN NoCommit ELSE r.tags[t]]
             branches == [b \in Branches |-> IF b \in change[n].staleBranches
                                             THEN NoCommit ELSE r.branches[b]]
             rest == r.requests \ change[n].staleBranches
  <2>1. tags \in Refs(AllTags) /\ branches \in Refs(Branches) /\ rest \in SUBSET Branches
    BY <1>0 DEF Repos, Refs
  <2>2. [r EXCEPT !.tags = tags, !.branches = branches, !.requests = rest] \in Repos
    <3> HIDE DEF tags, branches, rest
    <3> QED BY <1>0, <2>1 DEF Repos
  <2>3. ForgeTypeOK'
    BY <1>0, <1>13, <2>2, WriteType DEF DeleteStaleRefs, ForgeTypeOK, forgeVars
  <2> QED BY <1>0, <1>13, <2>3, TaskStep DEF DeleteStaleRefs
<1> QED
  BY <1>1, <1>2, <1>3, <1>4, <1>5, <1>6, <1>7, <1>8, <1>9, <1>10, <1>11, <1>12,
     <1>13, <1>14
  DEF ApplyTask

\* A step of reset for one repository keeps the invariant.
LEMMA ResetTaskType ==
  ASSUME TypeInv, NEW n \in Names, ResetTask(n)
  PROVE  TypeInv'
<1> USE DEF Goes, Ends, Tasks, Results, Resting
<1>0. /\ ForgeTypeOK /\ task \in [Names -> Tasks] /\ result \in [Names -> Results]
      /\ change \in [Names -> Changes] /\ state \in [Names -> States]
      /\ faults \in 0 .. MaxFaults
      /\ task[n] \notin Resting => n \in Declared /\ Want(n) \in Wants
      /\ repo[n] \in Repos
  BY WantType DEF TypeInv, TypeOK, CommandTypeOK, TasksDeclared, ForgeTypeOK
<1>1. CASE LiftedForReset(n) \/ RewindDone(n) \/ WaitRewound(n) \/ SettingsRestored(n)
  BY <1>0, <1>1, TaskStep
  DEF LiftedForReset, RewindDone, WaitRewound, SettingsRestored, Replied, Rewinding,
      ForgeTypeOK, forgeVars
<1>2. CASE Rewind(n)
  <2>1. CASE repo[n].tags[Baseline] = NoCommit
    BY <1>0, <1>2, <2>1, TaskStep DEF Rewind, ForgeTypeOK, forgeVars
  <2>2. CASE repo[n].tags[Baseline] # NoCommit
    <3>1. repo[n].tags[Baseline] \in Commits
      BY <1>0, <2>2 DEF Repos, Refs, AllTags
    <3> QED BY <1>2, <2>2, <3>1, ForcePushType DEF Rewind
  <2> QED BY <2>1, <2>2
<1>3. CASE WaitRewoundTimesOut(n)
  <2>1. faults' \in 0 .. MaxFaults
    BY <1>0, <1>3, FaultType DEF WaitRewoundTimesOut, GivesUp
  <2> QED BY <1>0, <1>3, <2>1, TaskStep DEF WaitRewoundTimesOut, GivesUp, ForgeTypeOK, forgeVars
<1>4. CASE RestoreSettings(n)
  <2> DEFINE v == IF HasVisibility THEN {Want(n).visibility} ELSE {}
             d == IF Want(n).empty THEN {} ELSE {Want(n).default}
  <2>1. v \in SUBSET Visibilities /\ d \in SUBSET Branches /\ {} \in SUBSET BOOLEAN
    BY <1>0, <1>4 DEF RestoreSettings, Wants
  <2>2. CASE UNCHANGED forgeVars
    BY <1>0, <1>4, <2>2, TaskStep DEF RestoreSettings, ForgeTypeOK, forgeVars
  <2>3. CASE ForgeReadsRow(n, v, d, {})
    <3>1. ForgeTypeOK'
      <4> HIDE DEF Goes, Ends, Tasks, Results, Resting, v, d
      <4> QED BY <1>0, <2>1, <2>3, ReadsRowType
    <3> QED BY <1>0, <1>4, <3>1, TaskStep DEF RestoreSettings
  <2> QED BY <1>4, <2>2, <2>3 DEF RestoreSettings
<1>5. CASE CloseRequests(n)
  <2> DEFINE Gone(b) ==
               /\ Write(n, [repo[n] EXCEPT !.requests = @ \ {b}])
               /\ state' = [state EXCEPT ![n].requests = @ \ {b}]
  <2>1. \/ UNCHANGED <<forgeVars, state>>
        \/ \E b \in state[n].requests : Gone(b)
    BY <1>5 DEF CloseRequests
  <2>2. /\ \E t \in Tasks : task' = [task EXCEPT ![n] = t]
        /\ result' \in [Names -> Results]
    <3>1. task = [task EXCEPT ![n] = task[n]] /\ task[n] \in Tasks
      BY <1>0
    <3> QED BY <1>0, <1>5, <3>1 DEF CloseRequests, poolVars
  <2>3. ForgeTypeOK' /\ state' \in [Names -> States]
    <3>1. CASE UNCHANGED <<forgeVars, state>>
      BY <1>0, <3>1 DEF ForgeTypeOK, forgeVars
    <3>2. ASSUME NEW b \in state[n].requests, Gone(b)
          PROVE  ForgeTypeOK' /\ state' \in [Names -> States]
      <4>1. [repo[n] EXCEPT !.requests = @ \ {b}] \in Repos
        BY <1>0 DEF Repos, Refs, States, AllTags
      <4>2. ForgeTypeOK'
        BY <1>0, <3>2, <4>1, WriteType
      <4>3. [state[n] EXCEPT !.requests = @ \ {b}] \in States
        BY <1>0 DEF States
      <4>4. state' \in [Names -> States]
        BY <1>0, <3>2, <4>3
      <4> QED BY <4>2, <4>4
    <3> QED BY <2>1, <3>1, <3>2
  <2> QED BY <1>0, <1>5, <2>2, <2>3, TaskStep DEF CloseRequests
<1>6. CASE DeleteBranches(n)
  <2> DEFINE Gone(b) ==
               /\ Write(n, [repo[n] EXCEPT !.branches[b] = NoCommit])
               /\ state' = [state EXCEPT ![n].branches = @ \ {b}]
  <2>1. \/ UNCHANGED <<forgeVars, state>>
        \/ \E b \in state[n].branches : Gone(b)
    BY <1>6 DEF DeleteBranches
  <2>2. /\ \E t \in Tasks : task' = [task EXCEPT ![n] = t]
        /\ result' \in [Names -> Results]
    <3>1. task = [task EXCEPT ![n] = task[n]] /\ task[n] \in Tasks
      BY <1>0
    <3> QED BY <1>0, <1>6, <3>1 DEF DeleteBranches, poolVars
  <2>3. ForgeTypeOK' /\ state' \in [Names -> States]
    <3>1. CASE UNCHANGED <<forgeVars, state>>
      BY <1>0, <3>1 DEF ForgeTypeOK, forgeVars
    <3>2. ASSUME NEW b \in state[n].branches, Gone(b)
          PROVE  ForgeTypeOK' /\ state' \in [Names -> States]
      <4>1. [repo[n] EXCEPT !.branches[b] = NoCommit] \in Repos
        BY <1>0 DEF Repos, Refs, States, AllTags
      <4>2. ForgeTypeOK'
        BY <1>0, <3>2, <4>1, WriteType
      <4>3. [state[n] EXCEPT !.branches = @ \ {b}] \in States
        BY <1>0 DEF States
      <4>4. state' \in [Names -> States]
        BY <1>0, <3>2, <4>3
      <4> QED BY <4>2, <4>4
    <3> QED BY <2>1, <3>1, <3>2
  <2> QED BY <1>0, <1>6, <2>2, <2>3, TaskStep DEF DeleteBranches
<1>7. CASE DeleteTags(n)
  <2> DEFINE Gone(t) ==
               /\ Write(n, [repo[n] EXCEPT !.tags[t] = NoCommit])
               /\ state' = [state EXCEPT ![n].tags = @ \ {t}]
  <2>1. \/ UNCHANGED <<forgeVars, state>>
        \/ \E t \in state[n].tags : Gone(t)
    BY <1>7 DEF DeleteTags
  <2>2. /\ \E t \in Tasks : task' = [task EXCEPT ![n] = t]
        /\ result' \in [Names -> Results]
    <3>1. task = [task EXCEPT ![n] = task[n]] /\ task[n] \in Tasks
      BY <1>0
    <3> QED BY <1>0, <1>7, <3>1 DEF DeleteTags, poolVars
  <2>3. ForgeTypeOK' /\ state' \in [Names -> States]
    <3>1. CASE UNCHANGED <<forgeVars, state>>
      BY <1>0, <3>1 DEF ForgeTypeOK, forgeVars
    <3>2. ASSUME NEW t \in state[n].tags, Gone(t)
          PROVE  ForgeTypeOK' /\ state' \in [Names -> States]
      <4>1. [repo[n] EXCEPT !.tags[t] = NoCommit] \in Repos
        BY <1>0 DEF Repos, Refs, States, AllTags
      <4>2. ForgeTypeOK'
        BY <1>0, <3>2, <4>1, WriteType
      <4>3. [state[n] EXCEPT !.tags = @ \ {t}] \in States
        BY <1>0 DEF States
      <4>4. state' \in [Names -> States]
        BY <1>0, <3>2, <4>3
      <4> QED BY <4>2, <4>4
    <3> QED BY <2>1, <3>1, <3>2
  <2> QED BY <1>0, <1>7, <2>2, <2>3, TaskStep DEF DeleteTags
<1>8. CASE RestoreTopics(n)
  <2>1. [repo[n] EXCEPT !.topics = Want(n).topics] \in Repos
    BY <1>0, <1>8 DEF RestoreTopics, Repos, Wants
  <2>2. ForgeTypeOK'
    BY <1>0, <1>8, <2>1, WriteType DEF RestoreTopics, ForgeTypeOK, forgeVars
  <2> QED BY <1>0, <1>8, <2>2, TaskStep DEF RestoreTopics
<1> QED
  BY <1>1, <1>2, <1>3, <1>4, <1>5, <1>6, <1>7, <1>8 DEF ResetTask

\* Starting the same stage for a set of repositories starts it for those.
LEMMA EachType ==
  ASSUME NEW S \in SUBSET Names, NEW t \in Tasks
  PROVE  /\ Each(S, t) \in [Names -> Tasks]
         /\ \A n \in Names : Each(S, t)[n] \notin Resting => n \in S
BY DEF Each, Tasks, Resting

\* A step of the command itself: a phase ends.
LEMMA RunStepType ==
  ASSUME TypeInv, RunStep
  PROVE  TypeInv'
<1> USE DEF Commands, Phases, Tasks, Exits
<1>0. /\ ForgeTypeOK /\ task \in [Names -> Tasks]
      /\ fleet \in DOMAIN Fleets /\ lock \in DOMAIN Fleets \cup {0}
      /\ change \in [Names -> Changes] /\ state \in [Names -> States]
      /\ faults \in 0 .. MaxFaults
      /\ \A n \in Names : task[n] \notin Resting => n \in Declared
      /\ \A n \in Declared : n \in Names /\ Want(n) \in Wants
      /\ Outcome \in Exits /\ Verdict \in Exits
  BY WantType DEF TypeInv, TypeOK, CommandTypeOK, TasksDeclared, Outcome, Verdict
<1>1. CASE Abort
  BY <1>0, <1>1, FinishType DEF Abort, ForgeTypeOK, forgeVars
<1>2. CASE StartCheck
  <2>1. /\ Each(Declared, "compare") \in [Names -> Tasks]
        /\ \A n \in Names : Each(Declared, "compare")[n] \notin Resting => n \in Declared
    BY <1>0, EachType
  <2>2. cmd # "none" /\ ForgeTypeOK'
    BY <1>0, <1>2 DEF StartCheck, TypeInv, IdleIsClean, ForgeTypeOK, forgeVars
  <2>3. /\ change' \in [Names -> Changes] /\ state' \in [Names -> States]
        /\ faults' \in 0 .. MaxFaults /\ fleet' = fleet /\ edits' = edits
        /\ lock' \in DOMAIN Fleets \cup {0}
    BY <1>0, <1>2 DEF StartCheck, diskVars
  <2> QED BY <1>2, <2>1, <2>2, <2>3, EnterType DEF StartCheck
<1>3. CASE EndCheck
  BY <1>0, <1>3, FinishType DEF EndCheck, ForgeTypeOK, forgeVars
<1>4. CASE StartWork
  <2> DEFINE start == [n \in Names |-> IF n \in Declared /\ Needed(change[n])
                                       THEN FirstStep(n) ELSE "done"]
  <2>1. /\ start \in [Names -> Tasks]
        /\ \A n \in Names : start[n] \notin Resting => n \in Declared
    BY DEF FirstStep, Seeding, Resting
  <2>2. cmd # "none" /\ ForgeTypeOK'
    BY <1>0, <1>4 DEF StartWork, TypeInv, IdleIsClean, ForgeTypeOK, forgeVars
  <2>3. /\ change' \in [Names -> Changes] /\ state' \in [Names -> States]
        /\ faults' \in 0 .. MaxFaults /\ fleet' = fleet /\ edits' = edits
        /\ lock' \in DOMAIN Fleets \cup {0}
    BY <1>0, <1>4 DEF StartWork, diskVars
  <2>4. Enter("apply", start)
    BY <1>4 DEF StartWork
  <2> HIDE DEF start
  <2> QED BY <2>1, <2>2, <2>3, <2>4, EnterType
<1>5. CASE StartSettle
  <2>1. CASE AllWell
    <3>1. \A n \in Names : task[n] = "pushed" => Current(n) \in Sightings
      <4> TAKE n \in Names
      <4> HAVE task[n] = "pushed"
      <4>1. repo[n] \in Repos /\ n \in Declared /\ change[n].live \in Sightings
        BY <1>0 DEF Resting, ForgeTypeOK, Changes
      <4> QED BY <1>0, <4>1, UnseenType, SeenType DEF Current
    <3>2. \A n \in Names : task[n] = "pushed" =>
             [change[n] EXCEPT !.live = Current(n)] \in Changes
      BY <1>0, <3>1 DEF Changes
    <3>3. change' \in [Names -> Changes]
      BY <1>0, <1>5, <2>1, <3>2 DEF StartSettle
    <3> DEFINE start == [n \in Names |-> IF task[n] = "pushed" THEN "wait" ELSE "done"]
    <3>4. /\ start \in [Names -> Tasks]
          /\ \A n \in Names : start[n] \notin Resting => n \in Declared
      BY <1>0 DEF Resting
    <3>5. cmd # "none" /\ ForgeTypeOK'
      BY <1>0, <1>5 DEF StartSettle, ForgeTypeOK, forgeVars
    <3>6. /\ state' \in [Names -> States]
          /\ faults' \in 0 .. MaxFaults /\ fleet' = fleet /\ edits' = edits
          /\ lock' \in DOMAIN Fleets \cup {0}
      BY <1>0, <1>5, <2>1 DEF StartSettle, diskVars
    <3>7. Enter("settle", start)
      BY <1>5, <2>1 DEF StartSettle
    <3> HIDE DEF start
    <3> QED BY <3>3, <3>4, <3>5, <3>6, <3>7, EnterType
  <2>2. CASE ~AllWell
    BY <1>0, <1>5, <2>2, FinishType DEF StartSettle, ForgeTypeOK, forgeVars
  <2> QED BY <2>1, <2>2
<1>6. CASE WriteLock
  <2>1. /\ Each(Declared, "await") \in [Names -> Tasks]
        /\ \A n \in Names : Each(Declared, "await")[n] \notin Resting => n \in Declared
    BY <1>0, EachType
  <2>2. ForgeTypeOK'
    BY <1>0, <1>6 DEF WriteLock, ForgeTypeOK, forgeVars
  <2>3. /\ change' \in [Names -> Changes] /\ state' \in [Names -> States]
        /\ faults' \in 0 .. MaxFaults /\ fleet' = fleet /\ edits' = edits
        /\ lock' \in DOMAIN Fleets \cup {0}
    BY <1>0, <1>6 DEF WriteLock
  <2> QED BY <1>6, <2>1, <2>2, <2>3, EnterType DEF WriteLock
<1>7. CASE StartRepairs
  <2>1. CASE Verdict # "drift"
    BY <1>0, <1>7, <2>1, FinishType DEF StartRepairs, ForgeTypeOK, forgeVars
  <2>2. CASE Verdict = "drift"
    <3> DEFINE start == [n \in Names |-> IF n \in Drifted THEN FirstRepair(n) ELSE "done"]
    <3>1. /\ start \in [Names -> Tasks]
          /\ \A n \in Names : start[n] \notin Resting => n \in Declared
      BY DEF FirstRepair, Rewinding, Drifted, Resting
    <3>2. cmd # "none" /\ ForgeTypeOK'
      BY <1>0, <1>7 DEF StartRepairs, TypeInv, IdleIsClean, ForgeTypeOK, forgeVars
    <3>3. /\ change' \in [Names -> Changes] /\ state' \in [Names -> States]
          /\ faults' \in 0 .. MaxFaults /\ fleet' = fleet /\ edits' = edits
          /\ lock' \in DOMAIN Fleets \cup {0}
      BY <1>0, <1>7, <2>2 DEF StartRepairs, diskVars
    <3>4. Enter("reset", start)
      BY <1>7, <2>2 DEF StartRepairs
    <3> HIDE DEF start
    <3> QED BY <3>1, <3>2, <3>3, <3>4, EnterType
  <2> QED BY <2>1, <2>2
<1>8. CASE StartReady
  <2>1. /\ Each(Drifted, "await") \in [Names -> Tasks]
        /\ \A n \in Names : Each(Drifted, "await")[n] \notin Resting => n \in Declared
    BY <1>0, EachType DEF Drifted
  <2>2. cmd # "none" /\ ForgeTypeOK'
    BY <1>0, <1>8 DEF StartReady, TypeInv, IdleIsClean, ForgeTypeOK, forgeVars
  <2>3. /\ change' \in [Names -> Changes] /\ state' \in [Names -> States]
        /\ faults' \in 0 .. MaxFaults /\ fleet' = fleet /\ edits' = edits
        /\ lock' \in DOMAIN Fleets \cup {0}
    BY <1>0, <1>8 DEF StartReady, diskVars
  <2> QED BY <1>8, <2>1, <2>2, <2>3, EnterType DEF StartReady
<1> QED
  BY <1>1, <1>2, <1>3, <1>4, <1>5, <1>6, <1>7, <1>8
  DEF RunStep, CommandStep, ApplyStep, ResetStep

\* Somebody else acts, or the forge does: the command is not touched.
LEMMA BesideType ==
  ASSUME TypeInv, UNCHANGED <<fleet, lock, commandVars>>, ForgeTypeOK',
         edits' \in 0 .. MaxEdits
  PROVE  TypeInv'
BY DEF TypeInv, TypeOK, CommandTypeOK, TasksDeclared, IdleIsClean, Declared,
       commandVars, runVars, poolVars, Needed

\* The edits of others stay within their bound.
LEMMA EditType ==
  ASSUME TypeInv, Edit
  PROVE  edits' \in 0 .. MaxEdits
BY CommandAssumption DEF TypeInv, TypeOK, CommandTypeOK, Edit

\* What the forge does by itself keeps the invariant.
LEMMA ForgesType ==
  ASSUME TypeInv, NEW n \in Names, Forges(n)
  PROVE  TypeInv'
<1>0. ForgeTypeOK /\ repo[n] \in Repos /\ edits \in 0 .. MaxEdits
  BY DEF TypeInv, TypeOK, CommandTypeOK, ForgeTypeOK
<1>1. CASE Saves(n)
  <2>1. NoPatch \in Patches
    BY DEF NoPatch, Patches
  <2>2. ForgeTypeOK'
    BY <1>0, <1>1, <2>1, SavedType DEF Saves, ForgeSaves, ForgeTypeOK
  <2> QED BY <1>0, <1>1, <2>2, BesideType DEF Saves, diskVars
<1>2. CASE Reflects(n)
  <2>1. [repo[n] EXCEPT !.pending = FALSE] \in Repos
    BY <1>0 DEF Repos
  <2>2. ForgeTypeOK'
    BY <1>0, <1>2, <2>1, BegunType DEF Reflects, ForgeReflects, ForgeTypeOK
  <2> QED BY <1>0, <1>2, <2>2, BesideType DEF Reflects, diskVars
<1>3. CASE Answers(n)
  BY <1>0, <1>3, BesideType DEF Answers, ForgeAnswers, ForgeTypeOK, diskVars
<1> QED
  BY <1>1, <1>2, <1>3 DEF Forges

\* Whatever a test makes of a repository is one.
LEMMA RepoEditsType ==
  ASSUME NEW r \in Repos, NEW e \in RepoEdits(r)
  PROVE  e \in Repos
<1>0. /\ r.branches \in Refs(Branches) /\ r.tags \in Refs(AllTags)
      /\ Has(r.branches) \subseteq Branches /\ r.requests \subseteq Branches
      /\ TestCommits \subseteq Commits
  BY HasType, SandboxAssumption DEF Repos
<1>a. \A b \in Branches, c \in Commits \cup {NoCommit} : PushBranch(r, b, c) \in Repos
  <2> TAKE b \in Branches, c \in Commits \cup {NoCommit}
  <2>1. [r.branches EXCEPT ![b] = c] \in Refs(Branches)
    BY <1>0 DEF Refs
  <2> QED BY <1>0, <2>1, PushedType DEF PushBranch
<1>b. \A t \in AllTags, c \in Commits \cup {NoCommit} : PushTag(r, t, c) \in Repos
  <2> TAKE t \in AllTags, c \in Commits \cup {NoCommit}
  <2>1. [r.tags EXCEPT ![t] = c] \in Refs(AllTags)
    BY <1>0 DEF Refs
  <2> QED BY <1>0, <2>1, PushedType DEF PushTag
<1>c. \A b \in Branches : [r EXCEPT !.requests = @ \cup {b}] \in Repos
  BY <1>0 DEF Repos
<1>1. ASSUME e \in RefEdits(r) PROVE e \in Repos
  BY <1>0, <1>1, <1>a, <1>b, <1>c DEF RefEdits, AllTags
<1>2. ASSUME e \in BaselineEdits(r) PROVE e \in Repos
  BY <1>0, <1>2, <1>b DEF BaselineEdits, AllTags
<1>3. ASSUME e \in SettingsEdits(r) PROVE e \in Repos
  BY <1>0, <1>3 DEF SettingsEdits, Repos
<1>4. ASSUME e \in ProtectionEdits(r) PROVE e \in Repos
  BY <1>0, <1>4 DEF ProtectionEdits, Repos, Protections
<1> QED
  BY <1>1, <1>2, <1>3, <1>4 DEF RepoEdits

\* What tests, users and strangers do to a repository keeps the invariant.
LEMMA OthersType ==
  ASSUME TypeInv, NEW n \in Names, Others(n)
  PROVE  TypeInv'
<1>0. ForgeTypeOK /\ repo[n] \in Repos /\ edits' \in 0 .. MaxEdits
  BY EditType
  DEF TypeInv, TypeOK, ForgeTypeOK, Others, TestEdits, UserDeletes, StrangerCreates
<1>1. CASE TestEdits(n)
  <2>1. PICK r \in Repos : Write(n, r)
    <3>1. [repo[n] EXCEPT !.archived = FALSE] \in Repos
      BY <1>0 DEF Repos
    <3>2. \A r \in RepoEdits(repo[n]) : r \in Repos
      BY <1>0, RepoEditsType
    <3>3. \/ \E r \in RepoEdits(repo[n]) : Write(n, r)
          \/ Write(n, [repo[n] EXCEPT !.archived = FALSE])
      BY <1>1 DEF TestEdits
    <3> QED BY <3>1, <3>2, <3>3
  <2>2. ForgeTypeOK'
    BY <1>0, <2>1, WriteType
  <2> QED BY <1>0, <1>1, <2>2, BesideType DEF TestEdits
<1>2. CASE UserDeletes(n) \/ StrangerCreates(n)
  <2>1. ForgeTypeOK'
    BY <1>0, <1>2, BlankType DEF UserDeletes, StrangerCreates, ForgeTypeOK, Owners
  <2> QED BY <1>0, <1>2, <2>1, BesideType DEF UserDeletes, StrangerCreates
<1> QED
  BY <1>1, <1>2 DEF Others

\* A command starts, is killed, or the fleet is edited.
LEMMA RunType ==
  ASSUME TypeInv, RunApply \/ RunVerify \/ RunReset \/ EditFleet \/ Kill
  PROVE  TypeInv'
<1> USE DEF Commands, Phases, Tasks, Exits
<1>0. /\ \A t \in Tasks :
           /\ Each(Declared, t) \in [Names -> Tasks]
           /\ \A n \in Names : Each(Declared, t)[n] \notin Resting => n \in Declared
  BY WantType, EachType
<1>1. ASSUME NEW c \in Commands \ {"none"}, NEW p \in Phases, NEW t \in Tasks,
             cmd' = c, phase' = p, task' = Each(Declared, t),
             UNCHANGED <<forgeVars, diskVars, exit, result, change, state, faults>>
      PROVE  TypeInv'
  <2>1. TypeOK'
    <3>1. ForgeTypeOK'
      BY <1>1 DEF TypeInv, TypeOK, ForgeTypeOK, forgeVars
    <3>2. c \in Commands /\ Each(Declared, t) \in [Names -> Tasks]
      <4> HIDE DEF Commands, Phases, Tasks, Exits
      <4>1. c \in Commands
        OBVIOUS
      <4>2. Each(Declared, t) \in [Names -> Tasks]
        BY <1>0
      <4> QED BY <4>1, <4>2
    <3>3. CommandTypeOK'
      <4> HIDE DEF Commands, Phases, Tasks, Exits
      <4> QED BY <3>2, <1>1 DEF TypeInv, TypeOK, CommandTypeOK, diskVars
    <3> QED BY <3>1, <3>3 DEF TypeOK
  <2>2. IdleIsClean'
    <3>1. cmd' # "none"
      BY <1>1
    <3> QED BY <3>1 DEF IdleIsClean
  <2>3. Declared' = Declared
    BY <1>1 DEF Declared, diskVars
  <2>4. TasksDeclared'
    <3> HIDE DEF Commands, Phases, Tasks, Exits
    <3> QED BY <1>0, <1>1, <2>3 DEF TasksDeclared
  <2> QED BY <2>1, <2>2, <2>4 DEF TypeInv
<1>2. ASSUME Refuse PROVE TypeInv'
  BY <1>2
  DEF Refuse, TypeInv, TypeOK, CommandTypeOK, ForgeTypeOK, TasksDeclared, IdleIsClean,
      Needed, Declared, forgeVars, diskVars, poolVars
<1>3. CASE RunApply
  BY <1>1, <1>3 DEF RunApply, StartApply
<1>4. CASE RunVerify
  BY <1>1, <1>2, <1>4 DEF RunVerify, StartVerify
<1>5. CASE RunReset
  BY <1>1, <1>2, <1>5 DEF RunReset, StartReset
<1>6. CASE EditFleet
  <2>1. edits' \in 0 .. MaxEdits
    BY <1>6, EditType DEF EditFleet
  <2>2. TypeOK'
    BY <1>6, <2>1
    DEF EditFleet, TypeInv, TypeOK, CommandTypeOK, ForgeTypeOK, forgeVars, commandVars,
        runVars, poolVars
  <2>3. cmd = "none"
    BY <1>6 DEF EditFleet, Quiet
  <2>4. TasksDeclared' /\ IdleIsClean'
    BY <1>6, <2>3
    DEF EditFleet, TypeInv, TasksDeclared, IdleIsClean, Resting, Needed, commandVars,
        runVars, poolVars
  <2> QED BY <2>2, <2>4 DEF TypeInv
<1>7. CASE Kill
  <2>1. ForgeTypeOK'
    BY <1>7 DEF Kill, TypeInv, TypeOK, ForgeTypeOK, forgeVars
  <2> QED BY <1>7, <2>1, FaultType, FinishType DEF Kill
<1> QED
  BY <1>3, <1>4, <1>5, <1>6, <1>7

\* The invariant holds of a fleet without a lock and an empty forge.
LEMMA TypeInvInit == Init => TypeInv
<1> SUFFICES ASSUME Init PROVE TypeInv
  OBVIOUS
<1>1. ForgeTypeOK
  <2>1. NoPatch \in Patches
    BY DEF NoPatch, Patches
  <2> QED BY <2>1, BlankType DEF Init, ForgeTypeOK, Owners
<1>2. CommandTypeOK
  BY NothingType, UncheckedType, FleetsAssumption, CommandAssumption
  DEF Init, CommandInit, CommandTypeOK, Commands, Phases, Tasks, Results, Exits
<1>3. TasksDeclared /\ IdleIsClean
  BY NothingType, UncheckedType
  DEF Init, CommandInit, TasksDeclared, IdleIsClean, Resting
<1> QED
  BY <1>1, <1>2, <1>3 DEF TypeInv, TypeOK

\* Every step, and every stutter, keeps the invariant.
LEMMA TypeInvStep == TypeInv /\ [Next]_vars => TypeInv'
<1> SUFFICES ASSUME TypeInv, [Next]_vars PROVE TypeInv'
  OBVIOUS
<1>1. CASE \E n \in Names : RunTask(n) \/ Forges(n) \/ Others(n)
  BY <1>1, CommandTaskType, ApplyTaskType, ResetTaskType, ForgesType, OthersType
  DEF RunTask
<1>2. CASE RunStep
  BY <1>2, RunStepType
<1>3. CASE RunApply \/ RunVerify \/ RunReset \/ EditFleet \/ Kill
  BY <1>3, RunType
<1>4. CASE UNCHANGED vars
  BY <1>4
  DEF TypeInv, TypeOK, CommandTypeOK, ForgeTypeOK, TasksDeclared, IdleIsClean, Needed,
      Declared, vars, forgeVars, diskVars, runVars, poolVars
<1> QED
  BY <1>1, <1>2, <1>3, <1>4 DEF Next

\* Every variable keeps its type, whatever runs, fails or is killed.
THEOREM TypeCorrect == Spec => []TypeOK
<1>1. TypeInv => TypeOK
  BY DEF TypeInv
<1> QED
  BY <1>1, TypeInvInit, TypeInvStep, PTL DEF Spec

-----------------------------------------------------------------------------
(* What forgelab did not create, it leaves alone                           *)
(*                                                                         *)
(* ForeignUntouched is not inductive: apply and reset act on a plan and a  *)
(* survey made earlier, and a settings write outlives the command that     *)
(* sent it.  WritesAreOurs says that all of these concern forgelab's own   *)
(* repositories; it holds because a repository is deleted only between     *)
(* commands, when nothing is under way or decided (IdleIsClean).  Names    *)
(* nobody holds are proved free of all that with or without a marker: what *)
(* is proved of reset and of settings writes needs it.                     *)

\* Nothing stands under n, or what forgelab can tell is not its own.
NotOurs(n) == owner[n] = "nobody" \/ (HasMarker /\ owner[n] = "others")

\* Nobody writes there; and a name is free until it is created, which a task
\* that was told it is taken knows.
LeftAlone(n) ==
  /\ NotOurs(n) => Harmless(n)
  /\ owner[n] = "nobody" => repo[n] = Blank /\ task[n] # "adopt"

OwnInv == TypeInv /\ \A n \in Names : LeftAlone(n)

\* The action property, without its box.
ForeignStep ==
  \A n \in Names :
    owner[n] = "others" /\ owner'[n] = "others" /\ HasMarker
    => repo'[n] = repo[n] /\ patch'[n] = patch[n]

\* A step that concerns n only.
Aside(n) ==
  \A m \in Names \ {n} :
    /\ task'[m] = task[m] /\ change'[m] = change[m] /\ state'[m] = state[m]
    /\ repo'[m] = repo[m] /\ patch'[m] = patch[m] /\ owner'[m] = owner[m]

\* It is enough to look at n, and to look at it if it is not forgelab's.
LEMMA OwnStep ==
  ASSUME OwnInv, NEW n \in Names, Aside(n), LeftAlone(n)',
         HasMarker /\ owner[n] = "others" /\ owner'[n] = "others"
           => repo'[n] = repo[n] /\ patch'[n] = patch[n]
  PROVE  (\A m \in Names : LeftAlone(m)') /\ ForeignStep
<1>1. ForeignStep
  BY DEF Aside, ForeignStep
<1>2. ASSUME NEW m \in Names, m # n
      PROVE  LeftAlone(m)'
  BY <1>2 DEF OwnInv, LeftAlone, NotOurs, Aside, Harmless, Needed
<1> QED
  BY <1>1, <1>2

\* A task that keeps the owner has to leave alone what is not forgelab's.
LEMMA OwnTask ==
  ASSUME OwnInv, NEW n \in Names, Aside(n), owner' = owner,
         NotOurs(n) =>
           /\ Harmless(n)' /\ repo'[n] = repo[n] /\ patch'[n] = patch[n]
           /\ owner[n] = "nobody" => task'[n] # "adopt"
  PROVE  (\A m \in Names : LeftAlone(m)') /\ ForeignStep
<1>1. LeftAlone(n)'
  BY DEF OwnInv, LeftAlone, NotOurs
<1> QED
  BY <1>1, OwnStep DEF NotOurs

\* A repository that is not forgelab's is no drift.
LEMMA CompareOneOwn ==
  ASSUME NEW want, NEW who, NEW r, ~IsOurs(who)
  PROVE  ~CompareOne(want, who, r).drift
BY DEF CompareOne, CompareGuards

\* A step apply and reset share writes to forgelab's own only.
LEMMA CommandTaskOwn ==
  ASSUME OwnInv, NEW n \in Names, CommandTask(n)
  PROVE  (\A m \in Names : LeftAlone(m)') /\ ForeignStep
<1> USE DEF Goes, Ends
<1>0. /\ owner \in [Names -> Owners] /\ repo \in [Names -> Repos]
      /\ patch \in [Names -> Patches] /\ task \in [Names -> Tasks]
      /\ change \in [Names -> Changes] /\ state \in [Names -> States]
  BY DEF OwnInv, TypeInv, TypeOK, CommandTypeOK, ForgeTypeOK
<1>1. owner' = owner /\ Aside(n)
  BY <1>0
  DEF CommandTask, StepFails, ForcePushErrs, Lift, Unarchive, Archive, Archived, Replied,
      Await, AwaitTimesOut, GivesUp, Compare, CompareBelievesMissing, Write, ForgeReadsRow,
      forgeVars, diskVars, runVars, poolVars, Aside
<1>2. ASSUME NotOurs(n)
      PROVE  /\ Harmless(n)' /\ repo'[n] = repo[n] /\ patch'[n] = patch[n]
             /\ task'[n] # "adopt"
  <2>0. Harmless(n)
    BY <1>2 DEF OwnInv, LeftAlone
  <2>1. CASE StepFails(n) \/ Await(n) \/ AwaitTimesOut(n)
    BY <1>0, <2>0, <2>1
    DEF StepFails, Await, AwaitTimesOut, GivesUp, Harmless, Needed, Writing, forgeVars,
        diskVars, runVars
  <2>2. CASE Compare(n) \/ CompareBelievesMissing(n)
    <3>1. owner[n] # "nobody" => ~CompareOne(Want(n), owner[n], repo[n]).drift
      BY <1>2, CompareOneOwn DEF IsOurs, NotOurs
    <3>2. ~state'[n].drift
      BY <1>0, <2>2, <3>1, UncheckedType DEF Compare, CompareBelievesMissing
    <3>3. task'[n] = "done" /\ UNCHANGED <<forgeVars, change>>
      BY <1>0, <2>2 DEF Compare, CompareBelievesMissing
    <3> QED
      BY <2>0, <3>2, <3>3 DEF Harmless, Needed, Writing, forgeVars
  <2>3. CASE ForcePushErrs(n) \/ Lift(n) \/ Unarchive(n) \/ Archive(n) \/ Archived(n)
    BY <2>0, <2>3
    DEF ForcePushErrs, Lift, Unarchive, Archive, Archived, Replied, Harmless, Writing
  <2> QED
    BY <2>1, <2>2, <2>3 DEF CommandTask
<1> QED
  BY <1>1, <1>2, OwnTask

\* A step of apply does: Diff and Recognise ask is_ours before anything is decided.
LEMMA ApplyTaskOwn ==
  ASSUME OwnInv, NEW n \in Names, ApplyTask(n)
  PROVE  (\A m \in Names : LeftAlone(m)') /\ ForeignStep
<1> USE DEF Goes, Ends
<1>0. /\ owner \in [Names -> Owners] /\ repo \in [Names -> Repos]
      /\ patch \in [Names -> Patches] /\ task \in [Names -> Tasks]
      /\ change \in [Names -> Changes] /\ state \in [Names -> States]
  BY DEF OwnInv, TypeInv, TypeOK, CommandTypeOK, ForgeTypeOK
<1>1. Aside(n)
  <2>1. CASE Diff(n) \/ CreateLands(n) \/ CreateErrs(n) \/ CreateConflicts(n)
             \/ CheckLanded(n) \/ Adopt(n) \/ Label(n) \/ Appear(n) \/ Unarchived(n)
    BY <1>0, <2>1
    DEF Diff, CreateLands, ForgeCreates, CreateErrs, CreateConflicts, CheckLanded, Adopt,
        Recognise, Label, Appear, Unarchived, Replied, Write, forgeVars, Aside
  <2>2. CASE Recheck(n) \/ PushSeed(n) \/ ReadBack(n) \/ WaitPushed(n)
             \/ WaitPushedTimesOut(n)
    BY <1>0, <2>2
    DEF Recheck, PushSeed, ForcePush, ReadBack, WaitPushed, WaitPushedTimesOut, GivesUp,
        Write, forgeVars, Aside
  <2>3. CASE Settle(n) \/ Settled(n) \/ SetTopics(n) \/ DeleteStaleRefs(n)
    BY <1>0, <2>3
    DEF Settle, ForgeReadsRow, Settled, Replied, SetTopics, DeleteStaleRefs, Write,
        forgeVars, Aside
  <2> QED BY <2>1, <2>2, <2>3 DEF ApplyTask
<1>2. CASE CreateLands(n)
  <2>1. owner'[n] = "forgelab" /\ owner[n] # "others"
    BY <1>0, <1>2 DEF CreateLands, ForgeCreates
  <2> QED BY <1>1, <2>1, OwnStep DEF LeftAlone, NotOurs
<1>3. CASE ~CreateLands(n)
  <2>1. owner' = owner
    BY <1>3
    DEF ApplyTask, Diff, CreateErrs, CreateConflicts, CheckLanded, Adopt, Label, Appear,
        Unarchived, Replied, Recheck, PushSeed, ForcePush, ReadBack, WaitPushed,
        WaitPushedTimesOut, GivesUp, Settle, Settled, SetTopics, DeleteStaleRefs, Write,
        ForgeReadsRow, forgeVars
  <2>2. ASSUME NotOurs(n)
        PROVE  /\ Harmless(n)' /\ repo'[n] = repo[n] /\ patch'[n] = patch[n]
               /\ owner[n] = "nobody" => task'[n] # "adopt"
    <3>0. /\ Harmless(n)
          /\ owner[n] # "nobody" => ~IsOurs(owner[n])
          /\ owner[n] = "nobody" => task[n] # "adopt"
      BY <2>2 DEF OwnInv, LeftAlone, NotOurs, IsOurs
    <3>1. CASE Diff(n)
      <4>1. change'[n] = change[n] \/ change'[n].create
        BY <1>0, <3>0, <3>1 DEF Diff, DiffGuards, Creation, Lookup
      <4>2. task'[n] \in {"done", "failed"} /\ UNCHANGED <<forgeVars, state>>
        BY <1>0, <3>1 DEF Diff
      <4> QED BY <3>0, <4>1, <4>2 DEF Harmless, Needed, Writing, forgeVars
    <3>2. CASE CreateErrs(n) \/ CreateConflicts(n) \/ CheckLanded(n) \/ Adopt(n)
      <4>1. /\ task'[n] \in {"landed?", "adopt", "create", "failed"}
            /\ owner[n] = "nobody" => task'[n] # "adopt"
            /\ UNCHANGED <<forgeVars, change, state>>
        BY <1>0, <3>0, <3>2
        DEF CreateErrs, CreateConflicts, CheckLanded, Adopt, Recognise, Lookup
      <4> QED BY <3>0, <4>1 DEF Harmless, Needed, Writing, forgeVars
    <3>3. CASE Label(n) \/ Appear(n) \/ Unarchived(n) \/ Recheck(n) \/ PushSeed(n)
               \/ ReadBack(n) \/ WaitPushed(n) \/ WaitPushedTimesOut(n) \/ Settle(n)
               \/ Settled(n) \/ SetTopics(n) \/ DeleteStaleRefs(n)
      BY <3>0, <3>3
      DEF Label, Appear, Unarchived, Replied, Recheck, PushSeed, ForcePush, ReadBack,
          WaitPushed, WaitPushedTimesOut, Settle, Settled, SetTopics, DeleteStaleRefs,
          Harmless, Writing
    <3> QED BY <1>3, <3>1, <3>2, <3>3 DEF ApplyTask
  <2> QED
    BY <1>1, <2>1, <2>2, OwnTask
<1> QED
  BY <1>2, <1>3

\* A step of reset does: only what the survey found to be drift is worked on.
LEMMA ResetTaskOwn ==
  ASSUME OwnInv, NEW n \in Names, ResetTask(n)
  PROVE  (\A m \in Names : LeftAlone(m)') /\ ForeignStep
<1> USE DEF Goes, Ends
<1>0. /\ owner \in [Names -> Owners] /\ repo \in [Names -> Repos]
      /\ patch \in [Names -> Patches] /\ task \in [Names -> Tasks]
      /\ change \in [Names -> Changes] /\ state \in [Names -> States]
  BY DEF OwnInv, TypeInv, TypeOK, CommandTypeOK, ForgeTypeOK
<1>1. owner' = owner /\ Aside(n)
  BY <1>0
  DEF ResetTask, LiftedForReset, Replied, Rewind, ForcePush, RewindDone, WaitRewound,
      WaitRewoundTimesOut, GivesUp, RestoreSettings, SettingsRestored, CloseRequests,
      DeleteBranches, DeleteTags, RestoreTopics, Write, ForgeReadsRow, forgeVars, diskVars,
      runVars, poolVars, Aside
<1>2. task[n] \in Writing
  BY DEF ResetTask, LiftedForReset, Replied, Rewind, ForcePush, RewindDone, WaitRewound,
      WaitRewoundTimesOut, RestoreSettings, SettingsRestored, CloseRequests,
      DeleteBranches, DeleteTags, RestoreTopics, Writing
<1>3. ~NotOurs(n)
  BY <1>2 DEF OwnInv, LeftAlone, Harmless
<1> QED
  BY <1>1, <1>3, OwnTask

\* A phase that ends touches nothing, and starts only what was decided.
LEMMA QuietStep ==
  ASSUME OwnInv, UNCHANGED forgeVars,
         \A n \in Names :
           Harmless(n) =>
             /\ task'[n] \notin Writing /\ (task'[n] = "adopt" => task[n] = "adopt")
             /\ ~change'[n].create => ~Needed(change'[n])
             /\ ~state'[n].drift
  PROVE  (\A m \in Names : LeftAlone(m)') /\ ForeignStep
BY DEF OwnInv, LeftAlone, NotOurs, Harmless, Needed, ForeignStep, forgeVars

\* A command that ends leaves nothing decided.
LEMMA FinishOwn ==
  ASSUME OwnInv, NEW code, Finish(code), UNCHANGED forgeVars
  PROVE  (\A m \in Names : LeftAlone(m)') /\ ForeignStep
<1>1. \A n \in Names : task'[n] = "done" /\ change'[n] = Nothing /\ state'[n] = Unchecked
  BY DEF Finish
<1> QED
  BY <1>1, NothingType, UncheckedType, QuietStep DEF Writing

\* What a phase starts was decided by the one before it.
LEMMA RunStepOwn ==
  ASSUME OwnInv, RunStep
  PROVE  (\A m \in Names : LeftAlone(m)') /\ ForeignStep
<1>1. CASE Abort \/ EndCheck
  BY <1>1, FinishOwn DEF Abort, EndCheck
<1>2. CASE StartCheck \/ WriteLock \/ StartReady
  <2>1. /\ UNCHANGED <<forgeVars, change, state>>
        /\ \A n \in Names : task'[n] \in {"compare", "await", "done"}
    BY <1>2 DEF StartCheck, WriteLock, StartReady, Enter, Each
  <2> QED BY <2>1, QuietStep DEF Harmless, Needed, Writing
<1>3. CASE StartWork
  <2>1. ASSUME NEW n \in Names, Harmless(n) PROVE task'[n] \in {"create", "done"}
    BY <1>3, <2>1 DEF StartWork, Enter, FirstStep, Harmless
  <2>2. UNCHANGED <<forgeVars, change, state>>
    BY <1>3 DEF StartWork
  <2> QED BY <2>1, <2>2, QuietStep DEF Harmless, Needed, Writing
<1>4. CASE StartSettle
  <2>1. CASE AllWell
    <3>1. ASSUME NEW n \in Names, Harmless(n)
          PROVE  task'[n] = "done" /\ change'[n] = change[n]
      BY <1>4, <2>1, <3>1 DEF StartSettle, Enter, Harmless, Writing
    <3>2. UNCHANGED <<forgeVars, state>>
      BY <1>4, <2>1 DEF StartSettle
    <3> QED BY <3>1, <3>2, QuietStep DEF Harmless, Writing
  <2>2. CASE ~AllWell
    BY <1>4, <2>2, FinishOwn DEF StartSettle
  <2> QED BY <2>1, <2>2
<1>5. CASE StartRepairs
  <2>1. CASE Verdict # "drift"
    BY <1>5, <2>1, FinishOwn DEF StartRepairs
  <2>2. CASE Verdict = "drift"
    <3>1. ASSUME NEW n \in Names, Harmless(n) PROVE task'[n] = "done"
      BY <1>5, <2>2, <3>1 DEF StartRepairs, Enter, Drifted, Harmless
    <3>2. UNCHANGED <<forgeVars, change, state>>
      BY <1>5, <2>2 DEF StartRepairs
    <3> QED BY <3>1, <3>2, QuietStep DEF Harmless, Needed, Writing
  <2> QED BY <2>1, <2>2
<1> QED
  BY <1>1, <1>2, <1>3, <1>4, <1>5 DEF RunStep, CommandStep, ApplyStep, ResetStep

\* The forge goes on serving forgelab's own repositories only.
LEMMA ForgesOwn ==
  ASSUME OwnInv, NEW n \in Names, Forges(n)
  PROVE  (\A m \in Names : LeftAlone(m)') /\ ForeignStep
<1>0. /\ repo \in [Names -> Repos] /\ patch \in [Names -> Patches]
  BY DEF OwnInv, TypeInv, TypeOK, ForgeTypeOK
<1>1. Aside(n) /\ UNCHANGED <<owner, commandVars>>
  BY <1>0
  DEF Forges, Saves, ForgeSaves, Reflects, ForgeReflects, Answers, ForgeAnswers,
      commandVars, poolVars, Aside
<1>2. ASSUME NotOurs(n)
      PROVE  /\ Harmless(n)' /\ repo'[n] = repo[n] /\ patch'[n] = patch[n]
             /\ owner[n] = "nobody" => task'[n] # "adopt"
  <2>1. Harmless(n) /\ (owner[n] = "nobody" => task[n] # "adopt")
    BY <1>2 DEF OwnInv, LeftAlone
  <2>2. UNCHANGED <<repo, patch>>
    BY <2>1 DEF Forges, Saves, ForgeSaves, Reflects, ForgeReflects, Answers, ForgeAnswers,
                Harmless
  <2> QED BY <1>1, <2>1, <2>2 DEF Harmless, Needed, commandVars, poolVars
<1> QED
  BY <1>1, <1>2, OwnTask DEF commandVars

\* Others take a name, or give one up, only when nothing is under way on it.
LEMMA OthersOwn ==
  ASSUME OwnInv, NEW n \in Names, Others(n)
  PROVE  (\A m \in Names : LeftAlone(m)') /\ ForeignStep
<1>0. /\ owner \in [Names -> Owners] /\ repo \in [Names -> Repos]
      /\ patch \in [Names -> Patches]
  BY DEF OwnInv, TypeInv, TypeOK, ForgeTypeOK
<1>1. Aside(n) /\ UNCHANGED <<patch, commandVars>>
  BY <1>0
  DEF Others, TestEdits, UserDeletes, StrangerCreates, Write, commandVars, poolVars, Aside
<1>2. CASE TestEdits(n)
  BY <1>0, <1>1, <1>2, OwnStep DEF TestEdits, Write, LeftAlone, NotOurs
<1>3. CASE UserDeletes(n) \/ StrangerCreates(n)
  <2>1. owner'[n] # owner[n] /\ ~Blank.pending /\ repo'[n] = Blank
    BY <1>0, <1>3 DEF UserDeletes, StrangerCreates, Blank
  <2>2. CASE UserDeletes(n)
    \* Between commands nothing is left of the last one.
    <3>1. Harmless(n)' /\ task'[n] # "adopt"
      BY <1>1, <2>1, <2>2
      DEF UserDeletes, Quiet, OwnInv, TypeInv, IdleIsClean, Harmless, Needed, Writing,
          commandVars, poolVars
    <3> QED BY <1>1, <2>1, <3>1, OwnStep DEF LeftAlone
  <2>3. CASE StrangerCreates(n)
    <3>1. Harmless(n)
      BY <2>3 DEF StrangerCreates, OwnInv, LeftAlone, NotOurs
    <3>2. Harmless(n)' /\ owner'[n] # "nobody"
      BY <1>0, <1>1, <2>1, <2>3, <3>1
      DEF StrangerCreates, Harmless, Needed, commandVars, poolVars
    <3> QED BY <1>1, <2>1, <3>2, OwnStep DEF LeftAlone
  <2> QED BY <1>3, <2>2, <2>3
<1> QED
  BY <1>2, <1>3 DEF Others

\* A command that starts, or is killed, has decided nothing yet.
LEMMA RunOwn ==
  ASSUME OwnInv, RunApply \/ RunVerify \/ RunReset \/ EditFleet \/ Kill
  PROVE  (\A m \in Names : LeftAlone(m)') /\ ForeignStep
<1>1. CASE RunApply \/ RunVerify \/ RunReset
  <2>1. /\ UNCHANGED <<forgeVars, change, state>>
        /\ task' = task \/ \A n \in Names : task'[n] \in {"diff", "compare", "done"}
    BY <1>1
    DEF RunApply, StartApply, RunVerify, StartVerify, RunReset, StartReset, Refuse, Each,
        poolVars
  <2> QED BY <2>1, QuietStep DEF Harmless, Needed, Writing
<1>2. CASE EditFleet
  BY <1>2, QuietStep DEF EditFleet, Harmless, Needed, commandVars, poolVars
<1>3. CASE Kill
  BY <1>3, FinishOwn DEF Kill
<1> QED
  BY <1>1, <1>2, <1>3

\* At first nothing is under way and nothing decided.
LEMMA OwnInvInit == Init => OwnInv
<1>1. Init => \A n \in Names : LeftAlone(n)
  BY NothingType, UncheckedType
  DEF Init, CommandInit, LeftAlone, Harmless, Writing, NoPatch, Blank
<1> QED
  BY <1>1, TypeInvInit DEF OwnInv

\* Every step keeps the invariant, and writes to nobody else's repository.
LEMMA OwnInvStep == OwnInv /\ [Next]_vars => OwnInv' /\ ForeignStep
<1> SUFFICES ASSUME OwnInv, [Next]_vars PROVE OwnInv' /\ ForeignStep
  OBVIOUS
<1>0. TypeInv'
  BY TypeInvStep DEF OwnInv
<1>1. CASE \E n \in Names : RunTask(n) \/ Forges(n) \/ Others(n)
  BY <1>0, <1>1, CommandTaskOwn, ApplyTaskOwn, ResetTaskOwn, ForgesOwn, OthersOwn
  DEF RunTask, OwnInv
<1>2. CASE RunStep
  BY <1>0, <1>2, RunStepOwn DEF OwnInv
<1>3. CASE RunApply \/ RunVerify \/ RunReset \/ EditFleet \/ Kill
  BY <1>0, <1>3, RunOwn DEF OwnInv
<1>4. CASE UNCHANGED vars
  BY <1>0, <1>4
  DEF OwnInv, LeftAlone, NotOurs, Harmless, Needed, ForeignStep, vars, forgeVars, poolVars
<1> QED
  BY <1>1, <1>2, <1>3, <1>4 DEF Next

\* Whatever is decided, under way, or still being served by the forge concerns
\* forgelab's own repositories.
THEOREM WritesStayOurs == Spec => []WritesAreOurs
<1>1. OwnInv => WritesAreOurs
  BY DEF OwnInv, TypeInv, TypeOK, ForgeTypeOK, Owners, LeftAlone, NotOurs, WritesAreOurs
<1> QED
  BY <1>1, OwnInvInit, OwnInvStep, PTL DEF Spec

\* A repository forgelab did not create is never written to.
THEOREM ForeignSafe == Spec => ForeignUntouched
<1>1. OwnInv /\ [Next]_vars => [ForeignStep]_vars
  BY OwnInvStep
<1>2. Spec => [][ForeignStep]_vars
  BY <1>1, OwnInvInit, OwnInvStep, PTL DEF Spec
<1> QED
  BY <1>2, PTL DEF ForeignUntouched, ForeignStep
=============================================================================
