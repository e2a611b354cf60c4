------------------------------- MODULE Sandbox -------------------------------
(***************************************************************************)
(* A sandbox in use: forgelab's commands, the forge they talk to, the      *)
(* tests that run between them, the fleet's author, and everybody else who *)
(* may create a repository in the same organisation.                       *)
(***************************************************************************)
EXTENDS Apply, Reset

CONSTANTS
  TestCommits,  \* commits tests make
  Tests,        \* what tests change: see TestEdits
  Strangers,    \* others create repositories too
  People,       \* how careful tests and the fleet's author are
  SlowSaves     \* a settings write may outlive the command that asked for it

ASSUME SandboxAssumption ==
  /\ TestCommits \subseteq Commits
  /\ Tests \subseteq {"refs", "baseline", "settings", "protection"}
  /\ {Strangers, SlowSaves} \subseteq BOOLEAN /\ People \in {"hasty", "patient", "careful"}

commandVars == <<runVars, poolVars, change, state, faults>>

\* What stands under a name nobody holds: never looked at.
Blank ==
  [visibility |-> CHOOSE v \in Visibilities : TRUE,
   topics |-> CHOOSE t \in Topics : TRUE,
   archived |-> FALSE, default |-> CHOOSE b \in Branches : TRUE,
   empty |-> TRUE, pending |-> FALSE,
   protected |-> [b \in Branches |-> "no"],
   branches |-> [b \in Branches |-> NoCommit],
   tags |-> [t \in AllTags |-> NoCommit], requests |-> {}]

TypeOK == ForgeTypeOK /\ CommandTypeOK

Init ==
  /\ owner = [n \in Names |-> "nobody"]
  /\ repo = [n \in Names |-> Blank]
  /\ visible = [n \in Names |-> TRUE]
  /\ patch = [n \in Names |-> NoPatch]
  /\ CommandInit

-----------------------------------------------------------------------------
(* Everybody else *)

Edit == edits < MaxEdits /\ edits' = edits + 1

\* Tests and the author act between commands, when the settings writes of the
\* last one have been served.  Unless they are hasty they let the forge catch up
\* with its pushes too, and tests run only on a sandbox that was found ready; a
\* careful author does not edit a fleet that is not applied.
Quiet ==
  /\ cmd = "none"
  /\ \A n \in Names : ~patch[n].busy
  /\ People = "hasty" \/ \A n \in Names : ~repo[n].pending

PushBranch(r, b, c) == Pushed(r, [r.branches EXCEPT ![b] = c], r.tags)

PushTag(r, t, c) == Pushed(r, r.branches, [r.tags EXCEPT ![t] = c])

\* What a test can make of a repository it may write to: push a commit, ask for
\* it to be merged, delete a branch; tag, move and delete tags; ...
RefEdits(r) ==
  LET spare == {b \in Has(r.branches) \ ({r.default} \cup r.requests) :
                  r.protected[b] = "no"}
  IN {PushBranch(r, b, c) : b \in Branches, c \in TestCommits}
     \cup {PushBranch(r, b, NoCommit) : b \in spare}
     \cup {[r EXCEPT !.requests = @ \cup {b}] : b \in Has(r.branches) \ {r.default}}
     \cup {PushTag(r, t, c) :
             t \in {x \in Tags : ~r.empty}, c \in TestCommits \cup {NoCommit}}

BaselineEdits(r) ==
  {PushTag(r, Baseline, c) : c \in {x \in TestCommits \cup {NoCommit} : ~r.empty}}

\* ... and change its settings.
SettingsEdits(r) ==
  {[r EXCEPT !.visibility = v] : v \in {x \in Visibilities : HasVisibility}}
  \cup {[r EXCEPT !.topics = t] : t \in {x \in Topics : HasTopics}}
  \cup {[r EXCEPT !.default = b] : b \in Has(r.branches)}
  \cup {[r EXCEPT !.archived = TRUE]}

ProtectionEdits(r) ==
  {[r EXCEPT !.protected[b] = "yes"] : b \in Has(r.branches) \cap {r.default}}

RepoEdits(r) ==
  UNION {IF "refs" \in Tests THEN RefEdits(r) ELSE {},
         IF "baseline" \in Tests THEN BaselineEdits(r) ELSE {},
         IF "settings" \in Tests THEN SettingsEdits(r) ELSE {},
         IF "protection" \in Tests THEN ProtectionEdits(r) ELSE {}}

TestEdits(n) ==
  /\ Quiet /\ Edit
  /\ People # "hasty" => exit = "ok"
  /\ owner[n] = "forgelab" /\ visible[n]
  /\ \/ /\ ~repo[n].archived
        /\ \E r \in RepoEdits(repo[n]) : Write(n, r)
     \/ /\ repo[n].archived /\ "settings" \in Tests
        /\ Write(n, [repo[n] EXCEPT !.archived = FALSE])
  /\ UNCHANGED <<fleet, lock, commandVars>>

\* The fleet is edited.
EditFleet ==
  /\ Quiet /\ Edit
  /\ People = "careful" => exit = "ok"
  /\ \E v \in DOMAIN Fleets \ {fleet} : fleet' = v
  /\ UNCHANGED <<forgeVars, lock, commandVars>>

\* "delete it on the forge, then run apply again"
UserDeletes(n) ==
  /\ Quiet /\ Edit
  /\ owner[n] # "nobody"
  /\ owner' = [owner EXCEPT ![n] = "nobody"]
  /\ repo' = [repo EXCEPT ![n] = Blank]
  /\ visible' = [visible EXCEPT ![n] = TRUE]
  /\ UNCHANGED <<patch, fleet, lock, commandVars>>

\* Somebody else takes the name, at any moment.
StrangerCreates(n) ==
  /\ Strangers /\ Edit
  /\ owner[n] = "nobody"
  /\ owner' = [owner EXCEPT ![n] = "others"]
  /\ repo' = [repo EXCEPT ![n] = Blank]
  /\ visible' = [visible EXCEPT ![n] = TRUE]
  /\ UNCHANGED <<patch, fleet, lock, commandVars>>

-----------------------------------------------------------------------------
(* The whole *)

Saves(n) == ForgeSaves(n) /\ UNCHANGED <<diskVars, commandVars>>

Reflects(n) == ForgeReflects(n) /\ UNCHANGED <<diskVars, commandVars>>

Answers(n) == ForgeAnswers(n) /\ UNCHANGED <<diskVars, commandVars>>

Forges(n) == Saves(n) \/ Reflects(n) \/ Answers(n)

Others(n) == TestEdits(n) \/ UserDeletes(n) \/ StrangerCreates(n)

RunTask(n) == CommandTask(n) \/ ApplyTask(n) \/ ResetTask(n)

RunStep == CommandStep \/ ApplyStep \/ ResetStep

Served == SlowSaves \/ \A n \in Names : ~patch[n].busy

RunApply == Served /\ StartApply

RunVerify == Served /\ StartVerify

RunReset == Served /\ StartReset

Next ==
  \/ \E n \in Names : RunTask(n) \/ Forges(n) \/ Others(n)
  \/ RunStep \/ RunApply \/ RunVerify \/ RunReset \/ EditFleet \/ Kill

\* The runtime polls every task and the forge serves every request; nobody is
\* bound to make anything fail.
Fairness ==
  /\ \A n \in Names :
       WF_vars(RunTask(n) /\ UNCHANGED faults) /\ WF_vars(Forges(n))
  /\ WF_vars(RunStep)

Spec == Init /\ [][Next]_vars /\ Fairness

\* Somebody who wants the sandbox runs apply, and again when it failed.
Persistent == Spec /\ SF_vars(RunApply)

-----------------------------------------------------------------------------
(* Properties *)

\* A repository forgelab did not create is never written to, neither to its
\* settings nor to its refs, whoever took its name and whenever: is_ours in
\* diff_one, compare_one and create_verified.
ForeignUntouched ==
  [][\A n \in Names :
       owner[n] = "others" /\ owner'[n] = "others" /\ HasMarker
       => repo'[n] = repo[n] /\ patch'[n] = patch[n]]_vars

\* The stages of a task that write to its repository, or lead there with no
\* further question.
Writing ==
  {"label", "appear", "unarchive", "unarchiving", "recheck", "push", "lift",
   "push again", "pushed", "wait", "settings", "saving", "topics",
   "stale refs", "requests", "branches", "tags", "archive", "archiving"}

\* Nothing under way, or decided, will write to n.
Harmless(n) ==
  /\ task[n] \notin Writing
  /\ ~change[n].create => ~Needed(change[n])
  /\ ~state[n].drift
  /\ ~patch[n].busy
  /\ ~repo[n].pending

\* What may lead to a write is established for forgelab's own repositories only,
\* and stays established: the plan of apply and the survey of reset are acted on
\* long after they were made, and the forge works on after the command is gone.
WritesAreOurs ==
  HasMarker => \A n \in Names : owner[n] = "forgelab" \/ Harmless(n)

\* A repository that has commits does not read as empty for good: wait_pushed
\* keeps every settings write behind the push it could undo.
NeverStuckEmpty ==
  \A n \in Names :
    /\ owner[n] = "forgelab"
    /\ ~repo[n].pending /\ ~patch[n].busy
    /\ Has(repo[n].branches) # {}
    => ~repo[n].empty

\* When the lock is written, every repository it names exists, is forgelab's,
\* and has all of that -- after any number of interrupted runs.
LockMeansApplied ==
  [][cmd = "apply" /\ phase' = "ready" =>
       \A n \in Declared : Applied(Want(n), owner[n], repo[n])]_vars

\* The old lock is the only record of what the fleet used to declare: it is
\* replaced only when nothing is left of that.
LockForgetsNothing ==
  [][lock' # lock /\ lock # 0 =>
       \A n \in Declared \cap DOMAIN Fleets[lock] :
         LET old == Fleets[lock][n]
         IN ~Want(n).empty =>
              /\ Has(repo[n].tags) \cap (old.tags \ Want(n).tags) = {}
              /\ old.default # Want(n).default =>
                   repo[n].branches[old.default] = NoCommit]_vars

\* Exit code 0 says that every declared repository that can be read is, ref for
\* ref and setting for setting, what the lock says.
OkMeansPristine ==
  [][cmd # "none" /\ cmd' = "none" /\ exit' = "ok" =>
       \A n \in Declared :
         Unreadable(repo[n]) \/ Pristine(Want(n), owner[n], repo[n])]_vars

\* reset_one: whatever reset does to a ref, it moves it to the baseline the lock
\* records, or deletes one the lock does not declare; the baseline tag is never
\* moved.
ResetOnlyRewinds ==
  [][cmd = "reset" /\ cmd' = "reset" =>
       \A n \in Declared :
         LET r == repo[n]
             s == repo'[n]
         IN /\ s.tags[Baseline] = r.tags[Baseline]
            /\ \A t \in AllTags :
                 s.tags[t] # r.tags[t] =>
                   s.tags[t] = IF t \in Want(n).tags THEN Want(n).baseline
                               ELSE NoCommit
            /\ \A b \in Branches :
                 s.branches[b] # r.branches[b] =>
                   s.branches[b] = IF b = Want(n).default THEN Want(n).baseline
                                   ELSE NoCommit]_vars

\* "Everything reset can repair": as long as nothing fails and nobody
\* interferes, a drift that was reported is repaired, whatever the order its
\* parts need -- unarchive, rewind, default branch, requests, branches.
DriftIsRepairable ==
  cmd = "reset" /\ faults = 0 => \A n \in Names : result[n] # "failed"

\* A reset that gets as far as its second comparison finds nothing.
ResetEndsWell ==
  [][cmd = "reset" /\ phase = "check" /\ cmd' = "none"
       /\ faults' = 0 => exit' = "ok"]_vars

\* Every command ends: no wait is without a deadline.
CommandsEnd == cmd # "none" ~> cmd = "none"

\* A run interrupted anywhere is finished by the next apply: once nothing fails
\* any more, the fleet is what was declared, and stays so -- unless others keep
\* a declared name, or a repository that is now to be empty has content, which apply
\* leaves to its owner to delete.
ApplyConverges ==
  <>[](\A n \in Declared : /\ HasMarker => owner[n] # "others"
                           /\ Want(n).empty /\ owner[n] = "forgelab" => repo[n].empty)
  => <>[](/\ exit = "ok"
          /\ \A n \in Declared : Pristine(Want(n), owner[n], repo[n]))
=============================================================================
