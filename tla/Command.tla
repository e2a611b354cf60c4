------------------------------- MODULE Command -------------------------------
(***************************************************************************)
(* What apply, verify and reset share: the fleet and its lock on disk, the *)
(* pool that works on the declared repositories side by side, the wait     *)
(* until the forge reflects a push, the comparison against the lock, and   *)
(* the outcome that becomes the exit code.                                 *)
(*                                                                         *)
(* One command runs at a time.  Within it every repository is a task of    *)
(* its own, and a phase ends when all its tasks have (for_each_collect).   *)
(***************************************************************************)
EXTENDS Forge

CONSTANTS
  Fleets,     \* the versions of the fleet: a sequence of [names -> Wants]
  Batched,    \* Forge::batch_size() > 1
  MaxFaults,  \* failures and kills TLC may inject
  MaxEdits    \* what tests, the fleet's author and others may do, in all

ASSUME FleetsAssumption ==
  /\ 1 \in DOMAIN Fleets /\ 0 \notin DOMAIN Fleets
  /\ \A v \in DOMAIN Fleets :
       /\ DOMAIN Fleets[v] \subseteq Names
       /\ \A n \in DOMAIN Fleets[v] : Fleets[v][n] \in Wants

ASSUME CommandAssumption ==
  Batched \in BOOLEAN /\ MaxFaults \in Nat /\ MaxEdits \in Nat

VARIABLES
  fleet,    \* the version of the fleet on disk
  lock,     \* the version fleet.lock.json was written for, 0: no lock
  cmd,      \* the command running
  phase,    \* its phase
  task,     \* task[n]: what the command does next to n
  result,   \* result[n]: how its task ended
  change,   \* change[n]: apply's Change
  state,    \* state[n]: verify's and reset's State
  exit,     \* how the last command ended
  faults,   \* failures and kills so far
  edits     \* what tests, the fleet's author and others did so far

diskVars == <<fleet, lock, edits>>
runVars == <<cmd, phase, exit>>
poolVars == <<task, result>>
vars == <<forgeVars, diskVars, runVars, poolVars, change, state, faults>>

Declared == DOMAIN Fleets[fleet]
Want(n) == Fleets[fleet][n]

\* A slip: the lock in hand is the new one.
PreviousOverwritten(n) == {Fleets[fleet][n]}

\* The lock as it was before this run: the declaration of n in it, if any.
Previous(n) ==
  IF lock # 0 /\ n \in DOMAIN Fleets[lock] THEN {Fleets[lock][n]} ELSE {}

Commands == {"none", "apply", "verify", "reset"}

Phases == {"idle", "plan", "apply", "settle", "survey", "reset", "ready",
           "check"}

Tasks == {"done", "failed", "diff", "compare", "await",
          "create", "landed?", "adopt", "label", "appear",
          "unarchive", "unarchiving", "recheck", "push", "lift", "push again",
          "pushed", "wait", "settings", "saving", "topics", "stale refs",
          "requests", "branches", "tags", "archive", "archiving"}

Results == {"ok", "guard", "failed"}

\* Exit code 0, 1, and 2 for the last three.
Exits == {"ok", "drift", "guard", "failed", "killed"}

Nothing == [create |-> FALSE, push |-> FALSE, recheck |-> FALSE,
            notes |-> FALSE, staleTags |-> {}, staleBranches |-> {},
            live |-> [known |-> FALSE,
                      visibility |-> CHOOSE v \in Visibilities : TRUE,
                      topics |-> CHOOSE t \in Topics : TRUE,
                      default |-> CHOOSE b \in Branches : TRUE,
                      archived |-> FALSE]]

CommandTypeOK ==
  /\ fleet \in DOMAIN Fleets
  /\ lock \in DOMAIN Fleets \cup {0}
  /\ cmd \in Commands
  /\ phase \in Phases
  /\ task \in [Names -> Tasks]
  /\ result \in [Names -> Results]
  /\ change \in [Names -> Changes]
  /\ state \in [Names -> States]
  /\ exit \in Exits
  /\ faults \in 0 .. MaxFaults
  /\ edits \in 0 .. MaxEdits

CommandInit ==
  /\ fleet = 1
  /\ lock = 0
  /\ cmd = "none"
  /\ phase = "idle"
  /\ task = [n \in Names |-> "done"]
  /\ result = [n \in Names |-> "ok"]
  /\ change = [n \in Names |-> Nothing]
  /\ state = [n \in Names |-> Unchecked]
  /\ exit = "failed"
  /\ faults = 0
  /\ edits = 0

-----------------------------------------------------------------------------
(* The pool *)

Goes(n, t) ==
  /\ task' = [task EXCEPT ![n] = t]
  /\ UNCHANGED result

Ends(n, r) ==
  /\ task' = [task EXCEPT ![n] = "failed"]
  /\ result' = [result EXCEPT ![n] = r]

Fault == faults < MaxFaults /\ faults' = faults + 1

PhaseOver == \A n \in Names : task[n] \in {"done", "failed"}

AllWell == \A n \in Names : task[n] # "failed"

\* Guard failures win.
Outcome ==
  IF \E n \in Names : result[n] = "guard" THEN "guard"
  ELSE IF \E n \in Names : result[n] = "failed" THEN "failed"
  ELSE "ok"

\* The next phase of the same command, and where each task starts in it.
Enter(p, start) ==
  /\ phase' = p
  /\ task' = start
  /\ UNCHANGED <<cmd, exit, result>>

Finish(code) ==
  /\ cmd' = "none"
  /\ phase' = "idle"
  /\ exit' = code
  /\ task' = [n \in Names |-> "done"]
  /\ result' = [n \in Names |-> "ok"]
  /\ change' = [n \in Names |-> Nothing]
  /\ state' = [n \in Names |-> Unchecked]

\* A phase with a failure in it ends the command.
Abort ==
  /\ cmd # "none"
  /\ PhaseOver
  /\ ~AllWell
  /\ Finish(Outcome)
  /\ UNCHANGED <<forgeVars, diskVars, faults>>

\* A request, or git, fails for good.  Whether it took effect is covered by
\* failing before it or before the step that follows it.  A failed push is not
\* given up at once: see ForcePushErrs.
StepFails(n) ==
  /\ task[n] \notin {"done", "failed", "push"}
  /\ Fault
  /\ Ends(n, "failed")
  /\ UNCHANGED <<forgeVars, diskVars, runVars, change, state>>

\* kill -9, or Ctrl-C, at any moment.  What the forge has taken in it still
\* does.
Kill ==
  /\ cmd # "none"
  /\ Fault
  /\ Finish("killed")
  /\ UNCHANGED <<forgeVars, diskVars>>

-----------------------------------------------------------------------------
(* Requests both apply and reset make *)

Write(n, r) == repo' = [repo EXCEPT ![n] = r] /\ UNCHANGED <<owner, visible, patch>>

\* A settings write, its reply, and what comes next.
Unarchive(n) ==
  /\ task[n] = "unarchive"
  /\ ForgeReadsRow(n, {}, {}, {FALSE})
  /\ Goes(n, "unarchiving")
  /\ UNCHANGED <<diskVars, runVars, change, state, faults>>

\* A slip: the reply to the archiving is not waited for.
ArchiveUnanswered(n) ==
  /\ task[n] = "archive"
  /\ IF Want(n).archived THEN ForgeReadsRow(n, {}, {}, {TRUE})
     ELSE UNCHANGED forgeVars
  /\ Goes(n, "done")
  /\ UNCHANGED <<diskVars, runVars, change, state, faults>>

Archive(n) ==
  /\ task[n] = "archive"
  /\ IF Want(n).archived
     THEN ForgeReadsRow(n, {}, {}, {TRUE}) /\ Goes(n, "archiving")
     ELSE Goes(n, "done") /\ UNCHANGED forgeVars
  /\ UNCHANGED <<diskVars, runVars, change, state, faults>>

Replied(n, from, next) ==
  /\ task[n] = from
  /\ ~patch[n].busy
  /\ Goes(n, next)
  /\ UNCHANGED <<forgeVars, diskVars, runVars, change, state, faults>>

Archived(n) == Replied(n, "archiving", "done")

\* force_push, one attempt: commit `c` to the default branch and to `tags`.
\* A repository just created may not be known to git yet: it is waited for.
ForcePush(n, c, tags) ==
  LET r == repo[n]
      branch == Want(n).default
      refused == \/ r.archived
                 \/ /\ r.protected[branch] = "yes"
                    /\ r.branches[branch] \notin {c, NoCommit}
  IN /\ task[n] \in {"push", "push again"}
     /\ visible[n]
     /\ \/ /\ ~refused
           /\ Write(n, PushRefs(r, c, branch, tags))
           /\ Goes(n, "pushed")
        \/ /\ refused
           /\ IF PartialPush /\ ~r.archived
              THEN Write(n, PushTags(r, c, tags)) ELSE UNCHANGED forgeVars
           /\ IF task[n] = "push" THEN Goes(n, "lift") ELSE Ends(n, "failed")
     /\ UNCHANGED <<diskVars, runVars, change, state, faults>>

\* Any other failure of the first push is answered the same way: lift, and
\* push again.
ForcePushErrs(n) ==
  /\ task[n] = "push"
  /\ Fault
  /\ Goes(n, "lift")
  /\ UNCHANGED <<forgeVars, diskVars, runVars, change, state>>

\* A slip: a refused push is repeated with the protection as it is.
LiftNothing(n) ==
  /\ task[n] = "lift"
  /\ Goes(n, "push again")
  /\ UNCHANGED <<forgeVars, diskVars, runVars, change, state, faults>>

\* allow_force_push.
Lift(n) ==
  /\ task[n] = "lift"
  /\ Write(n, Relaxed(repo[n], Want(n).default))
  /\ Goes(n, "push again")
  /\ UNCHANGED <<diskVars, runVars, change, state, faults>>

\* A slip: no deadline, the branch is polled for ever.
GivesUpNever(n) == ~Reports(Want(n), repo[n]) /\ UNCHANGED vars

\* wait_one gives up: a forge slower than its minute is a fault, one that has
\* nothing more to reflect is not.
GivesUp(n) ==
  /\ ~Reports(Want(n), repo[n]) \/ ~visible[n]
  /\ IF repo[n].pending \/ ~visible[n] THEN Fault ELSE UNCHANGED faults
  /\ Ends(n, "failed")
  /\ UNCHANGED <<forgeVars, diskVars, runVars, change, state>>

\* wait_ready, one repository.
Await(n) ==
  /\ task[n] = "await"
  /\ NothingToAwait(Want(n)) \/ (visible[n] /\ Reports(Want(n), repo[n]))
  /\ Goes(n, "done")
  /\ UNCHANGED <<forgeVars, diskVars, runVars, change, state, faults>>

AwaitTimesOut(n) == task[n] = "await" /\ ~NothingToAwait(Want(n)) /\ GivesUp(n)

-----------------------------------------------------------------------------
(* compare: verify, the survey of reset, and the last phase of apply and    *)
(* reset                                                                    *)

Each(names, t) == [n \in Names |-> IF n \in names THEN t ELSE "done"]

Compare(n) ==
  /\ task[n] = "compare"
  /\ \/ owner[n] = "nobody" /\ state' = [state EXCEPT ![n] = Missing]
     \/ /\ owner[n] # "nobody" /\ visible[n]
        /\ state' = [state EXCEPT ![n] =
                       CompareOne(Want(n), owner[n], repo[n])]
  /\ Goes(n, "done")
  /\ UNCHANGED <<forgeVars, diskVars, runVars, change, faults>>

\* "Missing" is asked again for six seconds, then believed.
CompareBelievesMissing(n) ==
  /\ task[n] = "compare"
  /\ owner[n] # "nobody" /\ ~visible[n]
  /\ Fault
  /\ state' = [state EXCEPT ![n] = Missing]
  /\ Goes(n, "done")
  /\ UNCHANGED <<forgeVars, diskVars, runVars, change>>

\* A slip: guards are left to the drift report.
VerdictOnDrift ==
  IF \E n \in Declared : state[n].drift THEN "drift" ELSE "ok"

Verdict ==
  IF \E n \in Declared : state[n].guard THEN "guard"
  ELSE IF \E n \in Declared : state[n].drift THEN "drift"
  ELSE "ok"

\* wait_ready is over: compare the whole fleet.
StartCheck ==
  /\ phase = "ready"
  /\ PhaseOver /\ AllWell
  /\ Enter("check", Each(Declared, "compare"))
  /\ UNCHANGED <<forgeVars, diskVars, change, state, faults>>

\* Report::into_error, and the exit code.
EndCheck ==
  /\ phase = "check"
  /\ PhaseOver /\ AllWell
  /\ Finish(Verdict)
  /\ UNCHANGED <<forgeVars, diskVars, faults>>

\* load_lock: without a lock, or with one for another fleet, nothing is done.
LockHolds == lock # 0 /\ lock = fleet

Refuse ==
  /\ exit' = "guard"
  /\ UNCHANGED <<forgeVars, diskVars, cmd, phase, poolVars, change, state, faults>>

StartVerify ==
  /\ cmd = "none"
  /\ IF LockHolds
     THEN /\ cmd' = "verify"
          /\ phase' = "check"
          /\ task' = Each(Declared, "compare")
          /\ UNCHANGED <<forgeVars, diskVars, exit, result, change, state, faults>>
     ELSE Refuse

CommandTask(n) ==
  \/ StepFails(n) \/ ForcePushErrs(n) \/ Lift(n) \/ Unarchive(n) \/ Archive(n)
  \/ Archived(n) \/ Await(n) \/ AwaitTimesOut(n) \/ Compare(n)
  \/ CompareBelievesMissing(n)

CommandStep == Abort \/ StartCheck \/ EndCheck
=============================================================================
