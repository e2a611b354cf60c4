-------------------------------- MODULE Apply --------------------------------
(***************************************************************************)
(* apply: diff the fleet against the forge, create what is missing, push   *)
(* seeds, settle the settings, write the lock, wait, compare.              *)
(***************************************************************************)
EXTENDS Command

\* Is there a seed to push?  (`c.built` in the source.)
Built(n) == ~Want(n).empty

-----------------------------------------------------------------------------
(* plan_changes *)

StartApply ==
  /\ cmd = "none"
  /\ cmd' = "apply"
  /\ phase' = "plan"
  /\ task' = Each(Declared, "diff")
  /\ UNCHANGED <<forgeVars, diskVars, exit, result, change, state, faults>>

\* One repository is looked up -- a single answer is believed -- and compared.
Diff(n) ==
  /\ task[n] = "diff"
  /\ \/ /\ Lookup(n) = "nobody"
        /\ change' = [change EXCEPT ![n] = Creation(Want(n))]
        /\ Goes(n, "done")
     \/ /\ Lookup(n) # "nobody"
        /\ DiffGuards(Want(n), owner[n], repo[n])
        /\ Ends(n, "guard")
        /\ UNCHANGED change
     \/ /\ Lookup(n) # "nobody"
        /\ ~DiffGuards(Want(n), owner[n], repo[n])
        /\ change' = [change EXCEPT ![n] =
                        DiffOne(Want(n), repo[n], Previous(n))]
        /\ Goes(n, "done")
  /\ UNCHANGED <<forgeVars, diskVars, runVars, state, faults>>

\* Where apply_one goes once the repository is writable.
Seeding(n) ==
  IF change[n].recheck THEN "recheck"
  ELSE IF change[n].push THEN "push" ELSE "pushed"

FirstStep(n) ==
  IF change[n].create THEN "create"
  ELSE IF change[n].live.archived THEN "unarchive" ELSE Seeding(n)

\* The plan is complete: work on what needs it.
StartWork ==
  /\ phase = "plan"
  /\ PhaseOver /\ AllWell
  /\ Enter("apply", [n \in Names |->
                       IF n \in Declared /\ Needed(change[n])
                       THEN FirstStep(n) ELSE "done"])
  /\ UNCHANGED <<forgeVars, diskVars, change, state, faults>>

-----------------------------------------------------------------------------
(* create_verified *)

\* The create lands; its answer arrives, or is lost and reads as transient.
CreateLands(n) ==
  /\ task[n] = "create"
  /\ ForgeCreates(n, Want(n))
  /\ \/ Goes(n, "label") /\ UNCHANGED faults
     \/ Goes(n, "landed?") /\ Fault
  /\ UNCHANGED <<diskVars, runVars, change, state>>

\* A transient failure that did not land.
CreateErrs(n) ==
  /\ task[n] = "create"
  /\ Fault
  /\ Goes(n, "landed?")
  /\ UNCHANGED <<forgeVars, diskVars, runVars, change, state>>

\* The name is taken.
CreateConflicts(n) ==
  /\ task[n] = "create"
  /\ owner[n] # "nobody"
  /\ Goes(n, "adopt")
  /\ UNCHANGED <<forgeVars, diskVars, runVars, change, state, faults>>

\* A slip: what answers after a conflict is taken for ours.
RecogniseAll(n) == Goes(n, "label")

\* Ours is taken over, somebody else's never.
Recognise(n) ==
  IF IsOurs(owner[n]) THEN Goes(n, "label") ELSE Ends(n, "guard")

\* After a transient failure the forge is asked before the create is repeated.
CheckLanded(n) ==
  /\ task[n] = "landed?"
  /\ IF Lookup(n) = "nobody" THEN Goes(n, "create") ELSE Recognise(n)
  /\ UNCHANGED <<forgeVars, diskVars, runVars, change, state, faults>>

\* After a conflict "missing" is asked again until the repository answers.
Adopt(n) ==
  /\ task[n] = "adopt"
  /\ visible[n]
  /\ Recognise(n)
  /\ UNCHANGED <<forgeVars, diskVars, runVars, change, state, faults>>

\* set_topics, inside or right after the create.
Label(n) ==
  /\ task[n] = "label"
  /\ IF ~HasTopics \/ Writable(n)
     THEN /\ IF HasTopics
             THEN Write(n, [repo[n] EXCEPT !.topics = Want(n).topics])
             ELSE UNCHANGED forgeVars
          /\ Goes(n, IF Built(n) THEN "push" ELSE "appear")
     ELSE Ends(n, "failed") /\ UNCHANGED forgeVars
  /\ UNCHANGED <<diskVars, runVars, change, state, faults>>

\* wait_created: an empty repository has no push to wait with.
Appear(n) ==
  /\ task[n] = "appear"
  /\ visible[n]
  /\ Goes(n, "pushed")
  /\ UNCHANGED <<forgeVars, diskVars, runVars, change, state, faults>>

-----------------------------------------------------------------------------
(* The rest of apply_one *)

Unarchived(n) == cmd = "apply" /\ Replied(n, "unarchiving", Seeding(n))

\* Readable again: is the seed there?  Only its baseline tag is asked for.
Recheck(n) ==
  LET push == repo[n].tags[Baseline] # Want(n).baseline
  IN /\ task[n] = "recheck"
     /\ change' = [change EXCEPT ![n].push = push]
     /\ Goes(n, IF push THEN "push" ELSE "pushed")
     /\ UNCHANGED <<forgeVars, diskVars, runVars, state, faults>>

PushSeed(n) ==
  /\ cmd = "apply"
  /\ ForcePush(n, Want(n).baseline, Want(n).tags \cup {Baseline})

-----------------------------------------------------------------------------
(* Read back, settle *)

\* The repository as it is now, if apply has just made it and it answers.
Current(n) ==
  IF ~change[n].create THEN change[n].live
  ELSE IF Lookup(n) = "nobody" THEN Unseen(Want(n)) ELSE SeenOf(repo[n])

\* Without batched lookups a repository settles in the step that pushed it.
\* A lookup that fails counts as one that found nothing.
ReadBack(n) ==
  /\ cmd = "apply" /\ ~Batched
  /\ task[n] = "pushed"
  /\ \/ /\ change' = [change EXCEPT ![n].live = Current(n)]
        /\ UNCHANGED faults
     \/ /\ change[n].create /\ Fault
        /\ change' = [change EXCEPT ![n].live = Unseen(Want(n))]
  /\ Goes(n, "wait")
  /\ UNCHANGED <<forgeVars, diskVars, runVars, state>>

\* With them a phase ends first, and a failure in it ends the command.
PushesOver == \A n \in Names : task[n] \in {"pushed", "done", "failed"}

\* A slip: whatever failed, the others settle.
StartSettleAnyway ==
  /\ cmd = "apply" /\ phase = "apply" /\ Batched
  /\ PushesOver
  /\ change' = [n \in Names |->
                  IF task[n] = "pushed" THEN [change[n] EXCEPT !.live = Current(n)]
                  ELSE change[n]]
  /\ Enter("settle", [n \in Names |-> IF task[n] = "pushed" THEN "wait" ELSE "done"])
  /\ UNCHANGED <<forgeVars, diskVars, state, faults>>

StartSettle ==
  /\ cmd = "apply" /\ phase = "apply" /\ Batched
  /\ PushesOver
  /\ IF AllWell
     THEN /\ change' = [n \in Names |->
                          IF task[n] = "pushed"
                          THEN [change[n] EXCEPT !.live = Current(n)]
                          ELSE change[n]]
          /\ Enter("settle", [n \in Names |->
                                IF task[n] = "pushed" THEN "wait" ELSE "done"])
          /\ UNCHANGED state
     ELSE Finish(Outcome)
  /\ UNCHANGED <<forgeVars, diskVars, faults>>

\* What of the settings differs from what was last read.
NewVisibility(n) ==
  LET live == change[n].live
  IN IF HasVisibility /\ (~live.known \/ live.visibility # Want(n).visibility)
     THEN {Want(n).visibility} ELSE {}

NewDefault(n) ==
  LET live == change[n].live
  IN IF Built(n) /\ (~live.known \/ live.default # Want(n).default)
     THEN {Want(n).default} ELSE {}

NewSettings(n) == NewVisibility(n) # {} \/ NewDefault(n) # {}

\* A slip: only a creation is waited for.
MustWaitCreated(n) ==
  /\ NewSettings(n) \/ Want(n).archived
  /\ change[n].create /\ Built(n)

\* No settings are written before the forge has applied this run's push.
MustWait(n) ==
  /\ NewSettings(n) \/ Want(n).archived
  /\ (change[n].create \/ change[n].push) /\ Built(n)

WaitPushed(n) ==
  /\ cmd = "apply" /\ task[n] = "wait"
  /\ MustWait(n) => visible[n] /\ Reports(Want(n), repo[n])
  /\ Goes(n, "settings")
  /\ UNCHANGED <<forgeVars, diskVars, runVars, change, state, faults>>

WaitPushedTimesOut(n) ==
  cmd = "apply" /\ task[n] = "wait" /\ MustWait(n) /\ GivesUp(n)

\* The forge takes a default branch only if there is such a branch.
SettingsTaken(n) ==
  Writable(n) /\ \A b \in NewDefault(n) : b \in Has(repo[n].branches)

Settle(n) ==
  /\ cmd = "apply" /\ task[n] = "settings"
  /\ \/ ~NewSettings(n) /\ Goes(n, "topics") /\ UNCHANGED forgeVars
     \/ /\ NewSettings(n) /\ SettingsTaken(n)
        /\ ForgeReadsRow(n, NewVisibility(n), NewDefault(n), {})
        /\ Goes(n, "saving")
     \/ /\ NewSettings(n) /\ ~SettingsTaken(n)
        /\ Ends(n, "failed") /\ UNCHANGED forgeVars
  /\ UNCHANGED <<diskVars, runVars, change, state, faults>>

Settled(n) == cmd = "apply" /\ Replied(n, "saving", "topics")

SetTopics(n) ==
  LET live == change[n].live
      differ == HasTopics /\ (~live.known \/ live.topics # Want(n).topics)
  IN /\ cmd = "apply" /\ task[n] = "topics"
     /\ \/ ~differ /\ Goes(n, "stale refs") /\ UNCHANGED forgeVars
        \/ /\ differ /\ Writable(n)
           /\ Write(n, [repo[n] EXCEPT !.topics = Want(n).topics])
           /\ Goes(n, "stale refs")
        \/ /\ differ /\ ~Writable(n)
           /\ Ends(n, "failed") /\ UNCHANGED forgeVars
     /\ UNCHANGED <<diskVars, runVars, change, state, faults>>

\* git deletes what the fleet no longer declares.  The forge keeps its default
\* branch, and lets git delete no branch that is protected in any way.
StaleRefsTaken(n) ==
  /\ Writable(n)
  /\ \A b \in change[n].staleBranches :
       b # repo[n].default /\ repo[n].protected[b] = "no"

DeleteStaleRefs(n) ==
  LET c == change[n]
      stale == c.staleTags # {} \/ c.staleBranches # {}
      r == repo[n]
  IN /\ task[n] = "stale refs"
     /\ \/ ~stale /\ Goes(n, "archive") /\ UNCHANGED forgeVars
        \/ /\ stale /\ StaleRefsTaken(n)
           /\ Write(n, [r EXCEPT
                !.tags = [t \in AllTags |->
                            IF t \in c.staleTags THEN NoCommit ELSE r.tags[t]],
                !.branches = [b \in Branches |->
                                IF b \in c.staleBranches THEN NoCommit
                                ELSE r.branches[b]],
                !.requests = @ \ c.staleBranches])
           /\ Goes(n, "archive")
        \/ /\ stale /\ ~StaleRefsTaken(n)
           /\ Ends(n, "failed") /\ UNCHANGED forgeVars
     /\ UNCHANGED <<diskVars, runVars, change, state, faults>>

\* A slip: the lock is written whatever failed.
WriteLockAnyway ==
  /\ cmd = "apply"
  /\ phase = IF Batched THEN "settle" ELSE "apply"
  /\ PhaseOver
  /\ lock' = fleet
  /\ Enter("ready", Each(Declared, "await"))
  /\ UNCHANGED <<forgeVars, fleet, edits, change, state, faults>>

\* Everything was applied: the lock is written, then the fleet waited for.
WriteLock ==
  /\ cmd = "apply"
  /\ phase = IF Batched THEN "settle" ELSE "apply"
  /\ PhaseOver /\ AllWell
  /\ lock' = fleet
  /\ Enter("ready", Each(Declared, "await"))
  /\ UNCHANGED <<forgeVars, fleet, edits, change, state, faults>>

ApplyTask(n) ==
  \/ Diff(n) \/ CreateLands(n) \/ CreateErrs(n) \/ CreateConflicts(n)
  \/ CheckLanded(n) \/ Adopt(n) \/ Label(n) \/ Appear(n) \/ Unarchived(n)
  \/ Recheck(n) \/ PushSeed(n) \/ ReadBack(n) \/ WaitPushed(n)
  \/ WaitPushedTimesOut(n) \/ Settle(n) \/ Settled(n) \/ SetTopics(n)
  \/ DeleteStaleRefs(n)

ApplyStep == StartWork \/ StartSettle \/ WriteLock
=============================================================================
