------------------------------- MODULE Destroy -------------------------------
(***************************************************************************)
(* destroy deletes the declared repositories and then the namespaces that  *)
(* forgelab made for them; apply makes both again.  Either may be killed   *)
(* anywhere, and others use the namespaces in between.                     *)
(***************************************************************************)
EXTENDS Namespaces

CONSTANTS
  Patient,    \* others wait for the answer to destroy's question
  MaxEdits    \* bound: what others do

ASSUME DestroyAssumption == Patient \in BOOLEAN /\ MaxEdits \in Nat

VARIABLES
  phase,
  todo,     \* namespaces still to be removed
  doing,    \* the one being removed
  step,     \* and how far that is
  failed,   \* one of them could not be
  exit,     \* how the last command ended
  before,   \* history: the ghosts there were when it began
  edits

loopVars == <<todo, doing, step, failed>>
vars == <<forge, forgeVars, clientVars, faults, phase, loopVars, exit, before, edits>>

TypeOK ==
  /\ NamespacesTypeOK
  /\ phase \in {"idle", "creating", "asking", "deleting", "removing"}
  /\ todo \subseteq Places /\ doing \in Places \cup {NoOne}
  /\ step \in {"idle", "drop", "purge", "gone"}
  /\ failed \in BOOLEAN
  /\ exit \in {"none", "applied", "destroyed", "failed"}
  /\ before \subseteq Repos
  /\ edits \in 0 .. MaxEdits

Init ==
  /\ forge \in Forges
  /\ group = [n \in Places |-> IF forge = "gitlab" /\ n = Top THEN "there" ELSE "none"]
  /\ marked = {} /\ repo = [r \in Repos |-> "none"] /\ ghosts = {}
  /\ task = [r \in Repos |-> "idle"] /\ at = [r \in Repos |-> Top]
  /\ known = {} /\ holder = [n \in Places |-> NoOne] /\ turn = NoOne
  /\ tries = [r \in Repos |-> 1] /\ faults = 0
  /\ phase = "idle" /\ todo = {} /\ doing = NoOne /\ step = "idle" /\ failed = FALSE
  /\ exit = "none" /\ before = {} /\ edits = 0

-----------------------------------------------------------------------------
(* How commands begin and end *)

\* No marker on Azure DevOps: there a declared name is forgelab's.
IsOurs(r) == forge = "azuredevops" \/ repo[r] # "foreign"

\* doomed_namespaces: those of declared names the forge holds, and the default
\* project if one of them is in it.
Doomed ==
  LET used == (UNION {Prefixes(Home[r]) : r \in Fleet}) \ {Top}
  IN IF forge = "gitlab" THEN used
     ELSE {n \in used : Len(n) = 1} \cup {n \in {Top} : \E r \in Fleet : Home[r] = n}

\* A process begins with empty caches.
Begin(p, tasks, stage) ==
  /\ phase' = p /\ exit' = "none" /\ before' = ghosts
  /\ task' = [r \in Repos |-> IF r \in tasks THEN stage ELSE "idle"]
  /\ at' = [r \in Repos |-> IF r \in tasks THEN Land(r) ELSE Top]

End(result) ==
  /\ phase' = "idle" /\ exit' = result
  /\ task' = [r \in Repos |-> "idle"] /\ at' = [r \in Repos |-> Top]
  /\ known' = {} /\ holder' = [n \in Places |-> NoOne] /\ turn' = NoOne
  /\ tries' = [r \in Repos |-> 1]
  /\ todo' = {} /\ doing' = NoOne /\ step' = "idle" /\ failed' = FALSE
  /\ UNCHANGED <<forge, forgeVars, before, edits>>

TasksOver == \A r \in Repos : task[r] \in {"idle", "done", "failed"}

TaskFailed == \E r \in Repos : task[r] = "failed"

\* apply, as far as it makes repositories; it refuses when one is somebody else's.
\* ensure_org has looked the sandbox's own group up.
StartApply ==
  /\ phase = "idle"
  /\ \A r \in Fleet : Found(r) => IsOurs(r)
  /\ Begin("creating", {r \in Fleet : ~Found(r)}, "resolve")
  /\ known' = IF forge = "gitlab" THEN {Top} ELSE {}
  /\ UNCHANGED <<forge, forgeVars, holder, turn, tries, faults, loopVars, edits>>

ApplyEnds ==
  /\ phase = "creating" /\ TasksOver
  /\ End(IF TaskFailed THEN "failed" ELSE "applied") /\ UNCHANGED faults

StartDestroy ==
  LET targets == {r \in Fleet : Found(r) /\ IsOurs(r)} IN
  /\ phase = "idle"
  /\ Begin(IF targets = {} THEN "removing" ELSE "asking", targets, "look")
  /\ todo' = Doomed
  /\ UNCHANGED <<forge, forgeVars, known, holder, turn, tries, faults,
                 doing, step, failed, edits>>

\* "Delete them? [y/N]"
Answer ==
  /\ phase = "asking"
  /\ \/ /\ phase' = "deleting"
        /\ UNCHANGED <<forge, forgeVars, clientVars, loopVars, exit, before, edits>>
     \/ End("failed")
  /\ UNCHANGED faults

DeletesOver ==
  /\ phase = "deleting" /\ TasksOver /\ phase' = "removing"
  /\ UNCHANGED <<forge, forgeVars, clientVars, faults, loopVars, exit, before, edits>>

\* A namespace that stays although it was to go fails the command.
DestroyEnds ==
  /\ phase = "removing" /\ todo = {}
  /\ End(IF failed \/ TaskFailed THEN "failed" ELSE "destroyed") /\ UNCHANGED faults

-----------------------------------------------------------------------------
(* Forge::delete *)

Look(r) ==
  /\ phase = "deleting" /\ task[r] = "look"
  /\ IF ~Found(r) THEN Goto(r, "done")
     ELSE IF repo[r] = "disabled" THEN Goto(r, "enable") ELSE Goto(r, "drop")
  /\ UNCHANGED forgeVars

\* A disabled repository cannot be deleted.
Enable(r) ==
  /\ task[r] = "enable" /\ Goto(r, "drop")
  /\ repo' = [repo EXCEPT ![r] = IF @ = "disabled" THEN "ours" ELSE @]
  /\ UNCHANGED <<group, marked, ghosts>>

\* The name is free at once; the repository itself may only be scheduled to go, or
\* be in the recycle bin.
Drop(r) ==
  /\ task[r] = "drop"
  /\ repo' = [repo EXCEPT ![r] = "none"]
  /\ ghosts' \in IF repo[r] = "none" THEN {ghosts} ELSE {ghosts, ghosts \cup {r}}
  /\ UNCHANGED <<group, marked>>
  /\ Goto(r, IF forge = "gitlab" THEN "readback" ELSE "bury")

\* A slip: a deleted repository is not read back.
Trust(r) == task[r] = "readback" /\ Goto(r, "done") /\ UNCHANGED forgeVars

\* Only what is read back says what the first DELETE has done.
ReadBack(r) ==
  /\ task[r] = "readback" /\ Goto(r, IF r \in ghosts THEN "bury" ELSE "done")
  /\ UNCHANGED forgeVars

Bury(r) ==
  /\ task[r] = "bury" /\ Goto(r, "done")
  /\ ghosts' = ghosts \ {r} /\ UNCHANGED <<group, marked, repo>>

\* A request fails, carried out or not.  That the recycle bin keeps something is
\* not an error.
DeleteFails(r) ==
  /\ phase = "deleting" /\ task[r] \in {"look", "enable", "drop", "readback", "bury"}
  /\ faults < MaxFaults
  /\ Goto(r, IF task[r] = "bury" /\ forge = "azuredevops" THEN "done" ELSE "failed")
  /\ \/ UNCHANGED <<repo, ghosts>>
     \/ /\ task[r] = "enable" /\ repo[r] = "disabled"
        /\ repo' = [repo EXCEPT ![r] = "ours"] /\ UNCHANGED ghosts
     \/ /\ task[r] = "drop" /\ repo' = [repo EXCEPT ![r] = "none"]
        /\ ghosts' = ghosts \cup {r}
  /\ UNCHANGED <<group, marked>>

Deleting(r) ==
  /\ \/ (Look(r) \/ Enable(r) \/ Drop(r) \/ ReadBack(r) \/ Bury(r)) /\ UNCHANGED faults
     \/ DeleteFails(r) /\ faults' = faults + 1
  /\ UNCHANGED <<forge, cellVars, phase, loopVars, exit, before, edits>>

-----------------------------------------------------------------------------
(* Forge::delete_namespace *)

\* The loop goes on with another one.
Leave(n, ok) ==
  /\ todo' = todo \ {n} /\ doing' = NoOne /\ step' = "idle"
  /\ failed' = (failed \/ ~ok)

On(n, s) == doing' = n /\ step' = s /\ UNCHANGED <<todo, failed>>

\* A slip: whatever has a declared name is removed.
Unmarked(n) == TRUE

\* "The marker means the same on a namespace as on a repository."
Removable(n) == n \in marked

Forget(n) == known' = {m \in known : n \notin Around(m)}

\* Outermost first; one that somebody else made is kept.
Examine(n) ==
  /\ step = "idle" /\ n \in todo /\ Around(n) \cap todo = {n}
  /\ \/ Says(n) = "none" /\ Leave(n, TRUE) /\ UNCHANGED known
     \/ /\ Says(n) # "none" /\ ~Removable(n) /\ Leave(n, TRUE)
        /\ known' = known \cup {m \in {n} : forge = "gitlab" /\ Says(n) = "there"}
     \/ Says(n) = "there" /\ Removable(n) /\ On(n, "drop") /\ Forget(n)
     \/ Says(n) = "leaving" /\ Removable(n) /\ On(n, "purge") /\ Forget(n)
  /\ UNCHANGED forgeVars

DropGroup(n) ==
  /\ step = "drop" /\ n = doing
  /\ IF group[n] = "none" THEN Leave(n, TRUE) /\ UNCHANGED group
     ELSE \/ /\ forge = "gitlab" /\ On(n, "purge")
             /\ \E s \in {"scheduled", "going"} : group' = [group EXCEPT ![n] = s]
          \/ /\ forge = "azuredevops" /\ On(n, "gone")
             /\ group' = [group EXCEPT ![n] = "going"]
  /\ UNCHANGED <<marked, repo, ghosts, known>>

PurgeGroup(n) ==
  /\ step = "purge" /\ n = doing
  /\ AskToPurge(n) /\ On(n, "gone") /\ UNCHANGED known

\* A slip: the wait has no limit.
AwaitForEver(n) ==
  /\ step = "gone" /\ n = doing /\ group[n] = "none"
  /\ Leave(n, TRUE) /\ UNCHANGED <<forgeVars, known>>

\* Waited for: gone, or an error when the time is over.
AwaitGroup(n) ==
  /\ step = "gone" /\ n = doing
  /\ Leave(n, group[n] = "none") /\ UNCHANGED <<forgeVars, known>>

\* A request fails, carried out or not; or Azure DevOps' operation does.
RemoveFails(n) ==
  /\ faults < MaxFaults /\ n \in todo
  /\ IF step = "idle" THEN Around(n) \cap todo = {n} ELSE n = doing
  /\ Leave(n, FALSE)
  /\ \/ UNCHANGED group
     \/ /\ step = "drop" /\ group[n] # "none"
        /\ group' = [group EXCEPT ![n] = IF forge = "gitlab" THEN "scheduled" ELSE "going"]
     \/ /\ step = "gone" /\ forge = "azuredevops" /\ group[n] # "none"
        /\ group' = [group EXCEPT ![n] = "there"]
  /\ UNCHANGED <<marked, repo, ghosts, known>>

Removing(n) ==
  /\ phase = "removing"
  /\ \/ (Examine(n) \/ DropGroup(n) \/ PurgeGroup(n) \/ AwaitGroup(n)) /\ UNCHANGED faults
     \/ RemoveFails(n) /\ faults' = faults + 1
  /\ UNCHANGED <<forge, task, at, holder, turn, tries, phase, exit, before, edits>>

-----------------------------------------------------------------------------
(* Everybody else *)

Kill ==
  /\ phase # "idle" /\ faults < MaxFaults /\ faults' = faults + 1
  /\ End("none")

\* Somebody takes a name, deletes or disables a repository of forgelab's, makes a
\* namespace of a declared name, edits its description, or deletes one of theirs.
Edit ==
  \/ \E r \in Repos :
       /\ \/ repo[r] = "none" /\ Says(Land(r)) = "there" /\ repo' = [repo EXCEPT ![r] = "foreign"]
          \/ repo[r] = "ours" /\ repo' = [repo EXCEPT ![r] = "none"]
          \/ /\ repo[r] = "ours" /\ forge = "azuredevops"
             /\ repo' = [repo EXCEPT ![r] = "disabled"]
       /\ UNCHANGED <<group, marked, ghosts>>
  \/ \E n \in Places :
       \/ /\ CanMake(n) /\ group' = [group EXCEPT ![n] = "there"]
          /\ UNCHANGED <<marked, repo, ghosts>>
       \/ /\ group[n] = "there" /\ n \in marked /\ marked' = marked \ {n}
          /\ UNCHANGED <<group, repo, ghosts>>
       \/ /\ forge = "gitlab" /\ n \notin marked \cup {Top} /\ group[n] = "there"
          /\ group' = [group EXCEPT ![n] = "scheduled"]
          /\ UNCHANGED <<marked, repo, ghosts>>

Others ==
  /\ phase \in IF Patient THEN {"idle"} ELSE {"idle", "asking"}
  /\ edits < MaxEdits /\ edits' = edits + 1
  /\ Edit /\ exit' = "none"
  /\ UNCHANGED <<forge, clientVars, faults, phase, loopVars, before>>

Commands ==
  \/ \E r \in Repos :
       \/ Creating(r) /\ UNCHANGED <<phase, loopVars, exit, before, edits>>
       \/ Deleting(r)
  \/ \E n \in Places : Removing(n)
  \/ ApplyEnds \/ Answer \/ DeletesOver \/ DestroyEnds

Next ==
  \/ Commands \/ StartApply \/ StartDestroy \/ Kill \/ Others
  \/ \E n \in Places : ForgeRemoves(n) /\ UNCHANGED <<phase, loopVars, exit, before, edits>>

Spec == Init /\ [][Next]_vars

\* Whatever a command can do next, it does.
FairSpec == Spec /\ WF_vars(Commands)

-----------------------------------------------------------------------------
(* Properties *)

\* Commands begin to delete a namespace, of those that are not going anyway, only if
\* forgelab made it for a declared repository; somebody else's repository goes only with such a one,
\* or where no marker can tell that it is somebody else's.
OnlyOursGoes ==
  [][/\ \A n \in Places :
          phase \notin {"idle", "asking"} /\ Says(n) = "there" /\ Leaving(n)' =>
            n \in marked \cap Doomed
     /\ \A r \in Repos : repo[r] = "foreign" /\ repo'[r] # "foreign" =>
          \/ \E n \in Around(Land(r)) : Leaving(n)
          \/ forge = "azuredevops" /\ r \in Fleet]_vars

\* "Eight workers hitting the same new namespace must make it once", one that is
\* still to go is waited for, and what the client remembers is there.
MadeOnce ==
  /\ \A r \in Repos :
       /\ task[r] = "post" => group[at[r]] = "none"
       /\ task[r] = "make" => group[at[r]] # "there"
  /\ \A n \in known : Says(n) = "there"

\* Exit 0: after apply everything declared is there; after destroy nothing of
\* forgelab's is, nor anything it has just deleted under another name (in Azure
\* DevOps' recycle bin it may be), whatever earlier commands have left half done.
OkIsTrue ==
  /\ exit = "applied" => \A r \in Fleet : Found(r)
  /\ exit = "destroyed" =>
       /\ \A r \in Fleet : Found(r) => ~IsOurs(r)
       /\ \A n \in Doomed : n \in marked => Says(n) = "none"
       /\ forge = "gitlab" => ghosts \subseteq before

\* Every command ends: nobody waits for a namespace that nobody is making.
RunsEnd == phase # "idle" ~> phase = "idle"
=============================================================================
