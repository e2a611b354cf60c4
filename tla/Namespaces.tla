----------------------------- MODULE Namespaces -----------------------------
(***************************************************************************)
(* The namespaces declared repositories live in, on the forges that hold   *)
(* them as things of their own: GitLab's nested groups, Azure DevOps'      *)
(* projects.  Forge::create makes those it needs, each once however many   *)
(* tasks need it, and waits for one that a destroy has left half deleted.  *)
(***************************************************************************)
EXTENDS Naturals, Sequences, FiniteSets, SequencesExt

CONSTANTS
  Forges,         \* those looked at
  Repos,          \* names of repositories
  Fleet,          \* the declared ones
  Home,           \* Home[r]: the namespace in the name of r, a sequence of segments
  Namesakes,      \* those named like the project they are in
  NoOne,
  InheritsMark,   \* on GitLab what is in a group to be deleted says that it is, too
  Attempts,       \* to make a project
  MaxFaults       \* bound: requests that fail and commands that are killed

Top == <<>>

Places == {Top} \cup UNION {Prefixes(Home[r]) : r \in Repos}

ASSUME NamespacesAssumption ==
  /\ Forges \subseteq {"gitlab", "azuredevops"}
  /\ Fleet \subseteq Repos /\ Namesakes \subseteq Repos
  /\ NoOne \notin Repos \cup Places
  /\ Home \in [Repos -> Seq(STRING)]
  /\ InheritsMark \in BOOLEAN
  /\ Attempts \in Nat \ {0} /\ MaxFaults \in Nat

VARIABLES
  forge,
  group,      \* how a namespace stands: to be deleted is "scheduled", then "going"
  marked,     \* those forgelab has made: NAMESPACE_MARKER
  repo,       \* whose repository has the name; "disabled" is one of ours
  ghosts,     \* those whose deleted repository lingers under another name
  task,       \* what a task of the command does next, for one repository
  at,         \* the namespace it is about
  known,      \* namespaces a client remembers
  holder,     \* holder[n]: the task that is finding or making n
  turn,       \* the task that makes a project
  tries,
  faults

forgeVars == <<group, marked, repo, ghosts>>
cellVars == <<at, known, holder, turn, tries>>
clientVars == <<task, cellVars>>

Asking == {"fetch", "purge", "gone", "post", "make", "again", "create", "check"}

NamespacesTypeOK ==
  /\ forge \in Forges
  /\ group \in [Places -> {"none", "there", "scheduled", "going"}]
  /\ marked \subseteq Places
  /\ repo \in [Repos -> {"none", "ours", "foreign", "disabled"}]
  /\ ghosts \subseteq Repos
  /\ task \in [Repos -> {"idle", "resolve", "turn", "look", "enable", "drop", "readback", "bury",
                         "done", "failed"} \cup Asking]
  /\ at \in [Repos -> Places] /\ known \subseteq Places
  /\ holder \in [Places -> Repos \cup {NoOne}] /\ turn \in Repos \cup {NoOne}
  /\ tries \in [Repos -> 1 .. Attempts]
  /\ faults \in 0 .. MaxFaults

-----------------------------------------------------------------------------
(* The forge *)

\* Where a forge lands a name: GitLab in nested groups, Azure DevOps in a project
\* with the rest joined to the name, or in the sandbox's own.
Land(r) ==
  IF forge = "gitlab" \/ Home[r] = Top THEN Home[r] ELSE <<Head(Home[r])>>

\* A namespace and those it is in; Azure DevOps nests none.
Around(n) == IF forge = "gitlab" THEN Prefixes(n) ELSE {n}

Leaving(n) == group[n] \in {"scheduled", "going"}

\* A group to be deleted still answers, and keeps its path; a project does not.
Says(n) ==
  IF group[n] = "none" \/ (forge = "azuredevops" /\ Leaving(n)) THEN "none"
  ELSE IF \E m \in (IF InheritsMark THEN Around(n) ELSE {n}) : Leaving(m)
       THEN "leaving" ELSE "there"

\* What a lookup by name finds.
Found(r) == repo[r] # "none" /\ Says(Land(r)) = "there"

CanMake(n) ==
  /\ group[n] = "none"
  /\ forge = "gitlab" => group[Front(n)] = "there"

\* A namespace is made with the marker; a project brings a repository of its name.
MakeGroup(n) ==
  /\ CanMake(n)
  /\ group' = [group EXCEPT ![n] = "there"]
  /\ marked' = marked \cup {n}
  /\ repo' = [r \in Repos |->
       IF forge = "azuredevops" /\ r \in Namesakes /\ Land(r) = n THEN "ours" ELSE repo[r]]
  /\ UNCHANGED ghosts

\* A namespace goes with all it holds.
Vanish(n) ==
  /\ group' = [m \in Places |-> IF n \in Around(m) THEN "none" ELSE group[m]]
  /\ marked' = {m \in marked : n \notin Around(m)}
  /\ repo' = [r \in Repos |-> IF n \in Around(Land(r)) THEN "none" ELSE repo[r]]
  /\ ghosts' = {r \in ghosts : n \notin Around(Land(r))}

\* What is being deleted goes some time, and what is scheduled may.
ForgeRemoves(n) ==
  /\ Leaving(n) /\ Vanish(n)
  /\ UNCHANGED <<forge, clientVars, faults>>

-----------------------------------------------------------------------------
(* Forge::create *)

Goto(r, s) == task' = [task EXCEPT ![r] = s]

\* Where a namespace is known, its own are next, and then the repository.
Proceed(r, n) ==
  IF n = Land(r)
  THEN Goto(r, "create") /\ UNCHANGED at
  ELSE Goto(r, "post") /\ at' = [at EXCEPT ![r] = SubSeq(Land(r), 1, Len(n) + 1)]

Learn(r, n) ==
  /\ known' = known \cup {n}
  /\ holder' = [holder EXCEPT ![n] = NoOne]
  /\ turn' = IF turn = r THEN NoOne ELSE turn
  /\ Proceed(r, n)

\* An error ends every initialisation the task is in the middle of; whoever waits
\* for one of them runs its own.
Unwind(r, s) ==
  /\ Goto(r, s) /\ at' = [at EXCEPT ![r] = Land(r)]
  /\ holder' = [n \in Places |-> IF holder[n] = r THEN NoOne ELSE holder[n]]
  /\ turn' = IF turn = r THEN NoOne ELSE turn
  /\ UNCHANGED known

GiveUp(r) == Unwind(r, "failed")

\* A slip: a cell another task is filling is taken as well.
Unclaimed(n) == TRUE

\* KeyedOnce: at most one initialisation of a key runs.
Free(n) == holder[n] = NoOne

Resolve(r) ==
  LET n == at[r] IN
  /\ task[r] = "resolve"
  /\ \/ n \in known /\ Proceed(r, n) /\ UNCHANGED holder
     \/ /\ n \notin known /\ Free(n)
        /\ holder' = [holder EXCEPT ![n] = r]
        /\ Goto(r, "fetch") /\ UNCHANGED at
  /\ UNCHANGED <<forge, forgeVars, known, turn, tries, faults>>

\* The parent comes first, and its turn is inside the child's.
ParentOf(r, n) ==
  at' = [at EXCEPT ![r] = Front(n)] /\ Goto(r, "resolve")

Fetch(r) ==
  LET n == at[r] IN
  /\ task[r] = "fetch"
  /\ \/ Says(n) = "there" /\ Learn(r, n)
     \/ Says(n) = "leaving" /\ Goto(r, "purge") /\ UNCHANGED <<at, known, holder, turn>>
     \/ /\ Says(n) = "none" /\ forge = "gitlab"
        /\ ParentOf(r, n) /\ UNCHANGED <<known, holder, turn>>
     \/ /\ Says(n) = "none" /\ forge = "azuredevops"
        /\ Goto(r, "turn") /\ UNCHANGED <<at, known, holder, turn>>
  /\ UNCHANGED <<forge, forgeVars, tries, faults>>

\* poll_gone asks once for the permanent removal, which may be refused.
AskToPurge(n) ==
  /\ \/ UNCHANGED group
     \/ group[n] # "none" /\ group' = [group EXCEPT ![n] = "going"]
  /\ UNCHANGED <<marked, repo, ghosts>>

Purge(r) ==
  /\ task[r] = "purge"
  /\ AskToPurge(at[r]) /\ Goto(r, "gone")
  /\ UNCHANGED <<forge, cellVars, faults>>

\* wait_gone: gone, or still there when the time is over.
AwaitGone(r) ==
  LET n == at[r] IN
  /\ task[r] = "gone"
  /\ \/ group[n] = "none" /\ ParentOf(r, n) /\ UNCHANGED <<known, holder, turn>>
     \/ group[n] # "none" /\ GiveUp(r)
  /\ UNCHANGED <<forge, forgeVars, tries, faults>>

Post(r) ==
  /\ task[r] = "post"
  /\ IF CanMake(at[r])
     THEN MakeGroup(at[r]) /\ Learn(r, at[r])
     ELSE GiveUp(r) /\ UNCHANGED forgeVars
  /\ UNCHANGED <<forge, tries, faults>>

\* A slip: attempts are counted from zero.
TurnFromZero(r) ==
  /\ task[r] = "turn" /\ turn = NoOne /\ turn' = r
  /\ Goto(r, "make") /\ tries' = [tries EXCEPT ![r] = 0]
  /\ UNCHANGED <<forge, forgeVars, at, known, holder, faults>>

\* Projects are made one at a time.
Turn(r) ==
  /\ task[r] = "turn" /\ turn = NoOne /\ turn' = r
  /\ Goto(r, "make") /\ tries' = [tries EXCEPT ![r] = 1]
  /\ UNCHANGED <<forge, forgeVars, at, known, holder, faults>>

Make(r) ==
  /\ task[r] = "make"
  /\ IF CanMake(at[r])
     THEN MakeGroup(at[r]) /\ Learn(r, at[r])
     ELSE GiveUp(r) /\ UNCHANGED forgeVars
  /\ UNCHANGED <<forge, tries, faults>>

\* The operation fails, and may have left the project behind.
MakeFails(r) ==
  /\ task[r] = "make" /\ faults < MaxFaults /\ faults' = faults + 1
  /\ MakeGroup(at[r]) \/ UNCHANGED forgeVars
  /\ IF tries[r] < Attempts
     THEN /\ tries' = [tries EXCEPT ![r] = @ + 1]
          /\ Goto(r, "again") /\ UNCHANGED <<at, known, holder, turn>>
     ELSE GiveUp(r) /\ UNCHANGED tries
  /\ UNCHANGED forge

Again(r) ==
  LET n == at[r] IN
  /\ task[r] = "again"
  /\ \/ Says(n) = "there" /\ Learn(r, n)
     \/ Says(n) = "none" /\ Goto(r, "make") /\ UNCHANGED <<at, known, holder, turn>>
  /\ UNCHANGED <<forge, forgeVars, tries, faults>>

\* The repository itself; one that came with its project is taken over, by create or,
\* where the project was made by another attempt, by create_verified.
Create(r) ==
  /\ task[r] = "create"
  /\ \/ repo[r] # "none" /\ Goto(r, "done")
        /\ UNCHANGED <<forgeVars, at, known, holder, turn>>
     \/ /\ repo[r] = "none"
        /\ IF Says(Land(r)) = "there"
           THEN /\ repo' = [repo EXCEPT ![r] = "ours"] /\ Goto(r, "done")
                /\ UNCHANGED <<at, known, holder, turn>>
           ELSE GiveUp(r) /\ UNCHANGED repo
        /\ UNCHANGED <<group, marked, ghosts>>
  /\ UNCHANGED <<forge, tries, faults>>

\* The project is made, or was left behind, and is looked up for its id.
LooksItUp(r) ==
  LET n == at[r] IN
  \/ task[r] = "make" /\ group[n] = "none" /\ group'[n] = "there"
  \/ task[r] = "again" /\ Says(n) = "there"

\* Any request may fail, carried out or not.  If it may pass, and it was none of those that
\* make a namespace, create_verified looks whether the repository is there.
CreateFails(r) ==
  /\ task[r] \in Asking /\ faults < MaxFaults /\ faults' = faults + 1
  /\ \/ UNCHANGED forgeVars
     \/ task[r] \in {"post", "make"} /\ MakeGroup(at[r])
     \/ /\ task[r] = "create" /\ repo[r] = "none" /\ Says(Land(r)) = "there"
        /\ repo' = [repo EXCEPT ![r] = "ours"]
        /\ UNCHANGED <<group, marked, ghosts>>
  /\ \/ GiveUp(r)
     \/ /\ task[r] \notin {"post", "make", "again", "check"} \/ LooksItUp(r)
        /\ Unwind(r, "check")
  /\ UNCHANGED <<forge, tries>>

Check(r) ==
  /\ task[r] = "check" /\ Goto(r, IF Found(r) THEN "done" ELSE "resolve")
  /\ UNCHANGED <<forge, forgeVars, cellVars, faults>>

Creating(r) ==
  \/ Resolve(r) \/ Fetch(r) \/ Purge(r) \/ AwaitGone(r) \/ Post(r)
  \/ Turn(r) \/ Make(r) \/ MakeFails(r) \/ Again(r) \/ Create(r) \/ CreateFails(r) \/ Check(r)
=============================================================================
