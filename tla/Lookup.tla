------------------------------- MODULE Lookup -------------------------------
(***************************************************************************)
(* How commands find out what stands under the declared names: lookup in   *)
(* batches, lookup_confirmed and get_confirmed, which do not believe a     *)
(* first "missing", and each client's own way of asking a forge that       *)
(* answers from caches, gives deleted things a while to go, and follows a  *)
(* renamed repository's old name.                                          *)
(***************************************************************************)
EXTENDS Integers, FiniteSets

CONSTANTS
  Forges,     \* those looked at
  Names,      \* the declared names, numbered in their order
  First,      \* what may stand there at first
  Batch,      \* Batch[f]: batch_size, names that go into one request
  Attempts,   \* of Azure DevOps' listing
  Patience,   \* seconds a missing name is asked again
  Lag,        \* seconds caches need to catch up
  Slow,       \* forges a request to which may take longer than a moment
  MaxEdits,   \* bound: what others write
  MaxFaults   \* bound: requests that fail and runs that are interrupted

\* Whatever is archived, scheduled to go or renamed has commits.
Kinds == {"nothing", "bare", "full", "archived", "moved", "leaving"}

\* One that is renamed is not the one asked for; one that is scheduled for deletion "is
\* already gone as far as the fleet is concerned".
Gone == {"nothing", "moved", "leaving"}

ASSUME LookupAssumption ==
  /\ Forges \subseteq {"forgejo", "github", "gitlab", "azuredevops"}
  /\ Names \subseteq Nat /\ IsFiniteSet(Names)
  /\ First \subseteq [Names -> Kinds]
  /\ Batch \in [Forges -> Nat \ {0}]
  /\ \A f \in Forges \cap {"forgejo", "azuredevops"} : Batch[f] = 1
  /\ Attempts \in Nat \ {0} /\ Lag \in Nat \ {0} /\ Patience \in Nat /\ Lag + Attempts <= Patience + 1
  /\ Slow \subseteq Forges
  /\ MaxEdits \in Nat /\ MaxFaults \in Nat

VARIABLES
  forge,
  stands,     \* what stands under a name
  before,     \* what stood there, as long as caches may show it
  fresh,      \* seconds they may
  edits,
  call,       \* the kind of the call under way
  round,      \* those it is asking for now
  stage,      \* the request a name is at, or the pause
  answer,     \* what it is told of a name
  left,       \* seconds until "missing" is believed
  ticking,    \* that time has begun to pass
  tries,      \* how often a name was looked for in Azure DevOps' listing
  asks,       \* history: how often a name was asked for, up to 2
  outcome,    \* of the last call
  faults,
  calm, since, shown    \* history, as Answers has it

worldVars == <<forge, stands, before, fresh, edits>>
stageVars == <<stage, answer, tries>>
roundVars == <<call, round, left, ticking, asks, outcome>>
history == <<calm, since, shown>>
vars == <<worldVars, stageVars, roundVars, faults, history>>

Calls == {"lookup", "lookup_confirmed", "get_confirmed"}

Confirming == Calls \ {"lookup"}

Requests == {"query", "get", "second", "third", "listing"}

TypeOK ==
  /\ forge \in Forges /\ stands \in [Names -> Kinds]
  /\ before \in [Names -> SUBSET Kinds] /\ fresh \in [Names -> 0 .. Lag]
  /\ edits \in 0 .. MaxEdits
  /\ call \in {"idle"} \cup Calls /\ round \subseteq Names
  /\ stage \in [Names -> Requests \cup {"idle", "relist", "pausing", "done", "believed", "failed"}]
  /\ answer \in [Names -> {"none", "missing"} \cup (Kinds \ Gone)]
  /\ left \in [Names -> 0 .. Patience] /\ ticking \in BOOLEAN
  /\ tries \in [Names -> 1 .. Attempts] /\ asks \in [Names -> 0 .. 2]
  /\ outcome \in {"none", "ok", "failed"} /\ faults \in 0 .. MaxFaults
  /\ calm \subseteq Names
  /\ since \in [Names -> SUBSET Kinds] /\ shown \in [Names -> SUBSET Kinds]

All(x) == [n \in Names |-> x]

Init ==
  /\ forge \in Forges
  /\ stands \in First
  /\ before = All({}) /\ fresh = All(0) /\ edits = 0
  /\ call = "idle" /\ round = {} /\ stage = All("idle")
  /\ answer = All("none") /\ left = All(0) /\ ticking = FALSE
  /\ tries = All(1) /\ asks = All(0) /\ outcome = "none" /\ faults = 0
  /\ calm = {} /\ since = All({}) /\ shown = All({})

-----------------------------------------------------------------------------
(* The forge and those who write to it *)

\* What a write can make of a repository.
Becomes(k) ==
  CASE k = "nothing" -> {"bare"}
    [] k = "bare" -> {"full", "nothing"}
    [] k = "full" -> {"full", "archived", "moved", "nothing"}
                     \cup (IF forge = "gitlab" THEN {"leaving"} ELSE {})
    [] k = "archived" -> {"full", "nothing"}
    [] OTHER -> {"nothing"}

Edit(n) ==
  /\ edits < MaxEdits /\ edits' = edits + 1
  /\ \E k \in Becomes(stands[n]) :
       /\ stands' = [stands EXCEPT ![n] = k]
       /\ IF call = "idle" THEN UNCHANGED <<since, shown>>
          ELSE /\ since' = [since EXCEPT ![n] = @ \cup {k}]
               /\ shown' = [shown EXCEPT ![n] = @ \cup {k}]
  /\ before' = [before EXCEPT ![n] = @ \cup {stands[n]}]
  /\ fresh' = [fresh EXCEPT ![n] = Lag]
  /\ calm' = calm \ {n}
  /\ UNCHANGED <<forge, stageVars, roundVars, faults>>

\* What a forge may take a repository for.  "A forge may answer 404 for a moment after a
\* write"; Azure DevOps "sees a new repository at once", but not that it has gone.
Object(n) ==
  {stands[n]} \cup
    IF fresh[n] = 0 THEN {}
    ELSE IF forge = "azuredevops" THEN before[n] \ {"nothing"}
    ELSE before[n] \cup {"nothing"}

\* Azure DevOps' listing lags on "a flag just changed" and on what was "just created".
Listed(n) == {stands[n]} \cup before[n]

-----------------------------------------------------------------------------
(* One request, and what is made of its answer *)

Goto(n, s) == stage' = [stage EXCEPT ![n] = s]

Told(k) == IF k \in Gone THEN "missing" ELSE k

\* The lookup of n has an answer.
Answer(n, k) ==
  /\ Goto(n, "done") /\ answer' = [answer EXCEPT ![n] = Told(k)]
  /\ UNCHANGED tries

\* It has one, but something is asked yet.
AskOn(n, k, s) ==
  /\ Goto(n, s) /\ answer' = [answer EXCEPT ![n] = k]
  /\ UNCHANGED tries

\* The names that go into one request with n.
Chunk(n) ==
  LET place(m) == Cardinality({x \in round : x < m}) \div Batch[forge]
  IN IF call = "get_confirmed" THEN {n} ELSE {m \in round : place(m) = place(n)}

\* GitLab's "empty" is "updated after a push, not by it": such a project is asked itself.
AskedAlone(k) == forge = "gitlab" /\ k = "bare"

\* GraphQL: a name whose repository is not there, or under another name, has no answer.
Query(n) ==
  /\ stage[n] = "query"
  /\ \E k \in [Chunk(n) -> Kinds] :
       /\ \A m \in Chunk(n) : k[m] \in Object(m)
       /\ stage' = [m \in Names |->
            IF m \notin Chunk(n) THEN stage[m] ELSE IF AskedAlone(k[m]) THEN "get" ELSE "done"]
       /\ answer' = [m \in Names |-> IF m \in Chunk(n) THEN Told(k[m]) ELSE answer[m]]
  /\ UNCHANGED tries

\* Where the object alone does not do: Forgejo's topics, GitHub's and Azure DevOps'
\* branches, and those of a GitLab project that is said to be empty.
SecondRead(k) == k \notin Gone /\ (forge = "gitlab" => k = "bare")

\* Of several that are asked for alone one at a time is.
Get(n) ==
  /\ stage[n] = "get"
  /\ \A m \in Chunk(n) : stage[m] \in {"get", "second", "third"} => n <= m
  /\ \E k \in Object(n) :
       IF forge = "azuredevops" /\ k \in {"nothing", "archived"}
       THEN Goto(n, "listing") /\ tries' = [tries EXCEPT ![n] = 1] /\ UNCHANGED answer
       ELSE IF SecondRead(k) THEN AskOn(n, k, "second") ELSE Answer(n, k)

\* What the second read makes of the first: it is not answered from a cache.  Only on
\* Forgejo does the object say itself whether there are commits.
Amended(n) ==
  IF stands[n] = "nothing" \/ (forge = "azuredevops" /\ stands[n] \in {"archived", "moved"})
  THEN "nothing"
  ELSE IF forge = "forgejo" \/ answer[n] = "archived" THEN answer[n]
  ELSE IF stands[n] = "bare" THEN "bare" ELSE "full"

Second(n) ==
  /\ stage[n] = "second"
  /\ IF forge = "gitlab" /\ stands[n] \in {"nothing", "bare"} THEN AskOn(n, "bare", "third")
     ELSE Answer(n, IF forge = "gitlab" THEN "full" ELSE Amended(n))

\* No commits, or no project: it is asked for once more, and a cache may answer again.
Third(n) ==
  /\ stage[n] = "third"
  /\ \E k \in Object(n) : Answer(n, IF k = "nothing" THEN k ELSE "bare")

\* A slip: one attempt more.
ListingOnceMore(n) ==
  /\ stage[n] = "listing"
  /\ \E k \in Listed(n) :
       IF k \in Gone \cup {"archived"} THEN Answer(n, k)
       ELSE IF tries[n] > Attempts THEN Answer(n, "nothing")
       ELSE Goto(n, "relist") /\ tries' = [tries EXCEPT ![n] = @ + 1] /\ UNCHANGED answer

\* A slip: the listing is asked until it is of one mind with the GET.
ListingForEver(n) ==
  /\ stage[n] = "listing"
  /\ \E k \in Listed(n) :
       IF k \in Gone \cup {"archived"} THEN Answer(n, k)
       ELSE Goto(n, "relist") /\ UNCHANGED <<answer, tries>>

\* A GET answers 404 for a disabled repository; the listing has it, and may be behind.
Listing(n) ==
  /\ stage[n] = "listing"
  /\ \E k \in Listed(n) :
       IF k \in Gone \cup {"archived"} THEN Answer(n, k)
       ELSE IF tries[n] = Attempts THEN Answer(n, "nothing")
       ELSE Goto(n, "relist") /\ tries' = [tries EXCEPT ![n] = @ + 1] /\ UNCHANGED answer

\* A request fails for good: per_repository has every name of its batch fail.
Fails(n) ==
  /\ stage[n] \in Requests /\ faults < MaxFaults /\ faults' = faults + 1
  /\ stage' = [m \in Names |-> IF m \in Chunk(n) THEN "failed" ELSE stage[m]]
  /\ UNCHANGED <<answer, tries>>

Ask(n) ==
  /\ \/ (Query(n) \/ Get(n) \/ Second(n) \/ Third(n) \/ Listing(n)) /\ UNCHANGED faults
     \/ Fails(n)
  /\ UNCHANGED <<worldVars, roundVars, history>>

-----------------------------------------------------------------------------
(* A call *)

\* Only lookup and lookup_confirmed know batches.
FirstRequest(c) == IF c # "get_confirmed" /\ Batch[forge] > 1 THEN "query" ELSE "get"

StartCall(c) ==
  /\ call = "idle" /\ call' = c /\ round' = Names
  /\ stage' = All(FirstRequest(c))
  /\ answer' = All("none") /\ tries' = All(1) /\ outcome' = "none"
  /\ left' = All(Patience) /\ asks' = All(1)
  /\ ticking' = (c = "get_confirmed")
  /\ calm' = {n \in Names : c # "lookup" \/ before[n] = {}}
  /\ since' = [n \in Names |-> {stands[n]}]
  /\ shown' = [n \in Names |-> {stands[n]} \cup before[n]]
  /\ UNCHANGED <<worldVars, faults>>

RoundOver == \A n \in round : stage[n] \in {"done", "failed"}

Missing == {n \in Names : answer[n] = "missing"}

Pause(ns) ==
  /\ round' = ns
  /\ stage' = [n \in Names |-> IF n \in ns THEN "pausing" ELSE stage[n]]
  /\ UNCHANGED <<worldVars, answer, tries, call, left, asks, outcome, faults, history>>

\* A slip: what is missing at first is believed.
BelievedAtOnce(n) == TRUE

\* now >= deadline
Believed(n) == left[n] = 0

\* lookup_confirmed: what is missing is asked again, all of it together; time runs from
\* the end of the first round.
AskAgain ==
  /\ call = "lookup_confirmed" /\ RoundOver /\ round # {}
  /\ \A n \in round : stage[n] # "failed"
  /\ Missing # {} /\ \A n \in Missing : ~Believed(n)
  /\ ticking' = TRUE /\ Pause(Missing)

\* get_confirmed: each name on its own clock, which runs from before the first request.
Judge(n) ==
  /\ call = "get_confirmed" /\ stage[n] = "done"
  /\ IF answer[n] = "missing" /\ ~Believed(n)
     THEN Goto(n, "pausing") ELSE Goto(n, "believed")
  /\ UNCHANGED <<worldVars, answer, tries, roundVars, faults, history>>

End(result) ==
  /\ call' = "idle" /\ round' = {} /\ stage' = All("idle")
  /\ left' = All(0) /\ ticking' = FALSE /\ tries' = All(1) /\ asks' = All(0)
  /\ outcome' = result
  /\ answer' = IF result = "ok" THEN answer ELSE All("none")
  /\ calm' = {} /\ since' = All({}) /\ shown' = All({})
  /\ UNCHANGED worldVars

\* aggregate: one failure fails the call.
Return ==
  /\ \/ call = "get_confirmed" /\ \A n \in Names : stage[n] \in {"believed", "failed"}
     \/ call = "lookup" /\ RoundOver
     \/ /\ call = "lookup_confirmed" /\ RoundOver
        /\ \/ \E n \in round : stage[n] = "failed"
           \/ Missing = {}
           \/ ticking /\ \E n \in Missing : Believed(n)
  /\ End(IF \E n \in Names : stage[n] = "failed" THEN "failed" ELSE "ok")
  /\ UNCHANGED faults

\* Ctrl-C ends the pauses too.
Interrupt ==
  /\ call # "idle" /\ faults < MaxFaults /\ faults' = faults + 1 /\ End("failed")

\* A request, or a decision, is at hand.
AtHand ==
  \/ \E n \in Names : stage[n] \in Requests
  \/ call \in {"lookup", "lookup_confirmed"} /\ RoundOver
  \/ call = "get_confirmed" /\ \/ \E n \in Names : stage[n] = "done"
                               \/ \A n \in Names : stage[n] \in {"believed", "failed"}

Less(k) == IF k = 0 THEN 0 ELSE k - 1

\* A second passes, and with it every pause.
Tick ==
  /\ AtHand => forge \in Slow
  /\ fresh' = [n \in Names |-> Less(fresh[n])]
  /\ before' = [n \in Names |-> IF fresh[n] > 1 THEN before[n] ELSE {}]
  /\ left' = [n \in Names |-> IF ticking THEN Less(left[n]) ELSE left[n]]
  /\ stage' = [n \in Names |->
       IF stage[n] = "pausing" THEN FirstRequest(call)
       ELSE IF stage[n] = "relist" THEN "listing" ELSE stage[n]]
  /\ asks' = [n \in Names |-> IF stage[n] = "pausing" THEN 2 ELSE asks[n]]
  /\ UNCHANGED <<forge, stands, edits, answer, tries, call, round, ticking, outcome,
                 faults, history>>

Goes == (\E n \in Names : Ask(n) \/ Judge(n)) \/ AskAgain \/ Return

Next ==
  \/ Goes \/ Tick \/ Interrupt
  \/ \E n \in Names : Edit(n)
  \/ \E c \in Calls : StartCall(c)

Spec == Init /\ [][Next]_vars

\* The runtime polls what can go on, and time passes.
FairSpec == Spec /\ WF_vars(Goes) /\ WF_vars(Tick)

-----------------------------------------------------------------------------
(* Properties *)

\* What the answers of the call under way vouch for: confirmed calls for "missing", and
\* the second reads of each client for what they read.
Promise ==
  LET alone == forge = "github" /\ FirstRequest(call) = "get"
  IN IF call = "idle" THEN [confirms |-> FALSE, rereads |-> {}, counts |-> FALSE]
     ELSE [confirms |-> call \in Confirming,
           rereads |-> IF forge = "forgejo" \/ alone THEN Kinds \ Gone
                       ELSE IF forge = "azuredevops" THEN {"bare", "full"} ELSE {},
           counts |-> forge \in {"gitlab", "azuredevops"} \/ alone]

Promised == INSTANCE Answers WITH
  world <- stands, shadows <- before, open <- call # "idle", promise <- Promise,
  answers <- IF call = "idle" THEN answer ELSE All("none")

\* A lookup keeps its promise, whatever is written while it asks and however caches lag:
\* "missing" is believed only of what is missing (get_confirmed, lookup_confirmed), what
\* has gone is not found, and what has commits is not called empty.
TellsTheTruth == Promised!Spec

\* Every call is answered.
LookupEnds == call # "idle" ~> call = "idle"

\* "Looks a repository up, and does not take one 'missing' answer for it": no repository
\* that is there, and that nobody writes to meanwhile, is called missing on one answer.
NotOnOneAnswer ==
  [][(call \in Confirming) /\ outcome' = "ok" /\ call' = "idle" =>
       \A n \in calm : answer[n] = "missing" /\ since[n] \cap Gone = {} => asks[n] > 1]_vars
=============================================================================
