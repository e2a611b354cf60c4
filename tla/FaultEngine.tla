----------------------------- MODULE FaultEngine -----------------------------
(***************************************************************************)
(* The fault layer of the end-to-end tests.  It stands between forgelab    *)
(* and a forge, decides on every request by rules and a seed, and          *)
(* remembers what it saw, so that for a while after a write a read is      *)
(* answered with what was there before it.  Requests are decided on side   *)
(* by side: only the counters of a path, the state of one rule and the     *)
(* stale store have locks.                                                 *)
(***************************************************************************)
EXTENDS Naturals, Sequences, FiniteSets

CONSTANTS
  Clients,    \* one request of each at a time
  Repos,
  Rules,      \* a sequence
  Longest,    \* no stale window is open longer than that
  NoRequest

Methods == {"GET", "POST", "PATCH"}

\* The object of a repository in the API, its branch listing, and what git asks for.
Parts == {"object", "branches", "info/refs", "git-receive-pack", "git-upload-pack"}

ApiParts == {"object", "branches"}

Paths == Repos \X Parts

RepoOf(p) == p[1]

PartOf(p) == p[2]

\* "METHOD path", of what forgelab and git ask for.
Keys ==
  {k \in [method : Methods, path : Paths] :
     CASE PartOf(k.path) = "object" -> k.method # "POST"
       [] PartOf(k.path) \in {"branches", "info/refs"} -> k.method = "GET"
       [] OTHER -> k.method = "POST"}

Triggers == {"same_path", "same_repo", "git_receive_pack_same_repo"}

\* "Every condition present must hold": a condition is a set, empty if it is absent.
Optional(S) == {T \in SUBSET S : \A x, y \in T : x = y}

RuleType ==
  [methods : SUBSET Methods, parts : SUBSET Parts,
   chance : BOOLEAN, nth : Optional(Nat), first : Optional(Nat),
   total : Optional(Nat), each : Optional(Nat),
   fault : {"latency", "reset", "unavailable", "limited", "stale"},
   trigger : Triggers, lasts : Nat, pass : BOOLEAN, body : BOOLEAN]

\* Rules::validate
Valid(r) == 0 \notin r.nth /\ (r.fault = "stale" => r.lasts \in 1 .. Longest)

ASSUME RulesAssumption ==
  /\ Rules \in Seq(RuleType) /\ \A i \in DOMAIN Rules : Valid(Rules[i])
  /\ IsFiniteSet(Clients) /\ IsFiniteSet(Repos) /\ Longest \in Nat

Stale == {i \in DOMAIN Rules : Rules[i].fault = "stale"}

\* repo_prefix: what a trigger is remembered under.
Window(t, p) == IF t = "same_path" THEN <<t, p>> ELSE <<t, RepoOf(p)>>

\* Those that some rule asks for.
Windows == {Window(Rules[i].trigger, p) : i \in Stale, p \in Paths}

VARIABLES
  seen,       \* per_path: how many requests there were of each key
  matched,    \* matched[i]: requests rule i has looked at
  fired,      \* the log: which rule has fired, and for which request
  drawn,      \* what the seed says: where the dice come up for a rule with a probability
  snapshots,  \* "the last good answer per path"; {} or one
  age,        \* seconds since a window was opened
  request,    \* what a client asks
  stage,      \* what the layer does with it
  rule,       \* the next rule to look at it
  counter,    \* its position in its path's history
  reply,      \* what the client gets: how it goes, and what it shows
  content,    \* what is there: how often a repository was changed
  openedAt    \* history: what was there when a window was opened, before the request that did

countVars == <<seen, matched, fired, drawn>>
storeVars == <<snapshots, age, openedAt>>
requestVars == <<request, stage, rule, counter, reply>>
engineVars == <<countVars, storeVars, requestVars, content>>

Outcomes == {"none", "ok", "missing", "masked", "refused", "unavailable", "limited", "reset"}

Reply(how, what) == [how |-> how, what |-> what]

EngineTypeOK ==
  /\ seen \in [Keys -> Nat] /\ matched \in [DOMAIN Rules -> Nat]
  /\ fired \subseteq [rule : DOMAIN Rules, key : Keys, counter : Nat]
  /\ drawn \subseteq [rule : DOMAIN Rules, key : Keys, counter : Nat]
  /\ snapshots \in [Paths -> Optional(Nat)]
  /\ age \in [Windows -> 0 .. Longest] /\ openedAt \in [Windows -> Nat]
  /\ request \in [Clients -> Keys \cup {NoRequest}]
  /\ stage \in [Clients -> {"none", "deciding", "answered", "replied"}]
  /\ rule \in [Clients -> 1 .. Len(Rules) + 1] /\ counter \in [Clients -> Nat]
  /\ reply \in [Clients -> [how : Outcomes, what : Nat]]
  /\ content \in [Repos -> Nat]

EngineInit ==
  /\ seen = [k \in Keys |-> 0] /\ matched = [i \in DOMAIN Rules |-> 0]
  /\ fired = {} /\ drawn = {}
  /\ snapshots = [p \in Paths |-> {}]
  /\ age = [w \in Windows |-> Longest] /\ openedAt = [w \in Windows |-> 0]
  /\ request = [c \in Clients |-> NoRequest] /\ stage = [c \in Clients |-> "none"]
  /\ rule = [c \in Clients |-> 1] /\ counter = [c \in Clients |-> 0]
  /\ reply = [c \in Clients |-> Reply("none", 0)]
  /\ content = [r \in Repos |-> 0]

-----------------------------------------------------------------------------
(* Deciding *)

\* The request is counted before any rule looks at it.
Arrive(c, k) ==
  /\ stage[c] \in {"none", "replied"}
  /\ request' = [request EXCEPT ![c] = k] /\ stage' = [stage EXCEPT ![c] = "deciding"]
  /\ counter' = [counter EXCEPT ![c] = seen[k]] /\ seen' = [seen EXCEPT ![k] = @ + 1]
  /\ rule' = [rule EXCEPT ![c] = 1] /\ reply' = [reply EXCEPT ![c] = Reply("none", 0)]
  /\ UNCHANGED <<matched, fired, drawn, storeVars, content>>

Matches(i, k) == k.method \in Rules[i].methods /\ PartOf(k.path) \in Rules[i].parts

\* A slip: a cap per path counts what was fired on all of them.
OfAnyPath(i, k) == {e \in fired : e.rule = i}

Fired(i, k) == {e \in fired : e.rule = i /\ e.key = k}

\* when_holds, after the request was counted as matched.
WhenHolds(i, k, lucky) ==
  /\ \A n \in Rules[i].total : Cardinality({e \in fired : e.rule = i}) < n
  /\ \A n \in Rules[i].each : Cardinality(Fired(i, k)) < n
  /\ \A n \in Rules[i].first : matched[i] + 1 <= n
  /\ \A n \in Rules[i].nth : (matched[i] + 1) % n = 0
  /\ Rules[i].chance => lucky

Open(t, p, lasts) == age[Window(t, p)] < lasts

\* stale_answer: nothing, or the one answer a rule has.
StaleAnswer(i, p) ==
  LET r == Rules[i] IN
  IF ~Open(r.trigger, p, r.lasts) THEN {}
  ELSE IF r.body THEN {Reply("masked", 0)}
  ELSE IF snapshots[p] # {} THEN {Reply("ok", n) : n \in snapshots[p]}
  ELSE IF r.pass THEN {} ELSE {Reply("missing", 0)}

\* What a rule that fires says of the request; latency alone says nothing.
Verdict(i, p) ==
  CASE Rules[i].fault = "stale" -> StaleAnswer(i, p)
    [] Rules[i].fault = "latency" -> {}
    [] OTHER -> {Reply(Rules[i].fault, 0)}

\* The rules that are still to look at the request of c.
Ahead(c) == {i \in DOMAIN Rules : i >= rule[c] /\ Matches(i, request[c])}

\* One rule after the other, each under its own lock; the first verdict is final.
Decide(c, i, lucky) ==
  LET k == request[c]
      verdict == Verdict(i, k.path)
      fires == WhenHolds(i, k, lucky) /\ (Rules[i].fault = "stale" => verdict # {})
      this == {[rule |-> i, key |-> k, counter |-> counter[c]]}
  IN
  /\ stage[c] = "deciding" /\ i \in Ahead(c) /\ \A j \in Ahead(c) : i <= j
  /\ lucky => Rules[i].chance
  /\ matched' = [matched EXCEPT ![i] = @ + 1]
  /\ drawn' = IF lucky THEN drawn \cup this ELSE drawn
  /\ fired' = IF fires THEN fired \cup this ELSE fired
  /\ IF fires /\ verdict # {}
     THEN /\ stage' = [stage EXCEPT ![c] = "replied"]
          /\ \E v \in verdict : reply' = [reply EXCEPT ![c] = v]
          /\ UNCHANGED rule
     ELSE rule' = [rule EXCEPT ![c] = i + 1] /\ UNCHANGED <<stage, reply>>
  /\ UNCHANGED <<seen, storeVars, request, counter, content>>

\* No rule has one: Action::Pass, and the forge is asked.
Forwarded(c) == stage[c] = "deciding" /\ Ahead(c) = {}

-----------------------------------------------------------------------------
(* The forge, and what is made of its answer *)

Reads(k) == k.method = "GET" \/ PartOf(k.path) = "git-upload-pack"

\* It is carried out, or not.
Serve(c, how) ==
  LET k == request[c]
      r == RepoOf(k.path)
  IN
  /\ Forwarded(c) /\ stage' = [stage EXCEPT ![c] = "answered"]
  /\ content' = IF how = "ok" /\ ~Reads(k) THEN [content EXCEPT ![r] = @ + 1] ELSE content
  /\ reply' = [reply EXCEPT ![c] = Reply(how, content[r])]
  /\ UNCHANGED <<countVars, storeVars, request, rule, counter>>

\* A slip: a fresh answer replaces the one that is remembered.
NeverOpen(p) == FALSE

\* window_open: any rule's, whether it looks at this path or not.
WindowOpen(p) == \E i \in Stale : Open(Rules[i].trigger, p, Rules[i].lasts)

\* "A 2xx GET is snapshotted, unless a window already covers the path."
Remember(k, what) ==
  /\ snapshots' = IF WindowOpen(k.path) THEN snapshots ELSE [snapshots EXCEPT ![k.path] = {what}]
  /\ UNCHANGED <<age, openedAt>>

\* observe_mutation: "a successful mutation opens windows for its path and its repository".
Opened(k) ==
  {Window("same_path", k.path), Window("same_repo", k.path)} \cup
    {Window(t, k.path) : t \in {t \in Triggers : /\ t = "git_receive_pack_same_repo"
                                                 /\ PartOf(k.path) = "git-receive-pack"}}

OpenWindows(k, what) ==
  /\ age' = [w \in Windows |-> IF w \in Opened(k) THEN 0 ELSE age[w]]
  /\ openedAt' = [w \in Windows |-> IF w \in Opened(k) THEN what ELSE openedAt[w]]
  /\ UNCHANGED snapshots

\* The answer is looked at on its way back.  What git reads is streamed, not kept; its
\* POST to git-upload-pack counts as a mutation.
Recorded(c) ==
  LET k == request[c] IN
  /\ stage[c] = "answered"
  /\ CASE reply[c].how # "ok" -> UNCHANGED storeVars
       [] k.method = "GET" /\ PartOf(k.path) \in ApiParts -> Remember(k, reply[c].what)
       [] k.method = "GET" -> UNCHANGED storeVars
       [] OTHER -> OpenWindows(k, reply[c].what)

Observe(c) ==
  /\ Recorded(c) /\ stage' = [stage EXCEPT ![c] = "replied"]
  /\ UNCHANGED <<countVars, request, rule, counter, reply, content>>

\* The connection to the forge breaks, the request carried out or not, or the one to the
\* client, the answer observed or not.
Break(c) ==
  /\ \/ (Forwarded(c) \/ stage[c] = "answered") /\ UNCHANGED storeVars
     \/ Recorded(c)
  /\ stage' = [stage EXCEPT ![c] = "replied"]
  /\ reply' = [reply EXCEPT ![c] = Reply("reset", 0)]
  /\ UNCHANGED <<countVars, request, rule, counter, content>>

\* The client has its answer.
Take(c) ==
  /\ stage' = [stage EXCEPT ![c] = "none"] /\ request' = [request EXCEPT ![c] = NoRequest]
  /\ rule' = [rule EXCEPT ![c] = 1] /\ counter' = [counter EXCEPT ![c] = 0]
  /\ reply' = [reply EXCEPT ![c] = Reply("none", 0)]
  /\ UNCHANGED <<countVars, storeVars, content>>

\* Windows grow old.
Aged == [w \in Windows |-> IF age[w] < Longest THEN age[w] + 1 ELSE Longest]
=============================================================================
