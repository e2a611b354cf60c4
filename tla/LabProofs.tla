------------------------------ MODULE LabProofs ------------------------------
(***************************************************************************)
(* What holds behind the fault layer for any number of tasks, whatever the *)
(* rules and however the dice come up: types, git commands that keep their *)
(* distance, stale answers that are old, faults that can be reproduced,    *)
(* and -- where the rules leave room for it -- git commands that outlast   *)
(* what is injected.                                                       *)
(***************************************************************************)
EXTENDS Lab, TLAPS, FiniteSetTheorems

\* A task asks for what is in its own repository.
Asked ==
  \A c \in Clients : stage[c] # "none" =>
    request[c] \in Keys /\ request[c].path \in Paths /\ RepoOf(request[c].path) = c

Inv == TypeOK /\ Asked

\* The slots that are given out, and the next one, are apart, and far enough from the last
\* start.
SlotInv ==
  /\ gap + next >= Interval
  /\ \A c \in Clients : step[c] = "turn" =>
       /\ gap + wait[c] >= Interval
       /\ wait[c] + Interval <= next
  /\ \A c, d \in Clients : c # d /\ step[c] = "turn" /\ step[d] = "turn" =>
       wait[c] + Interval <= wait[d] \/ wait[d] + Interval <= wait[c]

\* What is remembered has been there, and what was there before a write that is answered
\* but not seen yet is not older than what is remembered.
PastInv ==
  /\ \A p \in Paths : \A n \in snapshots[p] : n <= content[RepoOf(p)]
  /\ \A c \in Clients : stage[c] = "answered" =>
       /\ reply[c].what <= content[c]
       /\ request[c].method # "GET" =>
            \A p \in Paths : RepoOf(p) = c => \A n \in snapshots[p] : n <= reply[c].what

-----------------------------------------------------------------------------
(* Helpers *)

\* Requests are asked for by repository and part.
LEMMA PathsAre ==
  ASSUME NEW p \in Paths
  PROVE  RepoOf(p) \in Clients /\ PartOf(p) \in Parts
BY LabAssumption DEF Paths, RepoOf, PartOf

LEMMA KeysAre ==
  ASSUME NEW k \in Keys
  PROVE  k.path \in Paths /\ k.method \in Methods
BY DEF Keys

LEMMA RulesAre ==
  ASSUME NEW i \in DOMAIN Rules
  PROVE  Rules[i] \in RuleType /\ Valid(Rules[i]) /\ i \in 1 .. Len(Rules)
         /\ DOMAIN Rules = 1 .. Len(Rules) /\ Len(Rules) \in Nat
BY RulesAssumption

\* A window that a rule asks for.
LEMMA WindowsAre ==
  ASSUME NEW i \in Stale, NEW p \in Paths
  PROVE  /\ i \in DOMAIN Rules /\ Rules[i].trigger \in Triggers
         /\ Rules[i].lasts \in 1 .. Longest
         /\ Window(Rules[i].trigger, p) \in Windows
<1>1. i \in DOMAIN Rules /\ Rules[i].fault = "stale"
  BY DEF Stale
<1>2. Rules[i] \in RuleType /\ Valid(Rules[i])
  BY <1>1, RulesAre
<1>3. Rules[i].trigger \in Triggers
  BY <1>2 DEF RuleType
<1> QED BY <1>1, <1>2, <1>3 DEF Valid, Windows

\* What a write opens is about its own repository.
LEMMA OpenedIsOwn ==
  ASSUME NEW t \in Triggers, NEW p \in Paths, NEW k \in Keys, Window(t, p) \in Opened(k)
  PROVE  RepoOf(p) = RepoOf(k.path)
BY DEF Opened, Window, Triggers

\* How a client gets an answer without a forge.
LEMMA VerdictType ==
  ASSUME EngineTypeOK, NEW i \in DOMAIN Rules, NEW p \in Paths, NEW v \in Verdict(i, p)
  PROVE  v \in [how : Outcomes, what : Nat]
<1>1. Rules[i] \in RuleType
  BY RulesAre
<1>2. Rules[i].fault \in {"latency", "reset", "unavailable", "limited", "stale"}
  BY <1>1 DEF RuleType
<1>3. snapshots[p] \subseteq Nat
  BY DEF EngineTypeOK, Optional
<1>4. CASE Rules[i].fault = "stale"
  BY <1>3, <1>4 DEF Verdict, StaleAnswer, Reply, Outcomes
<1>5. CASE Rules[i].fault = "latency"
  BY <1>5 DEF Verdict
<1>6. CASE Rules[i].fault \in {"reset", "unavailable", "limited"}
  BY <1>6 DEF Verdict, Reply, Outcomes
<1> QED BY <1>2, <1>4, <1>5, <1>6

-----------------------------------------------------------------------------
(* Types *)

LEMMA ArriveType ==
  ASSUME EngineTypeOK, Asked, NEW c \in Clients, NEW k \in Keys, RepoOf(k.path) = c, Arrive(c, k)
  PROVE  EngineTypeOK' /\ Asked'
<1>1. k.path \in Paths
  BY KeysAre
<1>2. 1 \in 1 .. Len(Rules) + 1
  BY RulesAssumption
<1>3. Reply("none", 0) \in [how : Outcomes, what : Nat]
  BY DEF Reply, Outcomes
<1>4. EngineTypeOK'
  <2>1. seen' \in [Keys -> Nat] /\ counter' \in [Clients -> Nat]
    BY DEF EngineTypeOK, Arrive
  <2>2. /\ request' \in [Clients -> Keys \cup {NoRequest}]
        /\ stage' \in [Clients -> {"none", "deciding", "answered", "replied"}]
    BY DEF EngineTypeOK, Arrive
  <2>3. /\ rule' \in [Clients -> 1 .. Len(Rules) + 1]
        /\ reply' \in [Clients -> [how : Outcomes, what : Nat]]
    BY <1>2, <1>3 DEF EngineTypeOK, Arrive
  <2>4. UNCHANGED <<matched, fired, drawn, snapshots, age, openedAt, content>>
    BY DEF Arrive, storeVars
  <2> QED BY <2>1, <2>2, <2>3, <2>4 DEF EngineTypeOK
<1>5. Asked'
  BY <1>1 DEF EngineTypeOK, Arrive, Asked
<1> QED BY <1>4, <1>5

LEMMA TakeType ==
  ASSUME EngineTypeOK, Asked, NEW c \in Clients, Take(c)
  PROVE  EngineTypeOK' /\ Asked'
<1>1. 1 \in 1 .. Len(Rules) + 1
  BY RulesAssumption
<1>2. Reply("none", 0) \in [how : Outcomes, what : Nat]
  BY DEF Reply, Outcomes
<1>3. EngineTypeOK'
  BY <1>1, <1>2 DEF EngineTypeOK, Take, countVars, storeVars
<1>4. Asked'
  BY DEF EngineTypeOK, Take, Asked
<1> QED BY <1>3, <1>4

LEMMA DecideType ==
  ASSUME EngineTypeOK, Asked, NEW c \in Clients, NEW i \in DOMAIN Rules,
         NEW lucky \in BOOLEAN, Decide(c, i, lucky)
  PROVE  EngineTypeOK' /\ Asked'
<1> DEFINE Entry == [rule : DOMAIN Rules, key : Keys, counter : Nat]
           entry == [rule |-> i, key |-> request[c], counter |-> counter[c]]
<1>1. request[c] \in Keys /\ request[c].path \in Paths
  BY DEF Decide, Asked
<1>2. {entry} \subseteq Entry
  BY <1>1 DEF EngineTypeOK
<1>3. drawn' \subseteq Entry /\ fired' \subseteq Entry
  BY <1>2 DEF EngineTypeOK, Decide
<1>4. matched' \in [DOMAIN Rules -> Nat]
  BY DEF EngineTypeOK, Decide
<1>5. i + 1 \in 1 .. Len(Rules) + 1
  BY RulesAre
<1>6. stage' \in [Clients -> {"none", "deciding", "answered", "replied"}]
  BY DEF EngineTypeOK, Decide
<1>7. rule' \in [Clients -> 1 .. Len(Rules) + 1]
  BY <1>5 DEF EngineTypeOK, Decide
<1>8. \A v \in Verdict(i, request[c].path) : v \in [how : Outcomes, what : Nat]
  BY <1>1, VerdictType
<1>9. reply' \in [Clients -> [how : Outcomes, what : Nat]]
  BY <1>8 DEF EngineTypeOK, Decide
<1>10. EngineTypeOK'
  BY <1>3, <1>4, <1>6, <1>7, <1>9 DEF EngineTypeOK, Decide, storeVars
<1>11. Asked'
  BY DEF EngineTypeOK, Decide, Asked
<1> QED BY <1>10, <1>11

LEMMA ServeType ==
  ASSUME EngineTypeOK, Asked, NEW c \in Clients, NEW how \in {"ok", "refused", "limited"},
         Serve(c, how)
  PROVE  EngineTypeOK' /\ Asked'
<1>1. stage[c] = "deciding" /\ RepoOf(request[c].path) = c /\ c \in Repos
  BY LabAssumption DEF Serve, Forwarded, Asked
<1>2. content' \in [Repos -> Nat]
  BY <1>1 DEF EngineTypeOK, Serve
<1>3. Reply(how, content[c]) \in [how : Outcomes, what : Nat]
  BY <1>1 DEF EngineTypeOK, Reply, Outcomes
<1>4. reply' \in [Clients -> [how : Outcomes, what : Nat]]
  BY <1>1, <1>3 DEF EngineTypeOK, Serve
<1>5. stage' \in [Clients -> {"none", "deciding", "answered", "replied"}]
  BY DEF EngineTypeOK, Serve
<1>6. EngineTypeOK'
  BY <1>2, <1>4, <1>5 DEF EngineTypeOK, Serve, countVars, storeVars
<1>7. Asked'
  BY <1>1 DEF EngineTypeOK, Serve, Asked
<1> QED BY <1>6, <1>7

\* What the layer makes of an answer: nothing, a snapshot, or windows.
LEMMA RecordedDoes ==
  ASSUME NEW c \in Clients, Recorded(c)
  PROVE  \/ UNCHANGED storeVars
         \/ request[c].method = "GET" /\ Remember(request[c], reply[c].what)
         \/ request[c].method # "GET" /\ OpenWindows(request[c], reply[c].what)
BY DEF Recorded

LEMMA RecordedType ==
  ASSUME EngineTypeOK, Asked, NEW c \in Clients, Recorded(c)
  PROVE  /\ snapshots' \in [Paths -> Optional(Nat)]
         /\ age' \in [Windows -> 0 .. Longest]
         /\ openedAt' \in [Windows -> Nat]
<1>1. stage[c] = "answered" /\ request[c].path \in Paths /\ reply[c].what \in Nat
  BY DEF Recorded, Asked, EngineTypeOK
<1>2. snapshots' \in [Paths -> Optional(Nat)]
  <2>1. {reply[c].what} \in Optional(Nat)
    BY <1>1 DEF Optional
  <2> QED BY <1>1, <2>1, RecordedDoes DEF EngineTypeOK, Remember, OpenWindows, storeVars
<1>3. age' \in [Windows -> 0 .. Longest]
  <2>1. 0 \in 0 .. Longest
    BY RulesAssumption
  <2> QED BY <2>1, RecordedDoes DEF EngineTypeOK, Remember, OpenWindows, storeVars
<1>4. openedAt' \in [Windows -> Nat]
  BY <1>1, RecordedDoes DEF EngineTypeOK, Remember, OpenWindows, storeVars
<1> QED BY <1>2, <1>3, <1>4

LEMMA ObserveType ==
  ASSUME EngineTypeOK, Asked, NEW c \in Clients, Observe(c)
  PROVE  EngineTypeOK' /\ Asked'
<1>1. Recorded(c) /\ stage[c] = "answered"
  BY DEF Observe, Recorded
<1>2. EngineTypeOK'
  BY <1>1, RecordedType DEF EngineTypeOK, Observe, countVars
<1>3. Asked'
  BY <1>1 DEF EngineTypeOK, Observe, Asked
<1> QED BY <1>2, <1>3

LEMMA BreakType ==
  ASSUME EngineTypeOK, Asked, NEW c \in Clients, Break(c)
  PROVE  EngineTypeOK' /\ Asked'
<1>1. stage[c] # "none" /\ (UNCHANGED storeVars \/ Recorded(c))
  BY DEF Break, Forwarded, Recorded
<1>2. Reply("reset", 0) \in [how : Outcomes, what : Nat]
  BY DEF Reply, Outcomes
<1>3. /\ snapshots' \in [Paths -> Optional(Nat)]
      /\ age' \in [Windows -> 0 .. Longest]
      /\ openedAt' \in [Windows -> Nat]
  BY <1>1, RecordedType DEF EngineTypeOK, storeVars
<1>4. EngineTypeOK'
  BY <1>2, <1>3 DEF EngineTypeOK, Break, countVars
<1>5. Asked'
  BY <1>1 DEF EngineTypeOK, Break, Asked
<1> QED BY <1>4, <1>5

\* What forgelab and git ask for.
LEMMA RequestAsks ==
  ASSUME NEW c \in Clients, NEW m, NEW part,
         \/ m \in {"GET", "PATCH"} /\ part = "object"
         \/ m = "GET" /\ part \in {"branches", "info/refs"}
         \/ m = "POST" /\ part \in {"git-upload-pack", "git-receive-pack"}
  PROVE  /\ [method |-> m, path |-> <<c, part>>] \in Keys
         /\ RepoOf([method |-> m, path |-> <<c, part>>].path) = c
<1> DEFINE k == [method |-> m, path |-> <<c, part>>]
<1>1. <<c, part>> \in Paths
  BY LabAssumption DEF Paths, Parts
<1>2. k \in [method : Methods, path : Paths]
  BY <1>1 DEF Methods
<1>3. PartOf(k.path) = part /\ RepoOf(k.path) = c /\ k.method = m
  BY DEF PartOf, RepoOf
<1> QED BY <1>2, <1>3 DEF Keys

\* The variables of the tasks.
TaskTypeOK ==
  /\ op \in [Clients -> {"none"} \cup ApiCalls \cup GitCommands]
  /\ step \in [Clients -> {"idle", "asking", "slot", "turn", "refs", "pack", "pausing"}]
  /\ attempt \in [Clients -> 1 .. Attempts] /\ pause \in [Clients -> Nat]
  /\ wait \in [Clients -> Nat] /\ next \in Nat
  /\ ref \subseteq Clients /\ ended \in [Clients -> {"none", "ok", "failed"}]
  /\ done \in 0 .. MaxTasks /\ gap \in 0 .. Interval /\ faults \in 0 .. MaxFaults

\* An end of something.
LEMMA EndType ==
  ASSUME Inv, NEW c \in Clients, NEW how \in {"none", "ok", "failed"}, End(c, how)
  PROVE  Inv'
<1>1. EngineTypeOK' /\ Asked'
  BY TakeType DEF Inv, TypeOK, End
<1>2. TaskTypeOK'
  BY LabAssumption DEF Inv, TypeOK, TaskTypeOK, End, Goto
<1> QED BY <1>1, <1>2 DEF Inv, TypeOK, TaskTypeOK

\* What a client does.
LEMMA ClientType ==
  ASSUME Inv, NEW c \in Clients,
         \/ \E what \in ApiCalls : StartCall(c, what)
         \/ \E command \in GitCommands : StartGit(c, command)
         \/ TakeSlot(c) \/ Start(c) \/ Pack(c) \/ GitEnds(c) \/ GitFails(c) \/ Resume(c)
         \/ CallEnds(c)
  PROVE  Inv'
<1> USE DEF Inv, TypeOK
<1>1. ASSUME NEW what \in ApiCalls, StartCall(c, what) PROVE Inv'
  <2>1. EngineTypeOK' /\ Asked'
    BY <1>1, RequestAsks, ArriveType DEF StartCall, Request, ApiCalls
  <2>2. TaskTypeOK'
    BY <1>1, LabAssumption DEF StartCall, Begin, Goto, TaskTypeOK
  <2> QED BY <2>1, <2>2 DEF TaskTypeOK
<1>2. ASSUME NEW command \in GitCommands, StartGit(c, command) PROVE Inv'
  <2>1. EngineTypeOK' /\ Asked'
    BY <1>2 DEF StartGit, EngineTypeOK, Asked, engineVars, countVars, storeVars, requestVars
  <2>2. TaskTypeOK'
    BY <1>2, LabAssumption DEF StartGit, Begin, Goto, TaskTypeOK
  <2> QED BY <2>1, <2>2 DEF TaskTypeOK
<1>3. CASE TakeSlot(c)
  <2>1. EngineTypeOK' /\ Asked'
    BY <1>3 DEF TakeSlot, EngineTypeOK, Asked, engineVars, countVars, storeVars, requestVars
  <2>2. TaskTypeOK'
    BY <1>3, LabAssumption DEF TakeSlot, Goto, TaskTypeOK
  <2> QED BY <2>1, <2>2 DEF TaskTypeOK
<1>4. CASE Start(c)
  <2>1. EngineTypeOK' /\ Asked'
    BY <1>4, RequestAsks, ArriveType DEF Start, Request
  <2>2. TaskTypeOK'
    BY <1>4, LabAssumption DEF Start, Goto, TaskTypeOK
  <2> QED BY <2>1, <2>2 DEF TaskTypeOK
<1>5. CASE Pack(c)
  <2>1. CASE op[c] = "delete" /\ c \notin ref
    BY <1>5, <2>1, EndType DEF Pack
  <2>2. CASE ~(op[c] = "delete" /\ c \notin ref)
    <3>1. EngineTypeOK' /\ Asked'
      BY <1>5, <2>2, RequestAsks, ArriveType DEF Pack, Request
    <3>2. TaskTypeOK'
      BY <1>5, <2>2, LabAssumption DEF Pack, Goto, TaskTypeOK
    <3> QED BY <3>1, <3>2 DEF TaskTypeOK
  <2> QED BY <2>1, <2>2
<1>6. CASE GitEnds(c)
  BY <1>6, EndType DEF GitEnds
<1>7. CASE GitFails(c)
  <2>1. CASE Transient(reply[c].how) /\ MayRetry(c)
    <3>1. EngineTypeOK' /\ Asked'
      BY <1>7, <2>1, TakeType DEF GitFails
    <3>2. TaskTypeOK'
      BY <1>7, <2>1, LabAssumption DEF GitFails, MayRetry, Goto, TaskTypeOK
    <3> QED BY <3>1, <3>2 DEF TaskTypeOK
  <2>2. CASE ~(Transient(reply[c].how) /\ MayRetry(c))
    BY <1>7, <2>2, EndType DEF GitFails
  <2> QED BY <2>1, <2>2
<1>8. CASE Resume(c)
  <2>1. EngineTypeOK' /\ Asked'
    BY <1>8 DEF Resume, EngineTypeOK, Asked, engineVars, countVars, storeVars, requestVars
  <2>2. TaskTypeOK'
    BY <1>8, LabAssumption DEF Resume, Goto, TaskTypeOK
  <2> QED BY <2>1, <2>2 DEF TaskTypeOK
<1>9. CASE CallEnds(c)
  BY <1>9, EndType DEF CallEnds
<1> QED BY <1>1, <1>2, <1>3, <1>4, <1>5, <1>6, <1>7, <1>8, <1>9

\* What the layer and the forge do for it.
LEMMA ServerType ==
  ASSUME Inv, NEW c \in Clients, Layer(c) \/ Serves(c) \/ Fails(c)
  PROVE  Inv'
<1> USE DEF Inv, TypeOK
<1>1. CASE Layer(c)
  <2>1. EngineTypeOK' /\ Asked'
    BY <1>1, DecideType, ObserveType DEF Layer
  <2> QED BY <1>1, <2>1 DEF Layer, taskVars
<1>2. CASE Serves(c)
  <2>1. EngineTypeOK' /\ Asked'
    BY <1>2, ServeType DEF Serves
  <2>2. TaskTypeOK'
    BY <1>2 DEF Serves, TaskTypeOK
  <2> QED BY <2>1, <2>2 DEF TaskTypeOK
<1>3. CASE Fails(c)
  <2>1. EngineTypeOK' /\ Asked'
    BY <1>3, ServeType, BreakType DEF Fails
  <2>2. TaskTypeOK'
    BY <1>3, LabAssumption DEF Fails, TaskTypeOK
  <2> QED BY <2>1, <2>2 DEF TaskTypeOK
<1> QED BY <1>1, <1>2, <1>3

LEMMA TickType ==
  ASSUME Inv, Tick
  PROVE  Inv'
<1> USE DEF Inv, TypeOK
<1>1. age' \in [Windows -> 0 .. Longest]
  BY RulesAssumption DEF Tick, Aged, EngineTypeOK
<1>2. EngineTypeOK' /\ Asked'
  BY <1>1 DEF Tick, EngineTypeOK, Asked, countVars, requestVars
<1>3. TaskTypeOK'
  BY LabAssumption DEF Tick, Less, TaskTypeOK
<1> QED BY <1>2, <1>3 DEF TaskTypeOK

LEMMA InitType == Init => Inv
<1> SUFFICES ASSUME Init PROVE Inv
  OBVIOUS
<1>1. 1 \in 1 .. Len(Rules) + 1 /\ {} \in Optional(Nat) /\ Longest \in 0 .. Longest
  BY RulesAssumption DEF Optional
<1>2. Reply("none", 0) \in [how : Outcomes, what : Nat]
  BY DEF Reply, Outcomes
<1>3. EngineTypeOK
  BY <1>1, <1>2 DEF Init, EngineInit, EngineTypeOK
<1>4. TaskTypeOK
  BY LabAssumption DEF Init, TaskTypeOK
<1>5. Asked
  BY DEF Init, EngineInit, Asked
<1> QED BY <1>3, <1>4, <1>5 DEF Inv, TypeOK, TaskTypeOK

LEMMA StepType == Inv /\ [Next]_vars => Inv'
<1> SUFFICES ASSUME Inv, [Next]_vars PROVE Inv'
  OBVIOUS
<1>1. CASE UNCHANGED vars
  BY <1>1 DEF Inv, TypeOK, EngineTypeOK, Asked, vars, taskVars, engineVars, countVars,
     storeVars, requestVars
<1>2. CASE Tick
  BY <1>2, TickType
<1>3. ASSUME NEW c \in Clients,
             \/ Works(c) \/ Fails(c)
             \/ \E what \in ApiCalls : StartCall(c, what)
             \/ \E command \in GitCommands : StartGit(c, command)
      PROVE  Inv'
  BY <1>3, ClientType, ServerType DEF Works
<1> QED BY <1>1, <1>2, <1>3 DEF Next

\* Every variable keeps its type, and what is asked for is the asking task's own.
THEOREM TypeCorrect == Spec => []TypeOK
<1>1. Inv => TypeOK
  BY DEF Inv
<1> QED BY <1>1, InitType, StepType, PTL DEF Spec

-----------------------------------------------------------------------------
(* The pace of git commands *)

\* Nothing about the slots changes, but that somebody may leave one.
LEMMA NoSlot ==
  ASSUME SlotInv, gap' = gap, next' = next,
         \A c \in Clients : step'[c] = "turn" => step[c] = "turn" /\ wait'[c] = wait[c]
  PROVE  SlotInv'
BY DEF SlotInv

LEMMA EndSlot ==
  ASSUME Inv, SlotInv, NEW c \in Clients, NEW how, End(c, how)
  PROVE  SlotInv'
<1>1. \A d \in Clients : step'[d] = "turn" => step[d] = "turn" /\ wait'[d] = wait[d]
  BY DEF Inv, TypeOK, End, Goto
<1> QED BY <1>1, NoSlot DEF End

\* A new slot is apart from those given out before, and from the last start.
LEMMA TakeSlotSlot ==
  ASSUME Inv, SlotInv, NEW c \in Clients, TakeSlot(c)
  PROVE  SlotInv'
<1>1. /\ next \in Nat /\ Interval \in Nat /\ gap \in Nat
      /\ wait \in [Clients -> Nat] /\ wait' \in [Clients -> Nat]
  BY LabAssumption DEF Inv, TypeOK, TakeSlot
<1>2. gap' = gap /\ next' = next + Interval /\ wait'[c] = next
  BY <1>1 DEF TakeSlot
<1>3. ASSUME NEW d \in Clients, d # c
      PROVE  wait'[d] = wait[d] /\ step'[d] = step[d]
  BY <1>3 DEF Inv, TypeOK, TakeSlot, Goto
<1>4. gap' + next' >= Interval
  BY <1>1, <1>2 DEF SlotInv
<1>5. ASSUME NEW d \in Clients, step'[d] = "turn"
      PROVE  gap' + wait'[d] >= Interval /\ wait'[d] + Interval <= next'
  <2>1. CASE d = c
    BY <1>1, <1>2, <2>1 DEF SlotInv
  <2>2. CASE d # c
    BY <1>1, <1>2, <1>3, <1>5, <2>2 DEF SlotInv
  <2> QED BY <2>1, <2>2
<1>6. ASSUME NEW d \in Clients, NEW e \in Clients, d # e, step'[d] = "turn", step'[e] = "turn"
      PROVE  wait'[d] + Interval <= wait'[e] \/ wait'[e] + Interval <= wait'[d]
  <2>1. CASE d = c
    BY <1>1, <1>2, <1>3, <1>6, <2>1 DEF SlotInv
  <2>2. CASE e = c
    BY <1>1, <1>2, <1>3, <1>6, <2>2 DEF SlotInv
  <2>3. CASE d # c /\ e # c
    BY <1>3, <1>6, <2>3 DEF SlotInv
  <2> QED BY <2>1, <2>2, <2>3
<1> QED BY <1>4, <1>5, <1>6 DEF SlotInv

\* Whoever starts leaves the others at least an interval behind.
LEMMA StartSlot ==
  ASSUME Inv, SlotInv, NEW c \in Clients, Start(c)
  PROVE  SlotInv' /\ gap >= Interval
<1>1. /\ next \in Nat /\ Interval \in Nat /\ gap \in Nat
      /\ wait \in [Clients -> Nat]
  BY LabAssumption DEF Inv, TypeOK
<1>2. gap' = 0 /\ next' = next /\ wait' = wait /\ wait[c] = 0 /\ step[c] = "turn"
  BY DEF Start
<1>3. ASSUME NEW d \in Clients, step'[d] = "turn"
      PROVE  d # c /\ step[d] = "turn"
  BY <1>3 DEF Inv, TypeOK, Start, Goto
<1>4. Interval <= next /\ gap >= Interval
  BY <1>1, <1>2 DEF SlotInv
<1>5. ASSUME NEW d \in Clients, step'[d] = "turn"
      PROVE  gap' + wait'[d] >= Interval
  BY <1>1, <1>2, <1>3, <1>5 DEF SlotInv
<1> QED BY <1>1, <1>2, <1>3, <1>4, <1>5 DEF SlotInv

\* Time passes only while nobody's turn has come.
LEMMA TickSlot ==
  ASSUME Inv, SlotInv, Tick
  PROVE  SlotInv'
<1>1. /\ next \in Nat /\ Interval \in Nat /\ gap \in 0 .. Interval
      /\ wait \in [Clients -> Nat]
  BY LabAssumption DEF Inv, TypeOK
<1>2. /\ step' = step /\ next' = Less(next)
      /\ gap' = IF gap < Interval THEN gap + 1 ELSE Interval
      /\ \A d \in Clients : wait'[d] = Less(wait[d])
  BY DEF Tick
<1>3. ASSUME NEW d \in Clients, step[d] = "turn"
      PROVE  wait[d] \in Nat \ {0} /\ wait'[d] = wait[d] - 1
  BY <1>1, <1>2, <1>3 DEF Tick, Due, Less
<1>4. gap' + next' >= Interval
  BY <1>1, <1>2 DEF SlotInv, Less
<1>5. ASSUME NEW d \in Clients, step[d] = "turn"
      PROVE  gap' + wait'[d] >= Interval /\ wait'[d] + Interval <= next'
  <2>1. gap + wait[d] >= Interval /\ wait[d] + Interval <= next
    BY <1>5 DEF SlotInv
  <2>2. next' = next - 1
    BY <1>1, <1>2, <1>3, <1>5, <2>1 DEF Less
  <2> QED BY <1>1, <1>2, <1>3, <1>5, <2>1, <2>2
<1>6. ASSUME NEW d \in Clients, NEW e \in Clients, d # e, step[d] = "turn", step[e] = "turn"
      PROVE  wait'[d] + Interval <= wait'[e] \/ wait'[e] + Interval <= wait'[d]
  BY <1>1, <1>3, <1>6 DEF SlotInv
<1> QED BY <1>2, <1>4, <1>5, <1>6 DEF SlotInv

LEMMA InitSlot == Init => SlotInv
BY LabAssumption DEF Init, SlotInv

LEMMA StepSlot == Inv /\ SlotInv /\ [Next]_vars => SlotInv'
<1> SUFFICES ASSUME Inv, SlotInv, [Next]_vars PROVE SlotInv'
  OBVIOUS
<1> USE DEF Inv, TypeOK, Goto
<1>1. CASE UNCHANGED vars
  BY <1>1 DEF SlotInv, vars, taskVars
<1>2. CASE Tick
  BY <1>2, TickSlot
<1>3. ASSUME NEW c \in Clients, Works(c) PROVE SlotInv'
  <2>1. CASE TakeSlot(c)
    BY <2>1, TakeSlotSlot
  <2>2. CASE Start(c)
    BY <2>2, StartSlot
  <2>3. CASE Pack(c)
    <3>1. CASE op[c] = "delete" /\ c \notin ref
      BY <2>3, <3>1, EndSlot DEF Pack
    <3>2. CASE ~(op[c] = "delete" /\ c \notin ref)
      BY <2>3, <3>2, NoSlot DEF Pack
    <3> QED BY <3>1, <3>2
  <2>4. CASE GitEnds(c)
    BY <2>4, EndSlot DEF GitEnds
  <2>5. CASE GitFails(c)
    <3>1. CASE Transient(reply[c].how) /\ MayRetry(c)
      <4>1. \A d \in Clients : step'[d] = "turn" => step[d] = "turn" /\ wait'[d] = wait[d]
        BY <2>5, <3>1 DEF GitFails
      <4> QED BY <2>5, <3>1, <4>1, NoSlot DEF GitFails
    <3>2. CASE ~(Transient(reply[c].how) /\ MayRetry(c))
      BY <2>5, <3>2, EndSlot DEF GitFails
    <3> QED BY <3>1, <3>2
  <2>6. CASE Resume(c)
    BY <2>6, NoSlot DEF Resume
  <2>7. CASE CallEnds(c)
    BY <2>7, EndSlot DEF CallEnds
  <2>8. CASE Layer(c)
    BY <2>8, NoSlot DEF Layer, taskVars
  <2>9. CASE Serves(c)
    BY <2>9, NoSlot DEF Serves
  <2> QED BY <1>3, <2>1, <2>2, <2>3, <2>4, <2>5, <2>6, <2>7, <2>8, <2>9 DEF Works
<1>4. ASSUME NEW c \in Clients, Fails(c) PROVE SlotInv'
  BY <1>4, NoSlot DEF Fails
<1>5. ASSUME NEW c \in Clients, NEW what \in ApiCalls, StartCall(c, what) PROVE SlotInv'
  BY <1>5, NoSlot DEF StartCall, Begin
<1>6. ASSUME NEW c \in Clients, NEW command \in GitCommands, StartGit(c, command) PROVE SlotInv'
  BY <1>6, NoSlot DEF StartGit, Begin
<1> QED BY <1>1, <1>2, <1>3, <1>4, <1>5, <1>6 DEF Next

\* Only a start leads from a turn to the question for refs.
LEMMA OnlyStart ==
  ASSUME Inv, SlotInv, [Next]_vars, NEW c \in Clients, step[c] = "turn", step'[c] = "refs"
  PROVE  gap >= Interval
<1> USE DEF Inv, TypeOK, Goto
<1>1. CASE UNCHANGED vars \/ Tick
  BY <1>1 DEF vars, taskVars, Tick
<1>2. ASSUME NEW d \in Clients, Works(d) PROVE gap >= Interval
  <2>1. CASE Start(d)
    BY <2>1, StartSlot
  <2>2. CASE ~Start(d)
    <3>1. step' = step \/ \E s \in {"turn", "pack", "idle", "pausing", "slot"} :
            step' = [step EXCEPT ![d] = s]
      BY <1>2, <2>2 DEF Works, TakeSlot, Pack, GitEnds, GitFails, Resume, CallEnds, Layer,
         Serves, End, taskVars
    <3> QED BY <3>1
  <2> QED BY <2>1, <2>2
<1>3. ASSUME NEW d \in Clients,
             \/ Fails(d)
             \/ \E what \in ApiCalls : StartCall(d, what)
             \/ \E command \in GitCommands : StartGit(d, command)
      PROVE  gap >= Interval
  <2>1. step' = step \/ \E s \in {"asking", "slot"} : step' = [step EXCEPT ![d] = s]
    BY <1>3 DEF Fails, StartCall, StartGit
  <2> QED BY <2>1
<1> QED BY <1>1, <1>2, <1>3 DEF Next

\* However many tasks run git commands, first attempts or retries, their starts keep the
\* distance that GitPace is to give them.
THEOREM Spaced == Spec => StartsSpaced
<1> DEFINE Far == \A c \in Clients : step[c] = "turn" /\ step'[c] = "refs" => gap >= Interval
<1>1. Inv /\ SlotInv /\ [Next]_vars => [Far]_vars
  BY OnlyStart
<1> QED BY <1>1, InitType, StepType, InitSlot, StepSlot, PTL DEF Spec, StartsSpaced

-----------------------------------------------------------------------------
(* Stale answers *)

\* Nothing is remembered, nothing changes, and no answer comes from the forge.
LEMMA NoNews ==
  ASSUME PastInv, StaleIsOld, UNCHANGED <<storeVars, content>>,
         \A c \in Clients : stage'[c] = "answered" =>
           /\ stage[c] = "answered" /\ reply'[c] = reply[c] /\ request'[c] = request[c]
  PROVE  PastInv' /\ StaleIsOld'
<1>1. snapshots' = snapshots /\ age' = age /\ openedAt' = openedAt /\ content' = content
  BY DEF storeVars
<1>2. PastInv'
  BY <1>1 DEF PastInv
<1>3. StaleIsOld'
  BY <1>1 DEF StaleIsOld, Open
<1> QED BY <1>2, <1>3

LEMMA ArriveNews ==
  ASSUME Inv, PastInv, StaleIsOld, NEW c \in Clients, NEW k, Arrive(c, k)
  PROVE  PastInv' /\ StaleIsOld'
BY NoNews DEF Inv, TypeOK, EngineTypeOK, Arrive

LEMMA TakeNews ==
  ASSUME Inv, PastInv, StaleIsOld, NEW c \in Clients, Take(c)
  PROVE  PastInv' /\ StaleIsOld'
BY NoNews DEF Inv, TypeOK, EngineTypeOK, Take

LEMMA DecideNews ==
  ASSUME Inv, PastInv, StaleIsOld, NEW c \in Clients, NEW i, NEW lucky, Decide(c, i, lucky)
  PROVE  PastInv' /\ StaleIsOld'
<1>1. UNCHANGED <<storeVars, content, request>> /\ stage[c] = "deciding"
  BY DEF Decide
<1>2. \A d \in Clients : stage'[d] = "answered" =>
        stage[d] = "answered" /\ reply'[d] = reply[d]
  BY <1>1 DEF Inv, TypeOK, EngineTypeOK, Decide
<1> QED BY <1>1, <1>2, NoNews

\* An answer says what was there before the request it answers was carried out.
LEMMA ServeNews ==
  ASSUME Inv, PastInv, StaleIsOld, NEW c \in Clients, NEW how, Serve(c, how)
  PROVE  PastInv' /\ StaleIsOld'
<1>1. /\ RepoOf(request[c].path) = c /\ stage[c] = "deciding" /\ c \in Repos
      /\ content \in [Repos -> Nat]
  BY LabAssumption DEF Serve, Forwarded, Inv, TypeOK, EngineTypeOK, Asked
<1>2. UNCHANGED <<snapshots, age, openedAt, request>>
  BY DEF Serve, storeVars
<1>3. reply'[c].what = content[c]
  BY <1>1 DEF Serve, Inv, TypeOK, EngineTypeOK, Reply
<1>4. ASSUME NEW d \in Clients, d # c
      PROVE  reply'[d] = reply[d] /\ stage'[d] = stage[d]
  BY <1>4 DEF Serve, Inv, TypeOK, EngineTypeOK
<1>5. \A r \in Repos : content[r] \in Nat /\ content'[r] \in Nat /\ content[r] <= content'[r]
  BY <1>1 DEF Serve
<1>6. \A p \in Paths : \A n \in snapshots[p] : n \in Nat
  BY DEF Inv, TypeOK, EngineTypeOK, Optional
<1>7. \A p \in Paths : RepoOf(p) \in Repos
  BY PathsAre, LabAssumption
<1>8. \A p \in Paths : \A n \in snapshots'[p] : n <= content'[RepoOf(p)]
  BY <1>2, <1>5, <1>6, <1>7 DEF PastInv
<1>9. ASSUME NEW d \in Clients, stage'[d] = "answered"
      PROVE  /\ reply'[d].what <= content'[d]
             /\ request'[d].method # "GET" =>
                  \A p \in Paths : RepoOf(p) = d => \A n \in snapshots'[p] : n <= reply'[d].what
  <2>1. CASE d = c
    BY <1>1, <1>2, <1>3, <1>5, <2>1 DEF PastInv
  <2>2. CASE d # c
    <3>1. stage[d] = "answered" /\ reply'[d] = reply[d] /\ reply[d].what \in Nat /\ d \in Repos
      BY <1>4, <1>9, <2>2, LabAssumption DEF Inv, TypeOK, EngineTypeOK
    <3> QED BY <1>2, <1>5, <3>1 DEF PastInv
  <2> QED BY <2>1, <2>2
<1>10. StaleIsOld'
  BY <1>2 DEF StaleIsOld, Open
<1> QED BY <1>8, <1>9, <1>10 DEF PastInv

\* A fresh answer is remembered only where no window is open; a write opens windows on what
\* is not younger than it.
LEMMA RecordedNews ==
  ASSUME Inv, PastInv, StaleIsOld, NEW c \in Clients, Recorded(c),
         UNCHANGED <<content, request>>,
         \A d \in Clients : stage'[d] = "answered" =>
           stage[d] = "answered" /\ reply'[d] = reply[d] /\ d # c
  PROVE  PastInv' /\ StaleIsOld'
<1> DEFINE k == request[c]
           what == reply[c].what
<1>1. /\ k \in Keys /\ k.path \in Paths /\ RepoOf(k.path) = c /\ stage[c] = "answered"
      /\ what <= content[c] /\ content' = content /\ request' = request
  BY DEF Recorded, Inv, Asked, PastInv
<1>2. \A d \in Clients : stage'[d] = "answered" =>
        stage[d] = "answered" /\ reply'[d] = reply[d] /\ d # c
  OBVIOUS
<1>3. CASE UNCHANGED storeVars
  BY <1>1, <1>2, <1>3, NoNews
<1>4. CASE Remember(k, what)
  <2>1. UNCHANGED <<age, openedAt>>
    BY <1>4 DEF Remember
  <2>2. \A p \in Paths :
          \/ snapshots'[p] = snapshots[p]
          \/ p = k.path /\ ~WindowOpen(p) /\ snapshots'[p] = {what}
    BY <1>1, <1>4 DEF Remember, Inv, TypeOK, EngineTypeOK
  <2>3. PastInv'
    BY <1>1, <1>2, <2>2 DEF PastInv
  <2>4. StaleIsOld'
    BY <2>1, <2>2 DEF StaleIsOld, Open, WindowOpen
  <2> QED BY <2>3, <2>4
<1>5. CASE k.method # "GET" /\ OpenWindows(k, what)
  <2>1. snapshots' = snapshots
    BY <1>5 DEF OpenWindows
  <2>2. PastInv'
    BY <1>1, <1>2, <2>1 DEF PastInv
  <2>3. ASSUME NEW i \in Stale, NEW p \in Paths, NEW n \in snapshots[p],
               age'[Window(Rules[i].trigger, p)] < Rules[i].lasts
        PROVE  n <= openedAt'[Window(Rules[i].trigger, p)]
    <3> DEFINE w == Window(Rules[i].trigger, p)
    <3>1. w \in Windows /\ Rules[i].trigger \in Triggers
      BY WindowsAre
    <3>2. CASE w \in Opened(k)
      <4>1. RepoOf(p) = c
        BY <1>1, <3>1, <3>2, OpenedIsOwn
      <4>2. openedAt'[w] = what
        BY <1>5, <3>1, <3>2 DEF OpenWindows
      <4> QED BY <1>1, <1>5, <4>1, <4>2 DEF PastInv
    <3>3. CASE w \notin Opened(k)
      BY <1>5, <2>3, <3>1, <3>3 DEF OpenWindows, StaleIsOld, Open
    <3> QED BY <3>2, <3>3
  <2>4. StaleIsOld'
    BY <2>1, <2>3 DEF StaleIsOld, Open
  <2> QED BY <2>2, <2>4
<1> QED BY <1>3, <1>4, <1>5, RecordedDoes

LEMMA ObserveNews ==
  ASSUME Inv, PastInv, StaleIsOld, NEW c \in Clients, Observe(c)
  PROVE  PastInv' /\ StaleIsOld'
<1>1. Recorded(c) /\ UNCHANGED <<content, request>>
  BY DEF Observe
<1>2. \A d \in Clients : stage'[d] = "answered" =>
        stage[d] = "answered" /\ reply'[d] = reply[d] /\ d # c
  BY DEF Observe, Inv, TypeOK, EngineTypeOK
<1> QED BY <1>1, <1>2, RecordedNews

LEMMA BreakNews ==
  ASSUME Inv, PastInv, StaleIsOld, NEW c \in Clients, Break(c)
  PROVE  PastInv' /\ StaleIsOld'
<1>1. UNCHANGED <<content, request>> /\ (UNCHANGED storeVars \/ Recorded(c))
  BY DEF Break
<1>2. \A d \in Clients : stage'[d] = "answered" =>
        stage[d] = "answered" /\ reply'[d] = reply[d] /\ d # c
  BY DEF Break, Inv, TypeOK, EngineTypeOK
<1>3. CASE UNCHANGED storeVars
  BY <1>1, <1>2, <1>3, NoNews
<1>4. CASE Recorded(c)
  BY <1>1, <1>2, <1>4, RecordedNews
<1> QED BY <1>1, <1>3, <1>4

\* No window gets younger.
LEMMA TickNews ==
  ASSUME Inv, PastInv, StaleIsOld, Tick
  PROVE  PastInv' /\ StaleIsOld'
<1>1. UNCHANGED <<snapshots, openedAt, request, reply, stage, content>>
  BY DEF Tick, requestVars
<1>2. PastInv'
  BY <1>1 DEF PastInv
<1>3. ASSUME NEW i \in Stale, NEW p \in Paths, age'[Window(Rules[i].trigger, p)] < Rules[i].lasts
      PROVE  Open(Rules[i].trigger, p, Rules[i].lasts)
  <2> DEFINE w == Window(Rules[i].trigger, p)
  <2>1. w \in Windows /\ Rules[i].lasts \in 1 .. Longest /\ Longest \in Nat
    BY WindowsAre, RulesAssumption
  <2>2. age[w] \in 0 .. Longest
    BY <2>1 DEF Inv, TypeOK, EngineTypeOK
  <2>3. age'[w] = IF age[w] < Longest THEN age[w] + 1 ELSE Longest
    BY <2>1 DEF Tick, Aged
  <2> QED BY <1>3, <2>1, <2>2, <2>3 DEF Open
<1>4. StaleIsOld'
  BY <1>1, <1>3 DEF StaleIsOld, Open
<1> QED BY <1>2, <1>4

LEMMA InitNews == Init => PastInv /\ StaleIsOld
BY DEF Init, EngineInit, PastInv, StaleIsOld

LEMMA StepNews == Inv /\ PastInv /\ StaleIsOld /\ [Next]_vars => PastInv' /\ StaleIsOld'
<1> SUFFICES ASSUME Inv, PastInv, StaleIsOld, [Next]_vars PROVE PastInv' /\ StaleIsOld'
  OBVIOUS
<1>1. CASE UNCHANGED engineVars
  BY <1>1, NoNews DEF engineVars, requestVars
<1>2. CASE Tick
  BY <1>2, TickNews
<1>3. ASSUME NEW c \in Clients, Works(c) PROVE PastInv' /\ StaleIsOld'
  <2>1. CASE TakeSlot(c) \/ Resume(c)
    BY <1>1, <2>1 DEF TakeSlot, Resume
  <2>2. CASE Start(c)
    BY <2>2, ArriveNews DEF Start, Request
  <2>3. CASE Pack(c)
    BY <2>3, ArriveNews, TakeNews DEF Pack, Request, End
  <2>4. CASE GitEnds(c) \/ GitFails(c) \/ CallEnds(c)
    BY <2>4, TakeNews DEF GitEnds, GitFails, CallEnds, End
  <2>5. CASE Layer(c)
    BY <2>5, DecideNews, ObserveNews DEF Layer
  <2>6. CASE Serves(c)
    BY <2>6, ServeNews DEF Serves
  <2> QED BY <1>3, <2>1, <2>2, <2>3, <2>4, <2>5, <2>6 DEF Works
<1>4. ASSUME NEW c \in Clients, Fails(c) PROVE PastInv' /\ StaleIsOld'
  BY <1>4, BreakNews, ServeNews DEF Fails
<1>5. ASSUME NEW c \in Clients, NEW what \in ApiCalls, StartCall(c, what)
      PROVE  PastInv' /\ StaleIsOld'
  BY <1>5, ArriveNews DEF StartCall, Request
<1>6. ASSUME NEW c \in Clients, NEW command \in GitCommands, StartGit(c, command)
      PROVE  PastInv' /\ StaleIsOld'
  BY <1>1, <1>6 DEF StartGit
<1>7. CASE UNCHANGED vars
  BY <1>1, <1>7 DEF vars
<1> QED BY <1>2, <1>3, <1>4, <1>5, <1>6, <1>7 DEF Next

\* While a stale window is open, a read is answered with what was there before the write
\* that opened it, never with something younger, in whatever order requests and answers go
\* through the layer.
THEOREM Old == Spec => []StaleIsOld
<1> QED BY InitType, StepType, InitNews, StepNews, PTL DEF Spec

-----------------------------------------------------------------------------
(* Faults that can be reproduced *)

\* What a rule has done to a request was done at its place in the history of its path, and
\* a rule that is yet to look at a request has dealt with the earlier ones only.
PlaceInv ==
  /\ \A e \in drawn \cup fired : e.counter < seen[e.key]
  /\ \A c \in Clients : stage[c] = "deciding" =>
       /\ counter[c] < seen[request[c]]
       /\ \A e \in drawn \cup fired :
            e.key = request[c] /\ e.rule >= rule[c] => e.counter < counter[c]

\* The faults of a rule that came before one in the history of its path.
Before(e) == {d \in fired : d.rule = e.rule /\ d.key = e.key /\ d.counter < e.counter}

\* What Reproducible says of one decision.
Foreseen(e) == e \in fired <=>
  e \in drawn /\ \A n \in Rules[e.rule].each : Cardinality(Before(e)) < n

\* Nothing is decided, and nobody starts to be.
LEMMA NoDecision ==
  ASSUME Inv, PlaceInv, Reproducible, UNCHANGED countVars,
         \A c \in Clients : stage'[c] = "deciding" =>
           /\ stage[c] = "deciding" /\ request'[c] = request[c]
           /\ rule'[c] = rule[c] /\ counter'[c] = counter[c]
  PROVE  PlaceInv' /\ Reproducible'
<1>1. seen' = seen /\ fired' = fired /\ drawn' = drawn
  BY DEF countVars
<1>2. PlaceInv'
  BY <1>1 DEF PlaceInv
<1>3. Reproducible'
  BY <1>1 DEF Reproducible, PathLocal
<1> QED BY <1>2, <1>3

\* The newest of its path comes after all that was decided about it.
LEMMA ArrivePlace ==
  ASSUME Inv, PlaceInv, Reproducible, NEW c \in Clients, NEW k \in Keys, RepoOf(k.path) = c,
         Arrive(c, k)
  PROVE  PlaceInv' /\ Reproducible'
<1> USE DEF Inv, TypeOK, EngineTypeOK
<1>1. fired' = fired /\ drawn' = drawn
  BY DEF Arrive
<1>2. /\ \A l \in Keys : l # k => seen'[l] = seen[l]
      /\ seen'[k] = seen[k] + 1 /\ seen[k] \in Nat
  BY DEF Arrive
<1>3. request'[c] = k /\ counter'[c] = seen[k]
  BY DEF Arrive
<1>4. ASSUME NEW d \in Clients, d # c
      PROVE  /\ stage'[d] = stage[d] /\ request'[d] = request[d]
             /\ rule'[d] = rule[d] /\ counter'[d] = counter[d]
  BY <1>4 DEF Arrive
<1>5. \A e \in drawn \cup fired : e.key \in Keys /\ e.counter \in Nat
  OBVIOUS
<1>6. ASSUME NEW e \in drawn' \cup fired' PROVE e.counter < seen'[e.key]
  <2>1. e.counter < seen[e.key] /\ e.key \in Keys /\ e.counter \in Nat
    BY <1>1, <1>5 DEF PlaceInv
  <2>2. CASE e.key = k
    BY ONLY <1>2, <2>1, <2>2
  <2>3. CASE e.key # k
    BY ONLY <1>2, <2>1, <2>3
  <2> QED BY <2>2, <2>3
<1>7. ASSUME NEW d \in Clients, stage'[d] = "deciding"
      PROVE  /\ counter'[d] < seen'[request'[d]]
             /\ \A e \in drawn' \cup fired' :
                  e.key = request'[d] /\ e.rule >= rule'[d] => e.counter < counter'[d]
  <2>1. CASE d = c
    BY <1>1, <1>2, <1>3, <2>1 DEF PlaceInv
  <2>2. CASE d # c
    <3>1. request[d] \in Keys /\ request[d] # k /\ stage[d] = "deciding"
      BY <1>4, <1>7, <2>2 DEF Asked
    <3>2. request'[d] = request[d] /\ rule'[d] = rule[d] /\ counter'[d] = counter[d]
      BY <1>4, <2>2
    <3>3. seen'[request[d]] = seen[request[d]]
      BY <1>2, <3>1
    <3> QED BY ONLY PlaceInv, <1>1, <3>1, <3>2, <3>3 DEF PlaceInv
  <2> QED BY <2>1, <2>2
<1>8. PlaceInv'
  BY <1>6, <1>7 DEF PlaceInv
<1>9. Reproducible'
  BY ONLY Reproducible, <1>1 DEF Reproducible, PathLocal
<1> QED BY <1>8, <1>9

\* What a decision leaves in the log.
LEMMA DecideDoes ==
  ASSUME Inv, NEW c \in Clients, NEW i \in DOMAIN Rules, NEW lucky \in BOOLEAN,
         Decide(c, i, lucky), NEW e, e = [rule |-> i, key |-> request[c], counter |-> counter[c]]
  PROVE  /\ seen' = seen /\ request' = request /\ counter' = counter
         /\ drawn' = drawn \/ drawn' = drawn \cup {e}
         /\ fired' = fired \/ fired' = fired \cup {e}
         /\ stage[c] = "deciding" /\ i >= rule[c]
         /\ stage'[c] = "deciding" => rule'[c] = i + 1
         /\ \A d \in Clients : d # c => stage'[d] = stage[d] /\ rule'[d] = rule[d]
BY DEF Decide, Ahead, Inv, TypeOK, EngineTypeOK

LEMMA DecidePlace ==
  ASSUME Inv, PlaceInv, NEW c \in Clients, NEW i \in DOMAIN Rules, NEW lucky \in BOOLEAN,
         Decide(c, i, lucky)
  PROVE  PlaceInv'
<1>0. PICK e : e = [rule |-> i, key |-> request[c], counter |-> counter[c]]
  OBVIOUS
<1>1. /\ seen' = seen /\ request' = request /\ counter' = counter
      /\ drawn' \cup fired' \subseteq (drawn \cup fired) \cup {e}
      /\ stage[c] = "deciding" /\ i >= rule[c]
      /\ stage'[c] = "deciding" => rule'[c] = i + 1
      /\ \A d \in Clients : d # c => stage'[d] = stage[d] /\ rule'[d] = rule[d]
  BY <1>0, DecideDoes
<1>2. e.rule = i /\ e.key = request[c] /\ e.counter = counter[c] /\ i \in Nat
  BY <1>0, RulesAre
<1>3. \A d \in drawn \cup fired : d.rule \in Nat
  <2>1. drawn \cup fired \subseteq [rule : DOMAIN Rules, key : Keys, counter : Nat]
    BY DEF Inv, TypeOK, EngineTypeOK
  <2> QED BY ONLY RulesAre, <2>1
<1>4. rule[c] \in Nat
  BY RulesAssumption DEF Inv, TypeOK, EngineTypeOK
<1>5. \A d \in drawn' \cup fired' : d.counter < seen'[d.key]
  BY <1>1, <1>2 DEF PlaceInv
<1>6. ASSUME NEW d \in Clients, stage'[d] = "deciding", NEW f \in drawn' \cup fired',
             f.key = request[d], f.rule >= rule'[d]
      PROVE  f.counter < counter[d]
  <2>1. CASE d = c
    BY <1>1, <1>2, <1>3, <1>4, <1>6, <2>1 DEF PlaceInv
  <2>2. CASE d # c
    <3>1. f # e
      BY <1>1, <1>2, <1>6, <2>2 DEF Inv, Asked
    <3> QED BY <1>1, <1>6, <2>2, <3>1 DEF PlaceInv
  <2> QED BY <2>1, <2>2
<1>7. \A d \in Clients : stage'[d] = "deciding" => counter'[d] < seen'[request'[d]]
  BY <1>1 DEF PlaceInv
<1> QED BY <1>1, <1>5, <1>6, <1>7 DEF PlaceInv

\* A decision is the one that the dice and the faults before it ask for, and it changes
\* nothing about the earlier ones.
LEMMA DecideForeseen ==
  ASSUME Inv, PlaceInv, Reproducible, NEW c \in Clients, NEW i \in DOMAIN Rules,
         NEW lucky \in BOOLEAN, Decide(c, i, lucky)
  PROVE  Reproducible'
<1>0. PICK e : e = [rule |-> i, key |-> request[c], counter |-> counter[c]]
  OBVIOUS
<1>1. /\ drawn' = drawn \/ drawn' = drawn \cup {e}
      /\ fired' = fired \/ fired' = fired \cup {e}
      /\ stage[c] = "deciding" /\ i >= rule[c]
  BY <1>0, DecideDoes
<1>2. e.rule = i /\ e.key = request[c] /\ e.counter = counter[c]
  BY <1>0
<1>3. \A f \in drawn \cup fired : f.rule = i /\ f.key = request[c] => f.counter < counter[c]
  BY <1>1 DEF PlaceInv
<1>4. counter[c] \in Nat /\ \A f \in drawn \cup fired : f.counter \in Nat
  BY DEF Inv, TypeOK, EngineTypeOK
<1>5. e \notin drawn \cup fired
  BY <1>2, <1>3, <1>4
<1> SUFFICES ASSUME NEW f \in drawn' \cup fired', f.rule \in PathLocal
             PROVE  Foreseen(f)'
  BY DEF Reproducible, Foreseen, Before, PathLocal
<1>6. CASE f # e
  <2>1. f \in drawn \cup fired /\ (f \in fired' <=> f \in fired) /\ (f \in drawn' <=> f \in drawn)
    BY <1>1, <1>6
  <2>2. Foreseen(f)
    BY <2>1 DEF Reproducible, Foreseen, Before
  <2>3. ~(e.rule = f.rule /\ e.key = f.key /\ e.counter < f.counter)
    BY <1>2, <1>3, <1>4, <2>1
  <2>4. Before(f)' = Before(f)
    BY <1>1, <2>3 DEF Before
  <2> QED BY <2>1, <2>2, <2>4 DEF Foreseen
<1>7. CASE f = e
  <2>1. i = f.rule
    BY <1>2, <1>7
  <2>2. Before(e)' = Fired(i, request[c])
    <3>1. Before(e)' = {d \in fired : d.rule = i /\ d.key = request[c] /\ d.counter < counter[c]}
      BY <1>1, <1>2, <1>4 DEF Before
    <3> QED BY <3>1, <1>3 DEF Fired
  <2>3. /\ Rules[i].total = {} /\ Rules[i].first = {} /\ Rules[i].nth = {}
        /\ Rules[i].fault # "stale" /\ i \in 1 .. i /\ Rules[i].chance
    BY <2>1, RulesAre DEF PathLocal, Stale
  <2>4. /\ drawn' = IF lucky THEN drawn \cup {e} ELSE drawn
        /\ fired' = IF WhenHolds(i, request[c], lucky) THEN fired \cup {e} ELSE fired
    BY <1>0, <2>3 DEF Decide
  <2>5. WhenHolds(i, request[c], lucky) <=>
          lucky /\ \A n \in Rules[i].each : Cardinality(Fired(i, request[c])) < n
    BY <2>1, <2>3 DEF WhenHolds
  <2>6. (e \in drawn' <=> lucky) /\ (e \in fired' <=> WhenHolds(i, request[c], lucky))
    BY <1>5, <2>4
  <2> QED BY <1>2, <1>7, <2>2, <2>5, <2>6 DEF Foreseen
<1> QED BY <1>6, <1>7

LEMMA InitPlace == Init => PlaceInv /\ Reproducible
BY DEF Init, EngineInit, PlaceInv, Reproducible

LEMMA StepPlace ==
  Inv /\ PlaceInv /\ Reproducible /\ [Next]_vars => PlaceInv' /\ Reproducible'
<1> SUFFICES ASSUME Inv, PlaceInv, Reproducible, [Next]_vars PROVE PlaceInv' /\ Reproducible'
  OBVIOUS
<1>1. CASE UNCHANGED <<countVars, requestVars>>
  BY <1>1, NoDecision DEF requestVars
<1>2. ASSUME NEW c \in Clients, Take(c) PROVE PlaceInv' /\ Reproducible'
  BY <1>2, NoDecision DEF Take, Inv, TypeOK, EngineTypeOK
<1>3. ASSUME NEW c \in Clients, Works(c) PROVE PlaceInv' /\ Reproducible'
  <2>1. CASE TakeSlot(c) \/ Resume(c)
    BY <1>1, <2>1 DEF TakeSlot, Resume, engineVars
  <2>2. CASE Start(c)
    BY <2>2, RequestAsks, ArrivePlace DEF Start, Request
  <2>3. CASE Pack(c)
    BY <1>2, <2>3, RequestAsks, ArrivePlace DEF Pack, Request, End
  <2>4. CASE GitEnds(c) \/ GitFails(c) \/ CallEnds(c)
    BY <1>2, <2>4 DEF GitEnds, GitFails, CallEnds, End
  <2>5. CASE Layer(c)
    <3>1. CASE Observe(c)
      BY <3>1, NoDecision DEF Observe, Inv, TypeOK, EngineTypeOK
    <3> QED BY <2>5, <3>1, DecidePlace, DecideForeseen DEF Layer
  <2>6. CASE Serves(c)
    BY <2>6, NoDecision DEF Serves, Serve, Inv, TypeOK, EngineTypeOK
  <2> QED BY <1>3, <2>1, <2>2, <2>3, <2>4, <2>5, <2>6 DEF Works
<1>4. ASSUME NEW c \in Clients, Fails(c) PROVE PlaceInv' /\ Reproducible'
  BY <1>4, NoDecision DEF Fails, Break, Serve, Inv, TypeOK, EngineTypeOK
<1>5. ASSUME NEW c \in Clients, NEW what \in ApiCalls, StartCall(c, what)
      PROVE  PlaceInv' /\ Reproducible'
  BY <1>5, RequestAsks, ArrivePlace DEF StartCall, Request, ApiCalls
<1>6. ASSUME NEW c \in Clients, NEW command \in GitCommands, StartGit(c, command)
      PROVE  PlaceInv' /\ Reproducible'
  BY <1>1, <1>6 DEF StartGit, engineVars
<1>7. CASE Tick \/ UNCHANGED vars
  BY <1>1, <1>7 DEF Tick, vars, engineVars
<1> QED BY <1>3, <1>4, <1>5, <1>6, <1>7 DEF Next

\* Which requests a rule faults, as long as neither it nor a rule before it counts over
\* all paths, follows from where the dice come up in the history of each path: however
\* many requests of other paths are decided on side by side, and in whatever order.
THEOREM Replays == Spec => []Reproducible
<1> QED BY InitType, StepType, InitPlace, StepPlace, PTL DEF Spec

-----------------------------------------------------------------------------
(* Git commands outlast what is injected *)

\* What git asks for.
RefsKey(c) == [method |-> "GET", path |-> <<c, "info/refs">>]

PackPart(c) == IF op[c] = "ls-remote" THEN "git-upload-pack" ELSE "git-receive-pack"

PackKey(c) == [method |-> "POST", path |-> <<c, PackPart(c)>>]

\* What the rules have broken of it so far, in this command and earlier ones.
Broken(c) == {e \in fired : e.key \in {RefsKey(c), PackKey(c)} /\ Transient(Rules[e.rule].fault)}

\* No rule fires more often than its caps allow, nor where it does not look.
CapInv ==
  /\ IsFiniteSet(fired)
  /\ \A e \in fired : Matches(e.rule, e.key)
  /\ \A i \in DOMAIN Rules :
       /\ \A n \in Rules[i].total : Cardinality({e \in fired : e.rule = i}) <= n
       /\ \A k \in Keys : \A n \in Rules[i].each : Cardinality(Fired(i, k)) <= n

\* Every failed attempt has a break of its own; and where nobody else deletes, a ref that
\* was seen is there until its deletion is answered.
GoesWell(c) ==
  /\ ended[c] # "failed"
  /\ stage[c] = "answered" => reply[c].how = "ok"
  /\ step[c] \in {"idle", "slot", "turn", "pausing"} => stage[c] = "none"
  /\ step[c] \in {"idle", "asking"} => op[c] \notin GitCommands /\ attempt[c] = 1
  /\ step[c] = "refs" => request[c] = RefsKey(c)
  /\ step[c] = "pack" => request[c] = PackKey(c)
  /\ attempt[c] <= Cardinality(Broken(c)) + 1
  /\ step[c] \in {"refs", "pack"} /\ stage[c] = "replied" /\ reply[c].how # "ok" =>
       Transient(reply[c].how) /\ attempt[c] <= Cardinality(Broken(c))
  /\ op[c] = "delete" =>
       c \in ref \/ (step[c] = "pack" /\ stage[c] \in {"answered", "replied"} /\ reply[c].how = "ok")

GitInv == \A c \in Clients : GoesWell(c)

UndisturbedGit == faults = 0 => GitInv

LEMMA InjectionsAreFinite ==
  ASSUME NEW pack
  PROVE  IsFiniteSet(Injections(pack)) /\ Cardinality(Injections(pack)) \in Nat
<1>1. IsFiniteSet(DOMAIN Rules) /\ IsFiniteSet(1 .. Attempts)
  BY RulesAssumption, LabAssumption, FS_Interval
<1>2. IsFiniteSet({"info/refs", pack})
  <2>1. {"info/refs", pack} = {"info/refs"} \cup {pack}
    OBVIOUS
  <2>2. IsFiniteSet({"info/refs"})
    BY FS_Singleton
  <2> QED BY <2>1, <2>2, FS_AddElement
<1>3. IsFiniteSet({"info/refs", pack} \X (1 .. Attempts))
  BY <1>1, <1>2, FS_Product
<1>4. IsFiniteSet((DOMAIN Rules) \X ({"info/refs", pack} \X (1 .. Attempts)))
  BY <1>1, <1>3, FS_Product
<1>5. Injections(pack) \in SUBSET ((DOMAIN Rules) \X ({"info/refs", pack} \X (1 .. Attempts)))
  BY DEF Injections
<1> QED BY <1>4, <1>5, FS_Subset, FS_CardinalityType

\* Of what is outlasted, none is allowed at every attempt.
LEMMA NotAlways ==
  ASSUME NEW pack, Cardinality(Injections(pack)) < Attempts, NEW i, NEW part
  PROVE  \E n \in 1 .. Attempts : <<i, <<part, n>>>> \notin Injections(pack)
<1> SUFFICES ASSUME \A n \in 1 .. Attempts : <<i, <<part, n>>>> \in Injections(pack)
             PROVE  FALSE
  OBVIOUS
<1> DEFINE f == [n \in 1 .. Attempts |-> <<i, <<part, n>>>>]
<1>1. f \in [1 .. Attempts -> Injections(pack)]
  OBVIOUS
<1>2. \A m, n \in DOMAIN f : f[m] = f[n] => m = n
  OBVIOUS
<1>3. f \in Injection(1 .. Attempts, Injections(pack))
  BY <1>1, <1>2 DEF Injection, IsInjective
<1>4. Cardinality(1 .. Attempts) <= Cardinality(Injections(pack))
  BY <1>3, InjectionsAreFinite, FS_Injection
<1>5. Cardinality(1 .. Attempts) = Attempts
  BY LabAssumption, FS_Interval
<1> QED BY <1>4, <1>5, InjectionsAreFinite, LabAssumption

\* The place of a break among those of the same rule and the same path.
Place(e) == Cardinality(Before(e)) + 1

LEMMA PlaceIsCapped ==
  ASSUME Inv, CapInv, NEW e \in fired
  PROVE  /\ Place(e) \in Nat \ {0} /\ IsFiniteSet(Before(e))
         /\ Cardinality(Before(e)) \in Nat
         /\ \A n \in Rules[e.rule].total \cup Rules[e.rule].each : Place(e) <= n
<1>1. e.rule \in DOMAIN Rules /\ e.key \in Keys /\ e.counter \in Nat
  BY DEF Inv, TypeOK, EngineTypeOK
<1>2. Rules[e.rule].total \subseteq Nat /\ Rules[e.rule].each \subseteq Nat
  BY <1>1, RulesAre DEF RuleType, Optional
<1>3. IsFiniteSet(Before(e)) /\ Cardinality(Before(e)) \in Nat
  <2>1. Before(e) \in SUBSET fired
    BY DEF Before
  <2> QED BY <2>1, FS_Subset, FS_CardinalityType DEF CapInv
<1>4. Cardinality(Before(e) \cup {e}) = Place(e)
  <2>1. e \notin Before(e)
    BY <1>1 DEF Before
  <2> QED BY <1>3, <2>1, FS_AddElement DEF Place
<1>5. ASSUME NEW S \in SUBSET fired, Before(e) \cup {e} \subseteq S
      PROVE  Place(e) <= Cardinality(S) /\ Cardinality(S) \in Nat
  <2>1. IsFiniteSet(S)
    BY FS_Subset DEF CapInv
  <2> QED BY <1>4, <1>5, <2>1, FS_Subset, FS_CardinalityType
<1>6. Place(e) <= Cardinality(Fired(e.rule, e.key)) /\ Cardinality(Fired(e.rule, e.key)) \in Nat
  BY <1>5 DEF Fired, Before
<1>7. LET S == {d \in fired : d.rule = e.rule}
      IN  Place(e) <= Cardinality(S) /\ Cardinality(S) \in Nat
  BY <1>5 DEF Before
<1>8. Place(e) \in Nat \ {0}
  BY <1>3 DEF Place
<1>9. \A n \in Rules[e.rule].each : Cardinality(Fired(e.rule, e.key)) <= n
  BY <1>1 DEF CapInv
<1>10. \A n \in Rules[e.rule].total : Cardinality({d \in fired : d.rule = e.rule}) <= n
  BY <1>1 DEF CapInv
<1> QED BY <1>2, <1>3, <1>6, <1>7, <1>8, <1>9, <1>10

\* Two breaks of the same rule and the same path have different places.
LEMMA PlacesDiffer ==
  ASSUME Inv, CapInv, NEW d \in fired, NEW e \in fired,
         d.rule = e.rule, d.key = e.key, Place(d) = Place(e)
  PROVE  d = e
<1>1. ASSUME NEW x \in fired, NEW y \in fired, x.rule = y.rule, x.key = y.key,
             x.counter < y.counter
      PROVE  Place(x) < Place(y)
  <2>1. x.counter \in Nat /\ y.counter \in Nat /\ \A z \in fired : z.counter \in Nat
    BY DEF Inv, TypeOK, EngineTypeOK
  <2>2. Before(x) \cup {x} \in SUBSET Before(y) /\ x \notin Before(x)
    BY <1>1, <2>1 DEF Before
  <2>3. Cardinality(Before(x) \cup {x}) = Cardinality(Before(x)) + 1
    BY <2>2, PlaceIsCapped, FS_AddElement
  <2>4. Cardinality(Before(x) \cup {x}) <= Cardinality(Before(y))
    BY <2>2, PlaceIsCapped, FS_Subset
  <2> QED BY <2>3, <2>4, PlaceIsCapped DEF Place
<1>2. d.counter \in Nat /\ e.counter \in Nat
  BY DEF Inv, TypeOK, EngineTypeOK
<1>3. d.counter = e.counter
  <2>1. ~(d.counter < e.counter)
    BY <1>1, PlaceIsCapped
  <2>2. ~(e.counter < d.counter)
    BY <1>1, PlaceIsCapped
  <2> QED BY <1>2, <2>1, <2>2
<1>4. /\ d = [rule |-> d.rule, key |-> d.key, counter |-> d.counter]
      /\ e = [rule |-> e.rule, key |-> e.key, counter |-> e.counter]
  BY DEF Inv, TypeOK, EngineTypeOK
<1> QED BY <1>3, <1>4

\* What is broken of a git command is less than it makes attempts.
LEMMA AttemptsOutlast ==
  ASSUME Inv, CapInv, Outlasted, NEW c \in Clients
  PROVE  IsFiniteSet(Broken(c)) /\ Cardinality(Broken(c)) \in Nat
         /\ Cardinality(Broken(c)) < Attempts
<1> DEFINE pack == PackPart(c)
           part(e) == PartOf(e.key.path)
           f == [e \in Broken(c) |-> <<e.rule, <<part(e), Place(e)>>>>]
<1>1. Cardinality(Injections(pack)) < Attempts
  BY DEF Outlasted, PackPart
<1>2. pack # "info/refs"
  BY DEF PackPart
<1>3. ASSUME NEW e \in Broken(c)
      PROVE  /\ e \in fired /\ e.rule \in DOMAIN Rules /\ Transient(Rules[e.rule].fault)
             /\ \/ part(e) = "info/refs" /\ e.key = RefsKey(c)
                \/ part(e) = pack /\ e.key = PackKey(c)
             /\ GitMethod(part(e)) = e.key.method
             /\ GitMethod(part(e)) \in Rules[e.rule].methods /\ part(e) \in Rules[e.rule].parts
  <2>1. /\ e \in fired /\ e.rule \in DOMAIN Rules /\ Transient(Rules[e.rule].fault)
        /\ e.key \in {RefsKey(c), PackKey(c)}
    BY DEF Broken, Inv, TypeOK, EngineTypeOK
  <2>2. PartOf(RefsKey(c).path) = "info/refs" /\ RefsKey(c).method = "GET"
    BY DEF RefsKey, PartOf
  <2>3. PartOf(PackKey(c).path) = pack /\ PackKey(c).method = "POST"
    BY DEF PackKey, PartOf
  <2>4. GitMethod(part(e)) = e.key.method
    BY <1>2, <2>1, <2>2, <2>3 DEF GitMethod
  <2>5. Matches(e.rule, e.key)
    BY <2>1 DEF CapInv
  <2> QED BY <2>1, <2>2, <2>3, <2>4, <2>5 DEF Matches
<1>4. ASSUME NEW e \in Broken(c) PROVE f[e] \in Injections(pack)
  <2>1. \A n \in Rules[e.rule].total \cup Rules[e.rule].each : Place(e) <= n
    BY <1>3, PlaceIsCapped
  <2>2. Place(e) \in Nat \ {0}
    BY <1>3, PlaceIsCapped
  <2>3. Rules[e.rule].total \subseteq Nat /\ Rules[e.rule].each \subseteq Nat
    BY <1>3, RulesAre DEF RuleType, Optional
  <2>4. ASSUME NEW n \in 1 .. Attempts, n <= Place(e)
        PROVE  <<e.rule, <<part(e), n>>>> \in Injections(pack)
    <3>1. \A m \in Rules[e.rule].total \cup Rules[e.rule].each : n <= m
      BY <2>1, <2>2, <2>3, <2>4
    <3>2. part(e) \in {"info/refs", pack}
      BY <1>3
    <3> QED BY <1>3, <3>1, <3>2 DEF Injections
  <2>5. Place(e) <= Attempts
    <3> SUFFICES ASSUME ~(Place(e) <= Attempts) PROVE FALSE
      OBVIOUS
    <3>1. \A n \in 1 .. Attempts : n <= Place(e)
      BY <2>2, LabAssumption
    <3>2. \E n \in 1 .. Attempts : <<e.rule, <<part(e), n>>>> \notin Injections(pack)
      BY <1>1, NotAlways
    <3> QED BY <2>4, <3>1, <3>2
  <2>6. Place(e) \in 1 .. Attempts /\ Place(e) <= Place(e)
    BY <2>2, <2>5, LabAssumption
  <2> QED BY <2>4, <2>6
<1>5. ASSUME NEW d \in Broken(c), NEW e \in Broken(c), f[d] = f[e] PROVE d = e
  <2>1. d.rule = e.rule /\ part(d) = part(e) /\ Place(d) = Place(e)
    BY <1>5
  <2>2. d.key = e.key
    BY <1>2, <1>3, <2>1
  <2> QED BY <1>3, <2>1, <2>2, PlacesDiffer
<1>6. f \in Injection(Broken(c), Injections(pack))
  <2>1. f \in [Broken(c) -> Injections(pack)]
    BY <1>4
  <2>2. \A d, e \in DOMAIN f : f[d] = f[e] => d = e
    BY <1>5
  <2> QED BY <2>1, <2>2 DEF Injection, IsInjective
<1>7. IsFiniteSet(Broken(c)) /\ Cardinality(Broken(c)) <= Cardinality(Injections(pack))
  BY <1>6, InjectionsAreFinite, FS_Injection
<1>8. Cardinality(Broken(c)) \in Nat
  BY <1>7, FS_CardinalityType
<1> QED BY <1>1, <1>7, <1>8, InjectionsAreFinite, LabAssumption

-----------------------------------------------------------------------------

\* A step that decides nothing.
LEMMA CapKept ==
  ASSUME CapInv, fired' = fired
  PROVE  CapInv'
BY DEF CapInv, Fired, Matches

LEMMA DecideCap ==
  ASSUME Inv, CapInv, NEW c \in Clients, NEW i \in DOMAIN Rules, NEW lucky \in BOOLEAN,
         Decide(c, i, lucky)
  PROVE  CapInv'
<1>0. PICK e : e = [rule |-> i, key |-> request[c], counter |-> counter[c]]
  OBVIOUS
<1>1. e.rule = i /\ e.key = request[c] /\ Matches(i, request[c])
  BY <1>0 DEF Decide, Ahead
<1>2. CASE fired' = fired
  BY <1>2, CapKept
<1>3. CASE fired' # fired
  <2>1. fired' = fired \cup {e} /\ WhenHolds(i, request[c], lucky)
    BY <1>0, <1>3 DEF Decide
  <2>2. IsFiniteSet(fired')
    BY <2>1, FS_AddElement DEF CapInv
  <2>3. \A f \in fired' : Matches(f.rule, f.key)
    BY <1>1, <2>1 DEF CapInv
  <2>4. ASSUME NEW S, IsFiniteSet(S), NEW n \in Nat, Cardinality(S) < n
        PROVE  Cardinality(S \cup {e}) <= n
    <3>1. Cardinality(S) \in Nat
      BY <2>4, FS_CardinalityType
    <3>2. Cardinality(S \cup {e}) = IF e \in S THEN Cardinality(S) ELSE Cardinality(S) + 1
      BY <2>4, FS_AddElement
    <3> QED BY <2>4, <3>1, <3>2
  <2>5. ASSUME NEW j \in DOMAIN Rules, NEW n \in Rules[j].total
        PROVE  Cardinality({f \in fired' : f.rule = j}) <= n
    <3> DEFINE S == {f \in fired : f.rule = j}
    <3>1. IsFiniteSet(S)
      <4>1. S \in SUBSET fired
        OBVIOUS
      <4> QED BY <4>1, FS_Subset DEF CapInv
    <3>2. n \in Nat /\ Cardinality(S) <= n
      BY RulesAre DEF RuleType, Optional, CapInv
    <3>3. CASE j = i
      <4>1. {f \in fired' : f.rule = j} = S \cup {e}
        BY <1>1, <2>1, <3>3
      <4>2. Cardinality(S) < n
        BY <2>1, <3>3 DEF WhenHolds
      <4> QED BY <2>4, <3>1, <3>2, <4>1, <4>2
    <3>4. CASE j # i
      <4>1. {f \in fired' : f.rule = j} = S
        BY <1>1, <2>1, <3>4
      <4> QED BY <3>2, <4>1
    <3> QED BY <3>3, <3>4
  <2>6. ASSUME NEW j \in DOMAIN Rules, NEW k \in Keys, NEW n \in Rules[j].each
        PROVE  Cardinality(Fired(j, k)') <= n
    <3>1. IsFiniteSet(Fired(j, k))
      <4>1. Fired(j, k) \in SUBSET fired
        BY DEF Fired
      <4> QED BY <4>1, FS_Subset DEF CapInv
    <3>2. n \in Nat /\ Cardinality(Fired(j, k)) <= n
      BY RulesAre DEF RuleType, Optional, CapInv
    <3>3. CASE j = i /\ k = request[c]
      <4>1. Fired(j, k)' = Fired(j, k) \cup {e}
        BY <1>1, <2>1, <3>3 DEF Fired
      <4>2. Cardinality(Fired(j, k)) < n
        BY <2>1, <3>3 DEF WhenHolds
      <4> QED BY <2>4, <3>1, <3>2, <4>1, <4>2
    <3>4. CASE ~(j = i /\ k = request[c])
      <4>1. Fired(j, k)' = Fired(j, k)
        BY <1>1, <2>1, <3>4 DEF Fired
      <4> QED BY <3>2, <4>1
    <3> QED BY <3>3, <3>4
  <2> QED BY <2>2, <2>3, <2>5, <2>6 DEF CapInv, Matches
<1> QED BY <1>2, <1>3

LEMMA InitCap == Init => CapInv
<1> SUFFICES ASSUME Init PROVE CapInv
  OBVIOUS
<1>1. fired = {}
  BY DEF Init, EngineInit
<1>2. IsFiniteSet({}) /\ Cardinality({}) = 0
  BY FS_EmptySet
<1>3. /\ \A i \in DOMAIN Rules : {e \in fired : e.rule = i} = {}
      /\ \A i \in DOMAIN Rules, k \in Keys : Fired(i, k) = {}
  BY <1>1 DEF Fired
<1>4. \A i \in DOMAIN Rules : Rules[i].total \subseteq Nat /\ Rules[i].each \subseteq Nat
  BY RulesAre DEF RuleType, Optional
<1>5. ASSUME NEW i \in DOMAIN Rules, NEW n \in Rules[i].total
      PROVE  Cardinality({e \in fired : e.rule = i}) <= n
  <2>1. {e \in fired : e.rule = i} = {} /\ n \in Nat
    BY <1>3, <1>4
  <2> QED BY <1>2, <2>1
<1>6. ASSUME NEW i \in DOMAIN Rules, NEW k \in Keys, NEW n \in Rules[i].each
      PROVE  Cardinality(Fired(i, k)) <= n
  <2>1. Fired(i, k) = {} /\ n \in Nat
    BY <1>3, <1>4
  <2> QED BY <1>2, <2>1
<1> QED BY <1>1, <1>2, <1>5, <1>6 DEF CapInv

\* Rules fire in decisions alone.
LEMMA OnlyDecisionsFire ==
  ASSUME [Next]_vars
  PROVE  \/ fired' = fired
         \/ \E c \in Clients, i \in DOMAIN Rules, lucky \in BOOLEAN : Decide(c, i, lucky)
<1>1. CASE Tick \/ UNCHANGED vars
  BY <1>1 DEF Tick, vars, engineVars, countVars
<1>2. ASSUME NEW c \in Clients, Works(c)
      PROVE  fired' = fired \/ \E i \in DOMAIN Rules, lucky \in BOOLEAN : Decide(c, i, lucky)
  <2>1. CASE TakeSlot(c) \/ Resume(c)
    BY <2>1 DEF TakeSlot, Resume, engineVars, countVars
  <2>2. CASE Start(c)
    BY <2>2 DEF Start, Request, Arrive
  <2>3. CASE Pack(c)
    BY <2>3 DEF Pack, Request, Arrive, End, Take, countVars
  <2>4. CASE GitEnds(c) \/ GitFails(c) \/ CallEnds(c)
    BY <2>4 DEF GitEnds, GitFails, CallEnds, End, Take, countVars
  <2>5. CASE Layer(c)
    BY <2>5 DEF Layer, Observe, countVars
  <2>6. CASE Serves(c)
    BY <2>6 DEF Serves, Serve, countVars
  <2> QED BY <1>2, <2>1, <2>2, <2>3, <2>4, <2>5, <2>6 DEF Works
<1>3. ASSUME NEW c \in Clients, Fails(c) PROVE fired' = fired
  BY <1>3 DEF Fails, Break, Serve, countVars
<1>4. ASSUME NEW c \in Clients, NEW what, StartCall(c, what) PROVE fired' = fired
  BY <1>4 DEF StartCall, Request, Arrive
<1>5. ASSUME NEW c \in Clients, NEW command, StartGit(c, command) PROVE fired' = fired
  BY <1>5 DEF StartGit, engineVars, countVars
<1> QED BY <1>1, <1>2, <1>3, <1>4, <1>5 DEF Next

LEMMA StepCap == Inv /\ CapInv /\ [Next]_vars => CapInv'
BY OnlyDecisionsFire, CapKept, DecideCap

-----------------------------------------------------------------------------

\* A task that does nothing, while others do.
Rests(c) ==
  /\ op'[c] = op[c] /\ step'[c] = step[c] /\ attempt'[c] = attempt[c] /\ ended'[c] = ended[c]
  /\ stage'[c] = stage[c] /\ request'[c] = request[c] /\ reply'[c] = reply[c]
  /\ c \in ref' <=> c \in ref

\* What is broken stays in the log.
LEMMA BrokenStays ==
  ASSUME CapInv', fired \subseteq fired', NEW c, op'[c] = op[c]
  PROVE  /\ Broken(c) \subseteq Broken(c)' /\ IsFiniteSet(Broken(c)')
         /\ Cardinality(Broken(c)) \in Nat /\ Cardinality(Broken(c)') \in Nat
         /\ Cardinality(Broken(c)) <= Cardinality(Broken(c)')
<1>1. Broken(c) \in SUBSET Broken(c)'
  BY DEF Broken, PackKey, PackPart, RefsKey
<1>2. IsFiniteSet(Broken(c)')
  <2>1. Broken(c)' \in SUBSET fired'
    BY DEF Broken
  <2> QED BY <2>1, FS_Subset DEF CapInv
<1> QED BY <1>1, <1>2, FS_Subset, FS_CardinalityType

LEMMA RestIsWell ==
  ASSUME Inv, CapInv', fired \subseteq fired', NEW c \in Clients, Rests(c), GoesWell(c)
  PROVE  GoesWell(c)'
<1>1. /\ Cardinality(Broken(c)) \in Nat /\ Cardinality(Broken(c)') \in Nat
      /\ Cardinality(Broken(c)) <= Cardinality(Broken(c)')
  BY BrokenStays DEF Rests
<1>2. attempt[c] \in Nat /\ attempt'[c] = attempt[c]
  BY LabAssumption DEF Inv, TypeOK, Rests
<1>3. attempt[c] <= Cardinality(Broken(c)) + 1 => attempt'[c] <= Cardinality(Broken(c)') + 1
  BY <1>1, <1>2
<1>4. attempt[c] <= Cardinality(Broken(c)) => attempt'[c] <= Cardinality(Broken(c)')
  BY <1>1, <1>2
<1>5. RefsKey(c)' = RefsKey(c) /\ PackKey(c)' = PackKey(c)
  BY DEF RefsKey, PackKey, PackPart, Rests
<1> QED BY <1>3, <1>4, <1>5 DEF GoesWell, Rests, Transient

\* A task that is served or asks goes on as its step says.
LEMMA OneGoesOn ==
  ASSUME Inv, CapInv', fired \subseteq fired', GitInv, NEW c \in Clients, GoesWell(c)',
         \A d \in Clients \ {c} : Rests(d)
  PROVE  GitInv'
BY RestIsWell DEF GitInv

\* One is allowed one attempt whatever is broken.
LEMMA FirstIsFree ==
  ASSUME CapInv', NEW c
  PROVE  Cardinality(Broken(c)') \in Nat /\ 1 <= Cardinality(Broken(c)') + 1
<1>1. Broken(c)' \in SUBSET fired'
  BY DEF Broken
<1>2. Cardinality(Broken(c)') \in Nat
  BY <1>1, FS_Subset, FS_CardinalityType DEF CapInv
<1> QED BY <1>2

LEMMA EndIsWell ==
  ASSUME Inv, CapInv', fired \subseteq fired', GitInv, NEW c \in Clients, NEW how, how # "failed",
         End(c, how)
  PROVE  GitInv'
<1>1. /\ op'[c] = "none" /\ step'[c] = "idle" /\ attempt'[c] = 1 /\ ended'[c] = how
      /\ stage'[c] = "none"
  BY DEF End, Take, Goto, Inv, TypeOK, EngineTypeOK
<1>2. \A d \in Clients \ {c} : Rests(d)
  BY DEF End, Take, Goto, Inv, TypeOK, EngineTypeOK, Rests
<1>3. GoesWell(c)'
  BY <1>1, FirstIsFree DEF GoesWell, GitCommands
<1> QED BY <1>2, <1>3, OneGoesOn

\* What a task does of itself.
LEMMA TaskIsWell ==
  ASSUME Inv, CapInv, CapInv', fired \subseteq fired', GitInv, Outlasted, NEW c \in Clients,
         \/ \E what \in ApiCalls : StartCall(c, what)
         \/ \E command \in GitCommands : StartGit(c, command)
         \/ TakeSlot(c) \/ Start(c) \/ Pack(c) \/ GitEnds(c) \/ GitFails(c) \/ Resume(c)
         \/ CallEnds(c)
  PROVE  GitInv'
<1>b. Cardinality(Broken(c)) \in Nat /\ Cardinality(Broken(c)) < Attempts
  BY AttemptsOutlast
<1> USE DEF Inv, TypeOK, EngineTypeOK
<1>0. GoesWell(c)
  BY DEF GitInv
<1>1. ASSUME NEW what \in ApiCalls, StartCall(c, what) PROVE GitInv'
  <2>1. /\ op'[c] = what /\ step'[c] = "asking" /\ attempt'[c] = 1 /\ ended'[c] = "none"
        /\ stage'[c] = "deciding"
    BY <1>0, <1>1 DEF StartCall, Begin, Goto, Request, Arrive, GoesWell
  <2>2. \A d \in Clients \ {c} : Rests(d)
    BY <1>1 DEF StartCall, Begin, Goto, Request, Arrive, Rests
  <2>3. GoesWell(c)'
    BY <2>1, FirstIsFree DEF GoesWell, GitCommands, ApiCalls
  <2> QED BY <2>2, <2>3, OneGoesOn
<1>2. ASSUME NEW command \in GitCommands, StartGit(c, command) PROVE GitInv'
  <2>1. /\ op'[c] = command /\ step'[c] = "slot" /\ attempt'[c] = 1 /\ ended'[c] = "none"
        /\ stage'[c] = "none" /\ (command = "delete" => c \in ref')
    BY <1>0, <1>2 DEF StartGit, Begin, Goto, GoesWell, engineVars, requestVars
  <2>2. \A d \in Clients \ {c} : Rests(d)
    BY <1>2 DEF StartGit, Begin, Goto, Rests, engineVars, requestVars
  <2>3. GoesWell(c)'
    BY <2>1, FirstIsFree DEF GoesWell
  <2> QED BY <2>2, <2>3, OneGoesOn
<1>a. ASSUME op'[c] = op[c], attempt'[c] = attempt[c]
      PROVE  /\ attempt'[c] <= Cardinality(Broken(c)') + 1
             /\ RefsKey(c)' = RefsKey(c) /\ PackKey(c)' = PackKey(c)
  <2>1. /\ Cardinality(Broken(c)) \in Nat /\ Cardinality(Broken(c)') \in Nat
        /\ Cardinality(Broken(c)) <= Cardinality(Broken(c)')
    BY <1>a, BrokenStays
  <2>2. attempt[c] \in Nat /\ attempt[c] <= Cardinality(Broken(c)) + 1
    BY <1>0, LabAssumption DEF GoesWell
  <2>3. attempt'[c] <= Cardinality(Broken(c)') + 1
    BY ONLY <1>a, <2>1, <2>2
  <2>4. RefsKey(c)' = RefsKey(c) /\ PackKey(c)' = PackKey(c)
    BY ONLY <1>a DEF RefsKey, PackKey, PackPart
  <2> QED BY <2>3, <2>4
<1>3. CASE TakeSlot(c) \/ Resume(c)
  <2>1. /\ op'[c] = op[c] /\ step'[c] \in {"slot", "turn"} /\ attempt'[c] = attempt[c]
        /\ ended'[c] = ended[c] /\ stage'[c] = "none" /\ (c \in ref' <=> c \in ref)
        /\ step[c] \in {"slot", "pausing"}
    BY <1>0, <1>3 DEF TakeSlot, Resume, Goto, GoesWell, engineVars, requestVars
  <2>2. \A d \in Clients \ {c} : Rests(d)
    BY <1>3 DEF TakeSlot, Resume, Goto, Rests, engineVars, requestVars
  <2>3. GoesWell(c)'
    BY <1>0, <1>a, <2>1 DEF GoesWell
  <2> QED BY <2>2, <2>3, OneGoesOn
<1>4. CASE Start(c)
  <2>1. /\ op'[c] = op[c] /\ step'[c] = "refs" /\ attempt'[c] = attempt[c]
        /\ ended'[c] = ended[c] /\ stage'[c] = "deciding" /\ (c \in ref' <=> c \in ref)
        /\ step[c] = "turn" /\ request'[c] = RefsKey(c)
    BY <1>0, <1>4 DEF Start, Goto, Request, Arrive, RefsKey
  <2>2. \A d \in Clients \ {c} : Rests(d)
    BY <1>4 DEF Start, Goto, Request, Arrive, Rests
  <2>3. GoesWell(c)'
    BY <1>0, <1>a, <2>1 DEF GoesWell
  <2> QED BY <2>2, <2>3, OneGoesOn
<1>5. CASE Pack(c)
  <2>0. ~(op[c] = "delete" /\ c \notin ref)
    BY <1>0, <1>5 DEF Pack, GoesWell
  <2>1. /\ op'[c] = op[c] /\ step'[c] = "pack" /\ attempt'[c] = attempt[c]
        /\ ended'[c] = ended[c] /\ stage'[c] = "deciding" /\ (c \in ref' <=> c \in ref)
        /\ request'[c] = PackKey(c)
    BY <1>5, <2>0 DEF Pack, Goto, Request, Arrive, PackKey, PackPart
  <2>2. \A d \in Clients \ {c} : Rests(d)
    BY <1>5, <2>0 DEF Pack, Goto, Request, Arrive, Rests
  <2>3. GoesWell(c)'
    BY <1>0, <1>a, <2>0, <2>1 DEF GoesWell
  <2> QED BY <2>2, <2>3, OneGoesOn
<1>6. CASE GitEnds(c) \/ CallEnds(c)
  BY <1>6, EndIsWell DEF GitEnds, CallEnds
<1>7. CASE GitFails(c)
  <2>0. /\ step[c] \in {"refs", "pack"} /\ Transient(reply[c].how) /\ reply[c].how # "ok"
        /\ attempt[c] <= Cardinality(Broken(c))
    BY <1>0, <1>7 DEF GitFails, GoesWell
  <2>1. Cardinality(Broken(c)) \in Nat /\ Cardinality(Broken(c)) < Attempts
    BY <1>b
  <2>7. attempt[c] \in Nat
    BY LabAssumption
  <2>2. MayRetry(c)
    BY <2>0, <2>1, <2>7, LabAssumption DEF MayRetry
  <2>3. /\ op'[c] = op[c] /\ step'[c] = "pausing" /\ attempt'[c] = attempt[c] + 1
        /\ ended'[c] = ended[c] /\ stage'[c] = "none" /\ (c \in ref' <=> c \in ref)
    BY <1>7, <2>0, <2>2 DEF GitFails, Take, Goto
  <2>4. \A d \in Clients \ {c} : Rests(d)
    BY <1>7, <2>0, <2>2 DEF GitFails, Take, Goto, Rests
  <2>5. Cardinality(Broken(c)') \in Nat /\ Cardinality(Broken(c)) <= Cardinality(Broken(c)')
    BY <2>3, BrokenStays
  <2>6. attempt'[c] <= Cardinality(Broken(c)') + 1
    BY <2>0, <2>1, <2>3, <2>5, <2>7
  <2>8. GoesWell(c)'
    BY <1>0, <2>0, <2>3, <2>6 DEF GoesWell
  <2> QED BY <2>4, <2>8, OneGoesOn
<1> QED BY <1>1, <1>2, <1>3, <1>4, <1>5, <1>6, <1>7

\* What a rule that breaks a git request says of it.
LEMMA DecideIsWell ==
  ASSUME Inv, PlaceInv, CapInv', GitInv, Outlasted, NEW c \in Clients, NEW i \in DOMAIN Rules,
         NEW lucky \in BOOLEAN, Decide(c, i, lucky), UNCHANGED taskVars
  PROVE  GitInv'
<1>0. GoesWell(c)
  BY DEF GitInv
<1>1. PICK e : e = [rule |-> i, key |-> request[c], counter |-> counter[c]]
  OBVIOUS
<1>2. e.rule = i /\ e.key = request[c] /\ e.counter = counter[c]
  BY <1>1
<1>3. e \notin fired
  <2>1. stage[c] = "deciding" /\ i >= rule[c]
    BY <1>1, DecideDoes
  <2>2. \A f \in fired : f.rule = i /\ f.key = request[c] => f.counter < counter[c]
    BY <2>1 DEF PlaceInv
  <2>3. counter[c] \in Nat
    BY DEF Inv, TypeOK, EngineTypeOK
  <2> QED BY <1>2, <2>2, <2>3
<1>4. fired \subseteq fired'
  BY DEF Decide
<1>5. \A d \in Clients \ {c} : Rests(d)
  BY DEF Decide, taskVars, Rests, Inv, TypeOK, EngineTypeOK
<1>6. /\ op' = op /\ step' = step /\ attempt' = attempt /\ ended' = ended /\ ref' = ref
      /\ request' = request /\ stage[c] = "deciding"
  BY DEF Decide, taskVars
<1>7. RefsKey(c)' = RefsKey(c) /\ PackKey(c)' = PackKey(c)
  BY <1>6 DEF RefsKey, PackKey, PackPart
<1>8. /\ Cardinality(Broken(c)) \in Nat /\ Cardinality(Broken(c)') \in Nat
      /\ Cardinality(Broken(c)) <= Cardinality(Broken(c)') /\ IsFiniteSet(Broken(c)')
      /\ Broken(c) \subseteq Broken(c)'
  BY <1>4, <1>6, BrokenStays
<1>9. attempt[c] \in Nat /\ attempt[c] <= Cardinality(Broken(c)) + 1
  BY <1>0, LabAssumption DEF GoesWell, Inv, TypeOK
<1>10. attempt'[c] <= Cardinality(Broken(c)') + 1
  BY <1>6, <1>8, <1>9
<1>11. ASSUME step[c] \in {"refs", "pack"}, stage'[c] = "replied"
       PROVE  Transient(reply'[c].how) /\ attempt'[c] <= Cardinality(Broken(c)')
  <2>1. request[c] \in {RefsKey(c), PackKey(c)}
    BY <1>0, <1>11 DEF GoesWell
  <2>2. PartOf(request[c].path) \notin ApiParts
    BY <2>1 DEF RefsKey, PackKey, PackPart, PartOf, ApiParts
  <2>3. PartOf(request[c].path) \in Rules[i].parts
    BY DEF Decide, Ahead, Matches
  <2>4. Rules[i].fault # "stale"
    BY <2>2, <2>3 DEF Outlasted, Stale
  <2>5. /\ fired' = fired \cup {e} /\ Verdict(i, request[c].path) # {}
        /\ reply'[c] \in Verdict(i, request[c].path)
    BY <1>1, <1>6, <1>11 DEF Decide, Inv, TypeOK, EngineTypeOK
  <2>6. /\ Rules[i].fault # "latency"
        /\ reply'[c] = Reply(Rules[i].fault, 0)
    BY <2>4, <2>5 DEF Verdict
  <2>7. Rules[i].fault \in {"latency", "reset", "unavailable", "limited", "stale"}
    BY RulesAre DEF RuleType
  <2>8. Transient(Rules[i].fault) /\ reply'[c].how = Rules[i].fault
    BY <2>4, <2>6, <2>7 DEF Transient, Reply
  <2>9. e \in Broken(c)' /\ e \notin Broken(c)
    BY <1>2, <1>3, <1>7, <2>1, <2>5, <2>8 DEF Broken
  <2>10. Cardinality(Broken(c)) # Cardinality(Broken(c)')
    BY <1>8, <2>9, FS_Subset
  <2> QED BY <1>6, <1>8, <1>9, <2>8, <2>10
<1>12. stage'[c] \in {"deciding", "replied"}
  BY <1>6 DEF Decide, Inv, TypeOK, EngineTypeOK
<1>13. GoesWell(c)'
  BY <1>0, <1>6, <1>7, <1>10, <1>11, <1>12 DEF GoesWell
<1> QED BY <1>4, <1>5, <1>13, OneGoesOn

\* What the forge does, as long as it does what it is asked.
LEMMA AnswerIsWell ==
  ASSUME Inv, CapInv', fired' = fired, GitInv, NEW c \in Clients,
         Serves(c) \/ (Observe(c) /\ UNCHANGED taskVars)
  PROVE  GitInv'
<1>0. GoesWell(c)
  BY DEF GitInv
<1>1. /\ op' = op /\ step' = step /\ attempt' = attempt /\ ended' = ended /\ request' = request
  BY DEF Serves, Serve, Observe, taskVars
<1>2. \A d \in Clients \ {c} : Rests(d)
  <2>1. ASSUME NEW d \in Clients \ {c}
        PROVE  stage'[d] = stage[d] /\ reply'[d] = reply[d]
    BY DEF Serves, Serve, Observe, Inv, TypeOK, EngineTypeOK
  <2>2. ASSUME NEW d \in Clients \ {c}
        PROVE  d \in ref' <=> d \in ref
    BY DEF Serves, taskVars
  <2> QED BY ONLY <1>1, <2>1, <2>2 DEF Rests
<1>3. RefsKey(c)' = RefsKey(c) /\ PackKey(c)' = PackKey(c) /\ Broken(c)' = Broken(c)
  BY <1>1 DEF RefsKey, PackKey, PackPart, Broken
<1>4. CASE Serves(c)
  <2>1. stage[c] = "deciding" /\ stage'[c] = "answered" /\ reply'[c].how = "ok"
    BY <1>4 DEF Serves, Serve, Forwarded, Reply, Inv, TypeOK, EngineTypeOK
  <2>2. ASSUME op[c] = "delete", c \notin ref' PROVE step[c] = "pack"
    <3>1. c \in ref
      BY <1>0, <2>1, <2>2 DEF GoesWell
    <3>2. request[c].method = "POST"
      BY <1>4, <2>2, <3>1 DEF Serves
    <3>3. step[c] # "refs"
      BY <1>0, <3>2 DEF GoesWell, RefsKey
    <3>4. step[c] \in {"idle", "asking", "slot", "turn", "refs", "pack", "pausing"}
      BY DEF Inv, TypeOK
    <3> QED BY <1>0, <2>1, <2>2, <3>3, <3>4 DEF GoesWell, GitCommands
  <2>3. GoesWell(c)'
    BY <1>0, <1>1, <1>3, <2>1, <2>2 DEF GoesWell
  <2> QED BY <1>2, <2>3, OneGoesOn
<1>5. CASE Observe(c) /\ UNCHANGED taskVars
  <2>1. stage[c] = "answered" /\ stage'[c] = "replied" /\ reply' = reply /\ ref' = ref
    BY <1>5 DEF Observe, Recorded, taskVars, Inv, TypeOK, EngineTypeOK
  <2>2. GoesWell(c)'
    BY <1>0, <1>1, <1>3, <2>1 DEF GoesWell
  <2> QED BY <1>2, <2>2, OneGoesOn
<1> QED BY <1>4, <1>5

LEMMA InitGit == Init => GitInv
<1> SUFFICES ASSUME Init, NEW c \in Clients PROVE GoesWell(c)
  BY DEF GitInv
<1>1. fired = {} /\ op[c] = "none" /\ step[c] = "idle" /\ stage[c] = "none" /\ attempt[c] = 1
      /\ ended[c] = "none"
  BY DEF Init, EngineInit
<1>2. Broken(c) = {} /\ Cardinality({}) = 0
  BY <1>1, FS_EmptySet DEF Broken
<1>3. 1 <= Cardinality(Broken(c)) + 1
  BY <1>2
<1> QED BY <1>1, <1>3 DEF GoesWell, GitCommands

\* As long as nothing else fails, attempts are lost to breaks that the rules allow only.
LEMMA StepGit ==
  ASSUME Inv, PlaceInv, CapInv, CapInv', Outlasted, [Next]_vars, faults = 0 => GitInv
  PROVE  faults' = 0 => GitInv'
<1> SUFFICES ASSUME faults' = 0 PROVE GitInv'
  OBVIOUS
<1>0. fired \subseteq fired'
  BY OnlyDecisionsFire DEF Decide
<1>1. CASE Tick \/ UNCHANGED vars
  <2>1. /\ faults' = faults /\ fired' = fired /\ op' = op /\ step' = step /\ attempt' = attempt
        /\ ended' = ended /\ ref' = ref /\ stage' = stage /\ request' = request /\ reply' = reply
    BY <1>1 DEF Tick, vars, taskVars, engineVars, countVars, requestVars
  <2>2. \A c \in Clients : Rests(c)
    BY <2>1 DEF Rests
  <2> QED BY <1>0, <2>1, <2>2, RestIsWell DEF GitInv
<1>2. ASSUME NEW c \in Clients, Fails(c) PROVE FALSE
  BY <1>2, LabAssumption DEF Fails, Inv, TypeOK
<1>3. ASSUME NEW c \in Clients,
             \/ \E what \in ApiCalls : StartCall(c, what)
             \/ \E command \in GitCommands : StartGit(c, command)
             \/ TakeSlot(c) \/ Start(c) \/ Pack(c) \/ GitEnds(c) \/ GitFails(c) \/ Resume(c)
             \/ CallEnds(c)
      PROVE  GitInv'
  <2>1. faults' = faults
    BY <1>3 DEF StartCall, StartGit, TakeSlot, Start, Pack, GitEnds, GitFails, Resume, CallEnds, End
  <2> QED BY <1>0, <1>3, <2>1, TaskIsWell
<1>4. ASSUME NEW c \in Clients, Layer(c) PROVE GitInv'
  <2>1. faults' = faults /\ UNCHANGED taskVars
    BY <1>4 DEF Layer, taskVars
  <2>2. ASSUME NEW i \in DOMAIN Rules, NEW lucky \in BOOLEAN, Decide(c, i, lucky) PROVE GitInv'
    BY <2>1, <2>2, DecideIsWell
  <2>3. CASE Observe(c)
    BY <2>1, <2>3, AnswerIsWell DEF Observe, countVars
  <2> QED BY <1>4, <2>2, <2>3 DEF Layer
<1>5. ASSUME NEW c \in Clients, Serves(c) PROVE GitInv'
  <2>1. faults' = faults /\ fired' = fired
    BY <1>5 DEF Serves, Serve, countVars
  <2> QED BY <1>5, <2>1, AnswerIsWell
<1> QED BY <1>1, <1>2, <1>3, <1>4, <1>5 DEF Next, Works

\* Where the rules break less than a command makes attempts, no git command fails of what
\* they inject, however the requests of all tasks come in between, whatever was injected
\* into the commands before, and wherever in a command it is.
THEOREM GitSurvives ==
  ASSUME Outlasted
  PROVE  Spec => []GitOutlasts
<1>1. Init => UndisturbedGit
  BY InitGit DEF UndisturbedGit
<1>2. Inv /\ PlaceInv /\ CapInv /\ CapInv' /\ [Next]_vars /\ UndisturbedGit => UndisturbedGit'
  BY StepGit DEF UndisturbedGit
<1>3. UndisturbedGit => GitOutlasts
  BY DEF UndisturbedGit, GitInv, GoesWell, GitOutlasts
<1> QED BY <1>1, <1>2, <1>3, InitType, StepType, InitPlace, StepPlace, InitCap, StepCap, PTL
        DEF Spec
=============================================================================
