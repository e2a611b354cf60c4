---------------------------- MODULE LookupProofs ----------------------------
(***************************************************************************)
(* Lookups keep their promise for any number of names, any size of a       *)
(* batch, any number of writes and failures, whatever may stand under a    *)
(* name, and any times of which the assumption holds: Lookup refines       *)
(* Answers.                                                                *)
(***************************************************************************)
EXTENDS Lookup, TLAPS

Frozen == {"archived", "moved", "leaving"}

Searching(n) == stage[n] \in {"listing", "relist"}

\* A name whose request of this round is under way.
Busy(n) == stage[n] \in Requests \cup {"relist"}

\* Seconds since its first one.
Past(n) ==
  IF stage[n] = "listing" THEN tries[n] - 1
  ELSE IF stage[n] = "relist" THEN tries[n] - 2 ELSE 0

\* Called missing although it is there, and nobody has written to it.
Untrue(n) == n \in calm /\ stage[n] = "done" /\ answer[n] = "missing" /\ stands[n] \notin Gone

\* Caches have caught up with what a calm name's requests of this round say.
Settled(n) == n \in calm /\ (call = "lookup" \/ left[n] + Past(n) < Attempts)

-----------------------------------------------------------------------------
(* The invariant *)

Idle == call = "idle" => round = {} /\ stage = All("idle")

World ==
  \A n \in Names :
    /\ before[n] = {} <=> fresh[n] = 0
    /\ stands[n] \in Frozen /\ "bare" \in before[n] => "full" \in before[n]

\* Where a name may be.
StageOf(n) ==
  /\ stage[n] # "idle"
  /\ Busy(n) \/ stage[n] = "pausing" => n \in round
  /\ stage[n] = "query" => FirstRequest(call) = "query"
  /\ stage[n] = "relist" => tries[n] >= 2
  /\ Searching(n) => forge = "azuredevops"
  /\ call = "get_confirmed" => round = Names
  /\ call # "get_confirmed" =>
       /\ stage[n] # "believed"
       /\ n \notin round => stage[n] = "done" /\ answer[n] \notin {"missing", "none"}
  /\ stage[n] \in {"done", "believed"} => answer[n] # "none"
  /\ stage[n] = "pausing" => answer[n] = "missing"

\* All deadlines are one, and caches catch up before it.
Clocks ==
  /\ call = "get_confirmed" => ticking
  /\ \A n \in Names : /\ ~ticking => left[n] = Patience
                      /\ \A m \in Names : left[n] = left[m]

HistoryOf(n) ==
  /\ stands[n] \in since[n] /\ since[n] \subseteq shown[n] /\ before[n] \subseteq shown[n]
  /\ stands[n] \in Frozen /\ "bare" \in shown[n] => "full" \in shown[n]
  /\ n \in calm => since[n] = {stands[n]}
  /\ call = "lookup" /\ n \in calm => before[n] = {}
  /\ call \in Confirming /\ n \in calm /\ ticking =>
       fresh[n] = 0 \/ fresh[n] + Patience <= Lag + left[n]

\* What is found is what MaySay allows.
FoundOf(n) ==
  /\ stage[n] \in {"second", "third"} =>
       /\ answer[n] \in shown[n] \ Gone
       /\ forge = "gitlab" => answer[n] = "bare"
       /\ forge = "azuredevops" => answer[n] # "archived"
  /\ stage[n] = "third" => forge = "gitlab" /\ since[n] \cap ({"bare"} \cup Gone) # {}
  /\ stage[n] \in {"done", "believed"} /\ answer[n] # "missing" =>
       /\ answer[n] \in shown[n] \ Gone
       /\ answer[n] \in Promise.rereads => since[n] # {"nothing"}
       /\ answer[n] = "bare" /\ Promise.counts => since[n] \cap ({"bare"} \cup Gone) # {}

\* What is called missing is, or will be asked for again.
CalmOf(n) ==
  /\ Settled(n) /\ Searching(n) => stands[n] \in {"nothing", "archived"}
  /\ Settled(n) /\ stage[n] = "second" /\ forge = "azuredevops" => stands[n] \in {"bare", "full"}
  /\ n \in calm /\ stage[n] = "believed" /\ answer[n] = "missing" => stands[n] \in Gone
  /\ Untrue(n) => call # "lookup" /\ left[n] > 0

NameInv(n) == StageOf(n) /\ HistoryOf(n) /\ FoundOf(n) /\ CalmOf(n)

\* The names of a round of lookup or lookup_confirmed are at it together, and if one of them
\* is called missing and is there, no cache has caught up when the round began.
Together ==
  call # "get_confirmed" =>
    \A n, m \in round :
      /\ stage[n] = "pausing" => stage[m] = "pausing"
      /\ Busy(n) /\ Busy(m) => Past(n) = Past(m)
      /\ Untrue(n) /\ Busy(m) => left[m] + Past(m) >= Attempts

CallInv == call # "idle" => Clocks /\ Together /\ \A n \in Names : NameInv(n)

IInv == TypeOK /\ Idle /\ World /\ CallInv

-----------------------------------------------------------------------------
(* Types *)

LEMMA AllType ==
  ASSUME NEW S, NEW x \in S
  PROVE  All(x) \in [Names -> S]
BY DEF All

\* What a write can make of a repository.
LEMMA BecomesWhat ==
  ASSUME NEW k \in Kinds, NEW x \in Becomes(k)
  PROVE  x \in Kinds /\ (x \in Frozen => k = "full")
<1>1. CASE k = "nothing" BY <1>1 DEF Becomes, Kinds, Frozen
<1>2. CASE k = "bare" BY <1>2 DEF Becomes, Kinds, Frozen
<1>3. CASE k = "full" BY <1>3 DEF Becomes, Kinds, Frozen
<1>4. CASE k = "archived" BY <1>4 DEF Becomes, Kinds, Frozen
<1>5. CASE k \in {"moved", "leaving"} BY <1>5 DEF Becomes, Kinds, Frozen
<1> QED BY <1>1, <1>2, <1>3, <1>4, <1>5 DEF Kinds

LEMMA EditType ==
  ASSUME TypeOK, NEW n \in Names, Edit(n)
  PROVE  TypeOK'
<1>1. PICK k \in Becomes(stands[n]) :
        /\ stands' = [stands EXCEPT ![n] = k]
        /\ IF call = "idle" THEN UNCHANGED <<since, shown>>
           ELSE /\ since' = [since EXCEPT ![n] = @ \cup {k}]
                /\ shown' = [shown EXCEPT ![n] = @ \cup {k}]
  BY DEF Edit
<1>2. k \in Kinds /\ stands[n] \in Kinds
  BY BecomesWhat DEF TypeOK
<1>3. stands' \in [Names -> Kinds]
  BY <1>1, <1>2 DEF TypeOK
<1>4. since' \in [Names -> SUBSET Kinds] /\ shown' \in [Names -> SUBSET Kinds]
  BY <1>1, <1>2 DEF TypeOK
<1>5. before' \in [Names -> SUBSET Kinds] /\ fresh' \in [Names -> 0 .. Lag]
  BY <1>2, LookupAssumption DEF TypeOK, Edit
<1>6. edits' \in 0 .. MaxEdits /\ calm' \subseteq Names
  BY LookupAssumption DEF TypeOK, Edit
<1> QED BY <1>3, <1>4, <1>5, <1>6 DEF TypeOK, Edit, stageVars, roundVars

\* What may be made of an answer.
AnswerType == {"none", "missing"} \cup (Kinds \ Gone)

StageType == Requests \cup {"idle", "relist", "pausing", "done", "believed", "failed"}

LEMMA ObjectsAre ==
  ASSUME TypeOK, NEW n \in Names
  PROVE  Object(n) \subseteq Kinds /\ Listed(n) \subseteq Kinds
BY DEF TypeOK, Object, Listed, Kinds

LEMMA ToldType ==
  ASSUME NEW k \in Kinds
  PROVE  Told(k) \in AnswerType \ {"none"}
BY DEF Told, AnswerType, Kinds, Gone

LEMMA AnswerStep ==
  ASSUME TypeOK, NEW n \in Names, NEW k \in Kinds, Answer(n, k)
  PROVE  /\ stage' \in [Names -> StageType] /\ answer' \in [Names -> AnswerType]
         /\ tries' \in [Names -> 1 .. Attempts]
BY ToldType DEF TypeOK, Answer, Goto, StageType, AnswerType

LEMMA AskOnStep ==
  ASSUME TypeOK, NEW n \in Names, NEW k \in Kinds \ Gone, NEW s \in Requests, AskOn(n, k, s)
  PROVE  /\ stage' \in [Names -> StageType] /\ answer' \in [Names -> AnswerType]
         /\ tries' \in [Names -> 1 .. Attempts]
BY DEF TypeOK, AskOn, Goto, StageType, AnswerType

LEMMA AskAnswers ==
  ASSUME TypeOK, NEW n \in Names, Ask(n)
  PROVE  /\ stage' \in [Names -> StageType] /\ answer' \in [Names -> AnswerType]
         /\ tries' \in [Names -> 1 .. Attempts]
<1>1. CASE Query(n)
  <2>1. PICK k \in [Chunk(n) -> Kinds] :
          /\ stage' = [m \in Names |->
               IF m \notin Chunk(n) THEN stage[m] ELSE IF AskedAlone(k[m]) THEN "get" ELSE "done"]
          /\ answer' = [m \in Names |-> IF m \in Chunk(n) THEN Told(k[m]) ELSE answer[m]]
    BY <1>1 DEF Query
  <2>2. stage' \in [Names -> StageType]
    BY <2>1 DEF TypeOK, StageType, Requests
  <2>3. \A m \in Chunk(n) : Told(k[m]) \in AnswerType
    BY ToldType
  <2>4. answer' \in [Names -> AnswerType]
    BY <2>1, <2>3 DEF TypeOK, AnswerType
  <2> QED BY <1>1, <2>2, <2>4 DEF Query, TypeOK
<1>2. CASE Get(n)
  <2>1. PICK k \in Object(n) :
          IF forge = "azuredevops" /\ k \in {"nothing", "archived"}
          THEN Goto(n, "listing") /\ tries' = [tries EXCEPT ![n] = 1] /\ UNCHANGED answer
          ELSE IF SecondRead(k) THEN AskOn(n, k, "second") ELSE Answer(n, k)
    BY <1>2 DEF Get
  <2>2. k \in Kinds
    BY ObjectsAre
  <2>3. CASE forge = "azuredevops" /\ k \in {"nothing", "archived"}
    BY <2>1, <2>3, LookupAssumption DEF TypeOK, Goto, StageType, AnswerType, Requests
  <2>4. CASE ~(forge = "azuredevops" /\ k \in {"nothing", "archived"}) /\ SecondRead(k)
    <3>1. AskOn(n, k, "second") /\ k \in Kinds \ Gone /\ "second" \in Requests
      BY <2>1, <2>2, <2>4 DEF SecondRead, Requests
    <3> QED BY <3>1, AskOnStep
  <2>5. CASE ~(forge = "azuredevops" /\ k \in {"nothing", "archived"}) /\ ~SecondRead(k)
    BY <2>1, <2>2, <2>5, AnswerStep
  <2> QED BY <2>3, <2>4, <2>5
<1>3. CASE Second(n)
  <2>1. CASE forge = "gitlab" /\ stands[n] \in {"nothing", "bare"}
    <3>1. AskOn(n, "bare", "third") /\ "bare" \in Kinds \ Gone /\ "third" \in Requests
      BY <1>3, <2>1 DEF Second, Kinds, Gone, Requests
    <3> QED BY <3>1, AskOnStep
  <2>2. CASE ~(forge = "gitlab" /\ stands[n] \in {"nothing", "bare"})
    <3> DEFINE k == IF forge = "gitlab" THEN "full" ELSE Amended(n)
    <3>1. Goto(n, "done") /\ answer' = [answer EXCEPT ![n] = Told(k)] /\ UNCHANGED tries
      BY <1>3, <2>2 DEF Second, Answer
    <3>2. Told(k) \in AnswerType
      BY DEF Told, AnswerType, Amended, Kinds, Gone, TypeOK
    <3> QED BY <3>1, <3>2 DEF TypeOK, Goto, StageType, AnswerType
  <2> QED BY <2>1, <2>2
<1>4. CASE Third(n)
  <2>1. \E k \in {"nothing", "bare"} : Answer(n, k)
    BY <1>4 DEF Third
  <2> QED BY <2>1, AnswerStep DEF Kinds
<1>5. CASE Listing(n)
  <2>1. PICK k \in Listed(n) :
          IF k \in Gone \cup {"archived"} THEN Answer(n, k)
          ELSE IF tries[n] = Attempts THEN Answer(n, "nothing")
          ELSE Goto(n, "relist") /\ tries' = [tries EXCEPT ![n] = @ + 1] /\ UNCHANGED answer
    BY <1>5 DEF Listing
  <2>2. CASE Answer(n, k) \/ Answer(n, "nothing")
    BY <2>2, ObjectsAre, AnswerStep DEF Kinds
  <2>3. CASE tries[n] # Attempts /\ Goto(n, "relist") /\ tries' = [tries EXCEPT ![n] = @ + 1]
             /\ UNCHANGED answer
    <3>1. tries[n] + 1 \in 1 .. Attempts
      BY <2>3, LookupAssumption DEF TypeOK
    <3> QED BY <2>3, <3>1 DEF TypeOK, Goto, StageType, AnswerType
  <2> QED BY <2>1, <2>2, <2>3
<1>6. CASE Fails(n)
  BY <1>6 DEF Fails, TypeOK, StageType, AnswerType
<1> QED BY <1>1, <1>2, <1>3, <1>4, <1>5, <1>6 DEF Ask

LEMMA AskType ==
  ASSUME TypeOK, NEW n \in Names, Ask(n)
  PROVE  TypeOK'
<1>1. faults' \in 0 .. MaxFaults
  BY LookupAssumption DEF Ask, Fails, TypeOK
<1> QED BY <1>1, AskAnswers DEF Ask, TypeOK, worldVars, roundVars, history, StageType, AnswerType

LEMMA CallType ==
  ASSUME TypeOK,
         \/ \E c \in Calls : StartCall(c)
         \/ AskAgain \/ (\E n \in Names : Judge(n)) \/ Return \/ Interrupt
  PROVE  TypeOK'
<1>1. ASSUME NEW c \in Calls, StartCall(c) PROVE TypeOK'
  <2>1. stage' \in [Names -> StageType]
    BY <1>1 DEF StartCall, FirstRequest, All, StageType, Requests
  <2>2. answer' \in [Names -> AnswerType] /\ tries' \in [Names -> 1 .. Attempts]
    BY <1>1, LookupAssumption DEF StartCall, All, AnswerType
  <2>3. left' \in [Names -> 0 .. Patience] /\ asks' \in [Names -> 0 .. 2]
    BY <1>1, LookupAssumption DEF StartCall, All
  <2>4. since' \in [Names -> SUBSET Kinds] /\ shown' \in [Names -> SUBSET Kinds]
    BY <1>1 DEF StartCall, TypeOK
  <2>5. calm' \subseteq Names
    BY <1>1 DEF StartCall
  <2> QED BY <1>1, <2>1, <2>2, <2>3, <2>4, <2>5 DEF StartCall, TypeOK, worldVars, StageType,
          AnswerType
<1>2. ASSUME NEW ns, Pause(ns), ns \subseteq Names, ticking' \in BOOLEAN PROVE TypeOK'
  BY <1>2 DEF Pause, TypeOK, worldVars, history
<1>3. CASE AskAgain
  BY <1>2, <1>3 DEF AskAgain, Missing
<1>4. ASSUME NEW n \in Names, Judge(n) PROVE TypeOK'
  BY <1>4 DEF Judge, Goto, TypeOK, worldVars, roundVars, history
<1>5. ASSUME NEW result \in {"ok", "failed"}, End(result), faults' \in 0 .. MaxFaults PROVE TypeOK'
  <2>1. stage' \in [Names -> StageType] /\ tries' \in [Names -> 1 .. Attempts]
    BY <1>5, LookupAssumption DEF End, All, StageType
  <2>2. left' \in [Names -> 0 .. Patience] /\ asks' \in [Names -> 0 .. 2]
    BY <1>5, LookupAssumption DEF End, All
  <2>3. answer' \in [Names -> AnswerType]
    BY <1>5 DEF End, All, AnswerType, TypeOK
  <2>4. since' \in [Names -> SUBSET Kinds] /\ shown' \in [Names -> SUBSET Kinds]
    BY <1>5 DEF End, All
  <2> QED BY <1>5, <2>1, <2>2, <2>3, <2>4 DEF End, TypeOK, worldVars, StageType, AnswerType
<1>6. CASE Return
  BY <1>5, <1>6 DEF Return, TypeOK
<1>7. CASE Interrupt
  BY <1>5, <1>7, LookupAssumption DEF Interrupt, TypeOK
<1> QED BY <1>1, <1>3, <1>4, <1>6, <1>7

LEMMA TickType ==
  ASSUME TypeOK, Tick
  PROVE  TypeOK'
<1>1. fresh' \in [Names -> 0 .. Lag] /\ left' \in [Names -> 0 .. Patience]
  BY LookupAssumption DEF Tick, Less, TypeOK
<1>2. before' \in [Names -> SUBSET Kinds]
  BY DEF Tick, TypeOK
<1>3. stage' \in [Names -> StageType]
  BY DEF Tick, TypeOK, FirstRequest, StageType, Requests
<1>4. asks' \in [Names -> 0 .. 2]
  BY DEF Tick, TypeOK
<1> QED BY <1>1, <1>2, <1>3, <1>4 DEF Tick, TypeOK, StageType, history

LEMMA InitType == Init => TypeOK
<1> SUFFICES ASSUME Init PROVE TypeOK
  OBVIOUS
<1>1. stands \in [Names -> Kinds]
  BY LookupAssumption DEF Init
<1>2. /\ before \in [Names -> SUBSET Kinds] /\ fresh \in [Names -> 0 .. Lag]
      /\ since \in [Names -> SUBSET Kinds] /\ shown \in [Names -> SUBSET Kinds]
  BY LookupAssumption DEF Init, All
<1>3. /\ stage \in [Names -> StageType] /\ answer \in [Names -> AnswerType]
      /\ left \in [Names -> 0 .. Patience] /\ tries \in [Names -> 1 .. Attempts]
      /\ asks \in [Names -> 0 .. 2]
  BY LookupAssumption DEF Init, All, StageType, AnswerType
<1>4. edits \in 0 .. MaxEdits /\ faults \in 0 .. MaxFaults
  BY LookupAssumption DEF Init
<1>5. /\ forge \in Forges /\ call \in {"idle"} \cup Calls /\ round \subseteq Names
      /\ ticking \in BOOLEAN /\ outcome \in {"none", "ok", "failed"} /\ calm \subseteq Names
  BY DEF Init
<1> QED BY <1>1, <1>2, <1>3, <1>4, <1>5 DEF TypeOK, StageType, AnswerType

LEMMA StepType == TypeOK /\ [Next]_vars => TypeOK'
<1> SUFFICES ASSUME TypeOK, [Next]_vars PROVE TypeOK'
  OBVIOUS
<1>1. CASE UNCHANGED vars
  BY <1>1 DEF vars, worldVars, stageVars, roundVars, history, TypeOK
<1>2. CASE Next
  BY <1>2, EditType, AskType, CallType, TickType DEF Next, Goes
<1> QED BY <1>1, <1>2

\* Every variable keeps its type, however many names, batches and writes there are.
THEOREM TypeCorrect == Spec => []TypeOK
<1> QED BY InitType, StepType, PTL DEF Spec

-----------------------------------------------------------------------------
(* One request *)

\* Nobody has written to it of late, and no cache shows what it was.
LEMMA CaughtUp ==
  ASSUME IInv, call # "idle", NEW n \in Names, n \in calm, call = "lookup" \/ left[n] < Attempts
  PROVE  before[n] = {} /\ Object(n) = {stands[n]} /\ Listed(n) = {stands[n]}
<1>1. HistoryOf(n) /\ Clocks /\ World
  BY DEF IInv, CallInv, NameInv
<1>2. /\ fresh[n] \in 0 .. Lag /\ left[n] \in 0 .. Patience
      /\ call \in Calls /\ ticking \in BOOLEAN
  BY DEF IInv, TypeOK
<1>3. fresh[n] = 0
  <2>1. CASE call = "lookup"
    BY <1>1, <2>1 DEF HistoryOf, World
  <2>2. CASE call # "lookup"
    <3>1. call \in Confirming /\ left[n] < Attempts
      BY <1>2, <2>2 DEF Confirming
    <3>2. ticking
      BY <1>1, <1>2, <3>1, LookupAssumption DEF Clocks
    <3>3. fresh[n] = 0 \/ fresh[n] + Patience <= Lag + left[n]
      BY <1>1, <3>1, <3>2 DEF HistoryOf
    <3> QED BY <1>2, <3>1, <3>3, LookupAssumption
  <2> QED BY <2>1, <2>2
<1>4. before[n] = {}
  BY <1>1, <1>3 DEF World
<1> QED BY <1>3, <1>4 DEF Object, Listed

\* Whatever is found has been there, or a cache shows it.
LEMMA ObjectShown ==
  ASSUME IInv, call # "idle", NEW n \in Names
  PROVE  Object(n) \ {"nothing"} \subseteq shown[n] /\ Listed(n) \subseteq shown[n]
BY DEF IInv, CallInv, NameInv, HistoryOf, Object, Listed

LEMMA ChunkIs ==
  ASSUME IInv, call # "idle", NEW n \in Names, Busy(n)
  PROVE  n \in Chunk(n) /\ Chunk(n) \subseteq round
<1>1. n \in round
  BY DEF IInv, CallInv, NameInv, StageOf
<1> QED BY <1>1 DEF Chunk

\* Nothing is different for a name that is not asked about.
LEMMA Same ==
  ASSUME NEW m \in Names, NameInv(m),
         UNCHANGED <<forge, stands, before, fresh, call, round, left, ticking, history>>,
         stage'[m] = stage[m], answer'[m] = answer[m], tries'[m] = tries[m]
  PROVE  NameInv(m)'
<1> USE DEF history
<1>1. FirstRequest(call)' = FirstRequest(call) /\ Promise' = Promise
  BY DEF FirstRequest, Promise
<1>2. StageOf(m)'
  BY <1>1 DEF NameInv, StageOf, Busy, Searching
<1>3. HistoryOf(m)'
  BY DEF NameInv, HistoryOf
<1>4. FoundOf(m)'
  BY <1>1 DEF NameInv, FoundOf
<1>5. Past(m)' = Past(m) /\ Settled(m)' = Settled(m) /\ Untrue(m)' = Untrue(m)
  BY DEF Past, Settled, Untrue
<1>6. CalmOf(m)'
  BY <1>5 DEF NameInv, CalmOf, Searching
<1> QED BY <1>2, <1>3, <1>4, <1>6 DEF NameInv

\* A request about some names of the round, if what is made of its answers is right.
LEMMA AskKeeps ==
  ASSUME IInv, TypeOK', call # "idle", UNCHANGED <<worldVars, roundVars, history>>,
         NEW S \in SUBSET round, NEW n \in S, Busy(n),
         \A m \in Names \ S :
           stage'[m] = stage[m] /\ answer'[m] = answer[m] /\ tries'[m] = tries[m],
         \A m \in S :
           /\ stage'[m] # "pausing"
           /\ Busy(m)' => Past(m)' = Past(n)
           /\ Untrue(m)' => left[n] + Past(n) >= Attempts
           /\ StageOf(m)' /\ FoundOf(m)' /\ CalmOf(m)'
  PROVE  IInv'
<1>1. UNCHANGED <<forge, stands, before, fresh, call, round, left, ticking, history>>
  BY DEF worldVars, roundVars
<1>2. Idle' /\ World' /\ Clocks'
  BY <1>1 DEF IInv, CallInv, Idle, World, Clocks
<1>3. n \in Names /\ round \subseteq Names
  BY DEF IInv, TypeOK
<1>4. ASSUME NEW m \in Names PROVE NameInv(m)'
  <2>1. CASE m \in S
    <3>1. HistoryOf(m)'
      BY <1>1 DEF IInv, CallInv, NameInv, HistoryOf, history
    <3> QED BY <2>1, <3>1 DEF NameInv
  <2>2. CASE m \notin S
    BY <1>1, <2>2, Same DEF IInv, CallInv
  <2> QED BY <2>1, <2>2
<1>5. ASSUME call # "get_confirmed" PROVE Together'
  <2>1. Together /\ round' = round /\ left' = left
    BY <1>1 DEF IInv, CallInv
  <2>2. ASSUME NEW m \in round, m \notin S
        PROVE  (Busy(m)' <=> Busy(m)) /\ Past(m)' = Past(m) /\ (Untrue(m)' <=> Untrue(m))
    BY <1>1, <1>3, <2>2 DEF Busy, Past, Untrue, history
  <2>3. ASSUME NEW m \in round, Busy(m)' PROVE Past(m)' = Past(n) /\ left[m] = left[n]
    <3>1. left[m] = left[n]
      BY <1>3 DEF IInv, CallInv, Clocks
    <3>2. CASE m \in S
      BY <2>3, <3>1, <3>2
    <3>3. CASE m \notin S
      BY <1>5, <2>1, <2>2, <2>3, <3>1, <3>3 DEF Together
    <3> QED BY <3>2, <3>3
  <2>4. ASSUME NEW m \in round, Untrue(m)' PROVE left[n] + Past(n) >= Attempts
    <3>1. CASE m \in S
      BY <2>4, <3>1
    <3>2. CASE m \notin S
      BY <1>5, <2>1, <2>2, <2>4, <3>2 DEF Together
    <3> QED BY <3>1, <3>2
  <2>5. ASSUME NEW m \in round, stage'[m] = "pausing" PROVE FALSE
    <3>1. m \notin S /\ stage[m] = "pausing"
      BY <1>3, <2>5
    <3> QED BY <1>5, <2>1, <3>1 DEF Together, Busy, Requests
  <2> QED BY <2>1, <2>3, <2>4, <2>5 DEF Together
<1>6. CallInv'
  BY <1>1, <1>2, <1>4, <1>5 DEF CallInv, Together
<1> QED BY <1>2, <1>6 DEF IInv

\* A cache that is behind is the only one to say something else of a calm name.
LEMMA Behind ==
  ASSUME IInv, call # "idle", NEW m \in Names, m \in calm,
         NEW k \in Object(m) \cup Listed(m), k # stands[m]
  PROVE  call # "lookup" /\ left[m] >= Attempts /\ left[m] > 0
<1>1. ~(call = "lookup" \/ left[m] < Attempts)
  BY CaughtUp
<1>2. left[m] \in Nat /\ Attempts \in Nat \ {0}
  BY LookupAssumption DEF IInv, TypeOK
<1> QED BY <1>1, <1>2

LEMMA QueryStep ==
  ASSUME IInv, TypeOK', NEW n \in Names, Query(n), UNCHANGED <<worldVars, roundVars, history>>
  PROVE  IInv'
<1>1. stage[n] = "query" /\ Busy(n) /\ call # "idle" /\ Past(n) = 0
  BY DEF Query, Busy, Requests, IInv, Idle, All, Past
<1>2. n \in Chunk(n) /\ Chunk(n) \subseteq round /\ round \subseteq Names
  BY <1>1, ChunkIs DEF IInv, TypeOK
<1>3. FirstRequest(call) = "query"
  BY <1>1 DEF IInv, CallInv, NameInv, StageOf
<1>4. forge \in {"github", "gitlab"} /\ call # "get_confirmed"
  BY <1>3, LookupAssumption DEF FirstRequest, IInv, TypeOK
<1>5. UNCHANGED <<forge, stands, before, fresh, call, round, left, ticking, history>>
  BY DEF worldVars, roundVars
<1>6. Promise'.rereads = {} /\ (Promise'.counts => forge = "gitlab")
  BY <1>1, <1>3, <1>4, <1>5 DEF Promise, FirstRequest
<1>7. PICK k \in [Chunk(n) -> Kinds] :
        /\ \A m \in Chunk(n) : k[m] \in Object(m)
        /\ stage' = [m \in Names |->
             IF m \notin Chunk(n) THEN stage[m] ELSE IF AskedAlone(k[m]) THEN "get" ELSE "done"]
        /\ answer' = [m \in Names |-> IF m \in Chunk(n) THEN Told(k[m]) ELSE answer[m]]
  BY DEF Query
<1>8. ASSUME NEW m \in Chunk(n)
      PROVE  /\ stage'[m] # "pausing"
             /\ Busy(m)' => Past(m)' = Past(n)
             /\ Untrue(m)' => left[n] + Past(n) >= Attempts
             /\ StageOf(m)' /\ FoundOf(m)' /\ CalmOf(m)'
  <2>1. m \in Names /\ m \in round /\ k[m] \in Object(m) /\ k[m] \in Kinds
    BY <1>2, <1>7
  <2>2. CASE AskedAlone(k[m])
    <3>1. stage'[m] = "get"
      BY <1>7, <2>1, <2>2
    <3> QED BY <1>1, <1>4, <1>5, <2>1, <3>1 DEF Past, Untrue, StageOf, FoundOf, CalmOf, Searching,
            Busy, Requests
  <2>3. CASE ~AskedAlone(k[m])
    <3>1. stage'[m] = "done" /\ answer'[m] = Told(k[m])
      BY <1>7, <2>1, <2>3
    <3>2. answer'[m] # "none"
      BY <2>1, <3>1, ToldType
    <3>3. StageOf(m)' /\ ~Busy(m)'
      BY <1>4, <1>5, <2>1, <3>1, <3>2 DEF StageOf, Busy, Requests, Searching
    <3>4. FoundOf(m)'
      <4>1. answer'[m] # "missing" => answer'[m] = k[m] /\ k[m] \notin Gone
        BY <3>1 DEF Told
      <4>2. answer'[m] # "missing" => answer'[m] \in shown'[m] \ Gone
        BY <1>1, <1>5, <2>1, <4>1, ObjectShown DEF Gone, history
      <4>3. answer'[m] # "missing" /\ answer'[m] = "bare" => forge # "gitlab"
        BY <2>3, <4>1 DEF AskedAlone
      <4> QED BY <1>6, <3>1, <4>2, <4>3 DEF FoundOf
    <3>5. ASSUME Untrue(m)' PROVE call # "lookup" /\ left[m] >= Attempts /\ left[m] > 0
      <4>1. k[m] \in Gone /\ stands[m] \notin Gone /\ m \in calm
        <5>1. "missing" \notin Kinds
          BY DEF Kinds
        <5> QED BY <1>5, <2>1, <3>1, <3>5, <5>1 DEF Untrue, Told, history
      <4> QED BY <1>1, <2>1, <4>1, Behind
    <3>6. CalmOf(m)'
      BY <1>5, <3>1, <3>5 DEF CalmOf, Searching
    <3>7. left[m] = left[n]
      BY <1>1, <2>1 DEF IInv, CallInv, Clocks
    <3>8. left[n] \in Nat
      BY DEF IInv, TypeOK
    <3> QED BY <1>1, <3>1, <3>3, <3>4, <3>5, <3>6, <3>7, <3>8
  <2> QED BY <2>2, <2>3
<1>9. \A m \in Names \ Chunk(n) :
        stage'[m] = stage[m] /\ answer'[m] = answer[m] /\ tries'[m] = tries[m]
  BY <1>7 DEF Query
<1> QED BY <1>1, <1>2, <1>8, <1>9, AskKeeps

\* The same for a request about one name.
LEMMA OneKeeps ==
  ASSUME IInv, TypeOK', UNCHANGED <<worldVars, roundVars, history>>,
         NEW n \in Names, Busy(n),
         \A m \in Names \ {n} :
           stage'[m] = stage[m] /\ answer'[m] = answer[m] /\ tries'[m] = tries[m],
         stage'[n] \notin {"pausing", "idle", "believed"},
         Busy(n)' => Past(n)' = Past(n),
         Untrue(n)' => call # "lookup" /\ left[n] > 0 /\ left[n] + Past(n) >= Attempts,
         stage'[n] = "query" => FirstRequest(call) = "query",
         stage'[n] = "relist" => tries'[n] >= 2,
         Searching(n)' => forge = "azuredevops",
         stage'[n] = "done" => answer'[n] # "none",
         FoundOf(n)',
         Settled(n)' /\ Searching(n)' => stands[n] \in {"nothing", "archived"},
         Settled(n)' /\ stage'[n] = "second" /\ forge = "azuredevops" => stands[n] \in {"bare", "full"}
  PROVE  IInv'
<1>1. call # "idle"
  BY DEF Busy, Requests, IInv, Idle, All
<1>2. UNCHANGED <<forge, stands, before, fresh, call, round, left, ticking, history>>
  BY DEF worldVars, roundVars
<1>3. n \in round /\ (call = "get_confirmed" => round = Names)
  BY <1>1 DEF IInv, CallInv, NameInv, StageOf
<1>4. FirstRequest(call)' = FirstRequest(call)
  BY <1>2 DEF FirstRequest
<1>5. StageOf(n)'
  BY <1>2, <1>3, <1>4 DEF StageOf
<1>6. CalmOf(n)'
  BY <1>2 DEF CalmOf
<1> DEFINE S == {n}
<1>7. S \in SUBSET round /\ n \in S
  BY <1>3
<1>8. \A m \in S :
        /\ stage'[m] # "pausing"
        /\ Busy(m)' => Past(m)' = Past(n)
        /\ Untrue(m)' => left[n] + Past(n) >= Attempts
        /\ StageOf(m)' /\ FoundOf(m)' /\ CalmOf(m)'
  BY <1>5, <1>6
<1>9. \A m \in Names \ S :
        stage'[m] = stage[m] /\ answer'[m] = answer[m] /\ tries'[m] = tries[m]
  OBVIOUS
<1> HIDE DEF S
<1> QED BY <1>1, <1>7, <1>8, <1>9, AskKeeps

LEMMA GetStep ==
  ASSUME IInv, TypeOK', NEW n \in Names, Get(n), UNCHANGED <<worldVars, roundVars, history>>
  PROVE  IInv'
<1>1. stage[n] = "get" /\ Busy(n) /\ call # "idle" /\ Past(n) = 0
  BY DEF Get, Busy, Requests, IInv, Idle, All, Past
<1>2. UNCHANGED <<forge, stands, before, fresh, call, round, left, ticking, history>>
  BY DEF worldVars, roundVars
<1>3. PICK k \in Object(n) :
        IF forge = "azuredevops" /\ k \in {"nothing", "archived"}
        THEN Goto(n, "listing") /\ tries' = [tries EXCEPT ![n] = 1] /\ UNCHANGED answer
        ELSE IF SecondRead(k) THEN AskOn(n, k, "second") ELSE Answer(n, k)
  BY DEF Get
<1>4. k \in Kinds /\ (k # "nothing" => k \in shown[n]) /\ left[n] \in Nat /\ Attempts \in Nat \ {0}
  BY <1>1, <1>3, ObjectsAre, ObjectShown, LookupAssumption DEF IInv, TypeOK
<1>5. n \in calm /\ k # stands[n] => call # "lookup" /\ left[n] >= Attempts /\ left[n] > 0
  BY <1>1, <1>3, Behind
<1>6. \A m \in Names \ {n} :
        stage'[m] = stage[m] /\ answer'[m] = answer[m] /\ tries'[m] = tries[m]
  BY <1>3 DEF AskOn, Answer, Goto, IInv, TypeOK
<1>7. CASE forge = "azuredevops" /\ k \in {"nothing", "archived"}
  <2>1. stage'[n] = "listing" /\ tries'[n] = 1
    BY <1>3, <1>7 DEF Goto, IInv, TypeOK
  <2>2. Past(n)' = 0 /\ ~Untrue(n)' /\ FoundOf(n)'
    BY <2>1 DEF Past, Untrue, FoundOf
  <2>3. Settled(n)' => stands[n] \in {"nothing", "archived"}
    BY <1>2, <1>4, <1>5, <1>7, <2>2 DEF Settled, history
  <2> QED BY <1>1, <1>6, <1>7, <2>1, <2>2, <2>3, OneKeeps
<1>8. CASE ~(forge = "azuredevops" /\ k \in {"nothing", "archived"}) /\ SecondRead(k)
  <2>1. stage'[n] = "second" /\ answer'[n] = k /\ tries' = tries
    BY <1>3, <1>8 DEF AskOn, Goto, IInv, TypeOK
  <2>2. k \notin Gone /\ (forge = "gitlab" => k = "bare") /\ (forge = "azuredevops" => k # "archived")
    BY <1>8 DEF SecondRead
  <2>3. Past(n)' = 0 /\ ~Untrue(n)' /\ ~Searching(n)'
    BY <2>1 DEF Past, Untrue, Searching
  <2>4. FoundOf(n)'
    BY <1>2, <1>4, <2>1, <2>2 DEF FoundOf, history, Gone
  <2>5. Settled(n)' /\ forge = "azuredevops" => stands[n] \in {"bare", "full"}
    BY <1>2, <1>4, <1>5, <2>2, <2>3 DEF Settled, history, Gone, Kinds
  <2> QED BY <1>1, <1>6, <2>1, <2>3, <2>4, <2>5, OneKeeps
<1>9. CASE ~(forge = "azuredevops" /\ k \in {"nothing", "archived"}) /\ ~SecondRead(k)
  <2>1. stage'[n] = "done" /\ answer'[n] = Told(k) /\ tries' = tries
    BY <1>3, <1>9 DEF Answer, Goto, IInv, TypeOK
  <2>2. ~Busy(n)' /\ ~Searching(n)' /\ answer'[n] # "none"
    BY <1>4, <2>1, ToldType DEF Busy, Requests, Searching
  <2>3. Untrue(n)' => call # "lookup" /\ left[n] > 0 /\ left[n] + Past(n) >= Attempts
    <3>1. Untrue(n)' => n \in calm /\ k \in Gone /\ stands[n] \notin Gone
      BY <1>2, <1>4, <2>1 DEF Untrue, Told, history, Kinds, Gone
    <3> QED BY <1>1, <1>4, <1>5, <3>1
  <2>4. FoundOf(n)'
    <3>1. CASE k \in Gone
      BY <2>1, <3>1 DEF FoundOf, Told
    <3>2. CASE k \notin Gone
      <4>1. forge = "gitlab" /\ k # "bare" /\ answer'[n] = k /\ k \in shown'[n]
        BY <1>2, <1>4, <1>9, <2>1, <3>2 DEF SecondRead, Told, Gone, history
      <4>2. Promise'.rereads = {}
        BY <1>1, <1>2, <4>1 DEF Promise
      <4> QED BY <2>1, <3>2, <4>1, <4>2 DEF FoundOf
    <3> QED BY <3>1, <3>2
  <2> QED BY <1>1, <1>6, <2>1, <2>2, <2>3, <2>4, OneKeeps
<1> QED BY <1>7, <1>8, <1>9

LEMMA SecondStep ==
  ASSUME IInv, TypeOK', NEW n \in Names, Second(n), UNCHANGED <<worldVars, roundVars, history>>
  PROVE  IInv'
<1>1. stage[n] = "second" /\ Busy(n) /\ call # "idle" /\ Past(n) = 0
  BY DEF Second, Busy, Requests, IInv, Idle, All, Past
<1>2. UNCHANGED <<forge, stands, before, fresh, call, round, left, ticking, history>>
  BY DEF worldVars, roundVars
<1>3. /\ answer[n] \in shown[n] \ Gone
      /\ forge = "gitlab" => answer[n] = "bare"
      /\ forge = "azuredevops" => answer[n] # "archived"
      /\ stands[n] \in since[n] /\ stands[n] \in shown[n]
      /\ stands[n] \in Frozen /\ "bare" \in shown[n] => "full" \in shown[n]
      /\ Settled(n) /\ forge = "azuredevops" => stands[n] \in {"bare", "full"}
  BY <1>1 DEF IInv, CallInv, NameInv, FoundOf, HistoryOf, CalmOf
<1>4. stands[n] \in Kinds /\ shown[n] \subseteq Kinds /\ left[n] \in Nat /\ Attempts \in Nat \ {0}
  BY LookupAssumption DEF IInv, TypeOK
<1>5. CASE forge = "gitlab" /\ stands[n] \in {"nothing", "bare"}
  <2>1. stage' = [stage EXCEPT ![n] = "third"] /\ answer' = [answer EXCEPT ![n] = "bare"]
        /\ tries' = tries
    BY <1>5 DEF Second, AskOn, Goto
  <2>2. /\ stage'[n] = "third" /\ answer'[n] = "bare"
        /\ \A m \in Names \ {n} :
             stage'[m] = stage[m] /\ answer'[m] = answer[m] /\ tries'[m] = tries[m]
    BY <2>1 DEF IInv, TypeOK
  <2>3. Past(n)' = 0 /\ ~Untrue(n)' /\ ~Searching(n)'
    BY <2>2 DEF Past, Untrue, Searching
  <2>4. FoundOf(n)'
    BY <1>2, <1>3, <1>5, <2>2 DEF FoundOf, history, Gone
  <2> QED BY <1>1, <2>2, <2>3, <2>4, OneKeeps
<1>6. CASE ~(forge = "gitlab" /\ stands[n] \in {"nothing", "bare"})
  <2> DEFINE k == IF forge = "gitlab" THEN "full" ELSE Amended(n)
  <2>1. stage' = [stage EXCEPT ![n] = "done"] /\ answer' = [answer EXCEPT ![n] = Told(k)]
        /\ tries' = tries
    BY <1>6 DEF Second, Answer, Goto
  <2>2. /\ stage'[n] = "done" /\ answer'[n] = Told(k)
        /\ \A m \in Names \ {n} :
             stage'[m] = stage[m] /\ answer'[m] = answer[m] /\ tries'[m] = tries[m]
    BY <2>1 DEF IInv, TypeOK
  <2>3. k \in Kinds
    BY <1>3, <1>4 DEF Amended, Kinds, Gone
  <2>4. ~Busy(n)' /\ ~Searching(n)' /\ answer'[n] # "none"
    BY <2>2, <2>3, ToldType DEF Busy, Requests, Searching
  <2>5. k \in Gone => forge # "gitlab" /\ (stands[n] \in Gone \/ forge = "azuredevops")
    BY <1>3 DEF Amended, Gone
  <2>6. Untrue(n)' => call # "lookup" /\ left[n] > 0 /\ left[n] + Past(n) >= Attempts
    <3>1. Untrue(n)' => n \in calm /\ k \in Gone /\ stands[n] \notin Gone
      BY <1>2, <2>2, <2>3 DEF Untrue, Told, history, Kinds, Gone
    <3>2. Untrue(n)' => ~Settled(n)
      <4>1. forge = "azuredevops" /\ stands[n] \in {"bare", "full"} => k \notin Gone
        BY <1>3 DEF Amended, Gone
      <4> QED BY <1>3, <2>5, <3>1, <4>1
    <3> QED BY <1>1, <1>4, <3>1, <3>2 DEF Settled
  <2>7. FoundOf(n)'
    <3>1. CASE k \in Gone
      BY <2>2, <3>1 DEF FoundOf, Told
    <3>2. CASE k \notin Gone
      <4>1. answer'[n] = k
        BY <2>2, <3>2 DEF Told
      <4>2. k \in shown[n]
        <5>1. stands[n] \in {"full"} \cup Frozen /\ "bare" \in shown[n] => "full" \in shown[n]
          BY <1>3
        <5>2. CASE forge = "gitlab"
          <6>1. stands[n] \in {"full"} \cup Frozen /\ "bare" \in shown[n]
            BY <1>3, <1>4, <1>6, <5>2 DEF Frozen, Kinds
          <6> QED BY <5>1, <5>2, <6>1
        <5>3. CASE forge # "gitlab"
          <6>1. stands[n] # "nothing"
            BY <3>2, <5>3 DEF Amended, Gone
          <6>2. CASE k = answer[n] \/ k = stands[n]
            BY <1>3, <6>2
          <6>3. CASE k # answer[n] /\ k # stands[n]
            <7>1. k = "full" /\ stands[n] # "bare" /\ answer[n] # "archived"
              BY <3>2, <5>3, <6>3 DEF Amended, Gone
            <7>2. answer[n] \in {"bare", "full"}
              BY <1>3, <1>4, <7>1 DEF Kinds, Gone
            <7>3. stands[n] \in {"full"} \cup Frozen
              BY <1>4, <6>1, <7>1 DEF Kinds, Frozen
            <7> QED BY <1>3, <5>1, <7>1, <7>2, <7>3
          <6> QED BY <6>2, <6>3
        <5> QED BY <5>2, <5>3
      <4>3. CASE forge = "gitlab"
        <5>1. Promise'.rereads = {} /\ k # "bare"
          BY <1>1, <1>2, <4>3 DEF Promise
        <5> QED BY <1>2, <2>2, <3>2, <4>1, <4>2, <5>1 DEF FoundOf, history
      <4>4. CASE forge # "gitlab"
        <5>1. stands[n] # "nothing"
          BY <3>2, <4>4 DEF Amended, Gone
        <5>2. since[n] # {"nothing"}
          BY <1>3, <5>1
        <5>3. forge # "forgejo" /\ k = "bare" => stands[n] = "bare"
          BY <1>3, <4>4, <3>2 DEF Amended, Gone
        <5>4. Promise'.counts => forge # "forgejo"
          BY <1>1, <1>2 DEF Promise
        <5> QED BY <1>2, <1>3, <2>2, <3>2, <4>1, <4>2, <5>2, <5>3, <5>4 DEF FoundOf, history
      <4> QED BY <4>3, <4>4
    <3> QED BY <3>1, <3>2
  <2> HIDE DEF k
  <2> QED BY <1>1, <2>2, <2>4, <2>6, <2>7, OneKeeps
<1> QED BY <1>5, <1>6

LEMMA ThirdStep ==
  ASSUME IInv, TypeOK', NEW n \in Names, Third(n), UNCHANGED <<worldVars, roundVars, history>>
  PROVE  IInv'
<1>1. stage[n] = "third" /\ Busy(n) /\ call # "idle" /\ Past(n) = 0
  BY DEF Third, Busy, Requests, IInv, Idle, All, Past
<1>2. UNCHANGED <<forge, stands, before, fresh, call, round, left, ticking, history>>
  BY DEF worldVars, roundVars
<1>3. forge = "gitlab" /\ answer[n] = "bare" /\ "bare" \in shown[n]
      /\ since[n] \cap ({"bare"} \cup Gone) # {}
  BY <1>1 DEF IInv, CallInv, NameInv, FoundOf
<1>4. PICK k \in Object(n) : Answer(n, IF k = "nothing" THEN k ELSE "bare")
  BY DEF Third
<1>5. left[n] \in Nat /\ Attempts \in Nat \ {0}
  BY LookupAssumption DEF IInv, TypeOK
<1>6. /\ stage'[n] = "done" /\ answer'[n] = IF k = "nothing" THEN "missing" ELSE "bare"
      /\ \A m \in Names \ {n} :
           stage'[m] = stage[m] /\ answer'[m] = answer[m] /\ tries'[m] = tries[m]
  BY <1>4 DEF Answer, Goto, Told, Gone, IInv, TypeOK
<1>7. ~Busy(n)' /\ ~Searching(n)' /\ answer'[n] # "none"
  BY <1>6 DEF Busy, Requests, Searching
<1>8. Untrue(n)' => call # "lookup" /\ left[n] > 0 /\ left[n] + Past(n) >= Attempts
  <2>1. Untrue(n)' => n \in calm /\ k # stands[n]
    BY <1>2, <1>6 DEF Untrue, Gone, history
  <2> QED BY <1>1, <1>5, <2>1, Behind
<1>9. FoundOf(n)'
  <2>1. Promise'.rereads = {}
    BY <1>1, <1>2, <1>3 DEF Promise
  <2> QED BY <1>2, <1>3, <1>6, <2>1 DEF FoundOf, history, Gone
<1> QED BY <1>1, <1>6, <1>7, <1>8, <1>9, OneKeeps

LEMMA ListingStep ==
  ASSUME IInv, TypeOK', NEW n \in Names, Listing(n), UNCHANGED <<worldVars, roundVars, history>>
  PROVE  IInv'
<1>1. stage[n] = "listing" /\ Busy(n) /\ call # "idle" /\ Past(n) = tries[n] - 1
  BY DEF Listing, Busy, Requests, IInv, Idle, All, Past
<1>2. UNCHANGED <<forge, stands, before, fresh, call, round, left, ticking, history>>
  BY DEF worldVars, roundVars
<1>3. /\ forge = "azuredevops"
      /\ Settled(n) => stands[n] \in {"nothing", "archived"}
  BY <1>1 DEF IInv, CallInv, NameInv, StageOf, CalmOf, Searching
<1>4. PICK k \in Listed(n) :
        IF k \in Gone \cup {"archived"} THEN Answer(n, k)
        ELSE IF tries[n] = Attempts THEN Answer(n, "nothing")
        ELSE Goto(n, "relist") /\ tries' = [tries EXCEPT ![n] = @ + 1] /\ UNCHANGED answer
  BY DEF Listing
<1>5. /\ left[n] \in Nat /\ Attempts \in Nat \ {0} /\ tries[n] \in 1 .. Attempts
      /\ stands[n] \in Kinds
  BY LookupAssumption DEF IInv, TypeOK
<1>6. k \in Kinds /\ k \in shown[n]
  BY <1>1, <1>4, ObjectsAre, ObjectShown DEF IInv
<1>7. Settled(n) => k = stands[n]
  BY <1>1, <1>4, <1>5, CaughtUp DEF Settled
<1>8. \A m \in Names \ {n} :
        stage'[m] = stage[m] /\ answer'[m] = answer[m] /\ tries'[m] = tries[m]
  BY <1>4 DEF Answer, Goto, IInv, TypeOK
<1>9. n \in calm /\ ~Settled(n) => call # "lookup" /\ left[n] > 0 /\ left[n] + Past(n) >= Attempts
  BY <1>1, <1>5 DEF Settled
<1>10. CASE k \in Gone \cup {"archived"} \/ tries[n] = Attempts
  <2>1. stage'[n] = "done" /\ answer'[n] = IF k = "archived" THEN k ELSE "missing"
    BY <1>4, <1>10 DEF Answer, Goto, Told, Gone, IInv, TypeOK
  <2>2. ~Busy(n)' /\ ~Searching(n)' /\ answer'[n] # "none"
    BY <2>1 DEF Busy, Requests, Searching
  <2>3. Untrue(n)' => n \in calm /\ ~Settled(n)
    <3>1. Untrue(n)' => n \in calm /\ stands[n] \notin Gone /\ k # "archived"
      BY <1>2, <2>1 DEF Untrue, history
    <3> QED BY <1>3, <1>7, <3>1 DEF Gone
  <2>4. FoundOf(n)'
    <3>1. Promise'.rereads = {"bare", "full"}
      BY <1>1, <1>2, <1>3 DEF Promise
    <3> QED BY <1>2, <1>6, <2>1, <3>1 DEF FoundOf, history, Gone
  <2> QED BY <1>1, <1>8, <1>9, <2>1, <2>2, <2>3, <2>4, OneKeeps
<1>11. CASE ~(k \in Gone \cup {"archived"} \/ tries[n] = Attempts)
  <2>1. stage'[n] = "relist" /\ tries'[n] = tries[n] + 1
    BY <1>4, <1>11 DEF Goto, IInv, TypeOK
  <2>2. Past(n)' = Past(n) /\ ~Untrue(n)' /\ FoundOf(n)'
    BY <1>1, <1>5, <2>1 DEF Past, Untrue, FoundOf
  <2>3. Settled(n)' => Settled(n)
    BY <1>2, <2>2 DEF Settled, history
  <2> QED BY <1>1, <1>3, <1>5, <1>8, <2>1, <2>2, <2>3, OneKeeps
<1> QED BY <1>10, <1>11

LEMMA FailsStep ==
  ASSUME IInv, TypeOK', NEW n \in Names, Fails(n), UNCHANGED <<worldVars, roundVars, history>>
  PROVE  IInv'
<1>1. Busy(n) /\ call # "idle"
  BY DEF Fails, Busy, Requests, IInv, Idle, All
<1>2. n \in Chunk(n) /\ Chunk(n) \in SUBSET round /\ round \subseteq Names
  BY <1>1, ChunkIs DEF IInv, TypeOK
<1>3. UNCHANGED <<forge, stands, before, fresh, call, round, left, ticking, history>>
  BY DEF worldVars, roundVars
<1>4. call = "get_confirmed" => round = Names
  BY <1>1 DEF IInv, CallInv, NameInv, StageOf
<1>5. ASSUME NEW m \in Chunk(n)
      PROVE  /\ stage'[m] # "pausing"
             /\ Busy(m)' => Past(m)' = Past(n)
             /\ Untrue(m)' => left[n] + Past(n) >= Attempts
             /\ StageOf(m)' /\ FoundOf(m)' /\ CalmOf(m)'
  <2>1. stage'[m] = "failed" /\ m \in round
    BY <1>2 DEF Fails
  <2> QED BY <1>3, <1>4, <2>1 DEF Busy, Requests, Untrue, StageOf, FoundOf, CalmOf, Searching
<1>6. \A m \in Names \ Chunk(n) :
        stage'[m] = stage[m] /\ answer'[m] = answer[m] /\ tries'[m] = tries[m]
  BY DEF Fails
<1> QED BY <1>1, <1>2, <1>5, <1>6, AskKeeps

LEMMA AskStep ==
  ASSUME IInv, NEW n \in Names, Ask(n)
  PROVE  IInv'
<1>1. TypeOK' /\ UNCHANGED <<worldVars, roundVars, history>>
  BY AskType DEF IInv, Ask
<1> QED BY <1>1, QueryStep, GetStep, SecondStep, ThirdStep, ListingStep, FailsStep DEF Ask

-----------------------------------------------------------------------------
(* Calls, time and others *)

\* A deadline that has passed when the answer came ends the search for the name.
LEMMA JudgeStep ==
  ASSUME IInv, NEW n \in Names, Judge(n)
  PROVE  IInv'
<1>1. TypeOK' /\ call = "get_confirmed" /\ stage[n] = "done"
  BY CallType DEF IInv, Judge
<1>2. UNCHANGED <<forge, stands, before, fresh, call, round, left, ticking, history, answer, tries>>
  BY DEF Judge, worldVars, roundVars
<1>3. Idle' /\ World' /\ Clocks'
  BY <1>1, <1>2 DEF IInv, CallInv, Idle, World, Clocks
<1>4. ASSUME NEW m \in Names PROVE NameInv(m)'
  <2>1. NameInv(m) /\ NameInv(n)
    BY <1>1 DEF IInv, CallInv
  <2>2. CASE m # n
    BY <1>2, <2>1, <2>2, Same DEF Judge, Goto, IInv, TypeOK
  <2>3. CASE m = n
    <3>1. /\ HistoryOf(n)'
          /\ Promise' = Promise
      BY <1>2, <2>1 DEF NameInv, HistoryOf, Promise, FirstRequest, history
    <3>2. \/ stage'[n] = "pausing" /\ answer[n] = "missing"
          \/ stage'[n] = "believed" /\ (answer[n] = "missing" => left[n] = 0)
      BY DEF Judge, Goto, Believed, IInv, TypeOK
    <3>3. round = Names /\ answer[n] # "none"
      BY <1>1, <2>1 DEF NameInv, StageOf
    <3>4. StageOf(n)'
      BY <1>1, <1>2, <3>2, <3>3 DEF StageOf, Busy, Requests, Searching
    <3>5. FoundOf(n)'
      BY <1>1, <1>2, <2>1, <3>1, <3>2 DEF NameInv, FoundOf, history
    <3>6. n \in calm /\ answer[n] = "missing" /\ left[n] = 0 => stands[n] \in Gone
      BY <1>1, <2>1 DEF NameInv, CalmOf, Untrue
    <3>7. CalmOf(n)'
      BY <1>2, <3>2, <3>6 DEF CalmOf, Searching, Untrue, history
    <3> QED BY <2>3, <3>1, <3>4, <3>5, <3>7 DEF NameInv
  <2> QED BY <2>2, <2>3
<1> QED BY <1>1, <1>2, <1>3, <1>4 DEF IInv, CallInv, Together

\* A next round of lookup_confirmed: it is about what is missing.
LEMMA AskAgainStep ==
  ASSUME IInv, AskAgain
  PROVE  IInv'
<1>1. TypeOK' /\ call = "lookup_confirmed"
  BY CallType DEF IInv, AskAgain
<1>2. UNCHANGED <<forge, stands, before, fresh, call, left, history, answer, tries>> /\ ticking'
  BY DEF AskAgain, Pause, worldVars
<1>3. round' = Missing /\ \A m \in Names : stage'[m] = IF m \in Missing THEN "pausing" ELSE stage[m]
  BY DEF AskAgain, Pause
<1>4. ASSUME NEW m \in Names
      PROVE  NameInv(m) /\ stage[m] = "done" /\ (m \in Missing <=> answer[m] = "missing")
  <2>1. NameInv(m)
    BY <1>1 DEF IInv, CallInv
  <2>2. m \in round => stage[m] = "done"
    BY DEF AskAgain, RoundOver
  <2> QED BY <1>1, <2>1, <2>2 DEF NameInv, StageOf, Missing
<1>5. Idle' /\ World'
  BY <1>1, <1>2 DEF IInv, Idle, World
<1>6. Clocks'
  BY <1>1, <1>2 DEF IInv, CallInv, Clocks
<1>7. ASSUME NEW m \in Names PROVE NameInv(m)'
  <2>1. StageOf(m)'
    BY <1>1, <1>2, <1>3, <1>4 DEF StageOf, NameInv, Busy, Requests, Searching
  <2>2. FoundOf(m)'
    <3>1. Promise' = Promise
      BY <1>2 DEF Promise, FirstRequest
    <3> QED BY <1>2, <1>3, <1>4, <3>1 DEF NameInv, FoundOf, history
  <2>3. CalmOf(m)'
    BY <1>2, <1>3, <1>4 DEF CalmOf, Searching, Untrue
  <2>4. HistoryOf(m)'
    <3>1. ~ticking => left[m] = Patience
      BY <1>1 DEF IInv, CallInv, Clocks
    <3>2. fresh[m] \in 0 .. Lag /\ Patience \in Nat /\ Lag \in Nat /\ ticking \in BOOLEAN
      BY LookupAssumption DEF IInv, TypeOK
    <3>3. call \in Confirming /\ m \in calm => fresh[m] = 0 \/ fresh[m] + Patience <= Lag + left[m]
      BY <1>4, <3>1, <3>2 DEF NameInv, HistoryOf
    <3> QED BY <1>2, <1>4, <3>3 DEF NameInv, HistoryOf, history
  <2> QED BY <2>1, <2>2, <2>3, <2>4 DEF NameInv
<1>8. Together'
  BY <1>3 DEF Together, Busy, Requests, Untrue, Missing
<1> QED BY <1>1, <1>5, <1>6, <1>7, <1>8 DEF IInv, CallInv

LEMMA StartStep ==
  ASSUME IInv, NEW c \in Calls, StartCall(c)
  PROVE  IInv'
<1>1. TypeOK' /\ call' = c /\ c # "idle" /\ round' = Names
  BY CallType DEF IInv, StartCall, Calls
<1>2. UNCHANGED <<forge, stands, before, fresh>>
  BY DEF StartCall, worldVars
<1>3. Idle' /\ World'
  BY <1>1, <1>2 DEF IInv, Idle, World
<1>4. Clocks'
  BY <1>1 DEF StartCall, Clocks, All
<1>5. FirstRequest(c)' = FirstRequest(c) /\ FirstRequest(c) \in {"query", "get"}
  BY <1>2 DEF FirstRequest
<1>6. ASSUME NEW m \in Names PROVE NameInv(m)' /\ stage'[m] \in {"query", "get"}
  <2>1. stage'[m] = FirstRequest(c)
    BY DEF StartCall, All
  <2>2. StageOf(m)'
    BY <1>1, <1>5, <2>1 DEF StageOf, Busy, Requests, Searching
  <2>3. FoundOf(m)' /\ CalmOf(m)'
    BY <1>5, <2>1 DEF FoundOf, CalmOf, Searching, Untrue
  <2>4. HistoryOf(m)'
    <3>1. /\ since'[m] = {stands[m]} /\ shown'[m] = {stands[m]} \cup before[m]
          /\ m \in calm' => c # "lookup" \/ before[m] = {}
          /\ left'[m] = Patience
      BY DEF StartCall, All
    <3>2. fresh[m] \in 0 .. Lag /\ Patience \in Nat /\ Lag \in Nat
      BY LookupAssumption DEF IInv, TypeOK
    <3>3. stands[m] \in Frozen /\ "bare" \in before[m] => "full" \in before[m]
      BY DEF IInv, World
    <3> QED BY <1>1, <1>2, <3>1, <3>2, <3>3 DEF HistoryOf, Frozen
  <2> QED BY <1>5, <2>1, <2>2, <2>3, <2>4 DEF NameInv
<1>7. Together'
  BY <1>1, <1>6 DEF Together, Past, Untrue
<1> QED BY <1>1, <1>3, <1>4, <1>6, <1>7 DEF IInv, CallInv

LEMMA EndStep ==
  ASSUME IInv, Return \/ Interrupt
  PROVE  IInv'
<1>1. PICK result : End(result)
  BY DEF Return, Interrupt
<1>2. TypeOK'
  BY CallType DEF IInv
<1> QED BY <1>1, <1>2 DEF IInv, End, Idle, World, CallInv, worldVars
LEMMA TickStep ==
  ASSUME IInv, Slow = {}, Tick
  PROVE  IInv'
<1>1. TypeOK' /\ UNCHANGED <<forge, stands, answer, tries, call, round, ticking, history>>
  BY TickType DEF IInv, Tick
<1>2. ASSUME NEW m \in Names
      PROVE  /\ fresh[m] \in 0 .. Lag /\ fresh'[m] = Less(fresh[m])
             /\ before'[m] = IF fresh[m] > 1 THEN before[m] ELSE {}
             /\ left[m] \in 0 .. Patience
             /\ left'[m] = IF ticking THEN Less(left[m]) ELSE left[m]
             /\ stage'[m] = IF stage[m] = "pausing" THEN FirstRequest(call)
                            ELSE IF stage[m] = "relist" THEN "listing" ELSE stage[m]
             /\ stage[m] \in StageType
             /\ tries[m] \in 1 .. Attempts
  BY DEF Tick, IInv, TypeOK, StageType
<1>3. FirstRequest(call)' = FirstRequest(call) /\ FirstRequest(call) \in {"query", "get"}
      /\ Promise' = Promise
  BY <1>1 DEF FirstRequest, Promise
<1>4. Idle'
  BY <1>1, <1>2 DEF IInv, Idle, All, Tick
<1>5. World'
  <2>1. ASSUME NEW m \in Names
        PROVE  (before'[m] = {} <=> fresh'[m] = 0) /\ before'[m] \subseteq before[m]
    BY <1>2, LookupAssumption DEF Less, IInv, World
  <2>2. ASSUME NEW m \in Names, stands[m] \in Frozen, "bare" \in before'[m]
        PROVE  "full" \in before'[m]
    <3>1. before'[m] = before[m]
      BY <1>2, <2>2
    <3> QED BY <2>2, <3>1 DEF IInv, World
  <2> QED BY <1>1, <2>1, <2>2 DEF World
<1>6. ASSUME call # "idle" PROVE CallInv'
  <2>1. Clocks /\ Together /\ \A m \in Names : NameInv(m)
    BY <1>6 DEF IInv, CallInv
  <2>2. /\ ~AtHand
        /\ Patience \in Nat /\ Lag \in Nat \ {0} /\ Attempts \in Nat \ {0}
        /\ Lag + Attempts <= Patience + 1 /\ ticking \in BOOLEAN
    BY LookupAssumption DEF Tick, IInv, TypeOK
  <2>3. ASSUME NEW m \in Names
        PROVE  /\ stage[m] \in {"relist", "pausing", "done", "believed", "failed"}
               /\ call = "get_confirmed" => stage[m] # "done"
    BY <1>2, <2>1, <2>2 DEF AtHand, StageType, NameInv, StageOf
  <2>4. ASSUME NEW m \in Names
        PROVE  /\ stage[m] = "relist" => stage'[m] = "listing" /\ Past(m)' = Past(m) + 1
               /\ stage[m] = "pausing" => stage'[m] = FirstRequest(call) /\ Past(m)' = 0
               /\ stage[m] \notin {"relist", "pausing"} => stage'[m] = stage[m] /\ Past(m)' = 0
    BY <1>1, <1>2, <1>3, <2>3 DEF Past
  <2>5. ASSUME NEW m \in Names
        PROVE  left'[m] \in Nat /\ left[m] <= left'[m] + 1 /\ left'[m] <= left[m]
    BY <1>2, <2>2 DEF Less
  <2>6. ASSUME NEW m \in Names, Busy(m)'
        PROVE  stage[m] \in {"relist", "pausing"}
    BY <2>3, <2>4, <2>6 DEF Busy, Requests
  <2>7. ASSUME NEW m \in Names, Untrue(m)'
        PROVE  Untrue(m)
    BY <1>1, <1>3, <2>3, <2>4, <2>7 DEF Untrue, history
  <2>8. Clocks'
    BY <1>1, <1>2, <2>1 DEF Clocks
  <2>9. Together'
    <3> SUFFICES ASSUME call # "get_confirmed", NEW n \in round, NEW m \in round
                 PROVE  /\ stage'[n] # "pausing"
                        /\ Busy(n)' /\ Busy(m)' => Past(n)' = Past(m)'
                        /\ Untrue(n)' /\ Busy(m)' => left'[m] + Past(m)' >= Attempts
      BY <1>1 DEF Together
    <3>1. n \in Names /\ m \in Names
      BY DEF IInv, TypeOK
    <3>2. /\ stage[n] = "pausing" <=> stage[m] = "pausing"
          /\ Busy(n) /\ Busy(m) => Past(n) = Past(m)
          /\ Untrue(n) /\ Busy(m) => left[m] + Past(m) >= Attempts
      BY <2>1 DEF Together
    <3>3. stage'[n] # "pausing"
      BY <1>3, <2>3, <2>4, <3>1
    <3>4. ASSUME Busy(n)', Busy(m)' PROVE Past(n)' = Past(m)'
      BY <2>4, <2>6, <3>1, <3>2, <3>4 DEF Busy
    <3>5. ASSUME Untrue(n)', Busy(m)' PROVE left'[m] + Past(m)' >= Attempts
      <4>1. stage[m] = "relist" /\ Past(m)' = Past(m) + 1 /\ Busy(m)
        <5>1. stage[n] = "done" /\ stage[m] \in {"relist", "pausing"}
          BY <2>6, <2>7, <3>1, <3>5 DEF Untrue
        <5> QED BY <2>4, <3>1, <3>2, <5>1 DEF Busy
      <4>2. left[m] + Past(m) >= Attempts
        BY <2>7, <3>1, <3>2, <3>5, <4>1
      <4>3. Past(m) \in Int /\ left[m] \in Int
        BY <1>2, <3>1, <4>1 DEF Past
      <4> QED BY <2>2, <2>5, <3>1, <4>1, <4>2, <4>3
    <3> QED BY <3>3, <3>4, <3>5
  <2>10. ASSUME NEW m \in Names PROVE NameInv(m)'
    <3>1. NameInv(m)
      BY <2>1
    <3>2. StageOf(m)'
      <4>1. stage'[m] # "idle" /\ stage'[m] # "relist" /\ stage'[m] # "pausing"
        BY <1>3, <2>3, <2>4
      <4>2. Busy(m)' => m \in round
        BY <2>6, <3>1 DEF NameInv, StageOf, Busy
      <4>3. stage'[m] = "query" => FirstRequest(call) = "query"
        BY <2>3, <2>4
      <4>4. Searching(m)' => forge = "azuredevops"
        BY <1>3, <2>3, <2>4, <3>1 DEF Searching, NameInv, StageOf
      <4>5. stage'[m] \in {"done", "believed"} => stage'[m] = stage[m]
        BY <1>3, <2>3, <2>4
      <4>6. stage[m] = "done" => stage'[m] = "done"
        BY <2>4
      <4> QED BY <1>1, <1>3, <3>1, <4>1, <4>2, <4>3, <4>4, <4>5, <4>6 DEF NameInv, StageOf
    <3>3. HistoryOf(m)'
      <4>1. before'[m] \subseteq before[m]
        BY <1>2
      <4>2. ASSUME ticking, fresh[m] = 0 \/ fresh[m] + Patience <= Lag + left[m]
            PROVE  fresh'[m] = 0 \/ fresh'[m] + Patience <= Lag + left'[m]
        BY <1>2, <2>2, <4>2 DEF Less
      <4> QED BY <1>1, <3>1, <4>1, <4>2 DEF NameInv, HistoryOf, history
    <3>4. FoundOf(m)'
      <4>1. stage'[m] \notin {"second", "third"}
        BY <1>3, <2>3, <2>4
      <4>2. stage'[m] \in {"done", "believed"} => stage'[m] = stage[m]
        BY <1>3, <2>3, <2>4
      <4> QED BY <1>1, <1>3, <3>1, <4>1, <4>2 DEF NameInv, FoundOf, history
    <3>5. CalmOf(m)'
      <4>1. ASSUME Settled(m)', Searching(m)' PROVE stands[m] \in {"nothing", "archived"}
        <5>1. stage[m] = "relist" /\ Past(m)' = Past(m) + 1 /\ Past(m) \in Int
          BY <1>2, <1>3, <2>3, <2>4, <4>1 DEF Searching, Past
        <5>2. Settled(m)
          BY <1>1, <1>2, <2>2, <2>5, <4>1, <5>1 DEF Settled, history
        <5> QED BY <3>1, <5>1, <5>2 DEF NameInv, CalmOf, Searching
      <4>2. stage'[m] # "second"
        BY <1>3, <2>3, <2>4
      <4>3. stage'[m] = "believed" => stage[m] = "believed"
        BY <1>3, <2>3, <2>4
      <4>4. ASSUME Untrue(m)' PROVE call # "lookup" /\ left'[m] > 0
        <5>1. Untrue(m) /\ stage[m] = "done" /\ call # "lookup" /\ left[m] > 0
          BY <2>7, <3>1, <4>4 DEF NameInv, CalmOf, Untrue
        <5>2. call = "lookup_confirmed" /\ m \in round
          BY <1>6, <2>3, <3>1, <5>1 DEF NameInv, StageOf, Untrue, IInv, TypeOK, Calls
        <5>3. PICK x \in round : stage[x] \notin {"done", "failed"}
          BY <2>2, <5>2 DEF AtHand, RoundOver
        <5>4. x \in Names /\ stage[x] # "believed"
          BY <2>1, <5>2 DEF IInv, TypeOK, NameInv, StageOf
        <5>5. stage[x] = "relist"
          <6>1. stage[x] # "pausing"
            BY <2>1, <5>1, <5>2 DEF Together
          <6> QED BY <2>3, <5>3, <5>4, <6>1
        <5>6. left[x] + Past(x) >= Attempts
          BY <2>1, <5>1, <5>2, <5>5 DEF Together, Busy
        <5>7. left[m] >= 2
          <6>1. left[x] = left[m]
            BY <2>1, <5>4 DEF Clocks
          <6>2. Past(x) = tries[x] - 2
            BY <5>5 DEF Past
          <6> QED BY <1>2, <2>2, <5>4, <5>6, <6>1, <6>2
        <5> QED BY <1>2, <2>5, <5>1, <5>7
      <4> QED BY <1>1, <3>1, <4>1, <4>2, <4>3, <4>4 DEF NameInv, CalmOf, history
    <3> QED BY <3>2, <3>3, <3>4, <3>5 DEF NameInv
  <2> QED BY <2>8, <2>9, <2>10 DEF CallInv
<1>7. CallInv'
  BY <1>1, <1>6 DEF CallInv
<1> QED BY <1>1, <1>4, <1>5, <1>7 DEF IInv

\* Others write at any time: what they have written to is calm no more.
LEMMA EditStep ==
  ASSUME IInv, NEW n \in Names, Edit(n)
  PROVE  IInv'
<1>1. TypeOK' /\ UNCHANGED <<forge, stageVars, roundVars>>
  BY EditType DEF IInv, Edit
<1>2. PICK k \in Becomes(stands[n]) :
        /\ stands' = [stands EXCEPT ![n] = k]
        /\ IF call = "idle" THEN UNCHANGED <<since, shown>>
           ELSE /\ since' = [since EXCEPT ![n] = @ \cup {k}]
                /\ shown' = [shown EXCEPT ![n] = @ \cup {k}]
  BY DEF Edit
<1>3. k \in Frozen => stands[n] = "full"
  BY BecomesWhat DEF IInv, TypeOK
<1>4. /\ stands'[n] = k /\ before'[n] = before[n] \cup {stands[n]} /\ fresh'[n] = Lag
      /\ n \notin calm'
      /\ \A m \in Names \ {n} : /\ stands'[m] = stands[m] /\ before'[m] = before[m]
                               /\ fresh'[m] = fresh[m] /\ (m \in calm' <=> m \in calm)
  BY <1>2 DEF Edit, IInv, TypeOK
<1>5. Idle'
  BY <1>1 DEF IInv, Idle, stageVars, roundVars
<1>6. World'
  BY <1>3, <1>4, LookupAssumption DEF IInv, World, Frozen
<1>7. ASSUME call # "idle" PROVE CallInv'
  <2>1. Clocks /\ Together /\ \A m \in Names : NameInv(m)
    BY <1>7 DEF IInv, CallInv
  <2>2. /\ since'[n] = since[n] \cup {k} /\ shown'[n] = shown[n] \cup {k}
        /\ \A m \in Names \ {n} : since'[m] = since[m] /\ shown'[m] = shown[m]
    BY <1>2, <1>7 DEF IInv, TypeOK
  <2>3. /\ UNCHANGED <<call, round, left, ticking, stage, answer, tries>>
        /\ FirstRequest(call)' = FirstRequest(call) /\ Promise' = Promise
    BY <1>1 DEF stageVars, roundVars, FirstRequest, Promise
  <2>4. ASSUME NEW m \in Names
        PROVE  /\ Busy(m)' = Busy(m) /\ Searching(m)' = Searching(m) /\ Past(m)' = Past(m)
               /\ Untrue(m)' => Untrue(m) /\ m # n
               /\ Settled(m)' => Settled(m) /\ m # n
    BY <1>4, <2>3 DEF Busy, Searching, Past, Untrue, Settled
  <2>5. Clocks'
    BY <2>1, <2>3 DEF Clocks
  <2>6. Together'
    <3>1. round \subseteq Names
      BY DEF IInv, TypeOK
    <3> QED BY <2>1, <2>3, <2>4, <3>1 DEF Together
  <2>7. ASSUME NEW m \in Names PROVE NameInv(m)'
    <3>1. NameInv(m)
      BY <2>1
    <3>2. StageOf(m)'
      BY <1>1, <2>3, <2>4, <3>1 DEF NameInv, StageOf
    <3>3. HistoryOf(m)'
      <4>1. CASE m = n
        <5>1. /\ k \in since'[n] /\ since'[n] \subseteq shown'[n] /\ before'[n] \subseteq shown'[n]
              /\ k \in Frozen => "full" \in shown'[n]
          BY <1>3, <1>4, <2>2, <3>1, <4>1 DEF NameInv, HistoryOf
        <5> QED BY <1>4, <4>1, <5>1 DEF HistoryOf
      <4>2. CASE m # n
        BY <1>4, <2>2, <2>3, <3>1, <4>2 DEF NameInv, HistoryOf
      <4> QED BY <4>1, <4>2
    <3>4. FoundOf(m)'
      <4>1. since[m] \subseteq since'[m] /\ shown[m] \subseteq shown'[m] /\ stands[m] \in since[m]
        BY <2>2, <3>1 DEF NameInv, HistoryOf
      <4>2. since[m] # {"nothing"} => since'[m] # {"nothing"}
        BY <4>1
      <4> QED BY <1>1, <2>3, <3>1, <4>1, <4>2 DEF NameInv, FoundOf
    <3>5. CalmOf(m)'
      BY <1>4, <1>1, <2>3, <2>4, <3>1 DEF NameInv, CalmOf
    <3> QED BY <3>2, <3>3, <3>4, <3>5 DEF NameInv
  <2> QED BY <2>5, <2>6, <2>7 DEF CallInv
<1>8. CallInv'
  BY <1>1, <1>7 DEF CallInv, roundVars
<1> QED BY <1>1, <1>5, <1>6, <1>8 DEF IInv

LEMMA InitInv == Init => IInv
<1> SUFFICES ASSUME Init PROVE IInv
  OBVIOUS
<1>1. TypeOK
  BY InitType
<1>2. World
  BY DEF Init, World, All
<1> QED BY <1>1, <1>2 DEF Init, IInv, Idle, CallInv

LEMMA StepInv ==
  ASSUME Slow = {}
  PROVE  IInv /\ [Next]_vars => IInv'
<1> SUFFICES ASSUME IInv, [Next]_vars PROVE IInv'
  OBVIOUS
<1>1. CASE Next
  BY <1>1, AskStep, JudgeStep, AskAgainStep, EndStep, TickStep, EditStep, StartStep
  DEF Next, Goes
<1>2. CASE UNCHANGED vars
  <2>1. UNCHANGED <<worldVars, stageVars, roundVars, faults, history>>
    BY <1>2 DEF vars
  <2>2. TypeOK' /\ Idle' /\ World'
    BY <2>1 DEF IInv, TypeOK, Idle, World, worldVars, stageVars, roundVars, history
  <2>3. UNCHANGED <<forge, stands, before, fresh, call, round, left, ticking, history, stage,
                    answer, tries>>
    BY <2>1 DEF worldVars, stageVars, roundVars
  <2>4. ASSUME call # "idle" PROVE Clocks' /\ Together' /\ \A m \in Names : NameInv(m)'
    <3>1. Clocks /\ Together /\ \A m \in Names : NameInv(m)
      BY <2>4 DEF IInv, CallInv
    <3>2. Clocks' /\ Together'
      BY <2>3, <3>1 DEF Clocks, Together, Busy, Past, Untrue, history
    <3>3. \A m \in Names : NameInv(m)'
      BY <2>3, <3>1, Same
    <3> QED BY <3>2, <3>3
  <2> QED BY <2>2, <2>3, <2>4 DEF IInv, CallInv
<1> QED BY <1>1, <1>2

-----------------------------------------------------------------------------
(* The refinement *)

LEMMA EditWrites ==
  ASSUME IInv, NEW n \in Names, Edit(n)
  PROVE  Promised!Next
<1>1. PICK k \in Becomes(stands[n]) :
        /\ stands' = [stands EXCEPT ![n] = k]
        /\ IF call = "idle" THEN UNCHANGED <<since, shown>>
           ELSE /\ since' = [since EXCEPT ![n] = @ \cup {k}]
                /\ shown' = [shown EXCEPT ![n] = @ \cup {k}]
  BY DEF Edit
<1>2. k \in Kinds
  BY BecomesWhat DEF IInv, TypeOK
<1>3. UNCHANGED <<forge, call, answer>>
  BY DEF Edit, stageVars, roundVars
<1>4. Promise' = Promise
  BY <1>3 DEF Promise, FirstRequest
<1>5. Promised!Write(n, k)
  BY <1>1, <1>3, <1>4 DEF Edit, Promised!Write
<1> QED BY <1>2, <1>5 DEF Promised!Next

LEMMA TickFades ==
  ASSUME IInv, Tick
  PROVE  Promised!Next
<1> DEFINE S == {n \in Names : ~(fresh[n] > 1)}
<1>1. before' = [n \in Names |-> IF n \in S THEN {} ELSE before[n]]
  BY DEF Tick
<1>2. UNCHANGED <<forge, stands, call, answer, calm, since, shown>>
  BY DEF Tick, history
<1>3. Promise' = Promise
  BY <1>2 DEF Promise, FirstRequest
<1>4. S \in SUBSET Names
  OBVIOUS
<1> HIDE DEF S
<1> QED BY <1>1, <1>2, <1>3, <1>4 DEF Promised!Next, Promised!Fade, Promised!callVars

LEMMA StartBegins ==
  ASSUME IInv, NEW c \in Calls, StartCall(c)
  PROVE  Promised!Next
<1>1. call = "idle" /\ call' = c /\ c # "idle"
  BY DEF StartCall, Calls
<1>2. Promise' \in Promised!Promises /\ (Promise'.confirms <=> c # "lookup")
  <2> DEFINE confirms == c \in Confirming
             alone == forge' = "github" /\ FirstRequest(c)' = "get"
             rereads == IF forge' = "forgejo" \/ alone THEN Kinds \ Gone
                        ELSE IF forge' = "azuredevops" THEN {"bare", "full"} ELSE {}
             counts == forge' \in {"gitlab", "azuredevops"} \/ alone
  <2>1. Promise' = [confirms |-> confirms, rereads |-> rereads, counts |-> counts]
    BY <1>1 DEF Promise
  <2>2. confirms \in BOOLEAN /\ counts \in BOOLEAN /\ (confirms <=> c # "lookup")
    BY DEF Confirming, Calls
  <2>3. rereads \in SUBSET (Kinds \ Gone)
    BY DEF Kinds, Gone
  <2> HIDE DEF confirms, rereads, counts
  <2> QED BY <2>1, <2>2, <2>3 DEF Promised!Promises
<1>3. Promised!Begin(Promise')
  BY <1>1, <1>2 DEF StartCall, Promised!Begin, Promised!Silence, All, worldVars
<1> QED BY <1>2, <1>3 DEF Promised!Next

LEMMA AsksStutter ==
  ASSUME IInv, (\E n \in Names : Ask(n) \/ Judge(n)) \/ AskAgain
  PROVE  UNCHANGED Promised!vars
<1>1. call # "idle" /\ UNCHANGED <<forge, stands, before, call, calm, since, shown>>
  <2>1. ASSUME NEW n \in Names, Ask(n)
        PROVE  call # "idle" /\ UNCHANGED <<forge, stands, before, call, calm, since, shown>>
    <3>1. stage[n] \in Requests
      BY <2>1 DEF Ask, Query, Get, Second, Third, Listing, Fails, Requests
    <3>2. call # "idle"
      BY <3>1 DEF IInv, Idle, All, Requests
    <3> QED BY <2>1, <3>2 DEF Ask, worldVars, roundVars, history
  <2>2. ASSUME NEW n \in Names, Judge(n)
        PROVE  call # "idle" /\ UNCHANGED <<forge, stands, before, call, calm, since, shown>>
    BY <2>2 DEF Judge, worldVars, roundVars, history
  <2>3. CASE AskAgain
    BY <2>3 DEF AskAgain, Pause, worldVars, history
  <2> QED BY <2>1, <2>2, <2>3
<1>2. Promise' = Promise
  BY <1>1 DEF Promise, FirstRequest
<1> QED BY <1>1, <1>2 DEF Promised!vars, Promised!callVars, All

\* What a call that succeeds says is what its promise allows.
LEMMA ReturnSays ==
  ASSUME IInv, Return, NEW n \in Names, \A m \in Names : stage[m] # "failed"
  PROVE  Promised!MaySay(n, answer[n])
<1>1. call # "idle" /\ Clocks /\ \A m \in Names : NameInv(m)
  BY DEF Return, IInv, CallInv
<1>2. stage[n] \in {"done", "believed"}
  BY <1>1 DEF Return, RoundOver, NameInv, StageOf
<1>3. CASE answer[n] = "missing"
  <2>1. ASSUME n \in calm PROVE stands[n] \in Gone
    <3>1. CASE stage[n] = "believed"
      BY <1>1, <1>3, <2>1, <3>1 DEF NameInv, CalmOf
    <3>2. CASE stage[n] = "done"
      <4>1. Untrue(n) => call # "lookup" /\ left[n] > 0
        BY <1>1 DEF NameInv, CalmOf
      <4>2. call = "lookup" \/ left[n] = 0
        <5>1. call # "get_confirmed"
          BY <3>2 DEF Return
        <5>2. ASSUME call = "lookup_confirmed" PROVE left[n] = 0
          <6>1. n \in Missing
            BY <1>3 DEF Missing
          <6>2. round \subseteq Names
            BY DEF IInv, TypeOK
          <6>3. PICK m \in Missing : left[m] = 0
            BY <5>2, <6>1, <6>2 DEF Return, Believed
          <6> QED BY <1>1, <6>3 DEF Clocks, Missing
        <5> QED BY <1>1, <5>1, <5>2 DEF IInv, TypeOK, Calls
      <4> QED BY <1>3, <2>1, <3>2, <4>1, <4>2 DEF Untrue
    <3> QED BY <1>2, <3>1, <3>2
  <2>2. stands[n] \in since[n]
    BY <1>1 DEF NameInv, HistoryOf
  <2> QED BY <1>3, <2>1, <2>2 DEF Promised!MaySay
<1>4. CASE answer[n] # "missing"
  BY <1>1, <1>2, <1>4 DEF NameInv, FoundOf, Promised!MaySay
<1> QED BY <1>3, <1>4

LEMMA EndEnds ==
  ASSUME IInv, Return \/ Interrupt
  PROVE  Promised!Next
<1>1. PICK result \in {"ok", "failed"} :
        End(result) /\ (result = "ok" => Return /\ \A m \in Names : stage[m] # "failed")
  BY DEF Return, Interrupt
<1>2. call # "idle" /\ call' = "idle"
  BY <1>1 DEF Return, Interrupt, End
<1>3. Promise' = Promised!NoPromise
  BY <1>2 DEF Promise, Promised!NoPromise
<1>4. answer' \in [Names -> {"none", "missing"} \cup (Kinds \ Gone)]
  BY CallType DEF IInv, TypeOK
<1>5. ASSUME NEW n \in Names
      PROVE  answer'[n] = "none" \/ Promised!MaySay(n, answer'[n])
  <2>1. CASE result = "ok"
    BY <1>1, <2>1, ReturnSays DEF End
  <2>2. CASE result # "ok"
    BY <1>1, <2>2 DEF End, All
  <2> QED BY <2>1, <2>2
<1>6. Promised!End
  BY <1>1, <1>2, <1>3, <1>4, <1>5 DEF End, Promised!End, Promised!Forgotten, All, worldVars
<1> QED BY <1>6 DEF Promised!Next

LEMMA InitRefines == Init => Promised!Init
<1> SUFFICES ASSUME Init PROVE Promised!Init
  OBVIOUS
<1>1. TypeOK
  BY InitType
<1> QED BY <1>1 DEF Init, TypeOK, Promised!Init, Promised!Forgotten, Promised!Silence,
        Promised!NoPromise, Promise, All

LEMMA StepRefines == IInv /\ [Next]_vars => [Promised!Next]_(Promised!vars)
<1> SUFFICES ASSUME IInv, [Next]_vars PROVE Promised!Next \/ UNCHANGED Promised!vars
  OBVIOUS
<1>1. CASE Next
  BY <1>1, EditWrites, TickFades, StartBegins, AsksStutter, EndEnds DEF Next, Goes
<1>2. CASE UNCHANGED vars
  BY <1>2 DEF vars, worldVars, stageVars, roundVars, history, Promised!vars, Promised!callVars,
     Promise, FirstRequest, All
<1> QED BY <1>1, <1>2

\* A lookup keeps its promise where no request takes longer than a moment: "missing" is
\* believed only of what is missing, what has gone is not found, what has commits is not
\* called empty.
THEOREM Truthful ==
  ASSUME Slow = {}
  PROVE  Spec => TellsTheTruth
<1>1. Init => IInv
  BY InitInv
<1>2. IInv /\ [Next]_vars => IInv'
  BY StepInv
<1> QED BY <1>1, <1>2, InitRefines, StepRefines, PTL DEF Spec, TellsTheTruth, Promised!Spec
=============================================================================
