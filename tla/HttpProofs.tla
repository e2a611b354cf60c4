------------------------------ MODULE HttpProofs ------------------------------
(***************************************************************************)
(* What holds of the HTTP client for any number of requests, whatever the  *)
(* forge answers and whatever the policy is: types, one write at a time,   *)
(* pauses that are reported while they last, how long a request may take   *)
(* with its budget and after Ctrl-C, and -- given a transport that can     *)
(* tell a request that was sent from one that was not -- creates that are  *)
(* not done twice and results that are true.                               *)
(***************************************************************************)
EXTENDS Http, TLAPS, FiniteSetTheorems

\* Whoever waits for the lane waits once.
QueueInv ==
  /\ \A i \in 1 .. Len(queue) : stage[queue[i]] = "queued"
  /\ \A i, j \in 1 .. Len(queue) : queue[i] = queue[j] => i = j

\* A write that was let through holds the lane.
LaneInv == \A r \in Writers : stage[r] \in Held => lane = r

\* What may not be repeated is not done yet while its request is unfinished, unless it was
\* taken for unsent.
PostInv ==
  \A r \in Requests : ~Idempotent(r) =>
    /\ stage[r] = "answered" => did[r] >= 1
    /\ r \notin mistaken =>
         /\ stage[r] \in {"new", "queued"} \cup Held => did[r] = 0
         /\ did[r] <= 1
         /\ stage[r] \in {"refused", "limited"} => did[r] = 0

\* The reported pause is the longest one under way.
PauseInv ==
  ~cancelled =>
    /\ \A r \in Requests : stage[r] = "waiting" => until[r] <= pauses
    /\ pauses > now =>
         \E r \in Requests : stage[r] = "waiting" /\ until[r] = pauses

Stages == {"new", "queued"} \cup Held \cup Results

Inv == TypeOK /\ QueueInv

-----------------------------------------------------------------------------
(* What comes of an attempt *)

\* A pause is a number of units of time.
LEMMA BackoffType == \A n : Backoff(n) \subseteq Nat
  BY DEF Backoff

\* So is what a classifier says of one.
LEMMA ClassifyType ==
  ASSUME NEW r \in Requests, NEW a \in Answers
  PROVE  Classify(r, a).wait \subseteq Nat
<1>1. a \in AnswerTypes
  BY HttpAssumption
<1>2. a.after \subseteq Nat /\ a.reset \subseteq Int /\ DefaultWait \in Nat
  BY <1>1, HttpAssumption DEF AnswerTypes
<1>3. RetryAfter(a) \subseteq Nat /\ UntilReset(a) \subseteq Nat
  BY <1>2 DEF RetryAfter, UntilReset
<1>4. Generic(a).wait \subseteq Nat
  BY <1>3 DEF Generic, Plain, RateLimited
<1>5. Forgejo(a).wait \subseteq Nat /\ AzureDevOps(a).wait \subseteq Nat
  BY <1>3, <1>4 DEF Forgejo, AzureDevOps, Plain, RateLimited
<1>6. GitHub(a).wait \subseteq Nat
  <2>1. /\ \A w : RateLimited(w).wait = w
        /\ \A c : Plain(c).wait = {}
    BY DEF RateLimited, Plain
  <2>2. \/ GitHub(a) = Generic(a) \/ GitHub(a) = Plain("Forbidden")
        \/ \E w \in {RetryAfter(a), UntilReset(a), {DefaultWait}} :
             GitHub(a) = RateLimited(w)
    BY DEF GitHub
  <2> QED BY <1>2, <1>3, <1>4, <2>1, <2>2
<1>7. GraphQL(a).wait \subseteq Nat
  BY <1>2, <1>3, <1>6 DEF GraphQL, Plain, RateLimited
<1> QED
  BY <1>4, <1>5, <1>6, <1>7 DEF Classify

\* Another attempt, or the end of the request.
LEMMA TryAgainResult ==
  ASSUME NEW r \in Requests, NEW may, TryAgain(r, may)
  PROVE  \/ /\ may
            /\ \E d \in Nat : now + d < Deadline(r) /\ Sleep(r, "backoff", d) /\ UNCHANGED pauses
         \/ End(r, "failed")
  BY BackoffType DEF TryAgain

\* A pause that is reported, or the end of the request.
LEMMA WaitOutResult ==
  ASSUME NEW r \in Requests, NEW waits, waits \subseteq Nat, WaitOut(r, waits)
  PROVE  \/ \E w \in Nat : ~(now + w > Deadline(r)) /\ Sleep(r, "waiting", w) /\ Note(w)
         \/ End(r, "limited")
  BY HttpAssumption DEF WaitOut

\* What an attempt comes to: yes says that the forge did what was asked.
Comes(r, yes) ==
  \/ yes /\ End(r, "answered")
  \/ /\ Idempotent(r) \/ ~yes \/ r \in mistaken'
     /\ \E d \in Nat : now + d < Deadline(r) /\ Sleep(r, "backoff", d) /\ UNCHANGED pauses
  \/ End(r, "failed")
  \/ ~yes /\ \E w \in Nat : ~(now + w > Deadline(r)) /\ Sleep(r, "waiting", w) /\ Note(w)
  \/ ~yes /\ End(r, "limited")
  \/ ~yes /\ End(r, "refused")
  \/ cancelled /\ End(r, "cancelled")

\* Attempts end in Receive, Fail and Stop; the last also ends a pause, in which
\* the forge does nothing.
Ends(r) ==
  /\ \/ stage[r] = "sending"
     \/ cancelled /\ stage[r] \in Pausing
  /\ \E yes \in BOOLEAN :
       /\ Comes(r, yes) /\ Does(r, yes) /\ (yes => stage[r] = "sending")
       /\ mistaken' = mistaken \/ mistaken' = mistaken \cup {r}
  /\ UNCHANGED <<now, queue, next, cancelled, stopAt>>

\* The handling of an answer is one of the ways an attempt may end.
LEMMA ReceiveEnds ==
  ASSUME NEW r \in Requests, Receive(r)
  PROVE  Ends(r)
<1>1. PICK a \in Answers : \E yes \in Done(r, a) : Handle(r, a) /\ Does(r, yes)
  BY DEF Receive
<1>2. PICK yes \in Done(r, a) : Handle(r, a) /\ Does(r, yes)
  BY <1>1
<1>3. yes \in BOOLEAN
  BY <1>2 DEF Done
<1>4. CASE Succeeds(r, a)
  <2>1. yes
    BY <1>2, <1>4 DEF Done
  <2>2. \/ End(r, "answered")
        \/ TryAgain(r, Idempotent(r))
    BY <1>2, <1>4 DEF Handle
  <2> QED BY <1>2, <1>3, <2>1, <2>2, TryAgainResult DEF Receive, Ends, Comes
<1>5. CASE ~Succeeds(r, a) /\ Classify(r, a).class = "RateLimited"
  <2>1. ~yes
    BY <1>2, <1>5 DEF Done
  <2>2. WaitOut(r, Classify(r, a).wait)
    BY <1>2, <1>5 DEF Handle
  <2>3. \/ \E w \in Nat : ~(now + w > Deadline(r)) /\ Sleep(r, "waiting", w) /\ Note(w)
        \/ End(r, "limited")
    BY <2>2, ClassifyType, WaitOutResult
  <2> QED BY <1>2, <1>3, <2>1, <2>3 DEF Receive, Ends, Comes
<1>6. CASE ~Succeeds(r, a) /\ Classify(r, a).class = "Transient"
  <2>1. TryAgain(r, Idempotent(r))
    BY <1>2, <1>6 DEF Handle
  <2>2. \/ /\ Idempotent(r)
           /\ \E d \in Nat : now + d < Deadline(r) /\ Sleep(r, "backoff", d) /\ UNCHANGED pauses
        \/ End(r, "failed")
    BY <2>1, TryAgainResult
  <2> QED BY <1>2, <1>3, <2>2 DEF Receive, Ends, Comes
<1>7. CASE ~Succeeds(r, a) /\ Classify(r, a).class \notin {"RateLimited", "Transient"}
  <2>1. ~yes /\ End(r, "refused")
    BY <1>2, <1>7 DEF Done, Handle
  <2> QED BY <1>2, <1>3, <2>1 DEF Receive, Ends, Comes
<1> QED
  BY <1>4, <1>5, <1>6, <1>7

\* So is a failure below HTTP.
LEMMA FailEnds ==
  ASSUME NEW r \in Requests, Fail(r)
  PROVE  Ends(r)
<1>1. PICK f \in {"connect", "dropped", "cut", "timeout"}, yes \in BOOLEAN :
        /\ f = "connect" => ~yes
        /\ TryAgain(r, Idempotent(r) \/ BeforeSend(f))
        /\ Does(r, yes) /\ Mistakes(r, yes /\ BeforeSend(f))
  BY DEF Fail
<1>2. \/ /\ Idempotent(r) \/ BeforeSend(f)
         /\ \E d \in Nat : now + d < Deadline(r) /\ Sleep(r, "backoff", d) /\ UNCHANGED pauses
      \/ End(r, "failed")
  BY <1>1, TryAgainResult
<1> QED
  <2>1. ~Idempotent(r) /\ yes /\ BeforeSend(f) => r \in mistaken'
    BY <1>1 DEF Mistakes
  <2>2. mistaken' = mistaken \/ mistaken' = mistaken \cup {r}
    BY <1>1 DEF Mistakes
  <2> QED BY <1>1, <1>2, <2>1, <2>2 DEF Fail, Ends, Comes

\* And an interruption.
LEMMA StopEnds ==
  ASSUME NEW r \in Requests, Stop(r)
  PROVE  Ends(r)
<1>1. PICK yes \in {FALSE, stage[r] = "sending"} : Does(r, yes)
  BY DEF Stop
<1>2. yes \in BOOLEAN /\ (yes => stage[r] = "sending")
  BY <1>1
<1> QED
  BY <1>1, <1>2 DEF Stop, Ends, Comes, Interruptible

\* Where a request is after its attempt.
LEMMA EndsStage ==
  ASSUME TypeOK, NEW r \in Requests, Ends(r)
  PROVE  /\ stage[r] \in {"sending"} \cup Pausing
         /\ \E s \in Pausing \cup Results : stage' = [stage EXCEPT ![r] = s]
         /\ lane' = lane \/ (lane = r /\ lane' = NoOne /\ stage'[r] \in Results)
         /\ \E u \in Nat : until' = [until EXCEPT ![r] = u]
         /\ \E u \in Nat : attempt' = [attempt EXCEPT ![r] = u]
         /\ \E u \in Nat : began' = [began EXCEPT ![r] = u]
         /\ pauses' \in Nat /\ did' \in [Requests -> 0 .. Enough] /\ mistaken' \subseteq Requests
<1>1. PICK yes \in BOOLEAN : Comes(r, yes) /\ Does(r, yes)
  BY DEF Ends
<1>2. did' \in [Requests -> 0 .. Enough] /\ mistaken' \subseteq Requests
  BY <1>1 DEF Does, Ends, TypeOK, Enough
<1>3. ASSUME NEW s \in Results, End(r, s)
      PROVE  /\ stage' = [stage EXCEPT ![r] = s] /\ stage'[r] \in Results
             /\ lane' = lane \/ (lane = r /\ lane' = NoOne)
             /\ until' = [until EXCEPT ![r] = 0]
             /\ attempt' = [attempt EXCEPT ![r] = 0]
             /\ began' = [began EXCEPT ![r] = 0]
             /\ pauses' \in Nat
  BY <1>3 DEF End, To, Release, TypeOK
<1>4. ASSUME NEW s \in Pausing, NEW d \in Nat, Sleep(r, s, d),
             UNCHANGED pauses \/ Note(d)
      PROVE  /\ stage' = [stage EXCEPT ![r] = s]
             /\ lane' = lane
             /\ until' = [until EXCEPT ![r] = now + d] /\ now + d \in Nat
             /\ attempt' = [attempt EXCEPT ![r] = attempt[r]] /\ attempt[r] \in Nat
             /\ began' = [began EXCEPT ![r] = began[r]] /\ began[r] \in Nat
             /\ pauses' \in Nat
  BY <1>4 DEF Sleep, To, TypeOK, Note
<1>5. CASE \E s \in Results : End(r, s)
  BY <1>2, <1>3, <1>5 DEF Ends, Pausing
<1>6. CASE \E s \in Pausing, d \in Nat :
             Sleep(r, s, d) /\ (UNCHANGED pauses \/ Note(d))
  BY <1>2, <1>4, <1>6 DEF Ends, Pausing
<1> QED
  BY <1>1, <1>5, <1>6 DEF Comes, Results, Pausing

-----------------------------------------------------------------------------
(* Types, and the queue *)

\* Initially nobody has begun.
LEMMA InitInv == Init => Inv
<1> SUFFICES ASSUME Init PROVE Inv
  OBVIOUS
<1>1. queue \in Seq(Requests) /\ Len(queue) = 0
  BY DEF Init
<1>2. did \in [Requests -> 0 .. Enough] /\ mistaken \subseteq Requests /\ lane \in Requests \cup {NoOne}
  BY DEF Init, Enough
<1>3. QueueInv
  BY <1>1 DEF QueueInv
<1>4. stage \in [Requests -> Stages]
  BY DEF Init, Stages
<1>5. TypeOK
  BY <1>1, <1>2, <1>4 DEF Init, TypeOK, Stages
<1> QED
  BY <1>3, <1>5 DEF Inv

\* A request that is sent is as it should be.
LEMMA SendItType ==
  ASSUME TypeOK, NEW r \in Requests, SendIt(r)
  PROVE  /\ stage' = [stage EXCEPT ![r] = "sending"]
         /\ stage' \in [Requests -> Stages]
         /\ until' \in [Requests -> Nat] /\ attempt' \in [Requests -> Nat]
<1>1. Timeout \in Nat
  BY HttpAssumption
<1>2. "sending" \in Stages
  BY DEF Stages, Held
<1>3. /\ stage \in [Requests -> Stages] /\ now \in Nat
      /\ until \in [Requests -> Nat] /\ attempt \in [Requests -> Nat]
  BY DEF TypeOK, Stages
<1> QED
  BY <1>1, <1>2, <1>3 DEF SendIt, To

\* Steps that leave the queue alone, and those that are in it.
LEMMA QueueKept ==
  ASSUME Inv, NEW r \in Requests, stage[r] # "queued", queue' = queue,
         NEW s, stage' = [stage EXCEPT ![r] = s]
  PROVE  QueueInv'
<1>1. queue \in Seq(Requests) /\ QueueInv /\ stage \in [Requests -> Stages]
  BY DEF Inv, TypeOK, Stages
<1>2. \A i \in 1 .. Len(queue) : queue[i] \in Requests
  BY <1>1
<1>3. \A i \in 1 .. Len(queue) : queue[i] # r
  BY <1>1 DEF QueueInv
<1>4. \A i \in 1 .. Len(queue) : stage'[queue[i]] = stage[queue[i]]
  BY <1>1, <1>2, <1>3
<1> QED
  BY <1>1, <1>4 DEF QueueInv

\* Joining a queue.
LEMMA AppendQueue ==
  ASSUME NEW q \in Seq(Requests), NEW r \in Requests
  PROVE  /\ Append(q, r) \in Seq(Requests) /\ Len(Append(q, r)) = Len(q) + 1
         /\ \A i \in 1 .. Len(q) : Append(q, r)[i] = q[i] /\ q[i] \in Requests
         /\ Append(q, r)[Len(q) + 1] = r /\ Len(q) \in Nat
  OBVIOUS

\* Leaving it at its head.
LEMMA TailQueue ==
  ASSUME NEW q \in Seq(Requests), q # <<>>
  PROVE  /\ Tail(q) \in Seq(Requests) /\ Len(Tail(q)) = Len(q) - 1
         /\ \A i \in 1 .. Len(q) - 1 : Tail(q)[i] = q[i + 1]
         /\ \A i \in 1 .. Len(q) : q[i] \in Requests
         /\ Head(q) = q[1] /\ Head(q) \in Requests /\ Len(q) \in Nat \ {0}
  OBVIOUS

\* Every step keeps the types and the queue.
LEMMA NextInv ==
  ASSUME Inv, [Next]_vars
  PROVE  Inv'
<1>0. TypeOK /\ QueueInv
  BY DEF Inv
<1>1. ASSUME NEW r \in Requests, Ends(r) PROVE Inv'
  <2>1. QueueInv'
    BY <1>1, EndsStage, <1>0, QueueKept DEF Ends, Pausing
  <2>2. stage' \in [Requests -> Stages]
    <3>1. PICK s \in Pausing \cup Results : stage' = [stage EXCEPT ![r] = s]
      BY <1>0, <1>1, EndsStage
    <3>2. s \in Stages /\ stage \in [Requests -> Stages]
      BY <1>0 DEF Stages, Held, TypeOK
    <3> QED BY <3>1, <3>2
  <2>3. /\ until' \in [Requests -> Nat] /\ attempt' \in [Requests -> Nat]
        /\ began' \in [Requests -> Nat] /\ lane' \in Requests \cup {NoOne}
    <3>1. /\ until \in [Requests -> Nat] /\ attempt \in [Requests -> Nat]
          /\ began \in [Requests -> Nat] /\ lane \in Requests \cup {NoOne}
      BY <1>0 DEF TypeOK
    <3> QED BY <1>0, <1>1, <3>1, EndsStage
  <2>4. pauses' \in Nat /\ did' \in [Requests -> 0 .. Enough] /\ mistaken' \subseteq Requests
    BY <1>0, <1>1, EndsStage
  <2>5. TypeOK'
    BY <1>0, <1>1, <2>2, <2>3, <2>4 DEF Ends, TypeOK, Stages
  <2> QED BY <2>1, <2>5 DEF Inv
<1>2. ASSUME NEW r \in Requests, Begin(r) PROVE Inv'
  <2>1. CASE UsesLane(r)
    <3>1. /\ stage' = [stage EXCEPT ![r] = "queued"] /\ queue' = Append(queue, r)
          /\ stage[r] = "new" /\ stage' \in [Requests -> Stages]
      BY <1>0, <1>2, <2>1 DEF Begin, To, TypeOK, Stages
    <3>2. /\ queue' \in Seq(Requests) /\ Len(queue') = Len(queue) + 1
          /\ \A i \in 1 .. Len(queue) :
               queue'[i] = queue[i] /\ queue[i] \in Requests /\ queue[i] # r
          /\ queue'[Len(queue) + 1] = r
      <4>1. queue \in Seq(Requests)
        BY <1>0 DEF TypeOK
      <4>2. \A i \in 1 .. Len(queue) : queue[i] # r
        BY <1>0, <3>1 DEF QueueInv
      <4> QED BY <3>1, <4>1, <4>2, AppendQueue
    <3>3. QueueInv'
      <4>1. Len(queue) \in Nat /\ stage \in [Requests -> Stages]
        BY <1>0 DEF TypeOK, Stages
      <4>2. \A i \in 1 .. Len(queue') : stage'[queue'[i]] = "queued"
        BY <1>0, <3>1, <3>2, <4>1 DEF QueueInv
      <4>3. \A i, j \in 1 .. Len(queue') : queue'[i] = queue'[j] => i = j
        BY <1>0, <3>2, <4>1 DEF QueueInv
      <4> QED BY <4>2, <4>3 DEF QueueInv
    <3>4. TypeOK'
      BY <1>0, <1>2, <2>1, <3>1, <3>2 DEF Begin, TypeOK, Stages
    <3> QED BY <3>3, <3>4 DEF Inv
  <2>2. CASE ~UsesLane(r)
    <3>1. SendIt(r) /\ queue' = queue /\ stage[r] = "new"
      BY <1>2, <2>2 DEF Begin
    <3>2. QueueInv'
      BY <3>1, <1>0, SendItType, QueueKept
    <3>3. TypeOK'
      BY <3>1, <1>0, <1>2, SendItType DEF Begin, TypeOK, Stages
    <3> QED BY <3>2, <3>3 DEF Inv
  <2> QED BY <2>1, <2>2
<1>3. CASE TakeLane
  <2> DEFINE h == Head(queue)
  <2>1. /\ h \in Requests /\ h = queue[1] /\ Len(queue) \in Nat \ {0}
        /\ stage' = [stage EXCEPT ![h] = "pacing"]
        /\ queue' = Tail(queue) /\ lane' = h
    BY <1>0, <1>3, TailQueue DEF TypeOK, TakeLane, To
  <2> HIDE DEF h
  <2>2. /\ queue' \in Seq(Requests) /\ Len(queue') = Len(queue) - 1
        /\ \A i \in 1 .. Len(queue) - 1 : queue'[i] = queue[i + 1]
        /\ \A i \in 1 .. Len(queue) : queue[i] \in Requests
    BY <1>0, <1>3, <2>1, TailQueue DEF TypeOK, TakeLane
  <2>3. QueueInv'
    <3>1. stage \in [Requests -> Stages]
      BY <1>0 DEF TypeOK, Stages
    <3>2. \A i \in 1 .. Len(queue') :
            /\ i + 1 \in 1 .. Len(queue) /\ queue'[i] = queue[i + 1]
            /\ queue[i + 1] # h /\ queue[i + 1] \in Requests
      BY <1>0, <2>1, <2>2 DEF QueueInv
    <3>3. \A i \in 1 .. Len(queue') : stage'[queue'[i]] = "queued"
      BY <1>0, <2>1, <3>1, <3>2 DEF QueueInv
    <3>4. \A i, j \in 1 .. Len(queue') : queue'[i] = queue'[j] => i = j
      BY <1>0, <2>1, <2>2, <3>2 DEF QueueInv
    <3> QED BY <3>3, <3>4 DEF QueueInv
  <2>4. TypeOK'
    BY <1>0, <1>3, <2>1, <2>2 DEF TakeLane, TypeOK, Held
  <2> QED BY <2>3, <2>4 DEF Inv
<1>4. ASSUME NEW r \in Requests, Pace(r) \/ Wake(r) PROVE Inv'
  <2>1. /\ SendIt(r) /\ queue' = queue /\ stage[r] # "queued" /\ next' \in Nat
        /\ UNCHANGED <<now, began, lane, pauses, cancelled, stopAt, did, mistaken>>
    <3>1. Interval \in Nat /\ now \in Nat /\ next \in Nat
      BY <1>0, HttpAssumption DEF TypeOK
    <3>2. CASE Pace(r)
      BY <3>1, <3>2 DEF Pace
    <3>3. CASE Wake(r)
      BY <3>1, <3>3 DEF Wake, Pausing, laneVars
    <3> QED BY <1>4, <3>2, <3>3
  <2>2. QueueInv'
    BY <2>1, <1>0, SendItType, QueueKept
  <2>3. TypeOK'
    BY <2>1, <1>0, SendItType DEF TypeOK, Stages
  <2> QED BY <2>2, <2>3 DEF Inv
<1>5. CASE Cancel \/ Tick \/ Finished \/ UNCHANGED vars
  <2>1. /\ UNCHANGED <<stage, began, until, attempt, laneVars, pauses, did, mistaken>>
        /\ now' \in Nat /\ stopAt' \in Nat /\ cancelled' \in BOOLEAN
    <3>0. now \in Nat /\ stopAt \in Nat /\ cancelled \in BOOLEAN
      BY <1>0 DEF TypeOK
    <3>1. CASE Cancel
      BY <3>0, <3>1 DEF Cancel
    <3>2. CASE Tick
      BY <3>0, <3>2 DEF Tick
    <3>3. CASE Finished \/ UNCHANGED vars
      BY <3>0, <3>3 DEF Finished, vars
    <3> QED BY <1>5, <3>1, <3>2, <3>3
  <2>2. QueueInv'
    BY <1>0, <2>1 DEF QueueInv, laneVars
  <2>3. TypeOK'
    BY <1>0, <2>1 DEF TypeOK, laneVars
  <2> QED BY <2>2, <2>3 DEF Inv
<1> QED
  BY <1>1, <1>2, <1>3, <1>4, <1>5, ReceiveEnds, FailEnds, StopEnds DEF Next, Step

\* The types and the queue are invariant.
LEMMA Always == Spec => []Inv
<1>1. Inv /\ [Next]_vars => Inv'
  BY NextInv
<1> QED
  BY InitInv, <1>1, PTL DEF Spec

\* Every variable keeps its type, for any number of requests, any policy and
\* anything a forge answers.
THEOREM TypeCorrect == Spec => []TypeOK
<1>1. Inv => TypeOK
  BY DEF Inv
<1> QED
  BY Always, <1>1, PTL

-----------------------------------------------------------------------------
(* One write at a time *)

\* The lane is handed on only when nobody who was let through is left.
LEMMA LaneStep ==
  ASSUME Inv, LaneInv, [Next]_vars
  PROVE  LaneInv'
<1>0. /\ TypeOK /\ QueueInv /\ stage \in [Requests -> Stages]
      /\ Writers \subseteq Requests /\ NoOne \notin Requests
  BY HttpAssumption DEF Inv, TypeOK, Stages, Writers
<1>1. ASSUME NEW r \in Requests, Ends(r) PROVE LaneInv'
  <2>1. /\ stage[r] \in Held
        /\ \/ lane' = lane
           \/ lane = r /\ stage'[r] \notin Held
        /\ \A w \in Requests \ {r} : stage'[w] = stage[w]
    BY <1>0, <1>1, EndsStage DEF Held, Pausing, Results
  <2> QED BY <1>0, <2>1 DEF LaneInv
<1>2. ASSUME NEW r \in Requests, Begin(r) PROVE LaneInv'
  <2>1. /\ lane' = lane /\ \A w \in Requests \ {r} : stage'[w] = stage[w]
        /\ UsesLane(r) => stage'[r] = "queued"
    BY <1>0, <1>2 DEF Begin, To, SendIt
  <2> QED BY <1>0, <2>1 DEF LaneInv, Writers, Held, Pausing
<1>3. CASE TakeLane
  <2>1. /\ lane = NoOne /\ lane' = Head(queue)
        /\ \A w \in Requests \ {Head(queue)} : stage'[w] = stage[w]
    BY <1>0, <1>3 DEF TakeLane, To
  <2> QED BY <1>0, <2>1 DEF LaneInv
<1>4. ASSUME NEW r \in Requests, Pace(r) \/ Wake(r) PROVE LaneInv'
  <2>1. /\ lane' = lane /\ stage[r] \in Held
        /\ \A w \in Requests \ {r} : stage'[w] = stage[w]
    BY <1>0, <1>4 DEF Pace, Wake, SendIt, To, laneVars, Held, Pausing
  <2> QED BY <1>0, <2>1 DEF LaneInv
<1>5. CASE Cancel \/ Tick \/ Finished \/ UNCHANGED vars
  <2>1. stage' = stage /\ lane' = lane
    BY <1>5 DEF Cancel, Tick, Finished, vars, laneVars
  <2> QED BY <2>1 DEF LaneInv
<1> QED
  BY <1>1, <1>2, <1>3, <1>4, <1>5, ReceiveEnds, FailEnds, StopEnds DEF Next, Step

\* At most one write is between the lane and its answer, its pauses included.
THEOREM OneWriteAtATime == Spec => []SerialWrites
<1>1. Init => LaneInv
  BY DEF Init, LaneInv, Writers, Held, Pausing
<1>2. Inv /\ LaneInv /\ [Next]_vars => LaneInv'
  BY LaneStep
<1>3. LaneInv => SerialWrites
  BY DEF LaneInv, SerialWrites
<1> QED
  BY Always, <1>1, <1>2, <1>3, PTL DEF Spec

-----------------------------------------------------------------------------
(* Done once, and told the truth *)

\* A step of one request says nothing of another.
LEMMA PostStep ==
  ASSUME Inv, PostInv, [Next]_vars
  PROVE  PostInv'
<1>0. /\ TypeOK /\ QueueInv /\ stage \in [Requests -> Stages]
      /\ did \in [Requests -> 0 .. 2]
  BY DEF Inv, TypeOK, Stages, Enough
<1> DEFINE Post(r) ==
      ~Idempotent(r) =>
        /\ stage[r] = "answered" => did[r] >= 1
        /\ r \notin mistaken =>
             /\ stage[r] \in {"new", "queued"} \cup Held => did[r] = 0
             /\ did[r] <= 1
             /\ stage[r] \in {"refused", "limited"} => did[r] = 0
<1>a. ASSUME NEW r \in Requests, stage'[r] = stage[r], did'[r] = did[r],
             r \in mistaken => r \in mistaken'
      PROVE  Post(r)'
  BY <1>a DEF PostInv, Idempotent
<1>b. ASSUME NEW r \in Requests, stage[r] \in {"new", "queued"} \cup Held,
             stage'[r] \in {"queued"} \cup Held, did'[r] = did[r], mistaken' = mistaken
      PROVE  Post(r)'
  BY <1>0, <1>b DEF PostInv, Idempotent, Held, Pausing
<1>1. ASSUME NEW r \in Requests, Ends(r) PROVE PostInv'
  <2>1. PICK yes \in BOOLEAN :
          Comes(r, yes) /\ Does(r, yes) /\ mistaken' \in {mistaken, mistaken \cup {r}}
    BY <1>1 DEF Ends
  <2>2. stage[r] \in Held
    BY <1>1 DEF Ends, Held, Pausing
  <2>3. Post(r)'
    <3> SUFFICES ASSUME ~Idempotent(r) PROVE
           /\ stage'[r] = "answered" => did'[r] >= 1
           /\ r \notin mistaken' =>
                /\ stage'[r] \in {"new", "queued"} \cup Held => did'[r] = 0
                /\ did'[r] <= 1
                /\ stage'[r] \in {"refused", "limited"} => did'[r] = 0
      BY DEF Idempotent
    <3>1. did[r] \in 0 .. 2 /\ did'[r] = IF yes /\ did[r] < 2 THEN did[r] + 1 ELSE did[r]
      BY <1>0, <2>1 DEF Does, Enough
    <3>2. r \notin mistaken' => did[r] = 0
      BY <2>1, <2>2 DEF PostInv
    <3>3. \/ yes /\ stage'[r] = "answered"
          \/ (~yes \/ r \in mistaken') /\ stage'[r] \in Pausing
          \/ stage'[r] \in {"failed", "cancelled"}
          \/ ~yes /\ stage'[r] \in {"limited", "refused"}
      BY <1>0, <2>1 DEF Comes, End, Sleep, To, Pausing
    <3> QED BY <3>1, <3>2, <3>3 DEF Held, Pausing
  <2>4. \A s \in Requests \ {r} :
          stage'[s] = stage[s] /\ did'[s] = did[s] /\ (s \in mistaken => s \in mistaken')
    BY <1>0, <1>1, <2>1, EndsStage DEF Does
  <2> QED BY <1>a, <2>3, <2>4 DEF PostInv
<1>2. ASSUME NEW r \in Requests, Begin(r) PROVE PostInv'
  <2>1. /\ did' = did /\ mistaken' = mistaken /\ stage[r] = "new" /\ stage'[r] \in {"queued", "sending"}
        /\ \A s \in Requests \ {r} : stage'[s] = stage[s]
    BY <1>0, <1>2 DEF Begin, To, SendIt
  <2>2. Post(r)'
    BY <1>b, <2>1 DEF Held
  <2> QED BY <1>a, <2>1, <2>2 DEF PostInv
<1>3. CASE TakeLane
  <2>1. PICK h \in Requests : h = Head(queue) /\ stage[h] = "queued"
    <3>1. queue \in Seq(Requests) /\ queue # <<>>
      BY <1>0, <1>3 DEF TypeOK, TakeLane
    <3> QED BY <1>0, <3>1, TailQueue DEF QueueInv
  <2>2. /\ did' = did /\ mistaken' = mistaken /\ stage'[h] = "pacing"
        /\ \A s \in Requests \ {h} : stage'[s] = stage[s]
    BY <1>0, <1>3, <2>1 DEF TakeLane, To
  <2>3. Post(h)'
    BY <1>b, <2>1, <2>2 DEF Held
  <2> QED BY <1>a, <2>1, <2>2, <2>3 DEF PostInv
<1>4. ASSUME NEW r \in Requests, Pace(r) \/ Wake(r) PROVE PostInv'
  <2>1. /\ did' = did /\ mistaken' = mistaken /\ stage[r] \in Held /\ stage'[r] = "sending"
        /\ \A s \in Requests \ {r} : stage'[s] = stage[s]
    BY <1>0, <1>4 DEF Pace, Wake, SendIt, To, Held, Pausing
  <2>2. Post(r)'
    BY <1>b, <2>1 DEF Held
  <2> QED BY <1>a, <2>1, <2>2 DEF PostInv
<1>5. CASE Cancel \/ Tick \/ Finished \/ UNCHANGED vars
  <2>1. stage' = stage /\ did' = did /\ mistaken' = mistaken
    BY <1>5 DEF Cancel, Tick, Finished, vars
  <2> QED BY <2>1 DEF PostInv, Idempotent
<1> QED
  BY <1>1, <1>2, <1>3, <1>4, <1>5, ReceiveEnds, FailEnds, StopEnds DEF Next, Step

\* Of a request that may not be repeated -- a create -- the caller is told the truth, for any
\* number of requests, any policy and any answers: one that is reported done is done, and
\* nothing but a connection that is lost after it was sent, and taken for one never made, has
\* it done twice or reported refused when it was done.
THEOREM DoneOnce == Spec => []PostsTellTheTruth
<1>1. Init => PostInv
  BY DEF Init, PostInv
<1>2. Inv /\ PostInv /\ [Next]_vars => PostInv'
  BY PostStep
<1>3. PostInv => PostsTellTheTruth
  BY DEF PostInv, PostsTellTheTruth
<1> QED
  BY Always, <1>1, <1>2, <1>3, PTL DEF Spec

-----------------------------------------------------------------------------
(* The pause that is reported *)

\* Pauses are noted when they begin; the longest one is the last to end.
LEMMA PauseStep ==
  ASSUME Inv, PauseInv, [Next]_vars
  PROVE  PauseInv'
<1>0. /\ TypeOK /\ QueueInv /\ stage \in [Requests -> Stages]
      /\ until \in [Requests -> Nat] /\ now \in Nat /\ pauses \in Nat
  BY DEF Inv, TypeOK, Stages
<1>a. ASSUME NEW r \in Requests, stage[r] # "waiting", stage'[r] # "waiting",
             \A s \in Requests \ {r} : stage'[s] = stage[s] /\ until'[s] = until[s],
             UNCHANGED <<now, pauses, cancelled>>
      PROVE  PauseInv'
  BY <1>0, <1>a DEF PauseInv
<1>1. ASSUME NEW r \in Requests, Ends(r) PROVE PauseInv'
  <2>1. /\ now' = now /\ cancelled' = cancelled
        /\ \A s \in Requests \ {r} : stage'[s] = stage[s] /\ until'[s] = until[s]
    BY <1>0, <1>1, EndsStage DEF Ends
  <2>2. CASE cancelled
    BY <2>1, <2>2 DEF PauseInv
  <2>3. CASE ~cancelled
    <3>1. PICK yes \in BOOLEAN : Comes(r, yes)
      BY <1>1 DEF Ends
    <3>2. stage[r] = "sending"
      BY <1>1, <2>3 DEF Ends
    <3>3. ASSUME NEW w \in Nat, Sleep(r, "waiting", w), Note(w)
          PROVE  PauseInv'
      <4>1. /\ stage'[r] = "waiting" /\ until'[r] = now + w
            /\ pauses' = IF now + w > pauses THEN now + w ELSE pauses
        BY <1>0, <3>3 DEF Sleep, To, Note
      <4>2. \A s \in Requests : stage'[s] = "waiting" => until'[s] <= pauses'
        BY <1>0, <2>1, <2>3, <4>1 DEF PauseInv
      <4>3. ASSUME pauses' > now
            PROVE  \E s \in Requests : stage'[s] = "waiting" /\ until'[s] = pauses'
        <5>1. CASE now + w > pauses
          BY <4>1, <5>1
        <5>2. CASE ~(now + w > pauses)
          BY <1>0, <2>1, <2>3, <3>2, <4>1, <4>3, <5>2 DEF PauseInv
        <5> QED BY <5>1, <5>2
      <4> QED BY <2>1, <4>2, <4>3 DEF PauseInv
    <3>4. CASE ~ \E w \in Nat : Sleep(r, "waiting", w) /\ Note(w)
      <4>1. pauses' = pauses /\ stage'[r] # "waiting"
        BY <1>0, <3>1, <3>4 DEF Comes, End, Sleep, To
      <4> QED BY <1>a, <2>1, <3>2, <4>1
    <3> QED BY <3>3, <3>4
  <2> QED BY <2>2, <2>3
<1>2. ASSUME NEW r \in Requests, Begin(r) PROVE PauseInv'
  <2>1. /\ UNCHANGED <<now, pauses, cancelled>>
        /\ stage[r] = "new" /\ stage'[r] \in {"queued", "sending"}
        /\ \A s \in Requests \ {r} : stage'[s] = stage[s] /\ until'[s] = until[s]
    BY <1>0, <1>2 DEF Begin, To, SendIt
  <2> QED BY <1>a, <2>1
<1>3. CASE TakeLane
  <2>1. PICK h \in Requests : h = Head(queue) /\ stage[h] = "queued"
    <3>1. queue \in Seq(Requests) /\ queue # <<>>
      BY <1>0, <1>3 DEF TypeOK, TakeLane
    <3> QED BY <1>0, <3>1, TailQueue DEF QueueInv
  <2>2. /\ UNCHANGED <<now, pauses, cancelled>> /\ stage'[h] = "pacing"
        /\ \A s \in Requests \ {h} : stage'[s] = stage[s] /\ until'[s] = until[s]
    BY <1>0, <1>3, <2>1 DEF TakeLane, To
  <2> QED BY <1>a, <2>1, <2>2
<1>4. ASSUME NEW r \in Requests, Pace(r) PROVE PauseInv'
  <2>1. /\ UNCHANGED <<now, pauses, cancelled>>
        /\ stage[r] = "pacing" /\ stage'[r] = "sending"
        /\ \A s \in Requests \ {r} : stage'[s] = stage[s] /\ until'[s] = until[s]
    BY <1>0, <1>4 DEF Pace, To, SendIt
  <2> QED BY <1>a, <2>1
<1>5. ASSUME NEW r \in Requests, Wake(r) PROVE PauseInv'
  <2>1. /\ UNCHANGED <<now, pauses, cancelled>> /\ now >= until[r]
        /\ stage'[r] = "sending"
        /\ \A s \in Requests \ {r} : stage'[s] = stage[s] /\ until'[s] = until[s]
    BY <1>0, <1>5 DEF Wake, To, SendIt
  <2> QED BY <1>0, <2>1 DEF PauseInv
<1>6. CASE Tick
  BY <1>0, <1>6 DEF Tick, PauseInv
<1>7. CASE Cancel \/ Finished \/ UNCHANGED vars
  BY <1>7 DEF Cancel, Finished, vars, PauseInv
<1> QED
  BY <1>1, <1>2, <1>3, <1>4, <1>5, <1>6, <1>7, ReceiveEnds, FailEnds, StopEnds
  DEF Next, Step

\* The progress line reports a rate-limit pause exactly while one is sat through.
THEOREM PausesReported == Spec => []PausesTellTheTruth
<1>1. Init => PauseInv
  BY DEF Init, PauseInv
<1>2. Inv /\ PauseInv /\ [Next]_vars => PauseInv'
  BY PauseStep
<1>3. Inv /\ PauseInv => PausesTellTheTruth
  BY DEF Inv, TypeOK, PauseInv, PausesTellTheTruth
<1> QED
  BY Always, <1>1, <1>2, <1>3, PTL DEF Spec

-----------------------------------------------------------------------------
(* How long it takes *)

\* The writes that have their answer.
Through == {r \in Writers : stage[r] \in Results}

\* A write is on its way, or pauses; whoever comes next is not sent yet.
Busy == lane # NoOne /\ stage[lane] \in Interruptible

\* The lane is had in the order in which writes began.
OrderInv ==
  /\ \A r \in Requests : began[r] <= now
  /\ \A r \in Requests : stage[r] = "queued" => \E i \in 1 .. Len(queue) : queue[i] = r
  /\ \A r \in Requests : stage[r] = "pacing" => r \in Writers
  /\ \A i \in 1 .. Len(queue) : queue[i] \in Writers
  /\ \A i, j \in 1 .. Len(queue) : i <= j => began[queue[i]] <= began[queue[j]]
  /\ lane # NoOne =>
       /\ lane \in Writers /\ stage[lane] \in Held
       /\ \A i \in 1 .. Len(queue) : began[lane] <= began[queue[i]]

\* Timers are prompt, and no pause is begun that would outlast the budget.
ClockInv ==
  /\ next <= now + Interval
  /\ Through = {} /\ ~Busy => next = 0
  /\ \A r \in Requests :
       /\ stage[r] = "sending" =>
            /\ now <= until[r] /\ until[r] <= now + Timeout
            /\ r \notin Writers => until[r] <= Deadline(r) + Timeout
       /\ stage[r] \in Pausing => now <= until[r] /\ until[r] <= Deadline(r)

\* Of the writes with the lane before it, each takes at most a turn more than the budget
\* that r began with.
LateBy(r, late) ==
  /\ next <= Deadline(r) + late + (IF Busy THEN Interval ELSE 0)
  /\ ~Busy => now <= Deadline(r) + late
  /\ Busy => until[lane] <= Deadline(r) + late + (IF stage[lane] = "sending" THEN Timeout ELSE 0)

LateInv ==
  \A r \in Writers : Unfinished(r) => LateBy(r, Cardinality(Through) * Turn)

Since(r) == IF began[r] > stopAt THEN began[r] ELSE stopAt

\* After Ctrl-C a turn is an interval of the lane.
StopsBy(r, late) ==
  /\ now <= Since(r) + late
  /\ next <= Since(r) + late + (IF Busy THEN Interval ELSE 0)

CancelInv ==
  cancelled =>
    /\ \A r \in Requests \ Writers : Unfinished(r) => now <= Since(r)
    /\ \A r \in Writers : Unfinished(r) => StopsBy(r, Cardinality(Through) * Interval)

TimeInv == OrderInv /\ ClockInv /\ LateInv /\ CancelInv

\* What the proofs need of the other invariants, and of the types.
Settings ==
  /\ TypeOK /\ QueueInv /\ LaneInv /\ stage \in [Requests -> Stages]
  /\ Writers \subseteq Requests /\ NoOne \notin Requests
  /\ Interval \in Nat /\ Timeout \in Nat \ {0} /\ Budget \in Nat \ {0} /\ Turn \in Nat
  /\ Interval <= Turn /\ Timeout <= Turn
  /\ IsFiniteSet(Through) /\ Cardinality(Through) \in Nat
  /\ queue \in Seq(Requests) /\ Len(queue) \in Nat
  /\ \A i \in 1 .. Len(queue) : queue[i] \in Requests
  /\ now \in Nat /\ next \in Nat /\ stopAt \in Nat
  /\ \A r \in Requests : began[r] \in Nat /\ until[r] \in Nat /\ Deadline(r) \in Nat
                         /\ Deadline(r) = began[r] + Budget

LEMMA SettingsHold ==
  ASSUME Inv, LaneInv
  PROVE  Settings
<1>1. IsFiniteSet(Writers) /\ Writers \subseteq Requests
  <2>1. Writers \in SUBSET Requests
    BY DEF Writers
  <2> QED BY <2>1, FS_Subset, HttpAssumption
<1>2. IsFiniteSet(Through) /\ Cardinality(Through) \in Nat
  <2>1. Through \in SUBSET Writers
    BY DEF Through
  <2> QED BY <1>1, <2>1, FS_Subset, FS_CardinalityType
<1>3. /\ Interval \in Nat /\ Timeout \in Nat \ {0} /\ Budget \in Nat \ {0} /\ NoOne \notin Requests
  BY HttpAssumption
<1>4. Turn \in Nat /\ Interval <= Turn /\ Timeout <= Turn
  BY <1>3 DEF Turn
<1>5. TypeOK /\ QueueInv /\ stage \in [Requests -> Stages]
  BY DEF Inv, TypeOK, Stages
<1>6. queue \in Seq(Requests) /\ now \in Nat /\ next \in Nat /\ stopAt \in Nat
  BY DEF Inv, TypeOK
<1>7. Len(queue) \in Nat /\ \A i \in 1 .. Len(queue) : queue[i] \in Requests
  BY <1>6
<1>8. \A r \in Requests : began[r] \in Nat /\ until[r] \in Nat /\ Deadline(r) \in Nat
                           /\ Deadline(r) = began[r] + Budget
  BY <1>3 DEF Inv, TypeOK, Deadline
<1> QED
  BY <1>1, <1>2, <1>3, <1>4, <1>5, <1>6, <1>7, <1>8 DEF Settings

\* One more turn.
LEMMA Turns ==
  ASSUME NEW j \in Nat, NEW m \in Nat
  PROVE  j * m \in Nat /\ (j + 1) * m = j * m + m /\ (j # 0 => m <= j * m)
<1>1. j * m \in Nat /\ (j + 1) * m = j * m + m
  OBVIOUS
<1>2. ASSUME j # 0 PROVE m <= j * m
  <2>1. PICK i \in Nat : j = i + 1
    BY <1>2
  <2>2. j * m = i * m + m /\ i * m \in Nat
    BY <2>1
  <2> QED BY <2>2
<1> QED BY <1>1, <1>2

\* A write that has its answer is one more that is through.
LEMMA ThroughOne ==
  ASSUME Settings, NEW r \in Writers, stage[r] \notin Results, stage'[r] \in Results,
         \A s \in Requests \ {r} : stage'[s] = stage[s]
  PROVE  Through' # {} /\ Cardinality(Through') = Cardinality(Through) + 1
<1>1. Through' = Through \cup {r} /\ r \notin Through
  BY DEF Through, Settings, Writers, UsesLane
<1> QED BY <1>1, FS_AddElement DEF Settings

LEMMA ThroughSame ==
  ASSUME Settings, \A s \in Writers : stage'[s] \in Results <=> stage[s] \in Results
  PROVE  Through' = Through
BY DEF Through, Writers, UsesLane

-----------------------------------------------------------------------------

\* What an end of an attempt does to the clocks.
LEMMA EndsTime ==
  ASSUME Settings, NEW r \in Requests, Ends(r)
  PROVE  /\ UNCHANGED <<now, queue, next, cancelled, stopAt>>
         /\ stage[r] \in {"sending"} \cup Pausing
         /\ \A s \in Requests \ {r} :
              stage'[s] = stage[s] /\ until'[s] = until[s] /\ began'[s] = began[s]
         /\ \/ /\ stage'[r] \in Pausing /\ lane' = lane /\ began'[r] = began[r]
               /\ now <= until'[r] /\ until'[r] <= Deadline(r)
            \/ /\ stage'[r] \in Results /\ began'[r] = 0
               /\ lane' = IF lane = r THEN NoOne ELSE lane
<1>1. PICK yes \in BOOLEAN : Comes(r, yes)
  BY DEF Ends
<1>2. /\ UNCHANGED <<now, queue, next, cancelled, stopAt>>
      /\ stage[r] \in {"sending"} \cup Pausing
  BY DEF Ends
<1>3. ASSUME NEW s \in Results, End(r, s)
      PROVE  /\ stage'[r] \in Results /\ began'[r] = 0
             /\ lane' = IF lane = r THEN NoOne ELSE lane
             /\ \A t \in Requests \ {r} :
                  stage'[t] = stage[t] /\ until'[t] = until[t] /\ began'[t] = began[t]
  BY <1>3 DEF End, To, Release, Settings, TypeOK
<1>4. ASSUME NEW s \in Pausing, NEW d \in Nat, Sleep(r, s, d),
             now + d < Deadline(r) \/ ~(now + d > Deadline(r))
      PROVE  /\ stage'[r] \in Pausing /\ lane' = lane /\ began'[r] = began[r]
             /\ now <= until'[r] /\ until'[r] <= Deadline(r)
             /\ \A t \in Requests \ {r} :
                  stage'[t] = stage[t] /\ until'[t] = until[t] /\ began'[t] = began[t]
  BY <1>4 DEF Sleep, To, Settings, TypeOK
<1>5. \/ \E s \in Results : End(r, s)
      \/ \E s \in Pausing, d \in Nat :
           /\ Sleep(r, s, d)
           /\ now + d < Deadline(r) \/ ~(now + d > Deadline(r))
  BY <1>1 DEF Comes, Results, Pausing
<1> QED BY <1>2, <1>3, <1>4, <1>5

\* Whoever holds the lane began before those that wait for it.
LEMMA HolderFirst ==
  ASSUME Settings, OrderInv, lane # NoOne, NEW r \in Writers, Unfinished(r)
  PROVE  lane \in Requests /\ began[lane] <= began[r] /\ Deadline(lane) <= Deadline(r)
<1>0. lane \in Requests
  BY DEF Settings, OrderInv
<1>1. began[lane] <= began[r]
  <2>1. CASE stage[r] = "queued"
    BY <2>1 DEF OrderInv, Settings
  <2>2. CASE stage[r] \in Held
    BY <2>2, <1>0 DEF Settings, LaneInv
  <2> QED BY <2>1, <2>2 DEF Unfinished
<1> QED BY <1>0, <1>1 DEF Settings

-----------------------------------------------------------------------------

\* Settings of the next state come for free, so that a step need only keep TimeInv.
LEMMA EndsOrder ==
  ASSUME Settings, Settings', TimeInv, NEW r \in Requests, Ends(r)
  PROVE  OrderInv' /\ ClockInv'
<1>0. /\ UNCHANGED <<now, queue, next, cancelled, stopAt>>
      /\ stage[r] \in {"sending"} \cup Pausing
      /\ \A s \in Requests \ {r} :
           stage'[s] = stage[s] /\ until'[s] = until[s] /\ began'[s] = began[s]
      /\ \/ /\ stage'[r] \in Pausing /\ lane' = lane /\ began'[r] = began[r]
            /\ now <= until'[r] /\ until'[r] <= Deadline(r)
         \/ /\ stage'[r] \in Results /\ began'[r] = 0
            /\ lane' = IF lane = r THEN NoOne ELSE lane
  BY EndsTime
<1>1. \A i \in 1 .. Len(queue) : queue[i] \in Requests \ {r} /\ began'[queue[i]] = began[queue[i]]
  BY <1>0 DEF Settings, QueueInv, Pausing
<1>2. \A s \in Requests : stage'[s] \in {"queued", "pacing"} => stage'[s] = stage[s]
  BY <1>0 DEF Pausing, Results
<1>3. OrderInv'
  <2>1. \A s \in Requests : began'[s] <= now'
    <3>1. now' = now /\ now \in Nat /\ \A s \in Requests : began[s] <= now
      BY <1>0 DEF TimeInv, OrderInv, Settings
    <3>2. began'[r] = 0 \/ began'[r] = began[r]
      BY <1>0
    <3>3. \A s \in Requests \ {r} : began'[s] = began[s]
      BY <1>0
    <3> QED BY <3>1, <3>2, <3>3
  <2>2. lane' # NoOne => /\ lane' = lane /\ lane \in Writers /\ lane \in Requests /\ stage'[lane] \in Held
                         /\ began'[lane] = began[lane]
    <3>1. lane # NoOne => lane \in Writers /\ lane \in Requests /\ stage[lane] \in Held
      BY DEF TimeInv, OrderInv, Settings
    <3>2. CASE lane = r
      BY <1>0, <3>1, <3>2 DEF Held
    <3>3. CASE lane # r
      BY <1>0, <3>1, <3>3
    <3> QED BY <3>2, <3>3
  <2>3. queue' = queue
    BY <1>0
  <2>4. Writers' = Writers
    BY DEF Writers, UsesLane
  <2> QED BY <1>1, <1>2, <2>1, <2>2, <2>3, <2>4 DEF TimeInv, OrderInv
<1>4. next <= now + Interval
  BY DEF TimeInv, ClockInv
<1>5. ASSUME Through' = {}, ~Busy' PROVE next = 0
  <2>1. CASE lane = r
    <3>1. r \in Writers /\ stage'[r] \in Results
      BY <1>0, <1>5, <2>1 DEF TimeInv, OrderInv, Settings, Busy, Interruptible
    <3> QED BY <1>5, <3>1 DEF Through
  <2>2. CASE lane # r
    <3>1. lane' = lane /\ (lane # NoOne => lane \in Requests \ {r})
      BY <1>0, <2>2 DEF TimeInv, OrderInv, Settings
    <3>2. ~Busy
      BY <1>0, <1>5, <3>1 DEF Busy
    <3>3. Through \subseteq Through'
      BY <1>0 DEF Through, Settings, Pausing, Results, Writers, UsesLane
    <3> QED BY <1>5, <3>2, <3>3 DEF TimeInv, ClockInv
  <2> QED BY <2>1, <2>2
<1>6. ASSUME NEW s \in Requests
      PROVE  /\ stage'[s] = "sending" =>
                  /\ now' <= until'[s] /\ until'[s] <= now' + Timeout
                  /\ s \notin Writers => until'[s] <= Deadline(s)' + Timeout
             /\ stage'[s] \in Pausing => now' <= until'[s] /\ until'[s] <= Deadline(s)'
  <2>1. CASE s = r
    BY <1>0, <2>1 DEF Pausing, Results, Deadline
  <2>2. CASE s # r
    BY <1>0, <2>2 DEF TimeInv, ClockInv, Deadline
  <2> QED BY <2>1, <2>2
<1>7. ClockInv'
  BY <1>0, <1>4, <1>5, <1>6 DEF ClockInv, Writers, UsesLane
<1> QED BY <1>3, <1>7

LEMMA EndsLate ==
  ASSUME Settings, Settings', TimeInv, NEW r \in Requests, Ends(r)
  PROVE  LateInv' /\ CancelInv'
<1>0. /\ UNCHANGED <<now, queue, next, cancelled, stopAt>>
      /\ stage[r] \in {"sending"} \cup Pausing
      /\ \A s \in Requests \ {r} :
           stage'[s] = stage[s] /\ until'[s] = until[s] /\ began'[s] = began[s]
      /\ \/ /\ stage'[r] \in Pausing /\ lane' = lane /\ began'[r] = began[r]
            /\ now <= until'[r] /\ until'[r] <= Deadline(r)
         \/ /\ stage'[r] \in Results /\ began'[r] = 0
            /\ lane' = IF lane = r THEN NoOne ELSE lane
  BY EndsTime
<1>1. ASSUME NEW s \in Requests, Unfinished(s)'
      PROVE  Unfinished(s) /\ Since(s)' = Since(s) /\ Deadline(s)' = Deadline(s)
  BY <1>0, <1>1 DEF Unfinished, Held, Since, Deadline, Results, Pausing
<1> DEFINE j == Cardinality(Through)
<1>2. CASE r \notin Writers
  <2>1. lane' = lane /\ lane # r
    <3>1. lane # r
      BY <1>2 DEF TimeInv, OrderInv, Settings
    <3> QED BY <1>0, <3>1
  <2>2. lane # NoOne => stage'[lane] = stage[lane] /\ until'[lane] = until[lane]
    BY <1>0, <2>1 DEF TimeInv, OrderInv, Settings
  <2>3. Busy' <=> Busy
    BY <2>1, <2>2 DEF Busy
  <2>4. Through' = Through
    BY <1>0, <1>2, ThroughSame DEF Settings
  <2>5. \A s \in Writers : \A late : Unfinished(s)' /\ LateBy(s, late) => LateBy(s, late)'
    BY <1>0, <1>1, <2>1, <2>2, <2>3 DEF LateBy, Settings, Busy
  <2>6. \A s \in Writers : \A late : Unfinished(s)' /\ StopsBy(s, late) => StopsBy(s, late)'
    BY <1>0, <1>1, <2>3 DEF StopsBy, Settings
  <2>7. Writers' = Writers
    BY DEF Writers, UsesLane
  <2>8. LateInv'
    BY <1>1, <2>4, <2>5, <2>7 DEF LateInv, TimeInv, Settings
  <2>9. CancelInv'
    BY <1>0, <1>1, <2>4, <2>6, <2>7 DEF CancelInv, TimeInv, Settings
  <2> QED BY <2>8, <2>9
<1>3. CASE r \in Writers
  <2>1. lane = r /\ Busy
    BY <1>0, <1>3 DEF Settings, LaneInv, Held, Pausing, Busy, Interruptible
  <2>2. CASE stage'[r] \in Pausing
    <3>1. lane' = r /\ Busy' /\ stage'[r] # "sending"
      BY <1>0, <2>1, <2>2 DEF Busy, Interruptible, Pausing, Settings, Results
    <3>2. Through' = Through
      BY <1>0, <2>2, ThroughSame DEF Settings, Pausing, Results
    <3>3. ASSUME NEW s \in Writers, Unfinished(s)', NEW late \in Nat, LateBy(s, late)
          PROVE  LateBy(s, late)'
      <4>1. Deadline(r) <= Deadline(s) /\ s \in Requests
        BY <1>1, <3>3, <2>1, HolderFirst DEF TimeInv, Settings
      <4>2. until'[r] <= Deadline(r) /\ until'[r] \in Nat
        BY <1>0, <2>2 DEF Pausing, Results, Settings
      <4>3. /\ Deadline(r) \in Nat /\ Deadline(s) \in Nat /\ next \in Nat /\ Interval \in Nat
            /\ Deadline(s)' = Deadline(s) /\ next' = next
        BY <1>0, <1>1, <3>3, <4>1 DEF Settings
      <4>4. next <= Deadline(s) + late + Interval
        BY <2>1, <3>3 DEF LateBy
      <4>5. until'[r] <= Deadline(s) + late + 0
        BY <4>1, <4>2, <4>3
      <4> QED BY <3>1, <4>3, <4>4, <4>5 DEF LateBy
    <3>4. \A s \in Writers : \A late : Unfinished(s)' /\ StopsBy(s, late) => StopsBy(s, late)'
      BY <1>0, <1>1, <2>1, <3>1 DEF StopsBy, Settings
    <3>5. Writers' = Writers
      BY DEF Writers, UsesLane
    <3>6. j * Turn \in Nat /\ j * Interval \in Nat
      BY Turns DEF Settings
    <3>7. LateInv'
      BY <1>1, <3>2, <3>3, <3>5, <3>6 DEF LateInv, TimeInv, Settings
    <3>8. CancelInv'
      BY <1>0, <1>1, <3>2, <3>4, <3>5 DEF CancelInv, TimeInv, Settings
    <3> QED BY <3>7, <3>8
  <2>3. CASE stage'[r] \in Results
    <3>1. lane' = NoOne /\ ~Busy'
      BY <1>0, <2>1, <2>3 DEF Busy, Pausing, Results
    <3>2. Cardinality(Through') = j + 1
      BY <1>0, <1>3, <2>3, ThroughOne DEF Settings, Pausing, Results
    <3>3. /\ j * Turn \in Nat /\ (j + 1) * Turn = j * Turn + Turn
          /\ j * Interval \in Nat /\ (j + 1) * Interval = j * Interval + Interval
      BY Turns DEF Settings
    <3>4. now <= until[r]
      BY <1>0, <1>3 DEF TimeInv, ClockInv, Settings
    <3>5. ASSUME NEW s \in Writers, Unfinished(s)', NEW late \in Nat, LateBy(s, late)
          PROVE  LateBy(s, late + Turn)'
      <4>1. s \in Requests
        BY DEF Settings
      <4>2. until[r] \in Nat
        BY <1>3 DEF Settings
      <4>3. /\ Deadline(s) \in Nat /\ next \in Nat /\ Interval \in Nat /\ now \in Nat
            /\ Turn \in Nat /\ Timeout \in Nat /\ Interval <= Turn /\ Timeout <= Turn
            /\ Deadline(s)' = Deadline(s) /\ next' = next /\ now' = now
        BY <1>0, <1>1, <3>5, <4>1 DEF Settings
      <4>4. next <= Deadline(s) + late + Interval
        BY <2>1, <3>5 DEF LateBy
      <4>5. until[r] <= Deadline(s) + late + Timeout
        BY <2>1, <3>5, <4>2, <4>3 DEF LateBy
      <4>6. next <= Deadline(s) + (late + Turn) + 0 /\ now <= Deadline(s) + (late + Turn)
        BY <3>4, <4>2, <4>3, <4>4, <4>5
      <4> QED BY <3>1, <4>3, <4>6 DEF LateBy
    <3>6. ASSUME NEW s \in Writers, Unfinished(s)', NEW late \in Nat, StopsBy(s, late)
          PROVE  StopsBy(s, late + Interval)'
      <4>1. s \in Requests /\ Since(s) \in Nat
        BY DEF Settings, Since
      <4>2. /\ now \in Nat /\ next \in Nat /\ Interval \in Nat
            /\ now' = now /\ next' = next /\ Since(s)' = Since(s)
        BY <1>0, <1>1, <3>6, <4>1 DEF Settings
      <4>3. now <= Since(s) + late /\ next <= Since(s) + late + Interval
        BY <2>1, <3>6 DEF StopsBy
      <4>4. next <= Since(s) + (late + Interval) + 0 /\ now <= Since(s) + (late + Interval)
        BY <4>1, <4>2, <4>3
      <4> QED BY <3>1, <4>2, <4>4 DEF StopsBy
    <3>7. Writers' = Writers
      BY DEF Writers, UsesLane
    <3>8. LateInv'
      BY <1>1, <3>2, <3>3, <3>5, <3>7 DEF LateInv, TimeInv, Settings
    <3>9. CancelInv'
      BY <1>0, <1>1, <3>2, <3>3, <3>6, <3>7 DEF CancelInv, TimeInv, Settings
    <3> QED BY <3>8, <3>9
  <2> QED BY <1>0, <2>2, <2>3
<1> QED BY <1>2, <1>3

\* A write that begins comes last, and its budget covers the turn under way.
LEMMA BeginTime ==
  ASSUME Settings, Settings', TimeInv, NEW r \in Requests, Begin(r)
  PROVE  TimeInv'
<1>0. /\ UNCHANGED <<now, lane, next, cancelled, stopAt>>
      /\ stage[r] = "new" /\ began'[r] = now
      /\ \A s \in Requests \ {r} :
           stage'[s] = stage[s] /\ until'[s] = until[s] /\ began'[s] = began[s]
      /\ \/ r \in Writers /\ stage'[r] = "queued" /\ queue' = Append(queue, r)
         \/ r \notin Writers /\ stage'[r] = "sending" /\ until'[r] = now + Timeout /\ queue' = queue
  <2>1. stage \in [Requests -> Stages] /\ began \in [Requests -> Nat] /\ until \in [Requests -> Nat]
    BY DEF Settings, TypeOK
  <2>2. UNCHANGED <<now, lane, next, cancelled, stopAt>> /\ stage[r] = "new"
    BY DEF Begin
  <2>3. began'[r] = now /\ \A s \in Requests \ {r} : began'[s] = began[s]
    BY <2>1 DEF Begin
  <2>4. CASE UsesLane(r)
    BY <2>1, <2>2, <2>3, <2>4 DEF Begin, To, Writers
  <2>5. CASE ~UsesLane(r)
    BY <2>1, <2>2, <2>3, <2>5 DEF Begin, SendIt, To, Writers
  <2> QED BY <2>4, <2>5
<1>1. Writers' = Writers
  BY DEF Writers, UsesLane
<1>2. lane # NoOne => /\ lane \in Requests \ {r} /\ stage'[lane] = stage[lane]
                      /\ until'[lane] = until[lane] /\ began'[lane] = began[lane]
  BY <1>0 DEF TimeInv, OrderInv, Settings, Held, Pausing
<1>3. Busy' <=> Busy
  BY <1>0, <1>2 DEF Busy
<1>4. Through' = Through
  BY <1>0, ThroughSame DEF Settings, Results
<1>5. \A i \in 1 .. Len(queue) : queue[i] \in Requests \ {r}
  BY <1>0 DEF Settings, QueueInv
<1>6. OrderInv'
  <2>1. \A s \in Requests : began'[s] <= now'
    <3>1. now' = now /\ now \in Nat /\ \A s \in Requests : began[s] <= now
      BY <1>0 DEF TimeInv, OrderInv, Settings
    <3> QED BY <1>0, <3>1
  <2>2. CASE r \notin Writers
    <3>1. queue' = queue
      BY <1>0, <2>2
    <3>2. \A s \in Requests : stage'[s] \in {"queued", "pacing"} => stage'[s] = stage[s]
      BY <1>0, <2>2
    <3>3. \A i \in 1 .. Len(queue) : began'[queue[i]] = began[queue[i]]
      BY <1>0, <1>5
    <3> QED BY <1>0, <1>1, <1>2, <2>1, <3>1, <3>2, <3>3 DEF TimeInv, OrderInv
  <2>3. CASE r \in Writers
    <3>1. /\ queue' = Append(queue, r) /\ Len(queue') = Len(queue) + 1 /\ Len(queue) \in Nat
          /\ \A i \in 1 .. Len(queue) : queue'[i] = queue[i] /\ queue[i] \in Requests \ {r}
          /\ queue'[Len(queue) + 1] = r
      <4>1. queue' = Append(queue, r) /\ queue \in Seq(Requests)
        BY <1>0, <2>3 DEF Settings
      <4> QED BY <1>5, <4>1
    <3>2. ASSUME NEW i \in 1 .. Len(queue')
          PROVE  \/ i \in 1 .. Len(queue) /\ queue'[i] = queue[i] /\ began'[queue'[i]] = began[queue[i]]
                 \/ i = Len(queue) + 1 /\ queue'[i] = r
      BY <1>0, <3>1
    <3>3. \A i \in 1 .. Len(queue') : queue'[i] \in Writers
      BY <2>3, <3>2 DEF TimeInv, OrderInv
    <3>4. \A i \in 1 .. Len(queue') : began'[queue'[i]] <= now
      BY <1>0, <1>1, <2>1, <3>3 DEF Settings
    <3>5. \A i, k \in 1 .. Len(queue') : i <= k => began'[queue'[i]] <= began'[queue'[k]]
      BY <1>0, <3>1, <3>2, <3>4 DEF TimeInv, OrderInv
    <3>6. lane # NoOne => \A i \in 1 .. Len(queue') : began'[lane] <= began'[queue'[i]]
      BY <1>0, <1>2, <3>2 DEF TimeInv, OrderInv, Settings
    <3>7. \A s \in Requests : stage'[s] = "queued" => \E i \in 1 .. Len(queue') : queue'[i] = s
      <4> TAKE s \in Requests
      <4>1. CASE s = r
        BY <3>1, <4>1
      <4>2. CASE s # r
        BY <1>0, <3>1, <4>2 DEF TimeInv, OrderInv
      <4> QED BY <4>1, <4>2
    <3>8. \A s \in Requests : stage'[s] = "pacing" => s \in Writers
      BY <1>0, <2>3 DEF TimeInv, OrderInv
    <3>9. lane # NoOne => lane \in Writers /\ stage'[lane] \in Held
      BY <1>2 DEF TimeInv, OrderInv
    <3> QED BY <1>0, <1>1, <2>1, <3>3, <3>5, <3>6, <3>7, <3>8, <3>9 DEF OrderInv
  <2> QED BY <2>2, <2>3
<1>7. ClockInv'
  <2>1. \A s \in Requests \ {r} : Deadline(s)' = Deadline(s)
    BY <1>0 DEF Deadline
  <2>2. Deadline(r)' = now + Budget
    BY <1>0 DEF Deadline
  <2>3. ASSUME NEW s \in Requests
        PROVE  /\ stage'[s] = "sending" =>
                    /\ now' <= until'[s] /\ until'[s] <= now' + Timeout
                    /\ s \notin Writers => until'[s] <= Deadline(s)' + Timeout
               /\ stage'[s] \in Pausing => now' <= until'[s] /\ until'[s] <= Deadline(s)'
    <3>1. CASE s # r
      BY <1>0, <2>1, <3>1 DEF TimeInv, ClockInv
    <3>2. CASE s = r
      BY <1>0, <2>2, <3>2 DEF Pausing, Settings
    <3> QED BY <3>1, <3>2
  <2> QED BY <1>0, <1>1, <1>3, <1>4, <2>3 DEF TimeInv, ClockInv
<1>8. ASSUME NEW s \in Requests, s # r
      PROVE  Deadline(s)' = Deadline(s) /\ Since(s)' = Since(s) /\ Unfinished(s)' = Unfinished(s)
  BY <1>0, <1>8 DEF Deadline, Since, Unfinished
<1>9. /\ Deadline(r)' = now + Budget
      /\ began[r] <= now /\ Since(r)' \in Nat /\ now <= Since(r)'
  BY <1>0 DEF Deadline, Since, TimeInv, OrderInv, Settings
<1>10. PICK turns \in Nat, intervals \in Nat :
         /\ turns = Cardinality(Through) * Turn /\ intervals = Cardinality(Through) * Interval
         /\ Cardinality(Through) # 0 => Turn <= turns /\ Interval <= intervals
  <2>1. Cardinality(Through) \in Nat /\ Turn \in Nat /\ Interval \in Nat
    BY DEF Settings
  <2> DEFINE turns == Cardinality(Through) * Turn
             intervals == Cardinality(Through) * Interval
  <2>2. /\ turns \in Nat /\ intervals \in Nat
        /\ Cardinality(Through) # 0 => Turn <= turns /\ Interval <= intervals
    BY <2>1, Turns
  <2> QED BY <2>2
<1>11. next <= now + Interval /\ (Cardinality(Through) = 0 /\ ~Busy => next = 0)
  BY FS_EmptySet DEF Settings, TimeInv, ClockInv
<1>14. /\ now \in Nat /\ next \in Nat /\ Interval \in Nat /\ Turn \in Nat /\ Timeout \in Nat /\ Budget \in Nat
      /\ Interval <= Turn /\ Timeout <= Turn
  BY DEF Settings
<1>12. LateInv'
  <2>1. ASSUME NEW s \in Writers, Unfinished(s)', s # r PROVE LateBy(s, turns)'
    <3>1. LateBy(s, turns) /\ Deadline(s)' = Deadline(s)
      BY <1>8, <1>10, <2>1 DEF TimeInv, LateInv, Settings
    <3> QED BY <1>0, <1>2, <1>3, <3>1 DEF LateBy, Busy
  <2>2. ASSUME r \in Writers PROVE LateBy(r, turns)'
    <3>1. now <= now + Budget + turns
      BY <1>14, <1>10
    <3>2. next <= now + Budget + turns + (IF Busy THEN Interval ELSE 0)
      BY <1>14, <1>10, <1>11
    <3>3. ASSUME Busy
          PROVE  until[lane] <= now + Budget + turns
                                  + (IF stage[lane] = "sending" THEN Timeout ELSE 0)
      <4>1. lane \in Requests /\ until[lane] \in Nat /\ began[lane] \in Nat /\ began[lane] <= now
        BY <3>3, <1>2 DEF Busy, Settings, TimeInv, OrderInv
      <4>2. CASE stage[lane] = "sending"
        <5>1. until[lane] <= now + Timeout
          BY <4>1, <4>2 DEF TimeInv, ClockInv
        <5> QED BY <1>14, <1>10, <4>1, <4>2, <5>1
      <4>3. CASE stage[lane] \in Pausing
        <5>1. until[lane] <= began[lane] + Budget
          BY <4>1, <4>3 DEF TimeInv, ClockInv, Settings
        <5>2. stage[lane] # "sending"
          BY <4>3 DEF Pausing
        <5> QED BY <1>14, <1>10, <4>1, <5>1, <5>2
      <4> QED BY <3>3, <4>2, <4>3 DEF Busy, Interruptible
    <3> QED BY <1>0, <1>2, <1>3, <1>9, <3>1, <3>2, <3>3 DEF LateBy, Busy
  <2> QED BY <1>1, <1>4, <1>10, <2>1, <2>2 DEF LateInv
<1>13. CancelInv'
  <2>1. ASSUME NEW s \in Writers, Unfinished(s)', s # r, cancelled PROVE StopsBy(s, intervals)'
    <3>1. StopsBy(s, intervals) /\ Since(s)' = Since(s)
      BY <1>8, <1>10, <2>1 DEF TimeInv, CancelInv, Settings
    <3> QED BY <1>0, <1>3, <3>1 DEF StopsBy
  <2>2. ASSUME r \in Writers PROVE StopsBy(r, intervals)'
    <3>1. now <= Since(r)' + intervals
      BY <1>14, <1>9, <1>10
    <3>2. next <= Since(r)' + intervals + (IF Busy THEN Interval ELSE 0)
      BY <1>14, <1>9, <1>10, <1>11
    <3> QED BY <1>0, <1>3, <3>1, <3>2 DEF StopsBy
  <2>3. \A s \in Requests \ Writers : cancelled /\ Unfinished(s)' => now' <= Since(s)'
    BY <1>0, <1>8, <1>9 DEF TimeInv, CancelInv
  <2> QED BY <1>0, <1>1, <1>4, <1>10, <2>1, <2>2, <2>3 DEF CancelInv
<1> QED BY <1>6, <1>7, <1>12, <1>13 DEF TimeInv

\* The lane goes to the one that has waited longest.
LEMMA TakeTime ==
  ASSUME Settings, Settings', TimeInv, TakeLane
  PROVE  TimeInv'
<1>1. queue \in Seq(Requests) /\ queue # <<>>
  BY DEF Settings, TakeLane
<1>2. PICK h \in Requests :
        /\ h = Head(queue) /\ 1 \in 1 .. Len(queue) /\ h = queue[1]
        /\ Len(Tail(queue)) = Len(queue) - 1
        /\ \A i \in 1 .. Len(Tail(queue)) : i + 1 \in 1 .. Len(queue) /\ Tail(queue)[i] = queue[i + 1]
  BY <1>1
<1>3. /\ lane = NoOne /\ lane' = h /\ queue' = Tail(queue)
      /\ UNCHANGED <<now, began, until, next, cancelled, stopAt>>
  BY <1>2 DEF TakeLane
<1>4. stage[h] = "queued" /\ h \in Writers
  BY <1>2 DEF Settings, QueueInv, TimeInv, OrderInv
<1>5. stage'[h] = "pacing" /\ \A s \in Requests \ {h} : stage'[s] = stage[s]
  BY <1>2 DEF TakeLane, To, Settings
<1>6. Writers' = Writers
  BY DEF Writers, UsesLane
<1>7. ~Busy /\ ~Busy'
  BY <1>3, <1>5 DEF Busy, Interruptible, Pausing
<1>8. Through' = Through
  BY <1>4, <1>5, ThroughSame DEF Settings, Results
<1>9. ASSUME NEW s \in Requests
      PROVE  Deadline(s)' = Deadline(s) /\ Since(s)' = Since(s) /\ (Unfinished(s)' => Unfinished(s))
  BY <1>3, <1>4, <1>5 DEF Deadline, Since, Unfinished
<1>10. OrderInv'
  <2>1. \A i \in 1 .. Len(queue') : /\ i + 1 \in 1 .. Len(queue) /\ queue'[i] = queue[i + 1]
                                    /\ 1 <= i + 1
    BY <1>2, <1>3
  <2>2. \A s \in Requests : stage'[s] = "queued" => \E i \in 1 .. Len(queue') : queue'[i] = s
    <3> SUFFICES ASSUME NEW s \in Requests, stage'[s] = "queued"
                 PROVE  \E i \in 1 .. Len(queue') : queue'[i] = s
      OBVIOUS
    <3>1. s # h /\ stage[s] = "queued"
      BY <1>5
    <3>2. PICK k \in 1 .. Len(queue) : queue[k] = s
      BY <3>1 DEF TimeInv, OrderInv
    <3>3. k # 1
      BY <1>2, <3>1, <3>2
    <3>4. k - 1 \in 1 .. Len(queue') /\ (k - 1) + 1 = k
      BY <1>1, <1>2, <1>3, <3>3
    <3> QED BY <2>1, <3>2, <3>4
  <2>3. \A s \in Requests : stage'[s] = "pacing" => s \in Writers
    BY <1>4, <1>5 DEF TimeInv, OrderInv
  <2>4. \A i \in 1 .. Len(queue') : queue'[i] \in Writers /\ began[h] <= began[queue'[i]]
    BY <1>2, <2>1 DEF TimeInv, OrderInv
  <2>5. \A i, k \in 1 .. Len(queue') : i <= k => began[queue'[i]] <= began[queue'[k]]
    <3> SUFFICES ASSUME NEW i \in 1 .. Len(queue'), NEW k \in 1 .. Len(queue'), i <= k
                 PROVE  began[queue'[i]] <= began[queue'[k]]
      OBVIOUS
    <3>1. i + 1 <= k + 1
      OBVIOUS
    <3> QED BY <2>1, <3>1 DEF TimeInv, OrderInv
  <2>6. \A s \in Requests : began[s] <= now
    BY DEF TimeInv, OrderInv
  <2>7. stage'[h] \in Held
    BY <1>5 DEF Held
  <2> QED BY <1>3, <1>4, <1>6, <2>2, <2>3, <2>4, <2>5, <2>6, <2>7 DEF OrderInv
<1>11. ClockInv'
  <2>1. \A s \in Requests : stage'[s] \in {"sending"} \cup Pausing => stage'[s] = stage[s]
    BY <1>5 DEF Pausing
  <2> QED BY <1>3, <1>6, <1>7, <1>8, <1>9, <2>1 DEF TimeInv, ClockInv
<1>12. LateInv'
  <2>1. ASSUME NEW s \in Requests, NEW late, LateBy(s, late) PROVE LateBy(s, late)'
    BY <1>3, <1>7, <1>9, <2>1 DEF LateBy
  <2> QED BY <1>6, <1>8, <1>9, <2>1 DEF TimeInv, LateInv, Settings
<1>13. CancelInv'
  <2>1. ASSUME NEW s \in Requests, NEW late, StopsBy(s, late) PROVE StopsBy(s, late)'
    BY <1>3, <1>7, <1>9, <2>1 DEF StopsBy
  <2> QED BY <1>3, <1>6, <1>8, <1>9, <2>1 DEF TimeInv, CancelInv, Settings
<1> QED BY <1>10, <1>11, <1>12, <1>13 DEF TimeInv

\* What a request that is sent, or sent again, leaves as it was.
LEMMA SendTime ==
  ASSUME Settings, NEW r \in Requests, stage[r] \in {"pacing"} \cup Pausing, SendIt(r),
         UNCHANGED <<now, began, queue, lane, cancelled, stopAt>>
  PROVE  /\ stage'[r] = "sending" /\ until'[r] = now + Timeout
         /\ \A s \in Requests \ {r} : stage'[s] = stage[s] /\ until'[s] = until[s]
         /\ Writers' = Writers /\ Through' = Through
         /\ \A s \in Requests :
              Deadline(s)' = Deadline(s) /\ Since(s)' = Since(s) /\ Unfinished(s)' = Unfinished(s)
         /\ OrderInv => OrderInv'
<1>1. stage'[r] = "sending" /\ until'[r] = now + Timeout
  BY DEF SendIt, To, Settings, TypeOK
<1>2. \A s \in Requests \ {r} : stage'[s] = stage[s] /\ until'[s] = until[s]
  BY DEF SendIt, To, Settings, TypeOK
<1>3. Writers' = Writers
  BY DEF Writers, UsesLane
<1>4. Through' = Through
  BY <1>1, <1>2, ThroughSame DEF Settings, Results, Pausing
<1>5. \A s \in Requests :
        Deadline(s)' = Deadline(s) /\ Since(s)' = Since(s) /\ Unfinished(s)' = Unfinished(s)
  BY <1>1, <1>2 DEF Deadline, Since, Unfinished, Held
<1>6. ASSUME OrderInv PROVE OrderInv'
  <2>1. \A s \in Requests : stage'[s] \in {"queued", "pacing"} => stage'[s] = stage[s]
    BY <1>1, <1>2
  <2>2. lane # NoOne => stage'[lane] \in Held
    BY <1>1, <1>2, <1>6 DEF OrderInv, Settings, Held
  <2> QED BY <1>3, <1>6, <2>1, <2>2 DEF OrderInv
<1> QED BY <1>1, <1>2, <1>3, <1>4, <1>5, <1>6

\* A write is let through: the next one an interval later.
LEMMA PaceTime ==
  ASSUME Settings, Settings', TimeInv, NEW r \in Requests, Pace(r)
  PROVE  TimeInv'
<1>1. /\ UNCHANGED <<now, began, queue, lane, cancelled, stopAt>>
      /\ stage[r] = "pacing" /\ SendIt(r) /\ next' = now + Interval
  BY DEF Pace
<1>2. /\ stage'[r] = "sending" /\ until'[r] = now + Timeout
      /\ \A s \in Requests \ {r} : stage'[s] = stage[s] /\ until'[s] = until[s]
      /\ Writers' = Writers /\ Through' = Through
      /\ \A s \in Requests :
           Deadline(s)' = Deadline(s) /\ Since(s)' = Since(s) /\ Unfinished(s)' = Unfinished(s)
      /\ OrderInv'
  BY <1>1, SendTime DEF TimeInv
<1>3. r \in Writers /\ lane = r
  BY <1>1 DEF TimeInv, OrderInv, Settings, LaneInv, Held
<1>4. ~Busy /\ Busy'
  BY <1>1, <1>2, <1>3 DEF Busy, Interruptible, Pausing, Settings
<1>5. now \in Nat /\ Interval \in Nat /\ Timeout \in Nat
  BY DEF Settings
<1>6. ClockInv'
  <2>1. now <= until'[r] /\ until'[r] <= now + Timeout
    BY <1>2, <1>5
  <2>2. ASSUME NEW s \in Requests
        PROVE  /\ stage'[s] = "sending" =>
                    /\ now' <= until'[s] /\ until'[s] <= now' + Timeout
                    /\ s \notin Writers => until'[s] <= Deadline(s)' + Timeout
               /\ stage'[s] \in Pausing => now' <= until'[s] /\ until'[s] <= Deadline(s)'
    <3>1. CASE s # r
      BY <1>1, <1>2, <3>1 DEF TimeInv, ClockInv
    <3>2. CASE s = r
      BY <1>1, <1>2, <1>3, <2>1, <3>2 DEF Pausing
    <3> QED BY <3>1, <3>2
  <2>3. next' <= now' + Interval
    BY <1>1, <1>5
  <2> QED BY <1>2, <1>4, <2>2, <2>3 DEF ClockInv
<1>7. LateInv'
  <2>1. ASSUME NEW s \in Writers, NEW late \in Nat, LateBy(s, late) PROVE LateBy(s, late)'
    <3>1. now <= Deadline(s) + late /\ Deadline(s) \in Nat /\ Deadline(s)' = Deadline(s)
      BY <1>2, <1>4, <2>1 DEF LateBy, Settings
    <3>2. next' <= Deadline(s) + late + Interval /\ until'[r] <= Deadline(s) + late + Timeout
      BY <1>1, <1>2, <1>5, <3>1
    <3> QED BY <1>1, <1>2, <1>3, <1>4, <3>1, <3>2 DEF LateBy
  <2>2. Cardinality(Through) * Turn \in Nat
    BY Turns DEF Settings
  <2> QED BY <1>2, <2>1, <2>2 DEF TimeInv, LateInv, Settings
<1>8. CancelInv'
  <2>1. ASSUME NEW s \in Writers, NEW late \in Nat, StopsBy(s, late) PROVE StopsBy(s, late)'
    <3>1. now <= Since(s) + late /\ Since(s) \in Nat /\ Since(s)' = Since(s)
      BY <1>2, <2>1 DEF StopsBy, Since, Settings
    <3> QED BY <1>1, <1>4, <1>5, <3>1, <2>1 DEF StopsBy
  <2>2. Cardinality(Through) * Interval \in Nat
    BY Turns DEF Settings
  <2> QED BY <1>1, <1>2, <2>1, <2>2 DEF TimeInv, CancelInv, Settings
<1> QED BY <1>2, <1>6, <1>7, <1>8 DEF TimeInv

\* A pause ends within the budget; the lane stays with who paused.
LEMMA WakeTime ==
  ASSUME Settings, Settings', TimeInv, NEW r \in Requests, Wake(r)
  PROVE  TimeInv'
<1>1. /\ UNCHANGED <<now, began, queue, lane, next, cancelled, stopAt>>
      /\ stage[r] \in Pausing /\ SendIt(r) /\ now >= until[r]
  BY DEF Wake, laneVars
<1>2. /\ stage'[r] = "sending" /\ until'[r] = now + Timeout
      /\ \A s \in Requests \ {r} : stage'[s] = stage[s] /\ until'[s] = until[s]
      /\ Writers' = Writers /\ Through' = Through
      /\ \A s \in Requests :
           Deadline(s)' = Deadline(s) /\ Since(s)' = Since(s) /\ Unfinished(s)' = Unfinished(s)
      /\ OrderInv'
  BY <1>1, SendTime DEF TimeInv
<1>3. now \in Nat /\ Interval \in Nat /\ Timeout \in Nat /\ until[r] \in Nat /\ Deadline(r) \in Nat
  BY DEF Settings
<1>4. now = until[r] /\ until'[r] <= Deadline(r) + Timeout
  <2>1. now <= until[r] /\ until[r] <= Deadline(r)
    BY <1>1 DEF TimeInv, ClockInv
  <2> QED BY <1>1, <1>2, <1>3, <2>1
<1>5. Busy' <=> Busy
  BY <1>1, <1>2 DEF Busy, Interruptible, TimeInv, OrderInv, Settings
<1>6. ClockInv'
  <2>1. now <= until'[r] /\ until'[r] <= now + Timeout
    BY <1>2, <1>3
  <2>2. ASSUME NEW s \in Requests
        PROVE  /\ stage'[s] = "sending" =>
                    /\ now' <= until'[s] /\ until'[s] <= now' + Timeout
                    /\ s \notin Writers => until'[s] <= Deadline(s)' + Timeout
               /\ stage'[s] \in Pausing => now' <= until'[s] /\ until'[s] <= Deadline(s)'
    <3>1. CASE s # r
      BY <1>1, <1>2, <3>1 DEF TimeInv, ClockInv
    <3>2. CASE s = r
      BY <1>1, <1>2, <1>4, <2>1, <3>2 DEF Pausing
    <3> QED BY <3>1, <3>2
  <2> QED BY <1>1, <1>2, <1>5, <2>2 DEF TimeInv, ClockInv
<1>7. LateInv'
  <2>1. ASSUME NEW s \in Writers, NEW late \in Nat, LateBy(s, late) PROVE LateBy(s, late)'
    <3>1. CASE lane = r
      <4>1. Busy /\ stage[lane] # "sending"
        BY <1>1, <3>1 DEF Busy, Interruptible, Pausing, Settings
      <4>2. until[r] <= Deadline(s) + late + 0
        BY <2>1, <3>1, <4>1 DEF LateBy
      <4>3. until'[r] <= Deadline(s) + late + Timeout
        <5>1. Deadline(s) \in Nat
          BY DEF Settings
        <5> QED BY <1>2, <1>3, <1>4, <4>2, <5>1
      <4>4. next <= Deadline(s) + late + Interval
        BY <2>1, <4>1 DEF LateBy
      <4>5. Busy' /\ next' = next /\ lane' = r /\ stage'[r] = "sending" /\ Deadline(s)' = Deadline(s)
        BY <1>1, <1>2, <1>5, <3>1, <4>1 DEF Settings
      <4> QED BY <4>3, <4>4, <4>5 DEF LateBy
    <3>2. CASE lane # r
      <4>1. Busy => stage'[lane] = stage[lane] /\ until'[lane] = until[lane]
        BY <1>2, <3>2 DEF Busy, TimeInv, OrderInv, Settings
      <4> QED BY <1>1, <1>2, <1>5, <2>1, <4>1 DEF LateBy, Settings
    <3> QED BY <3>1, <3>2
  <2>2. Cardinality(Through) * Turn \in Nat
    BY Turns DEF Settings
  <2> QED BY <1>2, <2>1, <2>2 DEF TimeInv, LateInv, Settings
<1>8. CancelInv'
  <2>1. ASSUME NEW s \in Writers, NEW late, StopsBy(s, late) PROVE StopsBy(s, late)'
    BY <1>1, <1>2, <1>5, <2>1 DEF StopsBy, Settings
  <2> QED BY <1>1, <1>2, <2>1 DEF TimeInv, CancelInv, Settings
<1> QED BY <1>2, <1>6, <1>7, <1>8 DEF TimeInv

\* From Ctrl-C on, the lane is at most an interval behind.
LEMMA CancelTime ==
  ASSUME Settings, Settings', TimeInv, Cancel
  PROVE  TimeInv'
<1>1. /\ UNCHANGED <<now, stage, began, until, queue, lane, next>>
      /\ ~cancelled /\ stopAt' = now
  BY DEF Cancel, laneVars
<1>2. Writers' = Writers /\ Through' = Through /\ Busy' = Busy
  BY <1>1 DEF Writers, UsesLane, Through, Busy
<1>3. OrderInv' /\ ClockInv'
  BY <1>1, <1>2 DEF TimeInv, OrderInv, ClockInv, Deadline
<1>4. LateInv'
  BY <1>1, <1>2 DEF TimeInv, LateInv, LateBy, Deadline, Unfinished
<1>5. \A s \in Requests : Since(s)' \in Nat /\ now <= Since(s)'
  BY <1>1 DEF Since, Settings
<1>6. now \in Nat /\ next \in Nat /\ Interval \in Nat /\ Cardinality(Through) \in Nat
  BY DEF Settings
<1>7. PICK intervals \in Nat :
         /\ intervals = Cardinality(Through) * Interval
         /\ Cardinality(Through) # 0 => Interval <= intervals
  <2> DEFINE intervals == Cardinality(Through) * Interval
  <2>1. intervals \in Nat /\ (Cardinality(Through) # 0 => Interval <= intervals)
    BY <1>6, Turns
  <2> QED BY <2>1
<1>8. next <= now + Interval /\ (Cardinality(Through) = 0 /\ ~Busy => next = 0)
  BY FS_EmptySet DEF Settings, TimeInv, ClockInv
<1>9. ASSUME NEW s \in Writers PROVE StopsBy(s, intervals)'
  <2>1. Since(s)' \in Nat /\ now <= Since(s)'
    BY <1>5 DEF Settings
  <2>2. now <= Since(s)' + intervals
    BY <1>6, <2>1
  <2>3. next <= Since(s)' + intervals + (IF Busy THEN Interval ELSE 0)
    BY <1>6, <1>7, <1>8, <2>1
  <2> QED BY <1>1, <1>2, <2>2, <2>3 DEF StopsBy
<1>10. CancelInv'
  BY <1>1, <1>2, <1>5, <1>7, <1>9 DEF CancelInv
<1> QED BY <1>3, <1>4, <1>10 DEF TimeInv

\* Time passes while someone is on its way, or the lane paces.
LEMMA TickTime ==
  ASSUME Settings, Settings', TimeInv, Tick
  PROVE  TimeInv'
<1>1. UNCHANGED <<stage, began, until, queue, lane, next, cancelled, stopAt>> /\ now' = now + 1
  BY DEF Tick, laneVars
<1>2. /\ lane = NoOne => queue = <<>>
      /\ \A s \in Requests : stage[s] = "pacing" => ~(now >= next)
      /\ \A s \in Requests : stage[s] \in Interruptible => ~cancelled /\ ~(now >= until[s])
  BY DEF Tick, Due
<1>3. Writers' = Writers /\ Through' = Through /\ Busy' = Busy
  BY <1>1 DEF Writers, UsesLane, Through, Busy
<1>4. now \in Nat /\ next \in Nat /\ Interval \in Nat /\ Timeout \in Nat
  BY DEF Settings
<1>5. \A s \in Requests : Deadline(s)' = Deadline(s) /\ Since(s)' = Since(s) /\ Unfinished(s)' = Unfinished(s)
  BY <1>1 DEF Deadline, Since, Unfinished
<1>6. OrderInv'
  <2>1. \A s \in Requests : began[s] <= now + 1
    BY <1>4 DEF TimeInv, OrderInv, Settings
  <2> QED BY <1>1, <1>3, <2>1 DEF TimeInv, OrderInv
<1>7. ClockInv'
  <2>1. next <= now + 1 + Interval
    BY <1>4 DEF TimeInv, ClockInv
  <2>2. ASSUME NEW s \in Requests
        PROVE  /\ stage[s] = "sending" =>
                    /\ now + 1 <= until[s] /\ until[s] <= now + 1 + Timeout
                    /\ s \notin Writers => until[s] <= Deadline(s) + Timeout
               /\ stage[s] \in Pausing => now + 1 <= until[s] /\ until[s] <= Deadline(s)
    <3>1. until[s] \in Nat
      BY DEF Settings
    <3>2. stage[s] \in Interruptible => now + 1 <= until[s]
      BY <1>2, <1>4, <3>1
    <3>3. stage[s] = "sending" => until[s] <= now + 1 + Timeout
      BY <1>4, <3>1 DEF TimeInv, ClockInv
    <3> QED BY <3>2, <3>3 DEF TimeInv, ClockInv, Interruptible
  <2> QED BY <1>1, <1>3, <1>5, <2>1, <2>2 DEF TimeInv, ClockInv
<1>8. ASSUME NEW s \in Writers, Unfinished(s), ~Busy PROVE now + 1 <= next
  <2>1. lane # NoOne
    <3> SUFFICES ASSUME lane = NoOne PROVE FALSE
      OBVIOUS
    <3>1. stage[s] \notin Held
      BY <1>8 DEF Settings, LaneInv
    <3>2. stage[s] = "queued" /\ queue = <<>>
      BY <1>2, <1>8, <3>1 DEF Unfinished
    <3>3. \E i \in 1 .. Len(queue) : queue[i] = s
      BY <3>2 DEF TimeInv, OrderInv, Settings
    <3> QED BY <3>2, <3>3
  <2>2. lane \in Requests /\ stage[lane] = "pacing"
    BY <1>8, <2>1 DEF TimeInv, OrderInv, Settings, Busy, Held, Interruptible
  <2> QED BY <1>2, <1>4, <2>2
<1>9. LateInv'
  <2>1. ASSUME NEW s \in Writers, Unfinished(s), NEW late \in Nat, LateBy(s, late)
        PROVE  LateBy(s, late)'
    <3>1. ~Busy => now + 1 <= Deadline(s) + late
      <4> SUFFICES ASSUME ~Busy PROVE now + 1 <= Deadline(s) + late
        OBVIOUS
      <4>1. now + 1 <= next /\ next <= Deadline(s) + late + 0 /\ Deadline(s) \in Nat
        BY <1>8, <2>1 DEF LateBy, Settings
      <4> QED BY <1>4, <4>1
    <3> QED BY <1>1, <1>3, <1>5, <2>1, <3>1 DEF LateBy, Settings
  <2>2. Cardinality(Through) * Turn \in Nat
    BY Turns DEF Settings
  <2> QED BY <1>3, <1>5, <2>1, <2>2 DEF TimeInv, LateInv, Settings
<1>10. CancelInv'
  <2> SUFFICES ASSUME cancelled PROVE CancelInv'
    BY <1>1 DEF CancelInv
  <2>1. \A s \in Requests : stage[s] \notin Interruptible
    BY <1>2
  <2>2. ~Busy
    BY <2>1 DEF Busy, TimeInv, OrderInv, Settings
  <2>3. ASSUME NEW s \in Requests, Unfinished(s) PROVE s \in Writers
    BY <2>1, <2>3 DEF Unfinished, Held, Interruptible, TimeInv, OrderInv
  <2>4. ASSUME NEW s \in Writers, Unfinished(s), NEW late \in Nat, StopsBy(s, late)
        PROVE  StopsBy(s, late)'
    <3>1. Since(s) \in Nat /\ now + 1 <= next /\ next <= Since(s) + late + 0
      BY <1>8, <2>2, <2>4 DEF StopsBy, Since, Settings
    <3>2. now + 1 <= Since(s) + late
      BY <1>4, <3>1
    <3> QED BY <1>1, <1>3, <1>5, <2>2, <2>4, <3>2 DEF StopsBy, Settings
  <2>5. Cardinality(Through) * Interval \in Nat
    BY Turns DEF Settings
  <2> QED BY <1>3, <1>5, <2>3, <2>4, <2>5 DEF TimeInv, CancelInv, Settings
<1> QED BY <1>6, <1>7, <1>9, <1>10 DEF TimeInv

LEMMA TimeStep ==
  ASSUME Settings, Settings', TimeInv, [Next]_vars
  PROVE  TimeInv'
<1>1. ASSUME NEW r \in Requests, Ends(r) PROVE TimeInv'
  BY <1>1, EndsOrder, EndsLate DEF TimeInv
<1>2. CASE Finished \/ UNCHANGED vars
  <2>1. UNCHANGED <<now, stage, began, until, queue, lane, next, cancelled, stopAt>>
    BY <1>2 DEF Finished, vars, laneVars
  <2>2. Writers' = Writers /\ Through' = Through /\ Busy' = Busy
    BY <2>1 DEF Writers, UsesLane, Through, Busy
  <2>3. OrderInv' /\ ClockInv'
    BY <2>1, <2>2 DEF TimeInv, OrderInv, ClockInv, Deadline
  <2>4. LateInv' /\ CancelInv'
    BY <2>1, <2>2 DEF TimeInv, LateInv, LateBy, CancelInv, StopsBy, Since, Deadline, Unfinished
  <2> QED BY <2>3, <2>4 DEF TimeInv
<1> QED
  BY <1>1, <1>2, ReceiveEnds, FailEnds, StopEnds, BeginTime, TakeTime, PaceTime, WakeTime,
     CancelTime, TickTime
  DEF Next, Step

LEMMA TimeInit == Init => TimeInv
<1> SUFFICES ASSUME Init PROVE TimeInv
  OBVIOUS
<1>1. /\ now = 0 /\ next = 0 /\ queue = <<>> /\ lane = NoOne /\ ~cancelled
      /\ \A r \in Requests : stage[r] = "new" /\ began[r] = 0
  BY DEF Init
<1>2. OrderInv
  BY <1>1 DEF OrderInv
<1>3. ClockInv
  BY <1>1, HttpAssumption DEF ClockInv, Pausing
<1>4. LateInv /\ CancelInv
  BY <1>1 DEF LateInv, CancelInv, Unfinished, Held, Pausing, Writers
<1> QED BY <1>2, <1>3, <1>4 DEF TimeInv

\* A write under way is none of those that are through.
LEMMA OthersThrough ==
  ASSUME Settings, NEW r \in Writers, Unfinished(r), NEW m \in Nat
  PROVE  /\ Cardinality(Through) * m \in Nat /\ (Cardinality(Writers) - 1) * m \in Nat
         /\ Cardinality(Through) * m <= (Cardinality(Writers) - 1) * m
<1>1. IsFiniteSet(Writers) /\ Cardinality(Writers) \in Nat
  <2>1. Writers \in SUBSET Requests
    BY DEF Writers
  <2> QED BY <2>1, FS_Subset, FS_CardinalityType, HttpAssumption
<1>2. Through \in SUBSET (Writers \ {r})
  BY DEF Through, Unfinished, Held, Pausing, Results
<1>3. IsFiniteSet(Writers \ {r}) /\ Cardinality(Writers \ {r}) = Cardinality(Writers) - 1
  BY <1>1, FS_RemoveElement
<1>4. Cardinality(Through) <= Cardinality(Writers) - 1
  BY <1>2, <1>3, FS_Subset
<1>5. PICK i \in Nat : Cardinality(Writers) - 1 = Cardinality(Through) + i
  <2> DEFINE i == Cardinality(Writers) - 1 - Cardinality(Through)
  <2>1. i \in Nat /\ Cardinality(Writers) - 1 = Cardinality(Through) + i
    BY <1>1, <1>4 DEF Settings
  <2> QED BY <2>1
<1>6. \A j, k \in Nat : j * m \in Nat /\ k * m \in Nat /\ (j + k) * m = j * m + k * m
  OBVIOUS
<1>7. Cardinality(Through) \in Nat
  BY DEF Settings
<1>8. ASSUME NEW j \in Nat, NEW k \in Nat
      PROVE  j * m <= (j + k) * m /\ (j + k) * m \in Nat /\ j * m \in Nat
  BY <1>6
<1> QED BY <1>5, <1>7, <1>8

LEMMA AlwaysTime == Spec => [](Inv /\ LaneInv /\ TimeInv)
<1>1. Init => TimeInv /\ LaneInv
  BY TimeInit DEF Init, LaneInv, Held, Pausing, Writers
<1>2. Inv /\ LaneInv => Settings
  BY SettingsHold
<1>3. Inv /\ LaneInv /\ [Next]_vars => LaneInv'
  BY LaneStep
<1>4. Settings /\ Settings' /\ TimeInv /\ [Next]_vars => TimeInv'
  BY TimeStep
<1> QED
  BY Always, <1>1, <1>2, <1>3, <1>4, PTL DEF Spec

\* However often a request is repeated or told to wait, it is over within its budget, one
\* attempt, and a turn of each other write.
THEOREM LateOnly == Spec => []LateOnlyByTheQueue
<1>1. ASSUME Inv, LaneInv, TimeInv PROVE LateOnlyByTheQueue
  <2>0. Settings
    BY <1>1, SettingsHold
  <2> SUFFICES ASSUME NEW r \in Requests, Unfinished(r)
               PROVE  now <= began[r] + Budget + Timeout
                               + IF UsesLane(r) THEN (Cardinality(Writers) - 1) * Turn ELSE 0
    BY DEF LateOnlyByTheQueue
  <2>1. /\ now \in Nat /\ began[r] \in Nat /\ Budget \in Nat /\ Timeout \in Nat
        /\ until[r] \in Nat /\ Deadline(r) = began[r] + Budget
    BY <2>0 DEF Settings
  <2>2. CASE r \notin Writers
    <3>1. stage[r] \in Interruptible
      BY <1>1, <2>2 DEF Unfinished, Held, Interruptible, TimeInv, OrderInv
    <3>2. now <= until[r] /\ until[r] <= Deadline(r) + Timeout
      BY <1>1, <2>1, <2>2, <3>1 DEF TimeInv, ClockInv, Interruptible
    <3> QED BY <2>1, <2>2, <3>2 DEF Writers
  <2>3. CASE r \in Writers
    <3>1. PICK late \in Nat, most \in Nat :
             /\ late = Cardinality(Through) * Turn
             /\ most = (Cardinality(Writers) - 1) * Turn
             /\ late <= most
      BY <2>0, <2>3, OthersThrough DEF Settings
    <3>2. LateBy(r, late)
      BY <1>1, <2>3, <3>1 DEF TimeInv, LateInv
    <3>3. now <= Deadline(r) + late + Timeout
      <4>1. CASE Busy
        <5>1. lane \in Requests /\ until[lane] \in Nat
          BY <1>1, <2>0, <4>1 DEF Busy, TimeInv, OrderInv, Settings
        <5>2. now <= until[lane]
          BY <1>1, <4>1, <5>1 DEF Busy, Interruptible, TimeInv, ClockInv
        <5>3. until[lane] <= Deadline(r) + late + Timeout
          BY <2>1, <3>2, <4>1, <5>1 DEF LateBy
        <5> QED BY <2>1, <5>1, <5>2, <5>3
      <4>2. CASE ~Busy
        BY <2>1, <3>2, <4>2 DEF LateBy
      <4> QED BY <4>1, <4>2
    <3>4. UsesLane(r)
      BY <2>3 DEF Writers
    <3>5. now <= began[r] + Budget + Timeout + most
      BY <2>1, <3>1, <3>3
    <3> QED BY <3>1, <3>4, <3>5
  <2> QED BY <2>2, <2>3
<1> QED
  BY AlwaysTime, <1>1, PTL

\* After Ctrl-C a request that waits for nothing is over at once, and a write once the
\* others have been let through and cut short in their turn.
THEOREM CancelEnds == Spec => []CancelEndsSoon
<1>1. ASSUME Inv, LaneInv, TimeInv PROVE CancelEndsSoon
  <2>0. Settings
    BY <1>1, SettingsHold
  <2> SUFFICES ASSUME NEW r \in Requests, cancelled, Unfinished(r)
               PROVE  now <= Since(r) + IF UsesLane(r)
                                        THEN (Cardinality(Writers) - 1) * Interval ELSE 0
    BY DEF CancelEndsSoon, Since
  <2>1. now \in Nat /\ Since(r) \in Nat
    BY <2>0 DEF Settings, Since
  <2>2. CASE r \notin Writers
    <3>1. now <= Since(r)
      BY <1>1, <2>2 DEF TimeInv, CancelInv
    <3> QED BY <2>1, <2>2, <3>1 DEF Writers
  <2>3. CASE r \in Writers
    <3>1. PICK late \in Nat, most \in Nat :
             /\ late = Cardinality(Through) * Interval
             /\ most = (Cardinality(Writers) - 1) * Interval
             /\ late <= most
      BY <2>0, <2>3, OthersThrough DEF Settings
    <3>2. now <= Since(r) + late
      BY <1>1, <2>3, <3>1 DEF TimeInv, CancelInv, StopsBy
    <3>3. UsesLane(r)
      BY <2>3 DEF Writers
    <3>4. now <= Since(r) + most
      BY <2>1, <3>1, <3>2
    <3> QED BY <3>1, <3>3, <3>4
  <2> QED BY <2>2, <2>3
<1> QED
  BY AlwaysTime, <1>1, PTL
=============================================================================
