--------------------------------- MODULE Http ---------------------------------
(***************************************************************************)
(* The HTTP layer under every forge client: logical requests that classify *)
(* what a forge answers, wait out its rate limits, repeat what may be      *)
(* repeated, and on GitHub take turns in a write lane -- all by the clock, *)
(* any of them cut short by Ctrl-C.  One unit of time stands for as much   *)
(* as the constants make of it.                                            *)
(***************************************************************************)
EXTENDS Integers, Sequences, FiniteSets

CONSTANTS
  Requests,       \* logical requests, each made once
  NoOne,          \* none of them
  Method,         \* Method[r]: GET, POST, or PUT for all the other ones
  Repeatable,     \* those made with idempotent: Some(true)
  ExpectBody,     \* those made with expect_body
  Classifier,     \* Classifier[r]: how the answers to r are read
  Laned,          \* those made with a client that has a write lane: GitHub's REST API
  Interval,       \* how far apart the lane keeps the writes it lets through
  Budget, Base, Cap, DefaultWait, Timeout,  \* RetryPolicy
  Answers,        \* what the forge may answer
  LatestStart     \* bound: no request is begun after this time

\* The answers of the forges themselves.
Statuses == {200, 203, 400, 401, 403, 404, 408, 409, 422, 429, 500, 502, 503, 504}

\* An option is a set of at most one element: after is what a Retry-After header
\* says, reset the time to the reset of an hourly limit, which may be past;
\* exhausted says that nothing is left of it.
AnswerTypes ==
  [status : Statuses, after : SUBSET Nat, exhausted : BOOLEAN, reset : SUBSET Int,
   body : {"some", "empty", "secondary rate limit", "RATE_LIMITED"}]

ASSUME HttpAssumption ==
  /\ IsFiniteSet(Requests) /\ NoOne \notin Requests
  /\ Method \in [Requests -> {"GET", "PUT", "POST"}]
  /\ {Repeatable, ExpectBody, Laned} \subseteq SUBSET Requests
  /\ Classifier \in [Requests ->
       {"generic", "forgejo", "github", "github_graphql", "azuredevops"}]
  /\ {Interval, LatestStart} \subseteq Nat
  /\ {Budget, Base, Cap, DefaultWait, Timeout} \subseteq Nat \ {0}
  /\ Answers \subseteq AnswerTypes

VARIABLES
  now,
  stage,      \* how far each request has come
  began,      \* when it was begun: its deadline counts from there
  until,      \* when its pause, or the transport's patience, ends
  attempt,    \* how often it was sent
  queue,      \* the writes waiting for the lane, in the order they came
  lane,       \* the write that holds it
  next,       \* when the lane may let the next one through
  pauses,     \* when the longest rate-limit pause ends: the progress line's
  cancelled,  \* Ctrl-C
  (* history *)
  stopAt,     \* when that was
  did,        \* how often the forge did what a request asks, counted to Enough
  mistaken    \* requests that may not be repeated and were, when done, taken for unsent

laneVars == <<queue, lane, next>>
vars == <<now, stage, began, until, attempt, laneVars, pauses, cancelled, stopAt, did, mistaken>>

Pausing == {"backoff", "waiting"}

\* A write in one of these holds the lane.
Held == {"pacing", "sending"} \cup Pausing

\* What a caller is told.
Results == {"answered", "refused", "limited", "failed", "cancelled"}

Enough == 2

TypeOK ==
  /\ now \in Nat /\ next \in Nat /\ pauses \in Nat /\ stopAt \in Nat
  /\ stage \in [Requests -> {"new", "queued"} \cup Held \cup Results]
  /\ began \in [Requests -> Nat] /\ until \in [Requests -> Nat]
  /\ attempt \in [Requests -> Nat]
  /\ queue \in Seq(Requests) /\ lane \in Requests \cup {NoOne}
  /\ cancelled \in BOOLEAN
  /\ did \in [Requests -> 0 .. Enough] /\ mistaken \subseteq Requests

Init ==
  /\ now = 0 /\ next = 0 /\ pauses = 0 /\ stopAt = 0
  /\ stage = [r \in Requests |-> "new"]
  /\ began = [r \in Requests |-> 0] /\ until = [r \in Requests |-> 0]
  /\ attempt = [r \in Requests |-> 0]
  /\ queue = <<>> /\ lane = NoOne
  /\ cancelled = FALSE
  /\ did = [r \in Requests |-> 0] /\ mistaken = {}

-----------------------------------------------------------------------------
(* Reading an answer *)

Plain(class) == [class |-> class, wait |-> {}]

RateLimited(wait) == [class |-> "RateLimited", wait |-> wait]

OfStatus(status) ==
  CASE status = 404 -> "NotFound"
    [] status = 409 -> "Conflict"
    [] status = 422 -> "Unprocessable"
    [] status = 401 -> "Auth"
    [] status = 403 -> "Forbidden"
    [] status = 429 -> "RateLimited"
    [] status \in {408, 500, 502, 503, 504} -> "Transient"
    [] OTHER -> "Permanent"

\* "plus one so that a request is never sent a hair too early"
RetryAfter(a) == {s + 1 : s \in a.after}

\* A slip: a reset that is past already is not made a pause.
UntilResetPast(a) == a.reset

\* "(reset - now).max(1)"
UntilReset(a) == {IF s < 1 THEN 1 ELSE s : s \in a.reset}

Generic(a) ==
  IF a.status = 429 THEN RateLimited(RetryAfter(a)) ELSE Plain(OfStatus(a.status))

Forgejo(a) ==
  IF a.status = 503 /\ a.after # {} THEN RateLimited(RetryAfter(a)) ELSE Generic(a)

\* The secondary limit's minute is the default one.
GitHub(a) ==
  IF a.status \notin {403, 429} THEN Generic(a)
  ELSE IF a.after # {} THEN RateLimited(RetryAfter(a))
  ELSE IF a.exhausted /\ a.reset # {} THEN RateLimited(UntilReset(a))
  ELSE IF a.body = "secondary rate limit" \/ a.status = 429
       THEN RateLimited({DefaultWait})
       ELSE Plain("Forbidden")

GraphQL(a) ==
  IF a.status = 200
  THEN IF a.body = "RATE_LIMITED"
       THEN RateLimited(IF a.reset = {} THEN {DefaultWait} ELSE UntilReset(a))
       ELSE Plain("Permanent")
  ELSE GitHub(a)

AzureDevOps(a) == IF a.status = 203 THEN Plain("Auth") ELSE Generic(a)

Classify(r, a) ==
  CASE Classifier[r] = "forgejo" -> Forgejo(a)
    [] Classifier[r] = "github" -> GitHub(a)
    [] Classifier[r] = "github_graphql" -> GraphQL(a)
    [] Classifier[r] = "azuredevops" -> AzureDevOps(a)
    [] OTHER -> Generic(a)

\* A classifier may veto a 2xx.
Succeeds(r, a) ==
  a.status \in 200 .. 299 /\ Classify(r, a).class \notin {"Auth", "RateLimited"}

\* Whether the forge has done what was asked: it has when it says so, it has not
\* when it refuses or asks to be asked later, and nobody knows after a 5xx.
Done(r, a) ==
  IF Succeeds(r, a) THEN {TRUE}
  ELSE IF Classify(r, a).class = "Transient" THEN BOOLEAN ELSE {FALSE}

-----------------------------------------------------------------------------
(* The steps of a request *)

Idempotent(r) == Method[r] # "POST" \/ r \in Repeatable

UsesLane(r) == r \in Laned /\ Method[r] # "GET"

\* A slip: the budget is that of one attempt.
DeadlineRenewed(r) == now + Budget

\* "Total wall-clock budget for one logical request", counted from before the
\* wait for the lane.
Deadline(r) == began[r] + Budget

To(r, s) == stage' = [stage EXCEPT ![r] = s]

SendIt(r) ==
  /\ To(r, "sending")
  /\ until' = [until EXCEPT ![r] = now + Timeout]
  /\ attempt' = [attempt EXCEPT ![r] = @ + 1]

\* The guard of the lane is dropped with the request's future.
Release(r) == lane' = IF lane = r THEN NoOne ELSE lane

\* A caller is answered, and what the request knew is gone.
End(r, result) ==
  /\ To(r, result) /\ Release(r)
  /\ until' = [until EXCEPT ![r] = 0]
  /\ attempt' = [attempt EXCEPT ![r] = 0]
  /\ began' = [began EXCEPT ![r] = 0]
  /\ UNCHANGED pauses

\* A slip: a request that pauses lets another one through.
SleepUnlocked(r, s, d) ==
  /\ To(r, s) /\ Release(r)
  /\ until' = [until EXCEPT ![r] = now + d]
  /\ UNCHANGED <<began, attempt>>

Sleep(r, s, d) ==
  /\ To(r, s)
  /\ until' = [until EXCEPT ![r] = now + d]
  /\ UNCHANGED <<began, attempt, lane>>

\* Exponential backoff with full jitter, from a tenth of the pause to all of it.
Backoff(n) ==
  LET exp == Base * 2 ^ (n - 1)
      cap == IF exp < Cap THEN exp ELSE Cap
  IN {d \in 1 .. cap : 10 * d >= cap}

\* A slip: everything is repeated while the budget lasts.
TryAlways(r, may) ==
  \E d \in Backoff(attempt[r]) :
    IF now + d < Deadline(r)
    THEN Sleep(r, "backoff", d) /\ UNCHANGED pauses
    ELSE End(r, "failed")

\* Another attempt while the budget lasts, for what may be repeated.
TryAgain(r, may) ==
  \E d \in Backoff(attempt[r]) :
    IF may /\ now + d < Deadline(r)
    THEN Sleep(r, "backoff", d) /\ UNCHANGED pauses
    ELSE End(r, "failed")

\* A slip: the last pause hides a longer one.
NoteLast(wait) == pauses' = now + wait

\* Pauses::note keeps the longest one.
Note(wait) == pauses' = IF now + wait > pauses THEN now + wait ELSE pauses

WaitOut(r, waits) ==
  \E w \in IF waits = {} THEN {DefaultWait} ELSE waits :
    IF now + w > Deadline(r)
    THEN End(r, "limited")
    ELSE Sleep(r, "waiting", w) /\ Note(w)

Handle(r, a) ==
  LET c == Classify(r, a)
      empty == r \in ExpectBody /\ a.body = "empty"
  IN \/ Succeeds(r, a) /\ ~empty /\ End(r, "answered")
     \/ Succeeds(r, a) /\ empty /\ TryAgain(r, Idempotent(r))
     \/ ~Succeeds(r, a) /\ c.class = "RateLimited" /\ WaitOut(r, c.wait)
     \/ ~Succeeds(r, a) /\ c.class = "Transient" /\ TryAgain(r, Idempotent(r))
     \/ /\ ~Succeeds(r, a) /\ c.class \notin {"RateLimited", "Transient"}
        /\ End(r, "refused")

\* The forge did it once more, or did not; what may be repeated is not counted.
Does(r, yes) ==
  did' = [did EXCEPT ![r] = IF yes /\ ~Idempotent(r) /\ @ < Enough THEN @ + 1 ELSE @]

Receive(r) ==
  /\ stage[r] = "sending"
  /\ \E a \in Answers : \E yes \in Done(r, a) : Handle(r, a) /\ Does(r, yes)
  /\ UNCHANGED <<now, queue, next, cancelled, stopAt, mistaken>>

\* TransportError::before_send: nobody was reached, or so it looks.  To reqwest a
\* connection that is lost before the answer is an error of the request, too.
BeforeSend(f) == f \in {"connect", "dropped"}

\* The forge did what is taken for unsent.
Mistakes(r, yes) ==
  mistaken' = IF yes /\ ~Idempotent(r) THEN mistaken \cup {r} ELSE mistaken

\* What goes wrong below HTTP; a connection may be lost before the answer, or in
\* the middle of it.
Fail(r) ==
  /\ stage[r] = "sending"
  /\ \E f \in {"connect", "dropped", "cut", "timeout"}, yes \in BOOLEAN :
       /\ f = "connect" => ~yes
       /\ f = "timeout" <=> now >= until[r]
       /\ TryAgain(r, Idempotent(r) \/ BeforeSend(f))
       /\ Does(r, yes) /\ Mistakes(r, yes /\ BeforeSend(f))
  /\ UNCHANGED <<now, queue, next, cancelled, stopAt>>

\* HttpClient::send is called.
Begin(r) ==
  /\ stage[r] = "new" /\ now <= LatestStart
  /\ began' = [began EXCEPT ![r] = now]
  /\ IF UsesLane(r)
     THEN /\ To(r, "queued") /\ queue' = Append(queue, r)
          /\ UNCHANGED <<until, attempt>>
     ELSE SendIt(r) /\ UNCHANGED queue
  /\ UNCHANGED <<now, lane, next, pauses, cancelled, stopAt, did, mistaken>>

\* tokio's mutex is handed on in the order it was asked for.
TakeLane ==
  /\ lane = NoOne /\ queue # <<>>
  /\ lane' = Head(queue) /\ queue' = Tail(queue)
  /\ To(Head(queue), "pacing")
  /\ UNCHANGED <<now, began, until, attempt, next, pauses, cancelled, stopAt, did, mistaken>>

\* The interval since the last write was let through is over.
Pace(r) ==
  /\ stage[r] = "pacing" /\ now >= next
  /\ next' = now + Interval
  /\ SendIt(r)
  /\ UNCHANGED <<now, began, queue, lane, pauses, cancelled, stopAt, did, mistaken>>

Wake(r) ==
  /\ stage[r] \in Pausing /\ now >= until[r]
  /\ SendIt(r)
  /\ UNCHANGED <<now, began, laneVars, pauses, cancelled, stopAt, did, mistaken>>

Cancel ==
  /\ ~cancelled /\ cancelled' = TRUE /\ stopAt' = now
  /\ UNCHANGED <<now, stage, began, until, attempt, laneVars, pauses, did, mistaken>>

\* A slip: pauses are sat through.
OnlyExchanges == {"sending"}

\* Cancellation cuts a pause or an exchange short, not a wait for the lane; what
\* was on its way may still be done.
Interruptible == {"sending"} \cup Pausing

Stop(r) ==
  /\ cancelled /\ stage[r] \in Interruptible
  /\ End(r, "cancelled")
  /\ \E yes \in {FALSE, stage[r] = "sending"} : Does(r, yes)
  /\ UNCHANGED <<now, queue, next, cancelled, stopAt, mistaken>>

Step(r) == Begin(r) \/ Receive(r) \/ Fail(r) \/ Pace(r) \/ Wake(r) \/ Stop(r)

\* Something the runtime would do before time passes.
Due ==
  \/ lane = NoOne /\ queue # <<>>
  \/ \E r \in Requests :
       \/ stage[r] = "pacing" /\ now >= next
       \/ stage[r] \in Interruptible /\ (cancelled \/ now >= until[r])

Tick ==
  /\ ~Due
  /\ \/ now <= LatestStart
     \/ \E r \in Requests : stage[r] \in {"queued"} \cup Held
  /\ now' = now + 1
  /\ UNCHANGED <<stage, began, until, attempt, laneVars, pauses, cancelled, stopAt, did, mistaken>>

Finished ==
  /\ now > LatestStart
  /\ \A r \in Requests : stage[r] \in {"new"} \cup Results
  /\ UNCHANGED vars

Next == (\E r \in Requests : Step(r)) \/ TakeLane \/ Cancel \/ Tick \/ Finished

Spec == Init /\ [][Next]_vars

-----------------------------------------------------------------------------
(* Properties *)

Unfinished(r) == stage[r] \in {"queued"} \cup Held

Writers == {r \in Requests : UsesLane(r)}

\* Of a request that may not be repeated the caller is told the truth, which create_verified
\* relies on: it believes a refusal, and looks when it cannot know.  One that was answered is
\* done; and whatever came before -- answers, pauses, timeouts, connections cut in an answer --
\* it is done at most once, and one that was refused is not, unless the transport took a
\* carried out one for unsent.
PostsTellTheTruth ==
  \A r \in Requests : ~Idempotent(r) =>
    /\ stage[r] = "answered" => did[r] >= 1
    /\ r \notin mistaken =>
         /\ did[r] <= 1
         /\ stage[r] \in {"refused", "limited"} => did[r] = 0

\* "The request never reached the server, so a non-idempotent request can be repeated
\* safely" (error.rs, of before_send): what may not be repeated is done at most once.
RepeatedSafely == \A r \in Requests : ~Idempotent(r) => did[r] <= 1

\* "A mutation waiting out a rate limit must not let another one through."
SerialWrites ==
  \A r, s \in Writers : stage[r] \in Held /\ stage[s] \in Held => r = s

\* What one write takes of the time of those behind it, at most.
Turn == IF Interval > Timeout THEN Interval ELSE Timeout

\* The budget does not count the wait for the lane in, but no request outlives
\* it by more than one attempt of its own and one of every write before it.
LateOnlyByTheQueue ==
  \A r \in Requests : Unfinished(r) =>
    now <= began[r] + Budget + Timeout
             + IF UsesLane(r)
               THEN (Cardinality(Writers) - 1) * Turn
               ELSE 0

\* The progress line reports a pause exactly while a request sits through one.
PausesTellTheTruth ==
  ~cancelled =>
    (pauses > now <=> \E r \in Requests : stage[r] = "waiting" /\ until[r] > now)

\* After Ctrl-C nothing waits for a forge any more: the lane empties at its pace.
CancelEndsSoon ==
  \A r \in Requests : cancelled /\ Unfinished(r) =>
    now <= (IF began[r] > stopAt THEN began[r] ELSE stopAt)
             + IF UsesLane(r) THEN (Cardinality(Writers) - 1) * Interval ELSE 0
=============================================================================
