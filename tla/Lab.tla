--------------------------------- MODULE Lab ---------------------------------
(***************************************************************************)
(* forgelab's tasks at work through the fault layer: the requests of its   *)
(* API clients, and git commands with the pace and the retries of          *)
(* seed::git_network.  A task works on one repository, one thing after the *)
(* other; the layer, the pace and time are shared.                         *)
(***************************************************************************)
EXTENDS FaultEngine

CONSTANTS
  Attempts,       \* of a git command
  RateLimitWait,  \* the pause after a rate limit
  Interval,       \* GitPace: between the starts of two commands; 0 where there is no pace
  MaxTasks,       \* bound: what the tasks do in all
  MaxFaults       \* bound: connections that break and pushes that are refused

ASSUME LabAssumption ==
  /\ Repos = Clients
  /\ Attempts \in Nat \ {0} /\ RateLimitWait \in Nat /\ Interval \in Nat
  /\ MaxTasks \in Nat /\ MaxFaults \in Nat

VARIABLES
  op,         \* what a task does
  step,       \* how far it is
  attempt,
  pause,      \* how long it pauses if it fails now
  wait,       \* how long it has to wait yet
  next,       \* GitPace: how long until the next free slot
  ref,        \* repositories that have the ref that pushes make and deletions delete
  ended,      \* how the last git command of a task ended
  done,       \* how many things they have set about
  gap,        \* history: since the last git command was started
  faults

taskVars == <<op, step, attempt, pause, wait, next, ref, ended, done, gap, faults>>
vars == <<engineVars, taskVars>>

ApiCalls == {"read", "list", "write"}

GitCommands == {"push", "delete", "ls-remote"}

TypeOK ==
  /\ EngineTypeOK
  /\ op \in [Clients -> {"none"} \cup ApiCalls \cup GitCommands]
  /\ step \in [Clients -> {"idle", "asking", "slot", "turn", "refs", "pack", "pausing"}]
  /\ attempt \in [Clients -> 1 .. Attempts] /\ pause \in [Clients -> Nat]
  /\ wait \in [Clients -> Nat] /\ next \in Nat
  /\ ref \subseteq Clients /\ ended \in [Clients -> {"none", "ok", "failed"}]
  /\ done \in 0 .. MaxTasks /\ gap \in 0 .. Interval /\ faults \in 0 .. MaxFaults

Init ==
  /\ EngineInit
  /\ op = [c \in Clients |-> "none"] /\ step = [c \in Clients |-> "idle"]
  /\ attempt = [c \in Clients |-> 1] /\ pause = [c \in Clients |-> 1]
  /\ wait = [c \in Clients |-> 0] /\ next = 0
  /\ ref = {} /\ ended = [c \in Clients |-> "none"] /\ done = 0
  /\ gap = Interval /\ faults = 0

-----------------------------------------------------------------------------
(* Tasks *)

Goto(c, s) == step' = [step EXCEPT ![c] = s]

Request(c, method, part) == Arrive(c, [method |-> method, path |-> <<c, part>>])

Begin(c, what) ==
  /\ step[c] = "idle" /\ done < MaxTasks
  /\ done' = done + 1 /\ op' = [op EXCEPT ![c] = what]
  /\ ended' = [ended EXCEPT ![c] = "none"]

\* The task has what it wanted, or an error.
End(c, how) ==
  /\ Take(c) /\ Goto(c, "idle")
  /\ op' = [op EXCEPT ![c] = "none"] /\ attempt' = [attempt EXCEPT ![c] = 1]
  /\ pause' = [pause EXCEPT ![c] = 1]
  /\ ended' = [ended EXCEPT ![c] = how]
  /\ UNCHANGED <<wait, next, ref, done, gap, faults>>

\* One request of an API client; the retries of the client are the next ones.
StartCall(c, what) ==
  /\ what \in ApiCalls /\ Begin(c, what) /\ Goto(c, "asking")
  /\ Request(c, IF what = "write" THEN "PATCH" ELSE "GET",
             IF what = "list" THEN "branches" ELSE "object")
  /\ UNCHANGED <<attempt, pause, wait, next, ref, gap, faults>>

CallEnds(c) ==
  /\ step[c] = "asking" /\ stage[c] = "replied"
  /\ End(c, "none")

\* Only what was seen is deleted.
StartGit(c, command) ==
  /\ command \in GitCommands /\ (command = "delete" => c \in ref)
  /\ Begin(c, command) /\ Goto(c, "slot")
  /\ UNCHANGED <<engineVars, attempt, pause, wait, next, ref, gap, faults>>

\* GitPace::turn, under its lock: the next free slot, or now.
TakeSlot(c) ==
  /\ step[c] = "slot" /\ Goto(c, "turn")
  /\ wait' = [wait EXCEPT ![c] = next] /\ next' = next + Interval
  /\ UNCHANGED <<engineVars, op, attempt, pause, ref, ended, done, gap, faults>>

\* git asks what there is, and then does what it is to do.
Start(c) ==
  /\ step[c] = "turn" /\ wait[c] = 0 /\ Goto(c, "refs")
  /\ Request(c, "GET", "info/refs") /\ gap' = 0
  /\ UNCHANGED <<op, attempt, pause, wait, next, ref, ended, done, faults>>

\* "remote ref does not exist" is not transient.
Pack(c) ==
  /\ step[c] = "refs" /\ stage[c] = "replied" /\ reply[c].how = "ok"
  /\ IF op[c] = "delete" /\ c \notin ref
     THEN End(c, "failed")
     ELSE /\ Goto(c, "pack")
          /\ Request(c, "POST", IF op[c] = "ls-remote" THEN "git-upload-pack" ELSE "git-receive-pack")
          /\ UNCHANGED <<op, attempt, pause, wait, next, ref, ended, done, gap, faults>>

GitEnds(c) ==
  /\ step[c] = "pack" /\ stage[c] = "replied" /\ reply[c].how = "ok"
  /\ End(c, "ok")

\* A slip: the last attempt is not made.
LastIsOneTooMany(c) == attempt[c] + 1 < Attempts

\* A slip: one more.
OneMore(c) == attempt[c] <= Attempts

MayRetry(c) == attempt[c] < Attempts

\* is_transient_git_failure
Transient(how) == how \in {"reset", "unavailable", "limited"}

GitFails(c) ==
  LET how == reply[c].how IN
  /\ step[c] \in {"refs", "pack"} /\ stage[c] = "replied" /\ how # "ok"
  /\ IF Transient(how) /\ MayRetry(c)
     THEN /\ Take(c) /\ Goto(c, "pausing")
          /\ attempt' = [attempt EXCEPT ![c] = @ + 1]
          /\ wait' = [wait EXCEPT ![c] = IF how = "limited" THEN RateLimitWait ELSE pause[c]]
          /\ pause' = [pause EXCEPT ![c] = @ * 2]
          /\ UNCHANGED <<op, next, ref, ended, done, gap, faults>>
     ELSE End(c, "failed")

\* A slip: only the first attempt waits its turn.
ResumeAtOnce(c) ==
  /\ step[c] = "pausing" /\ wait[c] = 0 /\ Goto(c, "turn")
  /\ UNCHANGED <<engineVars, op, attempt, pause, wait, next, ref, ended, done, gap, faults>>

\* Every attempt does.
Resume(c) ==
  /\ step[c] = "pausing" /\ wait[c] = 0 /\ Goto(c, "slot")
  /\ UNCHANGED <<engineVars, op, attempt, pause, wait, next, ref, ended, done, gap, faults>>

-----------------------------------------------------------------------------
(* The layer, the forge, and time *)

Layer(c) ==
  /\ \/ \E i \in DOMAIN Rules, lucky \in BOOLEAN : Decide(c, i, lucky)
     \/ Observe(c)
  /\ UNCHANGED taskVars

Serves(c) ==
  /\ Serve(c, "ok")
  /\ ref' = CASE request[c].method # "POST" \/ op[c] = "ls-remote" -> ref
              [] op[c] = "push" -> ref \cup {c}
              [] OTHER -> ref \ {c}
  /\ UNCHANGED <<op, step, attempt, pause, wait, next, ended, done, gap, faults>>

Fails(c) ==
  /\ faults < MaxFaults /\ faults' = faults + 1
  /\ Break(c) \/ Serve(c, "refused") \/ Serve(c, "limited")
  /\ UNCHANGED <<op, step, attempt, pause, wait, next, ref, ended, done, gap>>

Less(n) == IF n = 0 THEN 0 ELSE n - 1

\* Timers are prompt: whoever's turn it is goes before time does.
Due(c) == step[c] = "slot" \/ (step[c] \in {"turn", "pausing"} /\ wait[c] = 0)

Tick ==
  /\ \A c \in Clients : ~Due(c)
  /\ wait' = [c \in Clients |-> Less(wait[c])]
  /\ next' = Less(next)
  /\ gap' = IF gap < Interval THEN gap + 1 ELSE Interval
  /\ age' = Aged
  /\ UNCHANGED <<countVars, snapshots, openedAt, requestVars, content,
                 op, step, attempt, pause, ref, ended, done, faults>>

Works(c) ==
  \/ TakeSlot(c) \/ Start(c) \/ Pack(c) \/ GitEnds(c) \/ GitFails(c) \/ Resume(c)
  \/ CallEnds(c) \/ Layer(c) \/ Serves(c)

Next ==
  \/ \E c \in Clients :
       \/ Works(c) \/ Fails(c)
       \/ \E what \in ApiCalls : StartCall(c, what)
       \/ \E command \in GitCommands : StartGit(c, command)
  \/ Tick

Spec == Init /\ [][Next]_vars

-----------------------------------------------------------------------------
(* Properties *)

\* "Answers reads with what was there before the last write": as long as a window is open,
\* what a read of the path would be answered with is not of after the write that opened it.
StaleIsOld ==
  \A p \in Paths : \A n \in snapshots[p] :
    \A i \in Stale : Open(Rules[i].trigger, p, Rules[i].lasts) =>
      n <= openedAt[Window(Rules[i].trigger, p)]

\* The rules with a probability that count per path or not at all, if no rule before them
\* does otherwise.
PathLocal ==
  {i \in DOMAIN Rules : /\ Rules[i].chance
                       /\ \A j \in 1 .. i : /\ Rules[j].total = {} /\ Rules[j].first = {}
                                            /\ Rules[j].nth = {} /\ j \notin Stale}

\* "Every decision is a pure function of the seed and the request's position in its own
\* path's history": which requests such a rule faults follows from where the dice come up.
Reproducible ==
  \A e \in drawn \cup fired : e.rule \in PathLocal =>
    (e \in fired <=>
      /\ e \in drawn
      /\ \A n \in Rules[e.rule].each :
           Cardinality({d \in fired : /\ d.rule = e.rule /\ d.key = e.key
                                      /\ d.counter < e.counter}) < n)

\* "max_per_path caps keep every repository convergent": while nothing fails but what the
\* rules inject, no git command fails, whatever was injected into its requests and those of
\* the commands before it: the attempts outlast the caps, and what is injected is never
\* carried out, so that a deletion is not refused the second time.
GitOutlasts == faults = 0 => \A c \in Clients : ended[c] # "failed"

\* How git asks for a part.
GitMethod(part) == IF part = "info/refs" THEN "GET" ELSE "POST"

\* What the rules may break of the requests of a command that ends in this pack: of each
\* of its two paths, by each rule, as often as the caps of the rule allow.  A rule without
\* caps, or with larger ones, counts for all attempts.
Injections(pack) ==
  {t \in (DOMAIN Rules) \X ({"info/refs", pack} \X (1 .. Attempts)) :
     LET r == Rules[t[1]]
         part == t[2][1]
     IN /\ Transient(r.fault) /\ GitMethod(part) \in r.methods /\ part \in r.parts
        /\ \A n \in r.total \cup r.each : t[2][2] <= n}

\* What GitOutlasts takes for granted of a rule file, and those in faults/ keep to: the
\* attempts of a command are more than the breaks that the rules allow on its two paths,
\* and what git reads is not masked.
Outlasted ==
  /\ \A pack \in {"git-receive-pack", "git-upload-pack"} : Cardinality(Injections(pack)) < Attempts
  /\ \A i \in Stale : Rules[i].parts \subseteq ApiParts

\* "So that a run stays under the cap": no two git commands, first attempts or retries,
\* start closer together than the pace allows, whoever starts them.
StartsSpaced ==
  [][\A c \in Clients : step[c] = "turn" /\ step'[c] = "refs" => gap >= Interval]_vars
=============================================================================
