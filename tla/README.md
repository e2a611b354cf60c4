# A specification of forgelab

forgelab keeps a *sandbox* — an organisation on a forge, full of repositories a
test suite works on — equal to a *fleet*, a directory that declares them.
`apply` creates, seeds and configures the declared repositories and writes
`fleet.lock.json`; `verify` compares the forge with the lock; `reset` puts what
tests changed back; `destroy` deletes. The commands talk to Forgejo, GitHub,
GitLab or Azure DevOps, over HTTP and git, from many tasks at once, and may be
killed at any moment.

This directory models the commands, the forge as they see it, the people and
tests around them; apart from these, `destroy` with the namespaces it removes
and `apply` makes; the lookups all commands begin with, against an abstract
statement of what they promise; the fault layer of the end-to-end tests with
forgelab's git commands and API reads behind it; and, on its own, the HTTP client
below everything. TLC checks the models on small instances; TLAPS proves for every
instance the types, the ownership guarantee of the commands, that the lock is written
only over an applied fleet and forgets nothing, that exit code 0 is earned, that reset
only rewinds and repairs what it reports, that no settings write undoes a push, what the HTTP client
promises and how long its requests take, the truth of lookups, the pace of git commands
and that they outlast what is injected, what the fault layer shows and that it can be
reproduced, that `destroy` and `apply` leave others' namespaces alone, and that a
namespace is made once: every invariant and action property that a run checks. Section 4
names the hypotheses each of these needs.

    tlc -config forgejo.cfg MCSandbox     # a run
    tlapm LockProofs.tla                  # proofs

Paths below are under `src/crates/forgelab/src/` unless they begin with `src/`.

## 1. The system

| Part | State it keeps | Operations | Talks to |
|---|---|---|---|
| `sandbox/apply.rs` | the plan (`Change` per repository), in memory | `plan`, `apply` | everything below |
| `sandbox/verify.rs` | a `Report` (`State` per repository), in memory | `verify`, `compare` | lookups, git |
| `sandbox/reset.rs` | the same report | `reset` | lookups, forge writes, git |
| `sandbox/destroy.rs` | none | `destroy` | lookups, deletions |
| `sandbox/ready.rs` | deadlines | `wait_ready`, `wait_pushed` | branch listings |
| `sandbox/pool.rs`, `report.rs` | the tasks of a phase and their outcomes | `for_each_collect`, `aggregate`, exit codes | — |
| `sandbox/mod.rs` | `Env`: fleet, sandbox, lock path | `lookup`, `lookup_confirmed`, `get_confirmed`, `load_lock`, `is_ours` | forge, disk |
| `fleet/` | `fleet.yaml`, `fleet.lock.json` on disk | load, digest, atomic lock write | disk |
| `seed/` | scratch directories, the slots of `GitPace` | build, push, `reset_to_baseline`, `delete_remote_refs`, `ls_remote`; `git_network`: attempts, pauses, pace | git |
| `forge/*.rs` | per-client caches | the `Forge` trait: `get`, `get_many`, create, settings, deletions | HTTP |
| `forge/http.rs`, `classify.rs` | the write lane | retries, rate limits, budget | the network |
| `forge/keyed.rs` | a cell per key | init once, set, invalidate | — |
| `src/crates/faultproxy` | counters per path and rule, a log, snapshots, stale windows | decide on each request, observe each answer | HTTP, between forgelab, git and a forge |

What is hard here, and what therefore shaped the model:

* **The forge is not done when it answers.** A push returns at once; its effects
  on the API — the branch listing, the `empty` flag, GitLab's protection of a
  default branch — come later. On Forgejo a settings write saves the whole row it
  read when it began, and can so undo what came in between.
* **A run may stop anywhere.** Nothing but the lock and the forge itself survives;
  the next `apply` has to recognise and finish what it finds.
* **Answers are lost or stale.** A create may land and read as failed; a
  repository may exist and read as missing; one that has gone, or has another name
  now, may be found; and each forge lags in its own way.
* **Requests have an order that depends on what is wrong.** Archived repositories
  refuse writes, a default branch must exist, a default branch cannot be deleted,
  nor a branch an open request points at.
* **Namespaces are shared, slow to make and slow to go.** Tasks need the same new
  group at once; a deleted one keeps its name for minutes; what is in one goes with it.
* **Others are there too.** Tests push, tag, protect, archive; the fleet is edited;
  somebody else may hold or take a declared name.

What makes each part correct:

| Part | Must hold | Property |
|---|---|---|
| apply | what was not made by forgelab is never written to | `ForeignUntouched`, `WritesAreOurs` |
| apply | the lock is written only when all it names is there | `LockMeansApplied` |
| apply | what the old lock names is cleaned up before it is replaced | `LockForgetsNothing` |
| apply | interrupted runs are finished by the next | `ApplyConverges` |
| apply, reset, waiting | no settings write undoes a push | `NeverStuckEmpty` |
| apply, verify, reset | exit 0 is never wrong | `OkMeansPristine` |
| reset | moves refs to the locked baseline and nowhere else | `ResetOnlyRewinds` |
| reset | what is reported as drift can be repaired, in one go | `DriftIsRepairable`, `ResetEndsWell` |
| waiting, pool | every command ends | `CommandsEnd`, `RunsEnd` |
| destroy | only what forgelab made is deleted | `OnlyOursGoes` |
| destroy, namespaces | exit 0 is never wrong, whatever was left half done | `OkIsTrue` |
| per-key cache, namespaces | each namespace is made once, and is there when it is used | `MadeOnce` |
| HTTP client | a create is done at most once, and its caller is told the truth, unless the transport took it for unsent | `PostsTellTheTruth` |
| HTTP client | writes to GitHub are serial, through pauses and retries | `SerialWrites` |
| HTTP client | no request takes longer than its budget and the queue explain | `LateOnlyByTheQueue` |
| HTTP client | the pause in the progress line is a real one | `PausesTellTheTruth` |
| HTTP client | Ctrl-C ends every request, at the pace of the lane | `CancelEndsSoon` |
| lookups | whatever is written meanwhile and however caches lag, what is answered is true | `TellsTheTruth` |
| lookups | every lookup is answered | `LookupEnds` |
| git commands | no two start closer together than the pace allows, retries included | `StartsSpaced` |
| git commands | what the fault layer injects, they outlast | `GitOutlasts` |
| fault layer | a stale answer is of before the write it hides | `StaleIsOld` |
| fault layer | which requests are faulted depends on the seed and their path alone | `Reproducible` |

`PROJECT.json` lists the hazards one by one, each at its line.

## 2. Modules

    Repository   declarations, repositories, diff_one, compare_one   (no state)
       |
     Forge       what stands under each name; requests and background work
       |
    Command      fleet, lock, task pool, waiting, comparison, exit codes
      /  \
    Apply Reset  the two commands that write
      \  /
    Sandbox      everybody together: tests, authors, strangers; the specification
       |    \
    MCSandbox  SandboxProofs --- CommandProofs --- LockProofs --- ResetProofs

    Namespaces  groups and projects, the cells of KeyedOnce, Forge::create
        |
     Destroy    destroy, and apply as far as it makes what destroy removes
     /    \
MCDestroy  DestroyProofs

      Http      one client: requests, answers, the write lane, the clock
     /    \
  MCHttp  HttpProofs

    Answers    what a lookup promises
       :  refined by
     Lookup    batches, confirmation, and each client's own way of asking
     /    \
 MCLookup  LookupProofs

   FaultEngine  rules, counters, snapshots, stale windows; requests on their way
       |
      Lab       tasks behind it: API calls, git commands, their pace and retries
     /    \
  MCLab  LabProofs

**Repository** has no variables. `DiffOne` is `Env::diff_one`, `CompareOne` is
`Env::compare_one`; `Change` and `State` keep their fields, notes and drift lists
become one Boolean each (that there are any). Two reference predicates, `Applied`
and `Pristine`, say what a repository should be from the declaration alone; the
commands are judged by them and never use them.

**Forge** holds, per name: who made what stands there (`owner`), its contents
(`repo`), whether the API answers for it (`visible`), and a settings write it is
still serving (`patch`). `ForgeReadsRow` begins one, `ForgeSaves` ends it,
`ForgeReflects` applies a push, `ForgeAnswers` lets a cache catch up. The forge is
not in the repository; what it does is taken from the comments beside the calls
that cope with it, and its habits are constants:

| Constant | Forgejo | GitHub | GitLab | Azure DevOps | where the code says so |
|---|:-:|:-:|:-:|:-:|---|
| `HasMarker`, `HasVisibility`, `HasTopics` | yes | yes | yes | no | `Caps` of each client |
| `ArchivedUnreadable` | no | no | no | yes | `Caps` |
| `Background` | yes | no | yes | no | `ready.rs:1-4`, `90-96` |
| `SavesRow` | yes | no | no | no | `ready.rs:92-96` |
| `AutoProtect` | no | no | yes | no | `gitlab.rs:940-955` |
| `PartialPush` | no | yes | no | no | `seed/mod.rs:192-199`: no `--atomic` |
| `StaleReads` | no | yes | yes | no | `apply.rs:531-535`, `mod.rs:282-285` |
| `Batched` | no | yes | yes | no | `Forge::batch_size` |

**Command** has the fleet and the lock (as versions: the digest is the number of
the version), the running command and its phase, and per repository a `task`: the
request it makes next. One action is one request and what the code does with its
answer. `for_each_collect` runs all tasks of a phase and collects every outcome:
a phase ends when all tasks are `done` or `failed` (`PhaseOver`), a failure in it
ends the command (`Abort`, `aggregate`). `StepFails` fails any request for good,
before it is carried out or (at the next stage) after; `Kill` ends the command
between any two steps, and what the forge is serving stays.

**Apply** and **Reset** are the stages of the two commands, in the order of the
source: `apply_one` is `create … push … pushed`, `settle_one` is `wait … settings
… topics … stale refs … archive`, `reset_one` is `unarchive … push … wait …
settings … requests … branches … tags … topics … archive`. With batched lookups
the two halves of apply are phases of their own (`StartSettle`).

**Sandbox** adds everybody else, the properties, and `Spec`.

Assumptions about people are constants too: with `People = "patient"` tests and
authors act between commands, once the forge has caught up, and tests run on a
sandbox some command has found in order; `"careful"` adds that a fleet is edited
only when it is applied; `"hasty"` drops all of it. With `SlowSaves` a settings
write may outlive the command that sent it; without, the next command starts when
it has been served. Section 3 says what happens without.

**Namespaces** has, per namespace, how it stands on the forge (`group`) and whether
forgelab made it (`marked`, its `NAMESPACE_MARKER`), per name whose repository has it
(`repo`) and whether a deleted one lingers (`ghosts`), and the caches of one process:
what is `known`, who is filling a cell (`holder`), whose `turn` it is to make an Azure
DevOps project. A `task` is the creation of one repository: `Resolve` is the entry into
`KeyedOnce::get_or_try_init`, `Fetch … Purge … AwaitGone … Post` is GitLab's `group_of`
with `create_group` and `poll_gone`, parents first (`ParentOf`), `Turn … Make … Again`
is `create_project_retried`. An error unwinds every cell the task is filling; it ends
the task, or, when it may pass, `create_verified` looks whether the repository is there
(`Check`) and starts over. An error in the making of a project is final, one in the lookup
of what was made (`LooksItUp`) may pass. To the modules above all of this is one request that creates
a repository.

**Destroy** adds the command: `StartDestroy` lists and, with something to lose, asks
(`Answer`); `Look … Bury` is `Forge::delete`, side by side for all targets; `Examine …
AwaitGroup` is `delete_namespace`, one namespace after the other from the outermost on.
`RemoveFails`, `DeleteFails` and `CreateFails` fail any request, carried out or not;
`Kill` empties the caches. Others (`Edit`) take names, delete and disable repositories,
make, unmark and delete namespaces. What forges do is again assumed: a group to be
deleted keeps its path and says so (`gitlab.rs:402-404`), so does what is in it
(`InheritsMark`), a project being deleted answers 404, and what is scheduled goes some
time or never. With `Patient` others wait for the answer to destroy's question.

**Http** is `HttpClient::send`. To the commands above a request succeeds, fails, or
(a create) loses its answer; here it has a `stage`: `queued` and `pacing` are the
two awaits of `WriteLane::acquire`, `sending` the exchange, `backoff` and `waiting`
the two kinds of pause, and the results are what the caller gets — `refused` a
`Status` error that is not transient, `limited` a `RateLimitExceeded`, `failed` a
transient status or a transport error. An action is what one poll of the future does
between two awaits. An answer is a record of what classifiers read (status,
`Retry-After`, what is left of the hourly limit and its reset, and which telling body
it has), and `Classify` translates all of them. Which answers mean that the forge did
what was asked is an assumption about forges (`Done`): it did with a success, it did
not with a refusal or a rate limit, nobody knows with 5xx, 408, a lost connection, a
timeout. `did` counts, for what may not be repeated; `BeforeSend` says which failures
the transport takes for a request that was never sent, and `mistaken` where it was
wrong. `did`, `mistaken` and `stopAt` are history.

Time is a counter. `Tick` is not taken while anything is `Due`: computing takes no
time, and what may happen later than it is due — an answer — is bounded by the
request's timeout. Where nothing is due and nothing is left the model rests
(`Finished`); TLC's deadlock check therefore shows that time can always go on, and
with it `LateOnlyByTheQueue` means that every request ends.

**Answers** is the abstract specification of a lookup: somebody writes (`Write`),
caches forget (`Fade`), a call begins with what it vouches for (`Begin`), and ends with
an answer for each name that `MaySay` allows. It knows nothing of requests, batches or
time. A call vouches for up to three things: `confirms`, that "missing" is no echo of a
write from before the call; `rereads`, that a repository described in such a way is
there; `counts`, that one called empty is.

**Lookup** is how it is kept. `Ask` is one request and what the client makes of the
answer: `Query` is `get_many`, a GraphQL query of a batch (`Chunk`); `Get`, `Second` and
`Third` are a client's `get` — the object, the second request three of the clients make
to believe it, and GitLab's read of a project it has just called empty; `Listing` is
Azure DevOps' search for a repository its GET does not answer for. `AskAgain` is the loop
of `lookup_confirmed`, `Judge` that of `get_confirmed`; `Return` aggregates, `Interrupt`
is Ctrl-C. Forges answer an object from what stands there or, for `Lag` seconds after a
write, from what stood there before (`Object`); Azure DevOps' listing lags on deletion
and flags, too (`Listed`). `TellsTheTruth` is `Promised!Spec`: `Answers` with what stands
there, what caches show, and the answers of a finished call for its variables. `since`,
`shown` and `calm` are history.

**FaultEngine** is the fault layer. A request `Arrive`s and is counted; `Decide` is one
rule looking at it, under the lock of that rule and no other, so that the requests of
several tasks are decided on side by side; where no rule has a verdict the forge
`Serve`s it, and `Observe` is what the layer makes of the answer on its way back — a
snapshot, or stale windows — with any number of other requests in between. What
`chance()` says of the seed, the rule and the request's position is `drawn`. Bodies are
how often their repository had been changed (`content`); `openedAt` is history.

**Lab** puts forgelab's tasks behind it. A task works on its own repository, one thing
after the other. A git command takes a slot of `GitPace` (`TakeSlot`), waits for it
(`Start`), asks for `info/refs` and then for its pack (`Pack`), and if it fails pauses and
comes again from the beginning (`GitFails`, `Resume`); an API call is one request
(`StartCall`), of which `Http` has the retries. `Fails` breaks connections — before or
after the forge's answer, before or after the layer has made something of it (`Recorded`) —
and refuses pushes.

## 3. Runs

One or two declared repositories, two branch names, one or two tags, two seed commits
and one test commit, two or three versions of the fleet. One repository is enough for
everything except the interplay of tasks, because tasks share nothing but the outcome,
the lock and the exit code; `gitlab` and `github` have that, where all repositories are
created and pushed before any is settled. Two branches and a tag are what renaming and
dropping need. `MaxFaults` (1 or 2) bounds kills and failed requests, `MaxEdits` (2 or 3)
what tests, authors and strangers do: two are the shortest way to most of the hazards
(edit the fleet, and interfere), three allow one more of either.

| Run | Forge | The fleet's edit | Checks |
|---|---|---|---|
| `forgejo` | Forgejo | default branch renamed, tag dropped, content edited; or to be archived | `TypeOK`, `NeverStuckEmpty`, `DriftIsRepairable`, `LockForgetsNothing`, `OkMeansPristine`, `ResetEndsWell`, `CommandsEnd` |
| `gitlab` | GitLab | two repositories: content, topics and visibility of one edited, its tag dropped | `DriftIsRepairable`, `LockMeansApplied`, `LockForgetsNothing`, `OkMeansPristine`, `ResetOnlyRewinds` |
| `github` | GitHub | two repositories: one renamed default branch, one empty that is given content or dropped | `WritesAreOurs`, `ForeignUntouched`, `LockMeansApplied`, `LockForgetsNothing`, `ApplyConverges` |
| `ado_frozen` | Azure DevOps | to be archived | `DriftIsRepairable`, `OkMeansPristine`, `LockMeansApplied` |
| `destroy` | GitLab, Azure DevOps | (none; apply and destroy take turns) | `TypeOK`, `MadeOnce`, `OkIsTrue`, `OnlyOursGoes`, `RunsEnd` |
| `http` | GitHub | (a client on its own) | `TypeOK`, `PostsTellTheTruth`, `SerialWrites`, `LateOnlyByTheQueue`, `PausesTellTheTruth`, `CancelEndsSoon` |
| `lookup` | all four | (lookups on their own) | `TypeOK`, `TellsTheTruth`, `LookupEnds` |
| `faults` | any | (tasks behind the fault layer) | `TypeOK`, `StaleIsOld`, `Reproducible`, `GitOutlasts`, `StartsSpaced` |

A property is missing from a run where the combination is one of the disagreements
below, or where another run with the same code paths has it already.

All four runs of the sandbox have `SlowSaves = TRUE`: whatever a killed command has asked
to be written is written at any time afterwards, in the middle of later commands, as far as
forges let one settings write of a repository wait for another. Two properties do not
survive it on Forgejo, whose writes save whole rows, `LockMeansApplied` and
`ApplyConverges`; they are in the table of weaker assumptions below.

`gitlab` has all that GitLab adds at once: batches, answers that lag after a create, rules
that appear a moment after a first push, a fault anywhere and a stranger, an author or a
test that pushes, moves the baseline, archives and lifts. Its default branches stay what
they are, because of what GitLab does with one that is renamed (below). `github` is about
runs that are interrupted: tests only archive and lift there, because what else a test may
do `reset` mends and not `apply`, and no branch is protected, so that no push is refused in
part; `github_partial_push` shows what happens then.

`destroy` has a namespace inside another, a repository in each and one outside, and
one name in the inner namespace that is not declared (`MCDestroy`). Three tasks are
enough to hold a cell, wait for it, and wait for its parent; on Azure DevOps `a/a` is
the repository its project brings along. One fault and two edits, in any number of
commands: an interrupted command, then others, then the next command. That the
last attempt at a project fails is the same as that its request does (`CreateFails`),
which one fault reaches. That two edits suffice is not to be taken for granted — a group in
one that somebody else scheduled takes three — but what speaks of many edits, `OnlyOursGoes`,
`MadeOnce` and `OkIsTrue`, is proved for any number.

`http` has three writes, one of them a create, that want the lane at the same moment
or one unit later, and a GraphQL query, which goes through a client without a lane, so
that two rate-limit pauses can overlap. A budget of two units, pauses of one to four and a timeout of one are enough
for a retry and for a rate limit that fits, just fits, and does not; three writes make
the queue long enough for one to be sent after its deadline. `LatestStart` bounds when
requests begin, nothing else needs a bound.

`lookup` has two names, which is one batch where a client has batches and two requests
where it has none; whatever may stand under the first at first, and two writes to either,
before, between or during lookups. Caches lag for a second, missing names are doubted for
two, Azure DevOps' listing is asked twice: the code's numbers are a forge's few seconds,
six, and six, one second apart. What matters is their order, `Lag + Attempts <= Patience
+ 1`: the last round of questions begins when caches have caught up, the listing's
attempts included. Of Forgejo and Azure DevOps a batch is one name, as in the code. Two edits are enough for a repository to appear and change while it is
looked for, or to be renamed and its name to be free again.

`faults` has two tasks, alike but for their names (`Alike` is a symmetry), that do two
things in all, behind one rule of each kind the rule files in `testdata` have: a chance
and a cap per path, a cap on all paths, stale reads of a repository and of a branch
listing. Two of a task's commands in a row, and two tasks side by side, are what counters,
windows and slots depend on; `MaxFaults` is a connection that breaks or a push the forge
refuses, on top of what the rules inject. A command is repeated twice, and the rules reset
each of its two requests once: the real numbers are four and twice two, `GitOutlasts` as
tight as here. `CapsAreOutlasted` has TLC evaluate what the proof of `GitOutlasts` asks
of a rule file. Pauses double and are in seconds, in units of the pace (1).

**Fairness.** In the models of the commands every task that can make its next step does, the forge finishes what
it began, and a phase that is over is followed by the next (`Fairness`): the async
runtime polls every task, and a forge that does not is a fault. Nobody is bound to
fail, to kill, to test, to edit, or to start a command. `ApplyConverges` is checked
under `Persistent`, which adds that somebody goes on running `apply` — the README's
instruction after an interrupted run. It is a strong fairness condition because
`apply` cannot start while another command runs. `RunsEnd` is checked under
`FairSpec`: what the commands of `Destroy` can do next, one of them does. The forge is
bound to nothing there; that a wait has a deadline is what ends it. `LookupEnds` is
checked under `FairSpec` of `Lookup`: what the lookup can do next it does, and time
passes. `Lab` has no fairness: its properties are safety properties, and that forgelab's
timers are prompt (`Due`) is a guard of `Tick`. `StartsSpaced` relies on it: a task whose
timer is late by more than the pace may start just before the next one.

`ApplyConverges` has two conditions. Somebody else must not hold a declared name for
ever, and where the fleet declares a repository empty the one forgelab made under that
name must be: a fleet edited *back* to an empty declaration is refused until its user
deletes the repository, and says so (`diff_one`).

**Disagreements.** Four runs end in a violation; each is a statement of the
repository that the code does not keep in a corner of its behaviour.

| Run | What is said | What happens |
|---|---|---|
| `github_partial_push` | any interrupted run is finished by the next apply (`src/README.md:210`) | tags landed, branch refused, killed: no later apply pushes the branch |
| `ado_recheck` | a declared tag that is missing is pushed (`src/README.md:237`) | only the baseline tag is asked for after un-archiving; the lock is written |
| `lookup_one_answer` | one "missing" answer is not believed (`sandbox/mod.rs:282`) | `get_confirmed` takes its deadline before the first request; where that takes longer — it may sit out a rate limit, `mod.rs:357` — the first answer is the last |
| `http_dropped` | a request with `before_send` set "never reached the server", so that "a non-idempotent request can be repeated safely" (`forge/error.rs:50`) | it is set for every request-phase error that is not a timeout (`is_request()`, `forge/http.rs:64`), to reqwest also a connection dropped after the request was written: a create is done, and done again where names need not be unique. Where they do, as those of repositories, the repeat is a conflict and `create_verified` finds what the first one made (`sandbox/apply.rs:625`). The fault injector reports its resets as sent, so no test meets it |

One more was met and has no run. `src/README.md:221` and `report.rs:72` call commits that
moved drift, exit 1, to be repaired by `reset`; `apply` after a test's push waits a minute
for a branch it did not push to be where it was (`sandbox/apply.rs:294`, `ready.rs`) and
ends with exit 2. What `apply` owes there is for its authors to say. And two rest on
what a forge would do, which the repository does not say: GitLab may refuse git the
deletion of a previous default branch that its rule still protects, so that every apply
after a renaming fails (`src/README.md:237` says the branch is removed); and `destroy`
removes a group forgelab made with all that others have put into it since, unasked when
nothing of forgelab's is left to delete, which `destroy.rs:28` documents.

The passing runs also depend on constants that stand for weaker assumptions; each of
these, changed, gives another counterexample:

| Change | Violated | What happens |
|---|---|---|
| `forgejo` or `gitlab` with `OneRenamed` and `People = "hasty"` | `LockForgetsNothing` | the fleet is applied again before the forge has applied the first push; `diff_one` returns at the `empty` flag (`sandbox/apply.rs:278`) and the lock that named the old refs is replaced |
| `forgejo` or `gitlab` with a repository declared empty, then with another default branch | `LockForgetsNothing` | the same, after a test's push to the empty repository |
| `ado_frozen` with `OneReshaped` | `LockForgetsNothing` | a test archives, and the edit archives and renames the default branch: what cannot be read is not cleaned up |
| `gitlab` with `OneRenamed` and `People = "hasty"` | `LockMeansApplied` | apply is killed once it has created, a test pushes; that push is reflected between the next apply's comparison and its own push, and makes the test's branch the default, which the plan does not know of (`sandbox/apply.rs:278`) |
| the same, patient, with the repository declared empty first (four edits), or dropped from the fleet and declared again (five) | `LockMeansApplied` | a test's first push is the only one that the forge has yet to reflect when apply compares |
| `forgejo` with `LockMeansApplied`, too | itself | a reset is killed with its un-archiving under way, which lands between the comparison of an apply and its lock |
| `forgejo` with `OneFilled`, nobody hasty | `NeverStuckEmpty` | an un-archiving of a killed run is served after a later run's push, and saves the row as it was before; `wait_pushed` orders the writes of one run only (`sandbox/ready.rs:90`) |
| the same under `Persistent`, tests that archive only | `ApplyConverges` | the repository reads as empty for good, and every later apply ends with exit 2, against `src/README.md:210`. It rests on Forgejo serving a request whose client is gone |
| `forgejo` with three faults, the repository dropped from the fleet and declared again (four edits) | `LockForgetsNothing` | the same: what reads as empty is not cleaned up |
| `forgejo` with `People = "hasty"`, or a repository declared empty | `NeverStuckEmpty` | a test pushes for the first time and archives or changes a setting; apply or reset reads the row before that push is reflected and saves it after |
| `forgejo`, or `gitlab` with `OneReshaped` and two faults, with `People = "hasty"` | `OkMeansPristine` | an un-archiving of a killed run lands between apply's last comparison and its exit |
| `ado_frozen` with `Tests = {"baseline", "settings"}` | `ResetOnlyRewinds` | a test moves the baseline tag and archives; reset, which could not read it, takes the moved tag for the baseline once it has un-archived |
| `ado_frozen` with `Tests = {"baseline", "settings"}` | `DriftIsRepairable` | the same: reset waits in vain for the default branch to be at the baseline it did not push (`sandbox/reset.rs:95`) |
| `github` with `Tests = {"refs", "protection", "settings"}` and three edits | `DriftIsRepairable` | a test pushes a branch, makes it the default and protects it; reset puts the default back and is refused the deletion, because it lifts no protection there |
| `forgejo` with `OneFilled`, tests that push only | `OkMeansPristine` | a test has just pushed to a repository declared empty; `compare_one` judges that by the API's flag, not by git (`sandbox/verify.rs:195`, against `:221`) |
| `ado_frozen` with `Tests = {"refs", "settings"}` | `ResetEndsWell` | a test adds a branch and archives; reset sees the branch only in its second comparison, exit 1, and a second reset is needed (`sandbox/verify.rs:190`) |
| `forgejo` with a repository declared empty | `ResetEndsWell` | a test pushes to it and changes a setting; the push is reflected between reset's comparisons, and the second refuses what the first took for empty |
| `destroy` with `InheritsMark = FALSE` | `MadeOnce` | apply uses a subgroup that does not say it is going with the group it is in |
| `destroy` with `Patient = FALSE` | `OnlyOursGoes` | a repository is replaced while the question is open; `Forge::delete` looks it up again by name and does not look at the marker (`gitlab.rs:786`, `azuredevops.rs:724`), against `src/README.md:208-210` |
| `lookup` with `Lag = 2`, against `LookupAssumption` | `TellsTheTruth` | the listing's last attempt is of after the deadline, the GET it completes of before caches caught up |
| `faults` with a rule that counts all paths (`first`, `nth`, or `total` before it), as `faults/mixed.yaml` and `ratelimits.yaml` have | `Reproducible`, without `PathLocal` | which request is faulted depends on the order in which tasks' requests arrive, against `src/README.md:284` and `faultproxy/src/lib.rs:11`; so do two requests for one path at once |
| `faults` with `Attempts = 2`, against `CapsAreOutlasted` | `GitOutlasts` | both requests of a command are reset once, which leaves it no attempt |
| `faults` with `Attempts = 4` and `GitOutlasts` for one broken connection, too | itself | a deletion lands and its connection breaks; repeated, it is refused ("remote ref does not exist", not transient) and the command fails with the work done |
| `OnlyOursGoes` extended to groups that are already scheduled, or in one that is | itself | apply, waiting for a group that is in its way, asks for its permanent removal, whoever scheduled it or the group it is in (`gitlab.rs:518`); the second takes three edits |

Of the HTTP client three more statements hold only in part:

| What is said | What the code does |
|---|---|
| the budget is the "total wall-clock budget for one logical request", "all pauses and retries included" (`forge/http.rs:155`, `:159`) | the wait for the lane has no limit, and an attempt may outlast the deadline: `LateOnlyByTheQueue` is what does hold |
| "5xx … Retried when the request is idempotent" (`forge/error.rs:23`) | of the 5xx only 500, 502, 503 and 504; what a proxy in front of a forge may answer (520 and up) is final. `Statuses` has those of the forges themselves |
| Ctrl-C: "every wait … stops" (`main.rs:232`) | the wait for the lane does not: `CancelEndsSoon` allows each write before one interval |

On GitHub and Forgejo a test that protects an extra branch makes `reset` fail: it
deletes branches without lifting their protection. `ProtectionEdits` therefore
protects default branches only.

**Mutants.** For every property of every passing run, `PROJECT.json` names a
plausible slip in the code (an operator marked "A slip" in the modules) that makes
TLC find that property violated under the same bounds.

## 4. Proofs

All proofs are safety proofs, for any number of repositories, tasks, requests, faults and
edits, and rest on no fairness. What is proved of the commands rests on the named
assumptions about constants in their modules (`RefsAssumption`, `ValuesAssumption`,
`CapsAssumption`, `ForgeAssumption`, `FleetsAssumption`, `CommandAssumption`,
`SandboxAssumption`), which TLC evaluates for every instance, and, below, on hypotheses
that stand in the theorem. A theorem has a hypothesis where TLC finds a counterexample
without it, which the table of section 3 has; every invariant was an invariant of a run
of TLC before it was proved. `SandboxProofs` proves `Spec => []TypeOK` (`TypeCorrect`),
`Spec => []WritesAreOurs` (`WritesStayOurs`) and `Spec => ForeignUntouched`
(`ForeignSafe`), for every fleet and every combination of forge habits; `CommandProofs`
and, on top of it, `LockProofs` and `ResetProofs` what commands do to the repositories
that are forgelab's.

*Types.* `TypeOK` is not inductive by itself: `Want(n)` is only a declaration for
declared names, so the invariant `TypeInv` adds that tasks run for declared names
only (`TasksDeclared`) and that nothing is planned or found while no command runs
(`IdleIsClean`), which is what lets the fleet be edited between commands. Lemmas
say what each operator of `Repository` and `Forge` returns; then there is one lemma
per group of actions, one step per action.

*Ownership.* That a write does not touch what others own is not inductive either:
apply acts on a plan and reset on a survey made many steps earlier, and the forge
serves settings writes after the command is gone. `WritesAreOurs` says that
whoever is not forgelab's has no task at a writing stage, no planned change but a
creation, no drift noted, no settings write and no push under way. Each step of a
task concerns one repository (`Aside`, lemma `OwnStep`), a phase that starts acts
only on what the previous one decided (`QuietStep`), and `IdleIsClean` covers a
repository deleted between two commands. A name that nobody holds is left alone in the same way
(`LeftAlone`) and has nothing under it (`Blank`), which the later proofs rely on where
names change hands. `ForeignStep`, the step of
`ForeignUntouched`, is proved beside the invariant, from the same cases.

*What commands leave behind.* All of `CommandProofs` rests on the course of a command
(`Course`): which phase belongs to which command, and which stages to which phase. Then
everything comes down to something that was read and has to hold still until it is used.

| Theorem | Property | Hypotheses |
|---|---|---|
| `ResetRewinds` | `ResetOnlyRewinds` | archived repositories can be read |
| `NeverStuck` | `NeverStuckEmpty` | with `SavesRow`: no slow saves, nobody hasty, nothing declared empty |
| `OkIsPristine` | `OkMeansPristine` | no slow saves; with `Background` or `SavesRow`: nothing declared empty |
| `LockForgets` | `LockForgetsNothing` | archived repositories can be read; with `SavesRow`: no slow saves; with it or `Background`: nobody hasty, nothing declared empty |
| `LockApplied` | `LockMeansApplied` | archived repositories can be read; no slow saves; with `AutoProtect` and `Background`: nobody hasty, nothing declared empty, the same names in every fleet |
| `DriftRepaired` | `DriftIsRepairable` | archived repositories can be read; with no `AutoProtect`: tests protect no branch |
| `ResetEnds` | `ResetEndsWell` | archived repositories can be read; with `Background`: nothing declared empty |

Reset surveys a repository once and pushes many requests later: the baseline tag is where
the lock has it from the survey that calls the repository dirty to the push, and what is
to be deleted is not declared (`Rewindable`). A name may be lost to others in between,
but not one that has refs.

That no repository is stuck is that no row is read, and none is being served, while a
first push is `Unnoticed` (`RowSafe`); which needs to know who will read a row with no
push of the same run to wait for (`RowWanted`): whoever planned to change something else,
found it drifted, or must un-archive. Nothing that has refs is unnoticed and reads as
empty for another reason (`Known`). Exit 0 is given when the last repository is compared,
long after the first: `FoundWell` says that what was found in order still is, because no
settings write is under way while a command compares (`Awaited`), and a push that is
reflected changes the `empty` flag only.

*The lock.* The old lock is what says which tags and default branches are `Owed…` a
deletion. A plan covers them (`Planned`), they are gone when the task gets to archiving
(`Cleared`), and nothing brings them back: apply pushes what is declared, and others wait.
What is not planned for is what reads as missing or empty, so `DebtInv` has to say that
nothing is owed there (`Fresh`); which holds because what does not answer has no refs yet
(`Hidden`), and because tests push only to what a comparison vouched for (`TestedInv`),
whose refs the forge shows.

`LockMeansApplied` is the longest argument. `AppliedInv` says that a plan is true of its
repository when the phase ends (`Readied`) and that every stage of a task brings the
repository closer to what is declared (`Applying`), so that a task that is done leaves it
`AsWanted`. Three things have to hold meanwhile. Nobody else writes: no settings write is
left of an earlier run, and what is written to has answered before (`WaitInv`). The task
itself undoes nothing: no plan deletes a declared ref (`PlanInv`), and none moves the
baseline (`RewindInv`). And the forge, which makes the first branch it sees the default,
makes it the declared one: a first push that is not reflected yet is forgelab's or brought
the declared branch, too (`Begins`) — the only part that needs `Timely`, the three
conditions on people and fleets.

*Reset.* `RepairInv` follows one repair from the survey that found something to the
comparison that must not. As long as nothing fails, what the survey says is still true
when the repair begins (`Repairing`, of what is `Found`), a settings write is served
before its task goes on (`Swift`), and each stage leaves what it is for done and the rest
on its list: `RefsLeft` says that every ref which should not be there is still to be
deleted and every one that should is rewound or going to be, `Mending` what is over at
which stage — writable before anything is written, visible and on its branch before
requests are closed, no request before branches go, no default branch among them. A
repository mended is one in which a comparison would find nothing (`InOrder`), and that
lasts while the others are repaired. Only one thing may differ between what reset compared
and what is there: the `empty` flag, when a push is reflected (`ReadAs`, `Stands`), hence
the hypothesis of `ResetEnds`. `DriftRepaired` then says of each step of a task that its
failures are those of requests (`Unfailed`), for which an extra branch must not be
protected (`Bare`); that a task has failed only where its result says so (`Blameless`)
makes the verdict of `ResetEnds` the comparison's.

*The HTTP client.* `HttpProofs` proves `Spec => []` of `TypeOK` (`TypeCorrect`),
`SerialWrites` (`OneWriteAtATime`), `PausesTellTheTruth` (`PausesReported`) and
`PostsTellTheTruth` (`DoneOnce`), for any number of
requests, any policy and any set of answers, from `HttpAssumption`, and, for any finite
number of requests, `LateOnlyByTheQueue` (`LateOnly`) and `CancelEndsSoon`
(`CancelEnds`). Receiving, failing
and being interrupted are first shown to be instances of one description of how an
attempt ends (`Ends`, `Comes`). The invariants then add what the code relies on
silently: nobody is in the lane's queue twice (`QueueInv`), whoever was let through
still holds the lane (`LaneInv`), a create that is not finished is not done,
unless the transport was mistaken about it (`PostInv`), and the reported end of a pause belongs to somebody still waiting
(`PauseInv`).

How long requests take is a matter of counting, in `TimeInv`. The lane is had in the order
in which writes began (`OrderInv`), so whoever is ahead has the earlier deadline; timers
are prompt, and no pause is begun that outlasts its request's budget (`ClockInv`). What a
write may be late is counted by the writes that have their answer (`Through`): each of them
took at most a `Turn` — an interval of the lane or an attempt, whichever is longer — more
than the budget that those behind it began with (`LateInv`). A write that begins late finds
the lane at most one interval ahead of the clock, and then one write is through already.
After Ctrl-C nothing is slept through, and a turn is an interval (`CancelInv`). As a write
under way is not through, there are at most `Cardinality(Writers) - 1` turns, which is the
bound in both properties.

*Behind the fault layer.* `LabProofs` proves `Spec => []TypeOK` (`TypeCorrect`), `Spec =>
StartsSpaced` (`Spaced`), `Spec => []StaleIsOld` (`Old`), `Spec => []Reproducible`
(`Replays`) and, for rules that are `Outlasted`, `Spec => []GitOutlasts` (`GitSurvives`),
for any number of tasks, any sequence of valid rules and any pace, from
`RulesAssumption` and `LabAssumption`. For the
pace, `SlotInv` says that slots given out, the next one and the last start are an interval
apart, whatever order they were given out in; that time waits for whoever is `Due` keeps a
slot from being overtaken. For stale answers, `PastInv` adds what is between a forge's
answer and its observation: a snapshot never is of later than its repository, and what a
write not yet observed replaced is not older than any snapshot there is. That needs a
repository to have one request under way at a time (`Asked`). That faults can be
reproduced rests on the same: `PlaceInv` says that every decision was made at its place in
the history of its path, and that a rule which has yet to look at a request has dealt with
the earlier ones on that path only; so what the rule has counted then is what it would
have counted had there been no other path, whichever rules other requests are passing.

Git commands outlast what is injected because every failed attempt has a break of its own:
`GoesWell` says that a command has made at most one attempt more than rules have broken of
its two requests (`Broken`), in this command and all earlier ones of the task, and that what
it gets otherwise is a success; so a deletion finds its ref until it is answered. No rule
fires more often than its caps say (`CapInv`), whatever requests it looks at in between.
A break is therefore told from the others by its rule, its path and its place among those of
the same rule and path, and there are no more of these than a rule file allows
(`Injections`): `AttemptsOutlast` counts them with that injection. `Outlasted` is what
remains to be asked of a rule file: fewer of them than attempts, and no stale answers to
git. Those in `src/faults` allow four breaks of five attempts. The dice, `first` and `nth`
only make faults rarer and are not counted on.

*Lookups.* `LookupProofs` proves `Spec => []TypeOK` (`TypeCorrect`) and, for `Slow = {}`,
`Spec => TellsTheTruth` (`Truthful`): `Lookup` refines `Answers` for any number of names,
any batches, any number of writes and failures, whatever stands there at first, from
`LookupAssumption`. A write is `Write`, the start of a call `Begin`, its end `End`, a
second `Fade` of the caches whose time is over; requests, judgements and rounds stutter.
`End` is the step that needs an invariant (`IInv`). What was found was there or in a cache
(`FoundOf`), and a second read kept it only if it may be said (that what is archived,
renamed or scheduled had commits is part of `World`). What is called missing is harder:
all names of a call share one deadline (`Clocks`), a cache still behind means that it is
at least `Attempts` away (`CaughtUp`), the listing's attempts cost that much and no more
(`Past`), and in `lookup_confirmed` the names of one round ask at the same times
(`Together`) — together a name that is there and called missing has seconds left and is
asked again (`CalmOf`). That no request takes time (`Slow = {}`) is what
`lookup_one_answer` drops, and what the theorem cannot do without.

*destroy and apply.* `DestroyProofs` proves `Spec => []TypeOK` (`TypeCorrect`) and `Spec =>
OnlyOursGoes` (`OthersSafe`) for `Patient`, from `NamespacesAssumption` and
`DestroyAssumption`: for any tree of namespaces, any number of tasks, failures and edits.
What apply asks to remove for good is its task's namespace, and that this is not in use
(`InTheWay`) has to survive all other tasks: a task holds the cell of its namespace and of
those below it on its way (`HeldBy`), so nobody else makes what it waits for. What destroy
removes is doomed, and has the marker until it is gone (`Condemned`); tasks that delete are
about what was forgelab's when it was listed (`Staged`), which only patience keeps true;
and a repository is in a namespace that is there (`Somewhere`), so none is lost where one
is made. `OursStep`, the step of `OnlyOursGoes`, is proved beside the invariant, from the
same cases.

It proves `Spec => []MadeOnce` (`OnceMade`) for `Patient` and
`InheritsMark`, on top of that invariant. The namespaces a task has come from are not there
until it gets back to them (`Way`); the one it asks for is in one that the client knows;
and what the client knows is in use, nothing that is going or that destroy is about to
remove being around it (`Remembered`). Without `InheritsMark` it is false, as section 3 has
it. It also proves `Spec => []OkIsTrue` (`OkCounts`), under the same two hypotheses:
what a task that is done answers for stays so until the command ends, whatever the other
tasks and the forge do. A repository that apply made is in a namespace in use, and is not
lost with one (`CreateDone`); one of forgelab's that destroy has dealt with does not stand
again (`Deleted`), and what lingers under another name is still being dealt with or has
failed the run (`Buried`); a namespace off its list, if it is still marked, is gone
(`Removed`).

*Only model-checked:* liveness (`CommandsEnd`, `RunsEnd`, `ApplyConverges`,
`LookupEnds`), which is out of the prover's reach, `ENABLED` being so.

## 5. What is left out, and the plan

Not modelled: parsing and validation of YAML, layout of output and of the lock,
building of seed commits (deterministic file work under a pinned clock), paging and
addressing in the clients. A lookup and the `ls-remote` that follows it are one step of
`Command`; what a lookup is made of is in `Lookup`.

`KeyedOnce` (`forge/keyed.rs`) is modelled as its callers use it (`Namespaces`), not on
its own. Its `set` during an initialisation of the same key would replace the cell under
the task that fills it and remember nothing, and a `set` of a key that has a value does
nothing, where its comment (`keyed.rs:57`) says that it replaces; no caller does either:
cells are set before tasks begin or, in `destroy`, where none is being filled.

In `Lab`, what git fetches (`git-upload-pack`, a POST) opens stale windows like a write, as
in `observe_mutation`; a read whose answer passes a write's on the way back could be
remembered as of before it, which one request per repository at a time excludes.

The plan, in order:

1. **Contract** — what apply, verify and reset promise of lock, forge and exit
   code, abstractly; `Sandbox` as its refinement.
2. Validation of fleets (`fleet/spec.rs`) as operators against a reference definition.
