----------------------------- MODULE Repository -----------------------------
(***************************************************************************)
(* What a declared repository should be, what a forge reports of it, and   *)
(* the two comparisons every command is built on: diff_one (apply) and     *)
(* compare_one (verify, reset).  No state: these are functions of one      *)
(* declaration and one repository.                                         *)
(*                                                                         *)
(* A commit is a model value: the seed commit of a fixture, or a commit a  *)
(* test made.  Topics and visibilities are members of small sets.          *)
(***************************************************************************)
CONSTANTS
  Branches,            \* branch names
  Tags,                \* tag names a fleet or a test may use
  Baseline,            \* the tag every seed carries (seed::BASELINE_TAG)
  Commits,             \* commits
  NoCommit,            \* "there is no such ref"
  Visibilities,        \* "private", "public"
  Topics,              \* lists of topics
  HasVisibility,       \* Caps::visibility
  HasTopics,           \* Caps::topics
  HasMarker,           \* Caps::marker
  ArchivedUnreadable   \* Caps::archived_unreadable

ASSUME RefsAssumption == Baseline \notin Tags /\ NoCommit \notin Commits

ASSUME ValuesAssumption == Branches # {} /\ Visibilities # {} /\ Topics # {}

ASSUME CapsAssumption ==
  {HasVisibility, HasTopics, HasMarker, ArchivedUnreadable} \subseteq BOOLEAN

AllTags == Tags \cup {Baseline}

Refs(names) == [names -> Commits \cup {NoCommit}]

\* A repository as the forge holds it.  `branches` and `tags` are what git
\* answers; `empty` is the flag the API reports; `pending` says a push was
\* taken in and its effects on the API are still to come; a branch that is
\* protected ("yes") takes no force-push, one whose protection was relaxed does;
\* `requests` are the branches an open pull request points at.
Protections == {"no", "relaxed", "yes"}

Repos ==
  [visibility : Visibilities, topics : Topics, archived : BOOLEAN,
   default : Branches, empty : BOOLEAN, pending : BOOLEAN,
   protected : [Branches -> Protections], branches : Refs(Branches), tags : Refs(AllTags),
   requests : SUBSET Branches]

\* A repository as the fleet declares it, with the seed commit building its
\* fixture gives (an entry of the lock).
Wants ==
  [default : Branches, visibility : Visibilities, topics : Topics,
   archived : BOOLEAN, empty : BOOLEAN, tags : SUBSET Tags,
   baseline : Commits]

\* Who made what stands under a name.
Owners == {"nobody", "forgelab", "others"}

\* Without a marker every declared name is forgelab's.
IsOurs(owner) == ~HasMarker \/ owner = "forgelab"

Unreadable(r) == ArchivedUnreadable /\ r.archived

\* A slip (for the mutation checks): archiving is not compared.
SettingsDifferUnlessArchived(want, r) ==
  \/ HasVisibility /\ r.visibility # want.visibility
  \/ HasTopics /\ r.topics # want.topics

SettingsDiffer(want, r) ==
  \/ HasVisibility /\ r.visibility # want.visibility
  \/ HasTopics /\ r.topics # want.topics
  \/ r.archived # want.archived

Has(refs) == {x \in DOMAIN refs : refs[x] # NoCommit}

-----------------------------------------------------------------------------
(* apply: what there is to do *)

\* What `settle_one` needs of a repository read earlier; `known` is false when
\* the repository was not read, or read as missing.
SeenOf(r) ==
  [known |-> TRUE, visibility |-> r.visibility, topics |-> r.topics,
   default |-> r.default, archived |-> r.archived]

\* A slip: a repository not read has no default branch.
UnseenWithoutDefault(want) ==
  [known |-> FALSE, visibility |-> want.visibility, topics |-> want.topics,
   default |-> NoCommit, archived |-> FALSE]

Unseen(want) ==
  [known |-> FALSE, visibility |-> want.visibility, topics |-> want.topics,
   default |-> want.default, archived |-> FALSE]

Sightings ==
  [known : BOOLEAN, visibility : Visibilities, topics : Topics,
   default : Branches, archived : BOOLEAN]

Changes ==
  [create : BOOLEAN, push : BOOLEAN, recheck : BOOLEAN, notes : BOOLEAN,
   staleTags : SUBSET Tags, staleBranches : SUBSET Branches,
   live : Sightings]

Creation(want) ==
  [create |-> TRUE, push |-> FALSE, recheck |-> FALSE, notes |-> FALSE,
   staleTags |-> {}, staleBranches |-> {}, live |-> Unseen(want)]

\* A slip: any repository of the declared name is adopted.
DiffGuardsAdopting(want, owner, r) ==
  ~Unreadable(r) /\ want.empty /\ ~r.empty

\* apply refuses a repository that is not forgelab's, and one that should be
\* empty and has commits.
DiffGuards(want, owner, r) ==
  \/ ~IsOurs(owner)
  \/ ~Unreadable(r) /\ want.empty /\ ~r.empty

\* A slip: the baseline tag stands for all tags.
SeedMissingByBaseline(want, r) ==
  \/ r.tags[Baseline] # want.baseline
  \/ r.branches[want.default] = NoCommit

\* The seed is not (all) there.  Where the default branch points is not asked.
SeedMissing(want, r) ==
  \/ \E t \in want.tags \cup {Baseline} : r.tags[t] # want.baseline
  \/ r.branches[want.default] = NoCommit

\* `prev` is the set of declarations the lock held before this run: none, or
\* the one of this name.
DiffOne(want, r, prev) ==
  LET readable == ~Unreadable(r)
      seeded == readable /\ ~want.empty /\ ~r.empty
      oldTags == (UNION {p.tags : p \in prev}) \ want.tags
      oldBranches == {p.default : p \in prev} \ {want.default}
      staleTags == IF seeded THEN oldTags \cap Has(r.tags) ELSE {}
      staleBranches == IF seeded THEN oldBranches \cap Has(r.branches) ELSE {}
  IN [create |-> FALSE,
      push |-> readable /\ ~want.empty /\ (r.empty \/ SeedMissing(want, r)),
      recheck |-> ~readable /\ ~want.archived /\ ~want.empty,
      notes |-> \/ SettingsDiffer(want, r)
                \/ seeded /\ r.default # want.default
                \/ staleTags # {} \/ staleBranches # {},
      staleTags |-> staleTags,
      staleBranches |-> staleBranches,
      live |-> SeenOf(r)]

Needed(c) == c.create \/ c.push \/ c.recheck \/ c.notes

-----------------------------------------------------------------------------
(* verify: what is wrong *)

States ==
  [guard : BOOLEAN, drift : BOOLEAN, archived : BOOLEAN, dirty : BOOLEAN,
   branches : SUBSET Branches, tags : SUBSET Tags,
   requests : SUBSET Branches]

Missing ==
  [guard |-> TRUE, drift |-> FALSE, archived |-> FALSE, dirty |-> FALSE,
   branches |-> {}, tags |-> {}, requests |-> {}]

\* Not looked at yet.
Unchecked == [Missing EXCEPT !.guard = FALSE]

\* A slip: the baseline tag need only exist.
CompareGuardsTrusting(want, owner, r) ==
  \/ ~IsOurs(owner)
  \/ /\ ~Unreadable(r)
     /\ IF want.empty THEN ~r.empty
        ELSE r.empty \/ r.tags[Baseline] = NoCommit

CompareGuards(want, owner, r) ==
  \/ ~IsOurs(owner)
  \/ /\ ~Unreadable(r)
     /\ IF want.empty THEN ~r.empty
        ELSE r.empty \/ r.tags[Baseline] # want.baseline

\* A slip: the default branch need only exist, as in apply.
RefsMovedByTags(want, r) ==
  \/ r.branches[want.default] = NoCommit
  \/ \E t \in want.tags : r.tags[t] # want.baseline

\* The default branch or a declared tag is not where it was seeded.
RefsMoved(want, r) ==
  \/ r.branches[want.default] # want.baseline
  \/ \E t \in want.tags : r.tags[t] # want.baseline

ExtraBranches(want, r) == Has(r.branches) \ {want.default}

\* A slip: the baseline tag is not declared either.
ExtraTagsAll(want, r) == Has(r.tags) \ want.tags

ExtraTags(want, r) == Has(r.tags) \ (want.tags \cup {Baseline})

\* An archived repository that cannot be read is rewound if it is to be readable.
CompareOne(want, owner, r) ==
  LET guard == CompareGuards(want, owner, r)
      hidden == ~guard /\ Unreadable(r)
      compared == ~guard /\ ~hidden /\ ~want.empty
      dirty == \/ hidden /\ ~want.archived /\ ~want.empty
               \/ compared /\ RefsMoved(want, r)
      branches == IF compared THEN ExtraBranches(want, r) ELSE {}
      tags == IF compared THEN ExtraTags(want, r) ELSE {}
      requests == IF compared THEN r.requests ELSE {}
  IN [guard |-> guard,
      drift |-> ~guard /\ \/ SettingsDiffer(want, r)
                          \/ compared /\ r.default # want.default
                          \/ dirty
                          \/ branches # {} \/ tags # {} \/ requests # {},
      archived |-> r.archived,
      dirty |-> dirty,
      branches |-> branches,
      tags |-> tags,
      requests |-> requests]

\* The forge's own branch listing has the default branch at the baseline.
Reports(want, r) ==
  ~Unreadable(r) /\ ~r.pending /\ r.branches[want.default] = want.baseline

\* Nothing to wait for: no refs declared, or none that could be read.
NothingToAwait(want) == want.empty \/ (want.archived /\ ArchivedUnreadable)

-----------------------------------------------------------------------------
(* A reference to judge the commands by, from the declaration alone. *)

SettingsAs(want, r) ==
  /\ HasVisibility => r.visibility = want.visibility
  /\ HasTopics => r.topics = want.topics
  /\ r.archived = want.archived

\* What apply answers for, of a repository that can be read: its settings, its
\* default branch, and every declared tag at the seed commit.
Applied(want, owner, r) ==
  /\ IsOurs(owner)
  /\ SettingsAs(want, r)
  /\ ~want.empty /\ ~Unreadable(r) =>
       /\ r.default = want.default
       /\ r.branches[want.default] # NoCommit
       /\ \A t \in want.tags \cup {Baseline} : r.tags[t] = want.baseline

\* The repository is exactly what the fleet declares, ref for ref.
Pristine(want, owner, r) ==
  /\ IsOurs(owner)
  /\ SettingsAs(want, r)
  /\ r.requests = {}
  /\ want.empty => \A b \in Branches : r.branches[b] = NoCommit
  /\ ~want.empty =>
       /\ r.default = want.default
       /\ \A b \in Branches :
            r.branches[b] = IF b = want.default THEN want.baseline ELSE NoCommit
       /\ \A t \in AllTags :
            r.tags[t] = IF t \in want.tags \cup {Baseline} THEN want.baseline
                        ELSE NoCommit
=============================================================================
