\* Forgejo: a push is applied in the background, settings writes save whole rows and may
\* outlive their command.  The default branch is renamed, or the repository to be archived.
CONSTANTS
  s1 = s1
  s2 = s2
  t1 = t1
  Names = {"a"}
  Branches = {"main", "dev"}
  Tags = {"v1"}
  Baseline = "baseline"
  Commits = {s1, s2, t1}
  NoCommit = NoCommit
  Visibilities = {"private", "public"}
  Topics = {"none", "some"}
  HasVisibility = TRUE
  HasTopics = TRUE
  HasMarker = TRUE
  ArchivedUnreadable = FALSE
  Background = TRUE
  SavesRow = TRUE
  AutoProtect = FALSE
  PartialPush = FALSE
  StaleReads = FALSE
  Fleets <- OneReshaped
  Batched = FALSE
  MaxFaults = 2
  TestCommits = {t1}
  Tests = {"refs", "baseline", "settings"}
  MaxEdits = 3
  Strangers = TRUE
  People = "patient"
  SlowSaves = TRUE
SPECIFICATION Spec
INVARIANT TypeOK
INVARIANT NeverStuckEmpty
INVARIANT DriftIsRepairable
PROPERTY LockForgetsNothing
PROPERTY OkMeansPristine
PROPERTY ResetEndsWell
PROPERTY CommandsEnd
