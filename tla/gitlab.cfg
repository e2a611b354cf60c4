\* GitLab: two repositories in batches, default branches protected a moment after the
\* first push.
CONSTANTS
  s1 = s1
  s2 = s2
  t1 = t1
  Names = {"a", "b"}
  Branches = {"main", "dev"}
  Tags = {"v1"}
  Baseline = "baseline"
  Commits = {s1, s2, t1}
  NoCommit = NoCommit
  Visibilities = {"private", "public"}
  Topics = {"none", "some"}
  HasVisibility = TRUE
  HasTopics = TRUE
  HasMarker = TRUE
  ArchivedUnreadable = FALSE
  Background = TRUE
  SavesRow = FALSE
  AutoProtect = TRUE
  PartialPush = FALSE
  StaleReads = TRUE
  Fleets <- Both
  Batched = TRUE
  MaxFaults = 1
  TestCommits = {t1}
  Tests = {"refs", "baseline", "settings"}
  MaxEdits = 2
  Strangers = TRUE
  People = "patient"
  SlowSaves = TRUE
SPECIFICATION Spec
INVARIANT DriftIsRepairable
PROPERTY LockMeansApplied
PROPERTY LockForgetsNothing
PROPERTY OkMeansPristine
PROPERTY ResetOnlyRewinds
