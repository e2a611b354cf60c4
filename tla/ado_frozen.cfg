\* Azure DevOps: no marker, nothing of an archived repository can be read.
CONSTANTS
  s1 = s1
  s2 = s2
  t1 = t1
  Names = {"a"}
  Branches = {"main", "dev"}
  Tags = {"v1"}
  Baseline = "baseline"
  Commits = {s1, s2, t1}
  NoCommit = NoCommit
  Visibilities = {"private", "public"}
  Topics = {"none", "some"}
  HasVisibility = FALSE
  HasTopics = FALSE
  HasMarker = FALSE
  ArchivedUnreadable = TRUE
  Background = FALSE
  SavesRow = FALSE
  AutoProtect = FALSE
  PartialPush = FALSE
  StaleReads = FALSE
  Fleets <- OneFrozen
  Batched = FALSE
  MaxFaults = 2
  TestCommits = {t1}
  Tests = {"settings"}
  MaxEdits = 3
  Strangers = TRUE
  People = "patient"
  SlowSaves = TRUE
SPECIFICATION Spec
INVARIANT DriftIsRepairable
PROPERTY OkMeansPristine
PROPERTY LockMeansApplied
