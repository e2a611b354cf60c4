\* GitHub: two repositories in batches, with stale caches; apply is run again and again.
CONSTANTS
  s1 = s1
  s2 = s2
  t1 = t1
  Names = {"a", "b"}
  Branches = {"main", "dev"}
  Tags = {"v1"}
  Baseline = "baseline"
  Commits = {s1, s2, t1}
  NoCommit = NoCommit
  Visibilities = {"private"}
  Topics = {"none"}
  HasVisibility = TRUE
  HasTopics = TRUE
  HasMarker = TRUE
  ArchivedUnreadable = FALSE
  Background = FALSE
  SavesRow = FALSE
  AutoProtect = FALSE
  PartialPush = TRUE
  StaleReads = TRUE
  Fleets <- Two
  Batched = TRUE
  MaxFaults = 2
  TestCommits = {t1}
  Tests = {"settings"}
  MaxEdits = 2
  Strangers = TRUE
  People = "careful"
  SlowSaves = TRUE
SPECIFICATION Persistent
INVARIANT WritesAreOurs
PROPERTY ForeignUntouched
PROPERTY LockMeansApplied
PROPERTY LockForgetsNothing
PROPERTY ApplyConverges
