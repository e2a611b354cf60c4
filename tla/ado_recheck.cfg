\* Azure DevOps: a test deletes a tag and archives.
CONSTANTS
  s1 = s1
  s2 = s2
  t1 = t1
  Names = {"a"}
  Branches = {"main", "dev"}
  Tags = {"v1"}
  Baseline = "baseline"
  Commits = {s1, s2, t1}
  NoCommit = NoCommit
  Visibilities = {"private", "public"}
  Topics = {"none", "some"}
  HasVisibility = FALSE
  HasTopics = FALSE
  HasMarker = FALSE
  ArchivedUnreadable = TRUE
  Background = FALSE
  SavesRow = FALSE
  AutoProtect = FALSE
  PartialPush = FALSE
  StaleReads = FALSE
  Fleets <- OneFrozen
  Batched = FALSE
  MaxFaults = 1
  TestCommits = {t1}
  Tests = {"refs", "settings"}
  MaxEdits = 2
  Strangers = TRUE
  People = "patient"
  SlowSaves = FALSE
SPECIFICATION Spec
PROPERTY LockMeansApplied
