\* GitHub: a run killed after its push was refused in part.
CONSTANTS
  s1 = s1
  s2 = s2
  t1 = t1
  Names = {"a"}
  Branches = {"main", "dev"}
  Tags = {"v1"}
  Baseline = "baseline"
  Commits = {s1, s2, t1}
  NoCommit = NoCommit
  Visibilities = {"private", "public"}
  Topics = {"none", "some"}
  HasVisibility = TRUE
  HasTopics = TRUE
  HasMarker = TRUE
  ArchivedUnreadable = FALSE
  Background = FALSE
  SavesRow = FALSE
  AutoProtect = FALSE
  PartialPush = TRUE
  StaleReads = TRUE
  Fleets <- OneRelabelled
  Batched = TRUE
  MaxFaults = 1
  TestCommits = {t1}
  Tests = {"protection"}
  MaxEdits = 2
  Strangers = FALSE
  People = "careful"
  SlowSaves = FALSE
SPECIFICATION Persistent
PROPERTY ApplyConverges
