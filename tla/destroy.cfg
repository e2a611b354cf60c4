\* GitLab's groups and Azure DevOps' projects, made and removed side by side.
CONSTANTS
  Forges = {"gitlab", "azuredevops"}
  Repos = {"a/b/api", "a/a", "top", "a/b/theirs"}
  Fleet = {"a/b/api", "a/a", "top"}
  Home <- Homes
  Namesakes = {"a/a"}
  NoOne = NoOne
  InheritsMark = TRUE
  Attempts = 2
  MaxFaults = 1
  Patient = TRUE
  MaxEdits = 2
SPECIFICATION FairSpec
INVARIANTS
  TypeOK
  MadeOnce
  OkIsTrue
PROPERTIES
  OnlyOursGoes
  RunsEnd
