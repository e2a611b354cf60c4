\* What lookups answer while others write and caches lag, on every forge.
CONSTANTS
  Forges = {"forgejo", "github", "gitlab", "azuredevops"}
  Names = {1, 2}
  First <- Firsts
  Batch <- Batches
  Attempts = 2
  Patience = 2
  Lag = 1
  Slow = {}
  MaxEdits = 2
  MaxFaults = 1
SPECIFICATION FairSpec
INVARIANT TypeOK
PROPERTIES
  TellsTheTruth
  LookupEnds
