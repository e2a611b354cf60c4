\* Forgejo, where a first request may take as long as a missing name is asked again.
CONSTANTS
  Forges = {"forgejo"}
  Names = {1, 2}
  First <- Firsts
  Batch <- Batches
  Attempts = 2
  Patience = 2
  Lag = 1
  Slow = {"forgejo"}
  MaxEdits = 2
  MaxFaults = 1
SPECIFICATION FairSpec
PROPERTY NotOnOneAnswer
