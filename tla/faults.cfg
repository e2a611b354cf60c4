\* Two tasks, two things each, behind injected resets, rate limits and stale reads.
SPECIFICATION Spec
CONSTANTS
  Clients = {a, b}
  a = a
  b = b
  Repos = {a, b}
  Rules <- Mixed
  Longest = 2
  NoRequest = NoRequest
  Attempts = 3
  RateLimitWait = 2
  Interval = 1
  MaxTasks = 2
  MaxFaults = 1
SYMMETRY Alike
INVARIANTS
  TypeOK
  StaleIsOld
  Reproducible
  GitOutlasts
PROPERTY StartsSpaced
