\* GitHub: a create whose connection is lost once it was sent.
CONSTANTS
  Requests = {"create", "patch", "delete", "query"}
  NoOne = NoOne
  Method <- Methods
  Repeatable = {"query"}
  ExpectBody = {"query"}
  Classifier <- Classifiers
  Laned = {"create", "patch", "delete"}
  Interval = 1
  Budget = 2
  Base = 1
  Cap = 2
  DefaultWait = 2
  Timeout = 1
  Answers <- GitHubAnswers
  LatestStart = 1
SPECIFICATION Spec
INVARIANT RepeatedSafely
