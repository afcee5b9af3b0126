SPECIFICATION FairSpec
CONSTANTS
  Sessions = {s1, s2}
  Files = {f1}
  Capacity = 1
  None = None
CHECK_DEADLOCK FALSE
INVARIANTS
  AskedUploadsCanBeAnswered
PROPERTIES
  OnlyDeadRequestsLoseTheirResponder
  AnswersStrayOnlyFromDeadRequests
  RequestsAnswered
