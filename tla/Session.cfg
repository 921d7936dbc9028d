SPECIFICATION FairSpec
CONSTANTS
  Calls = {c1, c2}
  Requests = {q1}
  Payloads = {p1, p2}
  Kinds = {"prompt", "progress", "operation", "restart"}
  NoRequest = NoRequest
  MaxRuntimes = 2
  MaxCrashes = 1
INVARIANTS
  TypeOK
  TableIsLive
  RunsTwiceOnlyInOverlap
  AnswersAreTrue
PROPERTY EveryCallEnds
CHECK_DEADLOCK FALSE
