SPECIFICATION Spec
CONSTANTS
  NoLoop = NoLoop
  Steps = {1}
  MaxAge = 0
  Sessions = {s1, s2}
  ProjectIds = {p}
  SessionIds = {}
  Conversations = {s1, s2}
  Conversation <- OwnConversation
  Tools = {t}
  Sched = sched
  NoSession = NoSession
  NoId = NoId
  Kinds = {"Interval"}
  ToolOps = {"add", "remove", "removeAll"}
  Failures = {"persist", "read", "lease"}
  MaxLoops = 1
  MaxTime = 1
  MaxManual = 0
  GracefulStop = TRUE
SYMMETRY SessionSymmetry
INVARIANTS
  OwnerMemoryIsFile
  DeletedStaysDeleted
  AtMostOneOccurrence
 
CHECK_DEADLOCK FALSE
