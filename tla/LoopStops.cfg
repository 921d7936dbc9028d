SPECIFICATION Spec
CONSTANTS
  NoLoop = NoLoop
  Steps = {1}
  MaxAge = 0
  Sessions = {s1, s2}
  ProjectIds = {p}
  SessionIds = {}
  Conversations = {s1, s2}
  Conversation <- OwnConversation
  Tools = {t}
  Sched = sched
  NoSession = NoSession
  NoId = NoId
  Kinds = {"Interval"}
  ToolOps = {"add", "updatePrompt", "reschedule", "pause", "resume"}
  Failures = {}
  MaxLoops = 1
  MaxTime = 0
  MaxManual = 0
  GracefulStop = FALSE
SYMMETRY SessionSymmetry
INVARIANTS
  OwnersHoldLease
  LeaseIsAccountedFor
  OthersHoldNoProjectLoop
CHECK_DEADLOCK FALSE
