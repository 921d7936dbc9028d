SPECIFICATION Spec
CONSTANTS
  NoLoop = NoLoop
  Steps = {1}
  MaxAge = 1
  Sessions = {s1, s2}
  ProjectIds = {p}
  SessionIds = {q}
  Conversations = {c}
  Conversation <- OneConversation
  Tools = {t}
  Sched = sched
  NoSession = NoSession
  NoId = NoId
  Kinds = {"Cron", "Manual"}
  ToolOps = {"add", "arm", "runNow", "removeAll"}
  Failures = {"append"}
  MaxLoops = 1
  MaxTime = 1
  MaxManual = 1
  GracefulStop = TRUE
INVARIANTS
  TypeOK
  ClaimsAreDurable
  AtMostOneOccurrence
CHECK_DEADLOCK FALSE
