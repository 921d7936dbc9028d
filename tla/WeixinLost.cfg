SPECIFICATION Spec
CONSTANTS
  s1 = s1
  s2 = s2
  NoSession = NoSession
  Messages = 3
  Contents <- Prompts
  Sessions <- TwoSessions
  Default = s1
  ProcessedLimit = 2
  MaxFailures = 0
  MaxLogins = 0
  MaxSwitches = 0
INVARIANT NothingLost
