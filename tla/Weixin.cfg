SPECIFICATION FairSpec
CONSTANTS
  s1 = s1
  s2 = s2
  NoSession = NoSession
  Messages = 2
  Contents <- AllContents
  Sessions <- TwoSessions
  Default = s1
  ProcessedLimit = 1
  MaxFailures = 1
  MaxLogins = 1
  MaxSwitches = 1
INVARIANTS
  TypeOK
  ExecutedOnce
  MarkedIsSettled
PROPERTY EveryMessageAnswered
