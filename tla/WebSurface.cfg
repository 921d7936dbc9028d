CHECK_DEADLOCK FALSE
SPECIFICATION FairSpec
CONSTANTS
  a1 = a1
  a2 = a2
  Actions = {a1, a2}
  Nobody = Nobody
  MaxRuntimes = 2
  MaxSurfaces = 2
  MaxRevision = 2
INVARIANTS
  TypeOK
  RightRuntime
  OneAtATime
  
PROPERTY EveryActionAnswered
