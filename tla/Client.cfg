SPECIFICATION FairSpec
CONSTANTS
  q1 = q1
  None = None
  Requests = {q1}
  MaxRuntimes = 2
  MaxLoads = 2
  MaxFailures = 1
INVARIANT TypeOK
PROPERTIES
  NoSubmissionIsLost
  
