SPECIFICATION FairSpec
CONSTANTS
  Cmds = {c1, c2}
  Connectors = {k1}
  Handlers = {h1, h2}
  Nobody = Nobody
  NoCmd = NoCmd
  Nowhere = Nowhere
  NoHandler = NoHandler
  MaxAdmitted = 1
  Gated = TRUE
  MaxLosses = 1
INVARIANT TypeOK
PROPERTIES
  PromiseKept
  EverySendEnds
  ResultsDrain
