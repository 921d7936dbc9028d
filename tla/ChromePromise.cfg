SPECIFICATION Spec
CONSTANTS
  Cmds = {c1, c2}
  Connectors = {k1, k2}
  Handlers = {h1}
  Nobody = Nobody
  NoCmd = NoCmd
  Nowhere = Nowhere
  NoHandler = NoHandler
  MaxAdmitted = 2
  Gated = FALSE
  MaxLosses = 1
SYMMETRY BridgeSymmetry
INVARIANTS
  OneInFlight
  NoResultIsDropped
PROPERTY PromiseKept
