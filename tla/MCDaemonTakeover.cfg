CONSTANTS
  Peer = {p1, p2}
  None = None
  Sizes = {1}
  Inputs = {"press", "detach", "bad", "update", "quit"}
  Builds = {"same", "other"}
  MaxInput = 1
  MaxApp = 0
  Signals = TRUE
  Ceiling = 2
  SockRoom = 1
  RepaintCost = 1
  MayCompact = FALSE
SYMMETRY Symmetry
SPECIFICATION Spec
INVARIANT RestartFindsNoListener
CHECK_DEADLOCK FALSE
