CONSTANTS
  Peer = {p1}
  None = None
  Sizes = {1, 2}
  Inputs = {"key", "repaint"}
  Builds = {"same"}
  MaxInput = 1
  MaxApp = 1
  Signals = FALSE
  Ceiling = 3
  SockRoom = 1
  RepaintCost = 2
  MayCompact = FALSE
SPECIFICATION FairSpec
INVARIANT NoGarbledScreen
PROPERTIES ScreenConverges WriteEnds PendingSettles
CHECK_DEADLOCK FALSE
