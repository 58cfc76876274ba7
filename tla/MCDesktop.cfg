CONSTANTS
  kMaxWindows = 3
  MaxId = 3
  App = {"a"}
  Careful = {2}
  MaxAsked = 1
  MaxPending = 1
SPECIFICATION Spec
INVARIANTS FrontIsFocused FullscreenIsFront DragIsLive AssistOffersVisible NextReachesAll
