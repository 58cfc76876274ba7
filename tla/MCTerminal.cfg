CONSTANTS
  Windows = {1, 2}
  Pids = {1, 2}
  MaxTabs = 2
  MaxShells = 2
  MaxPrints = 2
  MaxGestures = 3
SPECIFICATION Spec
INVARIANT EveryTabIsHeard
INVARIANT PasteClosed
PROPERTY AskedWhileAlive
PROPERTY ZombieReaped
CHECK_DEADLOCK FALSE
