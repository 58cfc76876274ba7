CONSTANTS
  Worker = {w1, w2}
  None = None
  MaxCommit = 1
  MaxInode = 1
  MaxStop = 1
  Faults = {"fork", "kill"}
  Window = {a, b}
  NoWindow = NoWindow
SYMMETRY Symmetry
SPECIFICATION SessionSpec
INVARIANT UpdateQuestionHolds
PROPERTIES GuardedIsAsked InfoIsHarmless
CHECK_DEADLOCK FALSE
