CONSTANTS
  Worker = {w1, w2}
  None = None
  MaxCommit = 1
  MaxInode = 2
  MaxStop = 1
  Faults = {"hand", "crash", "full"}
SYMMETRY Symmetry
SPECIFICATION Spec
INVARIANTS RestartRemembered RecordIsTrue
CHECK_DEADLOCK FALSE
