CONSTANTS
  Worker = {w1, w2}
  None = None
  MaxCommit = 0
  MaxInode = 1
  MaxStop = 2
  Faults = {"kill", "overlap", "fork", "submilli"}
SPECIFICATION FairSpec
PROPERTIES DeadlineServed WorkShownEnds
CHECK_DEADLOCK FALSE
