CONSTANTS
  MountPoint <- MountPointValue
  InitialDisk <- DiskValue
  Alphabet <- AlphabetValue
  Hidden <- HiddenValue
  Places <- PlacesValue
  Slices = 1
  MaxDepth = 3
  MaxFaults = 1
  MaxGestures = 4
  MaxOutside = 1
SPECIFICATION Spec
INVARIANT SelInRange
PROPERTY NothingLost
PROPERTY SuccessIsTrue
PROPERTY HalfFileExplained
PROPERTY JobEnds
CHECK_DEADLOCK FALSE
