CONSTANTS
  Sizes <- MCSizes
  kMinCols = 3
  kMinRows = 3
  kVerticalCols = 2
  Edges = {"Bottom", "Right"}
  Floor <- MCFloor
  Home <- MCHome
  MaxTiles = 3
SPECIFICATION Spec
INVARIANTS StaysOnScreen TilesFill
PROPERTY CancelUndoes
