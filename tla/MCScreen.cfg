CONSTANTS
  Sizes <- SizesValue
  TabStop = 2
  Capacity = 2
  Steps = {1}
  MaxPrints = 4
  MaxOrders = 3
SPECIFICATION Spec
INVARIANT WidePaired
PROPERTY MainPageKept
PROPERTY OutsideRegionStill
PROPERTY ViewStays
CHECK_DEADLOCK FALSE
