SPECIFICATION ICacheSpec
CONSTANTS
  Tags = 2
  Sets = 1
  Ways = 2
  LineWords = 2
  Words = {x, fence}
  FENCE = fence
  MaxDirty = 2
CHECK_DEADLOCK TRUE
PROPERTY FillKeepsOtherWays
