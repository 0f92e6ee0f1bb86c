SPECIFICATION Spec
CONSTANTS
  Tags = 2
  Sets = 1
  Ways = 2
  LineWords = 2
  Words = {x, fence}
  FENCE = fence
  MaxDirty = 2
  S_COUNT = 2
  Writers = {1}
  MaxLen = 2
  Slaves = {sram, clint}
  Mute = {clint}
  WriteTargets = {sram, Unmapped}
  Unmapped = Unmapped
  None = None
INVARIANTS FetchIsCurrent CacheSound Delivered
PROPERTIES Answers
