SPECIFICATION Spec
CONSTANTS
  NR_WP = 3
  Exprs = {x1, x2}
  BadExprs = {bad}
  Values = {0, 1}
  NULL = NULL
  NoExpr = NoExpr
  Inst = {i1, i2}
  IlenBytes = 2
  RbSize = 8
  CounterMod = 16
  MaxSteps = 2
  N = 4
  PackLen = 4
  KEY_QUEUE_LEN = 3
  Keys = {0, 1}
  Pixels = 1
  MaxEvents = 3
  MaxDraws = 2
  TimeWord = 4
  MaxTime = 13
  Device = "rtc"
  SB_SIZE = 4
  Samples = 7
  ChunkLen = 3
  CbLen = 2
INVARIANTS TypeOK ListsPartitionPool RingHoldsLast AlarmIffFault KeysInOrder PlaysWhatWasWritten
PROPERTIES NoMissedHit ClosingStops FrameShown UptimeIsCurrent AudioFinishes
CHECK_DEADLOCK FALSE
