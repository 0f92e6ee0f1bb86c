SPECIFICATION TimerSpec
CONSTANTS
  TimeWord = 4
  MaxTime = 13
  Device = "clint"
PROPERTIES UptimeMonotone
