SPECIFICATION IpcFairSpec
CONSTANTS
  w1 = w1
  w2 = w2
  s1 = s1
  m1 = m1
  m2 = m2
  Workers = {w1, w2}
  Main = main
  Idle = idle
  Levels = 4
  Defunct = defunct
  LockMax = 2
  NULL = null
  Sleep = sleep
  Prio <- MCPrio
  SemMax = 2
  HoldMax = 2
  Sems = {s1}
  Mutexes = {m1, m2}
  Objects = {s1, m1, m2}
  FifoSems = {}
  Applications <- MCApplications
INVARIANTS WaitersListed HighestRuns TokensConserved OwnerHolds PriorityInherited NoUseAfterFree
PROPERTIES YieldShares SleepEnds
CHECK_DEADLOCK FALSE
