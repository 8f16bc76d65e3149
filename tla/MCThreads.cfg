SPECIFICATION ThreadsFairSpec
CONSTANTS
  Main = Main
  t1 = t1
  t2 = t2
  Idle = Idle
  NULL = NULL
  Thread <- MCThread
  Lock = {}
  PRI_MAX = 2
  TIME_SLICE = 2
  Naps <- MCNaps
  Ops = {"yield", "set_priority", "sleep", "exit"}
INVARIANTS
  StrictPriority
  ThreadsInv
PROPERTIES
  SleepersWake
  TopPriorityRuns
