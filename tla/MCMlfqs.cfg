SPECIFICATION MlfqsSpec
CONSTANTS
  Main = Main
  t1 = t1
  Idle = Idle
  NULL = NULL
  Thread <- MCTwoThreads
  Lock = {}
  PRI_MAX = 2
  TIME_SLICE = 1
  Naps = {1}
  Ops = {"yield", "sleep", "exit", "set_nice"}
  FP_F = 2
  TIMER_FREQ = 2
  RECALC = 2
  SHARE = 2
  Nice = {0, 1}
INVARIANTS
  UsageBounded
PROPERTIES
  ReadyThreadRuns
