SPECIFICATION SynchSpec
CONSTANTS
  Main = Main
  t1 = t1
  t2 = t2
  Idle = Idle
  NULL = NULL
  A = A
  B = B
  s1 = s1
  c1 = c1
  Thread <- MCThread
  Lock = {A}
  Sema = {s1}
  Cond = {c1}
  CondLock <- MCCondLock
  Rank <- MCRank
  Ordered = TRUE
  MaxValue = 2
  PRI_MAX = 1
  TIME_SLICE = 1
  Naps <- MCNaps
  Ops = {"lock", "try", "sema", "cond", "broadcast", "sleep", "exit", "yield"}
INVARIANTS
  NoLostWakeup
  NoLostSignal
  ElemInOneList
PROPERTIES
  LocksAreMutexes
