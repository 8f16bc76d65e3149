SPECIFICATION Spec
CONSTANTS
  Thread = {t1, t2}
  Line = {0, 5, 14}
  Registered = {0, 14}
  MaxUnexpected = 3
  NULL = NULL
  how = "SHUTDOWN_NONE"
  MaxLevel = 4
INVARIANTS
  InterruptsAcknowledged
  HandlersNeverSleep
  ConsoleExclusive
PROPERTIES
  PanicHalts
