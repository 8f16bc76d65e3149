SPECIFICATION MCSpec
CONSTANTS
  Byte = {0, 1, 2, 3, 4}
  NONE = NONE
  INTQ_BUFSIZE = 3
  MaxBytes = 3
  MaxKeys = 3
  t1 = t1
  t2 = t2
  v1 = v1
  v2 = v2
  Thread = {t1, t2}
  START = START
  Value = {v1, v2}
  Blank = v1
  NULL = NULL
  Capacity = 2
  SectorMod = 16
  Found <- MCFound
CHECK_DEADLOCK FALSE
INVARIANTS
  BytesInOrder
  CompletionsMatch
  PartitionsOnDisk
PROPERTIES
  QueuesAreFifos
  OutputDrains
  CallersReturn
  IsBlockStore
  ChannelFreed
