SPECIFICATION FsSpec
CONSTANTS
  n1 = n1
  n2 = n2
  h1 = h1
  h2 = h2
  zero = zero
  bytes = bytes
  NONE = NONE
  SectorCnt = 5
  Reserved = 2
  Name = {n1, n2}
  Slots = 2
  MaxLen = 2
  Handle = {h1, h2}
  Value = {zero, bytes}
  Zero = zero
  Failures = {"malloc", "map", "entry"}
SYMMETRY FsSymmetry
INVARIANTS
  SectorsAccounted
  DiskMapCovers
  InodesExact
PROPERTIES
  IsFileStore
