SPECIFICATION Spec
CONSTANTS
  NULL = NULL
  SectorMod = 16
INVARIANT
  ReadsGivenSector
