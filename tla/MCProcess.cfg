SPECIFICATION ProcSpec
CONSTANTS
  p1 = p1
  p2 = p2
  Proc = {p1, p2}
  MAIN = MAIN
  KernelPages = 5
  UserPages = 3
  PGSIZE = 4
  PHYS_BASE = 20
  AddrMod = 32
  PtPages = 3
  Program <- Programs
SYMMETRY Symmetry
INVARIANTS
  PagesOwnedOnce
  AddressSpaceLive
  SegmentsMapped
