SPECIFICATION MemSpec
CONSTANTS
  t1 = t1
  t2 = t2
  Thread = {t1, t2}
  NULL = NULL
  RamPages = 6
  UserPageLimit = 2
  PGSIZE = 16
  ArenaSize = 6
  MinBlock = 5
  SizeMax = 256
  BitmapSize = 4
  ElemSize = 4
  ELEM_BITS = 4
  Request = {0, 4, 12}
  PageRequest = {1}
  MaxHeld = 2
SYMMETRY Symmetry
INVARIANTS
  PagesAccounted
  
  ArenasExact
PROPERTY
  ImplementsHeap
