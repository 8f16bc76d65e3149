SPECIFICATION LibSpec
CONSTANTS
  List = {"A", "B"}
  Elem = {"a", "b", "c", "d"}
  NULL = NULL
  key <- ListKey
  Entry = {"a", "b", "c", "d", "e"}
  NONE = NONE
  entry_key <- EntryKey
  hash <- Hashes
  MinBuckets = 1
  BEST_ELEMS_PER_BUCKET = 1
  WordBits = 8
  RandomSize = 4
  BufSize = 8
  PerLine = 4
  COL_CNT = 4
  ROW_CNT = 3
  TAB = 2
  Plain <- PlainKeys
  NoChar = NoChar
  BLOCK_SECTOR_SIZE = 3
INVARIANTS
  ListsAreSequences
  FunctionsRight
  TerminalRight
PROPERTY
  HashIsDict
\* A function that was computed has nothing left to do.
CHECK_DEADLOCK FALSE
