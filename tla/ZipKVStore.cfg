\* Blocks of one byte, an empty value and one that fills a block, two index
\* names that wrap around; a failed backend call and a crash.
SPECIFICATION WholeSpec
CONSTANTS
  Keys = {k1, k2}
  Values = {empty, v1}
  Metas = {m1}
  NoEntry = NoEntry
  empty = empty
  Size <- MCSize
  MaxBlock = 1
  MaxDbName = 1
  MaxOps = 3
  MaxErrors = 1
  MaxCrashes = 1
SYMMETRY Symmetry
INVARIANTS
  TypeOK
  FilesMatchHistory
  WriteNextIsDurable
PROPERTIES
  Implements
  SavedBlocksUnchanged
