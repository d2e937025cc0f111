\* Two readers, two writers, two chunks, two reads.
SPECIFICATION Spec
CHECK_DEADLOCK FALSE
CONSTANTS
  Readers = {r1, r2}
  Writers = {w1, w2}
  Payloads <- MCPayloads
  MaxItems = 1
  MaxWeight = 2
  MaxChunks = 2
  MaxReads = 2
SYMMETRY Symmetry
INVARIANTS
  ReadsAreFileBytes
  CacheIsSound
  FileIsStored
PROPERTIES
  WritesLandAtTheirOffset
