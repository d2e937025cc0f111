SPECIFICATION Spec
CHECK_DEADLOCK FALSE
CONSTANTS
  BlockSize = 3
  Size = 8
  Bytes = {1, 10, 20}
  MaxLength = 8
INVARIANT
  ReadsAcrossBlocks
