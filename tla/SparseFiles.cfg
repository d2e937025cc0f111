\* A file of four bytes, four writes.
SPECIFICATION Spec
CHECK_DEADLOCK FALSE
CONSTANTS
  Size = 4
  Payloads <- MCPayloads
  TrimOver = 1
  MaxWrites = 4
INVARIANTS
  ReadsLastWrite
  IndexIsSound
  OpensUnlessTorn
  ChainHasLatest
  WalkIsShort
