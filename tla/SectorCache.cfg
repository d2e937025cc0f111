\* Three readers of three roots and a cache of two, one write.
SPECIFICATION Spec
CHECK_DEADLOCK FALSE
CONSTANTS
  Readers = {r1, r2, r3}
  Roots = {a, b, c}
  MaxItems = 2
  MaxReads = 2
  MaxWrites = 1
INVARIANTS
  OneReaderPerRoot
  SleepersAwaitSomebody
PROPERTIES
  ReadsEnd
