\* A group of two in a manager of three, two parity sectors, two glitches.
SPECIFICATION Spec
CONSTANTS
  GroupSize = 2
  Ndata = 3
  Nparity = 2
  Readers = {r1}
  MaxGlitches = 2
INVARIANTS
  ReadsSurviveLoss
PROPERTIES
  ReadsEnd
CHECK_DEADLOCK FALSE
