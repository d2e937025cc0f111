\* One parity set of one data and two parity sectors; one failed write, one
\* restart from any dump taken before.
SPECIFICATION Spec
CONSTANTS
  Ndata = 1
  Nparity = 2
  Contracts = {c1, c2, c3, c4}
  Values = {v1}
  NoData = NoData
  NoContract = NoContract
  NoRoot = NoRoot
  ChanCap = 1
  MaxNext = 1
  MaxFailures = 1
  MaxReads = 0
  MaxRestarts = 1
SYMMETRY Symmetry
CHECK_DEADLOCK FALSE
INVARIANTS
  DistinctContracts
  SurvivesContractLoss
  InductiveInvariant
