\* Groups of two data sectors: one full set, or short ones from
\* UploadAllPending; two values; one failed write, a contract with reads.
SPECIFICATION Spec
CONSTANTS
  Ndata = 2
  Nparity = 1
  Contracts = {c1, c2, c3}
  Values = {v1, v2}
  NoData = NoData
  NoContract = NoContract
  NoRoot = NoRoot
  ChanCap = 1
  MaxNext = 2
  MaxFailures = 1
  MaxReads = 1
  MaxRestarts = 0
SYMMETRY Symmetry
CHECK_DEADLOCK FALSE
INVARIANTS
  TypeOK
  NoParallelUpload
  EverySetHasItsToken
  EverySectorHasItsPlace
  ParityMatchesData
PROPERTIES
  ContentKept
