\* Groups of two: a full one, or two short ones from UploadAllPending; one failed
\* write, channels of one place.
SPECIFICATION FairSpec
CONSTANTS
  Ndata = 2
  Nparity = 0
  Contracts = {c1, c2}
  Values = {v1}
  NoData = NoData
  NoContract = NoContract
  NoRoot = NoRoot
  ChanCap = 1
  MaxNext = 2
  MaxFailures = 1
  MaxReads = 0
  MaxRestarts = 0
CHECK_DEADLOCK FALSE
PROPERTIES
  FullGroupIsFormed
  EverySetIsUploaded
