\* Groups of two, four writes, one failure, a dump with a full group pending and
\* a set to resume; channels of one place.
SPECIFICATION Spec
CONSTANTS
  Ndata = 2
  ChanCap = 1
  MaxWrites = 4
  MaxFailures = 1
  LoadedPending = {2}
  LoadedSets = {1}
INVARIANTS
  ShutdownUploadsAll
PROPERTIES
  ShutdownEnds
  SendersUnblocked
CHECK_DEADLOCK FALSE
