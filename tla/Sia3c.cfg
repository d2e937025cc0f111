\* Two clients, two keys, two requests; one periodic save, those of
\* the shutdown, and one restart.
SPECIFICATION PSpec
CONSTANTS
  Keys = {k1, k2}
  Clients = {c1, c2}
  a = a
  b = b
  Payloads <- MCPayloads
  Metas <- MCMetas
  Zero = Zero
  SectorSize = 3
  MaxFiles = 6
  MaxPieces = 2
  MaxRequests = 2
  MaxSaves = 1
  MaxRestarts = 1
SYMMETRY Symmetry
INVARIANTS
  WholeSavesAreReadable
  StoreIsWhole
  RangesAreHonest
  ExitIsDurable
CHECK_DEADLOCK FALSE
