\* Two handlers, one key, blocks of two bytes, values of none, one and two bytes,
\* so that values enter the open block while a GET holds a slice of it; files
\* written in place, a failed call of the backend and a signal.  Four operations
\* wrap the two names of indexes around after the sync of the shutdown.
SPECIFICATION HttpSpec
CHECK_DEADLOCK FALSE
CONSTANTS
  Keys = {k1}
  v0 = v0
  v1 = v1
  v2 = v2
  Values = {v0, v1, v2}
  Metas = {m1}
  NoEntry = NoEntry
  Size <- MCSize
  MaxBlock = 2
  MaxDbName = 1
  MaxOps = 4
  MaxErrors = 1
  MaxCrashes = 1
  Requests = {r1, r2}
  MaxSignals = 1
  MaxReadErrors = 1
  MaxRequests = 1
SYMMETRY MCSymmetry
VIEW MCView
INVARIANTS
  HeldIsStored
  ExitSavesPuts
PROPERTIES
  TornOnlyAtWrap
