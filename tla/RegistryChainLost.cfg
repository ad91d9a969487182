\* A stale copy overwrites a row that was superseded since.
SPECIFICATION SpecV
CONSTANTS
  Ids = {a}
  Workers = {w1, w2}
  Epochs = {e1}
  NoId = NoId
  MaxRequests = 4
  MaxCrashes = 0
PROPERTIES
  ChainAppendOnly
\* The bound on requests ends every behaviour.
CHECK_DEADLOCK FALSE
