\* The history table gets the new state in both columns.
SPECIFICATION SpecV
CONSTANTS
  Ids = {a}
  Workers = {w1}
  Epochs = {e1}
  NoId = NoId
  MaxRequests = 2
  MaxCrashes = 0
INVARIANTS
  HistoryRowsAreMoves
\* The bound on requests ends every behaviour.
CHECK_DEADLOCK FALSE
