\* Two threads, two invariants, four requests, one restart.
SPECIFICATION Spec
CONSTANTS
  Ids = {a, b}
  Workers = {w1, w2}
  Epochs = {e1}
  NoId = NoId
  MaxRequests = 4
  MaxRestarts = 1
SYMMETRY Symmetry
INVARIANTS
  QuietMapsAreLogged
  MissedIsHidden
\* The bound on requests ends every behaviour.
CHECK_DEADLOCK FALSE
