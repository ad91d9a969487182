\* Two threads, one client, three requests, one restart.
SPECIFICATION Spec
CONSTANTS
  Clients = {c1}
  MaxPerWindow = 2
  Window = 1
  Workers = {w1, w2}
  TotalEpsilon = 3
  MinSlice = 2
  Epsilons = {0, 1, 2}
  Sizes = {1, 3}
  Thresholds = {2, 4}
  MaxTime = 2
  MaxRequests = 3
  MaxCrashes = 1
SYMMETRY WorkerSymmetry
INVARIANTS
  TypeOK
  BooksBalance
  ReleasesWithinBudget
  RemainingIsHonest
  HitsAreRecent
PROPERTIES
  ImplementsSlidingLimit
\* The bounds on requests and time end every behaviour.
CHECK_DEADLOCK FALSE
