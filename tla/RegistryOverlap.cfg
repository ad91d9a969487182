\* Two threads, two invariants, four requests, one crash.
SPECIFICATION SpecV
CONSTANTS
  Ids = {a, b}
  Workers = {w1, w2}
  Epochs = {e1}
  NoId = NoId
  MaxRequests = 4
  MaxCrashes = 1
SYMMETRY Symmetry
INVARIANTS
  TypeOK
  RegistrationOrder
  RequestsInStep
  StoredHistoryIsWalk
  ChainIsBacked
  AuditedDecisionMoved
  LogsTrail
  QuietLogsAgree
PROPERTIES
  DecidedStaysDecided
  OrphanStaysOrphaned
  ImplementsVersions
\* The bound on requests ends every behaviour.
CHECK_DEADLOCK FALSE
