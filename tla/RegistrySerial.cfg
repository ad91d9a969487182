\* One thread that runs every request to its end, four requests, two crashes.
SPECIFICATION FairSpecV
CONSTANTS
  Ids = {a, b}
  Workers = {w1}
  Epochs = {e1}
  NoId = NoId
  MaxRequests = 4
  MaxCrashes = 2
PROPERTIES
  ImplementsSerial
  RegistrationReachesQueue
\* The bound on requests ends every behaviour.
CHECK_DEADLOCK FALSE
