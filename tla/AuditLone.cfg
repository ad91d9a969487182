\* One flusher that ends the flushes it starts, one crash anywhere.
SPECIFICATION FairSpec
CONSTANTS
  Flushers = {f1}
  Signed = FALSE
  Worm = TRUE
  Idempotent = TRUE
  MaxRetries = 2
  SingleWriter = TRUE
  MaxEvents = 3
  MaxFlushes = 4
  MaxCrashes = 1
INVARIANTS
  OncePerEvent
  ChainIntact
PROPERTIES
  FlushExports
\* The bounds on events and flushes end every behaviour.
CHECK_DEADLOCK FALSE
