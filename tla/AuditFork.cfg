\* Two overlapping flushes append to one WORM file.
SPECIFICATION Spec
CONSTANTS
  Flushers = {f1, f2}
  Signed = FALSE
  Worm = TRUE
  Idempotent = TRUE
  MaxRetries = 1
  SingleWriter = TRUE
  MaxEvents = 2
  MaxFlushes = 2
  MaxCrashes = 0
INVARIANTS
  ChainIntact
\* The bounds on events and flushes end every behaviour.
CHECK_DEADLOCK FALSE
