\* Two overlapping flushes of unsigned events and several writers to the
\* database, a ledger, one crash.
SPECIFICATION Spec
CONSTANTS
  Flushers = {f1, f2}
  Signed = FALSE
  Worm = FALSE
  Idempotent = TRUE
  MaxRetries = 1
  SingleWriter = FALSE
  MaxEvents = 3
  MaxFlushes = 4
  MaxCrashes = 1
SYMMETRY FlusherSymmetry
INVARIANTS
  TypeOK
  WatermarkCoversFile
  LedgerCoversFile
\* The bounds on events and flushes end every behaviour.
CHECK_DEADLOCK FALSE
