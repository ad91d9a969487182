\* A batch whose posts all fail moves the watermark.
SPECIFICATION Spec
CONSTANTS
  Flushers = {f1}
  Signed = FALSE
  Worm = FALSE
  Idempotent = FALSE
  MaxRetries = 1
  SingleWriter = TRUE
  MaxEvents = 1
  MaxFlushes = 1
  MaxCrashes = 0
INVARIANTS
  WatermarkCoversWebhook
\* The bounds on events and flushes end every behaviour.
CHECK_DEADLOCK FALSE
