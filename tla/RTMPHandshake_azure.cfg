\* A server that refuses, closes and answers in batches; two attempts.
SPECIFICATION Spec
CONSTANTS
  ServerType = "Azure"
  Partial = FALSE
  Batching = TRUE
  MayRefuse <- AnyRefusal
  MayClose = TRUE
  LongReplies = FALSE
  Controls = 1
  HardLimits = TRUE
  MaxAttempts = 2
INVARIANTS IInv StreamIdAssigned RefusalFails HealthySucceeds
\* The handshake ends, so the system may stop.
CHECK_DEADLOCK FALSE
