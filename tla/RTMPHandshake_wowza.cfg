\* The Wowza chain, replies in batches and read in pieces, any refusal.
SPECIFICATION Spec
CONSTANTS
  ServerType = "Wowza"
  Partial = TRUE
  Batching = TRUE
  MayRefuse <- AnyRefusal
  MayClose = TRUE
  LongReplies = TRUE
  Controls = 1
  HardLimits = TRUE
  MaxAttempts = 2
PROPERTIES HandshakeEnds
\* The handshake ends, so the system may stop.
CHECK_DEADLOCK FALSE
