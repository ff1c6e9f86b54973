\* Two connections, with two control messages on each.
SPECIFICATION Spec
CONSTANTS
  MantissaBits = 4
  ExponentBits = 5
  FractionBits = 7
  DefaultChunkSize = 10
  ServerChunkSizes <- SomeSizes
  StreamIDs <- SomeStreams
  ReplyIDs <- SomeReplyIDs
  LaterTypes <- TypeOne
  LimitTypes <- HardAndSoft
  MayRefuse <- SomeRefused
  MaxControls = 2
  MaxAttempts = 2
INVARIANTS TypeOK ServerChunkSizeFollowed ReadAsWritten StreamIDGiven
\* The handshake ends.
CHECK_DEADLOCK FALSE
