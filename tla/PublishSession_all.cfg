\* One stream and everything that can go wrong.
SPECIFICATION Spec
CONSTANTS
  Streams <- VideoOnly
  MaxSamples = 2
  FaultyStreams <- VideoOnly
  NetMayFail = TRUE
  ForcedStop = TRUE
INVARIANTS IInv
PROPERTIES FailureCloses
