\* PublishFailed is raised twice.
SPECIFICATION Spec
CONSTANTS
  Streams <- BothStreams
  MaxSamples = 1
  FaultyStreams <- BothStreams
  NetMayFail = FALSE
  ForcedStop = FALSE
INVARIANTS RaiseOnlyOnce
