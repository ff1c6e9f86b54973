\* A session with one stream: its samples may be faulty and its connection may break.
SPECIFICATION Spec
CONSTANTS
  Streams <- VideoOnly
  MaxSamples = 2
  FaultyStreams <- VideoOnly
  NetMayFail = TRUE
  ForcedStop = FALSE
INVARIANTS OneStreamInv
PROPERTIES ContractKept
