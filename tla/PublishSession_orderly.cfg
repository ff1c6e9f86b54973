\* Both streams end in order; nothing fails.
SPECIFICATION Spec
CONSTANTS
  Streams <- BothStreams
  MaxSamples = 2
  FaultyStreams <- NoStreams
  NetMayFail = FALSE
  ForcedStop = FALSE
INVARIANTS OrderlyInv NoCrash ReportedIsLastSent MessengerOutlivesWork
PROPERTIES ContractKept StopCompletes UnpublishAtEnd
