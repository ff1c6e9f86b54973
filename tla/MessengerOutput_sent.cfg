\* Two connections and two packets, across the boundaries of chunk stream ids.
SPECIFICATION Spec
CONSTANTS
  MantissaBits = 4
  ExponentBits = 5
  FractionBits = 7
  DefaultChunkSize = 8
  ClientChunkSizes <- SomeSizes
  FirstChunkStreamIDs <- SomeIDs
  FrameRates <- SomeRates
  Stamps <- SomeStamps
  Samples <- SomeSamples
  CompositionOffset = 2
  Codecs <- BothCodecs
  MaxAttempts = 2
  MaxPackets = 2
INVARIANTS TypeOK ReceivedAsSent IdsInv CommandsReadBack SamplesReadBack ConfiguredFirst
\* The session ends.
CHECK_DEADLOCK FALSE
