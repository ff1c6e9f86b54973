\* Three sessions of both streams on one channel, some of them empty.
SPECIFICATION Spec
CONSTANTS
  Streams <- BothStreams
  SampleInterval <- Intervals
  ClockStart = 1
  Reorder = 0
  EarlyTicks = FALSE
  UseContinuousTimestamps = TRUE
  Margin = 3
  Tick = 2
  Wrap = 8
  OffsetWrap = 4
  MaxTime = 4
  MaxSessions = 3
INVARIANTS AbovePrevious StampInv
PROPERTIES DecodeTimesIncrease
\* The last session ends and no other one is started.
CHECK_DEADLOCK FALSE
