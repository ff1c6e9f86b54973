\* A reordering encoder, early ticks and time stamps that wrap around.
SPECIFICATION Spec
CONSTANTS
  Streams <- VideoOnly
  SampleInterval <- Intervals
  ClockStart = 2
  Reorder = 2
  EarlyTicks = TRUE
  UseContinuousTimestamps = TRUE
  Margin = 3
  Tick = 2
  Wrap = 8
  OffsetWrap = 4
  MaxTime = 6
  MaxSessions = 2
INVARIANTS TypeOK DecodedBeforeShown PlayTimeKept
\* The last session ends and no other one is started.
CHECK_DEADLOCK FALSE
