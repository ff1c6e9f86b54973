\* Three profiles; the first child, its connection and its writer may fail.
SPECIFICATION Spec
CONSTANTS
  N = 3
  Streams <- VideoOnly
  FaultyChildren <- FirstChild
  FaultyWriters <- FirstChild
  Hasty = FALSE
INVARIANTS IInv ReleasedAfterLastUse ClosedAfterChildren ClosedOnce RunningIsPublished
PROPERTIES StopCompletes FailureCloses FinalizedChildrenEnd
