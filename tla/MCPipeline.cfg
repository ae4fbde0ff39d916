CONSTANTS
  Kinds = {"file", "live"}
  Input <- MCInput
  Capacity = 2
  Limits <- MCLimits
  MayFail = TRUE
SPECIFICATION FairSpec
INVARIANTS FifoNoLoss ViewNotOlder FrameHonest
PROPERTIES ImplementsFeed StopEnds ViewCatchesUp
CHECK_DEADLOCK FALSE
