CONSTANTS
  Kinds = {"live"}
  Input <- MCShortInput
  Capacity = 1
  Limits <- MCNoLimit
  MayFail = FALSE
SPECIFICATION FairSpec
PROPERTIES QuitExits
CHECK_DEADLOCK FALSE
