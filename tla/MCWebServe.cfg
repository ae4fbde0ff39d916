CONSTANTS
  Uploads <- MCUploads
  Pages <- MCPages
  First = "first"
  Loads <- MCLoads
  MaxInFlight = 2
SPECIFICATION FairSpec
INVARIANTS OthersStopped TempFilesBounded IndexNotOlder
PROPERTIES PageCatchesUp
CHECK_DEADLOCK FALSE
