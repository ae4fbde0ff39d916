CONSTANTS
  Uploads <- MCUploads
  Pages <- MCPages
  First = "first"
  Loads <- MCUploadLoads
  MaxInFlight = 2
SPECIFICATION Spec
INVARIANT ActiveFeedsPage
CHECK_DEADLOCK FALSE
