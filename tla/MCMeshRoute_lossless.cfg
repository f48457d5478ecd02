SPECIFICATION FairSpec
CONSTANTS
  Node = {0, 1, 2}
  Link <- Line3
  Computer <- FloodAndOrders
  Uploads <- NoUploads
  RFQUENEMAX = 6
  RETRYSEND_MAX = 1
  MAX_ROUTER = 15
  FirstSeq = 255
  PowerMode = TRUE
  Lossy = FALSE
  MaxReset = 0
INVARIANTS BroadcastOnce RecordedPathIsRoute
PROPERTIES FloodReachesAll CommandsAnswered Settles
CHECK_DEADLOCK FALSE
