SPECIFICATION Spec
CONSTANTS
  Node = {0, 1, 2}
  Link <- Triangle
  Computer <- TwoFloods
  Uploads <- NoUploads
  RFQUENEMAX = 3
  RETRYSEND_MAX = 1
  MAX_ROUTER = 15
  FirstSeq = 255
  PowerMode = TRUE
  Lossy = TRUE
  MaxReset = 0
INVARIANTS BroadcastOnce
CHECK_DEADLOCK FALSE
