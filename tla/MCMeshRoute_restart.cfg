SPECIFICATION Spec
CONSTANTS
  Node = {0, 1}
  Link <- Line2
  Computer <- RestartTasks
  Uploads <- NoUploads
  RFQUENEMAX = 3
  RETRYSEND_MAX = 1
  MAX_ROUTER = 15
  FirstSeq = 100
  PowerMode = TRUE
  Lossy = TRUE
  MaxReset = 2
INVARIANTS RouteDownIsDurable
CHECK_DEADLOCK FALSE
