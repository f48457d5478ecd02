SPECIFICATION Spec
CONSTANTS
  Node = {0, 1, 2}
  Link <- Line3
  Computer <- CommandsAndAnswer
  Uploads <- SomeUploads
  RFQUENEMAX = 3
  RETRYSEND_MAX = 1
  MAX_ROUTER = 15
  FirstSeq = 100
  PowerMode = TRUE
  Lossy = TRUE
  MaxReset = 0
INVARIANTS TypeOK HandledOnce HighPowerLightsPath AckedUploadArrived
CHECK_DEADLOCK FALSE
