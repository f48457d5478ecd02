SPECIFICATION Spec
CONSTANTS
  Message = {"one", "two", "reboot", "low"}
  Body <- Bodies
  SINKMTU = 8
  LongestPacket = 6
  MaxMessages = 2
  MaxLost = 1
  BYTE = 256
  Sketch <- SketchConfig
  DefaultInterval = 90
  Nothing = Nothing
  near = near
  far = far
  farther = farther
  Neighbour = {near, far, farther}
  rssi <- Rssi
  MAX_NB = 2
  BROADCASTINTERVALPAST_MAX = 4
  BROADCASTADDR = 255
  Order <- Orders
  Reboot = {"reboot"}
  LowPower = {"low"}
  Setting <- Settings
INVARIANTS TypeOK OneLossOneMessage NeighboursHeard
PROPERTIES RestartLoadsSaved
CHECK_DEADLOCK FALSE
