SPECIFICATION Spec
CONSTANTS
  RFQUENEMAX = 3
  RETRYSEND_MAX = 1
  WAKE_POLLS = 0
  Preambles = 1
  MaxPackets = 3
  MaxFrames = 4
  IsSink = FALSE
  TimerSends = FALSE
  Nothing = Nothing
INVARIANTS TypeOK Listening
PROPERTIES FramesServedInOrder PacketsDrainInOrder RemovedWasOnAir WaitsForBroadcast FailuresOfTheFront
