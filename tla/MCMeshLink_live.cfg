SPECIFICATION FairSpec
CONSTANTS
  RFQUENEMAX = 3
  RETRYSEND_MAX = 1
  WAKE_POLLS = 1
  Preambles = 1
  MaxPackets = 3
  MaxFrames = 1
  IsSink = FALSE
  TimerSends = TRUE
  Nothing = Nothing
PROPERTIES SentSlotStays EveryPacketLeaves EveryFrameHandled
