SPECIFICATION FairSpec
CONSTANTS
  Rects <- OversizeRects
  MaxPacket = 2
  BulkBuf = 4
  RectQ = 1
  NSlot = 1
  Wrap = 4
  MaxFrames = 2
  MaxSessions = 1
  MaxPresses = 2
  MayDetach = TRUE
  GiveUps = {"silent"}
  MayStop = TRUE
INVARIANT NoLostWakeup
PROPERTIES StopsUnlessReading ControlAnswered PoolDrains
CHECK_DEADLOCK FALSE
