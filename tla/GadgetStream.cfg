SPECIFICATION LiveSpec
CONSTANTS
  Rects <- StreamRects
  MaxPacket = 2
  BulkBuf = 4
  RectQ = 2
  NSlot = 2
  Wrap = 4
  MaxFrames = 4
  MaxSessions = 1
  MaxPresses = 0
  MayDetach = FALSE
  GiveUps = {}
  MayStop = FALSE
INVARIANT Aligned
PROPERTY FifoSpec
