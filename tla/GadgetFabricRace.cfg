SPECIFICATION Spec
CONSTANTS
  Rects <- OneRect
  MaxPacket = 2
  BulkBuf = 4
  RectQ = 1
  NSlot = 2
  Wrap = 4
  MaxFrames = 2
  MaxSessions = 1
  MaxPresses = 1
  MayDetach = TRUE
  GiveUps = {}
  MayStop = FALSE
INVARIANT FabricSerialised
