SPECIFICATION Spec
CONSTANTS
  Rects <- SessionRects
  MaxPacket = 2
  BulkBuf = 4
  RectQ = 1
  NSlot = 2
  Wrap = 4
  MaxFrames = 3
  MaxSessions = 2
  MaxPresses = 0
  MayDetach = TRUE
  GiveUps = {"silent", "zlp"}
  MayStop = FALSE
INVARIANTS SlotExclusive InOrder HeadersGoWithHost
