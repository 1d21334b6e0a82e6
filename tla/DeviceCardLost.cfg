SPECIFICATION FairSpec
CONSTANTS
  Modes <- OneMode
  Formats = {"RGB565", "XRGB8888"}
  Accepted = {"RGB565"}
  Offered <- OneOffered
  MaxWidth = 1
  ListRoom = 2
  Rects <- OneRect
  Delay = 2
  Pipeline = 0
PROPERTY CardReturns
