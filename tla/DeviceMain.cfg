SPECIFICATION FairSpec
CONSTANTS
  Modes <- MCModes
  Formats = {"RGB565", "XRGB8888"}
  Accepted = {"RGB565"}
  Offered <- MCOffered
  MaxWidth = 1
  ListRoom = 2
  Rects <- MCRects
  Delay = 3
  Pipeline = 1
INVARIANTS NoCardOverHost OverlayTells
PROPERTIES NoFlash CommitsWhatWasChecked CardWhenArmed
