CONSTANTS
  c1 = c1
  c2 = c2
  none = none
  Clients <- MCClients
  NoClient <- none
  Method = "SCREENSHOT"
  Mode = "serve"
  SkipFrames = TRUE
  SpuriousEINTR = FALSE
  MayLackDisplay = FALSE
  MaxQueued = 3
  MaxScreen = 3
  Backlog = 1
  SockCap = 1
SPECIFICATION ReadingSpec
INVARIANTS
  OneScreenshotInCirculation
PROPERTIES
  FirstFrameFollowsBanner
