CONSTANTS
  c1 = c1
  c2 = c2
  none = none
  Clients <- MCClients
  NoClient <- none
  Method = "SCREENSHOT"
  Mode = "screenshot"
  SkipFrames = FALSE
  SpuriousEINTR = TRUE
  MayLackDisplay = FALSE
  MaxQueued = 3
  MaxScreen = 4
  Backlog = 1
  SockCap = 1
SPECIFICATION FairSpec
PROPERTIES
  ScreenshotEnds
