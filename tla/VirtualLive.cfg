CONSTANTS
  c1 = c1
  c2 = c2
  none = none
  Clients <- MCClients
  NoClient <- none
  Method = "VIRTUAL_DISPLAY"
  Mode = "serve"
  SkipFrames = TRUE
  SpuriousEINTR = FALSE
  MayLackDisplay = TRUE
  MaxQueued = 3
  MaxScreen = 4
  Backlog = 1
  SockCap = 1
SPECIFICATION FairSpec
PROPERTIES
  NoFrameAfterStop
  QueuedFrameReachesClient
  StopHonoured
