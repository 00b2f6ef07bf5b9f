CONSTANTS
  c1 = c1
  none = none
  Clients <- MCClients
  NoClient <- none
  Method = "VIRTUAL_DISPLAY"
  Mode = "serve"
  SkipFrames = TRUE
  SpuriousEINTR = FALSE
  MayLackDisplay = TRUE
  MaxQueued = 3
  MaxScreen = 4
  Backlog = 1
  SockCap = 1
  mTimeout = 2
  Periods = {0, 1, 3}
SPECIFICATION PacedSpec
INVARIANTS
  SendsNewest
  StopDelayed
PROPERTIES
  Paced
  ImplementsUntimed
