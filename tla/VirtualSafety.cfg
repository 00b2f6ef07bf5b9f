CONSTANTS
  c1 = c1
  c2 = c2
  none = none
  Clients <- MCClients
  NoClient <- none
  Method = "VIRTUAL_DISPLAY"
  Mode = "serve"
  SkipFrames = TRUE
  SpuriousEINTR = TRUE
  MayLackDisplay = TRUE
  MaxQueued = 3
  MaxScreen = 5
  Backlog = 1
  SockCap = 1
SPECIFICATION Spec
INVARIANTS
  TypeOK
  QueueAccounted
  ConsumptionFindsFrame
  StreamOrdered
  NoDescriptorLeak
  ServerTearsDown
PROPERTIES
  KeepsContract
  FramesAreNews
