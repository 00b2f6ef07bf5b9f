CONSTANTS
  Real <- MCReal
  Desired <- MCDesired
  MaxQueued = 2
  MaxScreen = 4
  MaxApply = 2
SPECIFICATION Spec
CHECK_DEADLOCK FALSE
INVARIANTS
  TypeOK
  RendersOnlyWhenReady
  NewFramesSatisfy
  ShownInProportion
  FramesEncodable
  LockedBufferHasConsumer
  TransactionClosed
  FreedReleasesAll
  EveryFrameAnnounced
PROPERTIES
  ImplementsContract
