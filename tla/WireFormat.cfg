CONSTANTS
  Base = 25
  mPrePadding = 4
  mPostPadding = 0
  BufSize = 27
  JpegHeader <- MCJpegHeader
  Sizes = {3, 27}
  SockBytes = 14
  Pid = 900
  RealWidth = 1080
  RealHeight = 64
  VirtualWidth = 33
  VirtualHeight = 2
  Orientation = 3
  Quirks = 2
  MaxFrames = 2
  MaxConnections = 2
SPECIFICATION FairSpec
CHECK_DEADLOCK FALSE
INVARIANTS
  BannerUnderstood
  NeverRefused
  WithinBuffer
  ScreenshotIsJpeg
PROPERTIES
  ImplementsChannel
  FrameDelivered
