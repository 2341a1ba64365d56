SPECIFICATION FrameSpec
CONSTANTS
  Event <- InputEvent
  N = 2
  KernelCap = 4
  NoEvent = none
  AxesOf <- MCAxesOf
  Value <- MCValue
  Second = 1
  IgnoreTime = 1
  LastTime = 1
  Room = 1
INVARIANTS
  FramesOK
PROPERTY
  FifoSpec
  FeedSpec
