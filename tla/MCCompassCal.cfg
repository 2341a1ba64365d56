SPECIFICATION CalSpec
CONSTANTS
  HBufSize = 20
  HOBufSize = 4
  HNave = 8
  MaxSamples = 40
INVARIANTS
  BuffersOK
  NoInitialUsed
  HighIsCalibrated
CHECK_DEADLOCK FALSE
