SPECIFICATION StreamSpec
CONSTANTS
  NumHw = 2
  Number = 3
  Dep <- MCDep
  Initial = {}
  Fetch = {1}
  Room = 1
  Frames = 1
  MaxEvents = 2
  KernelCap = 1
  PipeCap = 1
  Commands <- MCSwitching
  MayReopen = FALSE
  MayFail = FALSE
PROPERTIES
  CommandsHandled
  NoSensorStarves
