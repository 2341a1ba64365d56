SPECIFICATION Spec
CONSTANTS
  NumHw = 2
  Number = 3
  Dep <- MCDep
  Initial = {2}
  Fetch = {1}
  Room = 2
  Frames = 2
  MaxEvents = 4
  KernelCap = 2
  PipeCap = 1
  Commands <- MCCommands
  MayReopen = TRUE
  MayFail = TRUE
INVARIANTS
  TypeOK
  ReadyMeansReadable
  DrainedBeforePoll
  NoStaleEvents
  NothingDropped
