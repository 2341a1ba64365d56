SPECIFICATION Spec
CONSTANTS
  EventDirs <- MCEventDirs
  SensorDirs <- MCSensorDirs
  Supported <- MCSupported
  Driven <- MCDriven
  TypeName <- MCTypeName
  Name <- MCName
  MaxSensors = 9
  AlgoSets <- MCAlgoSets
  None = None
INVARIANTS
  TypeOK
  ContextsFit
  HandlesAgree
  BackgroundComplete
  PathsApart
CHECK_DEADLOCK FALSE
