SPECIFICATION Spec
CONSTANTS
  NumSensors = 3
  Calibrates = {1, 3}
  Caching = {3}
  Flaky = {3}
  Axis = {0, 1}
  AllAxes = 3
  Value = {0, 1}
  Limit = 1
  NoEntry = none
  Faults = {"save", "crash"}
INVARIANTS
  TypeOK
  CopyFresh
  RestoredExactly
PROPERTIES
  StoreSpec
