SPECIFICATION Spec
CONSTANTS
  NumSensors = 1
  Calibrates = {1}
  Caching = {1}
  Flaky = {}
  Axis = {0, 1}
  AllAxes = 3
  Value = {0, 1}
  Limit = 1
  NoEntry = none
  Faults = {"crash"}
PROPERTY OtherAxesKept
