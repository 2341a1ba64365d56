SPECIFICATION Spec
CONSTANTS
  N = 3
  MaxSamples = 9
  NoResult = none
INVARIANTS
  TypeOK
  FusesNewest
PROPERTIES
  QueueSpec
CHECK_DEADLOCK FALSE
