SPECIFICATION Spec
CONSTANTS
  A = A
  B = B
  C = C
  Lib = {A, B, C}
  Default = A
  Number <- MCNumber
  Configs <- MCConfigs
  NoFile = NoFile
  Misread = Misread
  States = {"absent", "no symbol", "no init", "no list", "good"}
  Sensor <- MCSensor
  Attributes <- MCAttributes
  TypeName <- MCTypeName
  NoAlgo = NoAlgo
  Unset = Unset
PROPERTY BestMatch
INVARIANTS
  TypeOK
  GoodListed
  ReadsOnlyOpen
  AllClosed
CHECK_DEADLOCK FALSE
