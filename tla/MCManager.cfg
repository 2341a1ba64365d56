SPECIFICATION ManagerSpec
CONSTANTS
  acc = acc
  mag = mag
  prox = prox
  ori = ori
  unc = unc
  Dep <- MCDep
  MinDelay <- MCMinDelayMixed
  NsPerUs = 2
  NsPerMs = 4
  Hw = {acc, mag}
  Virtual = {ori, unc}
  Optimistic = {mag}
  Flaky = {acc}
  Periods = {4, 8}
  Faults = {"open", "delay"}
INVARIANTS
  TypeOK
  OnlyEnabledListen
  ListenersPowered
  DelayApplied
PROPERTIES
  RateKept
  CommandsCarried
  PowerSpec
