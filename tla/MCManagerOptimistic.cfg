SPECIFICATION ManagerSpec
CONSTANTS
  acc = acc
  mag = mag
  prox = prox
  ori = ori
  unc = unc
  Dep <- MCDep
  MinDelay <- MCMinDelay
  NsPerUs = 2
  NsPerMs = 4
  Hw = {prox}
  Virtual = {}
  Optimistic = {prox}
  Flaky = {prox}
  Periods = {8}
  Faults = {"open"}
INVARIANT RegisteredMeansOn
