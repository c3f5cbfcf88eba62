SPECIFICATION Spec
CONSTANTS
  None = None
  Order <- MCOrder
  Server = {a, b}
  Pac = {p1, p2}
  Bypass = {d1, d2}
  Proxies <- MCProxies
  Configs <- MCConfigs
  InitialStates <- MCInitialStates
  InitialDisabled <- MCDisabled
  a = a
  b = b
  p1 = p1
  p2 = p2
  d1 = d1
  d2 = d2
  MaxOps = 2
  MaxFaults = 1
  MaxToggles = 1
INVARIANT PlainGetIsForManual
CHECK_DEADLOCK FALSE
