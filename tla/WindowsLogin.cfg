SPECIFICATION Spec
CONSTANTS
  None = None
  Host = {a, b}
  Pac = {p1, p2}
  Bypass = {d1, d2}
  Default = d1
  Proxies <- MCProxies
  Configs <- MCConfigs
  InitialRegistry <- MCRegistry
  InitialLogins <- MCLogins
  a = a
  b = b
  p1 = p1
  p2 = p2
  d1 = d1
  d2 = d2
  MaxOps = 1
  MaxFaults = 1
INVARIANT TemporaryLoginsAlwaysGo
CHECK_DEADLOCK FALSE
