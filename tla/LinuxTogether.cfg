SPECIFICATION Spec
CONSTANTS
  None = None
  HttpProxy = {h1}
  SocksProxy = {s1}
  WithUser = {h1}
  Pac = {p1}
  Bypass = {b1}
  h1 = h1
  s1 = s1
  b1 = b1
  Configs <- MCConfigs
  Systems <- Together
  MaxOps = 2
  MaxFaults = 1
INVARIANTS TypeOK SuccessMeansDone RestoreIsExact
CHECK_DEADLOCK FALSE
