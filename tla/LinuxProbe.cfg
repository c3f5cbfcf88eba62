SPECIFICATION Spec
CONSTANTS
  None = None
  HttpProxy = {h1}
  SocksProxy = {s1}
  WithUser = {h1}
  Pac = {p1}
  Bypass = {b1}
  h1 = h1
  s1 = s1
  b1 = b1
  Configs <- MCConfigs
  Systems <- Unreliable
  MaxOps = 1
  MaxFaults = 0
INVARIANT SuccessMeansDone
CHECK_DEADLOCK FALSE
