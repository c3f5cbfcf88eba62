SPECIFICATION MCSpec
CONSTANTS
  Call = {c1}
  EnvVars = {"http_proxy"}
  UserFiles = {}
  Settings = {"mode"}
  ByTool = {"mode"}
  Unreported = {"mode"}
  Value = {v1, v2}
  OneGoroutine = TRUE
  MaxFaults = 1
INVARIANT NilMeansRestored
CHECK_DEADLOCK FALSE
