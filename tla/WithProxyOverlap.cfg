SPECIFICATION MCSpec
CONSTANTS
  Call = {c1, c2}
  EnvVars = {"http_proxy"}
  UserFiles = {}
  Settings = {"mode"}
  ByTool = {"mode"}
  Unreported = {}
  Value = {v1, v2}
  OneGoroutine = FALSE
  MaxFaults = 0
INVARIANT OverlapLeavesNoTrace
CHECK_DEADLOCK FALSE
