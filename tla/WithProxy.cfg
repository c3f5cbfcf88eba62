SPECIFICATION MCFairSpec
CONSTANTS
  Call = {c1, c2}
  EnvVars = {}
  UserFiles = {}
  Settings = {"mode", "server"}
  ByTool = {"server"}
  Unreported = {"server"}
  Value = {v1, v2}
  OneGoroutine = TRUE
  MaxFaults = 1
INVARIANTS TypeOK LeavesNoTrace CancelLeavesNoTrace
PROPERTIES KeepsContract Returns
CHECK_DEADLOCK FALSE
