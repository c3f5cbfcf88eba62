SPECIFICATION Spec
CONSTANTS
  Proc = {g1}
  Url = {a}
  None = None
  Error = Error
  Name <- MCName
  Longer <- MCLonger
  Initial <- PipOnly
  MaxLines = 3
  MaxOps = 1
  MaxFaults = 0
PROPERTY OtherOptionsKept
CHECK_DEADLOCK FALSE
