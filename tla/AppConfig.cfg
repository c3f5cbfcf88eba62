SPECIFICATION Spec
CONSTANTS
  Proc = {g1, g2}
  Url = {a, b}
  None = None
  Error = Error
  Name <- MCName
  Longer <- MCLonger
  Initial <- MCInitial
  MaxLines = 3
  MaxOps = 3
  MaxFaults = 1
INVARIANTS TypeOK CallsTakeEffect
PROPERTY OthersKept
CHECK_DEADLOCK FALSE
