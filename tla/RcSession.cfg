SPECIFICATION Spec
CONSTANTS
  Val = {p1, p2, d}
  DefaultNoProxy = d
  p1 = p1
  p2 = p2
  d = d
  Proc = {g1}
  Restorers = {g1}
  RcPaths <- MCPaths
  OldZshrc = {"home"}
  Zshrc = ".zshrc"
  Shells = {"zsh", "other"}
  DefaultRC = ".profile"
  SudoHome = TRUE
  Missing = Missing
  Homes <- MCHomes
  Proxies = {p1}
  Pacs = {p1}
  Configs <- MCConfigs
  UserLine <- MCUserLine
  MaxOps = 2
  MaxTrouble = 1
INVARIANTS TypeOK UnsetLeavesNothing SetReaches RestoreIsExact
PROPERTIES UserLinesKept NoShadowing
CHECK_DEADLOCK FALSE
