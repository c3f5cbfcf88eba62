SPECIFICATION Spec
CONSTANTS
  Val = {p1, p2, d}
  DefaultNoProxy = d
  p1 = p1
  p2 = p2
  d = d
  Proc = {g1, g2}
  Restorers = {}
  RcPaths <- MCPaths
  OldZshrc = {}
  Zshrc = ".zshrc"
  Shells = {"other"}
  DefaultRC = ".profile"
  SudoHome = FALSE
  Missing = Missing
  Homes <- FewHomes
  Proxies = {p1}
  Pacs = {p1}
  Configs <- MCConfigs
  UserLine <- MCUserLine
  MaxOps = 2
  MaxTrouble = 1
INVARIANTS MultisMerge LockProtects
CHECK_DEADLOCK FALSE
