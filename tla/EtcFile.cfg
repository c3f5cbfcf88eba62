SPECIFICATION EtcSpec
CONSTANTS
  Proc = {g1, g2, admin}
  Restorers = {g2}
  Editors = {admin}
  Text <- EtcText
  None = None
  Absent = Absent
  Torn = Torn
  Host = {h1}
  Other = {line}
  InitialFiles <- MCFiles
  MaxOps = 3
  MaxFaults = 1
  MaxCrashes = 1
INVARIANTS EtcTypeOK NoTempLeft NoLoginInFile
PROPERTIES KeepsContract SetAndClearKeep OnlyRestoreIntervenes
CHECK_DEADLOCK FALSE
