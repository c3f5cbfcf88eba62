SPECIFICATION FilesSpec
CONSTANTS
  Val = {v1, dflt}
  DefaultNoProxy = dflt
  v1 = v1
  Alphabet <- MCAlphabet
  Bodies <- MCBodies
  MaxLines = 5
INVARIANTS FindsCompleteBlocks WritesOneBlock WriteBackUndoes
CHECK_DEADLOCK FALSE
