CONSTANTS
  A = A
  B = B
  Words = {A, B}
  Bodies <- MCBodies
  Name <- MCName
  Formals <- MCFormals
  Children <- MCChildren
  Experimental = TRUE
  MaxDepth = 3
  MaxHandle = 3
  MaxCell = 4
  MaxStack = 0
SPECIFICATION PartsSpec
INVARIANTS RestoresCaller ViewAgrees LexicalView CellsKept
