CONSTANTS
  Scripts <- MCWrong
  Inners <- MCInners
  Handlers <- MCHandlers
  MaxSessions = 2
  Termin = Termin
  Costly = {}
  Strangers = TRUE
SPECIFICATION HarnessSpec
INVARIANTS CutsIndependent
CHECK_DEADLOCK FALSE
