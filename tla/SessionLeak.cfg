CONSTANTS
  Scripts <- MCEven
  Inners <- MCInners
  Handlers <- MCHandlers
  MaxSessions = 2
  Termin = Termin
  Costly <- MCCostly
  Strangers = TRUE
SPECIFICATION HarnessSpec
INVARIANTS GuardHasEnd
CHECK_DEADLOCK FALSE
