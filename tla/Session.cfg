CONSTANTS
  Scripts <- MCScripts
  Inners <- MCInners
  Handlers <- MCHandlers
  MaxSessions = 2
  Termin = Termin
  Costly <- MCCostly
  Strangers = TRUE
SPECIFICATION FairHarness
INVARIANTS NestingMatches NoReplay SourcesSurvive CutsIndependent
PROPERTIES SessionEnds
CHECK_DEADLOCK FALSE
