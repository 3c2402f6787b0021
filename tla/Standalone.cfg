\* Lists, macros, the printer, code, numbers, components and functions of the standalone interpreter.
CONSTANTS
  Nil = Nil
  None = None
  Phys = Phys
  Termin = Termin
  Giver = Giver
  Atom = Atom
  RefX = RefX
  RefY = RefY
  NumX = NumX
  NumY = NumY
  Programs <- MCPrograms
SPECIFICATION PartsSpec
INVARIANTS RetriesKept TokensDelivered CodeRunsAsMeant NumbersRight UpdatersKept
PROPERTIES ListsGrowOnly DataKept PrintsTheValue
