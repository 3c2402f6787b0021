CONSTANTS
  First = 1
  Limit = 17
  SmallLimit = 3
  BitmapWord = 4
  Names = {"X"}
  Literals = {"L"}
  Sources <- MCSources
  Experimental = TRUE
  Constructors = {"pair","reference"}
  NameWords = 1
  LiteralWords = 1
  NodeWords = 1
  DescriptorWords = 1
  MaxHandle = 4
  MaxProgram = 5
  MaxStack = 2
  MaxDepth = 2
SPECIFICATION ArenasSpec
INVARIANTS ExtentsOwned HandlesKept
PROPERTIES ExhaustionHonest
CHECK_DEADLOCK FALSE
