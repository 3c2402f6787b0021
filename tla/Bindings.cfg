CONSTANTS
  Names = {"HD"}
  Resident = {"HD"}
  Signatures <- MCSignatures
  MaxIdent = 2
  MaxCell = 5
  MaxFn = 2
  MaxFrames = 3
  MaxStack = 2
  MaxFaults = 1
SPECIFICATION ScenariosSpec
INVARIANT NoHandleDangles
PROPERTIES BindingsRestored ProtectedByAssignment
CHECK_DEADLOCK FALSE
