CONSTANTS
  Words <- MCWords
  Alphabet <- MeaningAlphabet
  Sources <- MeaningSources
  MaxOperations = 40
  MaxPending = 4
  MaxFunctions = 0
SPECIFICATION PartsSpec
INVARIANTS ConditionalsWellFormed DefinitionsSound MeaningIsKept
CHECK_DEADLOCK FALSE
