\* The numbers of words, the processor, and the storage, the words, the reader, the lists, the strips and records, and the functions of the original image.
CONSTANTS
  Size = 32
  Generated = 16
  Transfer_ = 5
  Memories <- MCMemories
  Lines <- MCLines
  Frozen <- MCFrozen
  MaxRecords = 4
  MaxAssigned = 1
SPECIFICATION PartsSpec
INVARIANTS ArithmeticRight WholesDoAsParts EachFoundOnce ImageReads UpdatersStand
PROPERTIES ImageActsAsNative CallersRestored DataRight
