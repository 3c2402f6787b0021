CONSTANTS
  First = 1
  Limit = 8
  SmallLimit = 3
  BitmapWord = 3
SPECIFICATION Spec
INVARIANTS Partition
PROPERTIES ImplementsHeap
