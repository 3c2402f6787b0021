CONSTANTS
  Capacity = 15
  MaxArguments = 3
  Limit = 0
  Shapes <- MCShapes
  Names <- MCNames
  Buckets = {"even", "odd"}
  Bucket <- MCBucket
  Handles <- MCHandles
  Resident <- MCResident
  MaxSaves = 1
SPECIFICATION PartsSpec
INVARIANTS LedgerBalanced
PROPERTIES OvershootUnread NamesReachable TextsDelivered
CHECK_DEADLOCK FALSE
