SPECIFICATION PackageSpec
CONSTANTS
  MAX_HEAP = 15
  ALIGNMENT = 2
  SIZE_T_SIZE = 2
  BLK_HDR_SIZE = 2
  INT_MAX = 15
  Sizes = {1, 4, 15}
  Byte = {0, 1}
INVARIANTS
  IInv
  PayloadsSafe
  WalksComplete
  NaiveInv
PROPERTIES
  GrowOnlyWhenNothingFits
  CallsReturn
  ImplementsHeap
  NaiveRefinesHeap
