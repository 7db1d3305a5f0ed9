SPECIFICATION Spec
CONSTANTS
  MAX_HEAP = 4
  ALIGNMENT = 2
  Ids = {128}
  Sizes = {1, 3}
  MaxOps = 2
  NumTraces = 1
  REPEAT = 1
  Packages = {TRUE}
INVARIANTS
  MovedDataIsRecognised
