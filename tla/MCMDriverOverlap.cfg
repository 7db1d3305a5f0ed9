SPECIFICATION Spec
CONSTANTS
  MAX_HEAP = 4
  ALIGNMENT = 2
  Ids = {0, 1}
  Sizes = {1, 3, 4}
  MaxOps = 3
  NumTraces = 1
  REPEAT = 2
  Packages = {FALSE}
INVARIANTS
  PayloadsDoNotOverlap
