SPECIFICATION Spec
CONSTANTS
  MAX_HEAP = 4
  ALIGNMENT = 2
  Ids = {0, 128}
  Sizes = {1, 3, 4}
  MaxOps = 3
  NumTraces = 2
  REPEAT = 2
  Packages = {TRUE, FALSE}
INVARIANTS
  RangesMatchBlocks
  NoFalseAlarm
  UtilizationAtMostOne
  SharedOnlyIfContained
