SPECIFICATION Spec
CONSTANTS
  CYCLES = 4
  INT_BITS = 2
PROPERTY GatesOutputCorrect
