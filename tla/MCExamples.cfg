SPECIFICATION Spec
CONSTANTS
  SHM_SIZE = 3
  N = 4
  K = 4
  Kids = {k1, k2, k3}
  DIGITS = 2
  MSG = 2
  MaxLines = 3
  Options = {1, 2, 4, 5, 6, 7, 8, 9, 16, 17}
  Programs = {"shm", "reap", "pipe", "file", "shell", "tree"}
INVARIANTS
  ReadersSeeWrites
  EachStatusOnce
  OneCommandAtATime
PROPERTIES
  Ends
CHECK_DEADLOCK FALSE
