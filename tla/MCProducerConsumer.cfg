SPECIFICATION FairSpec
CONSTANTS
  BUFFER_SIZE = 3
  Consumers = {c1, c2}
  Producer = p
  Nobody = nobody
  INT_MOD = 7
  MayHoist = TRUE
  Spurious = TRUE
INVARIANTS
  NoOverflow
  FIFO
  NoLostWakeup
PROPERTIES
  KeepsGoing
