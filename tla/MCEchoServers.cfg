SPECIFICATION ServersSpec
CONSTANTS
  c1 = c1
  c2 = c2
  c3 = c3
  Clients = {c1, c2, c3}
  Heap = {b1, b2, b3}
  Threads = {1, 2}
  MaxSend = 1
  BUF = 1
  Silent = {c1}
  Resetting = {c2}
  Fds = {3, 4, 5, 6}
INVARIANTS
  DescriptorsAccountedFor
  SweepNeverWaits
  ZombieHasSignal
  ServersUnharmed
  HandedToOneThread
CHECK_DEADLOCK FALSE
