SPECIFICATION ServersFairSpec
CONSTANTS
  c1 = c1
  c2 = c2
  c3 = c3
  Clients = {c1, c2}
  Heap = {b1, b2}
  Threads = {1, 2}
  MaxSend = 2
  BUF = 1
  Silent = {c1}
  Resetting = {c2}
  Fds = {3, 4, 5, 6}
PROPERTIES
  AllImplementEcho
  EveryoneIsServed
  ZombiesAreReaped
CHECK_DEADLOCK FALSE
