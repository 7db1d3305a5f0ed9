SPECIFICATION SeqSpec
CONSTANTS
  Programs = {"hash", "jobs", "lex", "evl", "fcyc", "clock", "parse", "cache", "score"}
  k1 = k1
  k2 = k2
  k3 = k3
  Keys = {k1, k2, k3}
  Vals = {v1, v2}
  hash <- MCHash
  TableSizes = {1, 2, 3}
  Node <- MCNode
  NULL = null
  MAXJOBS = 3
  Pids = {p1, p2, p3, p4}
  JidBound = 6
  MaxLine = 5
  CYCLES = 4
  INT_BITS = 2
  Times = {0, 1, 2, 4}
  Ks = {1, 3}
  MaxSamples = {2, 4}
  Epsilons = {0, 1}
  Sizes = {8, 16}
  Half = 4
  Unit = 6
  Laps = {1, 6}
  NEVENT = 2
  THRESHOLD = 2
  RECORDTHRESH = 2
  MaxTicks = 3
  MAXLINE = 7
  MAXARGS = 3
  Typed <- MCTyped
  Lists <- MCLists
  MAXN = 2
  Dims = {0, 1, 2, 3}
  Values = {0, 1}
  Ops <- MCOps
  Utils = {0, 1, 2}
  FULL = 2
  Secs = {0, 1, 4}
  AVG_LIBC_THRUPUT = 2
  UTIL_WEIGHT = 60
CHECK_DEADLOCK FALSE
INVARIANTS
  EverythingOwnedOnce
  GetFindsAll
  ListAndIds
  LexedAsWritten
  CommandsAsTyped
  BestKeptAndReturned
  CounterIsElapsed
  ScoreIsFair
  JudgedByItsOwnRun
PROPERTIES
  ImplementsMap
  OthersKeepTheirSlot
  SimulatesTheText
