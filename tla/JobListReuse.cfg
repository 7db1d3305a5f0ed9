SPECIFICATION Spec
CONSTANTS
  MAXJOBS = 4
  Pids = {p1, p2, p3, p4, p5}
  JidBound = 7
INVARIANTS
  NextJidIsFree
