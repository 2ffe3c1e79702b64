SPECIFICATION LeaseSpec
CONSTANTS
  Procs = {p1, p2, p3}
  Inodes = {i1, i2}
  Nil = Nil
INVARIANT
  MutualExclusion
CHECK_DEADLOCK FALSE
