SPECIFICATION LeaseFairSpec
CONSTANTS
  Procs = {p1, p2, p3}
  Inodes = {i1, i2}
  Nil = Nil
INVARIANTS
  Exclusive
  FreeMeansNoHolder
CHECK_DEADLOCK FALSE
PROPERTY DeadLeaseIsReclaimed
