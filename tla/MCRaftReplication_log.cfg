SPECIFICATION ReplicationSpec
CONSTANTS
  n1 = n1
  n2 = n2
  n3 = n3
  a = a
  Voters = {n1, n2, n3}
  Ops = {a}
  Noop = Noop
  None = None
  SnapThreshold = 1
  MaxBatch = 2
  MaxTerm = 2
  MaxIndex = 3
  Delivered <- AllMessages
  Budget <- ReplicationBudget
SYMMETRY FollowerSymmetry
INVARIANTS
  EntryIdentity
  StateMachineSafety
  AckedOnMajority
  LogContiguous
\* The budget of events runs out.
CHECK_DEADLOCK FALSE
