SPECIFICATION DivergenceSpec
CONSTANTS
  n1 = n1
  n2 = n2
  n3 = n3
  a = a
  Voters = {n1, n2, n3}
  Ops = {}
  Noop = Noop
  None = None
  SnapThreshold = 0
  MaxBatch = 4
  MaxTerm = 3
  MaxIndex = 4
  Delivered <- LogMessages
  Budget <- DivergenceBudget
SYMMETRY FollowerSymmetry
INVARIANT StateMachineSafety
CHECK_DEADLOCK FALSE
