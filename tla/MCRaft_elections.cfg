SPECIFICATION ElectionSpec
CONSTANTS
  n1 = n1
  n2 = n2
  n3 = n3
  a = a
  Voters = {n1, n2, n3}
  Ops = {}
  Noop = Noop
  None = None
  SnapThreshold = 1
  MaxBatch = 2
  MaxTerm = 2
  MaxIndex = 2
  Delivered <- ElectionMessages
  Budget <- ElectionBudget
SYMMETRY Symmetry
\* One heartbeat, once a leader's no-ops are applied.
CONSTRAINT HeartbeatsWhenSettled
INVARIANTS
  TypeOK
  ElectionSafety
  OneWinnerPerTerm
  OneBallotPerTerm
CHECK_DEADLOCK FALSE
