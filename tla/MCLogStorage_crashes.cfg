SPECIFICATION MCSpec
CONSTANTS
  Ops = {a, b}
  Threshold = 1
  MaxIndex = 3
  Budget <- MCBudget
SYMMETRY Renamed
PROPERTY ImplementsDurableLog
CHECK_DEADLOCK FALSE
