SPECIFICATION Spec
CONSTANTS
  Nodes = {n1, n2}
  Clients = {c1, c2}
  None = None
  Tokens = {"session"}
  Passwords = {"sink", "new"}
  SinkPassword = "sink"
  MaxTries = 2
  AuthBudget <- MCAuthBudget
  AuthPlans <- MCAuthPlans
  ShardOf <- OneShard
  MaxIndex = 3
  Decided = {1, 3}
  BatchLimit = 1
  SinkBudgets <- MCSinkBudgets
  Offsets <- MCOffsets
  Delays = {0, 1, 4}
  MaxSkew = 2
  Window = 2
  Ttl = 1
  MinSamples = 2
  CorrectionCap = 2
  Peers = {"p1", "p2"}
  Tasks = {"t1", "t2", "t3"}
  SendBudget = 2
  MaxFaults = 1
SYMMETRY Symmetry
INVARIANTS
  SessionsEnd ChangesBuildOn ProjectionTrue SkewVerdict LeftOutWhileSending
  LacksAreListed
\* The bounded events run out.
CHECK_DEADLOCK FALSE
