SPECIFICATION ExecSpec
CONSTANTS
  Controllers = {c1, c2}
  None = None
  Conns = {"c1", "c2"}
  Files = {1, 2, 3, 4, 5}
  Calls <- SerialCalls
  FenceRequired = FALSE
  Limits <- AgentLimits
  Nil = Nil
  Slots = 1
  Serialized = TRUE
  Settings <- LeaseSettings
SYMMETRY Symmetry
INVARIANTS SeenCoversSerialRuns UncutRunsAreDurable OneHolderIfPrompt FenceOutranks
PROPERTY CachedNeverRunsAgain
\* The bounded events run out.
CHECK_DEADLOCK FALSE
