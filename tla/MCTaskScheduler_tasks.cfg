\* One controller: cancellation, failing steps, a manual retry, a crash.
\* Two of them: a crash and a change of leader.
SPECIFICATION FairSpec
CONSTANTS
  Controllers = {p1, p2}
  p1 = p1
  p2 = p2
  Nodes = {a, b, c}
  a = a
  b = b
  c = c
  None = None
  Settings <- OneOrTwo
PROPERTIES DepsFirst UncrashedTasksEnd
\* A task that has ended may be left alone.
CHECK_DEADLOCK FALSE
