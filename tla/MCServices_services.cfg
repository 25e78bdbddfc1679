SPECIFICATION Spec
CONSTANTS
  Controllers = {"c1", "c2"}
  Names = {"a", "b"}
  TopPort = 2
  None = None
CONSTRAINT Unmixed
INVARIANTS AccessIsOwnUnlessMixed
PROPERTIES AccessComesBack EventsEnd RunningIsRegistered
\* The bounded events run out.
CHECK_DEADLOCK FALSE
