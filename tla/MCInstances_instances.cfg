SPECIFICATION Spec
CONSTANTS
  This = {x1, x2}
  That = {y1, y2}
  Machines = {"h1"}
  MaxSlots = 2
  Causes = {"lost", "client's"}
  Quoted = {"client's"}
  Watchers = {"w1"}
  MaxAlerts = 2
  MaxRunning = 1
  MaxEvents = 1
  None = None
SYMMETRY Symmetry
INVARIANTS
  AckedSurvive OneWriter OutcomeTrue StepsFindTheirTargets EndsAreTrue BindingsAreSound
  AlertsTellHealth  AloneIsAdmitted GoneStaysGone ForecastIsTrue
\* The bounded events run out.
CHECK_DEADLOCK FALSE
