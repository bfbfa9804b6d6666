SPECIFICATION Spec
CONSTANTS
  Callers = {c1, c2, c3}
  FailureThreshold = 2
  OpenDuration = 2
INVARIANTS
  SingleProbe
