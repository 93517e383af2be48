SPECIFICATION LifecycleSpec
CONSTANTS
  Session = {s1, s2}
  Req = {r1}
  None = None
CHECK_DEADLOCK FALSE
INVARIANTS
  RequestsSurvive
