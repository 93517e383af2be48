SPECIFICATION LifecycleSpec
CONSTANTS
  Session = {s1, s2, s3}
  Req = {r1, r2, r3}
  None = None
SYMMETRY Symmetry
CHECK_DEADLOCK FALSE
INVARIANTS
  LifecycleTypeOK
  StartupLoopIsLeft
  ClosedIsForgotten
  ShutdownForgets
  RequestsOfOneSurvive
