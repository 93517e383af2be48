SPECIFICATION HighRiskSpec
CONSTANTS
  Token = {t1, t2}
  Tool <- MCTool
  Args <- MCArgs
  TTL = 2
  MaxTime = 3
  Call = {c1, c2, c3, c4}
  None = None
  Op <- MCOp
  Uuid <- MCUuid
  u1 = u1
  u2 = u2
SYMMETRY Symmetry
INVARIANTS
  HighRiskTypeOK
  OneRequestPerToken
  RequestsAsPreviewed
  PreviewsHaveNoEffect
  ExecutionsCorrelate
  ReportsAreTrue
  PerformedIsLogged
PROPERTIES
  PromiseSpec
