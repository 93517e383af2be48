SPECIFICATION FairPortalSpec
CONSTANTS
  Token = {t1}
  Tool <- MCTool
  Args <- MCArgs
  TTL = 1
  MaxTime = 1
  Call = {c1, c2}
  None = None
  Zone = {z1, z2}
  Sid = {s1, s2}
INVARIANTS
  PortalTypeOK
  ReportIsComplete
  ReportAgreesWithLog
  DisconnectsAsConfirmed
PROPERTIES
  FanOutsEnd
