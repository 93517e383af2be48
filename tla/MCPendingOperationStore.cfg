SPECIFICATION StoreSpec
CONSTANTS
  Token = {t1, t2, t3}
  Tool = {reboot, halt}
  Args = {a1, a2}
  TTL = 2
  MaxTime = 4
SYMMETRY Symmetry
INVARIANTS
  StoreTypeOK
  SpentOnce
  SpentAsIssued
PROPERTIES
  OfferIsKept
  CallsEvict
  EagerSpec
