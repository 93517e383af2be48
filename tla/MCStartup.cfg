SPECIFICATION StartupSpec
CONSTANTS
  Number <- MCNumber
  Whole <- MCWhole
  Lower <- MCLower
  NaN = NaN
  Bad = Bad
  HttpsUrl <- MCHttpsUrl
  Environs <- MCEnvirons
  Files <- MCFiles
INVARIANTS
  LoadAgrees
  TlsUnlessToldOtherwise
CHECK_DEADLOCK FALSE
