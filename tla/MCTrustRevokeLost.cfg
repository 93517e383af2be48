SPECIFICATION TrustSpec
CONSTANTS
  Token = {t1, t2}
  Tool <- MCTool
  Args <- MCArgs
  TTL = 1
  MaxTime = 0
  Call = {c1, c2, c3, c4}
  None = None
  Cert = {x, y}
  CA = {ca}
  ca = ca
  keyCompromise = keyCompromise
  Reason = {keyCompromise}
  Issuer <- MCIssuer
  NotFound = NotFound
  Revoked <- MCRevoked
SYMMETRY Symmetry
CONSTRAINTS
  TokensWereIssued
  OneTokenOrFewFailures
PROPERTIES
  RevocationsStay
