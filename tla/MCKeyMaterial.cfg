SPECIFICATION KeySpec
CONSTANTS
  Call = {c1, c2, c3}
  None = None
  Old = Old
  Offered <- MCOffered
SYMMETRY CallSymmetry
CONSTRAINT Bounds
INVARIANTS
  KeyTypeOK
  ReadsHideKeys
  ReadsAreSnapshots
  OneShotKeysArrive
PROPERTIES
  KeysChangeByRotation
