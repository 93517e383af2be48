SPECIFICATION StagedSpec
CONSTANTS
  Call = {c1, c2}
  None = None
  Offered <- AllTools
  Target = {u1, bad}
  Malformed = {bad}
SYMMETRY Symmetry
CONSTRAINT Related
INVARIANTS
  StagedTypeOK
  AppliesCoverAcknowledged
  NothingRunsUnapplied
  ForcedTogglesConverge
