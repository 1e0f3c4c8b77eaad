CONSTANTS
  Request = {r1, r2, r3, r4}
  Kinds <- ProdForward
  Versions = {0, 1, 2}
  Serial = FALSE
  NoRequest = NoRequest
  NoRow = NoRow
SPECIFICATION TurnSpec
SYMMETRY Symmetry
INVARIANTS
  IacOfState
  InSyncHasBase
