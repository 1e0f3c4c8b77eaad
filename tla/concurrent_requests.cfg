CONSTANTS
  Request = {r1, r2, r3}
  Kinds <- ForwardProd
  Versions = {0, 1, 2}
  Serial = FALSE
  NoRequest = NoRequest
  NoRow = NoRow
SPECIFICATION Spec
SYMMETRY Symmetry
INVARIANTS
  UniqueVersions
  CurrentIsLatest
PROPERTIES
  DanglesBySetOnly
  PromoteFromCurrent
