CONSTANTS
  Request = {r1, r2, r3, r4, r5}
  Kinds <- ProdForward
  Versions = {0, 1, 2, 3}
  Serial = TRUE
  NoRequest = NoRequest
  NoRow = NoRow
SPECIFICATION Spec
SYMMETRY Symmetry
INVARIANTS
  EveryOwnState
  CurrentExists
PROPERTIES
  RunKeepsEdits
  LatestNeverDrops
  PromoteKeepsOverrides
  PromoteCommits
  AtomicRequests
