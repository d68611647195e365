SPECIFICATION Spec
CONSTANTS
  Conns = {c1, c2, c3, c4}
  Nil = Nil
  Role = "client"
  Delegated = TRUE
  ConnectErrors = TRUE
  DeadAfter = 1
  MaxRenewals = 2
SYMMETRY ConnSymmetry
INVARIANTS
  TypeOK
  OneOpenSession
  NoLostRotation
  Ownership
  ReportsJustified
PROPERTIES
  TornDownForCause
  FreshSessionTolerated
  HolderPromise
