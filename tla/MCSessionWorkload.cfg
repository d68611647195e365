SPECIFICATION FairSpec
CONSTANTS
  Conns = {c1, c2, c3, c4}
  Nil = Nil
  Role = "client"
  Delegated = FALSE
  ConnectErrors = FALSE
  DeadAfter = 1
  MaxRenewals = 1
PROPERTIES
  RotationTakesEffect
