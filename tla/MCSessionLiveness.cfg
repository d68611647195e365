SPECIFICATION FairSpec
CONSTANTS
  Conns = {c1, c2}
  Nil = Nil
  Role = "server"
  Delegated = TRUE
  ConnectErrors = FALSE
  DeadAfter = 1
  MaxRenewals = 1
PROPERTIES
  Recovers
  BrokenReplaced
  SilentReplaced
  RotationTakesEffect
