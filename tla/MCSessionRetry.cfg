SPECIFICATION FairSpec
CONSTANTS
  Conns = {c1, c2, c3, c4}
  Nil = Nil
  Role = "server"
  Delegated = FALSE
  ConnectErrors = TRUE
  DeadAfter = 1
  MaxRenewals = 0
PROPERTIES
  Recovers
