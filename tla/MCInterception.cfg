SPECIFICATION Spec
CONSTANTS
  RedirectPeer = TRUE
  FlushFails = TRUE
  MaxFaults = 2
INVARIANTS
  LeaksOnlyWhereExposed
PROPERTIES
  StaysRestored
