SPECIFICATION FairSpec
CONSTANTS
  DeadAfter = 2
  MaxFaults = 4
INVARIANTS
  AloneOnlyIfExcused
PROPERTIES
  HealthyKept
  Reunited
  ReunitedIfTold
