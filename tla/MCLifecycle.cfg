SPECIFICATION FairSpec
CONSTANTS
  MaxDeaths = 2
  MaxFailures = 2
INVARIANTS
  NeverNowhere
  ClearOnlyPastGuard
  LeftoversCounted
PROPERTY
  StopsOnSignal
