SPECIFICATION Spec
CONSTANTS
  RedirectPeer = FALSE
  FlushFails = FALSE
  MaxFaults = 0
INVARIANTS
  NoPlaintextWhileServing
