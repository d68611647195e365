SPECIFICATION FairSpec
CONSTANTS
  CpEps <- MCCpEps
  Up <- MCUp
  None = None
  CpPeerN4 <- MCUp
  Msgs <- MCMsgs
  Faults = TRUE
INVARIANTS
  TrueSource
  ExactWithOneEndpoint
PROPERTIES
  Delivered
