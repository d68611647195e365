SPECIFICATION FairSpec
CONSTANTS
  Ids = {nf, delegate}
  Want = nf
  Any = Any
  NoCert = NoCert
  peer = peer
  Domains = {own, peer}
  MaxIssues <- MCMaxIssues
  MaxRolls <- MCMaxRolls
  MaxInbox = 2
INVARIANTS
  ReadyHasIdentity
  UnverifiableOnlyIfDamaged
  PresentsWanted
PROPERTIES
  SignalsRotations
  RenewalServed
  RollServed
