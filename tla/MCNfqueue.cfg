SPECIFICATION FairSpec
CONSTANTS
  Pkts = {p1, p2, p3, p4}
  Big = {p3}
  Unreadable = {p4}
  Bufs = {b1, b2}
  NilBuf = NilBuf
  NoBuf = NoBuf
  NoPkt = NoPkt
  KernelLens = {1, 2}
  Depth = 1
  Budget = 2
INVARIANTS
  TypeOK
  PayloadIntact
  VerdictsSerialised
  HeldAccountedFor
  NoBackpressure
PROPERTIES
  FailsClosed
  WriteBudgeted
  VerdictGiven
