SPECIFICATION Spec
CONSTANTS
  Pkts = {p1, p2, p3, p4}
  Big = {}
  Unreadable = {}
  Bufs = {b1, b2, b3, b4}
  NilBuf = NilBuf
  NoBuf = NoBuf
  NoPkt = NoPkt
  KernelLens = {2}
  Depth = 2
  Budget = 0
INVARIANTS
  HandleExclusive
