SPECIFICATION Spec
CONSTANTS
  Net = {n1, n2}
  Uuid = {u1}
  Cam = {c1}
  Gl = {g1}
  Api = {a1}
  Keeper = {k1}
  Buf = {b1, b2, b3, b4}
  NoBuf = NoBuf
  MaxFree = 2
SYMMETRY Symmetry
INVARIANTS
  WriterIsExclusive
  ReadersSeeWholeFrames
  SoleOwnerIsStable
PROPERTY RefinesLease
