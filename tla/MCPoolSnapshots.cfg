SPECIFICATION Spec
CONSTANTS
  a = a
  b = b
  Ids = {a, b}
  Covers = {"full", "sample"}
  Digests = {1, 2}
  Unhashed = Unhashed
  Absent = Absent
  Threads = {t1, t2}
  Bufs = {b1, b2, b3, b4, b5}
  NoBuf = NoBuf
  NoThread = NoThread
  MaxId = 3
  Observations <- MCObservations
SYMMETRY Symmetry
INVARIANTS
  TypeOK
  DiffIsOfBaselineAndCurrent
  BufferOwnership
PROPERTIES
  BaselineChangeDropsDerived
  ImplementsStore
