SPECIFICATION FairSpec
CONSTANTS
  a = a
  b = b
  Ids = {a, b}
  Covers = {"full", "sample"}
  Digests = {1, 2}
  Unhashed = Unhashed
  Absent = Absent
  Threads = {t1, t2}
  Bufs = {b1, b2, b3}
  NoBuf = NoBuf
  NoThread = NoThread
  MaxId = 2
  Observations <- FewObservations
PROPERTIES
  RequestsComplete
