SPECIFICATION ReadSpec
CONSTANTS
  a = a
  b = b
  Ids = {a, b}
  Covers = {"full"}
  Digests = {1}
  Unhashed = Unhashed
  Absent = Absent
  Threads = {reader, other}
  Readers = {reader}
  Others = {"createBaseline", "createCurrent", "clear"}
  MaxId = 3
  Observations <- MCObservations
INVARIANTS
  TableIsOfOneSnapshot
