SPECIFICATION SceneSpec
CONSTANTS
  p1 = p1
  p2 = p2
  i1 = i1
  i2 = i2
  Procs = {p1, p2}
  Rows = {r1}
  Indexes = {i1, i2}
  Kinds = {"row", "expire"}
  Expiry = 1
  Gap = 1
  MaxWrites = 2
  NoRow = NoRow
  Absent = Absent
  NotFound = NotFound
  Err = Err
INVARIANTS OneLoader Coherent
PROPERTIES EventuallyFresh CallsReturn
