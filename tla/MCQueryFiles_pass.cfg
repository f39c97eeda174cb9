SPECIFICATION QueryFilesSpec
CONSTANTS
  i1 = i1
  i2 = i2
  i3 = i3
  w1 = w1
  w2 = w2
  x = x
  y = y
  Columns = {"name", "age"}
  Values = {"x"}
  Types = {"exact", "contains", "icontains", "startswith"}
  MaxFields = 4
  MaxNesting = 2
  Texts = {"a", "1", "2"}
  NumberOf <- MCNumberOf
  MaxConditions = 4
  Rows = {i1, i2, i3}
  Sorters = {w1, w2}
  Unit = 1
  MaxSort = 3
  TableColumns = {x, y}
  Indexes <- MCIndexes
  MaxChanges = 2
  Models <- MCModels
  ValuesOf <- MCValuesOf
  MaxRecords = 2
  c1 = c1
  c2 = c2
  Calls = {c1, c2}
  Dir = Dir
  NL = NL
  MaxDepth = 5
  Temp <- MCTemp
  Order <- MCOrder
  NewName <- MCNewName
  Jobs <- MCJobs
  InitTree <- MCTree
  InitText <- MCText
  Template <- MCTemplate
SYMMETRY Symmetry
INVARIANTS AllAsked AllOrAny DistinctSorts EveryColumn SheetRoundTrip
           CopyComplete  EditsCommit AppendsKept
PROPERTIES Adjacent
CHECK_DEADLOCK FALSE
