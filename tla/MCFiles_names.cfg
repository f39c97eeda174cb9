SPECIFICATION EditsSpec
CONSTANTS
  c1 = c1
  c2 = c2
  Calls = {c1}
  Dir = Dir
  NL = NL
  MaxDepth = 5
  Temp <- MCTemp
  Order <- MCOrder
  NewName <- MCNewName
  Jobs <- MCRenaming
  InitTree <- MCTree
  InitText <- MCText
  Template <- MCTemplate
INVARIANTS RenamedThroughout
CHECK_DEADLOCK FALSE
