SPECIFICATION EditsSpec
CONSTANTS
  c1 = c1
  c2 = c2
  Calls = {c1}
  Dir = Dir
  NL = NL
  MaxDepth = 5
  Temp <- MCTemp
  Order <- MCOrder
  NewName <- MCNewName
  Jobs <- MCInsertion
  InitTree <- MCTree
  InitText <- MCLooseText
  Template <- MCTemplate
INVARIANTS EveryLineKept
CHECK_DEADLOCK FALSE
