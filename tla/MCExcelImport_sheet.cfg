SPECIFICATION ImportSpec
CONSTANTS
  Importers = {p1}
  Books <- MCBooks
  Batch = 2
INVARIANTS NamedSheet
CHECK_DEADLOCK FALSE
