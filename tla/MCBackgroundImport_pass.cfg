SPECIFICATION BackgroundImportSpec
CONSTANTS
  m1 = m1
  m2 = m2
  m3 = m3
  k1 = k1
  k2 = k2
  p1 = p1
  p2 = p2
  Msgs = {m1, m2, m3}
  QueueCap = 1
  MaxTimes = 3
  Impls = {"shellx", "shellx_win", "utils", "utils_win"}
  Children = {k1, k2}
  Sources <- MCSources
  MaxSize = 2
  Window = 2
  Importers = {p1, p2}
  Books <- MCBooks
  Batch = 2
INVARIANTS KillIsComplete Complete SplitSizes  AllOrNothing DenseIds
PROPERTIES EveryMailEnds ReturnsAtDeadline WorkerEnds UploadEnds ImplementsAtomic ImportsEnd
CHECK_DEADLOCK FALSE
