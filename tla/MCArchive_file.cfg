SPECIFICATION ArchiveSpec
CONSTANTS
  Sources <- MCFiles
  MaxSize = 2
  Window = 2
INVARIANTS FileRestored
CHECK_DEADLOCK FALSE
