SPECIFICATION SpecHub
CONSTANTS
  Clients = {c1, c2}
  BufSize = 1
  MaxMsgs = 3
INVARIANTS UpToDate DrainNeverBlocks CloseAfterBacklog
PROPERTIES ImplementsBroadcast SendersReleased Delivered
CHECK_DEADLOCK FALSE
