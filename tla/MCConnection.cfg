\* Every kind of client frame, one caller of close, short channels.
SPECIFICATION Spec
CONSTANTS
  c1 = c1
  c2 = c2
  StreamIds <- Ids
  ClientFrames <- AllFrames
  NWorkers = 2
  WorkerCap = 2
  WriteCap = 1
  Closers <- ClosersOne
  MaxFrames = 3
INVARIANTS
  TypeOK
  NoStreamInUse
  HandlerAtMostOnce
  ReceivedInOrder
  HandlerBeforeData
  AllClosedAtEnd
PROPERTIES
  FinAfterData
CHECK_DEADLOCK FALSE
