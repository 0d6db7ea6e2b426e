\* Two callers of close against a client that opens, feeds and resets streams.
SPECIFICATION FairSpec
CONSTANTS
  c1 = c1
  c2 = c2
  StreamIds <- OddIds
  ClientFrames <- StreamFrames
  NWorkers = 2
  WorkerCap = 1
  WriteCap = 1
  Closers <- ClosersTwo
  MaxFrames = 2
INVARIANTS
  GoAwayAtMostOnce
  AtMostOneBeyondLastGood
PROPERTIES
  AcceptedIsServed
  CloseReturns
CHECK_DEADLOCK FALSE
