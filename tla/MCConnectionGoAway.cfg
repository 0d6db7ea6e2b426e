\* What the comment at the admission check promises; violated.
SPECIFICATION Spec
CONSTANTS
  c1 = c1
  c2 = c2
  StreamIds <- OddIds
  ClientFrames <- SynFrames
  NWorkers = 2
  WorkerCap = 1
  WriteCap = 1
  Closers <- ClosersOne
  MaxFrames = 2
INVARIANTS
  NothingBeyondLastGood
CHECK_DEADLOCK FALSE
