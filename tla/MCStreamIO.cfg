\* Chunks longer than a caller's buffer, empty ones, and a channel of one
\* place with two other senders in line.
SPECIFICATION FairSpec
CONSTANTS
  Arrivals <- SampleArrivals
  WriteCap = 1
  MaxBuf = 2
  MaxWrites = 3
  MaxWaiters = 2
INVARIANTS
  ReadsAreTheStream
  OneFin
PROPERTIES
  ShutdownReturns
CHECK_DEADLOCK FALSE
