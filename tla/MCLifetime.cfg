\* Two tasks that ping, one stream, a channel of one frame.
SPECIFICATION FairSpec
CONSTANTS
  p1 = p1
  p2 = p2
  Pingers <- TwoPingers
  WriteCap = 1
  IdSpace = 8
  MaxEvents = 3
INVARIANTS
  PingOkMeansEchoed
  EntryUntilResolved
PROPERTIES
  PingReturns
  EndReachesEveryone
CHECK_DEADLOCK FALSE
