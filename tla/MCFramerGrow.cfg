\* A header block that deflate shrinks to less than a quarter.
SPECIFICATION Spec
CONSTANTS
  Byte = 16
  Frames <- LongHeaders
  Malformed = {}
  MaxFrames = 2
  Ratio = 16
  Growth = 4
  Slack = 2
INVARIANTS
  NoFrameRefused
CHECK_DEADLOCK FALSE
