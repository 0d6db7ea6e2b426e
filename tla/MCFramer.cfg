\* Every kind of frame, up to two in a row, and bytes that are no frame.
SPECIFICATION FairSpec
CONSTANTS
  Byte = 16
  Frames <- SampleFrames
  Malformed <- SampleMalformed
  MaxFrames = 2
  Ratio = 4
  Growth = 4
  Slack = 2
INVARIANTS
  NoFrameRefused
  EofAccountsForFrames
PROPERTIES
  DeliversFrames
  WholeFrameIsRead
CHECK_DEADLOCK FALSE
