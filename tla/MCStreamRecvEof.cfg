\* What read_data says of None; violated.
SPECIFICATION FairSpec
CONSTANTS
  r1 = r1
  r2 = r2
  Readers <- OneReader
  Cap = 2
  MaxChunks = 2
  MaxCloses = 0
  MaxCalls = 2
PROPERTIES
  EofMeansDrained
CHECK_DEADLOCK FALSE
