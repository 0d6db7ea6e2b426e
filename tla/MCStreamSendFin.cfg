\* What is_local_fin_sent is documented to say; violated.
SPECIFICATION Spec
CONSTANTS
  t1 = t1
  t2 = t2
  Tasks <- OneTask
  WriteCap = 1
  MaxCalls = 2
INVARIANTS
  FinFlagMeansSent
CHECK_DEADLOCK FALSE
