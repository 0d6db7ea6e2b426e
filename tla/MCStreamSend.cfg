\* Two tasks that make up to three calls on one stream.
SPECIFICATION FairSpec
CONSTANTS
  t1 = t1
  t2 = t2
  Tasks <- TwoTasks
  WriteCap = 1
  MaxCalls = 3
INVARIANTS
  TypeOK
  ReplyFirst
  OneStragglerPerTask
  FinFlagAccounted
PROPERTIES
  NoDataAfterFin
  ReplyWakesWriters
CHECK_DEADLOCK FALSE
