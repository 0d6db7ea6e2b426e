\* Two readers, a channel of two chunks that overflows, closes at any time.
SPECIFICATION FairSpec
CONSTANTS
  r1 = r1
  r2 = r2
  Readers <- TwoReaders
  Cap = 2
  MaxChunks = 3
  MaxCloses = 2
  MaxCalls = 3
INVARIANTS
  TypeOK
  NothingElseLost
PROPERTIES
  EofAccountsForCall
  EofAfterDrain
  CallsAreAtomic
  CloseUnblocksReaders
  DataWakesReader
CHECK_DEADLOCK FALSE
