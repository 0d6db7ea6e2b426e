\* Sixteen clients against a limit that one of the well-formed ones hits.
SPECIFICATION FairSpec
CONSTANTS
  Clients <- SampleClients
  MaxRequest = 22
INVARIANTS
  SpdyUntouched
  RequestIsTheClients
  TooLargeMeansTooLarge
PROPERTIES
  AcceptReturns
CHECK_DEADLOCK FALSE
