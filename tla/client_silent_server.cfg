CONSTANTS
  Setups <- EachVersion
  MaxRetries = 3
  Flights = 2
  Size = 3
  ReadSize = 1
  RecordSize = 2
  Word = 8
  SendBuffer = 2
  MaxBlocks = 1
  MaxRecords = 1
  MaxCalls = 2
SPECIFICATION FairSpec
CHECK_DEADLOCK FALSE
PROPERTIES OperationReturns
