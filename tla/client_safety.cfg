CONSTANTS
  Setups <- AllSetups
  MaxRetries = 3
  Flights = 2
  Size = 3
  ReadSize = 1
  RecordSize = 2
  Word = 8
  SendBuffer = 2
  MaxBlocks = 0
  MaxRecords = 2
  MaxCalls = 2
SPECIFICATION Spec
CHECK_DEADLOCK FALSE
INVARIANTS TypeOK WriteAccounting
PROPERTIES ConnectVerdict RefusalNamed WriteExact ClientProgress
