CONSTANTS
  Setups <- OneVersion
  MaxRetries = 3
  Flights = 2
  Size = 3
  ReadSize = 2
  RecordSize = 2
  Word = 8
  SendBuffer = 2
  MaxBlocks = 1
  MaxRecords = 2
  MaxCalls = 3
SPECIFICATION Spec
CHECK_DEADLOCK FALSE
INVARIANTS WriteAccounting
