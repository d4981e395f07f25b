CONSTANTS
  slot1 = slot1
  slot2 = slot2
  Clients = {c1, c2}
  Slots <- TwoSlots
  Server = Server
  None = None
  HeaderSize = 2
  Requests <- Short
  SendBuffer = 1
  MaxOpens = 1
  UnixDomain = TRUE
  SyscallsFail = FALSE
SPECIFICATION Spec
CHECK_DEADLOCK FALSE
SYMMETRY Symmetric
INVARIANTS TypeOK InterestMatchesState EventContextsLive NoRequestSkipped ResponsesExact
PROPERTIES RefinesService
