CONSTANTS
  slot1 = slot1
  slot2 = slot2
  Clients = {c1, c2, c3}
  Slots <- TwoSlots
  Server = Server
  None = None
  HeaderSize = 1
  Requests <- Slow
  SendBuffer = 1
  MaxOpens = 2
  UnixDomain = FALSE
  SyscallsFail = TRUE
SPECIFICATION Spec
CHECK_DEADLOCK FALSE
SYMMETRY Symmetric
INVARIANTS PoolConservation EventContextsLive InterestMatchesState
