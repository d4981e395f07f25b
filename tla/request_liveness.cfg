CONSTANTS
  slot1 = slot1
  slot2 = slot2
  Clients = {c1, c2}
  Slots <- TwoSlots
  Server = Server
  None = None
  HeaderSize = 1
  Requests <- Pieces
  SendBuffer = 1
  MaxOpens = 1
  UnixDomain = TRUE
  SyscallsFail = FALSE
SPECIFICATION FairSpec
CHECK_DEADLOCK FALSE
PROPERTIES Answered HangupReleases CloseTerminates
