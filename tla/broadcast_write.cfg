CONSTANTS
  owner1 = owner1
  helper1 = helper1
  Clients = {c1, c2}
  Fds = {f1, f2, f3}
  Threads = {owner1, helper1}
  Server = Server
  None = None
  Calls <- DropCalls
  MaxOpens = 1
  ReopensClosed = FALSE
  UnixDomain = TRUE
  WaitsTimeOut = FALSE
  PollFails = TRUE
  Handlers = {TRUE}
  Size = 2
  MaxRetries = 2
  MaxWrites = 1
SPECIFICATION WSpec
SYMMETRY Symmetric
CHECK_DEADLOCK FALSE
INVARIANTS WTypeOK WrittenReceived
PROPERTIES DeliveredInTurn WriteProgress
