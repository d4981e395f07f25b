CONSTANTS
  owner1 = owner1
  helper1 = helper1
  Clients = {c1, c2}
  Fds = {f1, f2, f3}
  Threads = {owner1, helper1}
  Server = Server
  None = None
  Calls <- FullCalls
  MaxOpens = 2
  ReopensClosed = FALSE
  UnixDomain = TRUE
  WaitsTimeOut = TRUE
  PollFails = TRUE
  Handlers = {TRUE, FALSE}
SPECIFICATION Spec
SYMMETRY Symmetric
INVARIANTS TypeOK MonitorPointersLive SocketOwnsItsFd NoDoubleDisconnect NoDescriptorLeak NoMissedListChange DisconnectPaired
PROPERTIES RefinesRegistry
