CONSTANTS
  owner1 = owner1
  helper1 = helper1
  Clients = {c1, c2}
  Fds = {f1, f2}
  Threads = {owner1, helper1}
  Server = Server
  None = None
  Calls <- NoDropCalls
  MaxOpens = 1
  ReopensClosed = FALSE
  UnixDomain = TRUE
  WaitsTimeOut = TRUE
  PollFails = TRUE
  Handlers = {TRUE}
SPECIFICATION FairSpec
INVARIANTS EveryActivePolled
PROPERTIES HangupNoticed CloseTerminates AwaitReturns
