CONSTANTS
  owner1 = owner1
  helper1 = helper1
  Clients = {c1, c2}
  Fds = {f1, f2, f3}
  Threads = {owner1, helper1}
  Server = Server
  None = None
  Calls <- NoDropCalls
  MaxOpens = 1
  ReopensClosed = FALSE
  UnixDomain = FALSE
  WaitsTimeOut = FALSE
  PollFails = FALSE
  Handlers = {TRUE}
SPECIFICATION FairSpec
PROPERTY HangupNoticed
