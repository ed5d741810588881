CONSTANTS
  p1 = p1
  p2 = p2
  none = none
  billing = billing
  h1 = h1
  h2 = h2
  c1 = c1
  Peer = {p1}
  Dual = {p1}
  Checking = {p1}
  Calling = {}
  Name = {billing}
  NameOf <- NamesOf
  Keep = 1
  Handler = {h1}
  Caller = {}
  ConfigDual = {}
  NoPeer = none
  TraceRequests = TRUE
  MaxCopies = 1
  MaxCallbacks = 0
SPECIFICATION NetSpec
INVARIANTS ShutdownSticks
