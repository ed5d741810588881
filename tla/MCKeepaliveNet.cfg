CONSTANTS
  p1 = p1
  p2 = p2
  none = none
  billing = billing
  h1 = h1
  h2 = h2
  c1 = c1
  Peer = {p1, p2}
  Dual = {}
  Checking = {p1}
  Calling = {p2}
  Name = {billing}
  NameOf <- NamesOf
  Keep = 1
  Handler = {h1}
  Caller = {}
  ConfigDual = {}
  NoPeer = none
  TraceRequests = TRUE
  MaxCopies = 1
  MaxCallbacks = 1
SPECIFICATION FairNetSpec
PROPERTIES GoneIsForgotten
