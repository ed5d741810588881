\* A lease lasts until the next tick.
CONSTANTS
  p1 = p1
  p2 = p2
  none = none
  billing = billing
  h1 = h1
  h2 = h2
  c1 = c1
  Peer = {p1, p2}
  Dual = {p1}
  Name = {billing}
  NameOf <- NamesOf
  Keep = 0
  Handler = {h1, h2}
  Caller = {c1}
  ConfigDual <- LearnedMap
  NoPeer = none
  TraceRequests = TRUE
  MaxCopies = 2
  MaxCallbacks = 1
SYMMETRY HandlerSymmetry
SPECIFICATION Spec
INVARIANTS TypeOK RoutesByLastContact AddressBookAgrees
PROPERTIES KeepsLeases
