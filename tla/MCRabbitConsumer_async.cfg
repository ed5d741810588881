CONSTANTS
  m1 = m1
  m2 = m2
  m3 = m3
  nothing = nothing
  h1 = h1
  h2 = h2
  h3 = h3
  Message = {m1, m2, m3}
  NoMessage = nothing
  Handler = {h1, h2, h3}
  Prefetch = 3
  Async = {TRUE}
  MaxFaults = 0
SPECIFICATION RabbitSpec
INVARIANTS AckedReachesCallback
CHECK_DEADLOCK FALSE
