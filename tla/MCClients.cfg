CONSTANTS
  n1 = n1
  n2 = n2
  c1 = c1
  c2 = c2
  nobody = nobody
  v1 = v1
  v2 = v2
  v3 = v3
  none = none
  Node = {n1, n2}
  Caller = {c1, c2}
  NoCaller = nobody
  Watch = {v1, v2, v3}
  NoWatch = none
  Mode = {"PollingServer", "LastServer", "RandomServer"}
  MaxIndex = 2
  m1 = m1
  m2 = m2
  nothing = nothing
  h1 = h1
  h2 = h2
  Message = {m1, m2}
  NoMessage = nothing
  Handler = {h1, h2}
  Prefetch = 2
  Async = {TRUE, FALSE}
  MaxFaults = 2
  p1 = p1
  p2 = p2
  ch1 = ch1
  ch2 = ch2
  ch3 = ch3
  k1 = k1
  k2 = k2
  Publisher = {p1, p2}
  Chan = {ch1, ch2, ch3}
  NoChan = nothing
  Conn = {k1, k2}
  NoConn = nothing
  poster = poster
  getter = getter
  mailer = mailer
  shared = shared
  Helper = {poster, getter, mailer}
  Options <- MCOptions
  ParamMap = {shared}
  NoMap = nothing
  MaxPosts = 2
SPECIFICATION MCSpec
INVARIANTS IndexInBounds WatchedListIsCurrent FillsOnlyMissing AckedIsHandled NothingStuck NothingLeaks SentAsMeant
PROPERTIES StaleIsDropped HandledInTheEnd
