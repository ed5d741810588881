CONSTANTS
  orders = orders
  w1 = w1
  w2 = w2
  w3 = w3
  g1 = g1
  g2 = g2
  nobody = nobody
  Conn = {orders}
  Worker = {w1, w2, w3}
  Pinger = {g1, g2}
  NoPinger = nobody
  BadCount = {2, 3, 4}
  c1 = c1
  c2 = c2
  c3 = c3
  db1 = db1
  db2 = db2
  db3 = db3
  none = none
  Getter = {c1, c2}
  Pool = {db1, db2, db3}
  NoPool = none
  Call = {c1, c2, c3}
  MaxOpen = 2
  MaxStatements <- MCStatements
  Unruly = {c1}
  Columns <- MCColumns
  Field <- MCField
  Text <- MCText
  Lower <- MCLower
  Number <- MCNumber
  MaxRows = 2
  Half = 4
  Query <- MCQuery
  Argument <- MCArgument
  MaxArgs = 2
  MaxAllowedPacket = 14
SPECIFICATION MCSpec
INVARIANTS TypeOK DisabledBlocksNobody BlockedIsLeftAlone SomeonePings
           LeakBounded IdleFollowsSetting RowsAreRead TextReadsBack
PROPERTIES Recovers KeepsPromise CallsEnd
CHECK_DEADLOCK FALSE
