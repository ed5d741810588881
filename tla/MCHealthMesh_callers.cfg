\* A list that grows and may be unsorted, periodic and shutdown rounds, two concurrent
\* callers.
CONSTANTS
  billing = billing
  audit = audit
  c1 = c1
  c2 = c2
  Service = {billing}
  Addr = {1, 2}
  Caller = {c1, c2}
  Round = {"periodic", "shutdown"}
  Announcing = {}
  Reply <- GrowingReplies
SPECIFICATION FairSpec
INVARIANTS TypeOK
PROPERTIES RotationFair RoutesAroundFailures
