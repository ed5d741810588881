\* Steady configuration of one address that is reachable on two.
CONSTANTS
  billing = billing
  audit = audit
  c1 = c1
  c2 = c2
  Service = {billing}
  Addr = {1}
  Caller = {c1}
  Round = {"periodic"}
  Announcing = {}
  Reply <- DualReply
SPECIFICATION Spec
INVARIANTS SecondaryIsUsed
