\* Changing configuration of two services that may list the same address, periodic
\* rounds. Callers change nothing that these properties are about.
CONSTANTS
  billing = billing
  audit = audit
  c1 = c1
  c2 = c2
  Service = {billing, audit}
  Addr = {1, 2}
  Caller = {}
  Round = {"periodic"}
  Announcing = {1}
  Reply <- ChangingReplies
SPECIFICATION FairSpec
INVARIANTS ReadyIsPassed ConfigApplied
PROPERTIES MovedAddressSettles
