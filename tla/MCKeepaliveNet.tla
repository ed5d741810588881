--------------------------- MODULE MCKeepaliveNet ---------------------------
(* Instances of KeepaliveNet for TLC: p1 checks the receiver, p2 only      *)
(* calls it, and both bear one name.                                       *)
EXTENDS KeepaliveNet

CONSTANTS p1, p2, none, billing, h1, h2, c1

NamesOf == [p \in Peer |-> billing]
=============================================================================
