--------------------------- MODULE MCReceiverMesh ---------------------------
(* Instances of ReceiverMesh for TLC.                                      *)
EXTENDS ReceiverMesh, TLC

CONSTANTS p1, p2, none, billing, h1, h2, c1

NamesOf == [p \in Peer |-> billing]

\* The configuration names the secondary addresses that the peers announce too.
LearnedMap == {Dual}

HandlerSymmetry == Permutations(Handler)
=============================================================================
