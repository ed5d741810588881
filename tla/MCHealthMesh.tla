---------------------------- MODULE MCHealthMesh ----------------------------
(* Instances of HealthMesh for TLC.                                        *)
EXTENDS HealthMesh

CONSTANTS c1, c2, billing, audit

\* The configuration changes: billing's list gains an address, another service
\* takes its place, with an address that billing had and the mesh keeps, and the map of
\* secondary addresses comes and goes. The order of a list is open, so the monitor may
\* find a slice it shares with the mesh unsorted.
ChangingReplies ==
  LET Listed(b, a) == [s \in Service |-> IF s = billing THEN b ELSE a]
  IN  {[services |-> Listed({1}, {}), dual |-> {1}],
       [services |-> Listed({1, 2}, {}), dual |-> {}],
       [services |-> Listed({}, {2}), dual |-> {}]}

\* One service with one address, or two.
GrowingReplies == {[services |-> [s \in Service |-> S], dual |-> {}] : S \in {{1}, {1, 2}}}

\* One address, reachable on a secondary one too.
DualReply == {[services |-> [s \in Service |-> {1}], dual |-> {1}]}
=============================================================================
