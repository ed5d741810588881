--------------------------- MODULE MCGracefulStop ---------------------------
(* Instances of GracefulStop for TLC.                                      *)
EXTENDS GracefulStop

CONSTANTS sweep, report, r1, r2, srv, grpc

\* Two tasks under names of their own.
OwnNames == [t \in Task |-> t]
=============================================================================
