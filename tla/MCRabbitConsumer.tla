-------------------------- MODULE MCRabbitConsumer -------------------------
(* Instances of RabbitConsumer for TLC.                                    *)
EXTENDS RabbitConsumer

CONSTANTS m1, m2, m3, nothing, h1, h2, h3
=============================================================================
