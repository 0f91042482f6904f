------------------------------ MODULE MCGateway ------------------------------
(* A small instance of Gateway for TLC. *)
EXTENDS Gateway

CONSTANTS c1, c2, p1, p2, p3

TwoConnections == {c1, c2}
ThreePackets == {p1, p2, p3}

=============================================================================
