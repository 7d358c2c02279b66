------------------------ MODULE MCRoundLineDelivery ------------------------
(* Three presses, each with a request of its own.                          *)
EXTENDS RoundLineDelivery, TLC

CONSTANTS p1, p2, p3, r1, r2, r3

OwnRequests == (p1 :> r1) @@ (p2 :> r2) @@ (p3 :> r3)
=============================================================================
