------------------------------ MODULE MCOnline ------------------------------
(* Instances of Online for TLC: c1 and c2 are connections of one account,  *)
(* c3 is that of another player.                                             *)
EXTENDS Online, TLC

CONSTANTS c1, c2, c3, p1, p2

MCTicketPid == (c1 :> p1) @@ (c2 :> p1) @@ (c3 :> p2)

=============================================================================
