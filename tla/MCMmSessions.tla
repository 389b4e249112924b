---------------------------- MODULE MCMmSessions ----------------------------
(* An instance of MmSessions for TLC: c1 and c2 are two connections of the *)
(* same console (it reconnects before or after the first one is dropped),  *)
(* c3 is another player's.                                                 *)
EXTENDS MmSessions, TLC

CONSTANTS c1, c2, c3, p1, p2

MCTicketPid == (c1 :> p1) @@ (c2 :> p1) @@ (c3 :> p2)

=============================================================================
