---------------------------- MODULE MCLobbyConn ----------------------------
(* Instance of LobbyConn for TLC: two clients that search; the second one   *)
(* may get a lobby to host and syncs its document.                          *)
EXTENDS LobbyConn, TLC

CONSTANTS c1, c2

MCAsks == (c1 :> <<{"search", "unreadable", "short"}, {"search", "create", "push"}>>)
       @@ (c2 :> <<{"search"}, {"sync", "leave"}>>)

=============================================================================
