----------------------------- MODULE Directory -----------------------------
(***************************************************************************)
(* What the directory of joinable games promises to the players, without   *)
(* connections, mutexes, pointers or tasks: games that belong to accounts. *)
(* MmSessions implements it.                                               *)
(*                                                                         *)
(* A game is only ever touched by its own account, or by nobody's while it *)
(* is nobody's yet; its account never changes once it is known; its stages *)
(* only go forward; and time takes it away only if its player has been     *)
(* away for longer than the grace period.                                  *)
(***************************************************************************)
EXTENDS Naturals

CONSTANTS Ids, Pids, NoPid, Grace

VARIABLES
    games,   \* games[id]: the game that has or had the id
    present  \* the accounts that are connected

vars == <<games, present>>

Game ==
    [stage : {"none", "reserved", "published", "gone"},
     host : Pids \cup {NoPid},
     hosted : BOOLEAN,        \* its host is connected
     away : 0..(Grace + 1)]   \* and for how long it has not been

NoGame == [stage |-> "none", host |-> NoPid, hosted |-> FALSE, away |-> 0]
Gone == [stage |-> "gone", host |-> NoPid, hosted |-> FALSE, away |-> 0]
Hosted(stage, p) == [stage |-> stage, host |-> p, hosted |-> TRUE, away |-> 0]
Waiting(stage, p, n) == [stage |-> stage, host |-> p, hosted |-> FALSE, away |-> n]

Listed(g) == g.stage \in {"reserved", "published"}

(* The games that an action of p may touch. *)
Open(p, g) == Listed(g) /\ g.host \in {p, NoPid}

Init == games = [id \in Ids |-> NoGame] /\ present = {}

Arrive(p) == present' = present \cup {p} /\ UNCHANGED games

(* A connected player, or one who is not known yet, opens, updates,         *)
(* publishes, takes over or closes games.                                   *)
Played(p, g, h) ==
    \/ g = NoGame /\ h \in {Hosted("reserved", p), Hosted("published", p)}
    \/ Open(p, g) /\ h \in {Hosted(g.stage, p), Hosted("published", p), Gone}

Play(p) ==
    /\ p \in present \cup {NoPid}
    /\ games' \in [Ids -> Game]
    /\ \A id \in Ids : games'[id] = games[id] \/ Played(p, games[id], games'[id])
    /\ UNCHANGED present

(* A connection ends: the games of the account stay, without a host; those  *)
(* that nobody could reclaim go.                                            *)
Left(p, g, h) ==
    /\ Open(p, g) /\ g.hosted
    /\ h = IF g.host = NoPid THEN Gone ELSE Waiting(g.stage, p, 0)

Leave(p) ==
    /\ p \in present \cup {NoPid}
    /\ games' \in [Ids -> Game]
    /\ \A id \in Ids : games'[id] = games[id] \/ Left(p, games[id], games'[id])
    /\ present' \in {present, present \ {p}}

(* Time passes for the games without a host ... *)
Waited(g, h) == Listed(g) /\ ~g.hosted /\ h = Waiting(g.stage, g.host, g.away + 1)

Wait ==
    /\ games' \in [Ids -> Game]
    /\ \A id \in Ids : games'[id] = games[id] \/ Waited(games[id], games'[id])
    /\ UNCHANGED present

(* ... and those that waited for too long go. *)
Lapsed(g, h) == Listed(g) /\ ~g.hosted /\ g.away > Grace /\ h = Gone

Lapse ==
    /\ games' \in [Ids -> Game]
    /\ \A id \in Ids : games'[id] = games[id] \/ Lapsed(games[id], games'[id])
    /\ UNCHANGED present

Next ==
    \/ \E p \in Pids : Arrive(p)
    \/ \E p \in Pids \cup {NoPid} : Play(p) \/ Leave(p)
    \/ Wait
    \/ Lapse

Spec == Init /\ [][Next]_vars

=============================================================================
