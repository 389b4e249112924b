--------------------------- MODULE CtrMatchmaker ---------------------------
(***************************************************************************)
(* Crash Team Racing's asynchronous matchmaker (service 145): ctr_async.go *)
(* and ctr_merge.go. A search waits in a queue, is seated in an open room  *)
(* or forms a new one; the host of a room is told (2005, 2006) whom to     *)
(* expect and answers by uploading its document, and only then are the     *)
(* guests told to join (2001). Two half-empty rooms are merged: the seats  *)
(* are reserved in the destination, its host acknowledges them, and the    *)
(* source's players are told to move (2008).                               *)
(*                                                                         *)
(* Every action is one critical section of ctrMatchmaker.mu, on the        *)
(* goroutine of the connection that sent the task.                         *)
(***************************************************************************)
EXTENDS Naturals, Sequences, FiniteSets, FiniteSetsExt

CONSTANTS
    Conns,    \* lobby connections
    Pids,     \* account numbers
    ConnPid,  \* the account of each connection
    Loads,    \* workloads: the search documents that each connection may send,
              \* and a bound of ctrIDs, the counter of search and room numbers
    NoRoom    \* no mergeSource, no mergeTarget

ASSUME CtrAssumption ==
    /\ ConnPid \in [Conns -> Pids]
    /\ NoRoom \notin Nat
    /\ \A l \in Loads : l.ids \in Nat
    /\ \A l \in Loads, c \in Conns : \A d \in l.sends[c] :
         /\ d.members \subseteq Pids /\ IsFiniteSet(d.members)
         /\ d.min \in Nat /\ d.max \in Nat

VARIABLES
    load,     \* the workload, chosen at the start
    phase,    \* phase[c]: "new", "open" or "closed"
    ctrIDs,   \* the last number given out
    waiting,  \* the queue of searches
    rooms,    \* the room objects that are reachable, by id
    live,     \* the ids that are keys of the map m.rooms
    told      \* (history) the searches sent 2005, 2001 or 2008

vars == <<load, phase, ctrIDs, waiting, rooms, live, told>>

MaxId == load.ids

(***************************************************************************)
(* ctrSearch. Its seats are always the number of its members.              *)
(***************************************************************************)
Search == [id : 1..MaxId, conn : Conns, pid : Pids, members : SUBSET Pids,
           min : 1..8, max : 1..8,
           filter : {d.filter : d \in UNION {load.sends[c] : c \in Conns}}]

(***************************************************************************)
(* ctrRoom. `open` and `states` are what the server reads of hostDoc: the  *)
(* flag lobby_open and player_state, where 2 is a connected peer, 3 one    *)
(* that failed to join, and 0 any other value, absence included. The       *)
(* player list is a set: its order is never observed. `host` is the        *)
(* creating search, of which only the immutable fields are used.           *)
(*                                                                         *)
(* The room's version is abstracted to what its comparison decides: a sync *)
(* is accepted exactly when the host composed its document from a notice   *)
(* with the current update_id. `offers` (history) holds the player lists   *)
(* of the notices sent under the current version, so raising the version   *)
(* empties it; `acked` (history) the searches in the lists from which the  *)
(* accepted documents were composed.                                       *)
(***************************************************************************)
Room == [host : Search, players : SUBSET Search, open : BOOLEAN,
         states : [Pids -> {0, 2, 3}], capacity : 1..8, notified : SUBSET Conns,
         source : 1..MaxId \cup {NoRoom}, target : 1..MaxId \cup {NoRoom},
         offers : SUBSET SUBSET (1..MaxId), acked : SUBSET (1..MaxId)]

TypeOK ==
    /\ load \in Loads
    /\ phase \in [Conns -> {"new", "open", "closed"}]
    /\ ctrIDs \in 0..MaxId
    /\ waiting \in Seq(Search)
    /\ DOMAIN rooms \subseteq 1..MaxId /\ rooms \in [DOMAIN rooms -> Room]
    /\ live \subseteq DOMAIN rooms
    /\ told \subseteq 1..MaxId

Init ==
    /\ load \in Loads
    /\ phase = [c \in Conns |-> "new"]
    /\ ctrIDs = 0
    /\ waiting = <<>>
    /\ rooms = [i \in {} |-> 0]
    /\ live = {}
    /\ told = {}

-----------------------------------------------------------------------------
(* The searches at the positions `ks` of a queue, in their order. *)
Taking(q, ks) ==
    [n \in 1..Cardinality(ks) |-> q[CHOOSE k \in ks : Cardinality({j \in ks : j < k}) = n - 1]]

-----------------------------------------------------------------------------
(* Rooms *)

(* ctrRoom.failed, for the host's word on an account. *)
Failed(r, p) == p # r.host.pid /\ r.states[p] = 3

Members(players) == UNION {s.members : s \in players}

(* The seats that searches take for the accounts in ps: people, not searches. *)
Seats(players, ps) == Cardinality({x \in players \X ps : x[2] \in x[1].members})

(* The seats taken by the room's own players. *)
Seated(r) == Seats(r.players, {p \in Pids : ~Failed(r, p)})

(* ctrRoom.occupancy: a pending merge has reserved the seats of the source, *)
(* which has no source itself (MergeLinked).                                *)
Occupancy(rs, i) ==
    Seated(rs[i]) + (IF rs[i].source = NoRoom THEN 0 ELSE Seated(rs[rs[i].source]))

(* ctrRoom.connected *)
Connected(r) == Seats(r.players, {p \in Pids : r.states[p] = 2})

(* delete(states, pid) for every member: a retry does not inherit the       *)
(* failed state it left behind.                                             *)
Forget(states, ps) == [p \in Pids |-> IF p \in ps THEN 0 ELSE states[p]]

(* Seating searches in a room, without their notices. *)
Seat(r, ss) ==
    [r EXCEPT !.players = @ \cup ss,
              !.states = Forget(@, Members(ss)),
              !.capacity = Min({@} \cup {s.max : s \in ss})]

(* version++, and the notice to the host that carries the new list.         *)
BumpNothing(r) == r                     \* a bug: the version stays
Bump(r) == [r EXCEPT !.offers = {}]

(* The searches that a pending merge is to bring. *)
Coming(rs, i) == IF rs[i].source = NoRoom THEN {} ELSE rs[rs[i].source].players

(* ctrRoom.documents: whom the host is told to expect. *)
Expected(rs, i) ==
    {s.id : s \in {p \in rs[i].players \cup Coming(rs, i) : \E m \in p.members : ~Failed(rs[i], m)}}

Announce(rs, i) == [rs EXCEPT ![i].offers = @ \cup {Expected(rs, i)}]

Renew(rs, i) == Announce([rs EXCEPT ![i] = Bump(@)], i)

(* A mergeTarget whose room is gone is cleared when it is met. *)
Unlink(rs, lv, is) ==
    [i \in DOMAIN rs |-> IF i \in is /\ rs[i].target # NoRoom /\ rs[i].target \notin lv
                         THEN [rs[i] EXCEPT !.target = NoRoom] ELSE rs[i]]

(* Objects to which neither the map nor a room of the map points are gone. *)
Reachable(rs, lv) ==
    LET kept == {i \in DOMAIN rs : i \in lv \/ \E j \in lv : rs[j].source = i}
    IN  [i \in kept |-> rs[i]]

Install(rs, lv) == rooms' = Reachable(rs, lv) /\ live' = lv

-----------------------------------------------------------------------------
(* The connection is accepted and identified; and ends (leave(l, 0)).       *)
(* Bound: one that will not search, and so be in no list, stays away.       *)
Connect(c) ==
    /\ phase[c] = "new"
    /\ load.sends[c] # {}
    /\ phase' = [phase EXCEPT ![c] = "open"]
    /\ UNCHANGED <<ctrIDs, waiting, rooms, live, told>>

(* leave: the queued searches of the connection go, a room it hosts is      *)
(* deleted, another room loses its player.                                  *)
LeaveRooms(c, is) ==
    LET rs == [i \in DOMAIN rooms |->
                 IF i \in live \cap is /\ rooms[i].host.conn # c
                 THEN [rooms[i] EXCEPT !.players = {s \in @ : s.conn # c}]
                 ELSE rooms[i]]
        lv == {i \in live : ~(i \in is /\ rooms[i].host.conn = c)}
    IN  Install(rs, lv)

LeaveNotQueue(c, is) ==                 \* a bug: the queued search survives
    /\ LeaveRooms(c, is)
    /\ waiting' = waiting

Leave(c, is) ==
    /\ LeaveRooms(c, is)
    /\ waiting' = Taking(waiting, {k \in DOMAIN waiting : waiting[k].conn # c})

Disconnect(c) ==
    /\ phase[c] = "open"
    /\ phase' = [phase EXCEPT ![c] = "closed"]
    /\ Leave(c, live)
    /\ UNCHANGED <<ctrIDs, told>>

(* taskLobbyDisbanded: the room the client names, none if that is gone, or  *)
(* all of them (the number 0).                                              *)
LobbyDisbanded(c, is) ==
    /\ phase[c] = "open"
    /\ Leave(c, is)
    /\ UNCHANGED <<phase, ctrIDs, told>>

(* cancel *)
Cancel(c, id) ==
    /\ phase[c] = "open"
    /\ \E k \in DOMAIN waiting :
          /\ waiting[k].conn = c /\ waiting[k].id = id
          /\ waiting' = Taking(waiting, DOMAIN waiting \ {k})
    /\ UNCHANGED <<phase, ctrIDs, rooms, live, told>>

-----------------------------------------------------------------------------
(* parseCTRSearch: what a search must look like to be enqueued. *)
ValidSearch(c, d) ==
    /\ Cardinality(d.members) \in 1..8
    /\ d.min >= 1 /\ d.max >= d.min /\ d.max <= 8
    /\ ConnPid[c] \in d.members
    /\ Cardinality(d.members) <= d.max

NewSearch(c, d) ==
    [id |-> ctrIDs + 1, conn |-> c, pid |-> ConnPid[c], members |-> d.members,
     min |-> d.min, max |-> d.max, filter |-> d.filter]

(* A player who searches again is not in a lobby any more. *)
EvictedLive(s) == {i \in live : rooms[i].host.pid # s.pid}

EvictedHostsOnly(s) == rooms            \* a bug: a guest keeps its seat

EvictedRooms(s) ==
    [i \in DOMAIN rooms |->
       IF i \in EvictedLive(s)
       THEN LET gone == {p \in rooms[i].players : p.pid = s.pid}
            IN  [rooms[i] EXCEPT !.players = @ \ gone,
                                 !.notified = @ \ {p.conn : p \in gone}]
       ELSE rooms[i]]

(* The order in which candidate rooms are tried. *)
Before(rs, i, j) ==
    \/ Occupancy(rs, i) > Occupancy(rs, j)
    \/ Occupancy(rs, i) = Occupancy(rs, j) /\ i < j

(* The room would be selected for the search. *)
Suits(rs, i, s) ==
    LET r == rs[i]
        n == Occupancy(rs, i) + Cardinality(s.members)
    IN  /\ r.target = NoRoom /\ r.source = NoRoom
        /\ r.open
        /\ r.host.filter = s.filter
        /\ n <= r.capacity
        /\ n <= s.max

(* The greedy pass over a queue: the positions it takes. <<taken, k>> is in *)
(* `adds` if position k is taken after the positions in `taken`; the pass   *)
(* goes from front to back, so exactly one set qualifies.                   *)
Greedy(q, adds) ==
    CHOOSE g \in SUBSET DOMAIN q :
       \A k \in DOMAIN q : k \in g <=> <<{j \in g : j < k}, k>> \in adds

Turns(q) == (SUBSET DOMAIN q) \X DOMAIN q

(* A new lobby holds 2 to 8 players, within the slots of all its searches. *)
GroupMin(ss) == Max({2} \cup {s.min : s \in ss})
GroupMax(ss) == Min({8} \cup {s.max : s \in ss})

GroupAdds(q, filter, taken, k) ==
    LET before == {q[j] : j \in taken}
        after == before \cup {q[k]}
    IN  /\ q[k].filter = filter
        /\ GroupMin(after) <= GroupMax(after)
        /\ Seats(after, Pids) <= GroupMax(after)

Group(q, filter) ==
    Greedy(q, {x \in Turns(q) : GroupAdds(q, filter, x[1], x[2])})

Keep(q, g) == Taking(q, DOMAIN q \ g)

(* The room that a group forms; its host, the first of the queue, gets 2005. *)
NewRoom(q, g) ==
    LET ss == {q[k] : k \in g} IN
    [host |-> q[Min(g)], players |-> ss, open |-> TRUE,
     states |-> [p \in Pids |-> 0], capacity |-> GroupMax(ss),
     notified |-> {q[Min(g)].conn}, source |-> NoRoom, target |-> NoRoom,
     offers |-> {{s.id : s \in ss}}, acked |-> {}]

(* enqueue, one action per outcome: seated in a room, left waiting, or the  *)
(* last one a new room was waiting for.                                     *)
Dequeued(s) == Taking(waiting, {k \in DOMAIN waiting : waiting[k].pid # s.pid})

Suitable(s) ==
    LET rs == Unlink(EvictedRooms(s), EvictedLive(s), EvictedLive(s))
    IN  {i \in EvictedLive(s) : Suits(rs, i, s)}

JoinRoom(c, d) ==
    LET s == NewSearch(c, d)
        rs == EvictedRooms(s)
        lv == EvictedLive(s)
    IN  /\ Suitable(s) # {}
        /\ LET i == CHOOSE k \in Suitable(s) : \A j \in Suitable(s) \ {k} : Before(rs, k, j)
               tried == {j \in lv : j = i \/ Before(rs, j, i)}
           IN  Install(Renew([Unlink(rs, lv, tried) EXCEPT ![i] = Seat(@, {s})], i), lv)
        /\ waiting' = Dequeued(s)
        /\ ctrIDs' = ctrIDs + 1
        /\ UNCHANGED told

WaitInQueue(c, d) ==
    LET s == NewSearch(c, d)
        q == Append(Dequeued(s), s)
        ss == {q[k] : k \in Group(q, s.filter)}
    IN  /\ Suitable(s) = {}
        /\ Seats(ss, Pids) < GroupMin(ss)
        /\ Install(Unlink(EvictedRooms(s), EvictedLive(s), EvictedLive(s)), EvictedLive(s))
        /\ waiting' = q
        /\ ctrIDs' = ctrIDs + 1
        /\ UNCHANGED told

FormRoom(c, d) ==
    LET s == NewSearch(c, d)
        q == Append(Dequeued(s), s)
        g == Group(q, s.filter)
        ss == {q[k] : k \in g}
        i == ctrIDs + 2
        rs == Unlink(EvictedRooms(s), EvictedLive(s), EvictedLive(s))
    IN  /\ Suitable(s) = {}
        /\ Seats(ss, Pids) >= GroupMin(ss)
        /\ i <= MaxId
        /\ Install([j \in DOMAIN rs \cup {i} |-> IF j = i THEN NewRoom(q, g) ELSE rs[j]],
                   EvictedLive(s) \cup {i})
        /\ waiting' = Keep(q, g)
        /\ ctrIDs' = i
        /\ told' = told \cup {q[Min(g)].id}

Enqueue(c, d) ==
    /\ phase[c] = "open"
    /\ ctrIDs < MaxId
    /\ ValidSearch(c, d)
    /\ JoinRoom(c, d) \/ WaitInQueue(c, d) \/ FormRoom(c, d)
    /\ UNCHANGED phase

-----------------------------------------------------------------------------
(* syncDoc and the merges. Their stages hand on a record m: the rooms, the  *)
(* keys of the map, the queue, the searches told to join, and whether any   *)
(* notice was produced.                                                     *)

MergeOpen(rs, i) ==
    rs[i].open /\ Connected(rs[i]) = Occupancy(rs, i) /\ Occupancy(rs, i) > 0

Disjoint(a, b) == Members(a.players) \cap Members(b.players) = {}

(* finishMerge: the destination's host has answered the reservation. *)
MergeValid(m, i) ==
    LET dst == m.rs[i]
        j == dst.source
        src == m.rs[j]
    IN  /\ j \in m.lv /\ src.target = i
        /\ dst.open /\ MergeOpen(m.rs, j) /\ Disjoint(dst, src)
        /\ \A p \in Members(src.players) : dst.states[p] # 3

MergeCommit(m, i) ==
    LET j == m.rs[i].source
        src == m.rs[j]
        dst == [m.rs[i] EXCEPT !.source = NoRoom,
                               !.capacity = Min({@, src.capacity}),
                               !.players = @ \cup src.players,
                               !.notified = @ \cup {s.conn : s \in src.players}]
    IN  [m EXCEPT !.rs[i] = dst,
                  !.lv = @ \ {j},
                  !.told = @ \cup {s.id : s \in src.players},
                  !.sent = TRUE]

MergeCancelHalf(m, i) ==                \* a bug: the source stays promised
    [m EXCEPT !.rs = Renew([@ EXCEPT ![i].source = NoRoom], i), !.sent = TRUE]

MergeCancel(m, i) ==
    LET j == m.rs[i].source
    IN  [m EXCEPT !.rs = Renew([@ EXCEPT ![i].source = NoRoom, ![j].target = NoRoom], i),
                  !.sent = TRUE]

FinishMerge(m, i) ==
    IF m.rs[i].source = NoRoom THEN m
    ELSE IF MergeValid(m, i) THEN MergeCommit(m, i) ELSE MergeCancel(m, i)

(* The members the host rejected lose their seats, their party does not.    *)
ReleaseFailed(r) ==
    LET Left(s) == {p \in s.members : ~Failed(r, p)}
    IN  [r EXCEPT !.players = {[s EXCEPT !.members = Left(s)] : s \in {t \in @ : Left(t) # {}}},
                  !.notified = @ \ {s.conn : s \in {t \in r.players : Left(t) = {}}}]

(* The guests the host knows of by now are released (2001). *)
NotifyGuests(m, i) ==
    LET fresh == {s \in m.rs[i].players : s.conn \notin m.rs[i].notified}
    IN  [m EXCEPT !.rs[i].notified = @ \cup {s.conn : s \in fresh},
                  !.told = @ \cup {s.id : s \in fresh},
                  !.sent = @ \/ fresh # {}]

(* Waiting searches are reconsidered for the room, in queue order. *)
BackfillAdds(r, q, taken, k) ==
    LET now == Seat(r, {q[j] : j \in taken})
    IN  /\ q[k].filter = r.host.filter
        /\ Seated(now) + Cardinality(q[k].members) <= Min({now.capacity, q[k].max})

Backfill(m, i) ==
    LET r == m.rs[i]
        g == Greedy(m.q, {x \in Turns(m.q) : BackfillAdds(r, m.q, x[1], x[2])})
    IN  IF r.open /\ r.target = NoRoom /\ r.source = NoRoom /\ g # {}
        THEN [m EXCEPT !.rs = Renew([@ EXCEPT ![i] = Seat(r, {m.q[k] : k \in g})], i),
                       !.q = Keep(@, g),
                       !.sent = TRUE]
        ELSE m

(* startMerge: the rooms that may move into room i. The smaller one moves,  *)
(* and of two equal ones the younger.                                       *)
MergeSourcesAnySize(rs, lv, i) ==       \* a bug: the lobby sizes are not added up
    {j \in lv \ {i} :
       /\ rs[j].target = NoRoom /\ rs[j].source = NoRoom
       /\ MergeOpen(rs, j)
       /\ rs[j].host.filter = rs[i].host.filter
       /\ Before(rs, i, j)
       /\ Disjoint(rs[i], rs[j])}

MergeSources(rs, lv, i) ==
    {j \in lv \ {i} :
       /\ rs[j].target = NoRoom /\ rs[j].source = NoRoom
       /\ MergeOpen(rs, j)
       /\ rs[j].host.filter = rs[i].host.filter
       /\ Before(rs, i, j)
       /\ Occupancy(rs, i) + Occupancy(rs, j) <= Min({rs[i].capacity, rs[j].capacity})
       /\ Disjoint(rs[i], rs[j])}

MergeReserve(rs, i, j) ==
    Renew([rs EXCEPT ![i].source = j,
                     ![i].states = Forget(@, Members(rs[j].players)),
                     ![j].target = i], i)

StartMerge(m, i) ==
    LET rs == Unlink(m.rs, m.lv, {i})
        candidates == MergeSources(rs, m.lv, i)
        Best == CHOOSE j \in candidates : \A k \in candidates \ {j} : Before(rs, j, k)
    IN  IF /\ rs[i].target = NoRoom /\ rs[i].source = NoRoom
           /\ MergeOpen(rs, i)
           /\ candidates # {}
        THEN [m EXCEPT !.rs = MergeReserve(rs, i, Best)]
        ELSE [m EXCEPT !.rs = rs]

(* syncDoc: the host of room i uploads a document composed from `offer`. *)
AcceptDoc(i, offer, open, states) ==
    [rs |-> [rooms EXCEPT ![i].open = open, ![i].states = states, ![i].acked = @ \cup offer],
     lv |-> live, q |-> waiting, told |-> told, sent |-> FALSE]

SyncStages(m0, i) ==
    LET m1 == FinishMerge(m0, i)
        m2 == [m1 EXCEPT !.rs[i] = ReleaseFailed(@)]
        m3 == Backfill(NotifyGuests(m2, i), i)
    IN  IF m3.sent THEN m3 ELSE StartMerge(m3, i)

SyncDoc(c, i, offer, open, states) ==
    /\ phase[c] = "open"
    /\ rooms[i].host.conn = c
    /\ LET m == SyncStages(AcceptDoc(i, offer, open, states), i)
       IN  Install(m.rs, m.lv) /\ waiting' = m.q /\ told' = m.told
    /\ UNCHANGED <<phase, ctrIDs>>

(* The states the host may report: of those it was told to expect (any      *)
(* other entry is deleted before the server looks at it).                   *)
Reports(i) ==
    LET known == Members(rooms[i].players \cup Coming(rooms, i))
    IN  {[p \in Pids |-> IF p \in known THEN f[p] ELSE 0] : f \in [known -> {0, 2, 3}]}

-----------------------------------------------------------------------------
Step ==
    \E c \in Conns :
       \/ Connect(c)
       \/ Disconnect(c)
       \/ \E d \in load.sends[c] : Enqueue(c, d)
       \/ \E id \in 1..MaxId : Cancel(c, id)
       \/ \E is \in {{}, live} \cup {{i} : i \in live} : LobbyDisbanded(c, is)
       \/ \E i \in live :
            \E offer \in rooms[i].offers, open \in BOOLEAN, states \in Reports(i) :
               SyncDoc(c, i, offer, open, states)

Next == Step /\ UNCHANGED load

Spec == Init /\ [][Next]_vars

-----------------------------------------------------------------------------
Queued == {waiting[k] : k \in DOMAIN waiting}

(* A leader is in one place: a retry, an eviction, a backfill and a merge   *)
(* never leave two searches of one account in the queue and the rooms.      *)
LeaderOnce ==
    /\ \A j, k \in DOMAIN waiting : waiting[j].pid = waiting[k].pid => j = k
    /\ \A i \in live : \A s \in rooms[i].players :
         /\ \A t \in Queued : t.pid # s.pid
         /\ \A j \in live : \A t \in rooms[j].players : t.pid = s.pid => i = j /\ s.id = t.id

(* A room never holds more people than it has seats, those reserved for a  *)
(* pending merge included: the host is never told to expect more.          *)
SeatsRespected == \A i \in live : Occupancy(rooms, i) <= rooms[i].capacity

(* Whoever waits or is seated is connected, and a room has its host: the   *)
(* deferred leave of an ended connection leaves nothing of it behind, not  *)
(* even when a merge is moving it from one room to another.                *)
PlacedConnected ==
    /\ \A s \in Queued : phase[s.conn] = "open"
    /\ \A i \in live : /\ \A s \in rooms[i].players : phase[s.conn] = "open"
                       /\ \E s \in rooms[i].players : s.id = rooms[i].host.id

(* A guest is told to join (2001, 2008) only after the host supplied a      *)
(* document composed from a list with that guest in it (ctr_async.go:446,   *)
(* README "host-document sync before a guest joins"): a sync that crosses   *)
(* a join, a backfill or a merge does not release the newcomers.            *)
GuestsAcknowledged ==
    \A i \in live : \A s \in rooms[i].players :
       s.id \in told /\ s.id # rooms[i].host.id =>
          s.id \in rooms[i].acked

(* The two ends of a pending merge agree, a source is no destination, and  *)
(* no room is reserved twice.                                              *)
MergeLinked ==
    \A i \in live :
       /\ rooms[i].source # NoRoom =>
            LET src == rooms[rooms[i].source]
            IN  src.target = i /\ src.source = NoRoom /\ rooms[i].target = NoRoom
       /\ rooms[i].target \in live => rooms[rooms[i].target].source = i

(* ctr_async.go:446, "Release pending guests only after the host has        *)
(* supplied its document": once it has, a seated guest has been released.   *)
GuestsReleased ==
    \A i \in live : \A s \in rooms[i].players : s.id \in rooms[i].acked => s.id \in told

=============================================================================
