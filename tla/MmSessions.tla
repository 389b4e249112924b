----------------------------- MODULE MmSessions -----------------------------
(***************************************************************************)
(* The directory of joinable games (services 21 and 138, matchmaking.go):  *)
(* the map `sessions`, guarded by sessionsMu, the lobby connections that   *)
(* host the games, and the reaper that removes the games nobody reclaimed. *)
(*                                                                         *)
(* Every action is one critical section of sessionsMu. mmFindSessions is   *)
(* two steps: it collects POINTERS to the sessions under the mutex         *)
(* (FindLock) and reads their fields, one after the other and unguarded,   *)
(* while it writes its reply, which ends with FindReply. What it reads of  *)
(* a session is therefore any mixture of the values the session has in     *)
(* between; a property of the reply is an invariant of those states.       *)
(***************************************************************************)
EXTENDS Naturals, FiniteSets

CONSTANTS
    Conns,      \* lobby connection numbers (never reused, connNum.Add(1))
    Pids,       \* account numbers
    NoPid,      \* PID 0: the connection's identity is not known yet
    NoConn,     \* owner 0: the host is disconnected
    TicketPid,  \* the account whose identity file a connection's ticket names
    Contexts,   \* "d3", "ctr:<title>", ...
    Ids,        \* the random session ids the server can draw; bounds the games
    Infos,      \* values of the bdMatchMakingInfo (address, type, max, attrs)
    NoInfo,     \* the zero info of a session that is only reserved
    Grace,      \* orphanGrace, in clock ticks
    Nil         \* a session id that was never drawn

ASSUME MmAssumption ==
    /\ NoPid \notin Pids
    /\ NoConn \notin Conns
    /\ NoInfo \notin Infos
    /\ TicketPid \in [Conns -> Pids]
    /\ Grace \in Nat

VARIABLES
    phase,   \* phase[c]: "new", "open" or "closed"
    pid,     \* pid[c]: l.pid()
    heap,    \* heap[id]: the mmSession object with that id
    live,    \* the ids that are keys of the map `sessions`
    find     \* find[c]: the pointers of the mmFindSessions that c is running

vars == <<phase, pid, heap, live, find>>

(* mmSession: `info` stands for hostAddr, gameType, maxPlayers, attrs and   *)
(* the player count; `age` is time.Since(orphaned).                         *)
Session ==
    [context : Contexts, owner : Conns \cup {NoConn}, ownerPID : Pids \cup {NoPid},
     reserved : BOOLEAN, info : Infos \cup {NoInfo},
     age : 0..(Grace + 1)]

ASSUME NilAssumption == Nil \notin Session

(* The object is allocated with a fresh random id. *)
Object == Session \cup {Nil}

(* The state of mmFindSessions on a connection: not running, or holding     *)
(* the pointers it found.                                                   *)
Idle == [running |-> FALSE, found |-> {}]
Search == [running : BOOLEAN, found : SUBSET Ids]

TypeOK ==
    /\ phase \in [Conns -> {"new", "open", "closed"}]
    /\ pid \in [Conns -> Pids \cup {NoPid}]
    /\ heap \in [Ids -> Object]
    /\ live \subseteq {id \in Ids : heap[id] # Nil}
    /\ find \in [Conns -> Search]

Init ==
    /\ phase = [c \in Conns |-> "new"]
    /\ pid = [c \in Conns |-> NoPid]
    /\ heap = [id \in Ids |-> Nil]
    /\ live = {}
    /\ find = [c \in Conns |-> Idle]

-----------------------------------------------------------------------------
(* lobbyConn.owns *)
Owns(c, s) ==
    \/ s.owner = c
    \/ pid[c] # NoPid /\ s.ownerPID = pid[c]

(* A connection's goroutine handles one task at a time. *)
Serving(c) == phase[c] = "open" /\ ~find[c].running

Fresh(id) == heap[id] = Nil

(* What every update writes into a session first: a connection of the same  *)
(* account takes the game over.                                            *)
Attached(c, s) == [s EXCEPT !.owner = c, !.ownerPID = pid[c]]

-----------------------------------------------------------------------------
(* The connection completes its handshake: loadIdentity finds the identity *)
(* file, or leaves the connection pending.                                 *)
Connect(c) ==
    /\ phase[c] = "new"
    /\ phase' = [phase EXCEPT ![c] = "open"]
    /\ \E p \in {NoPid, TicketPid[c]} : pid' = [pid EXCEPT ![c] = p]
    /\ UNCHANGED <<heap, live, find>>

(* retryPending, on the goroutine of any connection, finds the identity     *)
(* file of a pending one; nothing stops it from doing so in the middle of   *)
(* c's own task, or after c was closed.                                     *)
Identify(c) ==
    /\ phase[c] # "new"
    /\ pid[c] = NoPid
    /\ pid' = [pid EXCEPT ![c] = TicketPid[c]]
    /\ UNCHANGED <<phase, heap, live, find>>

(* dropSessionsOf, the deferred call of a connection that ends. *)
(* A game without an account goes, the others are detached.                  *)
DroppedNone(c, id) == FALSE             \* a bug: detaches those too
DetachedAgeOnly(s) == [s EXCEPT !.age = 0] \* a bug: keeps the dead owner

Dropped(c, id) == heap[id].owner = c /\ heap[id].ownerPID = NoPid
Detached(s) == [s EXCEPT !.owner = NoConn, !.age = 0]

Drop(c) ==
    /\ Serving(c)
    /\ phase' = [phase EXCEPT ![c] = "closed"]
    /\ live' = {id \in live : ~Dropped(c, id)}
    /\ heap' = [id \in Ids |->
                  IF id \in live /\ ~Dropped(c, id) /\ heap[id].owner = c
                  THEN Detached(heap[id])
                  ELSE heap[id]]
    /\ UNCHANGED <<pid, find>>

-----------------------------------------------------------------------------
(* mmRequestSessionID: allocate an id; the caller's older reservation goes. *)
RequestSessionID(c, ctx, id) ==
    /\ Serving(c)
    /\ Fresh(id)
    /\ live' = {old \in live : ~(/\ heap[old].reserved
                                 /\ heap[old].context = ctx
                                 /\ Owns(c, heap[old]))} \cup {id}
    /\ heap' = [heap EXCEPT ![id] =
                  [context |-> ctx, owner |-> c, ownerPID |-> pid[c], reserved |-> TRUE,
                   info |-> NoInfo, age |-> 0]]
    /\ UNCHANGED <<phase, pid, find>>

(* mmCreateSession: a host recreating its game replaces the old one. *)
ReplacedAnyPid(c, ctx, old) ==          \* a bug: account 0 counts as an account
    heap[old].ownerPID = pid[c] /\ heap[old].context = ctx

Replaced(c, ctx, old) ==
    /\ pid[c] # NoPid
    /\ heap[old].ownerPID = pid[c]
    /\ heap[old].context = ctx

CreateSession(c, ctx, id, info) ==
    /\ Serving(c)
    /\ Fresh(id)
    /\ live' = {old \in live : ~Replaced(c, ctx, old)} \cup {id}
    /\ heap' = [heap EXCEPT ![id] =
                  [context |-> ctx, owner |-> c, ownerPID |-> pid[c], reserved |-> FALSE,
                   info |-> info, age |-> 0]]
    /\ UNCHANGED <<phase, pid, find>>

(* The guard shared by the tasks that name a session. *)
MayTouch(c, ctx, id) == id \in live /\ heap[id].context = ctx /\ Owns(c, heap[id])

(* mmUpdateSession (init = FALSE) and mmInitializeSession (init = TRUE).    *)
(* The replies to unknown or foreign ids change nothing.                    *)
UpdateSession(c, ctx, id, info, init) ==
    /\ Serving(c)
    /\ MayTouch(c, ctx, id)
    /\ heap' = [heap EXCEPT ![id] =
                  IF init
                  THEN [Attached(c, @) EXCEPT !.info = info, !.reserved = FALSE]
                  ELSE [Attached(c, @) EXCEPT !.info = info]]
    /\ UNCHANGED <<phase, pid, live, find>>

(* mmUpdatePlayers: the info that follows the player count may be           *)
(* unreadable (NoInfo here), and then the old one stays.                    *)
Refreshed(s, info) == IF info = NoInfo THEN s ELSE [s EXCEPT !.info = info]

UpdatePlayers(c, ctx, id, info) ==
    /\ Serving(c)
    /\ MayTouch(c, ctx, id)
    /\ heap' = [heap EXCEPT ![id] = Refreshed(Attached(c, heap[id]), info)]
    /\ UNCHANGED <<phase, pid, live, find>>

(* mmDeleteSession *)
DeleteSession(c, ctx, id) ==
    /\ Serving(c)
    /\ MayTouch(c, ctx, id)
    /\ live' = live \ {id}
    /\ UNCHANGED <<phase, pid, heap, find>>

-----------------------------------------------------------------------------
(* mmFindSessions, under the mutex: at most maxr pointers, in map order,    *)
(* after skipping the first `start`, so any subset may be answered.         *)
FindableAll(c, ctx) ==                  \* a bug: answers mere reservations
    {id \in live : ~Owns(c, heap[id]) /\ heap[id].context = ctx}

Findable(c, ctx) ==
    {id \in live : ~Owns(c, heap[id]) /\ heap[id].context = ctx /\ ~heap[id].reserved}

FindLock(c, ctx) ==
    /\ Serving(c)
    /\ \E found \in SUBSET Findable(c, ctx) :
          find' = [find EXCEPT ![c] = [running |-> TRUE, found |-> found]]
    /\ UNCHANGED <<phase, pid, heap, live>>

FindReply(c) ==
    /\ find[c].running
    /\ find' = [find EXCEPT ![c] = Idle]
    /\ UNCHANGED <<phase, pid, heap, live>>

(* onFriendSessions (138/14) for one friend, who is not the caller: the      *)
(* games it answers, copied under the mutex. The id asked for is the PID,    *)
(* or pidOnline resolves it.                                                 *)
FriendSessions(ctx, friend) ==
    {id \in live : /\ heap[id].ownerPID = friend
                   /\ heap[id].context = ctx
                   /\ ~heap[id].reserved}

-----------------------------------------------------------------------------
(* The clock, as far as time.Since(orphaned) tells instants apart. *)
Tick ==
    /\ heap' = [id \in Ids |->
                  IF id \in live /\ heap[id].owner = NoConn /\ heap[id].age <= Grace
                  THEN [heap[id] EXCEPT !.age = @ + 1]
                  ELSE heap[id]]
    /\ UNCHANGED <<phase, pid, live, find>>

(* reapSessionsOnce *)
ExpiredEarly(id) == heap[id].owner = NoConn /\ heap[id].age >= Grace \* a bug: too early
ExpiredReserved(id) ==                  \* a bug: removes mere reservations only
    heap[id].owner = NoConn /\ heap[id].age > Grace /\ heap[id].reserved

Expired(id) == heap[id].owner = NoConn /\ heap[id].age > Grace

Reap ==
    /\ live' = {id \in live : ~Expired(id)}
    /\ UNCHANGED <<phase, pid, heap, find>>

-----------------------------------------------------------------------------
Task(c) ==
    \/ \E ctx \in Contexts, id \in Ids :
         \/ RequestSessionID(c, ctx, id)
         \/ DeleteSession(c, ctx, id)
         \/ \E info \in Infos :
              \/ CreateSession(c, ctx, id, info)
              \/ \E init \in BOOLEAN : UpdateSession(c, ctx, id, info, init)
         \/ \E info \in Infos \cup {NoInfo} : UpdatePlayers(c, ctx, id, info)
    \/ \E ctx \in Contexts : FindLock(c, ctx)
    \/ FindReply(c)

Next ==
    \/ \E c \in Conns : Connect(c) \/ Identify(c) \/ Drop(c) \/ Task(c)
    \/ Tick
    \/ Reap

Spec == Init /\ [][Next]_vars

(* Time passes and the reaper's ticker fires (reapSessions never returns). *)
FairSpec == Spec /\ WF_vars(Tick) /\ WF_vars(Reap)

-----------------------------------------------------------------------------
(* A game that has a host connection is hosted by a connection that is     *)
(* still open: no task, replacement or takeover leaves a game attached to  *)
(* a connection whose dropSessionsOf has already run (nothing would ever   *)
(* detach it, so the reaper would never remove it).                        *)
OwnerAlive ==
    \A id \in live : heap[id].owner # NoConn => phase[heap[id].owner] = "open"

(* Somebody can always reclaim a game: a detached one carries the account  *)
(* of its host, and an attached one the account of its connection (or      *)
(* none yet), although identities arrive late and connections change.      *)
HostAccountable ==
    \A id \in live :
       /\ heap[id].owner = NoConn => heap[id].ownerPID # NoPid
       /\ heap[id].owner # NoConn => heap[id].ownerPID \in {NoPid, pid[heap[id].owner]}

(* mmFindSessions answers published games only, whatever happens between   *)
(* the moment it collects its pointers and the moment it reads through     *)
(* them: all the while they lead to sessions that are not mere             *)
(* reservations and that have room information to read.                    *)
AnswersPublished ==
    \A c \in Conns : \A id \in find[c].found :
       /\ heap[id] # Nil
       /\ ~heap[id].reserved
       /\ heap[id].info # NoInfo

(* Once a game belongs to an account it never becomes another account's,   *)
(* however often it is taken over, updated, detached and reclaimed.        *)
HostKept ==
    \A id \in live : heap[id].ownerPID # NoPid => heap'[id].ownerPID = heap[id].ownerPID

HostNeverChanges == [][HostKept]_vars

(* A task of a connection changes or removes only games which that         *)
(* connection owned when the task ran: created and reserved games replace  *)
(* the caller's own and nobody else's.                                     *)
StrangersKept ==
    \A c \in Conns : Task(c) =>
       \A id \in live : ~Owns(c, heap[id]) => id \in live' /\ heap'[id] = heap[id]

StrangersTouchNothing == [][StrangersKept]_vars

(* The game of a known account disappears only by a step of an owner that  *)
(* is connected, or once it has been without a host for longer than        *)
(* orphanGrace: a host that reconnects in time finds its game.             *)
GraceKept ==
    \A id \in live \ live' :
       heap[id].ownerPID # NoPid =>
          \/ \E c \in Conns : phase'[c] = "open" /\ Owns(c, heap[id])
          \/ heap[id].owner = NoConn /\ heap[id].age > Grace

GraceHonoured == [][GraceKept]_vars

(* A host that left for good does not look joinable for ever: its friends   *)
(* stop finding its games, unless it connects again.                        *)
HostGone(friend) == \A c \in Conns : phase[c] = "open" => pid[c] # friend

FriendsForget ==
    \A ctx \in Contexts, friend \in Pids :
       (HostGone(friend) /\ FriendSessions(ctx, friend) # {})
          ~> (~HostGone(friend) \/ FriendSessions(ctx, friend) = {})

-----------------------------------------------------------------------------
(* What the directory promises (Directory): the ids that are keys of the    *)
(* map are its games, and the accounts of open connections are present.     *)
Outline(s, listed) ==
    [stage |-> IF s = Nil THEN "none"
               ELSE IF ~listed THEN "gone"
               ELSE IF s.reserved THEN "reserved" ELSE "published",
     host |-> IF listed THEN s.ownerPID ELSE NoPid,
     hosted |-> listed /\ s.owner # NoConn,
     away |-> IF listed /\ s.owner = NoConn THEN s.age ELSE 0]

Games == [id \in Ids |-> Outline(heap[id], id \in live)]

Present == {pid[c] : c \in {d \in Conns : phase[d] = "open"}} \ {NoPid}

Promised == INSTANCE Directory WITH games <- Games, present <- Present

(* Every task, lookup, late identity, lost connection and round of the      *)
(* reaper is a step that the directory's promise allows.                    *)
KeepsPromise == Promised!Spec

=============================================================================
