----------------------------- MODULE LobbyConn -----------------------------
(***************************************************************************)
(* The life of a lobby connection and everything that is written to it:    *)
(* lobbyConn.run and the handshake (handshake.go), the dispatch of its     *)
(* tasks (services.go onTask), and the two ways in which other goroutines  *)
(* reach it, the matchmaker's notices (ctr_async.go sendCTRNotices) and    *)
(* the maps from which its deferred calls remove it.                       *)
(*                                                                         *)
(* Each connection has one goroutine, which reads a task, computes the     *)
(* reply, sends it, and then runs what the task put into afterReply. What  *)
(* it sends then may go to other connections, so several goroutines write  *)
(* to one socket: sendEncrypted numbers and writes a frame under the       *)
(* connection's sendMu. The client gives each reply to its oldest pending  *)
(* task (services.go:210): it does not look at any id. A task too short to *)
(* have an id gets no reply at all.                                        *)
(*                                                                         *)
(* The services behind the tasks have their own modules. Here a task is    *)
(* what it does to the connection: nothing, a game, a search, the end of a *)
(* search, a host's document, or a push to the player itself. Which notices *)
(* the matchmaker makes is left open: any, for the searches that it holds. *)
(***************************************************************************)
EXTENDS Naturals, FiniteSets, Sequences

CONSTANTS
    Conns,     \* connections, and their goroutines
    Asks,      \* Asks[c][k]: the kinds that the k-th task of c may have
    Ticketed,  \* connections whose 0x82 holds a ticket
    Free,      \* no goroutine holds a mutex
    MaxTasks   \* bound: the tasks that any client sends

Kinds == {"plain", "short", "unreadable", "create", "search", "leave", "sync", "push"}

ASSUME ConnAssumption ==
    /\ MaxTasks \in Nat
    /\ Free \notin Conns
    /\ Asks \in [Conns -> [1..MaxTasks -> SUBSET Kinds]]
    /\ Ticketed \subseteq Conns

VARIABLES
    pc,        \* pc[c]: where the goroutine of c is
    keyed,     \* connections with l.keys
    tasks,     \* tasks[c]: the tasks read from c
    dropped,   \* (history) dropped[c]: those that onTask returned from at once
    after,     \* after[c]: what l.afterReply will do
    notices,   \* notices[c]: the pushes that c's goroutine has yet to send
    snd,       \* snd[c]: the frame that c's goroutine is sending
    mu,        \* mu[c]: the goroutine that holds c's sendMu
    seq,       \* seq[c]: l.s2cSeq
    wire,      \* wire[c]: the encrypted frames written to c's socket
    broken,    \* connections on which a write failed
    listed,    \* connStats of the dashboard
    online,    \* connections in `online` or `pending`
    games,     \* connections that own games
    search     \* search[c]: the task of c's search in the matchmaker, or 0

vars == <<pc, keyed, tasks, dropped, after, notices, snd, mu, seq, wire, broken,
          listed, online, games, search>>

(* A push about the search that was task number `of` of its connection, or  *)
(* about something else (0).                                                *)
Notice == [to : Conns, of : 0..MaxTasks]

Frame == [to : Conns, kind : {"reply", "push"}, of : 0..MaxTasks, num : Nat]
NoFrame == [kind |-> "none"]

TypeOK ==
    /\ pc \in [Conns -> {"new", "hello", "auth", "serving", "replying", "after", "notifying",
                         "ending", "left", "closed"}]
    /\ keyed \subseteq Conns
    /\ tasks \in [Conns -> 0..MaxTasks]
    /\ dropped \in [Conns -> SUBSET (1..MaxTasks)]
    /\ after \in [Conns -> {"none", "enqueue", "notify"}]
    /\ notices \in [Conns -> SUBSET Notice]
    /\ snd \in [Conns -> Frame \cup {NoFrame}]
    /\ mu \in [Conns -> Conns \cup {Free}]
    /\ seq \in [Conns -> Nat]
    /\ wire \in [Conns -> Seq(Frame)]
    /\ broken \subseteq Conns
    /\ listed \subseteq Conns
    /\ online \subseteq Conns
    /\ games \subseteq Conns
    /\ search \in [Conns -> 0..MaxTasks]

Init ==
    /\ pc = [c \in Conns |-> "new"]
    /\ keyed = {}
    /\ tasks = [c \in Conns |-> 0]
    /\ dropped = [c \in Conns |-> {}]
    /\ after = [c \in Conns |-> "none"]
    /\ notices = [c \in Conns |-> {}]
    /\ snd = [c \in Conns |-> NoFrame]
    /\ mu = [c \in Conns |-> Free]
    /\ seq = [c \in Conns |-> 0]
    /\ wire = [c \in Conns |-> <<>>]
    /\ broken = {}
    /\ listed = {} /\ online = {} /\ games = {}
    /\ search = [c \in Conns |-> 0]

Goto(c, label) == pc' = [pc EXCEPT ![c] = label]

writing == <<after, notices, snd, mu, seq, wire>>
services == <<listed, online, games, search>>

-----------------------------------------------------------------------------
(* startLobby accepts the connection; its goroutine registers it and runs. *)
Accept(c) ==
    /\ pc[c] = "new"
    /\ Goto(c, "hello")
    /\ listed' = listed \cup {c}
    /\ UNCHANGED <<keyed, tasks, dropped, broken, online, games, search, writing>>

(* run: the hello and the answer 0x81. *)
Hello(c) ==
    /\ pc[c] = "hello"
    /\ Goto(c, "auth")
    /\ UNCHANGED <<keyed, tasks, dropped, broken, services, writing>>

(* A 0x82 that one of the candidate keys authenticates: the keys, the      *)
(* identity if the ticket was found, and the answer 0x83. A 0x82 that none *)
(* does, and any other frame before, is logged: the connection stays.      *)
OnClientAuth(c) ==
    /\ pc[c] = "auth"
    /\ keyed' = keyed \cup {c}
    /\ online' = IF c \in Ticketed THEN online \cup {c} ELSE online
    /\ \/ Goto(c, "serving") /\ UNCHANGED broken
       \/ Goto(c, "ending") /\ broken' = broken \cup {c}
    /\ UNCHANGED <<tasks, dropped, listed, games, search, writing>>

(* An empty frame is sent back, outside sendMu; nobody looks at the error. *)
Keepalive(c) ==
    /\ pc[c] \in {"auth", "serving"}
    /\ broken' \in {broken, broken \cup {c}}
    /\ UNCHANGED <<pc, keyed, tasks, dropped, services, writing>>

(* The read fails: the client closed, half an hour of silence, or a frame   *)
(* that is too long; or the hello was wrong, or 0x81 could not be sent.     *)
ReadFails(c) ==
    /\ pc[c] \in {"hello", "auth", "serving"}
    /\ Goto(c, "ending")
    /\ UNCHANGED <<keyed, tasks, dropped, broken, services, writing>>

-----------------------------------------------------------------------------
(* The matchmaker, as far as a connection sees it: after an operation it    *)
(* has a notice for some of the searches it holds (CtrMatchmaker).          *)
Notified(held) == SUBSET {[to |-> d, of |-> held[d]] : d \in {e \in Conns : held[e] # 0}}

(* onTask: the service does its work and builds the reply, number k of the  *)
(* connection. What a search and a push do waits for afterReply; a sync has *)
(* its notices at once, and sends them then.                                *)
AfterTask(c, kind) ==
    CASE kind = "search" -> after' = [after EXCEPT ![c] = "enqueue"] /\ UNCHANGED notices
      [] kind = "sync"   -> /\ after' = [after EXCEPT ![c] = "notify"]
                            /\ \E ns \in Notified(search) : notices' = [notices EXCEPT ![c] = ns]
      [] kind = "push"   -> /\ after' = [after EXCEPT ![c] = "notify"]
                            /\ notices' = [notices EXCEPT ![c] = {[to |-> c, of |-> 0]}]
      [] OTHER           -> UNCHANGED <<after, notices>>

(* A task is answered, also one whose id cannot be read: "the game waits for *)
(* it until the timeout" (services.go:245). One of less than three bytes is  *)
(* only logged: it gets no reply, and the goroutine reads on.                *)
Answer(c) ==
    /\ snd' = [snd EXCEPT ![c] = [to |-> c, kind |-> "reply", of |-> tasks[c] + 1, num |-> 0]]
    /\ Goto(c, "replying")

ReplyReadable(c, kind) ==               \* a bug: an unreadable task is not answered
    IF kind \in {"short", "unreadable"} THEN UNCHANGED <<snd, pc>> ELSE Answer(c)

Reply(c, kind) == IF kind = "short" THEN UNCHANGED <<snd, pc>> ELSE Answer(c)

LeftOrFound(c, kind) ==                 \* a bug: a search is enqueued before its reply
    search' = CASE kind = "leave"  -> [search EXCEPT ![c] = 0]
                [] kind = "search" -> [search EXCEPT ![c] = tasks[c] + 1]
                [] OTHER           -> search

(* The end of a search, unlike its start, takes effect before the reply.    *)
Left(c, kind) == search' = IF kind = "leave" THEN [search EXCEPT ![c] = 0] ELSE search

ServingUnkeyed(c) ==                    \* a bug: the case l.keys == nil is missing
    pc[c] \in {"auth", "serving"}

Serving(c) == pc[c] = "serving"

OnTask(c, kind) ==
    /\ Serving(c)
    /\ tasks[c] < MaxTasks
    /\ kind \in Asks[c][tasks[c] + 1]
    /\ tasks' = [tasks EXCEPT ![c] = @ + 1]
    /\ dropped' = IF kind = "short" THEN [dropped EXCEPT ![c] = @ \cup {tasks[c] + 1}]
                  ELSE dropped
    /\ AfterTask(c, kind)
    /\ games' = IF kind = "create" THEN games \cup {c} ELSE games
    /\ Left(c, kind)
    /\ Reply(c, kind)
    /\ UNCHANGED <<keyed, mu, seq, wire, broken, listed, online>>

-----------------------------------------------------------------------------
(* sendEncrypted: sendMu is taken and the frame gets its number ... *)
Numbered(g) ==
    LET d == snd[g].to
    IN  /\ seq' = [seq EXCEPT ![d] = @ + 1]
        /\ snd' = [snd EXCEPT ![g].num = seq[d] + 1]

LockBriefly(g) ==                       \* a bug: sendMu covers the number only
    /\ snd[g] # NoFrame /\ snd[g].num = 0
    /\ mu[snd[g].to] = Free
    /\ Numbered(g)
    /\ UNCHANGED <<pc, keyed, tasks, dropped, after, notices, mu, wire, broken, services>>

Lock(g) ==
    /\ snd[g] # NoFrame /\ snd[g].num = 0
    /\ mu[snd[g].to] = Free
    /\ mu' = [mu EXCEPT ![snd[g].to] = g]
    /\ Numbered(g)
    /\ UNCHANGED <<pc, keyed, tasks, dropped, after, notices, wire, broken, services>>

(* ... and it is written and the mutex released, or the write fails: the    *)
(* socket is closed, or 15 seconds have passed and part of the frame is     *)
(* out. Whatever follows on such a connection cannot be read any more.      *)
UnlockOnSuccess(d, ok) ==               \* a bug: an early return keeps the mutex
    mu' = IF ok THEN [mu EXCEPT ![d] = Free] ELSE mu

Unlock(d, ok) == mu' = [mu EXCEPT ![d] = Free]

Send(g) ==
    LET d == snd[g].to
    IN  \/ /\ d \notin broken /\ pc[d] # "closed"
           /\ wire' = [wire EXCEPT ![d] = Append(@, snd[g])]
           /\ Unlock(d, TRUE)
           /\ UNCHANGED broken
        \/ broken' = broken \cup {d} /\ Unlock(d, FALSE) /\ UNCHANGED wire

Write(g) ==
    /\ snd[g] # NoFrame /\ snd[g].num # 0
    /\ Send(g)
    /\ snd' = [snd EXCEPT ![g] = NoFrame]
    /\ Goto(g, IF pc[g] = "replying" /\ after[g] # "none" THEN "after"
               ELSE IF notices[g] # {} THEN "notifying" ELSE "serving")
    /\ UNCHANGED <<keyed, tasks, dropped, after, notices, seq, services>>

(* The deferred afterReply: the search enters the matchmaker only now. *)
AfterReply(c) ==
    /\ pc[c] = "after"
    /\ after' = [after EXCEPT ![c] = "none"]
    /\ IF after[c] = "enqueue"
       THEN /\ search' = [search EXCEPT ![c] = tasks[c]]
            /\ \E ns \in Notified(search') : notices' = [notices EXCEPT ![c] = ns]
       ELSE UNCHANGED <<search, notices>>
    /\ Goto(c, IF notices'[c] = {} THEN "serving" ELSE "notifying")
    /\ UNCHANGED <<keyed, tasks, dropped, snd, mu, seq, wire, broken, listed, online, games>>

(* sendCTRNotices, and the pushes to the player: one after the other, each  *)
(* on the connection it is for, whatever has become of that one.            *)
Push(c) ==
    /\ pc[c] = "notifying" /\ snd[c] = NoFrame
    /\ \E n \in notices[c] :
         /\ notices' = [notices EXCEPT ![c] = @ \ {n}]
         /\ snd' = [snd EXCEPT ![c] = [to |-> n.to, kind |-> "push", of |-> n.of, num |-> 0]]
    /\ UNCHANGED <<pc, keyed, tasks, dropped, after, mu, seq, wire, broken, services>>

-----------------------------------------------------------------------------
(* The deferred calls of run, last in first out, and of startLobby: the     *)
(* maps of the players online and the matchmaker first; then the games, the *)
(* socket and the dashboard, which no other goroutine looks at here.        *)
Leave(c) ==
    /\ pc[c] = "ending"
    /\ Goto(c, "left")
    /\ online' = online \ {c}
    /\ search' = [search EXCEPT ![c] = 0]
    /\ UNCHANGED <<keyed, tasks, dropped, broken, listed, games, writing>>

Close(c) ==
    /\ pc[c] = "left"
    /\ Goto(c, "closed")
    /\ games' = games \ {c}
    /\ listed' = listed \ {c}
    /\ UNCHANGED <<keyed, tasks, dropped, broken, online, search, writing>>

(* What the goroutine does without its client. *)
Step(c) ==
    \/ Lock(c) \/ Write(c) \/ AfterReply(c) \/ Push(c) \/ Leave(c) \/ Close(c)

Next ==
    \E c \in Conns :
       \/ Accept(c) \/ Hello(c) \/ Keepalive(c) \/ ReadFails(c)
       \/ OnClientAuth(c)
       \/ \E kind \in Kinds : OnTask(c, kind)
       \/ Step(c)

(* Every goroutine that can go on does. Clients may do nothing for ever. *)
Spec == Init /\ [][Next]_vars /\ \A c \in Conns : WF_vars(Step(c))

-----------------------------------------------------------------------------
(* The frames on a socket are numbered 1, 2, 3... in the order in which     *)
(* they are written, although a connection's replies and the pushes of      *)
(* other goroutines compete for it.                                         *)
NumbersExact == \A c \in Conns : \A k \in DOMAIN wire[c] : wire[c][k].num = k

(* The client gives the k-th reply to its k-th task (services.go:210). The  *)
(* k-th reply answers the k-th of the tasks that were long enough, whoever   *)
(* else writes to the socket, and before the next task is read each of them  *)
(* has its reply unless a write failed. So the reply meets its task until a  *)
(* task is too short, and from then on every reply is given to a task too    *)
(* early: "Never leave a task unanswered" (services.go:245) holds for a task *)
(* whose id cannot be read, but not for a shorter one.                       *)
Replies(frames, k) == Cardinality({j \in 1..k : frames[j].kind = "reply"})

LongEnough(c, n) == Cardinality(1..n \ dropped[c])

RepliesAlign ==
    \A c \in Conns :
       /\ \A k \in DOMAIN wire[c] :
             wire[c][k].kind = "reply" =>
                /\ wire[c][k].of \notin dropped[c]
                /\ Replies(wire[c], k) = LongEnough(c, wire[c][k].of)
       /\ pc[c] = "serving" /\ c \notin broken =>
             Replies(wire[c], Len(wire[c])) = LongEnough(c, tasks[c])

(* A client hears of a search only after the reply that told it the id of   *)
(* the search, whichever goroutine completed the lobby.                     *)
SearchKnownFirst ==
    \A c \in Conns : \A k \in DOMAIN wire[c] :
       wire[c][k].kind = "push" /\ wire[c][k].of # 0 =>
          \E j \in 1..(k - 1) : wire[c][j].kind = "reply" /\ wire[c][j].of = wire[c][k].of

(* sendEncrypted reads l.keys: no goroutine ever sends to a connection      *)
(* without keys (a nil dereference would end the server).                   *)
KeysBeforeUse == \A g \in Conns : snd[g] # NoFrame => snd[g].to \in keyed

(* A connection that has ended has left nothing behind, and the goroutines  *)
(* that still write to it find it closed.                                   *)
NothingLeft ==
    \A c \in Conns : pc[c] = "closed" =>
       c \notin listed \cup online \cup games /\ search[c] = 0

(* Whatever its task made it do, the goroutine of a connection gets back to *)
(* its client or ends: clients that stop reading, close or fail hold nobody *)
(* up for ever, although goroutines wait for each other's mutexes.          *)
Returns == \A c \in Conns : pc[c] = "replying" \/ pc[c] = "ending" ~> pc[c] \in {"serving", "closed"}

=============================================================================
