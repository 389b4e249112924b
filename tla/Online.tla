------------------------------- MODULE Online -------------------------------
(***************************************************************************)
(* Who is online, and the rich presence of those who are: the maps         *)
(* `online` and `pending` (friends.go, guarded by onlineMu) and `rich`     *)
(* (ctr_presence.go, guarded by richMu).                                   *)
(*                                                                         *)
(* A connection's player is known once the identity file of its ticket can *)
(* be read. If the file does not exist at the handshake the connection is  *)
(* pending, and retryPending tries again during every friend or presence   *)
(* lookup, on the goroutine of whoever looks: it copies `pending` under    *)
(* onlineMu (RetryPending) and tries each copied connection afterwards     *)
(* (TryIdentity), while connections come and go. Connections without a     *)
(* ticket take no part: they are never in either map.                      *)
(*                                                                         *)
(* OnlineInit, OnlineNext and the like carry the module's name because     *)
(* another component joins this one in PlayersProofs.                      *)
(***************************************************************************)
EXTENDS Naturals

CONSTANTS
    Conns,     \* lobby connections (numbers are never reused)
    Accounts,  \* account numbers, all of them nonzero
    TicketPid, \* the account in the identity file of each connection's ticket
    Nobody     \* no presence is stored

ASSUME OnlineAssumption == TicketPid \in [Conns -> Accounts] /\ Nobody \notin Conns

VARIABLES
    files,      \* connections whose ticket's identity file exists
    phase,      \* phase[c]: "new", "open", "dropping" or "closed"
    online,     \* the keys of the map `online`
    pending,    \* the keys of the map `pending`
    rich,       \* rich[p]: the connection whose presence data is stored for p
    looking,    \* looking[c]: c's goroutine is inside retryPending
    todo,       \* todo[c]: the copied connections it has yet to try
    wasPending  \* (history) the connections that ever were pending

onlineVars == <<files, phase, online, pending, rich, looking, todo, wasPending>>

OnlineTypeOK ==
    /\ files \subseteq Conns
    /\ phase \in [Conns -> {"new", "open", "dropping", "closed"}]
    /\ online \subseteq Conns
    /\ pending \subseteq Conns
    /\ rich \in [Accounts -> Conns \cup {Nobody}]
    /\ looking \in [Conns -> BOOLEAN]
    /\ todo \in [Conns -> SUBSET Conns]
    /\ wasPending \subseteq Conns

OnlineInit ==
    /\ files = {}
    /\ phase = [c \in Conns |-> "new"]
    /\ online = {}
    /\ pending = {}
    /\ rich = [p \in Accounts |-> Nobody]
    /\ looking = [c \in Conns |-> FALSE]
    /\ todo = [c \in Conns |-> {}]
    /\ wasPending = {}

Open(c) == phase[c] = "open"

(* The goroutine reads the next task of its connection. *)
Serving(c) == Open(c) /\ ~looking[c]

-----------------------------------------------------------------------------
(* saveIdentity, in the auth server: the file of a ticket appears. *)
SaveIdentity(c) ==
    /\ c \notin files
    /\ files' = files \cup {c}
    /\ UNCHANGED <<phase, online, pending, rich, looking, todo, wasPending>>

(* tryIdentity: what it does to the two maps. *)
IdentifiedButPending(c) ==              \* a bug: the connection stays pending
    /\ online' = online \cup {c}
    /\ pending' = pending

Identified(c) ==
    /\ online' = online \cup {c}
    /\ pending' = pending \ {c}

(* loadIdentity, at the end of the handshake. *)
LoadIdentity(c) ==
    /\ phase[c] = "new"
    /\ phase' = [phase EXCEPT ![c] = "open"]
    /\ \/ c \in files /\ Identified(c) /\ UNCHANGED wasPending
       \/ /\ c \notin files
          /\ pending' = pending \cup {c}
          /\ wasPending' = wasPending \cup {c}
          /\ UNCHANGED online
    /\ UNCHANGED <<files, rich, looking, todo>>

(* retryPending: the copy under the mutex ... *)
RetryPendingDrains(c) ==                \* a bug: the copied entries are removed
    /\ Serving(c)
    /\ looking' = [looking EXCEPT ![c] = TRUE]
    /\ todo' = [todo EXCEPT ![c] = pending]
    /\ pending' = {}
    /\ UNCHANGED <<files, phase, online, rich, wasPending>>

RetryPending(c) ==
    /\ Serving(c)
    /\ looking' = [looking EXCEPT ![c] = TRUE]
    /\ todo' = [todo EXCEPT ![c] = pending]
    /\ UNCHANGED <<files, phase, online, pending, rich, wasPending>>

(* ... one of its connections tried, with or without success ... *)
TryIdentity(c, d) ==
    /\ looking[c]
    /\ d \in todo[c]
    /\ todo' = [todo EXCEPT ![c] = @ \ {d}]
    /\ IF d \in files THEN Identified(d) ELSE UNCHANGED <<online, pending>>
    /\ UNCHANGED <<files, phase, rich, looking, wasPending>>

(* ... and its return to the lookup, whose answer changes nothing. *)
Retried(c) ==
    /\ looking[c]
    /\ todo[c] = {}
    /\ looking' = [looking EXCEPT ![c] = FALSE]
    /\ UNCHANGED <<files, phase, online, pending, rich, todo, wasPending>>

(* rpSet: a client gives the number of an account, whose presence this is   *)
(* then taken to be without any check, or 0 for the player of the           *)
(* connection, which is a no-op while that is not known.                    *)
SetPresence(c, id) ==
    /\ Serving(c)
    /\ id = 0 => c \in online
    /\ rich' = [rich EXCEPT ![IF id = 0 THEN TicketPid[c] ELSE id] = c]
    /\ UNCHANGED <<files, phase, online, pending, looking, todo, wasPending>>

(* dropOnline, first deferred call of a connection that ends: under the     *)
(* mutex it leaves the maps and finds out whether it was the last           *)
(* connection of its account, whose presence then goes, after the unlock.   *)
LastOfAny(c) == online \subseteq {c}    \* a bug: any player online counts

LastOfAccount(c) == \A d \in online \ {c} : TicketPid[d] # TicketPid[c]

DropOnlineKeeps(c) ==                   \* a bug: only `pending` is cleared
    /\ online' = online
    /\ pending' = pending \ {c}

DropOnline(c) ==
    /\ online' = online \ {c}
    /\ pending' = pending \ {c}

Close(c) ==
    /\ Serving(c)
    /\ phase' = [phase EXCEPT ![c] =
                   IF c \in online /\ LastOfAccount(c) THEN "dropping" ELSE "closed"]
    /\ DropOnline(c)
    /\ UNCHANGED <<files, rich, looking, todo, wasPending>>

(* dropPresence *)
DropPresence(c) ==
    /\ phase[c] = "dropping"
    /\ phase' = [phase EXCEPT ![c] = "closed"]
    /\ rich' = [rich EXCEPT ![TicketPid[c]] = Nobody]
    /\ UNCHANGED <<files, online, pending, looking, todo, wasPending>>

OnlineNext ==
    \E c \in Conns :
       \/ SaveIdentity(c)
       \/ LoadIdentity(c)
       \/ RetryPending(c)
       \/ \E d \in Conns : TryIdentity(c, d)
       \/ Retried(c)
       \/ \E id \in Accounts \cup {0} : SetPresence(c, id)
       \/ Close(c)
       \/ DropPresence(c)

OnlineSpec == OnlineInit /\ [][OnlineNext]_onlineVars

-----------------------------------------------------------------------------
(* onlinePIDs: the accounts reported online, and whose presence rpGet shows. *)
OnlinePIDs == {TicketPid[c] : c \in online}

(* A connection is pending only while it is open and unidentified: the map  *)
(* never keeps a closed connection, and no connection is counted twice.     *)
PendingOpen == \A c \in pending : Open(c) /\ c \notin online

(* Every open connection is either known or will be retried.                *)
OpenTracked == \A c \in Conns : Open(c) => c \in online \cup pending

(* No interleaving of handshakes, retries on other goroutines and closes    *)
(* loses an open connection or leaves a closed one to be retried for ever.  *)
Tracked == PendingOpen /\ OpenTracked

(* A connection that was identified at its handshake is online from then    *)
(* until it ends, and never afterwards.                                     *)
OnlineExact == \A c \in Conns \ wasPending : c \in online <=> Open(c)

(* The presence that an account's own connection has stored, not another    *)
(* account's client under its number.                                       *)
OwnPresence(p) == rich[p] # Nobody /\ TicketPid[rich[p]] = p

(* friends.go:138, "a player who left must not look joinable": when every   *)
(* connection of an account was identified at its handshake and has ended,  *)
(* in whatever order and overlap, what they stored as its presence is gone, *)
(* whatever clients of other accounts store under its number in between.    *)
PresenceForgotten ==
    \A p \in Accounts : OwnPresence(p) =>
       \E c \in Conns :
          TicketPid[c] = p /\ (phase[c] \in {"open", "dropping"} \/ c \in wasPending)

(* presence.go:43, "onlinePIDs returns the Nextendo PIDs of players         *)
(* connected to the lobby".                                                 *)
OnlineConnected == \A p \in OnlinePIDs : \E c \in Conns : Open(c) /\ TicketPid[c] = p

(* friends.go:129, "still connected on another connection": presence that   *)
(* an identified connection set for its own account is not dropped while    *)
(* that connection is open.                                                 *)
ConnectedKeepsPresence ==
    [][\A p \in Accounts : OwnPresence(p) /\ rich[p] \in online /\ Open(rich[p])
          => rich'[p] # Nobody]_onlineVars

=============================================================================
