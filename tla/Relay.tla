------------------------------- MODULE Relay -------------------------------
(***************************************************************************)
(* The UDP relay of Crash Team Racing (ctr_relay.go): a port for each pair *)
(* of a host and a joiner, offered to the joiner in its copy of the host's *)
(* address, a goroutine per port that forwards packets, and the reaper     *)
(* that closes the pairs that have gone quiet.                             *)
(*                                                                         *)
(* The table is guarded by relay.mu. The goroutine of a pair holds a       *)
(* pointer to it and outlives its removal: it reads a packet, decides      *)
(* under the mutex where it goes and sends it after the unlock, and the    *)
(* reaper may close the pair before each of these steps.                   *)
(***************************************************************************)
EXTENDS Integers

CONSTANTS
    Pids,        \* accounts
    Listed,      \* the joiners that CTR_RELAY_PIDS names, or all
    Endpoints,   \* UDP addresses: what hosts advertise and packets come from
    NoAddr,      \* a nil *net.UDPAddr
    Low, High,   \* the range of relay ports
    Quiet,       \* ticks without a packet after which a pair is reaped (2 minutes)
    MaxPairs,    \* bound of the relayPair objects that exist at a time
    Nil          \* no pair

Ports == Low..High
Objs == 1..MaxPairs

(* relayFor *)
RelayFor(joiner) == joiner \in Listed

(* pairKey, of the accounts for which withRelay asks for a pair. *)
Keys == {k \in Pids \X Pids : k[1] # k[2] /\ RelayFor(k[2])}

ASSUME RelayAssumption ==
    /\ Low \in Nat \ {0} /\ High \in Nat /\ Low <= High
    /\ Quiet \in Nat \ {0} /\ MaxPairs \in Nat
    /\ Nil \notin Objs /\ NoAddr \notin Endpoints

VARIABLES
    heap,     \* heap[o]: a relayPair object and its goroutine, or Nil
    pairs,    \* pairs[k]: the object of a key
    byPort,   \* byPort[p]: the object of a port
    next,     \* the port to try next
    offer,    \* (history) offer[k]: the last port written into k's address, for Quiet ticks
    missed    \* (history) the ports a refused request could have had

vars == <<heap, pairs, byPort, next, offer, missed>>

(* relayPair. `age` is the time since `last`, counted up to Quiet; `moved`  *)
(* (history) says that the host's address has changed since the pair was    *)
(* opened. The goroutine is reading, has got a packet or is about to send   *)
(* it: `packet` is where it came from, and then where it goes.              *)
Pair == [key : Keys, port : Ports, host : Endpoints, joiner : Endpoints \cup {NoAddr},
         age : 0..Quiet, open : BOOLEAN, moved : BOOLEAN,
         stage : {"reading", "got", "sending"},
         packet : Endpoints \cup {NoAddr}]

Offer == [port : Ports, age : 0..(Quiet - 1)]

ASSUME NilAssumption == Nil \notin Pair /\ Nil \notin Offer

TypeOK ==
    /\ heap \in [Objs -> Pair \cup {Nil}]
    /\ pairs \in [Keys -> Objs \cup {Nil}]
    /\ byPort \in [Ports -> Objs \cup {Nil}]
    /\ next \in Ports
    /\ offer \in [Keys -> Offer \cup {Nil}]
    /\ missed \subseteq Ports

(* startCTRRelay, with a range of ports and an address. *)
Init ==
    /\ heap = [o \in Objs |-> Nil]
    /\ pairs = [k \in Keys |-> Nil]
    /\ byPort = [p \in Ports |-> Nil]
    /\ next = Low
    /\ offer = [k \in Keys |-> Nil]
    /\ missed = {}

-----------------------------------------------------------------------------
(* withRelay, for a request that passes its checks: a pair is found or      *)
(* opened, and offered if one of the nine slots of the address is free.     *)
Offered(k, port, slotFree) ==
    offer' = IF slotFree THEN [offer EXCEPT ![k] = [port |-> port, age |-> 0]] ELSE offer

(* pairFor finds the pair: the host's address may be a new one. *)
TouchedAddrOnly(r, host) ==             \* a bug: an offer does not count as a use
    [r EXCEPT !.host = host, !.moved = @ \/ host # r.host]

Touched(r, host) ==
    [r EXCEPT !.host = host, !.moved = @ \/ host # r.host, !.age = 0]

RefreshPair(k, host, slotFree) ==
    /\ pairs[k] # Nil
    /\ heap' = [heap EXCEPT ![pairs[k]] = Touched(@, host)]
    /\ Offered(k, heap[pairs[k]].port, slotFree)
    /\ UNCHANGED <<pairs, byPort, next, missed>>

(* The loop of pairFor: the ports in the order in which they are tried. *)
Size == High - Low + 1

Tried(n) == IF next + n <= High THEN next + n ELSE next + n - Size

AttemptsShort == 0..(Size - 2)          \* a bug: the last port is not tried

Attempts == 0..(Size - 1)

(* The ports that could be had, where net.ListenUDP would open `bindable`. *)
Usable(bindable) == {p \in Ports : byPort[p] = Nil /\ p \in bindable}

Opened(k, port, host) ==
    [key |-> k, port |-> port, host |-> host, joiner |-> NoAddr, age |-> 0, open |-> TRUE,
     moved |-> FALSE, stage |-> "reading", packet |-> NoAddr]

(* The first usable port; the object is the first that is free. *)
OpenPair(k, host, bindable, slotFree) ==
    \E n \in Attempts, o \in Objs :
       /\ pairs[k] = Nil
       /\ Tried(n) \in Usable(bindable)
       /\ \A m \in 0..(n - 1) : Tried(m) \notin Usable(bindable)
       /\ heap[o] = Nil /\ \A q \in 1..(o - 1) : heap[q] # Nil
       /\ heap' = [heap EXCEPT ![o] = Opened(k, Tried(n), host)]
       /\ pairs' = [pairs EXCEPT ![k] = o]
       /\ byPort' = [byPort EXCEPT ![Tried(n)] = o]
       /\ next' = Tried(n + 1)
       /\ Offered(k, Tried(n), slotFree)
       /\ UNCHANGED missed

(* A whole round through the range ends where it began. *)
NoFreePort(k, bindable) ==
    /\ pairs[k] = Nil
    /\ \A n \in Attempts : Tried(n) \notin Usable(bindable)
    /\ missed' = Usable(bindable)
    /\ UNCHANGED <<heap, pairs, byPort, next, offer>>

-----------------------------------------------------------------------------
(* serve: the goroutine of a pair. Its socket delivers a packet ... *)
ReadFromUDP(o, src) ==
    /\ heap[o] # Nil
    /\ heap[o].stage = "reading" /\ heap[o].open
    /\ heap' = [heap EXCEPT ![o].stage = "got", ![o].packet = src]
    /\ UNCHANGED <<pairs, byPort, next, offer, missed>>

(* ... which is routed under the mutex, even if the pair has been reaped:   *)
(* whoever is not the host is the joiner. A packet for a joiner that has    *)
(* not been heard of is dropped.                                            *)
FromHost(r) == r.packet = r.host

Learned(r) == IF FromHost(r) THEN r.joiner ELSE r.packet

Routed(r) ==
    LET joiner == Learned(r)
        to == IF FromHost(r) THEN joiner ELSE r.host
    IN  IF to = NoAddr
        THEN [r EXCEPT !.age = 0, !.stage = "reading", !.packet = NoAddr]
        ELSE [r EXCEPT !.age = 0, !.joiner = joiner, !.stage = "sending", !.packet = to]

Route(o) ==
    /\ heap[o] # Nil
    /\ heap[o].stage = "got"
    /\ heap' = [heap EXCEPT ![o] = Routed(@)]
    /\ UNCHANGED <<pairs, byPort, next, offer, missed>>

(* WriteToUDP; its error, on a closed socket, is ignored. *)
WriteToUDP(o) ==
    /\ heap[o] # Nil
    /\ heap[o].stage = "sending"
    /\ heap' = [heap EXCEPT ![o].stage = "reading", ![o].packet = NoAddr]
    /\ UNCHANGED <<pairs, byPort, next, offer, missed>>

(* A read of a closed socket ends the goroutine. *)
ServeReturns(o) ==
    /\ heap[o] # Nil
    /\ heap[o].stage = "reading" /\ ~heap[o].open
    /\ heap' = [heap EXCEPT ![o] = Nil]
    /\ UNCHANGED <<pairs, byPort, next, offer, missed>>

-----------------------------------------------------------------------------
(* reap *)
ExpiredHeard == {o \in Objs :           \* a bug: waits for a first packet
                   heap[o] # Nil /\ heap[o].open /\ heap[o].age >= Quiet /\ heap[o].joiner # NoAddr}

Expired == {pairs[k] : k \in {j \in Keys : pairs[j] # Nil /\ heap[pairs[j]].age >= Quiet}}

DeletedKeysOnly(gone) ==                \* a bug: byPort keeps the pair
    /\ pairs' = [k \in Keys |-> IF pairs[k] \in gone THEN Nil ELSE pairs[k]]
    /\ byPort' = byPort

Deleted(gone) ==
    /\ pairs' = [k \in Keys |-> IF pairs[k] \in gone THEN Nil ELSE pairs[k]]
    /\ byPort' = [p \in Ports |-> IF p \in {heap[o].port : o \in gone} THEN Nil ELSE byPort[p]]

Reap ==
    /\ Expired # {}
    /\ heap' = [o \in Objs |-> IF o \in Expired THEN [heap[o] EXCEPT !.open = FALSE] ELSE heap[o]]
    /\ Deleted(Expired)
    /\ UNCHANGED <<next, offer, missed>>

(* The clock. An offer is forgotten after the quiet period. *)
Older(r) == IF r = Nil THEN Nil ELSE [r EXCEPT !.age = IF @ < Quiet THEN @ + 1 ELSE @]
Fresh(f) == IF f = Nil THEN Nil ELSE IF f.age + 1 = Quiet THEN Nil ELSE [f EXCEPT !.age = @ + 1]

Tick ==
    /\ heap' = [o \in Objs |-> Older(heap[o])]
    /\ offer' = [k \in Keys |-> Fresh(offer[k])]
    /\ UNCHANGED <<pairs, byPort, next, missed>>

Next ==
    \/ \E k \in Keys, host \in Endpoints, slotFree \in BOOLEAN :
         \/ RefreshPair(k, host, slotFree)
         \/ \E bindable \in SUBSET Ports : OpenPair(k, host, bindable, slotFree)
    \/ \E k \in Keys, bindable \in SUBSET Ports : NoFreePort(k, bindable)
    \/ \E o \in Objs :
         \/ \E src \in Endpoints : ReadFromUDP(o, src)
         \/ Route(o) \/ WriteToUDP(o) \/ ServeReturns(o)
    \/ Reap
    \/ Tick

Spec == Init /\ [][Next]_vars

(* reap is a loop over a ticker, and takes a mutex that nobody keeps. *)
FairSpec == Spec /\ WF_vars(Tick) /\ WF_vars(Reap)

-----------------------------------------------------------------------------
(* The two maps and the open sockets are the same pairs, however requests,  *)
(* goroutines and the reaper overlap: no port is given out twice, and no    *)
(* socket stays open that the reaper cannot find.                           *)
TablesAgree ==
    /\ \A k \in Keys : pairs[k] # Nil =>
         heap[pairs[k]] # Nil /\ heap[pairs[k]].key = k
         /\ heap[pairs[k]].open /\ byPort[heap[pairs[k]].port] = pairs[k]
    /\ \A p \in Ports : byPort[p] # Nil =>
         heap[byPort[p]] # Nil /\ heap[byPort[p]].port = p
         /\ pairs[heap[byPort[p]].key] = byPort[p]
    /\ \A o \in Objs : heap[o] # Nil => (heap[o].open => pairs[heap[o].key] = o)

(* A joiner that was offered a port finds its own pair there for the whole  *)
(* quiet period, also when the pair was old or its host's address changed.  *)
OfferHonoured ==
    \A k \in Keys : offer[k] # Nil =>
       pairs[k] # Nil /\ heap[pairs[k]].open /\ heap[pairs[k]].port = offer[k].port

(* A request is refused only if no port was free and could be opened: the   *)
(* round through the range starts anywhere and leaves nothing out.          *)
RefusedOnlyWhenFull == missed = {}

(* As long as the host keeps its address it is not taken for the joiner,    *)
(* and so no packet goes back to where it came from.                        *)
NoEcho == \A o \in Objs : heap[o] # Nil => heap[o].moved \/ heap[o].joiner # heap[o].host

(* "reap closes pairs that have gone quiet so their ports can be reused"    *)
(* (ctr_relay.go:234): a port is free again and again, unless the pair on   *)
(* it is used again and again.                                              *)
PortsReturn ==
    \A p \in Ports : []<>(byPort[p] = Nil \/ heap[byPort[p]].age = 0)

=============================================================================
