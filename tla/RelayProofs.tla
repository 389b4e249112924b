---------------------------- MODULE RelayProofs ----------------------------
(***************************************************************************)
(* Proofs of the safety properties of Relay, for any accounts, addresses,  *)
(* range of ports, quiet period and number of pairs.                       *)
(***************************************************************************)
EXTENDS Relay, TLAPS

(* The pair behind an offer has been used no earlier than the offer: it is *)
(* what keeps the reaper from a pair that somebody has just been sent to.  *)
OfferYoung == \A k \in Keys : offer[k] # Nil => heap[pairs[k]].age <= offer[k].age

IInv == TypeOK /\ TablesAgree /\ OfferHonoured /\ OfferYoung /\ RefusedOnlyWhenFull /\ NoEcho

-----------------------------------------------------------------------------
(* Ports: the loop stays in the range, and goes through all of it. *)
LEMMA TriedInRange ==
    ASSUME next \in Ports, NEW n \in 0..Size
    PROVE  Tried(n) \in Ports
  BY RelayAssumption DEF Tried, Size, Ports

LEMMA AllTried ==
    ASSUME next \in Ports, NEW p \in Ports
    PROVE  \E n \in Attempts : Tried(n) = p
  <1>1. CASE p >= next
    <2>1. p - next \in Attempts /\ Tried(p - next) = p
      BY <1>1, RelayAssumption DEF Tried, Attempts, Size, Ports
    <2> QED BY <2>1
  <1>2. CASE p < next
    <2>1. p - next + Size \in Attempts /\ Tried(p - next + Size) = p
      BY <1>2, RelayAssumption DEF Tried, Attempts, Size, Ports
    <2> QED BY <2>1
  <1> QED BY <1>1, <1>2, RelayAssumption DEF Ports

-----------------------------------------------------------------------------
(* Steps that write one pair, and neither its key nor its port nor whether  *)
(* it is open: requests for an existing pair, and the goroutines.           *)
LEMMA WritePair ==
    ASSUME TypeOK, TablesAgree, NEW o \in Objs, NEW r \in Pair, heap[o] # Nil,
           r.key = heap[o].key, r.port = heap[o].port, r.open = heap[o].open,
           heap' = [heap EXCEPT ![o] = r],
           UNCHANGED <<pairs, byPort, next, missed>>, offer' \in [Keys -> Offer \cup {Nil}]
    PROVE  TypeOK' /\ TablesAgree'
  <1> USE RelayAssumption, NilAssumption
  <1>1. TypeOK'
    BY DEF TypeOK
  <1>2. /\ \A q \in Objs : heap'[q] = IF q = o THEN r ELSE heap[q]
        /\ r # Nil
    BY DEF TypeOK
  <1>3. \A k \in Keys : pairs[k] # Nil =>
          heap'[pairs[k]] # Nil /\ heap'[pairs[k]].key = k
          /\ heap'[pairs[k]].open /\ byPort[heap'[pairs[k]].port] = pairs[k]
    BY <1>2 DEF TypeOK, TablesAgree
  <1>4. \A p \in Ports : byPort[p] # Nil =>
          heap'[byPort[p]] # Nil /\ heap'[byPort[p]].port = p
          /\ pairs[heap'[byPort[p]].key] = byPort[p]
    BY <1>2 DEF TypeOK, TablesAgree
  <1>5. \A q \in Objs : heap'[q] # Nil => (heap'[q].open => pairs[heap'[q].key] = q)
    BY <1>2 DEF TypeOK, TablesAgree
  <1> QED BY <1>1, <1>3, <1>4, <1>5 DEF TablesAgree

(* ... and their other parts, where the pair is only used again and the     *)
(* offers stay as they are.                                                 *)
LEMMA UsePair ==
    ASSUME IInv, NEW o \in Objs, NEW r \in Pair, heap[o] # Nil,
           r.key = heap[o].key, r.port = heap[o].port, r.open = heap[o].open,
           r.age <= heap[o].age, r.moved \/ r.joiner # r.host,
           heap' = [heap EXCEPT ![o] = r],
           UNCHANGED <<pairs, byPort, next, offer, missed>>
    PROVE  IInv'
  <1> USE RelayAssumption, NilAssumption
  <1>1. TypeOK' /\ TablesAgree'
    BY WritePair DEF IInv, TypeOK
  <1>2. \A q \in Objs : heap'[q] = IF q = o THEN r ELSE heap[q]
    BY DEF IInv, TypeOK
  <1>3. OfferHonoured'
    BY <1>2 DEF IInv, TypeOK, OfferHonoured
  <1>4. OfferYoung'
    <2> SUFFICES ASSUME NEW k \in Keys, offer[k] # Nil
                 PROVE  heap'[pairs[k]].age <= offer[k].age
      BY DEF OfferYoung
    <2>1. pairs[k] \in Objs /\ heap[pairs[k]].age <= offer[k].age /\ heap[pairs[k]] # Nil
      BY DEF IInv, TypeOK, OfferHonoured, OfferYoung, TablesAgree
    <2>2. heap[pairs[k]] \in Pair /\ offer[k] \in Offer
      BY <2>1 DEF IInv, TypeOK
    <2>3. CASE pairs[k] = o
      BY <2>1, <2>2, <2>3, <1>2 DEF Pair, Offer
    <2>4. CASE pairs[k] # o
      BY <2>1, <2>4, <1>2
    <2> QED BY <2>3, <2>4
  <1>5. NoEcho'
    BY <1>2 DEF IInv, TypeOK, NoEcho
  <1>6. RefusedOnlyWhenFull'
    BY DEF IInv, RefusedOnlyWhenFull
  <1> QED BY <1>1, <1>3, <1>4, <1>5, <1>6 DEF IInv

-----------------------------------------------------------------------------
LEMMA InitInv == Init => IInv
  BY RelayAssumption, NilAssumption
  DEF Init, IInv, TypeOK, TablesAgree, OfferHonoured, OfferYoung, RefusedOnlyWhenFull, NoEcho, Ports

LEMMA ServeStep ==
    ASSUME IInv, NEW o \in Objs,
           (\E src \in Endpoints : ReadFromUDP(o, src)) \/ Route(o) \/ WriteToUDP(o)
    PROVE  IInv'
  <1> USE RelayAssumption, NilAssumption
  <1>0. heap[o] # Nil /\ heap[o] \in Pair
    BY DEF IInv, TypeOK, ReadFromUDP, Route, WriteToUDP
  <1>a. heap[o].moved \/ heap[o].joiner # heap[o].host
    BY <1>0 DEF IInv, NoEcho
  <1>1. ASSUME NEW src \in Endpoints, ReadFromUDP(o, src) PROVE IInv'
    <2> DEFINE r == [heap[o] EXCEPT !.stage = "got", !.packet = src]
    <2>1. r \in Pair
      BY <1>0 DEF Pair
    <2>2. r.key = heap[o].key /\ r.port = heap[o].port /\ r.age <= heap[o].age
          /\ r.joiner = heap[o].joiner /\ r.host = heap[o].host
      BY <1>0 DEF Pair
    <2>3. r.open = heap[o].open /\ r.moved = heap[o].moved
      BY <1>0 DEF Pair
    <2>4. heap' = [heap EXCEPT ![o] = r]
      BY <1>1 DEF ReadFromUDP
    <2> QED BY <1>0, <1>a, <1>1, <2>1, <2>2, <2>3, <2>4, UsePair DEF ReadFromUDP
  <1>2. CASE Route(o)
    <2> DEFINE r == Routed(heap[o])
    <2>0. Learned(heap[o]) \in Endpoints \cup {NoAddr}
      BY <1>0, <1>2 DEF Pair, Learned, FromHost
    <2>1. r \in Pair
      <3> DEFINE to == IF FromHost(heap[o]) THEN Learned(heap[o]) ELSE heap[o].host
      <3>1. to \in Endpoints \cup {NoAddr}
        BY <1>0, <2>0 DEF Pair
      <3>2. CASE to = NoAddr
        <4>1. r = [heap[o] EXCEPT !.age = 0, !.stage = "reading", !.packet = NoAddr]
          BY <3>2 DEF Routed
        <4>2. 0 \in 0..Quiet
          OBVIOUS
        <4> HIDE DEF r
        <4> QED BY <1>0, <4>1, <4>2 DEF Pair
      <3>3. CASE to # NoAddr
        <4>1. r = [heap[o] EXCEPT !.age = 0, !.joiner = Learned(heap[o]), !.stage = "sending",
                                  !.packet = to]
          BY <3>3 DEF Routed
        <4>2. 0 \in 0..Quiet
          OBVIOUS
        <4> HIDE DEF r, to
        <4> QED BY <1>0, <2>0, <3>1, <4>1, <4>2 DEF Pair
      <3> QED BY <3>2, <3>3
    <2>4. r.key = heap[o].key /\ r.port = heap[o].port /\ r.age <= heap[o].age
      BY <1>0 DEF Pair, Routed
    <2>5. r.open = heap[o].open
      BY <1>0 DEF Pair, Routed
    <2>2. r.moved \/ r.joiner # r.host
      BY <1>0, <1>a DEF Pair, Routed, Learned, FromHost
    <2>3. heap' = [heap EXCEPT ![o] = r]
      BY <1>2 DEF Route
    <2> HIDE DEF r
    <2> QED BY <1>0, <1>2, <2>1, <2>2, <2>3, <2>4, <2>5, UsePair DEF Route
  <1>3. CASE WriteToUDP(o)
    <2> DEFINE r == [heap[o] EXCEPT !.stage = "reading", !.packet = NoAddr]
    <2>1. r \in Pair
      BY <1>0 DEF Pair
    <2>2. r.key = heap[o].key /\ r.port = heap[o].port /\ r.age <= heap[o].age
          /\ r.joiner = heap[o].joiner /\ r.host = heap[o].host
      BY <1>0 DEF Pair
    <2>3. r.open = heap[o].open /\ r.moved = heap[o].moved
      BY <1>0 DEF Pair
    <2>4. heap' = [heap EXCEPT ![o] = r]
      BY <1>3 DEF WriteToUDP
    <2> QED BY <1>0, <1>a, <1>3, <2>1, <2>2, <2>3, <2>4, UsePair DEF WriteToUDP
  <1> QED BY <1>1, <1>2, <1>3

LEMMA ServeReturnsStep ==
    ASSUME IInv, NEW o \in Objs, ServeReturns(o)
    PROVE  IInv'
  <1> USE RelayAssumption, NilAssumption
  <1>0. heap[o] # Nil /\ ~heap[o].open
    BY DEF ServeReturns
  <1>1. TypeOK'
    BY DEF IInv, TypeOK, ServeReturns
  <1>2. \A q \in Objs : heap'[q] = IF q = o THEN Nil ELSE heap[q]
    BY DEF IInv, TypeOK, ServeReturns
  <1>3. /\ \A k \in Keys : pairs[k] # o
        /\ \A p \in Ports : byPort[p] # o
    BY <1>0 DEF IInv, TypeOK, TablesAgree, Pair
  <1>4. TablesAgree'
    BY <1>2, <1>3 DEF IInv, TypeOK, TablesAgree, ServeReturns
  <1>5. OfferHonoured' /\ OfferYoung'
    BY <1>2, <1>3 DEF IInv, TypeOK, OfferHonoured, OfferYoung, ServeReturns
  <1>6. NoEcho' /\ RefusedOnlyWhenFull'
    BY <1>2 DEF IInv, NoEcho, RefusedOnlyWhenFull, ServeReturns
  <1> QED BY <1>1, <1>4, <1>5, <1>6 DEF IInv

LEMMA OfferedType ==
    ASSUME TypeOK, NEW k \in Keys, NEW port \in Ports, NEW slotFree \in BOOLEAN,
           Offered(k, port, slotFree)
    PROVE  offer' \in [Keys -> Offer \cup {Nil}]
  <1>1. [port |-> port, age |-> 0] \in Offer
    BY RelayAssumption DEF Offer
  <1> QED BY <1>1 DEF Offered, TypeOK

(* Every offer is either an old one or that of port to k, just made. *)
LEMMA OfferedValue ==
    ASSUME TypeOK, NEW k \in Keys, NEW port \in Ports, NEW slotFree \in BOOLEAN,
           Offered(k, port, slotFree), NEW j \in Keys
    PROVE  \/ offer'[j] = offer[j]
           \/ j = k /\ offer'[j] = [port |-> port, age |-> 0]
  BY DEF Offered, TypeOK

LEMMA RefreshStep ==
    ASSUME IInv, NEW k \in Keys, NEW host \in Endpoints, NEW slotFree \in BOOLEAN,
           RefreshPair(k, host, slotFree)
    PROVE  IInv'
  <1> USE RelayAssumption, NilAssumption
  <1> DEFINE o == pairs[k]
             r == Touched(heap[o], host)
  <1>0. o \in Objs /\ heap[o] # Nil /\ heap[o] \in Pair
    BY DEF IInv, TypeOK, TablesAgree, RefreshPair
  <1>a. heap[o].port \in Ports
    BY <1>0 DEF Pair
  <1>1. r \in Pair
    <2> DEFINE mv == heap[o].moved \/ host # heap[o].host
    <2>1. mv \in BOOLEAN /\ 0 \in 0..Quiet
      OBVIOUS
    <2>2. r = [heap[o] EXCEPT !.host = host, !.moved = mv, !.age = 0]
      BY DEF Touched
    <2> HIDE DEF mv, r
    <2> QED BY <1>0, <2>1, <2>2 DEF Pair
  <1>2. r.key = heap[o].key /\ r.port = heap[o].port /\ r.age = 0
        /\ r.host = host /\ r.joiner = heap[o].joiner
    BY <1>0 DEF Pair, Touched
  <1>3. r.open = heap[o].open
    BY <1>0 DEF Pair, Touched
  <1>4. r.moved \/ r.joiner # r.host
    BY <1>0, <1>2 DEF IInv, NoEcho, Pair, Touched
  <1>5. heap' = [heap EXCEPT ![o] = r]
    BY DEF RefreshPair
  <1>6. offer' \in [Keys -> Offer \cup {Nil}] /\ UNCHANGED <<pairs, byPort, next, missed>>
    BY <1>a, OfferedType DEF RefreshPair, IInv
  <1> HIDE DEF r
  <1>7. TypeOK' /\ TablesAgree'
    BY <1>0, <1>1, <1>2, <1>3, <1>5, <1>6, WritePair DEF IInv
  <1>8. \A q \in Objs : heap'[q] = IF q = o THEN r ELSE heap[q]
    BY <1>5 DEF IInv, TypeOK
  <1>9. ASSUME NEW j \in Keys, offer'[j] # Nil
        PROVE  /\ pairs[j] # Nil /\ heap'[pairs[j]].open /\ heap'[pairs[j]].port = offer'[j].port
               /\ heap'[pairs[j]].age <= offer'[j].age
    <2>1. CASE offer'[j] = offer[j]
      <3>1. /\ pairs[j] \in Objs /\ heap[pairs[j]].open /\ heap[pairs[j]].port = offer[j].port
            /\ heap[pairs[j]].age <= offer[j].age
        BY <1>9, <2>1 DEF IInv, TypeOK, OfferHonoured, OfferYoung
      <3>2. offer[j].age \in Nat
        BY <1>9, <2>1 DEF IInv, TypeOK, Offer
      <3> QED BY <1>2, <1>3, <1>8, <2>1, <3>1, <3>2
    <2>2. CASE j = k /\ offer'[j] = [port |-> heap[o].port, age |-> 0]
      <3>1. heap[o].open
        BY DEF IInv, TablesAgree, RefreshPair
      <3>2. offer'[j].port = heap[o].port /\ offer'[j].age = 0
        BY <2>2
      <3>3. pairs[j] = o /\ o # Nil /\ heap'[o] = r
        BY <1>0, <1>8, <2>2
      <3>4. heap'[pairs[j]].open
        BY <1>3, <3>1, <3>3, Zenon
      <3>5. heap'[pairs[j]].port = offer'[j].port /\ heap'[pairs[j]].age <= offer'[j].age
        BY <1>2, <3>2, <3>3
      <3> QED BY <3>3, <3>4, <3>5
    <2> QED BY <1>a, <2>1, <2>2, OfferedValue DEF RefreshPair, IInv
  <1>10. OfferHonoured' /\ OfferYoung'
    BY <1>6, <1>9 DEF OfferHonoured, OfferYoung
  <1>11. NoEcho'
    BY <1>4, <1>8 DEF IInv, NoEcho
  <1>12. RefusedOnlyWhenFull'
    BY <1>6 DEF IInv, RefusedOnlyWhenFull
  <1> QED BY <1>7, <1>10, <1>11, <1>12 DEF IInv

LEMMA OpenStep ==
    ASSUME IInv, NEW k \in Keys, NEW host \in Endpoints, NEW bindable \in SUBSET Ports,
           NEW slotFree \in BOOLEAN, OpenPair(k, host, bindable, slotFree)
    PROVE  IInv'
  <1> USE RelayAssumption, NilAssumption
  <1>0. PICK n \in Attempts, o \in Objs :
          /\ pairs[k] = Nil
          /\ Tried(n) \in Usable(bindable)
          /\ heap[o] = Nil
          /\ heap' = [heap EXCEPT ![o] = Opened(k, Tried(n), host)]
          /\ pairs' = [pairs EXCEPT ![k] = o]
          /\ byPort' = [byPort EXCEPT ![Tried(n)] = o]
          /\ next' = Tried(n + 1)
          /\ Offered(k, Tried(n), slotFree)
          /\ UNCHANGED missed
    BY DEF OpenPair
  <1> DEFINE port == Tried(n)
             r == Opened(k, port, host)
  <1>1. port \in Ports /\ byPort[port] = Nil
    BY <1>0 DEF Usable
  <1>2. next' \in Ports
    <2>1. n + 1 \in 0..Size /\ next \in Ports
      BY DEF Attempts, Size, IInv, TypeOK
    <2> QED BY <1>0, <2>1, TriedInRange
  <1> HIDE DEF port
  <1>3. r \in Pair
    BY <1>1 DEF Opened, Pair
  <1>4. r.key = k /\ r.port = port /\ r.age = 0 /\ r.joiner = NoAddr /\ r.host = host
        /\ r.open = TRUE
    BY DEF Opened
  <1> HIDE DEF r
  <1>5. offer' \in [Keys -> Offer \cup {Nil}]
    BY <1>0, <1>1, OfferedType DEF IInv, port
  <1>6. /\ heap' = [heap EXCEPT ![o] = r] /\ pairs' = [pairs EXCEPT ![k] = o]
        /\ byPort' = [byPort EXCEPT ![port] = o] /\ missed' = missed
    BY <1>0 DEF r, port
  <1>7. TypeOK'
    BY <1>1, <1>2, <1>3, <1>5, <1>6 DEF IInv, TypeOK
  <1>8. /\ \A q \in Objs : heap'[q] = IF q = o THEN r ELSE heap[q]
        /\ \A j \in Keys : pairs'[j] = IF j = k THEN o ELSE pairs[j]
        /\ \A p \in Ports : byPort'[p] = IF p = port THEN o ELSE byPort[p]
        /\ r # Nil /\ o # Nil
    BY <1>3, <1>6 DEF IInv, TypeOK
  <1>9. /\ \A j \in Keys : pairs[j] # o
        /\ \A p \in Ports : byPort[p] # o
    BY <1>0 DEF IInv, TypeOK, TablesAgree
  <1>10. TablesAgree'
    <2>1. \A j \in Keys : pairs'[j] # Nil =>
            heap'[pairs'[j]] # Nil /\ heap'[pairs'[j]].key = j
            /\ heap'[pairs'[j]].open /\ byPort'[heap'[pairs'[j]].port] = pairs'[j]
      <3> SUFFICES ASSUME NEW j \in Keys, pairs'[j] # Nil
                   PROVE  heap'[pairs'[j]] # Nil /\ heap'[pairs'[j]].key = j
                          /\ heap'[pairs'[j]].open /\ byPort'[heap'[pairs'[j]].port] = pairs'[j]
        OBVIOUS
      <3>1. CASE j = k
        BY <1>1, <1>4, <1>8, <3>1
      <3>2. CASE j # k
        <4>1. pairs'[j] = pairs[j] /\ pairs[j] \in Objs /\ pairs[j] # o
          BY <1>8, <1>9, <3>2 DEF IInv, TypeOK
        <4>2. heap[pairs[j]] # Nil /\ heap[pairs[j]].key = j
              /\ heap[pairs[j]].open /\ byPort[heap[pairs[j]].port] = pairs[j]
          BY <4>1 DEF IInv, TablesAgree
        <4>3. heap[pairs[j]].port \in Ports
          BY <4>1, <4>2 DEF IInv, TypeOK, Pair
        <4> QED BY <1>1, <1>8, <4>1, <4>2, <4>3
      <3> QED BY <3>1, <3>2
    <2>2. \A p \in Ports : byPort'[p] # Nil =>
            heap'[byPort'[p]] # Nil /\ heap'[byPort'[p]].port = p
            /\ pairs'[heap'[byPort'[p]].key] = byPort'[p]
      <3> SUFFICES ASSUME NEW p \in Ports, byPort'[p] # Nil
                   PROVE  heap'[byPort'[p]] # Nil /\ heap'[byPort'[p]].port = p
                          /\ pairs'[heap'[byPort'[p]].key] = byPort'[p]
        OBVIOUS
      <3>1. CASE p = port
        BY <1>4, <1>8, <3>1
      <3>2. CASE p # port
        <4>1. byPort'[p] = byPort[p] /\ byPort[p] \in Objs /\ byPort[p] # o
          BY <1>8, <1>9, <3>2 DEF IInv, TypeOK
        <4>2. heap[byPort[p]] # Nil /\ heap[byPort[p]].port = p
              /\ pairs[heap[byPort[p]].key] = byPort[p]
          BY <4>1 DEF IInv, TablesAgree
        <4>3. heap[byPort[p]].key \in Keys
          BY <4>1, <4>2 DEF IInv, TypeOK, Pair
        <4> QED BY <1>0, <1>8, <4>1, <4>2, <4>3
      <3> QED BY <3>1, <3>2
    <2>3. \A q \in Objs : heap'[q] # Nil => (heap'[q].open => pairs'[heap'[q].key] = q)
      <3> SUFFICES ASSUME NEW q \in Objs, heap'[q] # Nil, heap'[q].open
                   PROVE  pairs'[heap'[q].key] = q
        OBVIOUS
      <3>1. CASE q = o
        BY <1>4, <1>8, <3>1
      <3>2. CASE q # o
        <4>1. pairs[heap[q].key] = q /\ heap[q].key \in Keys
          BY <1>8, <3>2 DEF IInv, TypeOK, TablesAgree, Pair
        <4> QED BY <1>0, <1>8, <3>2, <4>1
      <3> QED BY <3>1, <3>2
    <2> QED BY <2>1, <2>2, <2>3 DEF TablesAgree
  <1>11. ASSUME NEW j \in Keys, offer'[j] # Nil
         PROVE  /\ pairs'[j] # Nil /\ heap'[pairs'[j]].open
                /\ heap'[pairs'[j]].port = offer'[j].port
                /\ heap'[pairs'[j]].age <= offer'[j].age
    <2>1. CASE offer'[j] = offer[j]
      <3>1. /\ pairs[j] # Nil /\ heap[pairs[j]].open /\ heap[pairs[j]].port = offer[j].port
            /\ heap[pairs[j]].age <= offer[j].age
        BY <1>11, <2>1 DEF IInv, OfferHonoured, OfferYoung
      <3>2. pairs'[j] = pairs[j] /\ heap'[pairs[j]] = heap[pairs[j]]
        BY <1>0, <1>8, <1>9, <3>1 DEF IInv, TypeOK
      <3> QED BY <2>1, <3>1, <3>2
    <2>2. CASE j = k /\ offer'[j] = [port |-> port, age |-> 0]
      BY <1>4, <1>8, <2>2
    <2> QED BY <1>0, <1>1, <2>1, <2>2, OfferedValue DEF IInv, port
  <1>12. OfferHonoured' /\ OfferYoung'
    BY <1>11 DEF OfferHonoured, OfferYoung
  <1>13. NoEcho'
    BY <1>4, <1>8 DEF IInv, NoEcho
  <1>14. RefusedOnlyWhenFull'
    BY <1>6 DEF IInv, RefusedOnlyWhenFull
  <1> QED BY <1>7, <1>10, <1>12, <1>13, <1>14 DEF IInv

LEMMA RefuseStep ==
    ASSUME IInv, NEW k \in Keys, NEW bindable \in SUBSET Ports, NoFreePort(k, bindable)
    PROVE  IInv'
  <1>1. Usable(bindable) = {}
    BY AllTried DEF NoFreePort, Usable, IInv, TypeOK
  <1> QED
    BY <1>1 DEF NoFreePort, IInv, TypeOK, TablesAgree, OfferHonoured, OfferYoung,
                RefusedOnlyWhenFull, NoEcho

LEMMA ReapStep ==
    ASSUME IInv, Reap
    PROVE  IInv'
  <1> USE RelayAssumption, NilAssumption
  <1>0. /\ heap' = [o \in Objs |-> IF o \in Expired THEN [heap[o] EXCEPT !.open = FALSE] ELSE heap[o]]
        /\ pairs' = [k \in Keys |-> IF pairs[k] \in Expired THEN Nil ELSE pairs[k]]
        /\ byPort' = [p \in Ports |-> IF p \in {heap[o].port : o \in Expired} THEN Nil ELSE byPort[p]]
        /\ next' = next /\ offer' = offer /\ missed' = missed
    BY DEF Reap, Deleted
  <1>1. \A o \in Expired : o \in Objs /\ heap[o] # Nil /\ heap[o] \in Pair /\ heap[o].age >= Quiet
                           /\ pairs[heap[o].key] = o /\ byPort[heap[o].port] = o
    BY DEF Expired, IInv, TypeOK, TablesAgree
  <1> DEFINE C(o) == [heap[o] EXCEPT !.open = FALSE]
  <1>2. ASSUME NEW o \in Expired PROVE C(o) \in Pair /\ C(o) # Nil /\ ~C(o).open
    <2>0. heap[o] \in Pair
      BY <1>1
    <2>1. C(o) \in Pair
      BY ONLY <2>0 DEF Pair
    <2>2. ~C(o).open
      BY <1>1 DEF Pair
    <2> QED BY <2>1, <2>2
  <1>3. \A o \in Expired : C(o).joiner = heap[o].joiner /\ C(o).host = heap[o].host
    BY <1>1 DEF Pair
  <1>4. \A o \in Expired : C(o).moved = heap[o].moved
    BY <1>1 DEF Pair
  <1>5. \A o \in Objs : heap'[o] = IF o \in Expired THEN C(o) ELSE heap[o]
    BY <1>0
  <1> HIDE DEF C
  <1>6. TypeOK'
    <2>1. heap' \in [Objs -> Pair \cup {Nil}]
      BY <1>0, <1>2, <1>5 DEF IInv, TypeOK
    <2> QED BY <1>0, <2>1 DEF IInv, TypeOK
  <1>7. TablesAgree'
    <2>1. ASSUME NEW k \in Keys, pairs'[k] # Nil
          PROVE  heap'[pairs'[k]] # Nil /\ heap'[pairs'[k]].key = k
                 /\ heap'[pairs'[k]].open /\ byPort'[heap'[pairs'[k]].port] = pairs'[k]
      <3>1. pairs'[k] = pairs[k] /\ pairs[k] \notin Expired /\ pairs[k] \in Objs
        BY <1>0, <2>1 DEF IInv, TypeOK
      <3>2. heap'[pairs[k]] = heap[pairs[k]]
        BY <1>5, <3>1
      <3>3. heap[pairs[k]] # Nil /\ heap[pairs[k]].key = k
            /\ heap[pairs[k]].open /\ byPort[heap[pairs[k]].port] = pairs[k]
        BY <3>1 DEF IInv, TablesAgree
      <3>4. heap[pairs[k]].port \in Ports
        BY <3>1, <3>3 DEF IInv, TypeOK, Pair
      <3>5. heap[pairs[k]].port \notin {heap[o].port : o \in Expired}
        BY <1>1, <3>1, <3>3
      <3>6. byPort'[heap[pairs[k]].port] = pairs[k]
        BY <1>0, <3>3, <3>4, <3>5
      <3> QED BY <3>1, <3>2, <3>3, <3>6
    <2>2. ASSUME NEW p \in Ports, byPort'[p] # Nil
          PROVE  heap'[byPort'[p]] # Nil /\ heap'[byPort'[p]].port = p
                 /\ pairs'[heap'[byPort'[p]].key] = byPort'[p]
      <3>1. byPort'[p] = byPort[p] /\ byPort[p] \in Objs
            /\ p \notin {heap[o].port : o \in Expired}
        BY <1>0, <2>2 DEF IInv, TypeOK
      <3>2. heap[byPort[p]] # Nil /\ heap[byPort[p]].port = p
            /\ pairs[heap[byPort[p]].key] = byPort[p]
        BY <3>1 DEF IInv, TablesAgree
      <3>3. byPort[p] \notin Expired
        BY <3>1, <3>2
      <3>4. heap[byPort[p]].key \in Keys
        BY <3>1, <3>2 DEF IInv, TypeOK, Pair
      <3> QED BY <1>0, <1>5, <3>1, <3>2, <3>3, <3>4
    <2>3. ASSUME NEW o \in Objs, heap'[o] # Nil, heap'[o].open
          PROVE  pairs'[heap'[o].key] = o
      <3>1. o \notin Expired
        BY <1>2, <1>5, <2>3
      <3>2. heap'[o] = heap[o]
        BY <1>5, <3>1
      <3>3. pairs[heap[o].key] = o /\ heap[o].key \in Keys
        BY <2>3, <3>2 DEF IInv, TypeOK, TablesAgree, Pair
      <3> QED BY <1>0, <3>1, <3>2, <3>3
    <2> QED BY <2>1, <2>2, <2>3 DEF TablesAgree
  <1>8. ASSUME NEW k \in Keys, offer[k] # Nil
        PROVE  pairs'[k] = pairs[k] /\ heap'[pairs[k]] = heap[pairs[k]]
    <2>1. heap[pairs[k]].age <= offer[k].age /\ pairs[k] \in Objs /\ heap[pairs[k]] # Nil
      BY <1>8 DEF IInv, TypeOK, OfferYoung, OfferHonoured, TablesAgree
    <2>2. offer[k].age \in 0..(Quiet - 1) /\ heap[pairs[k]].age \in Nat
      BY <1>8, <2>1 DEF IInv, TypeOK, Offer, Pair
    <2>3. pairs[k] \notin Expired
      BY <1>1, <2>1, <2>2
    <2> QED BY <1>0, <1>5, <2>1, <2>3
  <1>9. OfferHonoured' /\ OfferYoung'
    <2>1. ASSUME NEW k \in Keys, offer[k] # Nil
          PROVE  /\ pairs'[k] # Nil /\ heap'[pairs'[k]].open
                 /\ heap'[pairs'[k]].port = offer[k].port /\ heap'[pairs'[k]].age <= offer[k].age
      <3>1. /\ pairs[k] # Nil /\ heap[pairs[k]].open
            /\ heap[pairs[k]].port = offer[k].port /\ heap[pairs[k]].age <= offer[k].age
        BY <2>1 DEF IInv, OfferHonoured, OfferYoung
      <3> QED BY <1>8, <2>1, <3>1
    <2> QED BY <1>0, <2>1 DEF OfferHonoured, OfferYoung
  <1>10. NoEcho'
    <2> SUFFICES ASSUME NEW o \in Objs, heap'[o] # Nil
                 PROVE  heap'[o].moved \/ heap'[o].joiner # heap'[o].host
      BY DEF NoEcho
    <2>1. heap[o] # Nil
      BY <1>1, <1>5
    <2>2. heap[o].moved \/ heap[o].joiner # heap[o].host
      BY <2>1 DEF IInv, NoEcho
    <2> QED BY <1>3, <1>4, <1>5, <2>2
  <1>11. RefusedOnlyWhenFull'
    BY <1>0 DEF IInv, RefusedOnlyWhenFull
  <1> QED BY <1>6, <1>7, <1>9, <1>10, <1>11 DEF IInv

LEMMA TickStep ==
    ASSUME IInv, Tick
    PROVE  IInv'
  <1> USE RelayAssumption, NilAssumption
  <1>0. /\ heap' = [o \in Objs |-> Older(heap[o])]
        /\ offer' = [k \in Keys |-> Fresh(offer[k])]
        /\ pairs' = pairs /\ byPort' = byPort /\ next' = next /\ missed' = missed
    BY DEF Tick
  <1>1. ASSUME NEW o \in Objs, heap[o] # Nil
        PROVE  /\ heap'[o] \in Pair /\ heap'[o] # Nil
               /\ heap'[o].key = heap[o].key /\ heap'[o].port = heap[o].port
               /\ heap'[o].joiner = heap[o].joiner /\ heap'[o].host = heap[o].host
               /\ heap'[o].age <= heap[o].age + 1
               /\ heap'[o].open = heap[o].open
               /\ heap'[o].moved = heap[o].moved
    <2>1. heap[o] \in Pair
      BY <1>1 DEF IInv, TypeOK
    <2> DEFINE a == IF heap[o].age < Quiet THEN heap[o].age + 1 ELSE heap[o].age
    <2>2. a \in 0..Quiet /\ a <= heap[o].age + 1
      BY <2>1 DEF Pair
    <2>3. heap'[o] = [heap[o] EXCEPT !.age = a]
      BY <1>0, <1>1 DEF Older
    <2> HIDE DEF a
    <2>4. heap'[o] \in Pair
      BY <2>1, <2>2, <2>3 DEF Pair
    <2>5. heap'[o].key = heap[o].key /\ heap'[o].port = heap[o].port
          /\ heap'[o].joiner = heap[o].joiner /\ heap'[o].host = heap[o].host
          /\ heap'[o].age <= heap[o].age + 1
      BY <2>1, <2>2, <2>3 DEF Pair
    <2>6. heap'[o].open = heap[o].open /\ heap'[o].moved = heap[o].moved
      BY <2>1, <2>3 DEF Pair
    <2> QED BY <2>4, <2>5, <2>6
  <1>2. ASSUME NEW o \in Objs, heap[o] = Nil PROVE heap'[o] = Nil
    BY <1>0, <1>2 DEF Older
  <1>3. ASSUME NEW k \in Keys
        PROVE  /\ offer'[k] \in Offer \cup {Nil}
               /\ offer'[k] # Nil => /\ offer[k] # Nil
                                     /\ offer'[k].port = offer[k].port
                                     /\ offer'[k].age = offer[k].age + 1
    <2>1. CASE offer[k] = Nil
      BY <1>0, <2>1 DEF Fresh
    <2>2. CASE offer[k] # Nil /\ offer[k].age + 1 = Quiet
      BY <1>0, <2>2 DEF Fresh
    <2>3. CASE offer[k] # Nil /\ offer[k].age + 1 # Quiet
      <3>1. offer[k] \in Offer
        BY <2>3 DEF IInv, TypeOK
      <3>2. offer'[k] = [offer[k] EXCEPT !.age = offer[k].age + 1]
        BY <1>0, <2>3 DEF Fresh
      <3> QED BY <2>3, <3>1, <3>2 DEF Offer
    <2> QED BY <2>1, <2>2, <2>3
  <1>4. TypeOK'
    <2>1. heap' \in [Objs -> Pair \cup {Nil}]
      BY <1>0, <1>1, <1>2
    <2>2. offer' \in [Keys -> Offer \cup {Nil}]
      BY <1>0, <1>3
    <2> QED BY <1>0, <2>1, <2>2 DEF IInv, TypeOK
  <1>5. TablesAgree'
    <2>1. ASSUME NEW k \in Keys, pairs[k] # Nil
          PROVE  heap'[pairs[k]] # Nil /\ heap'[pairs[k]].key = k
                 /\ heap'[pairs[k]].open /\ byPort[heap'[pairs[k]].port] = pairs[k]
      <3>1. pairs[k] \in Objs /\ heap[pairs[k]] # Nil /\ heap[pairs[k]].key = k
            /\ heap[pairs[k]].open /\ byPort[heap[pairs[k]].port] = pairs[k]
        BY <2>1 DEF IInv, TypeOK, TablesAgree
      <3> QED BY <1>1, <3>1
    <2>2. ASSUME NEW p \in Ports, byPort[p] # Nil
          PROVE  heap'[byPort[p]] # Nil /\ heap'[byPort[p]].port = p
                 /\ pairs[heap'[byPort[p]].key] = byPort[p]
      <3>1. byPort[p] \in Objs /\ heap[byPort[p]] # Nil /\ heap[byPort[p]].port = p
            /\ pairs[heap[byPort[p]].key] = byPort[p]
        BY <2>2 DEF IInv, TypeOK, TablesAgree
      <3> QED BY <1>1, <3>1
    <2>3. ASSUME NEW o \in Objs, heap'[o] # Nil, heap'[o].open
          PROVE  pairs[heap'[o].key] = o
      <3>1. heap[o] # Nil
        BY <1>2, <2>3
      <3>2. heap[o].open /\ heap'[o].key = heap[o].key
        BY <1>1, <2>3, <3>1
      <3> QED BY <3>1, <3>2 DEF IInv, TablesAgree
    <2> QED BY <1>0, <2>1, <2>2, <2>3 DEF TablesAgree
  <1>6. ASSUME NEW k \in Keys, offer'[k] # Nil
        PROVE  /\ pairs[k] # Nil /\ heap'[pairs[k]].open
               /\ heap'[pairs[k]].port = offer'[k].port
               /\ heap'[pairs[k]].age <= offer'[k].age
    <2>1. offer[k] # Nil /\ offer'[k].port = offer[k].port /\ offer'[k].age = offer[k].age + 1
      BY <1>3, <1>6
    <2>2. pairs[k] \in Objs /\ heap[pairs[k]] # Nil /\ heap[pairs[k]].open
          /\ heap[pairs[k]].port = offer[k].port /\ heap[pairs[k]].age <= offer[k].age
      BY <2>1 DEF IInv, TypeOK, OfferHonoured, OfferYoung, TablesAgree
    <2>3. heap'[pairs[k]].open /\ heap'[pairs[k]].port = offer'[k].port
      BY <1>1, <2>1, <2>2
    <2>4. heap[pairs[k]] \in Pair /\ offer[k] \in Offer
      BY <2>1, <2>2 DEF IInv, TypeOK
    <2>5. heap'[pairs[k]].age <= heap[pairs[k]].age + 1 /\ heap'[pairs[k]].age \in Nat
      BY <1>1, <2>2 DEF Pair
    <2>6. heap'[pairs[k]].age <= offer'[k].age
      BY <2>1, <2>2, <2>4, <2>5 DEF Pair, Offer
    <2> QED BY <2>2, <2>3, <2>6
  <1>7. OfferHonoured' /\ OfferYoung'
    BY <1>0, <1>6 DEF OfferHonoured, OfferYoung
  <1>8. NoEcho'
    BY <1>1, <1>2 DEF IInv, NoEcho
  <1>9. RefusedOnlyWhenFull'
    BY <1>0 DEF IInv, RefusedOnlyWhenFull
  <1> QED BY <1>4, <1>5, <1>7, <1>8, <1>9 DEF IInv

-----------------------------------------------------------------------------
LEMMA NextInv == IInv /\ [Next]_vars => IInv'
  <1> SUFFICES ASSUME IInv, [Next]_vars PROVE IInv'
    OBVIOUS
  <1>1. CASE UNCHANGED vars
    BY <1>1 DEF vars, IInv, TypeOK, TablesAgree, OfferHonoured, OfferYoung,
                RefusedOnlyWhenFull, NoEcho
  <1>2. CASE Next
    BY <1>2, RefreshStep, OpenStep, RefuseStep, ServeStep, ServeReturnsStep, ReapStep, TickStep
    DEF Next
  <1> QED BY <1>1, <1>2

(* IInv is an invariant of the relay. *)
THEOREM RelayInv == Spec => []IInv
  BY InitInv, NextInv, PTL DEF Spec

(* The state of the relay has its types: the round robin never leaves the  *)
(* range of ports.                                                         *)
THEOREM RelayTypes == Spec => []TypeOK
  <1>1. IInv => TypeOK
    BY DEF IInv
  <1> QED BY <1>1, RelayInv, PTL

(* relayTable: `pairs`, `byPort` and the open sockets are the same pairs.  *)
THEOREM RelayTablesAgree == Spec => []TablesAgree
  <1>1. IInv => TablesAgree
    BY DEF IInv
  <1> QED BY <1>1, RelayInv, PTL

(* withRelay: an offered port belongs to the joiner's pair for the quiet   *)
(* period.                                                                 *)
THEOREM RelayOffersHonoured == Spec => []OfferHonoured
  <1>1. IInv => OfferHonoured
    BY DEF IInv
  <1> QED BY <1>1, RelayInv, PTL

(* pairFor: it gives up only if no port is free and can be opened.         *)
THEOREM RelayRefusals == Spec => []RefusedOnlyWhenFull
  <1>1. IInv => RefusedOnlyWhenFull
    BY DEF IInv
  <1> QED BY <1>1, RelayInv, PTL

(* serve: a host that keeps its address is never taken for the joiner.     *)
THEOREM RelayNoEcho == Spec => []NoEcho
  <1>1. IInv => NoEcho
    BY DEF IInv
  <1> QED BY <1>1, RelayInv, PTL

=============================================================================
