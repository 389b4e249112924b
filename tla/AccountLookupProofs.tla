------------------------ MODULE AccountLookupProofs ------------------------
(***************************************************************************)
(* Proofs about AccountLookup, for any goroutines, ids, accounts and TTLs  *)
(* that LookupAssumption allows. The invariant AgesHonest says that the    *)
(* age of an entry, and of a call with an answer, bounds the time since    *)
(* the answer could be heard (it was true, or nobody was what an answer    *)
(* without a readable body stood for), and that the breaker's remaining    *)
(* time and the age of the last failure make up the promised pause.        *)
(***************************************************************************)
EXTENDS AccountLookup, FiniteSetTheorems, TLAPS

EntriesHonest ==
    \A i \in Ids : cache[i] # NoEntry => since[i][cache[i].pid] <= cache[i].age

CallsHonest ==
    \A g \in Goroutines :
       call[g].stage = "answered" => since[call[g].id][call[g].pid] <= call[g].age

PauseKept == down + sinceFail >= MissTTL - Timeout

OwnersNow == \A i \in Ids : since[i][owner[i]] = 0

AgesHonest == OwnersNow /\ EntriesHonest /\ CallsHonest /\ PauseKept

(* An idle goroutine's record is a call. *)
LEMMA IdleCall == Idle \in Call
  <1>1. (CHOOSE i \in Ids : TRUE) \in Ids
    BY LookupAssumption
  <1> QED BY <1>1, LookupAssumption DEF Idle, Call, Values

(* The cache with room for one more holds entries that were there before. *)
LEMMA MadeRoomCache ==
    ASSUME TypeOK
    PROVE  /\ MadeRoom \in [Ids -> Entry \cup {NoEntry}]
           /\ \A i \in Ids : MadeRoom[i] = NoEntry \/ MadeRoom[i] = cache[i]
  BY DEF TypeOK, MadeRoom

(* What Remember writes. *)
LEMMA RememberedCache ==
    ASSUME TypeOK, NEW g \in Goroutines
    PROVE  /\ Remembered(g) \in [Ids -> Entry \cup {NoEntry}]
           /\ call[g].id \in Ids
           /\ Remembered(g)[call[g].id] = [pid |-> call[g].pid, age |-> call[g].age]
           /\ \A i \in Ids \ {call[g].id} :
                Remembered(g)[i] = NoEntry \/ Remembered(g)[i] = cache[i]
  <1>1. call[g] \in Call
    BY DEF TypeOK
  <1>2. [pid |-> call[g].pid, age |-> call[g].age] \in Entry
    BY <1>1, LookupAssumption DEF Call, Entry
  <1>3. call[g].id \in Ids
    BY <1>1 DEF Call
  <1> QED BY <1>2, <1>3, MadeRoomCache DEF Remembered

(* The initial state. *)
LEMMA InitTypes == Init => TypeOK
  <1> SUFFICES ASSUME Init PROVE TypeOK OBVIOUS
  <1>1. call \in [Goroutines -> Call]
    BY IdleCall DEF Init
  <1>2. since \in [Ids -> [Values -> 0..HitTTL]]
    BY LookupAssumption DEF Init
  <1> QED BY <1>1, <1>2, LookupAssumption DEF Init, TypeOK

(* Every step keeps the types. *)
LEMMA NextTypes == TypeOK /\ [Next]_vars => TypeOK'
  <1> SUFFICES ASSUME TypeOK, [Next]_vars PROVE TypeOK' OBVIOUS
  <1> USE LookupAssumption
  <1>1. ASSUME NEW i \in Ids, NEW v \in Values, Relink(i, v) PROVE TypeOK'
    BY <1>1 DEF Relink, TypeOK
  <1>2. CASE Toggle
    BY <1>2 DEF Toggle, TypeOK
  <1>3. ASSUME NEW g \in Goroutines, NEW i \in Ids, Start(g, i) PROVE TypeOK'
    <2>1. [stage |-> "sent", id |-> i, pid |-> NoPid, age |-> 0] \in Call
      BY DEF Call, Values
    <2> QED BY <1>3, <2>1 DEF Start, TypeOK
  <1>4. ASSUME NEW g \in Goroutines, FetchResolve(g) PROVE TypeOK'
    <2>1. call[g] \in Call /\ call[g].id \in Ids /\ owner[call[g].id] \in Values
      BY DEF TypeOK, Call
    <2>2. call' \in [Goroutines -> Call]
      <3>1. CASE Told(g)
        BY <2>1, <3>1 DEF Told, TypeOK, Call
      <3>2. CASE NotReached(g)
        BY <2>1, <3>2 DEF NotReached, TypeOK, Call
      <3>3. CASE Unreadable(g)
        BY <2>1, <3>3 DEF Unreadable, TypeOK, Call, Values
      <3> QED BY <1>4, <3>1, <3>2, <3>3 DEF FetchResolve
    <2>3. since' \in [Ids -> [Values -> 0..HitTTL]]
      <3>1. CASE UNCHANGED since
        BY <3>1 DEF TypeOK
      <3>2. CASE since' = [since EXCEPT ![call[g].id][NoPid] = 0]
        <4>1. [since[call[g].id] EXCEPT ![NoPid] = 0] \in [Values -> 0..HitTTL]
          <5>1. since[call[g].id] \in [Values -> 0..HitTTL] /\ 0 \in 0..HitTTL
            BY <2>1 DEF TypeOK
          <5> QED BY <5>1
        <4>2. since' = [since EXCEPT ![call[g].id] = [since[call[g].id] EXCEPT ![NoPid] = 0]]
          BY <3>2
        <4> QED BY <2>1, <4>1, <4>2 DEF TypeOK
      <3> QED BY <1>4, <3>1, <3>2 DEF FetchResolve, Told, NotReached, Unreadable
    <2> QED BY <1>4, <2>2, <2>3 DEF FetchResolve, TypeOK
  <1>5. ASSUME NEW g \in Goroutines, Remember(g) PROVE TypeOK'
    BY <1>5, RememberedCache, IdleCall DEF Remember, Finished, TypeOK
  <1>6. ASSUME NEW g \in Goroutines, Trip(g) PROVE TypeOK'
    <2>1. call[g].age \in 0..Timeout
      BY DEF TypeOK, Call
    <2>2. MissTTL - call[g].age \in 0..MissTTL /\ 0 \in 0..MissTTL
      BY <2>1
    <2> QED BY <1>6, <2>2, IdleCall DEF Trip, Finished, TypeOK
  <1>7. CASE Tick
    <2>1. cache' \in [Ids -> Entry \cup {NoEntry}]
      <3> SUFFICES ASSUME NEW i \in Ids PROVE Aged(cache[i]) \in Entry \cup {NoEntry}
        BY <1>7 DEF Tick
      <3> QED BY DEF TypeOK, Aged, Capped, Entry
    <2>2. call' \in [Goroutines -> Call]
      <3> SUFFICES ASSUME NEW g \in Goroutines, call[g].stage # "idle"
                   PROVE  [call[g] EXCEPT !.age = @ + 1] \in Call
        BY <1>7 DEF Tick, TypeOK
      <3>1. call[g] \in Call /\ call[g].age < Timeout
        BY <1>7 DEF Tick, TypeOK
      <3> QED BY <3>1 DEF Call
    <2>3. since' \in [Ids -> [Values -> 0..HitTTL]]
      BY <1>7 DEF Tick, TypeOK, Capped
    <2>4. down' \in 0..MissTTL /\ sinceFail' \in 0..MissTTL
      <3>1. down' = Remaining(down) /\ sinceFail' = Capped(sinceFail, MissTTL)
        BY <1>7 DEF Tick
      <3>2. down \in 0..MissTTL /\ sinceFail \in 0..MissTTL
        BY DEF TypeOK
      <3> QED BY <3>1, <3>2 DEF Capped, Remaining
    <2> QED BY <1>7, <2>1, <2>2, <2>3, <2>4 DEF Tick, TypeOK
  <1>8. CASE UNCHANGED vars
    BY <1>8 DEF vars, TypeOK
  <1> QED BY <1>1, <1>2, <1>3, <1>4, <1>5, <1>6, <1>7, <1>8 DEF Next, Lookup

(* Type correctness of the cache, the breaker and the calls, for any TTLs.  *)
THEOREM LookupTypes == Spec => []TypeOK
  BY InitTypes, NextTypes, PTL DEF Spec

-----------------------------------------------------------------------------
(* The ages are honest in the initial state ... *)
LEMMA InitHonest == Init => AgesHonest
  <1> SUFFICES ASSUME Init PROVE AgesHonest OBVIOUS
  <1>1. OwnersNow
    BY DEF Init, OwnersNow
  <1> QED BY <1>1, LookupAssumption
          DEF Init, AgesHonest, EntriesHonest, CallsHonest, PauseKept, Idle

(* ... and every step keeps them so. *)
LEMMA NextHonest == TypeOK /\ AgesHonest /\ [Next]_vars => AgesHonest'
  <1> SUFFICES ASSUME TypeOK, AgesHonest, [Next]_vars PROVE AgesHonest' OBVIOUS
  <1> USE LookupAssumption
  <1>0. /\ \A i \in Ids : cache[i] # NoEntry => cache[i] \in Entry /\ cache[i].pid \in Values
        /\ \A g \in Goroutines : call[g].id \in Ids /\ call[g].pid \in Values
        /\ \A g \in Goroutines : call[g].age \in 0..Timeout
    BY DEF TypeOK, Entry, Call
  <1>1. ASSUME NEW i \in Ids, NEW v \in Values, Relink(i, v) PROVE AgesHonest'
    <2>1. \A j \in Ids, w \in Values : since'[j][w] <= since[j][w]
      BY <1>1 DEF Relink, TypeOK
    <2>2. \A j \in Ids, w \in Values : since'[j][w] \in Int /\ since[j][w] \in Int
      BY <1>1 DEF Relink, TypeOK
    <2>3. EntriesHonest'
      BY <1>0, <1>1, <2>1, <2>2 DEF Relink, AgesHonest, EntriesHonest, Entry
    <2>4. CallsHonest'
      BY <1>0, <1>1, <2>1, <2>2 DEF Relink, AgesHonest, CallsHonest
    <2>5. OwnersNow'
      BY <1>1 DEF Relink, TypeOK, AgesHonest, OwnersNow
    <2> QED BY <1>1, <2>3, <2>4, <2>5 DEF Relink, AgesHonest, PauseKept
  <1>2. CASE Toggle
    BY <1>2 DEF Toggle, AgesHonest, OwnersNow, EntriesHonest, CallsHonest, PauseKept
  <1>3. ASSUME NEW g \in Goroutines, NEW i \in Ids, Start(g, i) PROVE AgesHonest'
    BY <1>3 DEF Start, TypeOK, AgesHonest, OwnersNow, EntriesHonest, CallsHonest, PauseKept
  <1>4. ASSUME NEW g \in Goroutines, FetchResolve(g) PROVE AgesHonest'
    <2>1. UNCHANGED <<owner, cache, down, sinceFail>> /\ call[g].id \in Ids
      BY <1>0, <1>4 DEF FetchResolve
    (* What could be heard is only ever younger. *)
    <2>2. \A j \in Ids, w \in Values : /\ since[j][w] \in Nat /\ since'[j][w] \in Nat
                                       /\ since'[j][w] <= since[j][w]
      <3>1. CASE UNCHANGED since
        BY <3>1 DEF TypeOK
      <3>2. CASE since' = [since EXCEPT ![call[g].id][NoPid] = 0]
        BY <2>1, <3>2 DEF TypeOK
      <3> QED BY <1>4, <3>1, <3>2 DEF FetchResolve, Told, NotReached, Unreadable
    <2>3. OwnersNow'
      <3> SUFFICES ASSUME NEW i \in Ids PROVE since'[i][owner[i]] = 0
        BY <2>1 DEF OwnersNow
      <3>1. owner[i] \in Values /\ since[i][owner[i]] = 0
        BY DEF TypeOK, AgesHonest, OwnersNow
      <3> QED BY <2>2, <3>1
    <2>4. EntriesHonest'
      BY <1>0, <2>1, <2>2 DEF AgesHonest, EntriesHonest, Entry
    <2>5. CallsHonest'
      <3> SUFFICES ASSUME NEW h \in Goroutines, call'[h].stage = "answered"
                   PROVE  since'[call'[h].id][call'[h].pid] <= call'[h].age
        BY DEF CallsHonest
      <3>1. CASE h = g /\ Told(g)
        <4>1. /\ call'[h].id = call[g].id /\ call'[h].age = call[g].age
              /\ call'[h].pid = owner[call[g].id]
          BY <3>1 DEF Told, TypeOK, Call
        <4>2. since'[call[g].id][owner[call[g].id]] = 0
          BY <2>1, <2>3 DEF OwnersNow
        <4> QED BY <1>0, <4>1, <4>2
      <3>2. CASE h = g /\ Unreadable(g)
        <4>1. /\ call'[h].id = call[g].id /\ call'[h].age = call[g].age
              /\ call'[h].pid = NoPid
          BY <3>2 DEF Unreadable, TypeOK, Call
        <4>2. since'[call[g].id][NoPid] = 0
          BY <2>1, <3>2 DEF Unreadable, TypeOK, Values
        <4> QED BY <1>0, <4>1, <4>2
      <3>3. CASE h = g /\ NotReached(g)
        BY <3>3 DEF NotReached, TypeOK, Call
      <3>4. CASE h # g
        <4>1. call'[h] = call[h]
          BY <1>4, <3>4 DEF FetchResolve, Told, NotReached, Unreadable, TypeOK
        <4>2. since[call[h].id][call[h].pid] <= call[h].age
          BY <4>1 DEF AgesHonest, CallsHonest
        <4> QED BY <1>0, <2>2, <4>1, <4>2
      <3> QED BY <1>4, <3>1, <3>2, <3>3, <3>4 DEF FetchResolve
    <2> QED BY <2>1, <2>3, <2>4, <2>5 DEF AgesHonest, PauseKept
  <1>5. ASSUME NEW g \in Goroutines, Remember(g) PROVE AgesHonest'
    <2>1. EntriesHonest'
      <3> SUFFICES ASSUME NEW i \in Ids, cache'[i] # NoEntry
                   PROVE  since[i][cache'[i].pid] <= cache'[i].age
        BY <1>5 DEF EntriesHonest, Remember
      <3>1. CASE i = call[g].id
        <4>1. cache'[i].pid = call[g].pid /\ cache'[i].age = call[g].age
          <5>1. cache'[i] = [pid |-> call[g].pid, age |-> call[g].age]
            BY <1>5, <3>1, RememberedCache DEF Remember
          <5> QED BY <5>1
        <4> QED BY <1>5, <3>1, <4>1 DEF Remember, AgesHonest, CallsHonest
      <3>2. CASE i # call[g].id
        BY <1>5, <3>2, RememberedCache DEF Remember, AgesHonest, EntriesHonest
      <3> QED BY <3>1, <3>2
    <2>2. CallsHonest'
      BY <1>5 DEF Remember, Finished, Idle, TypeOK, AgesHonest, CallsHonest
    <2> QED BY <1>5, <2>1, <2>2 DEF Remember, AgesHonest, OwnersNow, PauseKept
  <1>6. ASSUME NEW g \in Goroutines, Trip(g) PROVE AgesHonest'
    <2>1. CallsHonest'
      BY <1>6 DEF Trip, Finished, Idle, TypeOK, AgesHonest, CallsHonest
    <2>2. PauseKept'
      BY <1>0, <1>6 DEF Trip, PauseKept
    <2> QED BY <1>6, <2>1, <2>2 DEF Trip, AgesHonest, OwnersNow, EntriesHonest
  <1>7. CASE Tick
    <2>1. /\ \A i \in Ids, v \in Values :
               since'[i][v] = IF owner[i] = v THEN 0 ELSE Capped(since[i][v], HitTTL)
          /\ owner' = owner
      BY <1>7 DEF Tick
    <2>2. \A i \in Ids, v \in Values : since[i][v] \in 0..HitTTL /\ owner[i] \in Values
      BY DEF TypeOK
    <2>3. OwnersNow'
      <3> SUFFICES ASSUME NEW i \in Ids PROVE since'[i][owner'[i]] = 0
        BY DEF OwnersNow
      <3>1. owner[i] \in Values
        BY DEF TypeOK
      <3> QED BY <2>1, <3>1
    <2>4. EntriesHonest'
      <3> SUFFICES ASSUME NEW i \in Ids, cache'[i] # NoEntry
                   PROVE  since'[i][cache'[i].pid] <= cache'[i].age
        BY DEF EntriesHonest
      <3>1. cache'[i] = Aged(cache[i]) /\ cache[i] # NoEntry
        BY <1>7 DEF Tick, Aged
      <3>2. /\ cache'[i].pid = cache[i].pid
            /\ cache'[i].age = Capped(cache[i].age, HitTTL)
            /\ cache[i].age \in 0..HitTTL
        BY <1>0, <3>1 DEF Aged, Entry
      <3>3. since[i][cache[i].pid] <= cache[i].age
        BY <3>1 DEF AgesHonest, EntriesHonest
      <3> QED BY <1>0, <2>1, <2>2, <3>1, <3>2, <3>3 DEF Capped
    <2>5. CallsHonest'
      <3> SUFFICES ASSUME NEW g \in Goroutines, call'[g].stage = "answered"
                   PROVE  since'[call'[g].id][call'[g].pid] <= call'[g].age
        BY DEF CallsHonest
      <3>1. /\ call[g].stage = "answered"
            /\ call'[g].id = call[g].id /\ call'[g].pid = call[g].pid
            /\ call'[g].age = call[g].age + 1
        BY <1>7 DEF Tick, TypeOK, Call
      <3>2. since[call[g].id][call[g].pid] <= call[g].age
        BY <3>1 DEF AgesHonest, CallsHonest
      <3> QED BY <1>0, <2>1, <2>2, <3>1, <3>2 DEF Capped
    <2>6. PauseKept'
      <3>1. down' = Remaining(down) /\ sinceFail' = Capped(sinceFail, MissTTL)
        BY <1>7 DEF Tick
      <3>2. down \in 0..MissTTL /\ sinceFail \in 0..MissTTL
        BY DEF TypeOK
      <3> QED BY <3>1, <3>2 DEF AgesHonest, PauseKept, Capped, Remaining
    <2> QED BY <2>3, <2>4, <2>5, <2>6 DEF AgesHonest
  <1>8. CASE UNCHANGED vars
    BY <1>8 DEF vars, AgesHonest, OwnersNow, EntriesHonest, CallsHonest, PauseKept
  <1> QED BY <1>1, <1>2, <1>3, <1>4, <1>5, <1>6, <1>7, <1>8 DEF Next, Lookup

(* In every reachable state the ages are honest: pidForConsoleID dates an   *)
(* answer, and a failure, by the start of its call.                         *)
THEOREM LookupHonest == Spec => [](TypeOK /\ AgesHonest)
  BY InitTypes, NextTypes, InitHonest, NextHonest, PTL DEF Spec

(* pidForConsoleID: an account is told only if it had the id less than its   *)
(* TTL ago; nobody only if nobody had it, or an answer without a readable    *)
(* body came, less than the shorter TTL ago, however slow and overlapping    *)
(* the calls are and whatever was thrown out of the table.                   *)
THEOREM LookupRecent == Spec => []AnswersRecent
  <1>1. TypeOK /\ AgesHonest => AnswersRecent
    <2> SUFFICES ASSUME TypeOK, AgesHonest PROVE AnswersRecent OBVIOUS
    <2> USE LookupAssumption
    <2>1. ASSUME NEW i \in Ids, Fresh(cache[i]) PROVE since[i][cache[i].pid] < TTL(cache[i].pid)
      <3>1. cache[i] \in Entry
        BY <2>1 DEF TypeOK, Fresh
      <3>2. cache[i].pid \in Values /\ cache[i].age \in Int /\ TTL(cache[i].pid) \in Int
        BY <3>1 DEF Entry, TTL
      <3>3. since[i][cache[i].pid] \in Int
        BY <3>2 DEF TypeOK
      <3> QED BY <2>1, <3>2, <3>3 DEF Fresh, AgesHonest, EntriesHonest
    <2>2. ASSUME NEW g \in Goroutines, call[g].stage = "answered"
          PROVE  since[call[g].id][call[g].pid] <= Timeout
      <3>1. call[g].id \in Ids /\ call[g].pid \in Values /\ call[g].age \in 0..Timeout
        BY DEF TypeOK, Call
      <3>2. since[call[g].id][call[g].pid] \in Int
        BY <3>1 DEF TypeOK
      <3> QED BY <2>2, <3>1, <3>2 DEF AgesHonest, CallsHonest
    <2> QED BY <2>1, <2>2 DEF AnswersRecent
  <1> QED BY <1>1, LookupHonest, PTL

(* After a noted failure no call starts for the miss TTL less one timeout,  *)
(* however many calls were under way when the service failed.               *)
THEOREM LookupBreaker == Spec => BreakerHolds
  <1>1. TypeOK /\ AgesHonest /\ [Next]_vars =>
          [\A g \in Goroutines :
             call[g].stage = "idle" /\ call'[g].stage = "sent" => sinceFail >= MissTTL - Timeout]_vars
    <2> SUFFICES ASSUME TypeOK, AgesHonest, Next, NEW g \in Goroutines,
                        call[g].stage = "idle", call'[g].stage = "sent"
                 PROVE  sinceFail >= MissTTL - Timeout
      OBVIOUS
    <2> USE LookupAssumption
    <2>1. ASSUME NEW i \in Ids, NEW v \in Values, Relink(i, v) PROVE FALSE
      BY <2>1 DEF Relink
    <2>2. CASE Toggle
      BY <2>2 DEF Toggle
    <2>3. ASSUME NEW h \in Goroutines, NEW i \in Ids, Start(h, i)
          PROVE  sinceFail >= MissTTL - Timeout
      BY <2>3 DEF Start, Blocked, TypeOK, AgesHonest, PauseKept
    <2>4. ASSUME NEW h \in Goroutines, FetchResolve(h) PROVE FALSE
      BY <2>4 DEF FetchResolve, Told, NotReached, Unreadable, TypeOK, Call
    <2>5. ASSUME NEW h \in Goroutines, Remember(h) \/ Trip(h) PROVE FALSE
      BY <2>5 DEF Remember, Trip, Finished, Idle, TypeOK
    <2>6. CASE Tick
      BY <2>6 DEF Tick
    <2> QED BY <2>1, <2>2, <2>3, <2>4, <2>5, <2>6 DEF Next, Lookup
  <1> QED BY <1>1, LookupHonest, PTL DEF Spec, BreakerHolds

(* The cache stays within its limit under any overlap of calls. *)
THEOREM LookupBounded == Spec => []CacheBounded
  <1> USE LookupAssumption
  <1>1. Init => CacheBounded
    <2> SUFFICES ASSUME Init PROVE CacheBounded OBVIOUS
    <2>1. Kept = {}
      BY DEF Init, Kept
    <2> QED BY <2>1, FS_EmptySet DEF CacheBounded
  <1>2. TypeOK /\ CacheBounded /\ [Next]_vars => CacheBounded'
    <2> SUFFICES ASSUME TypeOK, CacheBounded, [Next]_vars PROVE CacheBounded' OBVIOUS
    <2>1. IsFiniteSet(Kept) /\ Cardinality(Kept) \in Nat
      BY FS_Subset, FS_CardinalityType DEF Kept
    <2>2. CASE cache' = cache
      BY <2>2 DEF CacheBounded, Kept
    <2>3. ASSUME NEW g \in Goroutines, Remember(g) PROVE CacheBounded'
      <3>1. /\ cache' = Remembered(g) /\ call[g].id \in Ids /\ cache \in [Ids -> Entry \cup {NoEntry}]
            /\ \A i \in Ids \ {call[g].id} : cache'[i] = MadeRoom[i]
        BY <2>3, RememberedCache, MadeRoomCache DEF Remember, Remembered, TypeOK
      <3>2. CASE Cardinality(Kept) >= MaxKeep
        <4>1. Kept' \subseteq {call[g].id}
          BY <3>1, <3>2 DEF Kept, MadeRoom
        <4>2. IsFiniteSet({call[g].id}) /\ Cardinality({call[g].id}) = 1
          BY FS_Singleton
        <4>3. Cardinality(Kept') <= 1 /\ Cardinality(Kept') \in Nat
          <5>1. IsFiniteSet(Kept') /\ Cardinality(Kept') <= Cardinality({call[g].id})
            BY <4>1, <4>2, FS_Subset
          <5> QED BY <4>2, <5>1, FS_CardinalityType
        <4> QED BY <4>3 DEF CacheBounded
      <3>3. CASE ~(Cardinality(Kept) >= MaxKeep)
        <4>1. Kept' \subseteq Kept \cup {call[g].id}
          BY <3>1, <3>3 DEF Kept, MadeRoom
        <4>2. /\ IsFiniteSet(Kept \cup {call[g].id})
              /\ Cardinality(Kept \cup {call[g].id}) <= Cardinality(Kept) + 1
              /\ Cardinality(Kept \cup {call[g].id}) \in Nat
          <5>1. /\ IsFiniteSet(Kept \cup {call[g].id})
                /\ \/ Cardinality(Kept \cup {call[g].id}) = Cardinality(Kept)
                   \/ Cardinality(Kept \cup {call[g].id}) = Cardinality(Kept) + 1
            BY <2>1, FS_AddElement
          <5> QED BY <2>1, <5>1
        <4>3. Cardinality(Kept') <= Cardinality(Kept \cup {call[g].id}) /\ Cardinality(Kept') \in Nat
          BY <4>1, <4>2, FS_Subset, FS_CardinalityType
        <4> QED BY <2>1, <3>3, <4>2, <4>3 DEF CacheBounded
      <3> QED BY <3>2, <3>3
    <2>4. CASE Tick
      <3>1. Kept' = Kept
        <4> SUFFICES ASSUME NEW i \in Ids PROVE cache'[i] = NoEntry <=> cache[i] = NoEntry
          BY DEF Kept
        <4>1. cache'[i] = Aged(cache[i]) /\ cache[i] \in Entry \cup {NoEntry}
          BY <2>4 DEF Tick, TypeOK
        <4>2. CASE cache[i] \in Entry
          <5>1. [cache[i] EXCEPT !.age = Capped(cache[i].age, HitTTL)] \in Entry
            BY <4>2 DEF Entry, Capped
          <5> QED BY <4>1, <4>2, <5>1 DEF Aged, Entry
        <4> QED BY <4>1, <4>2 DEF Aged
      <3> QED BY <3>1 DEF CacheBounded
    <2> QED BY <2>2, <2>3, <2>4
            DEF Next, Lookup, Relink, Toggle, Start, FetchResolve, Trip, vars
  <1> QED BY <1>1, <1>2, LookupTypes, PTL DEF Spec

=============================================================================
