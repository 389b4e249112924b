--------------------------- MODULE AccountLookup ---------------------------
(***************************************************************************)
(* pidForConsoleID (accountlookup.go): the answers of the account service  *)
(* about console friend ids, remembered for a while, and the breaker that  *)
(* stops the calls after one of them failed.                               *)
(*                                                                         *)
(* resolveMu is released during the call, so calls of several goroutines   *)
(* overlap, for the same id too, while the owners change and the service   *)
(* comes and goes. A call is three actions: its start, the moment at which *)
(* the service decides the answer, and the write. The code takes `now`     *)
(* before the call and uses it after. Not every call that goes wrong is    *)
(* noted as a failure: a 200 whose body cannot be read counts as nobody.   *)
(*                                                                         *)
(* Time is kept as ages, which stop at the point where the code no longer  *)
(* tells them apart: the behaviours are infinite and the states finite.    *)
(***************************************************************************)
EXTENDS Integers, FiniteSets

CONSTANTS
    Goroutines, \* the goroutines that look friends up
    Ids,        \* console friend ids
    Pids,       \* accounts
    NoPid,      \* 0: nobody has the id
    NoEntry,    \* the id is not in resolveCache
    HitTTL,     \* resolveHitTTL, in ticks
    MissTTL,    \* resolveMissTTL
    Timeout,    \* the timeout of resolveHTTP
    MaxKeep     \* resolveMaxKeep

Values == Pids \cup {NoPid}

ASSUME LookupAssumption ==
    /\ NoPid \notin Pids
    /\ NoEntry \notin [pid : Values, age : 0..HitTTL]
    /\ Timeout \in Nat /\ MissTTL \in Nat /\ HitTTL \in Nat
    /\ 0 < Timeout /\ Timeout < MissTTL /\ MissTTL <= HitTTL
    /\ MaxKeep \in Nat \ {0}
    /\ IsFiniteSet(Ids) /\ Ids # {}

VARIABLES
    up,        \* the account service answers properly and in time
    owner,     \* owner[i]: the account that has id i there
    cache,     \* resolveCache; the age of an entry is now - at
    down,      \* resolveDown - now, or 0 when that has passed
    call,      \* call[g]: the call that goroutine g is in
    since,     \* (history) since[i][v]: the age of the last moment at which v could be heard
               \* of i: it was owner[i], or, for nobody, an answer could not be read
    sinceFail  \* (history) the age of the last failure that was noted

vars == <<up, owner, cache, down, call, since, sinceFail>>

Entry == [pid : Values, age : 0..HitTTL]

(* stage: "idle", "sent", or what came back: "answered" or "failed". *)
Call == [stage : {"idle", "sent", "answered", "failed"}, id : Ids, pid : Values,
         age : 0..Timeout]

Idle == [stage |-> "idle", id |-> CHOOSE i \in Ids : TRUE, pid |-> NoPid, age |-> 0]

TypeOK ==
    /\ up \in BOOLEAN
    /\ owner \in [Ids -> Values]
    /\ cache \in [Ids -> Entry \cup {NoEntry}]
    /\ down \in 0..MissTTL
    /\ call \in [Goroutines -> Call]
    /\ since \in [Ids -> [Values -> 0..HitTTL]]
    /\ sinceFail \in 0..MissTTL

Init ==
    /\ up \in BOOLEAN
    /\ owner \in [Ids -> Values]
    /\ cache = [i \in Ids |-> NoEntry]
    /\ down = 0
    /\ call = [g \in Goroutines |-> Idle]
    /\ since = [i \in Ids |-> [v \in Values |-> IF v = owner[i] THEN 0 ELSE HitTTL]]
    /\ sinceFail = MissTTL

-----------------------------------------------------------------------------
(* The account service: an id is linked to another account, or to none;    *)
(* the service stops or starts to answer.                                  *)
Relink(i, v) ==
    /\ owner[i] # v
    /\ owner' = [owner EXCEPT ![i] = v]
    /\ since' = [since EXCEPT ![i][v] = 0]
    /\ UNCHANGED <<up, cache, down, call, sinceFail>>

Toggle ==
    /\ up' = ~up
    /\ UNCHANGED <<owner, cache, down, call, since, sinceFail>>

-----------------------------------------------------------------------------
TTL(v) == IF v = NoPid THEN MissTTL ELSE HitTTL

Fresh(e) == e # NoEntry /\ e.age < TTL(e.pid)

(* A lookup that misses the cache while the breaker is closed calls. The    *)
(* other two outcomes only read: the fresh entry, or nobody.                *)
Blocked == down > 0

Start(g, i) ==
    /\ call[g].stage = "idle"
    /\ ~Fresh(cache[i])
    /\ ~Blocked
    /\ call' = [call EXCEPT ![g] = [stage |-> "sent", id |-> i, pid |-> NoPid, age |-> 0]]
    /\ UNCHANGED <<up, owner, cache, down, since, sinceFail>>

(* fetchResolve: 200 with an account, 404 or 200 with none ...              *)
Told(g) ==
    /\ up
    /\ call' = [call EXCEPT ![g].stage = "answered", ![g].pid = owner[call[g].id]]
    /\ UNCHANGED since

(* ... or another status or no response at all, which is a failure ...      *)
NotReached(g) ==
    /\ ~up
    /\ call' = [call EXCEPT ![g].stage = "failed"]
    /\ UNCHANGED since

(* ... or a 200 whose body is no JSON or times out while it is read: that   *)
(* comes back as nobody, from a service that was reached.                   *)
Unreadable(g) ==
    /\ ~up
    /\ call' = [call EXCEPT ![g].stage = "answered", ![g].pid = NoPid]
    /\ since' = [since EXCEPT ![call[g].id][NoPid] = 0]

FetchResolve(g) ==
    /\ call[g].stage = "sent"
    /\ Told(g) \/ NotReached(g) \/ Unreadable(g)
    /\ UNCHANGED <<up, owner, cache, down, sinceFail>>

Finished(g) == call' = [call EXCEPT ![g] = Idle]

(* An answer is remembered under the time at which the call started.        *)
Kept == {i \in Ids : cache[i] # NoEntry}

MadeRoom ==
    IF Cardinality(Kept) >= MaxKeep THEN [i \in Ids |-> NoEntry] ELSE cache

RememberedNow(g) ==                     \* a bug: the time is taken after the call
    [MadeRoom EXCEPT ![call[g].id] = [pid |-> call[g].pid, age |-> 0]]

Remembered(g) ==
    [MadeRoom EXCEPT ![call[g].id] = [pid |-> call[g].pid, age |-> call[g].age]]

RememberResets(g) ==                    \* a bug: an answer also closes the breaker
    /\ call[g].stage = "answered"
    /\ cache' = Remembered(g)
    /\ Finished(g)
    /\ down' = 0
    /\ UNCHANGED <<up, owner, since, sinceFail>>

Remember(g) ==
    /\ call[g].stage = "answered"
    /\ cache' = Remembered(g)
    /\ Finished(g)
    /\ UNCHANGED <<up, owner, down, since, sinceFail>>

(* A failure opens the breaker, for a time that began with the call: a late *)
(* one may move resolveDown back.                                           *)
Trip(g) ==
    /\ call[g].stage = "failed"
    /\ down' = MissTTL - call[g].age
    /\ sinceFail' = 0
    /\ Finished(g)
    /\ UNCHANGED <<up, owner, cache, since>>

-----------------------------------------------------------------------------
(* A tick of the clock. No call outlives the timeout of the client.         *)
Capped(n, cap) == IF n < cap THEN n + 1 ELSE cap

RemainingFixed(d) == d                  \* a bug: the breaker never closes again

Remaining(d) == IF d = 0 THEN 0 ELSE d - 1

Aged(e) == IF e = NoEntry THEN NoEntry ELSE [e EXCEPT !.age = Capped(e.age, HitTTL)]

Tick ==
    /\ \A g \in Goroutines : call[g].stage # "idle" => call[g].age < Timeout
    /\ cache' = [i \in Ids |-> Aged(cache[i])]
    /\ down' = Remaining(down)
    /\ call' = [g \in Goroutines |->
                  IF call[g].stage = "idle" THEN call[g]
                  ELSE [call[g] EXCEPT !.age = @ + 1]]
    /\ since' = [i \in Ids |-> [v \in Values |->
                   IF owner[i] = v THEN 0 ELSE Capped(since[i][v], HitTTL)]]
    /\ sinceFail' = Capped(sinceFail, MissTTL)
    /\ UNCHANGED <<up, owner>>

Lookup(g) ==
    \/ \E i \in Ids : Start(g, i)
    \/ FetchResolve(g)
    \/ Remember(g)
    \/ Trip(g)

Next ==
    \/ \E i \in Ids, v \in Values : Relink(i, v)
    \/ Toggle
    \/ \E g \in Goroutines : Lookup(g)
    \/ Tick

(* The clock goes on, and a call that was sent ends. *)
Spec ==
    /\ Init /\ [][Next]_vars
    /\ WF_vars(Tick)
    /\ \A g \in Goroutines : WF_vars(FetchResolve(g) \/ Remember(g) \/ Trip(g))

-----------------------------------------------------------------------------
(* An account that a lookup is told, from the cache or by its own call, had *)
(* the id less than 5 minutes ago. Nobody is not always true: it was true   *)
(* less than 30 seconds ago, or an answer without a readable body came then *)
(* (accountlookup.go:101), which hides the owner no longer than that.        *)
(* The slowness of a call, calls for one id that finish in the other order, *)
(* and a table that was emptied never make an answer live longer.           *)
AnswersRecent ==
    /\ \A i \in Ids : Fresh(cache[i]) => since[i][cache[i].pid] < TTL(cache[i].pid)
    /\ \A g \in Goroutines :
         call[g].stage = "answered" => since[call[g].id][call[g].pid] <= Timeout

(* accountlookup.go:70, "One failed call is enough: do not make every lookup *)
(* wait for a timeout": after a failure was noted no call starts for the     *)
(* miss TTL less one timeout, although failures and answers of overlapping   *)
(* calls that started earlier arrive in between. A 200 without a readable    *)
(* body is not noted: it opens no pause, and closes none.                    *)
BreakerHolds ==
    [][\A g \in Goroutines :
         call[g].stage = "idle" /\ call'[g].stage = "sent" => sinceFail >= MissTTL - Timeout]_vars

(* The cache never holds more than resolveMaxKeep ids, also when several     *)
(* calls that found room before they started finish together.                *)
CacheBounded == Cardinality(Kept) <= MaxKeep

(* Once the service stays up and an id keeps its owner, every lookup of the  *)
(* id is told that owner or calls: an outage and old answers are forgotten,  *)
(* without any restart.                                                      *)
Recovers ==
    \A i \in Ids, v \in Values :
       <>[](up /\ owner[i] = v) => <>[](~Blocked /\ (Fresh(cache[i]) => cache[i].pid = v))

=============================================================================
