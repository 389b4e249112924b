# A TLA+ model of nextendo-demonware

nextendo-demonware is a Demonware lobby server for Diablo III and Crash Team Racing
Nitro-Fueled on the Switch: one Go process that authenticates consoles, keeps a TCP
connection for each of them, and answers their tasks. This project models the parts of
it that keep state which several connections share, checks them with TLC on small
instances, and proves invariants and a refinement of six of them with TLAPS for every
value of their constants.

## 1. The system

Every console logs in over HTTPS (`auth.go`), which writes a ticket and an identity
file, and then opens a lobby connection. A goroutine per connection (`lobbyConn.run`,
`handshake.go`) does the handshake and then handles one encrypted task after the other
(`onTask`, `services.go`); what a task must push to its own client after the reply is
run from `afterReply`. All shared state is in package variables, each with its own
mutex. When a connection ends, three deferred calls clean up: `dropOnline`,
`ctrMM.leave`, `dropSessionsOf`.

| Component | State it keeps | Operations | Talks to |
|---|---|---|---|
| Session directory (`matchmaking.go`) | `sessions`, games by random id, under `sessionsMu` | reserve, create, initialize, update, update players, delete, find, friends' sessions, drop, reap | identity of the caller, relay |
| CTR matchmaker (`ctr_async.go`, `ctr_merge.go`) | queue `waiting`, `rooms`, under `mu` | search, cancel, leave, host document sync, backfill, merge | pushes to host and guests |
| Online map (`friends.go`, `presence.go`) | `online`, `pending` under `onlineMu`; `l.player` unguarded | identify, retry, drop, lookups | identity files, presence |
| Rich presence (`ctr_presence.go`) | `rich` under `richMu` | set, get | online map |
| Economy (`ctr_economy.go`, `ctr_rewards.go`, `ctr_refresh.go`, `ctr_challenge_rules.go`, `ctr_achievements.go`, `ctr_marketplace.go`) | one JSON file per account, under `economyStore.mu` | report events, purchase, read | balance and achievement pushes |
| Relay (`ctr_relay.go`) | port pairs under `relay.mu`, a goroutine per port | offer, forward, reap | session directory |
| Leaderboards (`ctr_stats.go`) | one JSON file | upload, read | online map |
| Account lookup (`accountlookup.go`) | cache, circuit breaker under `resolveMu` | resolve | account service |
| Lobby connection (`handshake.go`, `lobby.go`, `services.go`) | keys, frame number, `afterReply` of each connection; its socket under `sendMu` | accept, handshake, task, reply, notices, deferred calls | all services; the sockets of other players |
| Authentication (`auth.go`, `gates.go`, `identity.go`, `ctr_umbrella.go`, `ctr_signing.go`) | ticket and identity files | log in, admit, sign | account service |
| Seasons and publisher files (`seasons.go`, `pubfiles.go`, `riftdata.go`) | `pubfiles.json`, copies on disk | generate, serve, write the copies | the clock, the operator |
| NAT, PROXY listener, dashboard, start-up, cryptography | counters only | - | - |

What is hard to test here: the identity of a connection may arrive late, set by the
goroutine of another connection, even after the connection has been closed; pointers and
copies outlive the mutex they were taken under; hosts answer documents that cross
membership changes; parties, failures, retries and merges compete for seats; a report is
handled in three separate transactions any of which may fail before the client repeats
all of it; goroutines write to each other's sockets and wait for each other's mutexes,
and any write may fail half-way; calls to a slow service overlap and return late; a file
is edited while it is read; clocks run and reapers fire in between. PROJECT.json lists
each of these hazards at its line, with the properties that cover it.

## 2. Modules

| Module | Models | Instances | Proofs |
|---|---|---|---|
| `MmSessions` | the session directory | `MCMmSessions` | `MmSessionsProofs` |
| `Directory` | what the directory promises to players (abstract) | through `MmSessions` | `MmSessionsProofs` |
| `CtrMatchmaker` | the CTR matchmaker with its merges | `MCCtrMatchmaker` | `CtrMatchmakerProofs` |
| `Online` | online map, late identities, rich presence | `MCOnline` | `PlayersProofs` |
| `Economy` | coins, items, refreshes, challenges | `MCEconomy` | `EconomyProofs` |
| `Relay` | the UDP relay: port table, forwarding goroutines, reaper | `MCRelay` | `RelayProofs` |
| `CtrStats` | the leaderboards | `MCCtrStats` | `PlayersProofs` |
| `AccountLookup` | cache and circuit breaker around the account service | `MCAccountLookup` | `AccountLookupProofs` |
| `LobbyConn` | a connection's life and everything written to it | `MCLobbyConn` | `LobbyConnProofs` |
| `Seasons` | seasons, themes, rifts and the publisher files | `MCSeasons` | `SeasonsProofs` |

Each action is one critical section of the component's mutex; where the code leaves the
mutex and goes on with what it read, the model has two actions. A definition whose
comment says "a bug" is a faulty form of the definition that follows it: nothing uses
it, except that substituting it for the right one must make TLC find the property
violated that it is listed with in PROJECT.json.

**MmSessions.** `heap` holds the session objects, `live` the keys of the map, so that
`mmFindSessions` can hold pointers to deleted sessions (`FindLock`, `FindReply`). The
fields of a room that the server only passes on are one value `info`; `age` is the time
since `orphaned`. `Connect` and `Identify` set `l.player` early or late; `Drop` is
`dropSessionsOf`; `Tick` and `Reap` are the clock and `reapSessionsOnce`.
`FriendSessions` is task 138/14, which copies under the mutex. Replies that change
nothing have no action. Random ids never collide in the model; a game's id is drawn
once.

**Directory** knows no connections, objects or tasks: games go from reserved to
published to gone, belong to an account that never changes once it is known, are touched
by nobody else, and are taken away by time only after the grace period without a host.
`MmSessions` maps to it by `Outline`: a game's stage from the map and `reserved`, its
account from `ownerPID`, whether it is hosted from `owner`.

**CtrMatchmaker.** `Enqueue` is the whole of `enqueue`, with one action for each
outcome: `JoinRoom`, `WaitInQueue`, `FormRoom`. `SyncDoc` is the whole of `syncDoc`, in
stages in the order of the code: `FinishMerge`, `ReleaseFailed`, `NotifyGuests`,
`Backfill`, `StartMerge`. Of a host document the model keeps what the server reads of
it, `lobby_open` and `player_state`. A room's version is kept as the set of player lists
that were announced under the current version: a sync is accepted exactly when it was
composed from one of these. Rooms that were deleted but are still pointed to by a
`mergeSource` stay in `rooms` until nothing points to them. A search's number is drawn
when it is enqueued, not a moment earlier when it is parsed: no decision depends on it.
The module ends where a notice is decided on; its way to the socket is in `LobbyConn`.
`load` is the workload of a behaviour, what each connection may send, and never changes.

**Online.** A connection is new, open, dropping (between the two mutexes of
`dropOnline`) or closed. `RetryPending` copies `pending` as the code does and
`TryIdentity` handles the copies one by one while other connections act. The identity
file of a ticket appears at any time (`friends.go:57` names the case). `rich[p]`
remembers the connection whose data is stored. A client sets presence under any
account's number, which `rpSet` does not check, or with number 0 for its own player
(`SetPresence`). What another account's client stored under a number is replaced by the
next set, or goes when that account's last connection ends; `PresenceForgotten` and
`ConnectedKeepsPresence` are about the presence that an account's own connection stored
(`OwnPresence`), which is what the quoted comments speak of.

**Economy.** `disk` is the contents of the account files; `Save` is the rename. A report
runs through three sections, `Races`, `Refresh`, `Challenges`, each with the clock and
the account of its own moment, and each may fail; `Crash` keeps the files and nothing
else. Reports and purchases come from small sets, any number of times. Rate, position,
mode, weekend and golden fruit of a race are functions of the event and are two numbers,
the coins that online racing multiplies and the rest. Filters and thresholds of a
challenge decide whether an event is accepted, so events that are not accepted are not
sent. The histories `credited`, `debited`, `granted`, `boosted` and `acked` record what
the operations returned. `DataAssumption` states what the shipped `ctr-skus.json` and
`ctr-challenge-rules.json` satisfy.

**Relay.** `heap` holds the `relayPair` objects with the place their goroutine has
reached, `pairs` and `byPort` are the two maps. A goroutine reads a packet, routes it
under `relay.mu` and sends it (`ReadFromUDP`, `Route`, `WriteToUDP`), and goes on with
its pointer when the reaper has removed the pair in between; it ends at its next read
(`ServeReturns`). `RefreshPair`, `OpenPair` and `NoFreePort` are the outcomes of
`withRelay` and `pairFor`, for any set of ports that the operating system would open. Of
an address the model keeps the host's public endpoint and whether a slot is free; `age`
is the time since `last`. `offer` and `missed` are histories.

**CtrStats.** `rows` is the leaderboard file. An upload is checked as a whole and
applied write by write to a copy (`Applied`), which replaces the file unless one write
failed; scores go from `-MaxScore - 1` to `MaxScore`. A read ranks the rows (`Read`);
`Page` and `Friends` are the two reads, operators over the ranked rows. `total` and
`acked` are histories: the same scores in unbounded integers, and the scores that were
acknowledged. Names, drivers and times of a row are passed on unread and left out.

**AccountLookup.** A lookup that misses the cache is three actions, because `resolveMu`
is released during the call: `Start`, `FetchResolve` (the moment at which the service
decides), and `Remember` or `Trip`. `FetchResolve` has three outcomes: the truth
(`Told`), a failure (`NotReached`), and a 200 whose body cannot be decoded or times out
while it is read (`Unreadable`), which the code takes for nobody, from a service that
was reached. `now` is taken before the call and used after it: an answer and a failure
are as old as the call. Times are ages that stop where the code no longer tells them
apart. `Relink` and `Toggle` are the account service; `Tick` is the clock, which does
not pass the timeout of a call. `since` and `sinceFail` are histories: `since[i][v]` is
the age of the last moment at which v could be heard of id i, because v was the owner
or, for nobody, because an answer could not be read.

**LobbyConn.** `pc` is where the goroutine of a connection is, from `Accept` over
`Hello`, `OnClientAuth`, the loop of `OnTask` to the deferred calls (`Leave`, `Close`).
A task is what it does to the connection: its kind decides what waits in `afterReply`,
which runs after the reply (`AfterReply`, `Push`). A task whose id cannot be read is
answered, one of less than three bytes is not (`Reply`); the history `dropped` has the
numbers of the latter. Sending is two actions, `Lock` (the mutex and the number) and
`Write` (the socket and the unlock), for a frame to any connection. A write may fail at
any time: the number is used up, part of the frame may be out, and nothing that follows
on that connection can be read (`broken`); the goroutine is told and only logs it. A
keepalive is answered outside `sendMu`. Which searches get a notice is left open, a
superset of what `CtrMatchmaker` decides. `wire` is the socket, and a history: it never
shrinks.

**Seasons.** `file` is `pubfiles.json`, as the operator saved or spoiled it, `disk` the
three copies. `Loaded` is what Unmarshal makes of a file on top of the defaults: its
maps are merged, so a season whose line is missing keeps its shipped theme.
`PublisherFile` answers a request from the file and the clock, or from the copies when
the file does not parse; the season and the events are two requests. `writePubfiles`
runs at the start and from the command line in one action per copy, and may fail or be
stopped between and during them; it reads the file and the clock once (`Made`). `date`
and `week` pass independently. Seasons and events stand for the text of the files.
`seen` is a history of the last file that was made for a client, with the
`pubfiles.json` and the month it was made from; nothing resets it. `complete` says that
a run has written all copies, `torn` that the last one that wrote has not come to its
end.

## 3. What TLC checks

All passing runs explore their whole state space.

| Run | Instance | Shows |
|---|---|---|
| `MmSessions` | 2 connections of one account, 1 of another; 2 game ids, 1 context; grace 1 tick; fairness | `OwnerAlive`, `HostAccountable`, `AnswersPublished`, `StrangersTouchNothing`, `FriendsForget`, and the refinement `KeepsPromise` |
| `CtrMatchmaker` | 3 connections; single players with lobbies of 2 or of 2 to 3 and 5 numbers; 2 parties of 2 that merge and change size, and 4 numbers | `LeaderOnce`, `PlacedConnected`, `SeatsRespected`, `GuestsAcknowledged`, `MergeLinked` |
| `Online_safety` | 2 connections of one account, 1 of another, each setting presence for either account | `Tracked`, `OnlineExact`, `PresenceForgotten` |
| `Economy` | 3 workloads over 5 instants: 2 consoles with 4 races and 4 refreshes of 2 Pit Stop days in overlapping reports; an additive and a by-mode challenge with 2 cycles and replayed events; an item at two prices, a bundle, a late identity and legacy items | `RaceOnce`, `BonusBounded`, `AckedRecorded`, `RefreshLimit`, `RewardsOnce`, `ReplaysIgnored`, `Balanced`, `PaidOnce` |
| `Relay` | 2 hosts and a joiner, 2 addresses, 2 ports, 2 goroutines, quiet period of 1 tick; fairness | `TablesAgree`, `OfferHonoured`, `RefusedOnlyWhenFull`, `PortsReturn` |
| `CtrStats` | 2 players, a board of times, of rings and of points, scores from -4 to 3, uploads of up to 4 writes where 3 are allowed | `ScoresExact`, `BestKept`, `PagesCover` |
| `AccountLookup` | 2 goroutines, 2 ids, 1 account, a cache for 1 id; times to live of 4 and 3 ticks, calls of up to 1, answers that cannot be read; fairness | `AnswersRecent`, `BreakerHolds`, `Recovers` |
| `LobbyConn` | 2 connections with 2 tasks each, a search among them, an unreadable task, one that is too short, a push, a game, a document and a cancel; fairness | `NumbersExact`, `RepliesAlign`, `SearchKnownFirst`, `KeysBeforeUse`, `Returns` |
| `Seasons` | 1 client, 2 configurations beside the shipped one, 3 months over a new year, 3 weeks, 2 rift files | `SessionInStep`, `Answered`, `RotationInOrder` |

The bounds. Two connections of one account and a stranger are what takeover and late
identification need; two games let one replace the other while a lookup holds both. Two
relay ports and goroutines let a pair be opened on the port, or for the key, of one
whose goroutine is still running. With three players and five numbers a room forms, a
third player joins or waits for a seat, and one of them leaves and comes back; the
parties form a room each, and merge. A connection that will not search does not open, in
this instance: it would be in no list. The ids of a workload bound `ctrIDs`, `MaxTime`
the economy's clock, `Ids` the games ever created, `MaxPairs` the relay's goroutines
that exist at a time, `MaxTasks` what a client sends, `MaxMonths` and `MaxWeeks` the
time of `Seasons`, `MaxWrites` and `MaxLimit` the leaderboards' requests; no other guard
is a bound. The clocks of `MmSessions`, `Relay` and `AccountLookup` have none: their
ages stop where nothing tells them apart. Contexts partition the directory's games, and
one is enough to let two games meet; the proofs hold for any number. A score of at most
3 overflows in both directions within two uploads; some uploads are refused, for their
account, operation, score or number of writes. Two lookups of one id that overlap, and a
cache in which one answer drives out another, need two goroutines, two ids and one
place. Two connections let a goroutine write to the socket of the other while that one
replies, waits for its mutex, fails or ends; two tasks let a reply follow another and a
search be ended. The months of `Seasons` are November, December and January: the first
rotation starts in the second of them, the other one long before, over a list that wraps
around; the rift passes its last file in three weeks. One client suffices for
`SessionInStep`, which compares its last file with the next one it would get. Both
configurations have the theme of the season on; the proof has no such bound. The server
and the `pubfiles` command do not write the copies at the same time in `Seasons`, which
is a bound as well. In the matchmaker, the online map, the economy, the lobby
connections and the seasons everybody may be gone or the bounds reached, so these runs
do not check for deadlock. `CtrMatchmaker` and `Economy` use symmetry, over players or
accounts which the specifications treat alike and whose workloads are closed under it;
the runs with liveness properties use none.

Fairness. `MmSessions` and `Relay` ask that the clock ticks and that the reaper runs:
`reapSessions` and `relayTable.reap` are loops over a ticker that never return and take
a mutex that every holder releases. `AccountLookup` asks that the clock ticks and that
every call ends, which the three seconds of `resolveHTTP` ensure. `LobbyConn` asks that
a goroutine that can go on does so, which is Go's scheduler: a write ends because it has
a deadline of fifteen seconds, and the mutex is free once it is over; a weak fairness
suffices, because the number of frames is bounded and each is waited for by finitely
many. Nothing is assumed of clients, of the account service, of the operator, nor of the
relay's goroutines.

### Where the code and its words differ

Each of these runs checks one sentence of the repository, and TLC finds a behaviour of
the code that contradicts it.

- `CtrMatchmaker_rejoin`: "Release pending guests only after the host has
  supplied its document". A guest that disbands and is seated in the same room
  again is never released: `leave` keeps `notified[conn]`.
- `Online_ghost`: "onlinePIDs returns the Nextendo PIDs of players connected to
  the lobby". A connection identified after its end stays online for ever.
- `Online_reconnect`: the presence is kept for a player "still connected on
  another connection". It is deleted if that connection came between the
  decision and the deletion.

The models also show behaviours that no sentence of the repository excludes clearly: a
member of a waiting party who also searches alone can be seated with its own party
(`enqueue` compares leaders); a search with a large minimum at the head of the queue
keeps groups behind it waiting; a race reported while the identity is pending is paid to
account 0, and its retry to the player; a host that reconnects in time but does not
update its game before the deadline loses it while it is connected; a relay host whose
address changed is learned as the joiner by the next packet from its old one; a failed
lookup that was slow moves the end of the breaker back by as much as it was slow, and an
answer may replace a newer one; a 200 that cannot be read hides an account for thirty
seconds and opens no pause, although `fetchResolve` is said to report a service that did
"not answer properly" as not reachable; an edit between a client's two requests mixes
the season of one configuration with the events of another, and a run of `writePubfiles`
that stopped leaves copies of two; presence may be stored under another account's
number; a notice that could not be written counts as sent, and one that was decided on
before a search was cancelled may follow the cancellation. In `Seasons`, three sentences
of the documents hold only in part: the game does read the copies on disk when
`pubfiles.json` does not parse, although `PUBFILES.md` says that it does not read them;
a season whose line was deleted stays in the rotation, because Unmarshal merges
`season_themes` into the shipped ones, although only listed seasons are said to take
part; and a fixed rift is the file at that index, not the file of that number.

One more sentence holds only in part, and has no run of its own because `RepliesAlign`
states exactly what remains of it: "Never leave a task unanswered: the game waits for it
until the timeout" (`services.go:245`). A task whose id cannot be read is answered, as
the comment asks, but before that, `onTask` returns without a reply from a task of less
than three bytes (`services.go:237`). The client gives the next reply to the task that
has none, and every later one to a task too early.

## 4. What is proved

**MmSessionsProofs** proves, for any sets of connections, accounts, contexts, ids and
room data and any grace period (assumptions `MmAssumption`, `NilAssumption`), that
`Spec` implies `TypeOK`, `OwnerAlive`, `HostAccountable`, `AnswersPublished`,
`HostNeverChanges`, `GraceHonoured` and `StrangersTouchNothing`. The inductive invariant
is

    IInv == TypeOK /\ Published /\ OwnerAlive /\ HostAccountable /\ AnswersPublished

`Published` (an object that is not reserved has room information, whether or not it is
still in the map) is what makes the lookups' unguarded reads safe: an update may change
the object between the two steps, but never back to a reservation. `HostAccountable`
needs `OwnerAlive`: only an open connection's late identification may change what its
games may carry. The actions that write one session and those that allocate one are
handled by two lemmas (`WriteStep`, `AllocateStep`); the action properties follow from
`IInv` step by step.

It also proves that `MmSessions` implements `Directory` (`KeepsPromise`) under the same
assumptions: the initial states map to initial ones (`PromiseInit`) and, from a state of
`IInv`, every action is an action of the abstract directory or a stutter
(`PromiseStep`), by one lemma for each kind of action. It needs `IInv`: that whoever
touches a game is a player of its account follows from `HostAccountable`.

**PlayersProofs** is about the players: those who are online, and what they upload. It
extends both components, so the definitions that both have carry the module's name in
`Online` (`OnlineSpec` and the like).

About `Online` it proves `OnlineTypeOK`, `Tracked`, `OnlineExact` and
`PresenceForgotten` for any connections and accounts (`OnlineAssumption`), whatever
presence clients store under each other's numbers. The invariant adds that whoever is
being retried has been pending (`RetriesLate`); without it a late identification could
concern a connection known since its handshake, and `OnlineExact` would not be
inductive.

About `CtrStats` it proves `TypeOK`, `ScoresExact`, `BestKept` and `PagesCover` for any
finite set of players, any boards, uploads of any length, any range of scores and any
page length (`StatsAssumption`). The inductive invariant

    IInv == TypeOK /\ ScoresExact /\ Best

holds `BestKept` in the form of `Best`, that a score is among the acknowledged ones and
above them all, which needs no maximum of an empty set. A write that passes the overflow
test does not wrap around (`WrapFits`, `ApplyValue`), so the file and the unbounded
totals agree after each write of an upload (`SameEnd`), and the best so far is kept by
each of them (`BestEnd`); that the fold over an upload is a sequence of states is
`FoldTable` with `ApplySteps` and `MeantSteps`. `PagesCover` follows from the types
alone: `Better` orders the players of a board, so different players have different ranks
below their number, a sorted list exists (`SortedExists`), and in any sorted list the
rank of a player is its place (`ReadRanks`); pages are then intervals of places.

`ServerImplements` joins the two. `CtrStats` lets any player come and go; the server in
which they are the players of `Online`, through the CTR connections, and in which every
step is one of `Online` or an upload, implements it: a step of any connection makes at
most one account come or go (`OneConnection`, `OnePlayer`). What is proved about
`CtrStats` holds of that server.

**EconomyProofs** proves `TypeOK`, `RaceOnce`, `RefreshLimit`, `BonusBounded`,
`RewardsOnce`, `ReplaysIgnored`, `AckedRecorded`, `Balanced` and `PaidOnce` for any
number of consoles and accounts, reports and purchases of any length, any events,
catalogue, challenges and clock. The assumptions are three: `EconomyAssumption` gives
the constants their types (a day is not empty, the accepted lead of a time is shorter
than a day), `FileAssumption` says that no account is the missing file, and
`DataAssumption` is what the shipped rates, SKUs and challenge rules satisfy. The
inductive invariant is

    Inv == TypeOK /\ (\A a \in Accounts : Sound(a)) /\ Recorded

where `Sound` speaks of one account, of what its next load returns and of its histories:
`Ledger` (the balance and what was spent are the wallet and what was earned),
`RacesSound` (a race was granted once if its receipt is on file, and otherwise never),
`RefreshSound` (the record of a day counts the granted refreshes of that day, and no
granted refresh lies on a later day than the record's, which is why replacing the record
forgets nothing that could be granted again), `BonusSound` (the day's racing time is at
least the seconds of its boosted races, all but one of which lie below the cap),
`Earned` (what was credited is what the races on file and the completed periods are
worth), `ReplaysSound` (an event advanced its challenge no more often than some report
says that it happened, and, as long as the period in which it lies is not completed, no
more often than its receipt there) and `PaidSound` (what was spent lies between the
cheapest and the dearest price of what was bought). `Recorded` says that the races that
a report in progress is about to acknowledge, and those acknowledged before, have their
receipts on file. Every section of a report is a `FoldLeft`, which the library defines
by a recursive function inside a `CHOOSE`; a lemma for each says that it is the last of
a table of states, each of which is one step from the one before (`RacesFold`,
`RefreshFold`, `ChallengeFold`, `PurchaseFold`), and induction over the table, with
`NatInduction`'s content stated as a lemma about sets of numbers (`NatSet`), carries the
invariant of a step along. The sums over finite sets, which the library folds too, are
tabulated along an enumeration of the set (`SumTable`), from which follows that a sum
over a set is one more than the sum over the rest (`SumMore`).

**CtrMatchmakerProofs** proves `TypeOK`, `LeaderOnce`, `PlacedConnected`,
`SeatsRespected`, `GuestsAcknowledged` and `MergeLinked` for any connections and
accounts, parties of any accounts, lobbies of any size that `parseCTRSearch` accepts and
any number of rooms. The assumption is one, `CtrAssumption`: a connection has an
account, the absent room is no number, and the members of a search document are finitely
many accounts. The inductive invariant speaks of rooms, the keys of the map, a queue,
the searches that were told to join and the open connections, not of the variables, so
that the intermediate values of a handler can have it too:

    Sound == RoomsSane /\ Arranged /\ (every room is Calm) /\ Alone /\ Aside /\ Told /\ Present

`Arranged` has four parts for each room of the map: its host is among its players
(`HostSeated`), the ends of its merge agree (`Linked`), its players and those it is to
receive fit in it and in the room they come from (`Fits`), and every list that its host
was sent since the last version names everybody in it whom the host did not report
(`Offered`). `Fits` counts people whether or not they were reported as failed, which is
more than `SeatsRespected` says: a seat that a failed peer frees and that is taken again
would otherwise be taken twice when the report is withdrawn. It is inductive only
because of `Calm`: between two handlers nobody is seated, or about to be moved here,
whom the host reported, since every sync releases those members, every join forgets what
was reported of a newcomer, and a merge is started with the reports forgotten. `Alone`
and `Aside` say that leaders and search numbers occur once in the rooms and the queue,
`Told` that whoever was told to join is the host or in a list that the host has
answered, and `Present` that all connections are open.

`leave`, the evictions, the clearing of stale targets, the release of failed members and
the disappearance of unreachable rooms only take away; one relation, `Shrunk`, covers
them, and one lemma (`ShrunkSound`) says that it keeps the invariant. A join, a
backfill, a reservation and a cancelled merge change one room and then announce it; for
these the invariant without `Offered` of that room (`Ready`) suffices, since the new
version makes good for it (`RenewSound`). A sync is a chain of stages, each of which
maps a `Stage` to a `Stage` (`FinishSound`, `ReleaseStage`, `NotifyStage`,
`BackfillStage`, `StartMergeStage`); until the release its room need not be `Calm`, and
until the notices everybody in it is on the answered list (`Heard`). That a room does
not exceed its seats rests on the size of unions and of thinned parties (`SizeJoined`,
`SizeThinned`); that a pass over the queue is what its last addition says, on
`GreedyLast`; and that the first of several rooms exists, on a total order of the
candidates (`FirstRoom`).

**RelayProofs** proves `TypeOK`, `TablesAgree`, `OfferHonoured`, `RefusedOnlyWhenFull`
and `NoEcho` for any range of ports, any accounts and addresses and any number of
goroutines (`RelayAssumption`, `NilAssumption`). The inductive invariant is their
conjunction with `OfferYoung`: a pair is at most as old as the last offer of its port.
Without it the reaper could take a pair that was just offered, and `OfferHonoured` would
not be inductive. That the round through the ports meets each of them once is a lemma
about `Tried` (`AllTried`), from which `RefusedOnlyWhenFull` follows.

**AccountLookupProofs** proves `TypeOK`, `AnswersRecent`, `BreakerHolds` and
`CacheBounded` for any goroutines, ids, accounts, times to live and timeout that is
shorter than both (`LookupAssumption`). The invariant `AgesHonest` says that each entry
and each call is at least as old as the last moment at which its answer could be heard,
and that `down` and the age of the last failure together cover the pause less one
timeout.

**LobbyConnProofs** proves `TypeOK`, `NumbersExact`, `RepliesAlign`, `KeysBeforeUse`,
`SearchKnownFirst` and `NothingLeft` for any connections, tasks and tickets
(`ConnAssumption`). The inductive invariant

    IInv == TypeOK /\ Placed /\ Addressees /\ KeysBeforeUse /\ Numbering /\ Informed
            /\ Ended /\ Answered

relates the place of a goroutine to the frame in its hands (`Placed`), says that whoever
is in the matchmaker or named by a notice has keys (`Addressees`), that the holder of a
mutex has the next frame of that socket in its hands (`Numbering`), and that the reply
of every search that is in the matchmaker, or named by a notice, is on the wire, unless
the connection is broken (`Informed`), that a connection that has ended is in no map
(`Ended`), and that a reply on the wire is the k-th if it answers the k-th of the tasks
that were long enough, and a connection that is not broken has as many replies on its
wire as it has read such tasks, less the one being answered (`Answered`). The tasks are
counted as the numbers outside `dropped` (`OutsideCounted`).

**SeasonsProofs** proves `TypeOK`, `SessionInStep`, `Answered` and `RotationInOrder` for
any configurations, dates, clients, rift files and bounds. `SeasonsAssumption` gives the
constants their types (the rift files are distinct), `SettingsAssumption` says that
every configuration that may be read has the types of the code's settings and finitely
many themes, and that what stands for an absent answer is neither a season nor a set of
events. The inductive invariant

    IInv == Shapes /\ SeenHonest /\ JobOfOne /\ CopiesWhole /\ CopiesThere

says that what a client was told is what the file and the month of that moment gave, and
that both have been (`SeenHonest`), that a run of `writePubfiles` has the files of one
configuration and one past month in hand, which those it has written are too
(`JobOfOne`), that the copies are those of one configuration and one past month once a
run has come to its end and no later one was stopped (`CopiesWhole`), and that what a
run has in hand and what it has written is there, and all copies are once one run has
written them all (`CopiesThere`). `Shapes` says which variables are functions and bounds
the clock. That creating a missing file changes no answer is a lemma (`CreatedSame`),
and so is that a month that has passed stays so (`PassedStays`). `SessionInStep` follows
from the invariant: the two requests see one configuration in two months that are the
same or follow each other (`MonthsApart`), and the season that the rotation gives in the
second is the one after that of the first (`SeasonInTurn`). The list of seasons is
defined by ranks: the season in place i is the listed one with i - 1 listed seasons
below it. That there is one is the pigeonhole principle (`RankReached`: ranks rise with
the seasons and stay below their number); that the one with the next rank is the next in
order, and the one of rank 0 follows the last, are `FollowsRank` and `NextRemainder`,
from which `RotationInOrder` follows for both lists.

Only model-checked: `FriendsForget`, `PortsReturn`, `Recovers` and `Returns`, since
liveness under fairness is out of the prover's reach. Every other property of a passing
run is a theorem.

Only proved: `HostNeverChanges`, `GraceHonoured`, `NoEcho`, `CacheBounded`,
`NothingLeft` and the type invariants of `MmSessions`, `CtrMatchmaker`, `Online`,
`Economy`, `Relay`, `CtrStats`, `AccountLookup`, `LobbyConn` and `Seasons`, and
`ServerImplements`; the runs check what remains of each question once these are known.
The first two are also what `KeepsPromise` says of the abstract games.

## 5. Not modelled

Cryptography, key candidates, framing and byte formats. The migration frames that a
connection sends only with the setting `CTR_MIGRATE`, which is off. The decisions of a
log-in (`auth.go`, `gates.go`, the umbrella tokens): each is a function of one request
and of files, and only the identity file that it leaves matters to other components. The
services that keep no state, and the client data by nickname (`userData`, `friends.go`).
The interval in seconds of the rotation, which exists for testing, the random rift,
dates and multipliers of the publisher files. NAT discovery, PROXY protocol, the pages
of the dashboard, the presence reporter's calls, start-up. `awardWindowShopping` is
called by tests only. An operating system crash that loses a completed rename is not
considered, nor a clock that is set back.

## 6. Plan

In this order:

1. An abstract ledger that `Economy` implements, and an abstract lobby (who was told to
   join whom) that `CtrMatchmaker` and `LobbyConn` implement together.
2. `Admission`: log-in gates, tickets and umbrella tokens.
