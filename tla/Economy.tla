------------------------------ MODULE Economy ------------------------------
(***************************************************************************)
(* The coins, items and challenges of Crash Team Racing's accounts:        *)
(* economyStore (ctr_economy.go), race rewards (ctr_rewards.go), the daily *)
(* Pit Stop refresh (ctr_refresh.go), the challenges                       *)
(* (ctr_challenge_rules.go) and the handlers that call them                *)
(* (ctr_achievements.go, ctr_marketplace.go).                              *)
(*                                                                         *)
(* Each operation of the store loads the account's file, changes the copy  *)
(* and replaces the file, under economyStore.mu: one action each. A report *)
(* of events runs three such sections, so other connections of the account *)
(* act in between, any of the three may fail, and the server may crash. A  *)
(* client that saw no success sends the whole report again, whenever it    *)
(* likes: any report may arrive at any time and any number of times.       *)
(*                                                                         *)
(* Time is counted in ticks; timestamps of events are the clients' own.    *)
(***************************************************************************)
EXTENDS Naturals, Sequences, FiniteSets, FiniteSetsExt, SequencesExt

CONSTANTS
    Clients,      \* consoles with a lobby connection
    Owner,        \* the account of each client
    Anonymous,    \* account 0, used while l.pid() is 0
    Workloads,    \* what the clients do: [reports, purchases, late, until]
    Catalog,      \* SKU -> [items, parts, price]
    Rules,        \* challenge -> [target, reward, byMode, periods]
    Wallet,       \* account -> [balance, items] before the migration
    NoFile,       \* the economy-v2 file does not exist yet
    MaxTime,      \* bound of the clock, and of every `until`
    DayTicks,     \* ticks of a day
    PitOffset,    \* 15:00 UTC, when a Pit Stop day begins
    CycleTicks,   \* the cycle of the challenges
    Slack,        \* how far in the future a timestamp may lie (5 minutes)
    Window,       \* how old a race may be (7 days)
    BonusCap      \* seconds of online racing a day that earn five times

(* A workload is a set of reports (sequences of events) and of purchases    *)
(* (sequences of SKUs) that the clients may send at any time, the clients   *)
(* whose identity file is missing at first, and when the clock stops.       *)
Accounts == {Owner[c] : c \in Clients} \cup {Anonymous}
Reports == UNION {w.reports : w \in Workloads}
Events == UNION {ToSet(r) : r \in Reports}
Times == 0..MaxTime
Items == UNION {Catalog[k].items : k \in DOMAIN Catalog}

(* What the program accepts of a report: events of these kinds, with the    *)
(* numbers that it reads; a race, a refresh or a challenge at the timestamp *)
(* 0 is none. What is in a wallet but in no SKU is left out.                *)
ASSUME EconomyAssumption ==
    /\ \A w \in Workloads : /\ w.late \subseteq Clients /\ w.until \in Times
                            /\ w.reports \subseteq Seq(Events)
                            /\ w.purchases \subseteq Seq(DOMAIN Catalog)
    /\ MaxTime \in Nat /\ Slack \in Nat /\ Window \in Nat /\ BonusCap \in Nat
    /\ DayTicks \in Nat \ {0} /\ PitOffset \in 0..DayTicks /\ Slack < DayTicks
    /\ CycleTicks \in Nat \ {0}
    /\ \A e \in Events :
         /\ e.kind \in {"race", "refresh", "challenge"} /\ e.at \in Times \ {0}
         /\ e.kind = "race" => {e.coins, e.extra, e.seconds} \subseteq Nat /\ e.online \in BOOLEAN
         /\ e.kind = "challenge" => e.inc \in Nat
    /\ \A a \in Accounts : Wallet[a].balance \in Nat /\ Wallet[a].items \subseteq Items

(* What ctr-race-rates.json, ctr-skus.json and ctr-challenge-rules.json     *)
(* satisfy: every race earns a coin, even a third of its rate; a SKU is one *)
(* item, or a bundle of such SKUs with no item twice; the periods of a      *)
(* challenge lie within the cycle and do not overlap.                       *)
ASSUME DataAssumption ==
    /\ \A e \in Events : e.kind = "race" => e.coins > 0
    /\ IsFiniteSet(DOMAIN Catalog)
    /\ \A k \in DOMAIN Catalog :
         /\ Catalog[k].price \in Nat
         /\ Catalog[k].parts \subseteq DOMAIN Catalog /\ IsFiniteSet(Catalog[k].parts)
         /\ Catalog[k].parts = {} => \E i \in Items : Catalog[k].items = {i}
         /\ Catalog[k].parts # {} =>
              /\ Catalog[k].items = UNION {Catalog[p].items : p \in Catalog[k].parts}
              /\ \A p \in Catalog[k].parts :
                   /\ Catalog[p].parts = {}
                   /\ \A q \in Catalog[k].parts \ {p} : Catalog[p].items \cap Catalog[q].items = {}
    /\ IsFiniteSet(DOMAIN Rules)
    /\ \A r \in DOMAIN Rules :
         /\ Rules[r].target \in Nat /\ Rules[r].reward \in Nat
         /\ \A p \in Rules[r].periods :
              /\ p = <<p[1], p[2]>> /\ p[1] \in Nat /\ p[2] \in (p[1] + 1)..CycleTicks
              /\ \A q \in Rules[r].periods : p = q \/ p[2] <= q[1] \/ q[2] <= p[1]

VARIABLES
    load,      \* the workload of this behaviour
    now,       \* time.Now()
    known,     \* clients whose l.player is set
    disk,      \* disk[a]: the contents of a's economy-v2 file
    job,       \* job[c]: the report that c's goroutine is handling
    credited,  \* (history) credited[a]: the sum of the credits returned
    debited,   \* (history) debited[a]: the sum of the debits returned
    granted,   \* (history) granted[a][e]: how often the event earned something
    boosted,   \* (history) boosted[a]: the races that earned five times
    acked      \* (history) acked[a]: the races of acknowledged reports

vars == <<load, now, known, disk, job, credited, debited, granted, boosted, acked>>

-----------------------------------------------------------------------------
(* Days: of a race (UTC), and of the Pit Stop (pitStopDay; 0 is no day). *)
Day(t) == t \div DayTicks
PitStopDay(t) == (t + 2 * DayTicks - PitOffset) \div DayTicks

(* challengeRule.current: the period of a challenge that contains t. *)
Period(r, t) ==
    LET cycle == (t \div CycleTicks) * CycleTicks
    IN  {<<cycle + p[1], cycle + p[2]>> :
           p \in {q \in Rules[r].periods : t \in (cycle + q[1])..(cycle + q[2] - 1)}}

(* challengeKey *)
Keys == UNION {{<<r, p[1]>> : p \in UNION {Period(r, t) : t \in Times}} : r \in DOMAIN Rules}

(* challengeCompletion, and the zero value of an absent one. *)
Unstarted == [completed |-> 0, progress |-> 0, receipts |-> [e \in Events |-> 0], distinct |-> {}]

Completion == [completed : Times, progress : Nat,
               receipts : [Events -> Nat], distinct : SUBSET (9..13)]

(* economyAccount *)
Account ==
    [balance : Nat, items : SUBSET Items, races : SUBSET Events,
     online : [{Day(t) : t \in Times} -> Nat],
     refresh : [day : {0} \cup {PitStopDay(t) : t \in Times}, count : 0..2,
                receipts : SUBSET Events],
     challenges : [Keys -> Completion]]

ASSUME FileAssumption == NoFile \notin Account

NoJob == [stage |-> "idle"]
Job == {NoJob} \cup
       [stage : {"races", "refresh", "challenges"}, report : Reports,
        due : SUBSET (Accounts \X Events)]

TypeOK ==
    /\ load \in Workloads
    /\ now \in Times
    /\ known \subseteq Clients
    /\ disk \in [Accounts -> Account \cup {NoFile}]
    /\ job \in [Clients -> Job]
    /\ credited \in [Accounts -> Nat] /\ debited \in [Accounts -> Nat]
    /\ granted \in [Accounts -> [Events -> Nat]]
    /\ boosted \in [Accounts -> SUBSET Events]
    /\ acked \in [Accounts -> SUBSET Events]

Init ==
    /\ load \in Workloads
    /\ now = 0
    /\ known = Clients \ load.late
    /\ disk = [a \in Accounts |-> NoFile]
    /\ job = [c \in Clients |-> NoJob]
    /\ credited = [a \in Accounts |-> 0]
    /\ debited = [a \in Accounts |-> 0]
    /\ granted = [a \in Accounts |-> [e \in Events |-> 0]]
    /\ boosted = [a \in Accounts |-> {}]
    /\ acked = [a \in Accounts |-> {}]

-----------------------------------------------------------------------------
(* l.pid() *)
Acct(c) == IF c \in known THEN Owner[c] ELSE Anonymous

(* load: the first one of an account migrates it and saves. *)
Migrated(a) ==
    [balance |-> Wallet[a].balance, items |-> Wallet[a].items, races |-> {},
     online |-> [d \in {Day(t) : t \in Times} |-> 0],
     refresh |-> [day |-> 0, count |-> 0, receipts |-> {}],
     challenges |-> [k \in Keys |-> Unstarted]]

Loaded(a) == IF disk[a] = NoFile THEN Migrated(a) ELSE disk[a]

(* save: the file is replaced by a rename, or the old one stays. *)
Save(a, account) == disk' = [disk EXCEPT ![a] = account]

(* An operation that fails has not saved; its load may have migrated. *)
Fail(a) == UNCHANGED disk \/ Save(a, Loaded(a))

-----------------------------------------------------------------------------
(* awardRaces: what one event does to the account, the total and the        *)
(* histories. The rate, the weekend and the golden fruit are functions of   *)
(* the event: coins, which online racing multiplies, and extra.             *)
Recent(e) == e.at <= now + Slack /\ e.at + Window >= now

OnlineTimeKept(account, e) ==           \* a bug: the racing time is not added up
    account.online

OnlineTime(account, e) ==
    [account.online EXCEPT ![Day(e.at)] = IF e.online THEN @ + e.seconds ELSE @]

Boosts(account, e) == e.online /\ account.online[Day(e.at)] < BonusCap

Raced(s, e) ==
    LET boost == Boosts(s.account, e)
        amount == (IF boost THEN 5 ELSE 1) * e.coins + e.extra
    IN  [total |-> s.total + amount,
         granted |-> [s.granted EXCEPT ![e] = @ + 1],
         boosted |-> IF boost THEN s.boosted \cup {e} ELSE s.boosted,
         account |-> [s.account EXCEPT !.balance = @ + amount,
                                       !.races = @ \cup {e},
                                       !.online = OnlineTime(s.account, e)]]

RaceStepNoReceipt(s, e) ==              \* a bug: the receipts are not looked at
    IF e.kind # "race" \/ ~Recent(e) THEN s ELSE Raced(s, e)

RaceStep(s, e) ==
    IF e.kind # "race" \/ ~Recent(e) \/ e \in s.account.races THEN s ELSE Raced(s, e)

AwardRaces(a, report) ==
    FoldLeft(RaceStep,
             [total |-> 0, granted |-> granted[a], boosted |-> boosted[a], account |-> Loaded(a)],
             report)

(* (history) The races that a report should leave on file. *)
Due(report) == {e \in ToSet(report) : e.kind = "race" /\ Recent(e)}

(* onAchievements, task 1: the report arrives; its first section. *)
ReportEvents(c, report) ==
    /\ job[c] = NoJob
    /\ job' = [job EXCEPT ![c] = [stage |-> "races", report |-> report, due |-> {}]]
    /\ UNCHANGED <<load, now, known, disk, credited, debited, granted, boosted, acked>>

RacesFailUnseen(c) ==                   \* a bug: the error is not looked at
    /\ job[c].stage = "races"
    /\ Fail(Acct(c))
    /\ job' = [job EXCEPT ![c].stage = "refresh",
                          ![c].due = {Acct(c)} \X Due(job[c].report)]
    /\ UNCHANGED <<load, now, known, credited, debited, granted, boosted, acked>>

RacesFail(c) ==
    /\ job[c].stage = "races"
    /\ Fail(Acct(c))
    /\ job' = [job EXCEPT ![c] = NoJob]
    /\ UNCHANGED <<load, now, known, credited, debited, granted, boosted, acked>>

Races(c) ==
    LET a == Acct(c)
        s == AwardRaces(a, job[c].report)
    IN  /\ job[c].stage = "races"
        /\ Save(a, IF s.total # 0 THEN s.account ELSE Loaded(a))
        /\ credited' = [credited EXCEPT ![a] = @ + s.total]
        /\ granted' = [granted EXCEPT ![a] = s.granted]
        /\ boosted' = [boosted EXCEPT ![a] = s.boosted]
        /\ job' = [job EXCEPT ![c].stage = "refresh", ![c].due = {a} \X Due(job[c].report)]
        /\ UNCHANGED <<load, now, known, debited, acked>>

-----------------------------------------------------------------------------
(* reportPitStopRefresh: the second section, if the report asks for it. *)
Refreshes(report) == {e \in ToSet(report) : e.kind = "refresh"}

InDayAnyPast(e) == e.at <= now + Slack  \* a bug: a stale retry counts again

InDay(e) == PitStopDay(e.at) = PitStopDay(now) /\ e.at <= now + Slack

RefreshStep(s, e) ==
    IF e.kind = "refresh" /\ InDay(e) /\ e \notin s.account.refresh.receipts /\ s.account.refresh.count < 2
    THEN [account |-> [s.account EXCEPT !.refresh =
                       [day |-> @.day, count |-> @.count + 1, receipts |-> @.receipts \cup {e}]],
          granted |-> [s.granted EXCEPT ![e] = @ + 1]]
    ELSE s

(* The record of an earlier day is replaced. *)
RefreshRecord(account) ==
    IF account.refresh.day = PitStopDay(now) THEN account
    ELSE [account EXCEPT !.refresh = [day |-> PitStopDay(now), count |-> 0, receipts |-> {}]]

RefreshFail(c) ==
    /\ job[c].stage = "refresh"
    /\ Refreshes(job[c].report) # {}
    /\ Fail(Acct(c))
    /\ job' = [job EXCEPT ![c] = NoJob]
    /\ UNCHANGED <<load, now, known, credited, debited, granted, boosted, acked>>

Refresh(c) ==
    LET a == Acct(c)
        requests == Refreshes(job[c].report)
        s == FoldLeft(RefreshStep,
                      [account |-> RefreshRecord(Loaded(a)), granted |-> granted[a]],
                      job[c].report)
    IN  /\ job[c].stage = "refresh"
        /\ IF requests = {} THEN UNCHANGED <<disk, granted>>
           ELSE /\ Save(a, IF \E e \in requests : InDay(e) THEN s.account ELSE Loaded(a))
                /\ granted' = [granted EXCEPT ![a] = s.granted]
        /\ job' = [job EXCEPT ![c].stage = "challenges"]
        /\ UNCHANGED <<load, now, known, credited, debited, boosted, acked>>

-----------------------------------------------------------------------------
(* awardChallenges: what an event does to the record of a challenge in its  *)
(* current period. Identical events of one report are counted in occ, and   *)
(* the receipt is the number of them that have been counted before.         *)
Accepted(r, period, e) ==
    /\ e.kind = "challenge" /\ e.rule = r
    /\ e.at \in period[1]..(period[2] - 1)
    /\ e.at <= now + Slack
    /\ e.inc # 0

Counted(r, period, s, e) ==
    LET new == ~Rules[r].byMode \/ e.mode \in (9..13) \ s.c.distinct
        inc == IF Rules[r].byMode THEN 1 ELSE e.inc
        c == [s.c EXCEPT !.receipts[e] = s.occ[e] + 1,
                         !.distinct = IF Rules[r].byMode /\ new THEN @ \cup {e.mode} ELSE @]
    IN  IF ~new THEN [s EXCEPT !.c = c]
        ELSE IF inc >= Rules[r].target - s.c.progress
        THEN [s EXCEPT !.c = [c EXCEPT !.progress = Rules[r].target, !.completed = e.at,
                                       !.receipts = Unstarted.receipts],
                       !.credit = @ + Rules[r].reward,
                       !.advanced[e] = @ + 1]
        ELSE [s EXCEPT !.c = [c EXCEPT !.progress = @ + inc], !.advanced[e] = @ + 1]

ChallengeStepAlways(r, period, s, e) == \* a bug: a replayed report counts again
    IF s.c.completed # 0 \/ ~Accepted(r, period, e) THEN s
    ELSE [Counted(r, period, s, e) EXCEPT !.occ[e] = @ + 1]

ChallengeStepNoBreak(r, period, s, e) == \* a bug: goes on after the completion
    IF ~Accepted(r, period, e) THEN s
    ELSE IF s.c.receipts[e] > s.occ[e] THEN [s EXCEPT !.occ[e] = @ + 1]
    ELSE [Counted(r, period, s, e) EXCEPT !.occ[e] = @ + 1]

ChallengeStep(r, period, s, e) ==
    IF s.c.completed # 0 \/ ~Accepted(r, period, e) THEN s
    ELSE IF s.c.receipts[e] > s.occ[e] THEN [s EXCEPT !.occ[e] = @ + 1]
    ELSE [Counted(r, period, s, e) EXCEPT !.occ[e] = @ + 1]

(* The challenges that are active, and one of them: its new record, the     *)
(* credit, and (history) the events that advanced it.                       *)
Active == {r \in DOMAIN Rules : Period(r, now) # {}}
Current(r) == CHOOSE period \in Period(r, now) : TRUE
CurrentKeys == {<<r, Current(r)[1]>> : r \in Active}

ChallengeStart(c) ==
    [c |-> c, credit |-> 0, occ |-> [e \in Events |-> 0], advanced |-> [e \in Events |-> 0]]

Challenge(r, account, report) ==
    LET Step(s, e) == ChallengeStep(r, Current(r), s, e)
    IN  FoldLeft(Step, ChallengeStart(account.challenges[<<r, Current(r)[1]>>]), report)

AwardChallenges(account, report) ==
    LET run == [r \in Active |-> Challenge(r, account, report)]
        total == SumFunction([r \in Active |-> run[r].credit])
    IN  [total |-> total,
         advanced |-> [e \in Events |-> SumFunction([r \in Active |-> run[r].advanced[e]])],
         account |-> [account EXCEPT
           !.balance = @ + total,
           !.challenges = [k \in Keys |-> IF k \in CurrentKeys THEN run[k[1]].c ELSE @[k]]]]

ChallengesFail(c) ==
    /\ job[c].stage = "challenges"
    /\ Fail(Acct(c))
    /\ job' = [job EXCEPT ![c] = NoJob]
    /\ UNCHANGED <<load, now, known, credited, debited, granted, boosted, acked>>

(* The third section, and the acknowledgement. *)
Challenges(c) ==
    LET a == Acct(c)
        s == AwardChallenges(Loaded(a), job[c].report)
    IN  /\ job[c].stage = "challenges"
        /\ Save(a, s.account)
        /\ credited' = [credited EXCEPT ![a] = @ + s.total]
        /\ granted' = [granted EXCEPT ![a] =
                         [e \in Events |-> @[e] + s.advanced[e]]]
        /\ acked' = [b \in Accounts |-> acked[b] \cup {d[2] : d \in {x \in job[c].due : x[1] = b}}]
        /\ job' = [job EXCEPT ![c] = NoJob]
        /\ UNCHANGED <<load, now, known, debited, boosted>>

-----------------------------------------------------------------------------
(* purchase: the SKUs are priced and granted one after the other. *)
OwnsSKU(account, k) == Catalog[k].items \subseteq account.items

SkuPriceFull(account, k) ==             \* a bug: owned parts are charged again
    IF OwnsSKU(account, k) THEN 0 ELSE Catalog[k].price

SkuPrice(account, k) ==
    IF OwnsSKU(account, k) THEN 0
    ELSE IF Catalog[k].parts = {} THEN Catalog[k].price
    ELSE SumFunctionOnSet([p \in Catalog[k].parts |-> Catalog[p].price],
                          {p \in Catalog[k].parts : ~OwnsSKU(account, p)})

PurchaseStepListPrice(s, k) ==          \* a bug: charges one price, returns another
    LET price == SkuPrice(s.account, k)
    IN  IF ~s.ok \/ price > s.account.balance THEN [s EXCEPT !.ok = FALSE]
        ELSE [ok |-> TRUE, total |-> s.total + Catalog[k].price,
              account |-> [s.account EXCEPT !.balance = @ - price,
                                            !.items = @ \cup Catalog[k].items]]

PurchaseStep(s, k) ==
    LET price == SkuPrice(s.account, k)
    IN  IF ~s.ok \/ price > s.account.balance THEN [s EXCEPT !.ok = FALSE]
        ELSE [ok |-> TRUE, total |-> s.total + price,
              account |-> [s.account EXCEPT !.balance = @ - price,
                                            !.items = @ \cup Catalog[k].items]]

Purchased(a, skus) == FoldLeft(PurchaseStep, [ok |-> TRUE, total |-> 0, account |-> Loaded(a)], skus)

Purchase(c, skus) ==
    LET s == Purchased(Acct(c), skus)
    IN  /\ job[c] = NoJob
        /\ s.ok
        /\ Save(Acct(c), s.account)
        /\ debited' = [debited EXCEPT ![Acct(c)] = @ + s.total]
        /\ UNCHANGED <<load, now, known, job, credited, granted, boosted, acked>>

(* A read of the account (balances, inventory, achievement states), a       *)
(* purchase that is refused, and one whose save fails: at most a migration. *)
Snapshot(c) ==
    /\ job[c] = NoJob
    /\ Fail(Acct(c))
    /\ UNCHANGED <<load, now, known, job, credited, debited, granted, boosted, acked>>

-----------------------------------------------------------------------------
(* retryPending finds the identity file of a pending connection. *)
Identify(c) ==
    /\ c \notin known
    /\ known' = known \cup {c}
    /\ UNCHANGED <<load, now, disk, job, credited, debited, granted, boosted, acked>>

(* The server stops and starts again: what is not on disk is lost. *)
Crash ==
    /\ job' = [c \in Clients |-> NoJob]
    /\ known' = Clients \ load.late
    /\ UNCHANGED <<load, now, disk, credited, debited, granted, boosted, acked>>

Tick ==
    /\ now < load.until
    /\ now' = now + 1
    /\ UNCHANGED <<load, known, disk, job, credited, debited, granted, boosted, acked>>

Next ==
    \/ \E c \in Clients :
         \/ \E report \in load.reports : ReportEvents(c, report)
         \/ Races(c) \/ RacesFail(c)
         \/ Refresh(c) \/ RefreshFail(c)
         \/ Challenges(c) \/ ChallengesFail(c)
         \/ \E skus \in load.purchases : Purchase(c, skus)
         \/ Snapshot(c)
         \/ Identify(c)
    \/ Crash
    \/ Tick

Spec == Init /\ [][Next]_vars

-----------------------------------------------------------------------------
Saved == {a \in Accounts : disk[a] # NoFile}

(* An account earns every race once, however often and on however many of  *)
(* its connections the report is sent, and whichever section failed or     *)
(* crashed the time before (ctr_rewards.go:187).                           *)
RaceOnce == \A a \in Accounts, e \in Events : e.kind = "race" => granted[a][e] <= 1

(* At most two refreshes a Pit Stop day, each event at most one, also when  *)
(* it is sent again on another day.                                         *)
RefreshLimit ==
    \A a \in Accounts, t \in Times :
       LET today == {e \in Events : e.kind = "refresh" /\ PitStopDay(e.at) = PitStopDay(t)}
       IN  /\ \A e \in today : granted[a][e] <= 1
           /\ Cardinality({e \in today : granted[a][e] = 1}) <= 2

(* Five times the coins only as long as the day's online racing is short:   *)
(* without one of them, the boosted races of a day stay below the cap.      *)
BonusBounded ==
    \A a \in Accounts, t \in Times :
       LET today == {e \in boosted[a] : Day(e.at) = Day(t)}
       IN  today # {} =>
             \E e \in today : SumFunctionOnSet([x \in today |-> x.seconds], today \ {e}) < BonusCap

(* The file agrees with what the operations returned: no credit or debit is *)
(* lost, invented or half applied by a failure, a crash or an interleaving. *)
Balanced ==
    \A a \in Saved : disk[a].balance + debited[a] = Wallet[a].balance + credited[a]

(* Every item that was bought has been paid for once, at a price of the     *)
(* catalogue, whatever the order of bundles, parts and retries.             *)
PricesOf(i) ==
    {Catalog[k].price : k \in {s \in DOMAIN Catalog : Catalog[s].parts = {} /\ i \in Catalog[s].items}}

PaidOnce ==
    \A a \in Saved :
       LET bought == disk[a].items \ Wallet[a].items
       IN  debited[a] \in SumFunction([i \in bought |-> Min(PricesOf(i))])
                          ..SumFunction([i \in bought |-> Max(PricesOf(i))])

(* "replaying that report after reconnecting must not advance them again"   *)
(* (ctr_challenge_rules.go:127): an event advances its challenge no more    *)
(* often than the report that repeats it most says that it happened.        *)
Occurrences(e, report) == Cardinality({k \in DOMAIN report : report[k] = e})

ReplaysIgnored ==
    \A a \in Accounts, e \in Events :
       e.kind = "challenge" => \E r \in Reports : granted[a][e] <= Occurrences(e, r)

(* A period of a challenge pays once: what was earned is what the races     *)
(* and the completed periods on file are worth.                             *)
RewardsOnce ==
    \A a \in Saved :
       LET races == SumFunction([e \in disk[a].races |->
                                   (IF e \in boosted[a] THEN 5 ELSE 1) * e.coins + e.extra])
           done == {k \in Keys : disk[a].challenges[k].completed # 0}
       IN  credited[a] = races + SumFunction([k \in done |-> Rules[k[1]].reward])

(* What a client was told to be done is on disk, and stays there: the races *)
(* of an acknowledged report have their receipts.                           *)
AckedRecorded ==
    \A a \in Accounts : acked[a] # {} => a \in Saved /\ acked[a] \subseteq disk[a].races

=============================================================================
