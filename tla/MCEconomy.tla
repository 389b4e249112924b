----------------------------- MODULE MCEconomy -----------------------------
(* Instances of Economy for TLC. *)
EXTENDS Economy, TLC

CONSTANTS c1, c2, p1, p2, anon

Race(t, coins, extra, online, seconds) ==
    [kind |-> "race", at |-> t, coins |-> coins, extra |-> extra,
     online |-> online, seconds |-> seconds]
Pit(t, n) == [kind |-> "refresh", at |-> t, n |-> n]
Goal(t, r, n, inc, mode) ==
    [kind |-> "challenge", at |-> t, rule |-> r, n |-> n, inc |-> inc, mode |-> mode]

(* Both clients are consoles of one account. *)
OneAccount == (c1 :> p1) @@ (c2 :> p1)
MCWallet ==
    (p1 :> [balance |-> 4, items |-> {}]) @@ (anon :> [balance |-> 2, items |-> {"hat"}])

(* Three online races of a day, two of which reach the cap, and another     *)
(* race, twice in one report; three refreshes of a Pit Stop day and one of  *)
(* the next, in reports that overlap.                                       *)
RaceReports ==
    LET r1 == Race(3, 1, 0, TRUE, 3)
        r2 == Race(3, 2, 0, TRUE, 3)
        r3 == Race(2, 1, 0, TRUE, 1)
        r4 == Race(1, 1, 2, FALSE, 1)
    IN  {<<r1, r3, r4, r4, Pit(1, 1)>>, <<r2, r1, Pit(2, 2), Pit(1, 1), Pit(2, 3), Pit(3, 4)>>}

(* Two challenges: one adds up, one counts different battle modes. *)
TwoRules ==
    ("add" :> [target |-> 3, reward |-> 2, byMode |-> FALSE, periods |-> {<<0, 1>>, <<1, 3>>}]) @@
    ("modes" :> [target |-> 2, reward |-> 5, byMode |-> TRUE, periods |-> {<<0, 2>>}])
GoalReports ==
    LET a == Goal(1, "add", 1, 1, 0)
        b == Goal(2, "add", 2, 2, 0)
        m == Goal(1, "modes", 1, 1, 9)
        n == Goal(1, "modes", 2, 1, 10)
        o == Goal(1, "modes", 3, 1, 9)
    IN  {<<a, a>>, <<a, m, Race(1, 1, 0, FALSE, 1)>>, <<m, o>>, <<o, n, b>>}

(* A hat sold at two prices, a kart, and the bundle of both. *)
Shop ==
    ("hat" :> [items |-> {"hat"}, parts |-> {}, price |-> 3]) @@
    ("hatSale" :> [items |-> {"hat"}, parts |-> {}, price |-> 2]) @@
    ("kart" :> [items |-> {"kart"}, parts |-> {}, price |-> 2]) @@
    ("both" :> [items |-> {"hat", "kart"}, parts |-> {"hat", "kart"}, price |-> 4])
ShopPurchases ==
    {<<"hat">>, <<"hatSale", "both">>, <<"both">>, <<"kart", "kart">>, <<"kart", "both">>}
ShopReports == {<<Race(1, 1, 0, FALSE, 1)>>, <<Race(1, 2, 0, FALSE, 1), Race(1, 1, 0, FALSE, 1)>>}

(* The two clients are interchangeable. *)
Symm == Permutations(Clients)

(* Three workloads: reports that are sent again, over several days;         *)
(* challenges over their periods and cycles; and the shop, with late        *)
(* identities, between the sections of reports.                             *)
MCWorkloads ==
    {[reports |-> RaceReports, purchases |-> {}, late |-> {}, until |-> 3],
     [reports |-> GoalReports, purchases |-> {}, late |-> {}, until |-> 4],
     [reports |-> ShopReports, purchases |-> ShopPurchases, late |-> {c1, c2}, until |-> 1]}

=============================================================================
