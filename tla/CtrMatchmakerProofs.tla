----------------------- MODULE CtrMatchmakerProofs -----------------------
(* Proofs about CtrMatchmaker, for any connections, accounts and searches.  *)
EXTENDS CtrMatchmaker, WellFoundedInduction, FiniteSetTheorems, TLAPS

(* Induction over the natural numbers, for a set of them. *)
LEMMA NatSet ==
  ASSUME NEW T \in SUBSET Nat, 0 \in T, \A n \in T : n + 1 \in T
  PROVE  T = Nat
<1> DEFINE R == OpToRel(<, Nat)
           Bad == Nat \ T
<1>1. \A x, y \in Nat : <<x, y>> \in R <=> x < y
  BY DEF OpToRel
<1>2. IsWellFoundedOn(R, Nat)
  BY NatLessThanWellFounded
<1> HIDE DEF R
<1>3. SUFFICES ASSUME Bad # {} PROVE FALSE
  OBVIOUS
<1>4. PICK x \in Bad : \A y \in Bad : ~(<<y, x>> \in R)
  BY <1>2, <1>3, WFMin
<1>5. x \in Nat /\ x \notin T
  OBVIOUS
<1>6. x # 0
  BY <1>5
<1>7. x - 1 \in Nat /\ x - 1 < x
  BY <1>5, <1>6
<1>8. x - 1 \in T
  BY <1>1, <1>4, <1>5, <1>7
<1>9. (x - 1) + 1 \in T /\ (x - 1) + 1 = x
  BY <1>5, <1>8
<1> QED BY <1>5, <1>9

(* ... up to a number, and over the elements of a finite set. *)
LEMMA Along ==
  ASSUME NEW n \in Nat, NEW Q, 0 \in Q, \A k \in Q : k \in 0..(n - 1) => k + 1 \in Q
  PROVE  n \in Q
<1> DEFINE T == {k \in Nat : k <= n => k \in Q}
<1>1. 0 \in T /\ \A k \in T : k + 1 \in T
  OBVIOUS
<1> HIDE DEF T
<1>2. T = Nat
  <2>1. T \in SUBSET Nat
    BY DEF T
  <2> QED BY <1>1, <2>1, NatSet
<1> QED BY <1>2 DEF T

LEMMA OverFinite ==
  ASSUME NEW S, IsFiniteSet(S), NEW G, {} \in G,
         \A T \in SUBSET S : \A x \in S : T \in G /\ x \notin T => T \cup {x} \in G
  PROVE  S \in G
<1> DEFINE Q == {n \in Nat : \A T \in SUBSET S : Cardinality(T) = n => T \in G}
<1>1. 0 \in Q
  BY FS_Subset, FS_EmptySet
<1>2. ASSUME NEW n \in Q PROVE n + 1 \in Q
  <2> SUFFICES ASSUME NEW T \in SUBSET S, Cardinality(T) = n + 1 PROVE T \in G
    OBVIOUS
  <2>1. IsFiniteSet(T)
    BY FS_Subset
  <2>2. PICK x \in T : TRUE
    BY <2>1, FS_EmptySet
  <2>3. T \ {x} \in SUBSET S /\ Cardinality(T \ {x}) = n
    <3>1. Cardinality(T \ {x}) = Cardinality(T) - 1
      BY <2>1, FS_RemoveElement
    <3> QED BY <3>1
  <2>4. T \ {x} \in G /\ (T \ {x}) \cup {x} = T
    BY <2>3
  <2> QED BY <2>3, <2>4
<1>3. Q = Nat
  <2>1. Q \in SUBSET Nat
    OBVIOUS
  <2> HIDE DEF Q
  <2> QED BY <1>1, <1>2, <2>1, NatSet
<1> QED BY <1>3, FS_CardinalityType
(* The extremes of a finite set of numbers. *)
LEMMA Extremes ==
  ASSUME NEW S \in SUBSET Nat, IsFiniteSet(S), S # {}
  PROVE  /\ Min(S) \in S /\ \A y \in S : Min(S) <= y
         /\ Max(S) \in S /\ \A y \in S : y <= Max(S)
<1> DEFINE Lower(T) == T = {} \/ \E m \in T : \A y \in T : m <= y
           Upper(T) == T = {} \/ \E m \in T : \A y \in T : y <= m
           G == {T \in SUBSET S : Lower(T) /\ Upper(T)}
<1>1. {} \in G
  OBVIOUS
<1>2. ASSUME NEW T \in SUBSET S, NEW x \in S, T \in G, x \notin T
      PROVE  T \cup {x} \in G
  <2>1. Lower(T) /\ Upper(T) /\ x \in Nat /\ \A y \in T : y \in Nat
    BY <1>2
  <2>2. Lower(T \cup {x})
    <3>1. CASE T = {}
      BY <2>1, <3>1
    <3>2. CASE T # {}
      <4>1. PICK m \in T : \A y \in T : m <= y
        BY <2>1, <3>2
      <4>2. CASE m <= x
        BY <4>1, <4>2
      <4>3. CASE ~(m <= x)
        <5>1. \A y \in T \cup {x} : x <= y
          BY <2>1, <4>1, <4>3
        <5> QED BY <5>1
      <4> QED BY <4>2, <4>3
    <3> QED BY <3>1, <3>2
  <2>3. Upper(T \cup {x})
    <3>1. CASE T = {}
      BY <2>1, <3>1
    <3>2. CASE T # {}
      <4>1. PICK m \in T : \A y \in T : y <= m
        BY <2>1, <3>2
      <4>2. CASE x <= m
        BY <4>1, <4>2
      <4>3. CASE ~(x <= m)
        <5>1. \A y \in T \cup {x} : y <= x
          BY <2>1, <4>1, <4>3
        <5> QED BY <5>1
      <4> QED BY <4>2, <4>3
    <3> QED BY <3>1, <3>2
  <2> HIDE DEF Lower, Upper
  <2> QED BY <2>2, <2>3
<1>3. S \in G
  <2> HIDE DEF G
  <2> QED BY <1>1, <1>2, OverFinite
<1>4. (\E m \in S : \A y \in S : m <= y) /\ (\E m \in S : \A y \in S : m >= y)
  BY <1>3
<1>5. Min(S) \in S /\ \A y \in S : Min(S) <= y
  BY <1>4 DEF Min
<1>6. Max(S) \in S /\ \A y \in S : Max(S) >= y
  BY <1>4 DEF Max
<1> QED BY <1>5, <1>6

LEMMA Image ==
  ASSUME NEW S, IsFiniteSet(S), NEW f
  PROVE  IsFiniteSet({f[x] : x \in S}) /\ Cardinality({f[x] : x \in S}) <= Cardinality(S)
<1> DEFINE T == {f[x] : x \in S}
           g == [x \in S |-> f[x]]
<1>1. g \in Surjection(S, T)
  BY DEF Surjection
<1> QED BY <1>1, FS_Surjection

-----------------------------------------------------------------------------
(* Queues *)

(* The elements of a finite set of numbers can be counted from below. *)
LEMMA Ranks ==
  ASSUME NEW S \in SUBSET Nat, IsFiniteSet(S)
  PROVE  \A n \in 0..(Cardinality(S) - 1) : \E k \in S : Cardinality({j \in S : j < k}) = n
<1> DEFINE Counted(T) == \A n \in 0..(Cardinality(T) - 1) :
                            \E k \in T : Cardinality({j \in T : j < k}) = n
           Q == {m \in Nat : \A T \in SUBSET S : Cardinality(T) = m => Counted(T)}
<1>1. 0 \in Q
  OBVIOUS
<1>2. ASSUME NEW m \in Q PROVE m + 1 \in Q
  <2> SUFFICES ASSUME NEW T \in SUBSET S, Cardinality(T) = m + 1,
                      NEW n \in 0..(Cardinality(T) - 1)
               PROVE  \E k \in T : Cardinality({j \in T : j < k}) = n
    OBVIOUS
  <2>1. IsFiniteSet(T) /\ T # {} /\ T \in SUBSET Nat
    <3>1. m \in Nat /\ m + 1 # 0
      OBVIOUS
    <3>2. IsFiniteSet(T)
      BY FS_Subset
    <3> QED BY <3>1, <3>2, FS_EmptySet
  <2>2. PICK top \in T : \A y \in T : y <= top
    BY <2>1, Extremes
  <2> DEFINE U == T \ {top}
  <2>3. Cardinality(U) = m /\ U \in SUBSET S
    <3>1. Cardinality(U) = Cardinality(T) - 1
      BY <2>1, FS_RemoveElement
    <3>2. m \in Nat
      OBVIOUS
    <3> QED BY <3>1, <3>2
  <2>4. CASE n = m
    <3>1. {j \in T : j < top} = U
      <4>1. \A j \in T : j < top <=> j # top
        BY <2>1, <2>2
      <4> QED BY <4>1
    <3> QED BY <2>3, <2>4, <3>1
  <2>5. CASE n # m
    <3>1. n \in 0..(Cardinality(U) - 1)
      BY <2>3, <2>5
    <3>2. Counted(U)
      BY <2>3
    <3>3. PICK k \in U : Cardinality({j \in U : j < k}) = n
      BY <3>1, <3>2
    <3>4. {j \in T : j < k} = {j \in U : j < k}
      BY <2>1, <2>2
    <3> QED BY <3>3, <3>4
  <2> QED BY <2>4, <2>5
<1>3. Q = Nat
  <2>1. Q \in SUBSET Nat
    OBVIOUS
  <2> HIDE DEF Q
  <2> QED BY <1>1, <1>2, <2>1, NatSet
<1>4. Cardinality(S) \in Nat
  BY FS_CardinalityType
<1>5. Counted(S)
  <2> HIDE DEF Counted
  <2>1. \A T \in SUBSET S : Cardinality(T) = Cardinality(S) => Counted(T)
    BY <1>3, <1>4
  <2> QED BY <2>1
<1> QED BY <1>5

(* The part of a queue at some of its positions is a queue. *)
LEMMA TakingParts ==
  ASSUME NEW S, NEW q \in Seq(S), NEW ks \in SUBSET DOMAIN q
  PROVE  /\ Taking(q, ks) \in Seq(S)
         /\ \E f \in [DOMAIN Taking(q, ks) -> ks] :
              /\ \A n \in DOMAIN Taking(q, ks) : Taking(q, ks)[n] = q[f[n]]
              /\ \A m, n \in DOMAIN Taking(q, ks) : f[m] = f[n] => m = n
<1>1. ks \in SUBSET Nat /\ IsFiniteSet(ks) /\ Cardinality(ks) \in Nat
  <2>1. DOMAIN q = 1..Len(q) /\ Len(q) \in Nat
    OBVIOUS
  <2>2. IsFiniteSet(1..Len(q))
    BY <2>1, FS_Interval
  <2> QED BY <2>1, <2>2, FS_Subset, FS_CardinalityType
<1> DEFINE size == Cardinality(ks)
           Rank(k) == Cardinality({j \in ks : j < k})
           f == [n \in 1..size |-> CHOOSE k \in ks : Rank(k) = n - 1]
<1>2. \A n \in 1..size : f[n] \in ks /\ Rank(f[n]) = n - 1
  <2> SUFFICES ASSUME NEW n \in 1..size PROVE f[n] \in ks /\ Rank(f[n]) = n - 1
    OBVIOUS
  <2>1. n - 1 \in 0..(size - 1)
    BY <1>1
  <2>2. \E k \in ks : Rank(k) = n - 1
    BY <1>1, <2>1, Ranks
  <2> QED BY <2>2
<1>3. Taking(q, ks) = [n \in 1..size |-> q[f[n]]]
  BY DEF Taking
<1> HIDE DEF f, Rank, size
<1>4. size \in Nat
  BY <1>1 DEF size
<1>5. \A n \in 1..size : q[f[n]] \in S
  BY <1>2
<1>6. Taking(q, ks) \in Seq(S) /\ DOMAIN Taking(q, ks) = 1..size
  BY <1>3, <1>4, <1>5
<1>7. f \in [1..size -> ks]
  BY <1>2 DEF f
<1>8. \A m, n \in 1..size : f[m] = f[n] => m = n
  <2> SUFFICES ASSUME NEW m \in 1..size, NEW n \in 1..size, f[m] = f[n] PROVE m = n
    OBVIOUS
  <2>1. m - 1 = n - 1
    BY <1>2
  <2> QED BY <2>1
<1>9. /\ f \in [DOMAIN Taking(q, ks) -> ks]
      /\ \A n \in DOMAIN Taking(q, ks) : Taking(q, ks)[n] = q[f[n]]
  BY <1>3, <1>6, <1>7
<1> QED BY <1>6, <1>8, <1>9

(* A greedy pass exists. *)
LEMMA GreedyPass ==
  ASSUME NEW S, NEW q \in Seq(S), NEW adds
  PROVE  /\ Greedy(q, adds) \in SUBSET DOMAIN q
         /\ \A k \in DOMAIN q :
              k \in Greedy(q, adds) <=> <<{j \in Greedy(q, adds) : j < k}, k>> \in adds
<1> DEFINE Pass(g, m) == \A k \in 1..m : k \in g <=> <<{j \in g : j < k}, k>> \in adds
           Q == {m \in Nat : \E g \in SUBSET (1..m) : Pass(g, m)}
<1>1. Len(q) \in Nat /\ DOMAIN q = 1..Len(q)
  OBVIOUS
<1>2. 0 \in Q
  OBVIOUS
<1>3. ASSUME NEW m \in Q PROVE m + 1 \in Q
  <2>1. PICK g \in SUBSET (1..m) : Pass(g, m)
    OBVIOUS
  <2> DEFINE h == IF <<g, m + 1>> \in adds THEN g \cup {m + 1} ELSE g
  <2>2. m \in Nat /\ h \in SUBSET (1..(m + 1))
    OBVIOUS
  <2>3. \A k \in 1..m : {j \in h : j < k} = {j \in g : j < k} /\ (k \in h <=> k \in g)
    BY <2>2
  <2>4. {j \in h : j < m + 1} = g /\ (m + 1 \in h <=> <<g, m + 1>> \in adds)
    <3>1. m + 1 \notin g /\ \A j \in g : j < m + 1
      BY <2>2
    <3>2. ~(m + 1 < m + 1)
      BY <2>2
    <3> QED BY <3>1, <3>2
  <2>5. \A k \in 1..(m + 1) : k \in 1..m \/ k = m + 1
    BY <2>2
  <2> HIDE DEF h
  <2>6. Pass(h, m + 1)
    <3> SUFFICES ASSUME NEW k \in 1..(m + 1)
                 PROVE  k \in h <=> <<{j \in h : j < k}, k>> \in adds
      OBVIOUS
    <3>1. CASE k \in 1..m
      <4>1. k \in g <=> <<{j \in g : j < k}, k>> \in adds
        BY <2>1, <3>1
      <4> QED BY <2>3, <3>1, <4>1
    <3>2. CASE k = m + 1
      BY <2>4, <3>2
    <3> QED BY <2>5, <3>1, <3>2
  <2> HIDE DEF Pass
  <2>7. \E x \in SUBSET (1..(m + 1)) : Pass(x, m + 1)
    BY <2>2, <2>6
  <2> QED BY <2>2, <2>7
<1>4. Q = Nat
  <2>1. Q \in SUBSET Nat
    OBVIOUS
  <2> HIDE DEF Q
  <2> QED BY <1>2, <1>3, <2>1, NatSet
<1>5. \E g \in SUBSET DOMAIN q : \A k \in DOMAIN q : k \in g <=> <<{j \in g : j < k}, k>> \in adds
  BY <1>1, <1>4
<1> QED BY <1>5 DEF Greedy

(* ... and its last addition was one. *)
LEMMA GreedyLast ==
  ASSUME NEW S, NEW q \in Seq(S), NEW adds, Greedy(q, adds) # {}
  PROVE  \E k \in Greedy(q, adds) : <<Greedy(q, adds) \ {k}, k>> \in adds
<1> DEFINE g == Greedy(q, adds)
<1>1. /\ g \in SUBSET DOMAIN q /\ g # {}
      /\ \A k \in DOMAIN q : k \in g <=> <<{j \in g : j < k}, k>> \in adds
  BY GreedyPass
<1> HIDE DEF g
<1>2. g \in SUBSET Nat /\ IsFiniteSet(g)
  <2>1. DOMAIN q = 1..Len(q) /\ Len(q) \in Nat
    OBVIOUS
  <2>2. IsFiniteSet(1..Len(q))
    BY <2>1, FS_Interval
  <2> QED BY <1>1, <2>1, <2>2, FS_Subset
<1>3. PICK k \in g : \A y \in g : y <= k
  BY <1>1, <1>2, Extremes
<1>4. {j \in g : j < k} = g \ {k}
  <2>1. \A j \in g : j < k <=> j # k
    BY <1>2, <1>3
  <2> QED BY <2>1
<1> QED BY <1>1, <1>3, <1>4 DEF g

-----------------------------------------------------------------------------
(* Seats *)
Size(players) == Seats(players, Pids)

Party(players) ==
    IsFiniteSet(players) /\ \A s \in players : IsFiniteSet(s.members) /\ s.members \subseteq Pids

Taken(players, ps) == {x \in players \X ps : x[2] \in x[1].members}

LEMMA TakenFinite ==
  ASSUME NEW P, Party(P), NEW ps \in SUBSET Pids
  PROVE  IsFiniteSet(Taken(P, ps)) /\ Taken(P, ps) \subseteq Taken(P, Pids)
<1> DEFINE sets == {s.members : s \in P}
           all == UNION sets
<1>1. IsFiniteSet(P) /\ \A s \in P : IsFiniteSet(s.members)
  BY DEF Party
<1>2. IsFiniteSet(sets)
  <2> DEFINE f == [s \in P |-> s.members]
  <2>1. sets = {f[s] : s \in P}
    OBVIOUS
  <2> HIDE DEF f, sets
  <2> QED BY <1>1, <2>1, Image
<1>3. IsFiniteSet(all)
  BY <1>1, <1>2, FS_UNION
<1>4. Taken(P, ps) \subseteq P \X all
  BY DEF Taken
<1> HIDE DEF all
<1>5. IsFiniteSet(P \X all)
  BY <1>1, <1>3, FS_Product
<1> QED BY <1>4, <1>5, FS_Subset DEF Taken

LEMMA SeatsType ==
  ASSUME NEW P, Party(P), NEW ps \in SUBSET Pids
  PROVE  Seats(P, ps) \in Nat /\ Size(P) \in Nat /\ Seats(P, ps) <= Size(P)
<1>1. Seats(P, ps) = Cardinality(Taken(P, ps)) /\ Size(P) = Cardinality(Taken(P, Pids))
  BY DEF Seats, Size, Taken
<1>2. IsFiniteSet(Taken(P, Pids)) /\ IsFiniteSet(Taken(P, ps)) /\ Taken(P, ps) \in SUBSET Taken(P, Pids)
  BY TakenFinite
<1> QED BY <1>1, <1>2, FS_Subset, FS_CardinalityType

LEMMA SizeJoined ==
  ASSUME NEW P, Party(P), NEW R, Party(R)
  PROVE  Party(P \cup R) /\ Size(P \cup R) <= Size(P) + Size(R)
<1>1. Party(P \cup R)
  BY FS_Union DEF Party
<1>2. /\ Size(P) = Cardinality(Taken(P, Pids)) /\ Size(R) = Cardinality(Taken(R, Pids))
      /\ Size(P \cup R) = Cardinality(Taken(P \cup R, Pids))
  BY DEF Seats, Size, Taken
<1>3. Taken(P \cup R, Pids) = Taken(P, Pids) \cup Taken(R, Pids)
  BY DEF Taken
<1>4. IsFiniteSet(Taken(P, Pids)) /\ IsFiniteSet(Taken(R, Pids))
  BY TakenFinite
<1> DEFINE a == Cardinality(Taken(P, Pids))
           b == Cardinality(Taken(R, Pids))
           both == Cardinality(Taken(P, Pids) \cap Taken(R, Pids))
<1>5. Cardinality(Taken(P, Pids) \cup Taken(R, Pids)) = a + b - both
  BY <1>4, FS_Union
<1>6. a \in Nat /\ b \in Nat /\ both \in Nat
  BY <1>4, FS_CardinalityType, FS_Intersection
<1> HIDE DEF a, b, both
<1>7. a + b - both <= a + b
  BY <1>6
<1> QED BY <1>1, <1>2, <1>3, <1>5, <1>7 DEF a, b

(* Players who stand, one for one, for players with at least their members. *)
LEMMA SizeThinned ==
  ASSUME NEW P, Party(P), NEW R, NEW f \in Injection(R, P),
         \A s \in R : s.members \subseteq f[s].members
  PROVE  Party(R) /\ Size(R) <= Size(P)
<1>1. f \in [R -> P] /\ \A s, t \in R : f[s] = f[t] => s = t
  BY DEF Injection, IsInjective
<1>2. Party(R)
  <2>1. IsFiniteSet(R)
    BY FS_Injection DEF Party
  <2>2. \A s \in R : f[s] \in P /\ s.members \in SUBSET f[s].members
    BY <1>1
  <2>3. \A s \in R : IsFiniteSet(f[s].members) /\ f[s].members \subseteq Pids
    BY <2>2 DEF Party
  <2>4. \A s \in R : IsFiniteSet(s.members)
    BY <2>2, <2>3, FS_Subset
  <2> QED BY <2>1, <2>2, <2>3, <2>4 DEF Party
<1> DEFINE g == [x \in Taken(R, Pids) |-> <<f[x[1]], x[2]>>]
<1>3. g \in [Taken(R, Pids) -> Taken(P, Pids)]
  BY <1>1 DEF Taken
<1>4. \A x, y \in Taken(R, Pids) : g[x] = g[y] => x = y
  <2> SUFFICES ASSUME NEW x \in Taken(R, Pids), NEW y \in Taken(R, Pids), g[x] = g[y] PROVE x = y
    OBVIOUS
  <2>1. x \in R \X Pids /\ y \in R \X Pids
    BY DEF Taken
  <2>2. f[x[1]] = f[y[1]] /\ x[2] = y[2]
    OBVIOUS
  <2>3. x[1] = y[1]
    BY <1>1, <2>1, <2>2
  <2> QED BY <2>1, <2>2, <2>3
<1>5. g \in Injection(Taken(R, Pids), Taken(P, Pids))
  BY <1>3, <1>4 DEF Injection, IsInjective
<1> HIDE DEF g
<1>6. Cardinality(Taken(R, Pids)) <= Cardinality(Taken(P, Pids))
  BY <1>5, TakenFinite, FS_Injection
<1> QED BY <1>2, <1>6 DEF Size, Seats, Taken

LEMMA SizeSmaller ==
  ASSUME NEW P, Party(P), NEW R \in SUBSET P
  PROVE  Party(R) /\ Size(R) <= Size(P)
<1> DEFINE f == [s \in R |-> s]
<1>1. f \in Injection(R, P) /\ \A s \in R : s.members \subseteq f[s].members
  BY DEF Injection, IsInjective
<1> QED BY <1>1, SizeThinned

LEMMA SizeOne ==
  ASSUME NEW s, IsFiniteSet(s.members), s.members \subseteq Pids
  PROVE  Party({s}) /\ Size({s}) <= Cardinality(s.members)
<1>1. Party({s})
  BY FS_Singleton DEF Party
<1> DEFINE f == [p \in s.members |-> <<s, p>>]
<1>2. f \in Surjection(s.members, Taken({s}, Pids))
  BY DEF Surjection, Taken
<1> HIDE DEF f
<1>3. Cardinality(Taken({s}, Pids)) <= Cardinality(s.members)
  BY <1>2, FS_Surjection
<1> QED BY <1>1, <1>3 DEF Size, Seats, Taken

LEMMA SizeNone == Party({}) /\ Size({}) = 0
<1>1. Taken({}, Pids) = {}
  BY DEF Taken
<1> QED BY <1>1, FS_EmptySet DEF Party, Size, Seats, Taken

-----------------------------------------------------------------------------
(* The inductive invariant, of rooms rs, keys lv, a queue q, the searches t *)
(* that were told to join, the last number n and the open connections up.   *)
Sane(s, n) ==
    s \in Search /\ s.pid = ConnPid[s.conn] /\ s.id <= n /\ s.members # {} /\ IsFiniteSet(s.members)

RoomSane(r, n) ==
    /\ r \in Room
    /\ IsFiniteSet(r.players) /\ \A s \in r.players : Sane(s, n)
    /\ r.host.pid = ConnPid[r.host.conn]
    /\ r.source \in 1..n \cup {NoRoom} /\ r.target \in 1..n \cup {NoRoom}

RoomsSane(rs, lv, n) ==
    /\ MaxId \in Nat /\ n \in 0..MaxId
    /\ DOMAIN rs \subseteq 1..n /\ lv \subseteq DOMAIN rs
    /\ rs = [i \in DOMAIN rs |-> rs[i]]
    /\ \A i \in DOMAIN rs : RoomSane(rs[i], n)

(* The host is one of the players; a room with its reserved seats fits in   *)
(* it and, if it is to move, in its destination; a host has been told of    *)
(* everybody it did not report as failed.                                   *)
HostSeated(r) ==
    \E s \in r.players : s.id = r.host.id /\ s.conn = r.host.conn /\ r.host.pid \in s.members

Linked(rs, lv, i) ==
    /\ rs[i].source # NoRoom =>
         /\ rs[i].source \in DOMAIN rs
         /\ rs[rs[i].source].target = i /\ rs[rs[i].source].source = NoRoom /\ rs[i].target = NoRoom
    /\ rs[i].target \in lv => rs[rs[i].target].source = i

Fits(rs, i) ==
    LET size == Size(rs[i].players) + Size(Coming(rs, i))
    IN  size <= rs[i].capacity /\ (rs[i].source # NoRoom => size <= rs[rs[i].source].capacity)

Offered(rs, i) ==
    \A o \in rs[i].offers : \A s \in rs[i].players \cup Coming(rs, i) :
       (\E m \in s.members : ~Failed(rs[i], m)) => s.id \in o

Arranged(rs, lv) ==
    \A i \in lv : HostSeated(rs[i]) /\ Linked(rs, lv, i) /\ Fits(rs, i) /\ Offered(rs, i)

(* Nobody is seated, or about to be moved here, whom the host reported.     *)
Clean(r) == \A s \in r.players : \A p \in s.members : ~Failed(r, p)

Calm(rs, i) ==
    Clean(rs[i]) /\ \A s \in Coming(rs, i) : \A p \in s.members : rs[i].states[p] # 3

(* Searches and leaders are in one place, and who joined was acknowledged.  *)
Alone(rs, lv) ==
    \A i, j \in lv : \A s \in rs[i].players, t \in rs[j].players :
       (s.pid = t.pid <=> s.id = t.id) /\ (s.pid = t.pid => i = j)

Aside(rs, lv, q) ==
    /\ \A j, k \in DOMAIN q : q[j].pid = q[k].pid \/ q[j].id = q[k].id => j = k
    /\ \A k \in DOMAIN q : \A i \in lv : \A t \in rs[i].players : q[k].pid # t.pid /\ q[k].id # t.id

Acked(r, t) == \A s \in r.players : s.id \in t /\ s.id # r.host.id => s.id \in r.acked

Told(rs, lv, q, t, n) ==
    /\ q \in Seq(Search) /\ t \subseteq 1..n
    /\ \A k \in DOMAIN q : Sane(q[k], n) /\ q[k].id \notin t /\ q[k].pid \in q[k].members
    /\ \A i \in lv : Acked(rs[i], t)

Present(rs, lv, q, up) ==
    /\ \A k \in DOMAIN q : q[k].conn \in up
    /\ \A i \in lv : \A s \in rs[i].players : s.conn \in up

(* All of it; while a document is handled, its room x need not be calm.     *)
Sound(rs, lv, q, t, n, up, x) ==
    /\ RoomsSane(rs, lv, n)
    /\ Arranged(rs, lv)
    /\ \A i \in lv \ {x} : Calm(rs, i)
    /\ Alone(rs, lv)
    /\ Aside(rs, lv, q)
    /\ Told(rs, lv, q, t, n)
    /\ Present(rs, lv, q, up)

LEMMA SearchParts ==
  ASSUME NEW s \in Search, MaxId \in Nat
  PROVE  /\ s.id \in 1..MaxId /\ s.id \in Nat /\ s.conn \in Conns /\ s.pid \in Pids
         /\ s.members \subseteq Pids /\ s.min \in 1..8 /\ s.max \in 1..8
BY DEF Search

LEMMA RoomParts ==
  ASSUME NEW r \in Room, MaxId \in Nat
  PROVE  /\ r.host \in Search /\ r.players \subseteq Search /\ r.open \in BOOLEAN
         /\ r.states \in [Pids -> {0, 2, 3}] /\ r.capacity \in 1..8 /\ r.notified \subseteq Conns
         /\ r.source \in 1..MaxId \cup {NoRoom} /\ r.target \in 1..MaxId \cup {NoRoom}
         /\ r.offers \subseteq SUBSET (1..MaxId) /\ r.acked \subseteq 1..MaxId
BY DEF Room

LEMMA RoomParty ==
  ASSUME NEW r, NEW n, RoomSane(r, n), MaxId \in Nat
  PROVE  Party(r.players)
BY SearchParts DEF RoomSane, Sane, Party

LEMMA ComingParty ==
  ASSUME NEW rs, NEW lv, NEW n, RoomsSane(rs, lv, n), NEW i \in lv, Linked(rs, lv, i)
  PROVE  /\ Party(Coming(rs, i)) /\ Party(rs[i].players)
         /\ Size(Coming(rs, i)) \in Nat /\ Size(rs[i].players) \in Nat
<1>1. MaxId \in Nat /\ i \in DOMAIN rs /\ \A j \in DOMAIN rs : RoomSane(rs[j], n)
  BY DEF RoomsSane
<1>2. \A j \in DOMAIN rs : Party(rs[j].players)
  BY <1>1, RoomParty
<1>3. Party(Coming(rs, i))
  <2>1. CASE rs[i].source = NoRoom
    BY <2>1, SizeNone DEF Coming
  <2>2. CASE rs[i].source # NoRoom
    <3>1. rs[i].source \in DOMAIN rs
      BY <2>2 DEF Linked
    <3> QED BY <1>2, <2>2, <3>1 DEF Coming
  <2> QED BY <2>1, <2>2
<1>4. \A P : Party(P) => Size(P) \in Nat
  BY SeatsType
<1> QED BY <1>1, <1>2, <1>3, <1>4

-----------------------------------------------------------------------------
(* Steps that only take away: players, members, rooms, stale targets.       *)
Like(s, t) ==
    /\ s \in Search /\ s.id = t.id /\ s.pid = t.pid /\ s.conn = t.conn
    /\ s.members # {} /\ s.members \subseteq t.members

Thinned(R, P) == IsFiniteSet(R) /\ Size(R) <= Size(P) /\ \A s \in R : \E t \in P : Like(s, t)

Narrower(r, old) ==
    /\ r \in Room /\ r.host = old.host /\ r.states = old.states /\ r.capacity = old.capacity
    /\ r.source = old.source /\ r.offers = old.offers /\ r.acked = old.acked
    /\ Thinned(r.players, old.players)

Shrunk(rs, lv, rs2, lv2) ==
    /\ lv2 \subseteq lv /\ lv2 \subseteq DOMAIN rs2 /\ DOMAIN rs2 \subseteq DOMAIN rs
    /\ rs2 = [i \in DOMAIN rs2 |-> rs2[i]]
    /\ \A i \in DOMAIN rs2 :
         /\ Narrower(rs2[i], rs[i])
         /\ rs2[i].target = rs[i].target \/ (rs2[i].target = NoRoom /\ rs[i].target \notin lv2)
    /\ \A i \in lv2 : /\ HostSeated(rs2[i])
                      /\ rs2[i].source # NoRoom => rs2[i].source \in DOMAIN rs2

LEMMA ShrunkSane ==
  ASSUME NEW rs, NEW lv, NEW n, RoomsSane(rs, lv, n), NEW rs2, NEW lv2, Shrunk(rs, lv, rs2, lv2)
  PROVE  RoomsSane(rs2, lv2, n)
<1>1. \A i \in DOMAIN rs2 : i \in DOMAIN rs /\ RoomSane(rs[i], n) /\ Narrower(rs2[i], rs[i])
  BY DEF RoomsSane, Shrunk
<1>2. ASSUME NEW i \in DOMAIN rs2 PROVE RoomSane(rs2[i], n)
  <2>1. RoomSane(rs[i], n) /\ Narrower(rs2[i], rs[i])
    BY <1>1
  <2>2. ASSUME NEW s \in rs2[i].players PROVE Sane(s, n)
    <3>1. PICK t \in rs[i].players : Like(s, t)
      BY <2>1 DEF Narrower, Thinned
    <3>2. Sane(t, n)
      BY <2>1 DEF RoomSane
    <3>3. IsFiniteSet(s.members)
      BY <3>1, <3>2, FS_Subset DEF Like, Sane
    <3> QED BY <3>1, <3>2, <3>3 DEF Like, Sane
  <2>3. rs2[i].target = rs[i].target \/ rs2[i].target = NoRoom
    BY DEF Shrunk
  <2>4. rs2[i].target \in 1..n \cup {NoRoom}
    BY <2>1, <2>3 DEF RoomSane
  <2> QED BY <2>1, <2>2, <2>4 DEF RoomSane, Narrower, Thinned
<1> QED BY <1>2 DEF RoomsSane, Shrunk

LEMMA ShrunkPlayers ==
  ASSUME NEW rs, NEW lv, NEW n, RoomsSane(rs, lv, n), Arranged(rs, lv),
         NEW rs2, NEW lv2, Shrunk(rs, lv, rs2, lv2), NEW i \in lv2
  PROVE  /\ i \in lv /\ i \in DOMAIN rs2 /\ i \in DOMAIN rs /\ Narrower(rs2[i], rs[i])
         /\ Thinned(rs2[i].players, rs[i].players)
         /\ Thinned(Coming(rs2, i), Coming(rs, i))
<1>1. /\ i \in lv /\ i \in DOMAIN rs2 /\ i \in DOMAIN rs /\ Narrower(rs2[i], rs[i])
      /\ Thinned(rs2[i].players, rs[i].players)
  BY DEF Shrunk, Narrower
<1>2. rs2[i].source = rs[i].source
  BY <1>1 DEF Narrower
<1>3. CASE rs[i].source = NoRoom
  <2>1. Coming(rs2, i) = {} /\ Coming(rs, i) = {}
    BY <1>2, <1>3 DEF Coming
  <2> QED BY <1>1, <2>1, SizeNone, FS_EmptySet DEF Thinned
<1>4. CASE rs[i].source # NoRoom
  <2>1. rs[i].source \in DOMAIN rs2
    BY <1>2, <1>4 DEF Shrunk
  <2>2. Narrower(rs2[rs[i].source], rs[rs[i].source])
    BY <2>1 DEF Shrunk
  <2> QED BY <1>1, <1>2, <1>4, <2>2 DEF Coming, Narrower
<1> QED BY <1>3, <1>4

LEMMA ShrunkArranged ==
  ASSUME NEW rs, NEW lv, NEW n, RoomsSane(rs, lv, n), Arranged(rs, lv),
         NEW rs2, NEW lv2, Shrunk(rs, lv, rs2, lv2)
  PROVE  Arranged(rs2, lv2)
<1> SUFFICES ASSUME NEW i \in lv2
             PROVE  HostSeated(rs2[i]) /\ Linked(rs2, lv2, i) /\ Fits(rs2, i) /\ Offered(rs2, i)
  BY DEF Arranged
<1>1. /\ i \in lv /\ i \in DOMAIN rs2 /\ i \in DOMAIN rs /\ Narrower(rs2[i], rs[i])
      /\ Thinned(rs2[i].players, rs[i].players)
      /\ Thinned(Coming(rs2, i), Coming(rs, i))
  BY ShrunkPlayers
<1>2. HostSeated(rs2[i]) /\ Linked(rs, lv, i) /\ Fits(rs, i) /\ Offered(rs, i)
  BY <1>1 DEF Arranged, Shrunk
<1>3. \A j \in DOMAIN rs2 :
         /\ rs2[j].source = rs[j].source /\ rs2[j].capacity = rs[j].capacity
         /\ rs2[j].target = rs[j].target \/ (rs2[j].target = NoRoom /\ rs[j].target \notin lv2)
  BY DEF Shrunk, Narrower
<1>4. NoRoom \notin lv2 /\ lv2 \subseteq lv /\ lv \subseteq DOMAIN rs /\ lv2 \subseteq DOMAIN rs2
  BY CtrAssumption DEF RoomsSane, Shrunk
<1>5. rs2[i].source # NoRoom => rs2[i].source \in DOMAIN rs2 /\ rs2[i].source \in DOMAIN rs
  BY DEF Shrunk
<1>6. Linked(rs2, lv2, i)
  <2>1. ASSUME rs2[i].source # NoRoom
        PROVE  /\ rs2[i].source \in DOMAIN rs2
               /\ rs2[rs2[i].source].target = i /\ rs2[rs2[i].source].source = NoRoom
               /\ rs2[i].target = NoRoom
    BY <1>1, <1>2, <1>3, <1>5, <2>1 DEF Linked
  <2>2. ASSUME rs2[i].target \in lv2 PROVE rs2[rs2[i].target].source = i
    BY <1>1, <1>2, <1>3, <1>4, <2>2 DEF Linked
  <2> QED BY <2>1, <2>2 DEF Linked
<1>7. Fits(rs2, i)
  <2> DEFINE a == Size(rs[i].players)
             b == Size(Coming(rs, i))
             c == Size(rs2[i].players)
             d == Size(Coming(rs2, i))
  <2>1. a \in Nat /\ b \in Nat
    BY <1>1, <1>2, ComingParty
  <2>2. RoomsSane(rs2, lv2, n)
    BY ShrunkSane
  <2>3. c \in Nat /\ d \in Nat
    BY <1>6, <2>2, ComingParty
  <2>4. c <= a /\ d <= b
    BY <1>1 DEF Thinned
  <2>5. a + b <= rs[i].capacity /\ (rs[i].source # NoRoom => a + b <= rs[rs[i].source].capacity)
    BY <1>2 DEF Fits
  <2>6. \A j \in DOMAIN rs : rs[j].capacity \in Nat
    BY RoomParts DEF RoomsSane, RoomSane
  <2> HIDE DEF a, b, c, d
  <2>7. c + d <= a + b
    BY <2>1, <2>3, <2>4
  <2>8. c + d <= rs2[i].capacity
    BY <1>1, <1>3, <2>1, <2>3, <2>5, <2>6, <2>7
  <2>9. rs2[i].source # NoRoom => c + d <= rs2[rs2[i].source].capacity
    BY <1>1, <1>3, <1>5, <2>1, <2>3, <2>5, <2>6, <2>7
  <2> QED BY <2>8, <2>9 DEF Fits, c, d
<1>8. Offered(rs2, i)
  <2> SUFFICES ASSUME NEW o \in rs2[i].offers, NEW s \in rs2[i].players \cup Coming(rs2, i),
                      NEW m \in s.members, ~Failed(rs2[i], m)
               PROVE  s.id \in o
    BY DEF Offered
  <2>1. PICK t \in rs[i].players \cup Coming(rs, i) : Like(s, t)
    BY <1>1 DEF Thinned
  <2>2. o \in rs[i].offers /\ m \in t.members /\ ~Failed(rs[i], m)
    BY <1>1, <2>1 DEF Narrower, Like, Failed
  <2>3. t.id \in o
    BY <1>2, <2>2 DEF Offered
  <2> QED BY <2>1, <2>3 DEF Like
<1> QED BY <1>2, <1>6, <1>7, <1>8

LEMMA ShrunkCalm ==
  ASSUME NEW rs, NEW lv, NEW n, RoomsSane(rs, lv, n), Arranged(rs, lv),
         NEW rs2, NEW lv2, Shrunk(rs, lv, rs2, lv2), NEW i \in lv2, Calm(rs, i)
  PROVE  Calm(rs2, i)
<1>1. /\ Narrower(rs2[i], rs[i])
      /\ Thinned(rs2[i].players, rs[i].players)
      /\ Thinned(Coming(rs2, i), Coming(rs, i))
  BY ShrunkPlayers
<1>2. ASSUME NEW s \in rs2[i].players, NEW p \in s.members PROVE ~Failed(rs2[i], p)
  <2>1. PICK t \in rs[i].players : Like(s, t)
    BY <1>1 DEF Thinned
  <2>2. ~Failed(rs[i], p)
    BY <2>1 DEF Like, Calm, Clean
  <2> QED BY <1>1, <2>2 DEF Narrower, Failed
<1>3. ASSUME NEW s \in Coming(rs2, i), NEW p \in s.members PROVE rs2[i].states[p] # 3
  <2>1. PICK t \in Coming(rs, i) : Like(s, t)
    BY <1>1 DEF Thinned
  <2>2. rs[i].states[p] # 3
    BY <2>1 DEF Like, Calm
  <2> QED BY <1>1, <2>2 DEF Narrower
<1> QED BY <1>2, <1>3 DEF Calm, Clean

LEMMA ShrunkAlone ==
  ASSUME NEW rs, NEW lv, NEW n, RoomsSane(rs, lv, n), Arranged(rs, lv), Alone(rs, lv),
         NEW rs2, NEW lv2, Shrunk(rs, lv, rs2, lv2)
  PROVE  Alone(rs2, lv2)
<1> SUFFICES ASSUME NEW i \in lv2, NEW j \in lv2, NEW s \in rs2[i].players, NEW t \in rs2[j].players
             PROVE  (s.pid = t.pid <=> s.id = t.id) /\ (s.pid = t.pid => i = j)
  BY DEF Alone
<1>1. i \in lv /\ j \in lv /\ Thinned(rs2[i].players, rs[i].players) /\ Thinned(rs2[j].players, rs[j].players)
  BY ShrunkPlayers
<1>2. PICK u \in rs[i].players : Like(s, u)
  BY <1>1 DEF Thinned
<1>3. PICK v \in rs[j].players : Like(t, v)
  BY <1>1 DEF Thinned
<1>4. (u.pid = v.pid <=> u.id = v.id) /\ (u.pid = v.pid => i = j)
  BY <1>1 DEF Alone
<1> QED BY <1>2, <1>3, <1>4 DEF Like

(* The queue may shrink as well. *)
Shorter(r, q) ==
    /\ r \in Seq(Search)
    /\ \E f \in [DOMAIN r -> DOMAIN q] : /\ \A k \in DOMAIN r : r[k] = q[f[k]]
                                         /\ \A j, k \in DOMAIN r : f[j] = f[k] => j = k

LEMMA ShrunkSound ==
  ASSUME NEW rs, NEW lv, NEW q, NEW t, NEW n, NEW up, NEW x, Sound(rs, lv, q, t, n, up, x),
         NEW rs2, NEW lv2, Shrunk(rs, lv, rs2, lv2), NEW q2, Shorter(q2, q),
         NEW up2, Present(rs2, lv2, q2, up2)
  PROVE  Sound(rs2, lv2, q2, t, n, up2, x)
<1>1. RoomsSane(rs, lv, n) /\ Arranged(rs, lv) /\ Alone(rs, lv) /\ Aside(rs, lv, q) /\ Told(rs, lv, q, t, n)
  BY DEF Sound
<1>2. RoomsSane(rs2, lv2, n) /\ Arranged(rs2, lv2) /\ Alone(rs2, lv2)
  BY <1>1, ShrunkSane, ShrunkArranged, ShrunkAlone
<1>3. ASSUME NEW i \in lv2 \ {x} PROVE Calm(rs2, i)
  <2>1. i \in lv \ {x}
    BY <1>1, ShrunkPlayers
  <2>2. Calm(rs, i)
    BY <2>1 DEF Sound
  <2> QED BY <1>1, <2>2, ShrunkCalm
<1>4. PICK f \in [DOMAIN q2 -> DOMAIN q] : /\ \A k \in DOMAIN q2 : q2[k] = q[f[k]]
                                           /\ \A j, k \in DOMAIN q2 : f[j] = f[k] => j = k
  BY DEF Shorter
<1>5. Aside(rs2, lv2, q2)
  <2>1. ASSUME NEW j \in DOMAIN q2, NEW k \in DOMAIN q2, q2[j].pid = q2[k].pid \/ q2[j].id = q2[k].id
        PROVE  j = k
    <3>1. f[j] = f[k]
      BY <1>1, <1>4, <2>1 DEF Aside
    <3> QED BY <1>4, <3>1
  <2>2. ASSUME NEW k \in DOMAIN q2, NEW i \in lv2, NEW s \in rs2[i].players
        PROVE  q2[k].pid # s.pid /\ q2[k].id # s.id
    <3>1. i \in lv /\ Thinned(rs2[i].players, rs[i].players)
      BY <1>1, ShrunkPlayers
    <3>2. PICK u \in rs[i].players : Like(s, u)
      BY <3>1 DEF Thinned
    <3>3. q[f[k]].pid # u.pid /\ q[f[k]].id # u.id
      BY <1>1, <1>4, <3>1 DEF Aside
    <3> QED BY <1>4, <3>2, <3>3 DEF Like
  <2> QED BY <2>1, <2>2 DEF Aside
<1>6. Told(rs2, lv2, q2, t, n)
  <2>1. q2 \in Seq(Search) /\ t \subseteq 1..n
    BY <1>1 DEF Told, Shorter
  <2>2. \A k \in DOMAIN q2 : Sane(q2[k], n) /\ q2[k].id \notin t /\ q2[k].pid \in q2[k].members
    BY <1>1, <1>4 DEF Told
  <2>3. ASSUME NEW i \in lv2 PROVE Acked(rs2[i], t)
    <3>1. i \in lv /\ Narrower(rs2[i], rs[i]) /\ Thinned(rs2[i].players, rs[i].players)
      BY <1>1, ShrunkPlayers
    <3>2. Acked(rs[i], t)
      BY <1>1, <3>1 DEF Told
    <3> SUFFICES ASSUME NEW s \in rs2[i].players, s.id \in t, s.id # rs2[i].host.id
                 PROVE  s.id \in rs2[i].acked
      BY DEF Acked
    <3>3. PICK u \in rs[i].players : Like(s, u)
      BY <3>1 DEF Thinned
    <3> QED BY <3>1, <3>2, <3>3 DEF Acked, Narrower, Like
  <2> QED BY <2>1, <2>2, <2>3 DEF Told
<1> QED BY <1>2, <1>3, <1>5, <1>6 DEF Sound

LEMMA ThinnedSubset ==
  ASSUME NEW r, NEW n, RoomSane(r, n), MaxId \in Nat, NEW R \in SUBSET r.players
  PROVE  Thinned(R, r.players)
<1>1. Party(r.players)
  BY RoomParty
<1>2. IsFiniteSet(R) /\ Size(R) <= Size(r.players)
  BY <1>1, SizeSmaller DEF Party
<1>3. \A s \in R : Like(s, s)
  BY DEF RoomSane, Sane, Like
<1> QED BY <1>2, <1>3 DEF Thinned

LEMMA NarrowerSame ==
  ASSUME NEW r, NEW n, RoomSane(r, n), MaxId \in Nat
  PROVE  Narrower(r, r)
BY ThinnedSubset DEF Narrower, RoomSane

(* leave, evictions, clearing of stale targets, forgetting of rooms to      *)
(* which nothing points and the release of failed members are such steps.   *)
Without(rs, lv, c, is) ==
    [i \in DOMAIN rs |-> IF i \in lv \cap is /\ rs[i].host.conn # c
                         THEN [rs[i] EXCEPT !.players = {s \in @ : s.conn # c}]
                         ELSE rs[i]]

LiveWithout(rs, lv, c, is) == {i \in lv : ~(i \in is /\ rs[i].host.conn = c)}

LEMMA LeaveShrinks ==
  ASSUME NEW rs, NEW lv, NEW n, RoomsSane(rs, lv, n), Arranged(rs, lv), NEW c, NEW is
  PROVE  LET rs2 == Without(rs, lv, c, is)
             lv2 == LiveWithout(rs, lv, c, is)
         IN  /\ Shrunk(rs, lv, rs2, lv2)
             /\ \A i \in lv2 : \A s \in rs2[i].players : s \in rs[i].players /\ (i \in is => s.conn # c)
<1> DEFINE rs2 == Without(rs, lv, c, is)
           lv2 == LiveWithout(rs, lv, c, is)
<1>0. /\ rs2 = [i \in DOMAIN rs |-> IF i \in lv \cap is /\ rs[i].host.conn # c
                                    THEN [rs[i] EXCEPT !.players = {s \in @ : s.conn # c}]
                                    ELSE rs[i]]
      /\ lv2 = {i \in lv : ~(i \in is /\ rs[i].host.conn = c)}
  BY DEF Without, LiveWithout
<1> HIDE DEF rs2, lv2
<1>1. MaxId \in Nat /\ lv \subseteq DOMAIN rs /\ \A i \in DOMAIN rs : RoomSane(rs[i], n)
  BY DEF RoomsSane
<1>2. DOMAIN rs2 = DOMAIN rs /\ rs2 = [i \in DOMAIN rs2 |-> rs2[i]]
  BY <1>0
<1>3. ASSUME NEW i \in DOMAIN rs
      PROVE  /\ Narrower(rs2[i], rs[i]) /\ rs2[i].target = rs[i].target
             /\ i \in lv2 => HostSeated(rs2[i])
             /\ \A s \in rs2[i].players : s \in rs[i].players /\ (i \in lv2 \cap is => s.conn # c)
  <2>1. RoomSane(rs[i], n) /\ rs[i] \in Room
    BY <1>1 DEF RoomSane
  <2>2. i \in lv2 => HostSeated(rs[i])
    BY <1>0 DEF Arranged
  <2>3. CASE i \in lv \cap is /\ rs[i].host.conn # c
    <3> DEFINE R == {s \in rs[i].players : s.conn # c}
    <3>1. rs2[i] = [rs[i] EXCEPT !.players = R]
      BY <1>0, <2>3
    <3>2. Thinned(R, rs[i].players)
      BY <1>1, <2>1, ThinnedSubset
    <3>3. R \subseteq rs[i].players /\ \A s \in R : s.conn # c
      OBVIOUS
    <3>4. i \in lv2 => \E s \in R : s.id = rs[i].host.id /\ s.conn = rs[i].host.conn /\ rs[i].host.pid \in s.members
      BY <1>0, <2>2, <2>3 DEF HostSeated
    <3> HIDE DEF R
    <3>5. /\ rs2[i] \in Room /\ rs2[i].players = R /\ rs2[i].host = rs[i].host
          /\ rs2[i].states = rs[i].states /\ rs2[i].capacity = rs[i].capacity
          /\ rs2[i].source = rs[i].source /\ rs2[i].offers = rs[i].offers /\ rs2[i].acked = rs[i].acked
          /\ rs2[i].target = rs[i].target
      BY <2>1, <3>1, <3>3 DEF Room
    <3> QED BY <3>2, <3>3, <3>4, <3>5 DEF Narrower, HostSeated
  <2>4. CASE ~(i \in lv \cap is /\ rs[i].host.conn # c)
    <3>1. rs2[i] = rs[i] /\ ~(i \in lv2 \cap is)
      BY <1>0, <2>4
    <3> QED BY <1>1, <2>1, <2>2, <3>1, NarrowerSame
  <2> QED BY <2>3, <2>4
<1>4. lv2 \subseteq lv
  BY <1>0
<1>5. \A i \in lv2 : rs[i].source # NoRoom => rs[i].source \in DOMAIN rs
  BY <1>4 DEF Arranged, Linked
<1> HIDE DEF Like
<1>6. Shrunk(rs, lv, rs2, lv2)
  <2>1. \A i \in DOMAIN rs2 : Narrower(rs2[i], rs[i]) /\ rs2[i].target = rs[i].target
    BY <1>2, <1>3
  <2>2. \A i \in lv2 : i \in DOMAIN rs2 /\ HostSeated(rs2[i]) /\ rs2[i].source = rs[i].source
    BY <1>1, <1>2, <1>3, <1>4, <2>1 DEF Narrower
  <2> HIDE DEF Narrower
  <2> QED BY <1>2, <1>4, <1>5, <2>1, <2>2 DEF Shrunk
<1> QED BY <1>1, <1>3, <1>4, <1>6 DEF rs2, lv2

LEMMA UnlinkShrinks ==
  ASSUME NEW rs, NEW lv, NEW n, RoomsSane(rs, lv, n), Arranged(rs, lv), NEW is
  PROVE  /\ Shrunk(rs, lv, Unlink(rs, lv, is), lv)
         /\ DOMAIN Unlink(rs, lv, is) = DOMAIN rs
         /\ \A i \in DOMAIN rs :
              LET r == Unlink(rs, lv, is)[i]
              IN  /\ r.players = rs[i].players /\ r.source = rs[i].source /\ r.states = rs[i].states
                  /\ r.host = rs[i].host /\ r.capacity = rs[i].capacity /\ r.open = rs[i].open
                  /\ r.target = IF i \in is /\ rs[i].target # NoRoom /\ rs[i].target \notin lv
                                THEN NoRoom ELSE rs[i].target
<1> DEFINE rs2 == Unlink(rs, lv, is)
<1>1. MaxId \in Nat /\ lv \subseteq DOMAIN rs /\ \A i \in DOMAIN rs : RoomSane(rs[i], n)
  BY DEF RoomsSane
<1>2. DOMAIN rs2 = DOMAIN rs /\ rs2 = [i \in DOMAIN rs2 |-> rs2[i]]
  BY DEF Unlink
<1>3. ASSUME NEW i \in DOMAIN rs
      PROVE  /\ Narrower(rs2[i], rs[i])
             /\ rs2[i].players = rs[i].players /\ rs2[i].source = rs[i].source
             /\ rs2[i].states = rs[i].states /\ rs2[i].open = rs[i].open
             /\ rs2[i].host = rs[i].host /\ rs2[i].capacity = rs[i].capacity
             /\ rs2[i].target = IF i \in is /\ rs[i].target # NoRoom /\ rs[i].target \notin lv
                                THEN NoRoom ELSE rs[i].target
  <2>1. RoomSane(rs[i], n) /\ rs[i] \in Room
    BY <1>1 DEF RoomSane
  <2>2. Thinned(rs[i].players, rs[i].players)
    BY <1>1, <2>1, ThinnedSubset
  <2>3. CASE i \in is /\ rs[i].target # NoRoom /\ rs[i].target \notin lv
    <3>1. rs2[i] = [rs[i] EXCEPT !.target = NoRoom]
      BY <2>3 DEF Unlink
    <3> QED BY <2>1, <2>2, <2>3, <3>1 DEF Narrower, Room
  <2>4. CASE ~(i \in is /\ rs[i].target # NoRoom /\ rs[i].target \notin lv)
    <3>1. rs2[i] = rs[i]
      BY <2>4 DEF Unlink
    <3> QED BY <2>1, <2>2, <2>4, <3>1 DEF Narrower
  <2> QED BY <2>3, <2>4
<1> HIDE DEF rs2
<1>4. \A i \in lv : HostSeated(rs2[i]) /\ (rs2[i].source # NoRoom => rs2[i].source \in DOMAIN rs2)
  <2> SUFFICES ASSUME NEW i \in lv
               PROVE  HostSeated(rs2[i]) /\ (rs2[i].source # NoRoom => rs2[i].source \in DOMAIN rs2)
    OBVIOUS
  <2>1. HostSeated(rs[i]) /\ Linked(rs, lv, i)
    BY DEF Arranged
  <2>2. rs2[i].players = rs[i].players /\ rs2[i].host = rs[i].host /\ rs2[i].source = rs[i].source
    BY <1>1, <1>3
  <2> QED BY <1>2, <2>1, <2>2 DEF HostSeated, Linked
<1>5. \A i \in DOMAIN rs2 : rs2[i].target = rs[i].target \/ (rs2[i].target = NoRoom /\ rs[i].target \notin lv)
  <2> SUFFICES ASSUME NEW i \in DOMAIN rs2
               PROVE  rs2[i].target = rs[i].target \/ (rs2[i].target = NoRoom /\ rs[i].target \notin lv)
    OBVIOUS
  <2>1. rs2[i].target = IF i \in is /\ rs[i].target # NoRoom /\ rs[i].target \notin lv
                        THEN NoRoom ELSE rs[i].target
    BY <1>2, <1>3
  <2> QED BY <2>1
<1>6. Shrunk(rs, lv, rs2, lv)
  BY <1>1, <1>2, <1>3, <1>4, <1>5 DEF Shrunk
<1> QED BY <1>2, <1>3, <1>6 DEF rs2

LEMMA ReachableShrinks ==
  ASSUME NEW rs, NEW lv, NEW n, RoomsSane(rs, lv, n), Arranged(rs, lv)
  PROVE  /\ Shrunk(rs, lv, Reachable(rs, lv), lv)
         /\ \A i \in lv : Reachable(rs, lv)[i] = rs[i]
<1> DEFINE kept == {i \in DOMAIN rs : i \in lv \/ \E j \in lv : rs[j].source = i}
           rs2 == [i \in kept |-> rs[i]]
<1>1. MaxId \in Nat /\ lv \subseteq DOMAIN rs /\ \A i \in DOMAIN rs : RoomSane(rs[i], n)
  BY DEF RoomsSane
<1>2. rs2 = Reachable(rs, lv)
  BY DEF Reachable
<1>3. lv \subseteq kept /\ kept \subseteq DOMAIN rs /\ DOMAIN rs2 = kept /\ \A i \in kept : rs2[i] = rs[i]
  BY <1>1
<1>4. \A i \in lv : rs[i].source # NoRoom => rs[i].source \in kept
  BY <1>1 DEF Arranged, Linked
<1>5. rs2 = [i \in DOMAIN rs2 |-> rs2[i]]
  OBVIOUS
<1> HIDE DEF rs2, kept
<1>6. \A i \in lv : HostSeated(rs2[i])
  BY <1>3 DEF Arranged
<1>7. \A i \in kept : Narrower(rs2[i], rs[i])
  BY <1>1, <1>3, NarrowerSame
<1>8. Shrunk(rs, lv, rs2, lv)
  <2>1. \A i \in lv : rs2[i].source # NoRoom => rs2[i].source \in DOMAIN rs2
    BY <1>3, <1>4
  <2>2. \A i \in DOMAIN rs2 : Narrower(rs2[i], rs[i]) /\ rs2[i].target = rs[i].target
    BY <1>3, <1>7
  <2> QED BY <1>3, <1>5, <1>6, <2>1, <2>2 DEF Shrunk
<1> QED BY <1>2, <1>3, <1>8

LEMMA EvictShrinks ==
  ASSUME NEW n, RoomsSane(rooms, live, n), Arranged(rooms, live), NEW s
  PROVE  /\ Shrunk(rooms, live, EvictedRooms(s), EvictedLive(s))
         /\ \A i \in EvictedLive(s) : \A t \in EvictedRooms(s)[i].players :
              t \in rooms[i].players /\ t.pid # s.pid
<1> DEFINE lv2 == EvictedLive(s)
           rs2 == EvictedRooms(s)
<1>1. MaxId \in Nat /\ live \subseteq DOMAIN rooms /\ \A i \in DOMAIN rooms : RoomSane(rooms[i], n)
  BY DEF RoomsSane
<1>2. DOMAIN rs2 = DOMAIN rooms /\ rs2 = [i \in DOMAIN rs2 |-> rs2[i]]
  BY DEF EvictedRooms
<1>3. lv2 \subseteq live /\ \A i \in lv2 : rooms[i].host.pid # s.pid
  BY DEF EvictedLive
<1>4. ASSUME NEW i \in DOMAIN rooms
      PROVE  /\ Narrower(rs2[i], rooms[i]) /\ rs2[i].target = rooms[i].target
             /\ i \in lv2 => HostSeated(rs2[i])
             /\ \A t \in rs2[i].players : t \in rooms[i].players /\ (i \in lv2 => t.pid # s.pid)
  <2>1. RoomSane(rooms[i], n) /\ rooms[i] \in Room
    BY <1>1 DEF RoomSane
  <2>2. CASE i \in lv2
    <3> DEFINE gone == {p \in rooms[i].players : p.pid = s.pid}
               R == rooms[i].players \ gone
               told2 == rooms[i].notified \ {p.conn : p \in gone}
    <3>1. rs2[i] = [rooms[i] EXCEPT !.players = R, !.notified = told2]
      BY <2>2 DEF EvictedRooms
    <3>2. Thinned(R, rooms[i].players)
      BY <1>1, <2>1, ThinnedSubset
    <3>3. R \subseteq rooms[i].players /\ \A t \in R : t.pid # s.pid
      OBVIOUS
    <3>4. PICK h \in rooms[i].players : /\ h.id = rooms[i].host.id /\ h.conn = rooms[i].host.conn
                                        /\ rooms[i].host.pid \in h.members
      BY <1>3, <2>2 DEF Arranged, HostSeated
    <3>5. h.pid = ConnPid[h.conn] /\ rooms[i].host.pid = ConnPid[rooms[i].host.conn]
      BY <2>1 DEF RoomSane, Sane
    <3>6. h \in R
      BY <1>3, <2>2, <3>4, <3>5
    <3>7. told2 \subseteq Conns
      BY <2>1 DEF Room
    <3> HIDE DEF R, told2
    <3>8. rs2[i] \in Room
      BY <2>1, <3>1, <3>3, <3>7 DEF Room
    <3>9. /\ rs2[i].players = R /\ rs2[i].host = rooms[i].host
          /\ rs2[i].states = rooms[i].states /\ rs2[i].capacity = rooms[i].capacity
          /\ rs2[i].source = rooms[i].source /\ rs2[i].offers = rooms[i].offers
          /\ rs2[i].acked = rooms[i].acked /\ rs2[i].target = rooms[i].target
      BY <2>1, <3>1 DEF Room
    <3>10. HostSeated(rs2[i])
      BY <3>4, <3>6, <3>9 DEF HostSeated
    <3> QED BY <3>2, <3>3, <3>8, <3>9, <3>10 DEF Narrower
  <2>3. CASE i \notin lv2
    <3>1. rs2[i] = rooms[i]
      BY <2>3 DEF EvictedRooms
    <3> QED BY <1>1, <2>1, <2>3, <3>1, NarrowerSame
  <2> QED BY <2>2, <2>3
<1>5. \A i \in lv2 : rooms[i].source # NoRoom => rooms[i].source \in DOMAIN rooms
  BY <1>3 DEF Arranged, Linked
<1> HIDE DEF rs2, lv2
<1>6. Shrunk(rooms, live, rs2, lv2)
  <2>1. \A i \in DOMAIN rs2 : Narrower(rs2[i], rooms[i]) /\ rs2[i].target = rooms[i].target
    BY <1>2, <1>4
  <2>2. \A i \in lv2 : i \in DOMAIN rs2 /\ HostSeated(rs2[i]) /\ rs2[i].source = rooms[i].source
    BY <1>1, <1>2, <1>3, <1>4, <2>1 DEF Narrower
  <2> HIDE DEF Narrower
  <2> QED BY <1>2, <1>3, <1>5, <2>1, <2>2 DEF Shrunk
<1>7. \A i \in lv2 : \A t \in rs2[i].players : t \in rooms[i].players /\ t.pid # s.pid
  BY <1>1, <1>3, <1>4
<1> QED BY <1>6, <1>7 DEF rs2, lv2

LEMMA ReleaseNarrows ==
  ASSUME NEW r, NEW n, RoomSane(r, n), MaxId \in Nat, HostSeated(r)
  PROVE  LET new == ReleaseFailed(r)
         IN  /\ Narrower(new, r) /\ Clean(new) /\ HostSeated(new)
             /\ new.target = r.target /\ new.source = r.source /\ new.acked = r.acked
             /\ \A s \in new.players : \E t \in r.players : Like(s, t)
<1> DEFINE Left(s) == {p \in s.members : ~Failed(r, p)}
           stay == {s \in r.players : Left(s) # {}}
           R == {[s EXCEPT !.members = Left(s)] : s \in stay}
           told2 == r.notified \ {s.conn : s \in {t \in r.players : Left(t) = {}}}
           new == ReleaseFailed(r)
<1>1. new = [r EXCEPT !.players = R, !.notified = told2]
  BY DEF ReleaseFailed
<1>2. r \in Room /\ \A s \in r.players : s \in Search /\ Sane(s, n)
  BY DEF RoomSane, Sane
<1>3. ASSUME NEW s \in stay
      PROVE  LET u == [s EXCEPT !.members = Left(s)]
             IN  u \in Search /\ Like(u, s) /\ u.members = Left(s)
  BY <1>2 DEF Search, Like
<1> DEFINE f == [u \in R |-> CHOOSE s \in stay : u = [s EXCEPT !.members = Left(s)]]
<1>4. \A u \in R : f[u] \in stay /\ u = [f[u] EXCEPT !.members = Left(f[u])]
  OBVIOUS
<1>5. f \in [R -> r.players] /\ \A u, v \in R : f[u] = f[v] => u = v
  <2>1. f \in [R -> r.players]
    BY <1>4
  <2> HIDE DEF f, R
  <2> QED BY <1>4, <2>1
<1>6. \A u \in R : Like(u, f[u]) /\ u.members = Left(f[u])
  <2> SUFFICES ASSUME NEW u \in R PROVE Like(u, f[u]) /\ u.members = Left(f[u])
    OBVIOUS
  <2>1. f[u] \in stay /\ u = [f[u] EXCEPT !.members = Left(f[u])]
    BY <1>4
  <2> DEFINE s == f[u]
  <2> HIDE DEF s, stay
  <2>2. s \in stay /\ u = [s EXCEPT !.members = Left(s)]
    BY <2>1 DEF s
  <2>3. Like(u, s) /\ u.members = Left(s)
    BY <1>3, <2>2
  <2> QED BY <2>3 DEF s
<1>7. f \in Injection(R, r.players)
  BY <1>5 DEF Injection, IsInjective
<1>8. Party(r.players)
  BY RoomParty
<1> HIDE DEF f, R
<1>9. IsFiniteSet(R) /\ Size(R) <= Size(r.players)
  <2>1. \A u \in R : u.members \subseteq f[u].members
    BY <1>6 DEF Like
  <2> QED BY <1>7, <1>8, <2>1, SizeThinned DEF Party
<1>10. Thinned(R, r.players)
  BY <1>5, <1>6, <1>9 DEF Thinned
<1>11. R \subseteq Search /\ told2 \subseteq Conns
  BY <1>2, <1>6 DEF Like, Room
<1> HIDE DEF told2, new
<1>12. new \in Room
  BY <1>1, <1>2, <1>11 DEF Room
<1>13. /\ new.players = R /\ new.host = r.host /\ new.states = r.states
       /\ new.capacity = r.capacity /\ new.source = r.source /\ new.target = r.target
       /\ new.offers = r.offers /\ new.acked = r.acked
  BY <1>1, <1>2 DEF Room
<1>14. Clean(new)
  <2> SUFFICES ASSUME NEW u \in R, NEW p \in u.members PROVE ~Failed(new, p)
    BY <1>13 DEF Clean
  <2>1. ~Failed(r, p)
    BY <1>6
  <2> QED BY <1>13, <2>1 DEF Failed
<1>15. HostSeated(new)
  <2>1. PICK h \in r.players : h.id = r.host.id /\ h.conn = r.host.conn /\ r.host.pid \in h.members
    BY DEF HostSeated
  <2>2. r.host.pid \in Left(h)
    BY <2>1 DEF Failed
  <2> DEFINE u == [h EXCEPT !.members = Left(h)]
  <2>3. h \in stay /\ u \in R
    BY <2>1, <2>2 DEF R
  <2>4. Like(u, h) /\ u.members = Left(h)
    BY <1>3, <2>3
  <2> HIDE DEF u
  <2> QED BY <1>13, <2>1, <2>2, <2>3, <2>4 DEF HostSeated, Like
<1> HIDE DEF stay
<1>16. \A s \in new.players : \E t \in r.players : Like(s, t)
  BY <1>10, <1>13 DEF Thinned
<1>17. Narrower(new, r)
  BY <1>10, <1>12, <1>13 DEF Narrower
<1> QED BY <1>13, <1>14, <1>15, <1>16, <1>17 DEF new

(* A part of the queue is a shorter queue. *)
LEMMA TakingShorter ==
  ASSUME NEW q \in Seq(Search), NEW ks \in SUBSET DOMAIN q
  PROVE  /\ Shorter(Taking(q, ks), q)
         /\ \A k \in DOMAIN Taking(q, ks) : \E j \in ks : Taking(q, ks)[k] = q[j]
<1>1. Taking(q, ks) \in Seq(Search)
  BY TakingParts
<1>2. PICK f \in [DOMAIN Taking(q, ks) -> ks] :
              /\ \A n \in DOMAIN Taking(q, ks) : Taking(q, ks)[n] = q[f[n]]
              /\ \A m, n \in DOMAIN Taking(q, ks) : f[m] = f[n] => m = n
  BY TakingParts
<1>3. f \in [DOMAIN Taking(q, ks) -> DOMAIN q]
  BY <1>2
<1> QED BY <1>1, <1>2, <1>3 DEF Shorter

LEMMA SameShorter ==
  ASSUME NEW q \in Seq(Search)
  PROVE  Shorter(q, q)
<1> DEFINE f == [k \in DOMAIN q |-> k]
<1>1. f \in [DOMAIN q -> DOMAIN q] /\ \A k \in DOMAIN q : f[k] = k
  OBVIOUS
<1> HIDE DEF f
<1> QED BY <1>1 DEF Shorter

LEMMA ShrunkPresent ==
  ASSUME NEW rs, NEW lv, NEW n, RoomsSane(rs, lv, n), Arranged(rs, lv), NEW q, NEW up,
         Present(rs, lv, q, up),
         NEW rs2, NEW lv2, Shrunk(rs, lv, rs2, lv2), NEW q2, Shorter(q2, q)
  PROVE  Present(rs2, lv2, q2, up)
<1>1. ASSUME NEW i \in lv2, NEW s \in rs2[i].players PROVE s.conn \in up
  <2>1. i \in lv /\ Thinned(rs2[i].players, rs[i].players)
    BY ShrunkPlayers
  <2>2. PICK t \in rs[i].players : Like(s, t)
    BY <2>1 DEF Thinned
  <2> QED BY <2>1, <2>2 DEF Present, Like
<1>2. \A k \in DOMAIN q2 : q2[k].conn \in up
  BY DEF Shorter, Present
<1> QED BY <1>1, <1>2 DEF Present

-----------------------------------------------------------------------------
(* Occupancy, and the order of the candidates *)
LEMMA SeatedType ==
  ASSUME NEW r, NEW n, RoomSane(r, n), MaxId \in Nat
  PROVE  /\ Seated(r) \in Nat /\ Size(r.players) \in Nat /\ Seated(r) <= Size(r.players)
         /\ Clean(r) => Seated(r) = Size(r.players)
<1> DEFINE ps == {p \in Pids : ~Failed(r, p)}
<1>1. Party(r.players) /\ ps \in SUBSET Pids
  BY RoomParty
<1>2. Seated(r) = Seats(r.players, ps)
  BY DEF Seated
<1>3. ASSUME Clean(r) PROVE Seated(r) = Size(r.players)
  <2>1. {x \in r.players \X ps : x[2] \in x[1].members} = {x \in r.players \X Pids : x[2] \in x[1].members}
    BY <1>3 DEF Clean
  <2> QED BY <1>2, <2>1 DEF Seats, Size
<1> HIDE DEF ps
<1> QED BY <1>1, <1>2, <1>3, SeatsType

LEMMA OccupancyType ==
  ASSUME NEW rs, NEW lv, NEW n, RoomsSane(rs, lv, n), NEW i \in lv, Linked(rs, lv, i)
  PROVE  /\ Occupancy(rs, i) \in Nat
         /\ Occupancy(rs, i) <= Size(rs[i].players) + Size(Coming(rs, i))
         /\ Clean(rs[i]) /\ rs[i].source = NoRoom => Occupancy(rs, i) = Size(rs[i].players)
<1>1. MaxId \in Nat /\ i \in DOMAIN rs /\ \A j \in DOMAIN rs : RoomSane(rs[j], n)
  BY DEF RoomsSane
<1>2. /\ Seated(rs[i]) \in Nat /\ Size(rs[i].players) \in Nat /\ Seated(rs[i]) <= Size(rs[i].players)
      /\ Clean(rs[i]) => Seated(rs[i]) = Size(rs[i].players)
  BY <1>1, SeatedType
<1>3. CASE rs[i].source = NoRoom
  <2>1. Occupancy(rs, i) = Seated(rs[i]) + 0 /\ Coming(rs, i) = {}
    BY <1>3 DEF Occupancy, Coming
  <2> QED BY <1>2, <2>1, SizeNone
<1>4. CASE rs[i].source # NoRoom
  <2> DEFINE src == rs[rs[i].source]
  <2>1. RoomSane(src, n)
    BY <1>1, <1>4 DEF Linked
  <2>2. Seated(src) \in Nat /\ Size(src.players) \in Nat /\ Seated(src) <= Size(src.players)
    BY <1>1, <2>1, SeatedType
  <2>3. Occupancy(rs, i) = Seated(rs[i]) + Seated(src) /\ Coming(rs, i) = src.players
    BY <1>4 DEF Occupancy, Coming
  <2> HIDE DEF src
  <2> QED BY <1>2, <1>4, <2>2, <2>3
<1> QED BY <1>3, <1>4

(* Of any rooms one comes before the others. *)
LEMMA FirstRoom ==
  ASSUME NEW rs, NEW lv, NEW n, RoomsSane(rs, lv, n), Arranged(rs, lv),
         NEW T \in SUBSET lv, T # {}
  PROVE  \E k \in T : \A j \in T \ {k} : Before(rs, k, j)
<1> DEFINE occ == [i \in lv |-> Occupancy(rs, i)]
           First(U) == U = {} \/ \E k \in U : \A j \in U \ {k} : Before(rs, k, j)
           G == {U \in SUBSET T : First(U)}
<1>1. \A i \in lv : occ[i] \in Nat /\ occ[i] = Occupancy(rs, i)
  BY OccupancyType DEF Arranged
<1>2. \A i, j \in lv : Before(rs, i, j) <=> (occ[i] > occ[j] \/ (occ[i] = occ[j] /\ i < j))
  BY <1>1 DEF Before
<1>3. lv \subseteq 1..n /\ n \in Nat
  BY DEF RoomsSane
<1>4. IsFiniteSet(T)
  <2>1. IsFiniteSet(1..n) /\ T \in SUBSET (1..n)
    BY <1>3, FS_Interval
  <2> QED BY <2>1, FS_Subset
<1> HIDE DEF occ
<1>5. \A i, j, k \in lv : Before(rs, i, j) /\ Before(rs, j, k) => Before(rs, i, k)
  <2> SUFFICES ASSUME NEW i \in lv, NEW j \in lv, NEW k \in lv, Before(rs, i, j), Before(rs, j, k)
               PROVE  Before(rs, i, k)
    OBVIOUS
  <2>1. occ[i] \in Nat /\ occ[j] \in Nat /\ occ[k] \in Nat /\ i \in Nat /\ j \in Nat /\ k \in Nat
    BY <1>1, <1>3
  <2>2. /\ occ[i] > occ[j] \/ (occ[i] = occ[j] /\ i < j)
        /\ occ[j] > occ[k] \/ (occ[j] = occ[k] /\ j < k)
    BY <1>2
  <2>3. occ[i] > occ[k] \/ (occ[i] = occ[k] /\ i < k)
    BY <2>1, <2>2
  <2> QED BY <1>2, <2>3
<1>6. \A i, j \in lv : i # j => Before(rs, i, j) \/ Before(rs, j, i)
  <2> SUFFICES ASSUME NEW i \in lv, NEW j \in lv, i # j PROVE Before(rs, i, j) \/ Before(rs, j, i)
    OBVIOUS
  <2>1. occ[i] \in Nat /\ occ[j] \in Nat /\ i \in Nat /\ j \in Nat
    BY <1>1, <1>3
  <2>2. \/ occ[i] > occ[j] \/ (occ[i] = occ[j] /\ i < j)
        \/ occ[j] > occ[i] \/ (occ[j] = occ[i] /\ j < i)
    BY <2>1
  <2> QED BY <1>2, <2>2
<1>7. ASSUME NEW U \in SUBSET T, NEW x \in T, U \in G, x \notin U PROVE U \cup {x} \in G
  <2>1. CASE U = {}
    BY <2>1
  <2>2. CASE U # {}
    <3>1. PICK k \in U : \A j \in U \ {k} : Before(rs, k, j)
      BY <1>7, <2>2
    <3>2. CASE Before(rs, k, x)
      <4>1. \A j \in (U \cup {x}) \ {k} : Before(rs, k, j)
        BY <3>1, <3>2
      <4> QED BY <3>1, <4>1
    <3>3. CASE Before(rs, x, k)
      <4>1. \A j \in (U \cup {x}) \ {x} : Before(rs, x, j)
        BY <1>5, <3>1, <3>3
      <4> QED BY <4>1
    <3> QED BY <1>6, <1>7, <3>1, <3>2, <3>3
  <2> QED BY <2>1, <2>2
<1>8. T \in G
  <2>1. {} \in G
    OBVIOUS
  <2> HIDE DEF G
  <2> QED BY <1>4, <1>7, <2>1, OverFinite
<1> QED BY <1>8

-----------------------------------------------------------------------------
(* A new version of room y makes good that its host was not yet told of all *)
(* the players.                                                             *)
Ready(rs, lv, q, t, n, up, x, y) ==
    /\ RoomsSane(rs, lv, n)
    /\ \A i \in lv : HostSeated(rs[i]) /\ Linked(rs, lv, i) /\ Fits(rs, i)
    /\ \A i \in lv \ {y} : Offered(rs, i)
    /\ \A i \in lv \ {x} : Calm(rs, i)
    /\ Alone(rs, lv)
    /\ Aside(rs, lv, q)
    /\ Told(rs, lv, q, t, n)
    /\ Present(rs, lv, q, up)

LEMMA RenewParts ==
  ASSUME NEW rs, NEW i \in DOMAIN rs, rs = [j \in DOMAIN rs |-> rs[j]], rs[i] \in Room, MaxId \in Nat,
         Coming(rs, i) \subseteq Search
  PROVE  LET rs2 == Renew(rs, i)
         IN  /\ DOMAIN rs2 = DOMAIN rs /\ rs2 = [j \in DOMAIN rs2 |-> rs2[j]]
             /\ \A j \in DOMAIN rs \ {i} : rs2[j] = rs[j]
             /\ rs2[i] \in Room /\ rs2[i].host = rs[i].host /\ rs2[i].players = rs[i].players
             /\ rs2[i].states = rs[i].states /\ rs2[i].capacity = rs[i].capacity
             /\ rs2[i].source = rs[i].source /\ rs2[i].target = rs[i].target
             /\ rs2[i].acked = rs[i].acked /\ rs2[i].open = rs[i].open
             /\ rs2[i].offers = {{s.id : s \in {p \in rs[i].players \cup Coming(rs, i) :
                                                  \E m \in p.members : ~Failed(rs[i], m)}}}
<1> DEFINE rs1 == [rs EXCEPT ![i] = Bump(@)]
           b == [rs[i] EXCEPT !.offers = {}]
           E == Expected(rs1, i)
           rs2 == Renew(rs, i)
<1>1. rs1 = [rs EXCEPT ![i] = b] /\ DOMAIN rs1 = DOMAIN rs /\ rs1[i] = b
      /\ \A j \in DOMAIN rs \ {i} : rs1[j] = rs[j]
  BY DEF Bump
<1>2. /\ b \in Room /\ b.players = rs[i].players /\ b.host = rs[i].host /\ b.states = rs[i].states
      /\ b.source = rs[i].source /\ b.target = rs[i].target /\ b.capacity = rs[i].capacity
      /\ b.acked = rs[i].acked /\ b.open = rs[i].open /\ b.offers = {}
  BY DEF Room
<1> HIDE DEF b
<1>3. Coming(rs1, i) = Coming(rs, i)
  <2>1. CASE rs[i].source = NoRoom
    BY <1>1, <1>2, <2>1 DEF Coming
  <2>2. CASE rs[i].source = i
    BY <1>1, <1>2, <2>2 DEF Coming
  <2>3. CASE rs[i].source # NoRoom /\ rs[i].source \in DOMAIN rs \ {i}
    <3>1. rs1[rs[i].source] = rs[rs[i].source]
      BY <1>1, <2>3
    <3> QED BY <1>1, <1>2, <2>3, <3>1 DEF Coming
  <2>4. CASE rs[i].source # NoRoom /\ rs[i].source \notin DOMAIN rs
    <3>1. rs1[rs[i].source] = rs[rs[i].source]
      BY <1>1, <2>4
    <3> QED BY <1>1, <1>2, <2>4, <3>1 DEF Coming
  <2> QED BY <2>1, <2>2, <2>3, <2>4
<1> DEFINE heard == {p \in rs[i].players \cup Coming(rs, i) : \E m \in p.members : ~Failed(rs[i], m)}
<1>4. E = {s.id : s \in heard}
  <2>1. \A m : Failed(rs1[i], m) <=> Failed(rs[i], m)
    BY <1>1, <1>2 DEF Failed
  <2>2. rs1[i].players = rs[i].players
    BY <1>1, <1>2
  <2> HIDE DEF rs1
  <2> QED BY <1>3, <2>1, <2>2 DEF Expected
<1>5. heard \subseteq Search
  BY RoomParts
<1>6. E \subseteq 1..MaxId
  <2> HIDE DEF heard, E
  <2> QED BY <1>4, <1>5, SearchParts
<1>7. rs2 = [rs1 EXCEPT ![i].offers = @ \cup {E}]
  BY DEF Renew, Announce
<1> HIDE DEF rs1, E, heard, rs2
<1>8. rs2[i] = [b EXCEPT !.offers = {E}] /\ DOMAIN rs2 = DOMAIN rs
      /\ \A j \in DOMAIN rs \ {i} : rs2[j] = rs[j]
  BY <1>1, <1>2, <1>7
<1>9. rs2 = [j \in DOMAIN rs2 |-> rs2[j]]
  BY <1>1, <1>7
<1>10. rs2[i] \in Room /\ rs2[i].offers = {E}
  BY <1>2, <1>6, <1>8 DEF Room
<1>11. /\ rs2[i].host = rs[i].host /\ rs2[i].players = rs[i].players
       /\ rs2[i].states = rs[i].states /\ rs2[i].capacity = rs[i].capacity
       /\ rs2[i].source = rs[i].source /\ rs2[i].target = rs[i].target
       /\ rs2[i].acked = rs[i].acked /\ rs2[i].open = rs[i].open
  BY <1>2, <1>8 DEF Room
<1> QED BY <1>4, <1>8, <1>9, <1>10, <1>11 DEF rs2, heard

LEMMA RenewSound ==
  ASSUME NEW rs, NEW lv, NEW q, NEW t, NEW n, NEW up, NEW x, NEW y \in lv,
         Ready(rs, lv, q, t, n, up, x, y)
  PROVE  Sound(Renew(rs, y), lv, q, t, n, up, x)
<1> DEFINE rs2 == Renew(rs, y)
<1>1. /\ RoomsSane(rs, lv, n) /\ Alone(rs, lv) /\ Aside(rs, lv, q) /\ Told(rs, lv, q, t, n)
      /\ Present(rs, lv, q, up)
      /\ \A i \in lv : HostSeated(rs[i]) /\ Linked(rs, lv, i) /\ Fits(rs, i)
  BY DEF Ready
<1>2. /\ MaxId \in Nat /\ y \in DOMAIN rs /\ lv \subseteq DOMAIN rs /\ rs = [j \in DOMAIN rs |-> rs[j]]
      /\ \A j \in DOMAIN rs : RoomSane(rs[j], n)
  BY <1>1 DEF RoomsSane
<1>3. Coming(rs, y) \subseteq Search
  <2>1. rs[y].source # NoRoom => rs[rs[y].source].players \subseteq Search
    BY <1>1, <1>2, RoomParts DEF Linked, RoomSane
  <2> QED BY <2>1 DEF Coming
<1>4. /\ DOMAIN rs2 = DOMAIN rs /\ rs2 = [j \in DOMAIN rs2 |-> rs2[j]]
      /\ \A j \in DOMAIN rs \ {y} : rs2[j] = rs[j]
      /\ rs2[y] \in Room /\ rs2[y].host = rs[y].host /\ rs2[y].players = rs[y].players
      /\ rs2[y].states = rs[y].states /\ rs2[y].capacity = rs[y].capacity
      /\ rs2[y].source = rs[y].source /\ rs2[y].target = rs[y].target
      /\ rs2[y].acked = rs[y].acked
      /\ rs2[y].offers = {{s.id : s \in {p \in rs[y].players \cup Coming(rs, y) :
                                           \E m \in p.members : ~Failed(rs[y], m)}}}
  BY <1>2, <1>3, RenewParts DEF RoomSane
<1> HIDE DEF rs2
<1>5. \A j \in DOMAIN rs : /\ rs2[j].host = rs[j].host /\ rs2[j].players = rs[j].players
                           /\ rs2[j].states = rs[j].states /\ rs2[j].capacity = rs[j].capacity
                           /\ rs2[j].source = rs[j].source /\ rs2[j].target = rs[j].target
                           /\ rs2[j].acked = rs[j].acked /\ rs2[j] \in Room
  <2>1. \A j \in DOMAIN rs : rs[j] \in Room
    BY <1>2 DEF RoomSane
  <2> QED BY <1>4, <2>1
<1>6. RoomsSane(rs2, lv, n)
  <2>1. \A j \in DOMAIN rs : RoomSane(rs2[j], n)
    BY <1>2, <1>5 DEF RoomSane
  <2> QED BY <1>1, <1>4, <2>1 DEF RoomsSane
<1>7. \A i \in lv : Coming(rs2, i) = Coming(rs, i)
  BY <1>1, <1>2, <1>5 DEF Coming, Linked
<1>8. ASSUME NEW i \in lv PROVE HostSeated(rs2[i]) /\ Linked(rs2, lv, i) /\ Fits(rs2, i)
  <2>1. HostSeated(rs2[i])
    BY <1>1, <1>2, <1>5 DEF HostSeated
  <2>2. Linked(rs, lv, i) /\ Fits(rs, i) /\ i \in DOMAIN rs
    BY <1>1, <1>2
  <2>3. Linked(rs2, lv, i)
    BY <1>2, <1>4, <1>5, <2>2 DEF Linked
  <2>4. Fits(rs2, i)
    BY <1>5, <1>7, <2>2 DEF Fits, Linked
  <2> QED BY <2>1, <2>3, <2>4
<1>9. ASSUME NEW i \in lv PROVE Offered(rs2, i)
  <2>1. CASE i = y
    <3> SUFFICES ASSUME NEW o \in rs2[y].offers, NEW s \in rs2[y].players \cup Coming(rs2, y),
                        NEW m \in s.members, ~Failed(rs2[y], m)
                 PROVE  s.id \in o
      BY <2>1 DEF Offered
    <3>1. s \in rs[y].players \cup Coming(rs, y) /\ ~Failed(rs[y], m)
      BY <1>4, <1>7 DEF Failed
    <3> QED BY <1>4, <3>1
  <2>2. CASE i # y
    <3>1. Offered(rs, i) /\ rs2[i] = rs[i]
      BY <1>2, <1>4, <2>2 DEF Ready
    <3> QED BY <1>7, <3>1 DEF Offered
  <2> QED BY <2>1, <2>2
<1>10. ASSUME NEW i \in lv \ {x} PROVE Calm(rs2, i)
  <2>1. Calm(rs, i)
    BY DEF Ready
  <2> QED BY <1>2, <1>5, <1>7, <2>1 DEF Calm, Clean, Failed
<1>11. Alone(rs2, lv) /\ Aside(rs2, lv, q) /\ Told(rs2, lv, q, t, n) /\ Present(rs2, lv, q, up)
  <2>1. \A i \in lv : rs2[i].players = rs[i].players
    BY <1>2, <1>5
  <2>2. \A i \in lv : Acked(rs2[i], t) <=> Acked(rs[i], t)
    BY <1>2, <1>5 DEF Acked
  <2>3. Alone(rs2, lv)
    BY <1>1, <2>1 DEF Alone
  <2>4. Aside(rs2, lv, q)
    BY <1>1, <2>1 DEF Aside
  <2>5. Told(rs2, lv, q, t, n)
    BY <1>1, <2>2 DEF Told
  <2>6. Present(rs2, lv, q, up)
    BY <1>1, <2>1 DEF Present
  <2> QED BY <2>3, <2>4, <2>5, <2>6
<1>12. Arranged(rs2, lv)
  BY <1>8, <1>9 DEF Arranged
<1> QED BY <1>6, <1>10, <1>11, <1>12 DEF Sound, rs2

LEMMA CountGrows ==
  ASSUME NEW rs, NEW lv, NEW q, NEW t, NEW n, NEW up, NEW x, Sound(rs, lv, q, t, n, up, x),
         NEW n2 \in n..MaxId
  PROVE  Sound(rs, lv, q, t, n2, up, x)
<1>1. RoomsSane(rs, lv, n) /\ Told(rs, lv, q, t, n)
  BY DEF Sound
<1>2. MaxId \in Nat /\ n \in Nat /\ n2 \in Nat /\ n <= n2 /\ n2 \in 0..MaxId /\ 1..n \subseteq 1..n2
  BY <1>1 DEF RoomsSane
<1>3. \A s : Sane(s, n) => Sane(s, n2)
  BY <1>2, SearchParts DEF Sane
<1>4. \A r : RoomSane(r, n) => RoomSane(r, n2)
  BY <1>2, <1>3 DEF RoomSane
<1>5. RoomsSane(rs, lv, n2)
  BY <1>1, <1>2, <1>4 DEF RoomsSane
<1>6. Told(rs, lv, q, t, n2)
  BY <1>1, <1>2, <1>3 DEF Told
<1> QED BY <1>5, <1>6 DEF Sound

LEMMA SameShrunk ==
  ASSUME NEW rs, NEW lv, NEW n, RoomsSane(rs, lv, n), Arranged(rs, lv)
  PROVE  Shrunk(rs, lv, rs, lv)
BY NarrowerSame DEF RoomsSane, Arranged, Linked, Shrunk

LEMMA SeatParts ==
  ASSUME NEW r, NEW n, RoomSane(r, n), MaxId \in Nat, NEW ss \in SUBSET Search, IsFiniteSet(ss)
  PROVE  LET new == Seat(r, ss)
         IN  /\ new \in Room /\ new.players = r.players \cup ss
             /\ new.host = r.host /\ new.source = r.source /\ new.target = r.target
             /\ new.offers = r.offers /\ new.acked = r.acked /\ new.open = r.open
             /\ \A p \in Pids : new.states[p] = IF p \in Members(ss) THEN 0 ELSE r.states[p]
             /\ new.capacity <= r.capacity /\ \A s \in ss : new.capacity <= s.max
             /\ new.capacity = r.capacity \/ \E s \in ss : new.capacity = s.max
             /\ new.capacity \in Nat
<1> DEFINE slots == {r.capacity} \cup {s.max : s \in ss}
           cap == Min(slots)
           f == Forget(r.states, Members(ss))
           P == r.players \cup ss
           new == Seat(r, ss)
<1>1. r \in Room /\ r.capacity \in 1..8 /\ r.players \subseteq Search /\ r.states \in [Pids -> {0, 2, 3}]
  BY RoomParts DEF RoomSane
<1>2. \A s \in ss : s.max \in 1..8
  BY SearchParts
<1>3. slots \subseteq 1..8 /\ slots # {} /\ IsFiniteSet(slots) /\ slots \in SUBSET Nat
  <2>1. slots \subseteq 1..8
    BY <1>1, <1>2
  <2>2. IsFiniteSet(1..8)
    <3>1. 1 \in Int /\ 8 \in Int
      OBVIOUS
    <3> QED BY <3>1, FS_Interval
  <2>3. IsFiniteSet(slots)
    BY <2>1, <2>2, FS_Subset
  <2> QED BY <2>1, <2>3
<1>4. cap \in slots /\ \A y \in slots : cap <= y
  BY <1>3, Extremes
<1>5. cap \in 1..8 /\ cap \in Nat /\ cap <= r.capacity /\ (\A s \in ss : cap <= s.max)
      /\ (cap = r.capacity \/ \E s \in ss : cap = s.max)
  <2> HIDE DEF cap
  <2> QED BY <1>3, <1>4
<1>6. f \in [Pids -> {0, 2, 3}] /\ \A p \in Pids : f[p] = IF p \in Members(ss) THEN 0 ELSE r.states[p]
  BY <1>1 DEF Forget
<1>7. new = [r EXCEPT !.players = P, !.states = f, !.capacity = cap]
  BY DEF Seat
<1>8. P \subseteq Search
  BY <1>1
<1> HIDE DEF cap, f, P, new
<1>9. /\ new \in Room /\ new.players = P /\ new.states = f /\ new.capacity = cap
      /\ new.host = r.host /\ new.source = r.source /\ new.target = r.target
      /\ new.offers = r.offers /\ new.acked = r.acked /\ new.open = r.open
  BY <1>1, <1>5, <1>6, <1>7, <1>8 DEF Room
<1> QED BY <1>5, <1>6, <1>9 DEF new, P

(* Searches that are nowhere else are seated where there is room for them.  *)
LEMMA SeatSound ==
  ASSUME NEW rs, NEW lv, NEW q, NEW t, NEW n, NEW up, Sound(rs, lv, q, t, n, up, NoRoom),
         NEW i \in lv, rs[i].source = NoRoom, rs[i].target = NoRoom,
         NEW ss, IsFiniteSet(ss),
         \A s \in ss : Sane(s, n) /\ s.id \notin t /\ s.conn \in up,
         \A s, u \in ss : s.pid = u.pid <=> s.id = u.id,
         \A s \in ss : \A j \in lv : \A u \in rs[j].players : s.pid # u.pid /\ s.id # u.id,
         \A s \in ss : \A k \in DOMAIN q : q[k].pid # s.pid /\ q[k].id # s.id,
         Size(rs[i].players \cup ss) <= rs[i].capacity,
         \A s \in ss : Size(rs[i].players \cup ss) <= s.max
  PROVE  Sound(Renew([rs EXCEPT ![i] = Seat(@, ss)], i), lv, q, t, n, up, NoRoom)
<1> DEFINE new == Seat(rs[i], ss)
           rs1 == [rs EXCEPT ![i] = new]
<1>1. /\ RoomsSane(rs, lv, n) /\ Arranged(rs, lv) /\ Alone(rs, lv) /\ Aside(rs, lv, q)
      /\ Told(rs, lv, q, t, n) /\ Present(rs, lv, q, up)
      /\ \A j \in lv : Calm(rs, j)
  BY CtrAssumption DEF Sound, RoomsSane
<1>2. /\ MaxId \in Nat /\ n \in 0..MaxId /\ i \in DOMAIN rs /\ lv \subseteq DOMAIN rs
      /\ DOMAIN rs \subseteq 1..n /\ rs = [j \in DOMAIN rs |-> rs[j]]
      /\ \A j \in DOMAIN rs : RoomSane(rs[j], n)
  BY <1>1 DEF RoomsSane
<1>3. ss \subseteq Search
  BY DEF Sane
<1>4. /\ new \in Room /\ new.players = rs[i].players \cup ss
      /\ new.host = rs[i].host /\ new.source = NoRoom /\ new.target = NoRoom
      /\ new.offers = rs[i].offers /\ new.acked = rs[i].acked
      /\ \A p \in Pids : new.states[p] = IF p \in Members(ss) THEN 0 ELSE rs[i].states[p]
      /\ new.capacity = rs[i].capacity \/ \E s \in ss : new.capacity = s.max
  BY <1>2, <1>3, SeatParts
<1> HIDE DEF new
<1>5. DOMAIN rs1 = DOMAIN rs /\ rs1[i] = new /\ rs1 = [j \in DOMAIN rs1 |-> rs1[j]]
      /\ \A j \in DOMAIN rs \ {i} : rs1[j] = rs[j]
  BY <1>2
<1> HIDE DEF rs1
<1>6. \A j \in DOMAIN rs : rs1[j].source = rs[j].source /\ rs1[j].target = rs[j].target
  BY <1>4, <1>5
<1>7. RoomsSane(rs1, lv, n)
  <2>1. RoomSane(new, n)
    <3>1. IsFiniteSet(new.players)
      <4>1. IsFiniteSet(rs[i].players)
        BY <1>2 DEF RoomSane
      <4>2. IsFiniteSet(rs[i].players \cup ss)
        BY <4>1, FS_Union
      <4> QED BY <1>4, <4>2
    <3>2. \A s \in new.players : Sane(s, n)
      BY <1>2, <1>4 DEF RoomSane
    <3> QED BY <1>2, <1>4, <3>1, <3>2 DEF RoomSane
  <2>2. \A j \in DOMAIN rs : RoomSane(rs1[j], n)
    BY <1>2, <1>5, <2>1
  <2> QED BY <1>1, <1>5, <2>2 DEF RoomsSane
<1>8. \A j \in lv : rs[j].source # i
  BY <1>1, CtrAssumption, <1>2 DEF Arranged, Linked
<1>9. \A j \in lv : Coming(rs1, j) = Coming(rs, j)
  <2> SUFFICES ASSUME NEW j \in lv PROVE Coming(rs1, j) = Coming(rs, j)
    OBVIOUS
  <2>1. rs1[j].source = rs[j].source
    BY <1>2, <1>6
  <2>2. rs[j].source # NoRoom => rs1[rs[j].source] = rs[rs[j].source]
    BY <1>1, <1>5, <1>8 DEF Arranged, Linked
  <2> QED BY <2>1, <2>2 DEF Coming
<1>10. Coming(rs, i) = {}
  BY DEF Coming
<1>11. ASSUME NEW j \in lv PROVE HostSeated(rs1[j]) /\ Linked(rs1, lv, j) /\ Fits(rs1, j)
  <2>1. HostSeated(rs[j]) /\ Linked(rs, lv, j) /\ Fits(rs, j) /\ j \in DOMAIN rs
    BY <1>1, <1>2 DEF Arranged
  <2>2. Linked(rs1, lv, j)
    BY <1>2, <1>5, <1>6, <2>1 DEF Linked
  <2>3. CASE j = i
    <3>1. HostSeated(rs1[j])
      BY <1>4, <1>5, <2>1, <2>3 DEF HostSeated
    <3>2. Size(new.players) <= new.capacity
      BY <1>4
    <3>3. Size(new.players) \in Nat
      BY <1>2, <1>5, <1>7, SeatedType DEF RoomsSane
    <3>4. Fits(rs1, i)
      <4>1. /\ rs1[i].players = new.players /\ Coming(rs1, i) = {}
            /\ rs1[i].capacity = new.capacity /\ rs1[i].source = NoRoom
        BY <1>4, <1>5, <1>9, <1>10
      <4>2. Size(new.players) + Size({}) = Size(new.players)
        BY <3>3, SizeNone
      <4> QED BY <3>2, <4>1, <4>2 DEF Fits
    <3> QED BY <2>2, <2>3, <3>1, <3>4
  <2>4. CASE j # i
    <3>1. rs1[j] = rs[j]
      BY <1>5, <2>1, <2>4
    <3>2. rs[j].source # NoRoom => rs1[rs[j].source] = rs[rs[j].source]
      BY <1>1, <1>5, <1>8, <2>1 DEF Linked
    <3>3. Fits(rs1, j)
      BY <1>9, <2>1, <3>1, <3>2 DEF Fits
    <3> QED BY <2>1, <2>2, <3>1, <3>3
  <2> QED BY <2>3, <2>4
<1>12. ASSUME NEW j \in lv \ {i} PROVE Offered(rs1, j)
  <2>1. Offered(rs, j) /\ rs1[j] = rs[j]
    BY <1>1, <1>2, <1>5 DEF Arranged
  <2> QED BY <1>9, <2>1 DEF Offered
<1>13. ASSUME NEW j \in lv PROVE Calm(rs1, j)
  <2>1. Calm(rs, j)
    BY <1>1
  <2>2. CASE j # i
    <3>1. rs1[j] = rs[j]
      BY <1>2, <1>5, <2>2
    <3> QED BY <1>9, <2>1, <3>1 DEF Calm
  <2>3. CASE j = i
    <3>1. ASSUME NEW s \in new.players, NEW p \in s.members PROVE ~Failed(new, p)
      <4>1. s \in Search /\ p \in Pids
        BY <1>4, RoomParts, <1>2, SearchParts
      <4>2. CASE p \in Members(ss)
        BY <1>4, <4>1, <4>2 DEF Failed
      <4>3. CASE p \notin Members(ss)
        <5>1. s \in rs[i].players
          BY <1>4, <4>3 DEF Members
        <5>2. ~Failed(rs[i], p)
          BY <2>1, <2>3, <5>1 DEF Calm, Clean
        <5> QED BY <1>4, <4>1, <4>3, <5>2 DEF Failed
      <4> QED BY <4>2, <4>3
    <3> QED BY <1>5, <1>9, <1>10, <2>3, <3>1 DEF Calm, Clean
  <2> QED BY <2>2, <2>3
<1>14. \A j \in lv : rs1[j].players = IF j = i THEN rs[i].players \cup ss ELSE rs[j].players
  BY <1>2, <1>4, <1>5
<1>15. Alone(rs1, lv)
  <2> SUFFICES ASSUME NEW j \in lv, NEW k \in lv, NEW s \in rs1[j].players, NEW u \in rs1[k].players
               PROVE  (s.pid = u.pid <=> s.id = u.id) /\ (s.pid = u.pid => j = k)
    BY DEF Alone
  <2>1. (s \in rs[j].players \/ (j = i /\ s \in ss)) /\ (u \in rs[k].players \/ (k = i /\ u \in ss))
    BY <1>14
  <2>2. CASE s \in rs[j].players /\ u \in rs[k].players
    BY <1>1, <2>2 DEF Alone
  <2>3. CASE s \in rs[j].players /\ k = i /\ u \in ss
    BY <2>3
  <2>4. CASE j = i /\ s \in ss /\ u \in rs[k].players
    BY <2>4
  <2>5. CASE j = i /\ s \in ss /\ k = i /\ u \in ss
    BY <2>5
  <2> QED BY <2>1, <2>2, <2>3, <2>4, <2>5
<1>16. Aside(rs1, lv, q)
  BY <1>1, <1>14 DEF Aside
<1>17. Told(rs1, lv, q, t, n)
  <2>1. ASSUME NEW j \in lv PROVE Acked(rs1[j], t)
    <3>1. Acked(rs[j], t)
      BY <1>1 DEF Told
    <3>2. CASE j # i
      BY <1>2, <1>5, <3>1, <3>2
    <3>3. CASE j = i
      BY <1>4, <1>5, <3>1, <3>3 DEF Acked
    <3> QED BY <3>2, <3>3
  <2> QED BY <1>1, <2>1 DEF Told
<1>18. Present(rs1, lv, q, up)
  BY <1>1, <1>14 DEF Present
<1>19. Ready(rs1, lv, q, t, n, up, NoRoom, i)
  BY <1>7, <1>11, <1>12, <1>13, <1>15, <1>16, <1>17, <1>18 DEF Ready
<1>20. Sound(Renew(rs1, i), lv, q, t, n, up, NoRoom)
  BY <1>19, RenewSound
<1> QED BY <1>20 DEF rs1, new

-----------------------------------------------------------------------------
(* The queue and new rooms *)
LEMMA AppendSound ==
  ASSUME NEW rs, NEW lv, NEW q, NEW t, NEW n, NEW up, Sound(rs, lv, q, t, n, up, NoRoom),
         NEW s, Sane(s, n), s.pid \in s.members, s.id \notin t, s.conn \in up,
         \A k \in DOMAIN q : q[k].pid # s.pid /\ q[k].id # s.id,
         \A j \in lv : \A u \in rs[j].players : s.pid # u.pid /\ s.id # u.id
  PROVE  Sound(rs, lv, Append(q, s), t, n, up, NoRoom)
<1> DEFINE q2 == Append(q, s)
<1>1. Aside(rs, lv, q) /\ Told(rs, lv, q, t, n) /\ Present(rs, lv, q, up)
  BY DEF Sound
<1>2. q \in Seq(Search) /\ s \in Search
  BY <1>1 DEF Told, Sane
<1>3. /\ q2 \in Seq(Search) /\ \A k \in DOMAIN q2 : q2[k] = s \/ (k \in DOMAIN q /\ q2[k] = q[k])
      /\ \A j, k \in DOMAIN q2 : j = k \/ j \in DOMAIN q \/ k \in DOMAIN q
      /\ \A k \in DOMAIN q2 : k \in DOMAIN q => q2[k] = q[k]
      /\ \A k \in DOMAIN q2 : k \notin DOMAIN q => q2[k] = s
  BY <1>2
<1> HIDE DEF q2
<1>4. Aside(rs, lv, q2)
  <2>1. ASSUME NEW j \in DOMAIN q2, NEW k \in DOMAIN q2, q2[j].pid = q2[k].pid \/ q2[j].id = q2[k].id
        PROVE  j = k
    <3>1. CASE j \in DOMAIN q /\ k \in DOMAIN q
      BY <1>1, <1>3, <2>1, <3>1 DEF Aside
    <3>2. CASE j \in DOMAIN q /\ k \notin DOMAIN q
      BY <1>3, <2>1, <3>2
    <3>3. CASE j \notin DOMAIN q /\ k \in DOMAIN q
      BY <1>3, <2>1, <3>3
    <3> QED BY <1>3, <3>1, <3>2, <3>3
  <2>2. ASSUME NEW k \in DOMAIN q2, NEW i \in lv, NEW u \in rs[i].players
        PROVE  q2[k].pid # u.pid /\ q2[k].id # u.id
    BY <1>1, <1>3 DEF Aside
  <2> QED BY <2>1, <2>2 DEF Aside
<1>5. Told(rs, lv, q2, t, n)
  BY <1>1, <1>3 DEF Told
<1>6. Present(rs, lv, q2, up)
  BY <1>1, <1>3 DEF Present
<1> QED BY <1>4, <1>5, <1>6 DEF Sound, q2

LEMMA GroupMaxParts ==
  ASSUME NEW ss \in SUBSET Search, MaxId \in Nat
  PROVE  GroupMax(ss) \in 1..8
<1> DEFINE slots == {8} \cup {s.max : s \in ss}
<1>1. slots \subseteq 1..8
  BY SearchParts
<1>2. IsFiniteSet(1..8)
  <2>1. 1 \in Int /\ 8 \in Int
    OBVIOUS
  <2> QED BY <2>1, FS_Interval
<1>3. slots \in SUBSET Nat /\ slots # {} /\ IsFiniteSet(slots)
  BY <1>1, <1>2, FS_Subset
<1>4. Min(slots) \in slots
  BY <1>3, Extremes
<1>5. GroupMax(ss) = Min(slots)
  BY DEF GroupMax
<1> HIDE DEF slots
<1> QED BY <1>1, <1>4, <1>5

LEMMA NewRoomParts ==
  ASSUME NEW q \in Seq(Search), NEW g \in SUBSET DOMAIN q, g # {}, MaxId \in Nat
  PROVE  LET ss == {q[k] : k \in g}
             r == NewRoom(q, g)
         IN  /\ r \in Room /\ r.players = ss /\ IsFiniteSet(ss) /\ Min(g) \in g
             /\ r.host = q[Min(g)] /\ r.capacity = GroupMax(ss) /\ r.states = [p \in Pids |-> 0]
             /\ r.source = NoRoom /\ r.target = NoRoom
             /\ r.offers = {{s.id : s \in ss}} /\ r.acked = {}
<1> DEFINE ss == {q[k] : k \in g}
           ids == {s.id : s \in ss}
           cap == GroupMax(ss)
           h == q[Min(g)]
           f == [p \in Pids |-> 0]
           r == NewRoom(q, g)
<1>1. IsFiniteSet(g) /\ g \in SUBSET Nat
  <2>1. DOMAIN q = 1..Len(q) /\ Len(q) \in Nat
    OBVIOUS
  <2>2. IsFiniteSet(1..Len(q))
    BY <2>1, FS_Interval
  <2> QED BY <2>1, <2>2, FS_Subset
<1>2. Min(g) \in g
  BY <1>1, Extremes
<1>3. IsFiniteSet(ss)
  BY <1>1, Image
<1>4. ss \subseteq Search /\ h \in Search
  BY <1>2
<1>5. cap \in 1..8
  BY <1>4, GroupMaxParts
<1>6. ids \subseteq 1..MaxId
  BY <1>4, SearchParts
<1>7. f \in [Pids -> {0, 2, 3}]
  OBVIOUS
<1>8. r = [host |-> h, players |-> ss, open |-> TRUE, states |-> f, capacity |-> cap,
           notified |-> {h.conn}, source |-> NoRoom, target |-> NoRoom,
           offers |-> {ids}, acked |-> {}]
  BY DEF NewRoom
<1>9. h.conn \in Conns
  BY <1>4, SearchParts
<1> HIDE DEF ss, ids, cap, h, f, r
<1>10. r \in Room
  BY <1>4, <1>5, <1>6, <1>7, <1>8, <1>9 DEF Room
<1>11. /\ r.players = ss /\ r.host = h /\ r.capacity = cap /\ r.states = f
       /\ r.source = NoRoom /\ r.target = NoRoom /\ r.offers = {ids} /\ r.acked = {}
  BY <1>8
<1> QED BY <1>2, <1>3, <1>10, <1>11 DEF ss, ids, cap, h, f, r

Formed(rs, q, g, i) == [j \in DOMAIN rs \cup {i} |-> IF j = i THEN NewRoom(q, g) ELSE rs[j]]

LEMMA FormSound ==
  ASSUME NEW rs, NEW lv, NEW q, NEW t, NEW n, NEW up, Sound(rs, lv, q, t, n, up, NoRoom),
         NEW g \in SUBSET DOMAIN q, g # {}, NEW i, i = n + 1, i <= MaxId,
         Size({q[k] : k \in g}) <= GroupMax({q[k] : k \in g})
  PROVE  Sound(Formed(rs, q, g, i), lv \cup {i}, Keep(q, g), t \cup {q[Min(g)].id}, i, up, NoRoom)
<1> DEFINE ss == {q[k] : k \in g}
           r == NewRoom(q, g)
           h == q[Min(g)]
           rs2 == [j \in DOMAIN rs \cup {i} |-> IF j = i THEN r ELSE rs[j]]
           lv2 == lv \cup {i}
           q2 == Keep(q, g)
           t2 == t \cup {h.id}
<1>1. MaxId \in Nat /\ n \in Nat /\ i \in n..MaxId /\ i \in Nat /\ i \in 0..MaxId /\ n \in 0..MaxId
  BY DEF Sound, RoomsSane
<1>2. Sound(rs, lv, q, t, i, up, NoRoom)
  BY <1>1, CountGrows
<1>3. /\ RoomsSane(rs, lv, i) /\ Arranged(rs, lv) /\ Alone(rs, lv) /\ Aside(rs, lv, q)
      /\ Told(rs, lv, q, t, i) /\ Present(rs, lv, q, up)
      /\ \A j \in lv : Calm(rs, j)
  BY <1>2, CtrAssumption DEF Sound, RoomsSane
<1>4. /\ lv \subseteq DOMAIN rs /\ DOMAIN rs \subseteq 1..n /\ i \notin DOMAIN rs /\ i \notin lv
      /\ \A j \in DOMAIN rs : rs[j].source # i /\ rs[j].target # i
  <2>1. RoomsSane(rs, lv, n)
    BY DEF Sound
  <2>2. i \notin 1..n /\ NoRoom # i
    BY <1>1, CtrAssumption
  <2> QED BY <2>1, <2>2 DEF RoomsSane, RoomSane
<1>5. q \in Seq(Search)
  BY <1>3 DEF Told
<1>6. /\ r \in Room /\ r.players = ss /\ IsFiniteSet(ss) /\ Min(g) \in g
      /\ r.host = h /\ r.capacity = GroupMax(ss) /\ r.states = [p \in Pids |-> 0]
      /\ r.source = NoRoom /\ r.target = NoRoom
      /\ r.offers = {{s.id : s \in ss}} /\ r.acked = {}
  BY <1>1, <1>5, NewRoomParts
<1>7. ASSUME NEW s \in ss
      PROVE  Sane(s, i) /\ s.id \notin t /\ s.pid \in s.members /\ s.conn \in up
  BY <1>3 DEF Told, Present
<1>8. h \in ss
  BY <1>6
<1>9. DOMAIN rs2 = DOMAIN rs \cup {i} /\ rs2[i] = r /\ rs2 = [j \in DOMAIN rs2 |-> rs2[j]]
      /\ \A j \in DOMAIN rs : rs2[j] = rs[j]
  BY <1>4
<1>10. \A s, u \in ss : (s.pid = u.pid <=> s.id = u.id)
  BY <1>3 DEF Aside
<1>11. \A s \in ss : \A j \in lv : \A u \in rs[j].players : s.pid # u.pid /\ s.id # u.id
  BY <1>3 DEF Aside
<1>12. /\ Shorter(q2, q) /\ \A k \in DOMAIN q2 : \E j \in DOMAIN q \ g : q2[k] = q[j]
  <2>1. DOMAIN q \ g \in SUBSET DOMAIN q /\ q2 = Taking(q, DOMAIN q \ g)
    BY DEF Keep
  <2> HIDE DEF q2
  <2> QED BY <1>5, <2>1, TakingShorter
<1>13. \A k \in DOMAIN q2 : \A s \in ss : q2[k].pid # s.pid /\ q2[k].id # s.id
  <2> SUFFICES ASSUME NEW k \in DOMAIN q2, NEW l \in g PROVE q2[k].pid # q[l].pid /\ q2[k].id # q[l].id
    BY DEF ss
  <2>1. PICK j \in DOMAIN q \ g : q2[k] = q[j]
    BY <1>12
  <2> QED BY <1>3, <2>1 DEF Aside
<1>14. Shrunk(rs, lv, rs, lv)
  BY <1>3, SameShrunk
<1>15. Present(rs, lv, q2, up)
  BY <1>3, <1>12, <1>14, ShrunkPresent
<1>16. Aside(rs, lv, q2) /\ Told(rs, lv, q2, t, i)
  BY <1>2, <1>12, <1>14, <1>15, ShrunkSound DEF Sound
<1> HIDE DEF ss, r, h, rs2, q2
<1>17. RoomsSane(rs2, lv2, i)
  <2>1. RoomSane(r, i)
    BY <1>6, <1>7, <1>8 DEF RoomSane, Sane
  <2>2. \A j \in DOMAIN rs2 : RoomSane(rs2[j], i)
    BY <1>3, <1>9, <2>1 DEF RoomsSane
  <2>3. DOMAIN rs2 \subseteq 1..i
    BY <1>1, <1>4, <1>9
  <2> QED BY <1>1, <1>4, <1>9, <2>2, <2>3 DEF RoomsSane
<1>18. \A j \in lv : Coming(rs2, j) = Coming(rs, j) /\ rs2[j] = rs[j]
  BY <1>3, <1>4, <1>9 DEF Coming, Arranged, Linked
<1>19. Coming(rs2, i) = {}
  BY <1>6, <1>9 DEF Coming
<1>20. NoRoom \notin lv2
  BY <1>1, <1>4, CtrAssumption
<1>21. ASSUME NEW j \in lv
       PROVE  /\ HostSeated(rs2[j]) /\ Linked(rs2, lv2, j) /\ Fits(rs2, j) /\ Offered(rs2, j)
              /\ Calm(rs2, j) /\ Acked(rs2[j], t2)
  <2>1. /\ rs2[j] = rs[j] /\ Coming(rs2, j) = Coming(rs, j) /\ j \in DOMAIN rs
        /\ HostSeated(rs[j]) /\ Linked(rs, lv, j) /\ Fits(rs, j) /\ Offered(rs, j)
        /\ Calm(rs, j) /\ Acked(rs[j], t)
    BY <1>3, <1>4, <1>18 DEF Arranged, Told
  <2>2. Linked(rs2, lv2, j)
    BY <1>4, <1>9, <2>1 DEF Linked
  <2>3. Fits(rs2, j)
    BY <1>9, <2>1 DEF Fits, Linked
  <2>4. Acked(rs2[j], t2)
    BY <1>8, <1>11, <2>1 DEF Acked
  <2> QED BY <2>1, <2>2, <2>3, <2>4 DEF Offered, Calm
<1>22. /\ HostSeated(rs2[i]) /\ Linked(rs2, lv2, i) /\ Fits(rs2, i) /\ Offered(rs2, i)
       /\ Calm(rs2, i) /\ Acked(rs2[i], t2)
  <2>1. HostSeated(rs2[i])
    BY <1>6, <1>7, <1>8, <1>9 DEF HostSeated
  <2>2. Linked(rs2, lv2, i)
    BY <1>6, <1>9, <1>20 DEF Linked
  <2>3. Fits(rs2, i)
    <3>1. Size(ss) + Size({}) = Size(ss)
      <4>1. Party(ss)
        BY <1>6, <1>7, SearchParts, <1>1 DEF Party, Sane
      <4>2. Size(ss) \in Nat
        BY <4>1, SeatsType
      <4> QED BY <4>2, SizeNone
    <3>2. Size(ss) <= GroupMax(ss)
      BY DEF ss
    <3> QED BY <1>6, <1>9, <1>19, <3>1, <3>2 DEF Fits
  <2>4. Offered(rs2, i)
    BY <1>6, <1>9, <1>19 DEF Offered
  <2>5. Calm(rs2, i)
    <3>1. \A s \in ss : \A p \in s.members : p \in Pids
      BY <1>1, <1>7, SearchParts DEF Sane
    <3> QED BY <1>6, <1>9, <1>19, <3>1 DEF Calm, Clean, Failed
  <2>6. Acked(rs2[i], t2)
    BY <1>6, <1>7, <1>9 DEF Acked
  <2> QED BY <2>1, <2>2, <2>3, <2>4, <2>5, <2>6
<1>23. \A j \in lv2 : j \in lv \/ j = i
  OBVIOUS
<1>24. Arranged(rs2, lv2) /\ \A j \in lv2 : Calm(rs2, j)
  BY <1>21, <1>22, <1>23 DEF Arranged
<1>25. \A j \in lv2 : rs2[j].players = IF j = i THEN ss ELSE rs[j].players
  BY <1>4, <1>6, <1>9, <1>23
<1>26. Alone(rs2, lv2)
  <2> SUFFICES ASSUME NEW j \in lv2, NEW k \in lv2, NEW s \in rs2[j].players, NEW u \in rs2[k].players
               PROVE  (s.pid = u.pid <=> s.id = u.id) /\ (s.pid = u.pid => j = k)
    BY DEF Alone
  <2>1. CASE j = i /\ k = i
    BY <1>10, <1>25, <2>1
  <2>2. CASE j = i /\ k \in lv /\ k # i
    BY <1>11, <1>25, <2>2
  <2>3. CASE k = i /\ j \in lv /\ j # i
    BY <1>11, <1>25, <2>3
  <2>4. CASE j \in lv /\ k \in lv /\ j # i /\ k # i
    BY <1>3, <1>25, <2>4 DEF Alone
  <2> QED BY <1>23, <2>1, <2>2, <2>3, <2>4
<1>27. Aside(rs2, lv2, q2)
  <2>1. ASSUME NEW k \in DOMAIN q2, NEW j \in lv2, NEW u \in rs2[j].players
        PROVE  q2[k].pid # u.pid /\ q2[k].id # u.id
    <3>1. CASE j = i
      BY <1>13, <1>25, <3>1
    <3>2. CASE j \in lv /\ j # i
      BY <1>16, <1>25, <3>2 DEF Aside
    <3> QED BY <1>23, <3>1, <3>2
  <2> QED BY <1>16, <2>1 DEF Aside
<1>28. Told(rs2, lv2, q2, t2, i)
  <2>1. h.id \in 1..i
    <3>1. h \in Search /\ h.id <= i
      BY <1>7, <1>8 DEF Sane
    <3> QED BY <1>1, <3>1, SearchParts
  <2>2. t2 \subseteq 1..i
    BY <1>16, <2>1 DEF Told
  <2>3. \A k \in DOMAIN q2 : q2[k].id \notin t2
    BY <1>8, <1>13, <1>16 DEF Told
  <2>4. \A j \in lv2 : Acked(rs2[j], t2)
    BY <1>21, <1>22, <1>23
  <2> QED BY <1>16, <2>2, <2>3, <2>4 DEF Told
<1>29. Present(rs2, lv2, q2, up)
  <2>1. ASSUME NEW j \in lv2, NEW u \in rs2[j].players PROVE u.conn \in up
    <3>1. CASE j = i
      BY <1>7, <1>25, <3>1
    <3>2. CASE j \in lv /\ j # i
      BY <1>15, <1>25, <3>2 DEF Present
    <3> QED BY <1>23, <3>1, <3>2
  <2> QED BY <1>15, <2>1 DEF Present
<1>30. Sound(rs2, lv2, q2, t2, i, up, NoRoom)
  BY <1>17, <1>24, <1>26, <1>27, <1>28, <1>29 DEF Sound
<1> QED BY <1>30 DEF Formed, r, h, rs2, lv2, q2, t2

-----------------------------------------------------------------------------
(* The stages of a sync of room i. Everybody who is seated in it, or is to  *)
(* be, is on the list from which the accepted document was composed.        *)
Heard(rs, i) == \A s \in rs[i].players \cup Coming(rs, i) : s.id \in rs[i].acked

Stage(m, n, up, x) ==
    /\ m = [rs |-> m.rs, lv |-> m.lv, q |-> m.q, told |-> m.told, sent |-> m.sent]
    /\ Sound(m.rs, m.lv, m.q, m.told, n, up, x)

LEMMA AcceptSound ==
  ASSUME NEW n, NEW up, Sound(rooms, live, waiting, told, n, up, NoRoom),
         NEW i \in live, NEW offer \in rooms[i].offers, NEW open \in BOOLEAN,
         NEW states \in [Pids -> {0, 2, 3}]
  PROVE  LET m == AcceptDoc(i, offer, open, states)
         IN  Stage(m, n, up, i) /\ i \in m.lv /\ Heard(m.rs, i)
<1> DEFINE new == [rooms[i] EXCEPT !.open = open, !.states = states, !.acked = @ \cup offer]
           rs == [rooms EXCEPT ![i] = new]
<1>1. /\ RoomsSane(rooms, live, n) /\ Arranged(rooms, live) /\ Alone(rooms, live)
      /\ Aside(rooms, live, waiting) /\ Told(rooms, live, waiting, told, n)
      /\ Present(rooms, live, waiting, up)
      /\ \A j \in live : Calm(rooms, j)
  BY CtrAssumption DEF Sound, RoomsSane
<1>2. /\ MaxId \in Nat /\ i \in DOMAIN rooms /\ live \subseteq DOMAIN rooms
      /\ rooms = [j \in DOMAIN rooms |-> rooms[j]]
      /\ \A j \in DOMAIN rooms : RoomSane(rooms[j], n)
  BY <1>1 DEF RoomsSane
<1>3. rooms[i] \in Room /\ offer \subseteq 1..MaxId
  BY <1>2, RoomParts DEF RoomSane
<1>4. /\ new \in Room /\ new.players = rooms[i].players /\ new.host = rooms[i].host
      /\ new.states = states /\ new.acked = rooms[i].acked \cup offer
      /\ new.source = rooms[i].source /\ new.target = rooms[i].target
      /\ new.capacity = rooms[i].capacity /\ new.offers = rooms[i].offers
  BY <1>3 DEF Room
<1> HIDE DEF new
<1>5. DOMAIN rs = DOMAIN rooms /\ rs[i] = new /\ rs = [j \in DOMAIN rs |-> rs[j]]
      /\ \A j \in DOMAIN rooms \ {i} : rs[j] = rooms[j]
  BY <1>2
<1>6. AcceptDoc(i, offer, open, states)
        = [rs |-> rs, lv |-> live, q |-> waiting, told |-> told, sent |-> FALSE]
  <2>1. [rooms EXCEPT ![i].open = open, ![i].states = states, ![i].acked = @ \cup offer] = rs
    BY <1>2, <1>3 DEF new, Room
  <2> QED BY <2>1 DEF AcceptDoc
<1> HIDE DEF rs
<1>7. \A j \in DOMAIN rooms : /\ rs[j].source = rooms[j].source /\ rs[j].target = rooms[j].target
                              /\ rs[j].players = rooms[j].players /\ rs[j].host = rooms[j].host
                              /\ rs[j].capacity = rooms[j].capacity /\ rs[j].offers = rooms[j].offers
  BY <1>4, <1>5
<1>8. RoomsSane(rs, live, n)
  <2>1. RoomSane(new, n)
    BY <1>2, <1>4 DEF RoomSane
  <2>2. \A j \in DOMAIN rooms : RoomSane(rs[j], n)
    BY <1>2, <1>5, <2>1
  <2> QED BY <1>1, <1>5, <2>2 DEF RoomsSane
<1>9. \A j \in live : Coming(rs, j) = Coming(rooms, j)
  BY <1>1, <1>2, <1>7 DEF Coming, Arranged, Linked
<1>10. \A s \in rooms[i].players \cup Coming(rooms, i) : \A o \in rooms[i].offers : s.id \in o
  <2> SUFFICES ASSUME NEW s \in rooms[i].players \cup Coming(rooms, i), NEW o \in rooms[i].offers
               PROVE  s.id \in o
    OBVIOUS
  <2>1. Offered(rooms, i) /\ Calm(rooms, i) /\ Linked(rooms, live, i)
    BY <1>1 DEF Arranged
  <2>2. s.members # {}
    BY <1>2, <2>1 DEF Coming, Linked, RoomSane, Sane
  <2>3. PICK p \in s.members : TRUE
    BY <2>2
  <2>4. ~Failed(rooms[i], p)
    BY <2>1 DEF Calm, Clean, Failed
  <2> QED BY <2>1, <2>4 DEF Offered
<1>11. Heard(rs, i)
  BY <1>4, <1>5, <1>7, <1>9, <1>10 DEF Heard
<1>12. ASSUME NEW j \in live PROVE HostSeated(rs[j]) /\ Linked(rs, live, j) /\ Fits(rs, j) /\ Offered(rs, j)
  <2>1. /\ HostSeated(rooms[j]) /\ Linked(rooms, live, j) /\ Fits(rooms, j) /\ Offered(rooms, j)
        /\ j \in DOMAIN rooms /\ Coming(rs, j) = Coming(rooms, j)
    BY <1>1, <1>2, <1>9 DEF Arranged
  <2>2. HostSeated(rs[j])
    BY <1>7, <2>1 DEF HostSeated
  <2>3. Linked(rs, live, j)
    BY <1>2, <1>5, <1>7, <2>1 DEF Linked
  <2>4. Fits(rs, j)
    BY <1>7, <2>1 DEF Fits, Linked
  <2>5. Offered(rs, j)
    <3>1. CASE j = i
      BY <1>7, <1>10, <2>1, <3>1 DEF Offered
    <3>2. CASE j # i
      <4>1. rs[j] = rooms[j]
        BY <1>5, <2>1, <3>2
      <4> QED BY <2>1, <4>1 DEF Offered
    <3> QED BY <3>1, <3>2
  <2> QED BY <2>2, <2>3, <2>4, <2>5
<1>13. ASSUME NEW j \in live \ {i} PROVE Calm(rs, j)
  BY <1>1, <1>2, <1>5, <1>9 DEF Calm
<1>14. Alone(rs, live) /\ Aside(rs, live, waiting) /\ Present(rs, live, waiting, up)
  <2>1. \A j \in live : rs[j].players = rooms[j].players
    BY <1>2, <1>7
  <2>2. Alone(rs, live)
    BY <1>1, <2>1 DEF Alone
  <2>3. Aside(rs, live, waiting)
    BY <1>1, <2>1 DEF Aside
  <2>4. Present(rs, live, waiting, up)
    BY <1>1, <2>1 DEF Present
  <2> QED BY <2>2, <2>3, <2>4
<1>15. Told(rs, live, waiting, told, n)
  <2>1. ASSUME NEW j \in live PROVE Acked(rs[j], told)
    <3>1. CASE j = i
      BY <1>5, <1>11, <3>1 DEF Heard, Acked
    <3>2. CASE j # i
      BY <1>1, <1>2, <1>5, <3>2 DEF Told
    <3> QED BY <3>1, <3>2
  <2> QED BY <1>1, <2>1 DEF Told
<1>16. Sound(rs, live, waiting, told, n, up, i)
  BY <1>8, <1>12, <1>13, <1>14, <1>15 DEF Sound, Arranged
<1> QED BY <1>6, <1>11, <1>16 DEF Stage

(* What is known of a room i that has a source. *)
LEMMA SourceParts ==
  ASSUME NEW rs, NEW lv, NEW n, RoomsSane(rs, lv, n), Arranged(rs, lv),
         NEW i \in lv, rs[i].source # NoRoom
  PROVE  /\ rs[i].source \in DOMAIN rs /\ rs[i].source # i
         /\ rs[rs[i].source].target = i /\ rs[rs[i].source].source = NoRoom /\ rs[i].target = NoRoom
         /\ \A k \in lv \ {i} : rs[k].source # i /\ rs[k].source # rs[i].source
         /\ \A k \in lv \ {i} : (rs[k].target = i => k = rs[i].source)
                              /\ (rs[i].source \in lv => rs[k].target # rs[i].source)
<1>1. \A k \in lv : Linked(rs, lv, k)
  BY DEF Arranged
<1>2. NoRoom \notin lv
  BY CtrAssumption DEF RoomsSane
<1>3. /\ rs[i].source \in DOMAIN rs /\ rs[i].source # i
      /\ rs[rs[i].source].target = i /\ rs[rs[i].source].source = NoRoom /\ rs[i].target = NoRoom
  BY <1>1 DEF Linked
<1>4. ASSUME NEW k \in lv \ {i}
      PROVE  /\ rs[k].source # i /\ rs[k].source # rs[i].source
             /\ rs[k].target = i => k = rs[i].source
             /\ rs[i].source \in lv => rs[k].target # rs[i].source
  <2>1. Linked(rs, lv, k)
    BY <1>1
  <2>2. rs[k].source # i
    BY <1>2, <1>3, <2>1 DEF Linked
  <2>3. rs[k].source # rs[i].source
    BY <1>3, <2>1 DEF Linked
  <2>4. rs[k].target = i => k = rs[i].source
    BY <2>1 DEF Linked
  <2>5. rs[i].source \in lv => rs[k].target # rs[i].source
    BY <1>2, <1>3, <2>1 DEF Linked
  <2> QED BY <2>2, <2>3, <2>4, <2>5
<1> QED BY <1>3, <1>4

LEMMA SmallerOf ==
  ASSUME NEW a \in 1..8, NEW b \in 1..8
  PROVE  Min({a, b}) \in 1..8 /\ Min({a, b}) <= a /\ Min({a, b}) <= b /\ Min({a, b}) \in {a, b}
<1> DEFINE S == {a, b}
<1>1. S \in SUBSET Nat /\ S # {} /\ a \in S /\ b \in S
  OBVIOUS
<1>2. IsFiniteSet(S)
  <2>1. S = {a} \cup {b}
    OBVIOUS
  <2>2. IsFiniteSet({a}) /\ IsFiniteSet({b})
    BY FS_Singleton
  <2> QED BY <2>1, <2>2, FS_Union
<1>3. Min(S) \in S /\ \A y \in S : Min(S) <= y
  BY <1>1, <1>2, Extremes
<1> QED BY <1>3

LEMMA CommitSound ==
  ASSUME NEW m, NEW n, NEW up, NEW i \in m.lv, Stage(m, n, up, i), Heard(m.rs, i),
         m.rs[i].source # NoRoom, m.rs[i].source \in m.lv
  PROVE  LET m1 == MergeCommit(m, i)
         IN  Stage(m1, n, up, i) /\ i \in m1.lv /\ Heard(m1.rs, i) /\ m1.rs[i].source = NoRoom
<1> DEFINE rs == m.rs
           lv == m.lv
           j == rs[i].source
           P == rs[i].players
           R == rs[j].players
           cap == Min({rs[i].capacity, rs[j].capacity})
           seen == rs[i].notified \cup {s.conn : s \in R}
           PR == P \cup R
           new == [rs[i] EXCEPT !.source = NoRoom, !.capacity = cap, !.players = PR, !.notified = seen]
           rs1 == [rs EXCEPT ![i] = new]
           lv1 == lv \ {j}
           t1 == m.told \cup {s.id : s \in R}
           m1 == MergeCommit(m, i)
<1>1. /\ RoomsSane(rs, lv, n) /\ Arranged(rs, lv) /\ Alone(rs, lv)
      /\ Aside(rs, lv, m.q) /\ Told(rs, lv, m.q, m.told, n) /\ Present(rs, lv, m.q, up)
      /\ \A k \in lv \ {i} : Calm(rs, k)
  BY DEF Stage, Sound
<1>2. m1 = [rs |-> rs1, lv |-> lv1, q |-> m.q, told |-> t1, sent |-> TRUE]
  <2>1. m = [rs |-> rs, lv |-> lv, q |-> m.q, told |-> m.told, sent |-> m.sent]
    BY DEF Stage
  <2>2. m1 = [m EXCEPT !.rs = rs1, !.lv = lv1, !.told = t1, !.sent = TRUE]
    <3>1. rs[i] \in Room
      BY <1>1, RoomParts DEF RoomsSane, RoomSane
    <3> QED BY <3>1 DEF MergeCommit, Room
  <2> HIDE DEF rs, lv, rs1, lv1, t1, m1
  <2> QED BY <2>1, <2>2
<1> HIDE DEF m1
<1>3. /\ MaxId \in Nat /\ i \in DOMAIN rs /\ lv \subseteq DOMAIN rs
      /\ rs = [k \in DOMAIN rs |-> rs[k]] /\ \A k \in DOMAIN rs : RoomSane(rs[k], n)
  BY <1>1 DEF RoomsSane
<1>4. /\ j \in DOMAIN rs /\ j # i /\ j \in lv
      /\ rs[j].target = i /\ rs[j].source = NoRoom /\ rs[i].target = NoRoom
      /\ \A k \in lv \ {i} : rs[k].source # i /\ rs[k].source # j
      /\ \A k \in lv \ {i} : rs[k].target = i => k = j
  BY <1>1, SourceParts
<1>5. Coming(rs, i) = R
  BY DEF Coming
<1>6. rs[i] \in Room /\ rs[i].capacity \in 1..8 /\ rs[j].capacity \in 1..8 /\ P \subseteq Search /\ R \subseteq Search
  BY <1>3, <1>4, RoomParts DEF RoomSane
<1>7. cap \in 1..8 /\ cap <= rs[i].capacity /\ cap <= rs[j].capacity /\ cap \in {rs[i].capacity, rs[j].capacity}
  BY <1>6, SmallerOf
<1>8. seen \subseteq Conns
  BY <1>3, <1>6, RoomParts, SearchParts
<1>9. NoRoom \notin lv
  BY <1>1, CtrAssumption DEF RoomsSane
<1> HIDE DEF cap, seen, PR
<1>10. PR \subseteq Search
  BY <1>6 DEF PR
<1>11. /\ new \in Room /\ new.players = PR /\ new.capacity = cap /\ new.source = NoRoom
       /\ new.host = rs[i].host /\ new.states = rs[i].states /\ new.target = NoRoom
       /\ new.offers = rs[i].offers /\ new.acked = rs[i].acked
  BY <1>4, <1>6, <1>7, <1>8, <1>10 DEF Room
<1> HIDE DEF new
<1>12. DOMAIN rs1 = DOMAIN rs /\ rs1[i] = new /\ rs1 = [k \in DOMAIN rs1 |-> rs1[k]]
       /\ \A k \in DOMAIN rs \ {i} : rs1[k] = rs[k]
  BY <1>3
<1> HIDE DEF rs, lv, rs1, P, R, j
<1>13. RoomsSane(rs1, lv1, n)
  <2>1. IsFiniteSet(PR)
    <3>1. IsFiniteSet(P) /\ IsFiniteSet(R)
      BY <1>3, <1>4 DEF RoomSane, P, R
    <3> QED BY <3>1, FS_Union DEF PR
  <2>2. \A s \in PR : Sane(s, n)
    BY <1>3, <1>4 DEF RoomSane, P, R, PR
  <2>3. RoomSane(new, n)
    BY <1>3, <1>11, <2>1, <2>2 DEF RoomSane
  <2>4. \A k \in DOMAIN rs1 : RoomSane(rs1[k], n)
    BY <1>3, <1>12, <2>3
  <2> QED BY <1>1, <1>3, <1>12, <2>4 DEF RoomsSane
<1>14. i \in lv1 /\ \A k \in lv1 : k \in lv /\ k # j /\ k \in DOMAIN rs
  BY <1>3, <1>4 DEF lv
<1>15. \A k \in lv1 \ {i} : rs1[k] = rs[k] /\ Coming(rs1, k) = Coming(rs, k)
                            /\ (rs[k].source # NoRoom => rs1[rs[k].source] = rs[rs[k].source])
  <2> SUFFICES ASSUME NEW k \in lv1 \ {i}
               PROVE  /\ rs1[k] = rs[k] /\ Coming(rs1, k) = Coming(rs, k)
                      /\ rs[k].source # NoRoom => rs1[rs[k].source] = rs[rs[k].source]
    OBVIOUS
  <2>1. rs1[k] = rs[k] /\ rs[k].source # i /\ Linked(rs, lv, k)
    BY <1>1, <1>4, <1>12, <1>14 DEF Arranged
  <2>2. rs[k].source # NoRoom => rs1[rs[k].source] = rs[rs[k].source]
    BY <1>12, <2>1 DEF Linked
  <2> QED BY <2>1, <2>2 DEF Coming
<1>16. Coming(rs1, i) = {}
  BY <1>11, <1>12 DEF Coming
<1>17. ASSUME NEW k \in lv1 \ {i}
       PROVE  HostSeated(rs1[k]) /\ Linked(rs1, lv1, k) /\ Fits(rs1, k) /\ Offered(rs1, k) /\ Calm(rs1, k)
  <2>1. /\ rs1[k] = rs[k] /\ Coming(rs1, k) = Coming(rs, k) /\ k \in lv \ {i}
        /\ rs[k].source # NoRoom => rs1[rs[k].source] = rs[rs[k].source]
    BY <1>14, <1>15
  <2>2. HostSeated(rs[k]) /\ Linked(rs, lv, k) /\ Fits(rs, k) /\ Offered(rs, k) /\ Calm(rs, k)
    BY <1>1, <2>1 DEF Arranged
  <2>3. Linked(rs1, lv1, k)
    <3>1. rs[k].target \in lv1 => rs[k].target \in lv /\ rs[k].target # i
      BY <1>4, <1>14, <2>1
    <3>2. rs[k].target \in lv1 => rs1[rs[k].target] = rs[rs[k].target]
      BY <1>12, <1>14, <3>1
    <3> QED BY <1>12, <2>1, <2>2, <3>1, <3>2 DEF Linked
  <2>4. Fits(rs1, k)
    BY <2>1, <2>2 DEF Fits
  <2>5. Offered(rs1, k) /\ Calm(rs1, k)
    BY <2>1, <2>2 DEF Offered, Calm
  <2> QED BY <2>1, <2>2, <2>3, <2>4, <2>5
<1>18. HostSeated(rs1[i]) /\ Linked(rs1, lv1, i) /\ Fits(rs1, i) /\ Offered(rs1, i)
  <2>1. HostSeated(rs[i]) /\ Linked(rs, lv, i) /\ Fits(rs, i) /\ Offered(rs, i)
    BY <1>1, <1>14 DEF Arranged
  <2>2. HostSeated(rs1[i])
    BY <1>11, <1>12, <2>1 DEF HostSeated, PR, P
  <2>3. Linked(rs1, lv1, i)
    BY <1>9, <1>11, <1>12, <1>14 DEF Linked
  <2>4. Fits(rs1, i)
    <3>1. Party(P) /\ Party(R)
      BY <1>3, <1>4, RoomParty DEF P, R
    <3>2. Party(PR) /\ Size(PR) <= Size(P) + Size(R)
      BY <3>1, SizeJoined DEF PR
    <3>3. Size(P) \in Nat /\ Size(R) \in Nat /\ Size(PR) \in Nat
      BY <3>1, <3>2, SeatsType
    <3>4. Size(P) + Size(R) <= rs[i].capacity /\ Size(P) + Size(R) <= rs[j].capacity
      <4>1. rs[i].source # NoRoom
        BY DEF rs
      <4> QED BY <1>5, <2>1, <4>1 DEF Fits, P, j
    <3>5. Size(PR) <= cap
      BY <1>6, <1>7, <3>2, <3>3, <3>4
    <3>6. Size(PR) + Size({}) = Size(PR)
      BY <3>3, SizeNone
    <3> QED BY <1>11, <1>12, <1>16, <3>5, <3>6 DEF Fits
  <2>5. Offered(rs1, i)
    <3> SUFFICES ASSUME NEW o \in rs1[i].offers, NEW s \in rs1[i].players \cup Coming(rs1, i),
                        NEW p \in s.members, ~Failed(rs1[i], p)
                 PROVE  s.id \in o
      BY DEF Offered
    <3>1. o \in rs[i].offers /\ s \in rs[i].players \cup Coming(rs, i) /\ ~Failed(rs[i], p)
      BY <1>5, <1>11, <1>12, <1>16 DEF PR, P, Failed
    <3> QED BY <2>1, <3>1 DEF Offered
  <2> QED BY <2>2, <2>3, <2>4, <2>5
<1>19. \A k \in lv1 : \A s \in rs1[k].players : (s \in rs[k].players \/ (k = i /\ s \in R))
  BY <1>11, <1>12, <1>14 DEF PR, P
<1>20. Alone(rs1, lv1)
  <2> SUFFICES ASSUME NEW k \in lv1, NEW l \in lv1, NEW s \in rs1[k].players, NEW u \in rs1[l].players
               PROVE  (s.pid = u.pid <=> s.id = u.id) /\ (s.pid = u.pid => k = l)
    BY DEF Alone
  <2>1. (s \in rs[k].players \/ (k = i /\ s \in R)) /\ (u \in rs[l].players \/ (l = i /\ u \in R))
    BY <1>19
  <2>2. k \in lv /\ l \in lv /\ k # j /\ l # j
    BY <1>14
  <2>3. CASE s \in rs[k].players /\ u \in rs[l].players
    BY <1>1, <2>2, <2>3 DEF Alone
  <2>4. CASE s \in rs[k].players /\ l = i /\ u \in R
    BY <1>1, <1>4, <2>2, <2>4 DEF Alone, R
  <2>5. CASE k = i /\ s \in R /\ u \in rs[l].players
    BY <1>1, <1>4, <2>2, <2>5 DEF Alone, R
  <2>6. CASE k = i /\ s \in R /\ l = i /\ u \in R
    BY <1>1, <1>4, <2>2, <2>6 DEF Alone, R
  <2> QED BY <2>1, <2>3, <2>4, <2>5, <2>6
<1>21. Aside(rs1, lv1, m.q)
  <2>1. ASSUME NEW a \in DOMAIN m.q, NEW k \in lv1, NEW u \in rs1[k].players
        PROVE  m.q[a].pid # u.pid /\ m.q[a].id # u.id
    <3>1. u \in rs[k].players \/ u \in rs[j].players
      BY <1>19 DEF R
    <3> QED BY <1>1, <1>4, <1>14, <3>1 DEF Aside
  <2> QED BY <1>1, <2>1 DEF Aside
<1>22. Heard(rs1, i)
  <2>1. Heard(rs, i)
    BY DEF rs
  <2> QED BY <1>5, <1>11, <1>12, <1>16, <2>1 DEF Heard, PR, P
<1>23. Told(rs1, lv1, m.q, t1, n)
  <2>1. t1 \subseteq 1..n
    <3>1. \A s \in R : s.id \in 1..n
      <4>1. \A s \in R : Sane(s, n) /\ s \in Search
        BY <1>3, <1>4 DEF RoomSane, R, Sane
      <4>2. n \in Nat
        BY <1>1 DEF RoomsSane
      <4> QED BY <1>3, <4>1, <4>2, SearchParts DEF Sane
    <3> QED BY <1>1, <3>1 DEF Told
  <2>2. \A a \in DOMAIN m.q : m.q[a].id \notin t1
    BY <1>1, <1>4 DEF Told, Aside, R
  <2>3. ASSUME NEW k \in lv1 PROVE Acked(rs1[k], t1)
    <3>1. CASE k = i
      BY <1>22, <3>1 DEF Heard, Acked
    <3>2. CASE k # i
      <4> SUFFICES ASSUME NEW s \in rs[k].players, s.id \in t1, s.id # rs[k].host.id
                   PROVE  s.id \in rs[k].acked
        BY <1>15, <3>2 DEF Acked
      <4>1. ~\E u \in R : u.id = s.id
        BY <1>1, <1>4, <1>14, <3>2 DEF Alone, R
      <4>2. s.id \in m.told
        BY <4>1
      <4> QED BY <1>1, <1>14, <4>2 DEF Told, Acked
    <3> QED BY <3>1, <3>2
  <2> QED BY <1>1, <2>1, <2>2, <2>3 DEF Told
<1>24. Present(rs1, lv1, m.q, up)
  <2>1. \A k \in lv1 : \A s \in rs1[k].players : s \in rs[k].players \/ s \in rs[j].players
    BY <1>19 DEF R
  <2> QED BY <1>1, <1>4, <1>14, <2>1 DEF Present
<1>25. Sound(rs1, lv1, m.q, t1, n, up, i)
  <2>1. Arranged(rs1, lv1)
    BY <1>17, <1>18 DEF Arranged
  <2> QED BY <1>13, <1>17, <1>20, <1>21, <1>23, <1>24, <2>1 DEF Sound
<1> HIDE DEF lv1, t1
<1>26. m1.rs = rs1 /\ m1.lv = lv1 /\ m1.q = m.q /\ m1.told = t1 /\ m1.sent = TRUE
  BY <1>2
<1>27. Stage(m1, n, up, i)
  BY <1>2, <1>25, <1>26 DEF Stage
<1> QED BY <1>11, <1>12, <1>14, <1>22, <1>26, <1>27 DEF m1

(* The record of the stages, some of its fields replaced.                   *)
LEMMA StageEdits ==
  ASSUME NEW m, m = [rs |-> m.rs, lv |-> m.lv, q |-> m.q, told |-> m.told, sent |-> m.sent],
         NEW a, NEW b, NEW d
  PROVE  /\ [m EXCEPT !.rs = a] = [rs |-> a, lv |-> m.lv, q |-> m.q, told |-> m.told, sent |-> m.sent]
         /\ [m EXCEPT !.rs = a, !.sent = b]
              = [rs |-> a, lv |-> m.lv, q |-> m.q, told |-> m.told, sent |-> b]
         /\ [m EXCEPT !.rs = a, !.told = d, !.sent = b]
              = [rs |-> a, lv |-> m.lv, q |-> m.q, told |-> d, sent |-> b]
         /\ [m EXCEPT !.rs = a, !.q = d, !.sent = b]
              = [rs |-> a, lv |-> m.lv, q |-> d, told |-> m.told, sent |-> b]
<1> DEFINE m1 == [m EXCEPT !.rs = a]
           m2 == [m1 EXCEPT !.told = d]
           m3 == [m1 EXCEPT !.q = d]
<1>1. /\ [m EXCEPT !.rs = a, !.sent = b] = [m1 EXCEPT !.sent = b]
      /\ [m EXCEPT !.rs = a, !.told = d, !.sent = b] = [m2 EXCEPT !.sent = b]
      /\ [m EXCEPT !.rs = a, !.q = d, !.sent = b] = [m3 EXCEPT !.sent = b]
  OBVIOUS
<1>2. m1 = [rs |-> a, lv |-> m.lv, q |-> m.q, told |-> m.told, sent |-> m.sent]
  OBVIOUS
<1> HIDE DEF m1
<1>3. m2 = [rs |-> a, lv |-> m.lv, q |-> m.q, told |-> d, sent |-> m.sent]
  BY <1>2
<1>4. m3 = [rs |-> a, lv |-> m.lv, q |-> d, told |-> m.told, sent |-> m.sent]
  BY <1>2
<1> HIDE DEF m2, m3
<1>5. [m1 EXCEPT !.sent = b] = [rs |-> a, lv |-> m.lv, q |-> m.q, told |-> m.told, sent |-> b]
  BY <1>2
<1>6. [m2 EXCEPT !.sent = b] = [rs |-> a, lv |-> m.lv, q |-> m.q, told |-> d, sent |-> b]
  BY <1>3
<1>7. [m3 EXCEPT !.sent = b] = [rs |-> a, lv |-> m.lv, q |-> d, told |-> m.told, sent |-> b]
  BY <1>4
<1> QED BY <1>1, <1>2, <1>5, <1>6, <1>7 DEF m1, m2, m3

LEMMA SeatedSame ==
  ASSUME NEW rs, NEW lv, NEW q, NEW t, NEW n, NEW up,
         Alone(rs, lv), Aside(rs, lv, q), Told(rs, lv, q, t, n), Present(rs, lv, q, up),
         NEW rs2, \A i \in lv : /\ rs2[i].players = rs[i].players /\ rs2[i].host = rs[i].host
                                /\ rs2[i].acked = rs[i].acked
  PROVE  Alone(rs2, lv) /\ Aside(rs2, lv, q) /\ Told(rs2, lv, q, t, n) /\ Present(rs2, lv, q, up)
<1>1. \A i \in lv : rs2[i].players = rs[i].players
  OBVIOUS
<1>2. \A i \in lv : Acked(rs2[i], t) <=> Acked(rs[i], t)
  BY DEF Acked
<1>3. Alone(rs2, lv)
  BY <1>1 DEF Alone
<1>4. Aside(rs2, lv, q)
  BY <1>1 DEF Aside
<1>5. Told(rs2, lv, q, t, n)
  BY <1>2 DEF Told
<1>6. Present(rs2, lv, q, up)
  BY <1>1 DEF Present
<1> QED BY <1>3, <1>4, <1>5, <1>6

LEMMA CancelSound ==
  ASSUME NEW m, NEW n, NEW up, NEW i \in m.lv, Stage(m, n, up, i), Heard(m.rs, i),
         m.rs[i].source # NoRoom
  PROVE  LET m1 == MergeCancel(m, i)
         IN  Stage(m1, n, up, i) /\ i \in m1.lv /\ Heard(m1.rs, i) /\ m1.rs[i].source = NoRoom
<1> DEFINE rs == m.rs
           lv == m.lv
           j == rs[i].source
           rs1 == [rs EXCEPT ![i].source = NoRoom, ![j].target = NoRoom]
           rs2 == Renew(rs1, i)
           m1 == MergeCancel(m, i)
<1>1. /\ RoomsSane(rs, lv, n) /\ Arranged(rs, lv) /\ Alone(rs, lv)
      /\ Aside(rs, lv, m.q) /\ Told(rs, lv, m.q, m.told, n) /\ Present(rs, lv, m.q, up)
      /\ \A k \in lv \ {i} : Calm(rs, k)
  BY DEF Stage, Sound
<1>2. m1 = [rs |-> rs2, lv |-> lv, q |-> m.q, told |-> m.told, sent |-> TRUE]
  <2>1. m = [rs |-> rs, lv |-> lv, q |-> m.q, told |-> m.told, sent |-> m.sent]
    BY DEF Stage
  <2>2. m1 = [m EXCEPT !.rs = rs2, !.sent = TRUE]
    BY DEF MergeCancel
  <2> HIDE DEF rs2, m1
  <2> QED BY <2>1, <2>2, StageEdits
<1> HIDE DEF m1, rs2
<1>3. /\ MaxId \in Nat /\ i \in DOMAIN rs /\ lv \subseteq DOMAIN rs
      /\ rs = [k \in DOMAIN rs |-> rs[k]] /\ \A k \in DOMAIN rs : RoomSane(rs[k], n)
  BY <1>1 DEF RoomsSane
<1>4. /\ j \in DOMAIN rs /\ j # i
      /\ rs[j].target = i /\ rs[j].source = NoRoom /\ rs[i].target = NoRoom
      /\ \A k \in lv \ {i} : rs[k].source # i /\ rs[k].source # j
      /\ \A k \in lv \ {i} : (rs[k].target = i => k = j) /\ (j \in lv => rs[k].target # j)
  BY <1>1, SourceParts
<1>5. NoRoom \notin lv
  BY <1>1, CtrAssumption DEF RoomsSane
<1>6. rs[i] \in Room /\ rs[j] \in Room
  BY <1>3, <1>4 DEF RoomSane
<1> HIDE DEF rs, lv, j
<1>7. /\ DOMAIN rs1 = DOMAIN rs /\ rs1 = [k \in DOMAIN rs1 |-> rs1[k]]
      /\ rs1[i] = [rs[i] EXCEPT !.source = NoRoom] /\ rs1[j] = [rs[j] EXCEPT !.target = NoRoom]
      /\ \A k \in DOMAIN rs \ {i, j} : rs1[k] = rs[k]
  BY <1>3, <1>4
<1> HIDE DEF rs1
<1>8. /\ rs1[i] \in Room /\ rs1[j] \in Room
      /\ rs1[i].source = NoRoom /\ rs1[i].target = NoRoom /\ rs1[j].source = NoRoom /\ rs1[j].target = NoRoom
      /\ \A k \in {i, j} : /\ rs1[k].players = rs[k].players /\ rs1[k].host = rs[k].host
                           /\ rs1[k].states = rs[k].states /\ rs1[k].capacity = rs[k].capacity
                           /\ rs1[k].offers = rs[k].offers /\ rs1[k].acked = rs[k].acked
  BY <1>4, <1>6, <1>7 DEF Room
<1>9. \A k \in DOMAIN rs : /\ rs1[k].players = rs[k].players /\ rs1[k].host = rs[k].host
                           /\ rs1[k].states = rs[k].states /\ rs1[k].capacity = rs[k].capacity
                           /\ rs1[k].offers = rs[k].offers /\ rs1[k].acked = rs[k].acked
  BY <1>7, <1>8
<1>10. RoomsSane(rs1, lv, n)
  <2>1. RoomSane(rs1[i], n) /\ RoomSane(rs1[j], n)
    BY <1>3, <1>4, <1>8 DEF RoomSane
  <2>2. \A k \in DOMAIN rs1 : RoomSane(rs1[k], n)
    BY <1>3, <1>7, <2>1
  <2> QED BY <1>1, <1>7, <2>2 DEF RoomsSane
<1>11. Coming(rs1, i) = {} /\ Coming(rs1, j) = {}
  BY <1>8 DEF Coming
<1>12. ASSUME NEW k \in lv \ {i}
       PROVE  /\ HostSeated(rs1[k]) /\ Linked(rs1, lv, k) /\ Fits(rs1, k) /\ Offered(rs1, k)
              /\ Calm(rs1, k)
  <2>1. /\ HostSeated(rs[k]) /\ Linked(rs, lv, k) /\ Fits(rs, k) /\ Offered(rs, k) /\ Calm(rs, k)
        /\ k \in DOMAIN rs
    BY <1>1, <1>3 DEF Arranged
  <2>2. HostSeated(rs1[k])
    BY <1>9, <2>1 DEF HostSeated
  <2>3. CASE k = j
    <3>1. Linked(rs1, lv, k)
      BY <1>5, <1>8, <2>3 DEF Linked
    <3>2. Coming(rs, k) = {}
      BY <1>4, <2>3 DEF Coming
    <3>3. Fits(rs1, k)
      BY <1>8, <1>9, <1>11, <2>1, <2>3, <3>2 DEF Fits
    <3>4. Offered(rs1, k)
      BY <1>9, <1>11, <2>1, <2>3, <3>2 DEF Offered, Failed
    <3>5. Calm(rs1, k)
      BY <1>9, <1>11, <2>1, <2>3 DEF Calm, Clean, Failed
    <3> QED BY <2>2, <3>1, <3>3, <3>4, <3>5
  <2>4. CASE k # j
    <3>1. rs1[k] = rs[k]
      BY <1>7, <2>1, <2>4
    <3>2. rs[k].source # NoRoom => rs[k].source \in DOMAIN rs /\ rs1[rs[k].source] = rs[rs[k].source]
      BY <1>4, <1>7, <2>1 DEF Linked
    <3>3. rs[k].target \in lv => rs1[rs[k].target] = rs[rs[k].target]
      BY <1>3, <1>4, <1>7, <2>4
    <3>4. Linked(rs1, lv, k)
      BY <1>7, <2>1, <3>1, <3>2, <3>3 DEF Linked
    <3>5. Coming(rs1, k) = Coming(rs, k)
      BY <3>1, <3>2 DEF Coming
    <3>6. Fits(rs1, k)
      BY <2>1, <3>1, <3>2, <3>5 DEF Fits
    <3>7. Offered(rs1, k) /\ Calm(rs1, k)
      BY <2>1, <3>1, <3>5 DEF Offered, Calm
    <3> QED BY <2>2, <3>4, <3>6, <3>7
  <2> QED BY <2>3, <2>4
<1>13. HostSeated(rs1[i]) /\ Linked(rs1, lv, i) /\ Fits(rs1, i)
  <2>1. HostSeated(rs[i]) /\ Linked(rs, lv, i) /\ Fits(rs, i) /\ i \in lv
    BY <1>1 DEF Arranged, lv
  <2>2. HostSeated(rs1[i])
    BY <1>9, <1>3, <2>1 DEF HostSeated
  <2>3. Linked(rs1, lv, i)
    BY <1>5, <1>8 DEF Linked
  <2>4. Size(rs[i].players) \in Nat /\ Size(Coming(rs, i)) \in Nat
    BY <1>1, <2>1, ComingParty
  <2>5. Size(rs[i].players) + Size(Coming(rs, i)) <= rs[i].capacity /\ rs[i].capacity \in Nat
    BY <1>3, <1>6, <2>1, RoomParts DEF Fits
  <2>6. Size(rs[i].players) + Size({}) <= rs[i].capacity
    BY <2>4, <2>5, SizeNone
  <2>7. Fits(rs1, i)
    BY <1>8, <1>11, <2>6 DEF Fits
  <2> QED BY <2>2, <2>3, <2>7
<1>14. Alone(rs1, lv) /\ Aside(rs1, lv, m.q) /\ Told(rs1, lv, m.q, m.told, n) /\ Present(rs1, lv, m.q, up)
  BY <1>1, <1>3, <1>9, SeatedSame
<1>15. Ready(rs1, lv, m.q, m.told, n, up, i, i)
  BY <1>10, <1>12, <1>13, <1>14 DEF Ready
<1>16. Sound(rs2, lv, m.q, m.told, n, up, i)
  BY <1>15, RenewSound DEF rs2, lv
<1>17. rs2[i].players = rs1[i].players /\ rs2[i].source = NoRoom /\ rs2[i].acked = rs1[i].acked
  <2>1. Coming(rs1, i) \subseteq Search /\ i \in DOMAIN rs1 /\ MaxId \in Nat
    BY <1>3, <1>7, <1>11
  <2> HIDE DEF MaxId
  <2>2. /\ Renew(rs1, i)[i].players = rs1[i].players /\ Renew(rs1, i)[i].source = rs1[i].source
        /\ Renew(rs1, i)[i].acked = rs1[i].acked
    <3> HIDE DEF rs2
    <3>1. rs1[i] \in Room
      BY <1>8
    <3>2. rs1 = [k \in DOMAIN rs1 |-> rs1[k]]
      BY <1>7
    <3> QED BY <2>1, <3>1, <3>2, RenewParts
  <2> QED BY <1>8, <2>2 DEF rs2
<1>18. Heard(rs2, i)
  <2>1. Coming(rs2, i) = {}
    BY <1>17 DEF Coming
  <2>2. Heard(rs, i)
    BY DEF rs
  <2> QED BY <1>8, <1>17, <2>1, <2>2 DEF Heard
<1>19. m1.rs = rs2 /\ m1.lv = lv /\ m1.q = m.q /\ m1.told = m.told /\ m1.sent = TRUE
  BY <1>2
<1>20. Stage(m1, n, up, i)
  BY <1>2, <1>16, <1>19 DEF Stage
<1> QED BY <1>17, <1>18, <1>19, <1>20 DEF m1, lv

LEMMA FinishSound ==
  ASSUME NEW m, NEW n, NEW up, NEW i \in m.lv, Stage(m, n, up, i), Heard(m.rs, i)
  PROVE  LET m1 == FinishMerge(m, i)
         IN  Stage(m1, n, up, i) /\ i \in m1.lv /\ Heard(m1.rs, i) /\ m1.rs[i].source = NoRoom
<1>1. CASE m.rs[i].source = NoRoom
  BY <1>1 DEF FinishMerge
<1>2. CASE m.rs[i].source # NoRoom /\ MergeValid(m, i)
  <2>1. m.rs[i].source \in m.lv
    BY <1>2 DEF MergeValid
  <2> QED BY <1>2, <2>1, CommitSound DEF FinishMerge
<1>3. CASE m.rs[i].source # NoRoom /\ ~MergeValid(m, i)
  BY <1>3, CancelSound DEF FinishMerge
<1> QED BY <1>1, <1>2, <1>3

LEMMA OneNarrower ==
  ASSUME NEW rs, NEW lv, NEW n, RoomsSane(rs, lv, n), Arranged(rs, lv), NEW i \in lv,
         NEW new, Narrower(new, rs[i]), new.target = rs[i].target, HostSeated(new)
  PROVE  Shrunk(rs, lv, [rs EXCEPT ![i] = new], lv)
<1> DEFINE rs2 == [rs EXCEPT ![i] = new]
<1>1. MaxId \in Nat /\ i \in DOMAIN rs /\ lv \subseteq DOMAIN rs /\ rs = [k \in DOMAIN rs |-> rs[k]]
      /\ \A k \in DOMAIN rs : RoomSane(rs[k], n)
  BY DEF RoomsSane
<1>2. /\ DOMAIN rs2 = DOMAIN rs /\ rs2 = [k \in DOMAIN rs2 |-> rs2[k]] /\ rs2[i] = new
      /\ \A k \in DOMAIN rs \ {i} : rs2[k] = rs[k]
  BY <1>1
<1> HIDE DEF rs2
<1>3. ASSUME NEW k \in DOMAIN rs PROVE Narrower(rs2[k], rs[k]) /\ rs2[k].target = rs[k].target
  <2>1. CASE k = i
    BY <1>2, <2>1
  <2>2. CASE k # i
    <3>1. RoomSane(rs[k], n) /\ rs2[k] = rs[k]
      BY <1>1, <1>2, <2>2
    <3> QED BY <1>1, <3>1, NarrowerSame
  <2> QED BY <2>1, <2>2
<1>4. ASSUME NEW k \in lv PROVE HostSeated(rs2[k]) /\ (rs2[k].source # NoRoom => rs2[k].source \in DOMAIN rs2)
  <2>1. HostSeated(rs[k]) /\ Linked(rs, lv, k) /\ k \in DOMAIN rs
    BY <1>1 DEF Arranged
  <2>2. HostSeated(rs2[k])
    BY <1>2, <2>1
  <2>3. rs2[k].source = rs[k].source
    BY <1>3, <2>1 DEF Narrower
  <2> QED BY <1>2, <2>1, <2>2, <2>3 DEF Linked
<1>5. Shrunk(rs, lv, rs2, lv)
  BY <1>1, <1>2, <1>3, <1>4 DEF Shrunk
<1> QED BY <1>5 DEF rs2

LEMMA ReleaseStage ==
  ASSUME NEW m, NEW n, NEW up, NEW i \in m.lv, Stage(m, n, up, i), Heard(m.rs, i),
         m.rs[i].source = NoRoom
  PROVE  LET m2 == [m EXCEPT !.rs[i] = ReleaseFailed(@)]
         IN  /\ Stage(m2, n, up, NoRoom) /\ i \in m2.lv /\ Heard(m2.rs, i)
             /\ m2.rs[i].source = NoRoom
<1> DEFINE rs == m.rs
           lv == m.lv
           new == ReleaseFailed(rs[i])
           rs2 == [rs EXCEPT ![i] = new]
           m2 == [m EXCEPT !.rs[i] = ReleaseFailed(@)]
<1>1. /\ Sound(rs, lv, m.q, m.told, n, up, i)
      /\ RoomsSane(rs, lv, n) /\ Arranged(rs, lv) /\ Told(rs, lv, m.q, m.told, n)
      /\ Present(rs, lv, m.q, up)
  BY DEF Stage, Sound
<1>2. m = [rs |-> m.rs, lv |-> m.lv, q |-> m.q, told |-> m.told, sent |-> m.sent]
  BY DEF Stage
<1>3. m2 = [m EXCEPT !.rs = rs2]
  OBVIOUS
<1> HIDE DEF rs2, m2
<1>4. m2 = [rs |-> rs2, lv |-> m.lv, q |-> m.q, told |-> m.told, sent |-> m.sent]
  BY <1>2, <1>3, StageEdits
<1>5. /\ MaxId \in Nat /\ i \in DOMAIN rs /\ RoomSane(rs[i], n) /\ HostSeated(rs[i])
      /\ \A k \in DOMAIN rs : k \in DOMAIN rs
  BY <1>1 DEF RoomsSane, Arranged
<1> HIDE DEF rs, lv
<1>6. /\ Narrower(new, rs[i]) /\ Clean(new) /\ HostSeated(new)
      /\ new.target = rs[i].target /\ new.source = rs[i].source /\ new.acked = rs[i].acked
      /\ \A s \in new.players : \E t \in rs[i].players : Like(s, t)
  BY <1>5, ReleaseNarrows
<1> HIDE DEF new
<1>7. i \in lv
  BY DEF lv
<1>8. Shrunk(rs, lv, rs2, lv)
  BY <1>1, <1>6, <1>7, OneNarrower DEF rs2
<1>9. m.q \in Seq(Search) /\ Shorter(m.q, m.q)
  BY <1>1, SameShorter DEF Told
<1>10. Present(rs2, lv, m.q, up)
  BY <1>1, <1>8, <1>9, ShrunkPresent
<1>11. Sound(rs2, lv, m.q, m.told, n, up, i)
  BY <1>1, <1>8, <1>9, <1>10, ShrunkSound
<1>12. rs2[i] = new
  BY <1>5 DEF rs2
<1>13. rs2[i].source = NoRoom /\ Coming(rs2, i) = {}
  <2>1. rs[i].source = NoRoom
    BY DEF rs
  <2> QED BY <1>6, <1>12, <2>1 DEF Coming
<1>14. Calm(rs2, i)
  BY <1>6, <1>12, <1>13 DEF Calm
<1>15. Sound(rs2, lv, m.q, m.told, n, up, NoRoom)
  BY <1>11, <1>14 DEF Sound
<1>16. Heard(rs2, i)
  <2>1. Heard(rs, i)
    BY DEF rs
  <2> QED BY <1>6, <1>12, <1>13, <2>1 DEF Heard, Like
<1>17. m2.rs = rs2 /\ m2.lv = lv /\ m2.q = m.q /\ m2.told = m.told /\ m2.sent = m.sent
  BY <1>4 DEF lv
<1>18. Stage(m2, n, up, NoRoom)
  BY <1>4, <1>15, <1>17 DEF Stage, lv
<1> QED BY <1>7, <1>13, <1>16, <1>17, <1>18 DEF m2

(* Only players of a room whose host has heard of them are told to join.    *)
LEMMA ToldGrows ==
  ASSUME NEW rs, NEW lv, NEW q, NEW t, NEW n, NEW up, NEW x, Sound(rs, lv, q, t, n, up, x),
         NEW i \in lv, Heard(rs, i), NEW ids \in SUBSET {s.id : s \in rs[i].players}
  PROVE  Sound(rs, lv, q, t \cup ids, n, up, x)
<1>1. RoomsSane(rs, lv, n) /\ Alone(rs, lv) /\ Aside(rs, lv, q) /\ Told(rs, lv, q, t, n)
  BY DEF Sound
<1>2. ids \subseteq 1..n
  <2>1. MaxId \in Nat /\ n \in Nat /\ \A s \in rs[i].players : Sane(s, n) /\ s \in Search
    BY <1>1 DEF RoomsSane, RoomSane, Sane
  <2> QED BY <2>1, SearchParts DEF Sane
<1>3. \A k \in DOMAIN q : q[k].id \notin ids
  BY <1>1 DEF Aside
<1>4. ASSUME NEW j \in lv PROVE Acked(rs[j], t \cup ids)
  <2>1. CASE j = i
    BY <2>1 DEF Heard, Acked
  <2>2. CASE j # i
    <3>1. \A s \in rs[j].players : s.id \notin ids
      BY <1>1, <2>2 DEF Alone
    <3> QED BY <1>1, <3>1 DEF Told, Acked
  <2> QED BY <2>1, <2>2
<1>5. Told(rs, lv, q, t \cup ids, n)
  BY <1>1, <1>2, <1>3, <1>4 DEF Told
<1> QED BY <1>5 DEF Sound

LEMMA NotifyStage ==
  ASSUME NEW m, NEW n, NEW up, NEW i \in m.lv, Stage(m, n, up, NoRoom), Heard(m.rs, i)
  PROVE  LET m2 == NotifyGuests(m, i) IN Stage(m2, n, up, NoRoom) /\ i \in m2.lv
<1> DEFINE rs == m.rs
           lv == m.lv
           fresh == {s \in rs[i].players : s.conn \notin rs[i].notified}
           seen == rs[i].notified \cup {s.conn : s \in fresh}
           new == [rs[i] EXCEPT !.notified = seen]
           rs2 == [rs EXCEPT ![i] = new]
           ids == {s.id : s \in fresh}
           t2 == m.told \cup ids
           b == m.sent \/ fresh # {}
           m2 == NotifyGuests(m, i)
<1>1. /\ Sound(rs, lv, m.q, m.told, n, up, NoRoom)
      /\ RoomsSane(rs, lv, n) /\ Arranged(rs, lv) /\ Told(rs, lv, m.q, m.told, n)
      /\ Present(rs, lv, m.q, up)
  BY DEF Stage, Sound
<1>2. m = [rs |-> m.rs, lv |-> m.lv, q |-> m.q, told |-> m.told, sent |-> m.sent]
  BY DEF Stage
<1>3. m2 = [m EXCEPT !.rs = rs2, !.told = t2, !.sent = b]
  BY DEF NotifyGuests
<1> HIDE DEF rs2, m2, t2, b
<1>4. m2 = [rs |-> rs2, lv |-> m.lv, q |-> m.q, told |-> t2, sent |-> b]
  BY <1>2, <1>3, StageEdits
<1> HIDE DEF rs, lv
<1>5. i \in lv
  BY DEF lv
<1>6. MaxId \in Nat /\ i \in DOMAIN rs /\ RoomSane(rs[i], n) /\ rs[i] \in Room /\ HostSeated(rs[i])
  BY <1>1, <1>5 DEF RoomsSane, RoomSane, Arranged
<1>7. seen \subseteq Conns
  BY <1>6, RoomParts, SearchParts
<1> HIDE DEF seen, fresh
<1>8. /\ new \in Room /\ new.players = rs[i].players /\ new.host = rs[i].host
      /\ new.states = rs[i].states /\ new.capacity = rs[i].capacity
      /\ new.source = rs[i].source /\ new.target = rs[i].target
      /\ new.offers = rs[i].offers /\ new.acked = rs[i].acked
  BY <1>6, <1>7 DEF Room
<1> HIDE DEF new
<1>9. Thinned(rs[i].players, rs[i].players)
  BY <1>6, ThinnedSubset
<1>10. Narrower(new, rs[i]) /\ HostSeated(new)
  BY <1>6, <1>8, <1>9 DEF Narrower, HostSeated
<1>11. Shrunk(rs, lv, rs2, lv)
  BY <1>1, <1>5, <1>8, <1>10, OneNarrower DEF rs2
<1>12. m.q \in Seq(Search) /\ Shorter(m.q, m.q)
  BY <1>1, SameShorter DEF Told
<1>13. Present(rs2, lv, m.q, up)
  BY <1>1, <1>11, <1>12, ShrunkPresent
<1>14. Sound(rs2, lv, m.q, m.told, n, up, NoRoom)
  BY <1>1, <1>11, <1>12, <1>13, ShrunkSound
<1>15. rs2[i] = new /\ \A k \in DOMAIN rs \ {i} : rs2[k] = rs[k]
  BY <1>6 DEF rs2
<1>16. Heard(rs2, i)
  <2>1. Heard(rs, i) /\ Linked(rs, lv, i)
    BY <1>1, <1>5 DEF rs, Arranged
  <2>2. Coming(rs2, i) = Coming(rs, i)
    <3>1. CASE rs[i].source = NoRoom
      BY <1>8, <1>15, <3>1 DEF Coming
    <3>2. CASE rs[i].source # NoRoom
      <4>1. rs[i].source \in DOMAIN rs /\ rs[i].source # i
        BY <1>1, <1>5, <3>2, SourceParts
      <4> QED BY <1>8, <1>15, <3>2, <4>1 DEF Coming
    <3> QED BY <3>1, <3>2
  <2> QED BY <1>8, <1>15, <2>1, <2>2 DEF Heard
<1>17. ids \in SUBSET {s.id : s \in rs2[i].players}
  BY <1>8, <1>15 DEF fresh
<1>18. Sound(rs2, lv, m.q, t2, n, up, NoRoom)
  BY <1>5, <1>14, <1>16, <1>17, ToldGrows DEF t2
<1>19. m2.rs = rs2 /\ m2.lv = lv /\ m2.q = m.q /\ m2.told = t2 /\ m2.sent = b
  BY <1>4 DEF lv
<1>20. Stage(m2, n, up, NoRoom)
  BY <1>4, <1>18, <1>19 DEF Stage, lv
<1> QED BY <1>5, <1>19, <1>20 DEF m2

(* Searches that leave the queue are fit to be seated.                      *)
LEMMA TakenOut ==
  ASSUME NEW rs, NEW lv, NEW q, NEW t, NEW n, NEW up, Sound(rs, lv, q, t, n, up, NoRoom),
         NEW g \in SUBSET DOMAIN q
  PROVE  LET ss == {q[k] : k \in g}
         IN  /\ Sound(rs, lv, Keep(q, g), t, n, up, NoRoom)
             /\ IsFiniteSet(ss) /\ \A s \in ss : Sane(s, n) /\ s.id \notin t /\ s.conn \in up
             /\ \A s, u \in ss : s.pid = u.pid <=> s.id = u.id
             /\ \A s \in ss : \A j \in lv : \A u \in rs[j].players : s.pid # u.pid /\ s.id # u.id
             /\ \A s \in ss : \A k \in DOMAIN Keep(q, g) :
                  Keep(q, g)[k].pid # s.pid /\ Keep(q, g)[k].id # s.id
<1> DEFINE ss == {q[k] : k \in g}
           q2 == Keep(q, g)
<1>1. /\ RoomsSane(rs, lv, n) /\ Arranged(rs, lv) /\ Aside(rs, lv, q) /\ Told(rs, lv, q, t, n)
      /\ Present(rs, lv, q, up)
  BY DEF Sound
<1>2. q \in Seq(Search)
  BY <1>1 DEF Told
<1>3. Shorter(q2, q) /\ \A k \in DOMAIN q2 : \E j \in DOMAIN q \ g : q2[k] = q[j]
  <2>1. DOMAIN q \ g \in SUBSET DOMAIN q /\ q2 = Taking(q, DOMAIN q \ g)
    BY DEF Keep
  <2> HIDE DEF q2
  <2> QED BY <1>2, <2>1, TakingShorter
<1> HIDE DEF q2
<1>4. Shrunk(rs, lv, rs, lv)
  BY <1>1, SameShrunk
<1>5. Present(rs, lv, q2, up)
  BY <1>1, <1>3, <1>4, ShrunkPresent
<1>6. Sound(rs, lv, q2, t, n, up, NoRoom)
  BY <1>3, <1>4, <1>5, ShrunkSound
<1>7. IsFiniteSet(ss)
  <2>1. DOMAIN q = 1..Len(q) /\ Len(q) \in Nat
    BY <1>2
  <2>2. IsFiniteSet(1..Len(q))
    BY <2>1, FS_Interval
  <2>3. IsFiniteSet(g)
    BY <2>1, <2>2, FS_Subset
  <2> QED BY <2>3, Image
<1>8. \A s \in ss : Sane(s, n) /\ s.id \notin t /\ s.conn \in up
  BY <1>1 DEF Told, Present
<1>9. \A s, u \in ss : s.pid = u.pid <=> s.id = u.id
  BY <1>1 DEF Aside
<1>10. \A s \in ss : \A j \in lv : \A u \in rs[j].players : s.pid # u.pid /\ s.id # u.id
  BY <1>1 DEF Aside
<1>11. \A s \in ss : \A k \in DOMAIN q2 : q2[k].pid # s.pid /\ q2[k].id # s.id
  <2> SUFFICES ASSUME NEW l \in g, NEW k \in DOMAIN q2 PROVE q2[k].pid # q[l].pid /\ q2[k].id # q[l].id
    OBVIOUS
  <2>1. PICK j \in DOMAIN q \ g : q2[k] = q[j]
    BY <1>3
  <2> QED BY <1>1, <2>1 DEF Aside
<1> QED BY <1>6, <1>7, <1>8, <1>9, <1>10, <1>11 DEF q2

(* A room into which the pass seats searches has seats for all of them.     *)
LEMMA BackfillFits ==
  ASSUME NEW r, NEW n, RoomSane(r, n), MaxId \in Nat, Clean(r),
         NEW q \in Seq(Search), \A k \in DOMAIN q : Sane(q[k], n),
         NEW g \in SUBSET DOMAIN q, NEW k \in g, BackfillAdds(r, q, g \ {k}, k)
  PROVE  LET P == r.players \cup {q[j] : j \in g}
         IN  Size(P) <= r.capacity /\ \A j \in g : Size(P) <= q[j].max
<1> DEFINE old == {q[j] : j \in g \ {k}}
           now == Seat(r, old)
           s == q[k]
           P == r.players \cup {q[j] : j \in g}
           cap == Min({now.capacity, s.max})
<1>1. DOMAIN q = 1..Len(q) /\ Len(q) \in Nat /\ old \in SUBSET Search /\ s \in Search /\ Sane(s, n)
  OBVIOUS
<1>2. IsFiniteSet(old)
  <2>1. IsFiniteSet(1..Len(q))
    BY <1>1, FS_Interval
  <2>2. IsFiniteSet(g \ {k})
    BY <1>1, <2>1, FS_Subset
  <2> QED BY <2>2, Image
<1>3. \A u \in old : Sane(u, n)
  OBVIOUS
<1>4. P = (r.players \cup old) \cup {s}
  OBVIOUS
<1>5. Seated(now) + Cardinality(s.members) <= cap
  BY DEF BackfillAdds
<1> HIDE DEF P, s
<1>6. /\ now \in Room /\ now.players = r.players \cup old
      /\ now.host = r.host /\ now.source = r.source /\ now.target = r.target
      /\ \A p \in Pids : now.states[p] = IF p \in Members(old) THEN 0 ELSE r.states[p]
      /\ now.capacity <= r.capacity /\ \A u \in old : now.capacity <= u.max
  <2> HIDE DEF old
  <2> QED BY <1>1, <1>2, SeatParts
<1> HIDE DEF now
<1>7. r \in Room /\ IsFiniteSet(r.players) /\ \A u \in r.players : Sane(u, n)
  BY DEF RoomSane
<1>8. RoomSane(now, n)
  <2>1. IsFiniteSet(r.players \cup old)
    BY <1>2, <1>7, FS_Union
  <2>2. \A u \in now.players : Sane(u, n)
    BY <1>3, <1>6, <1>7
  <2> QED BY <1>6, <2>1, <2>2 DEF RoomSane
<1>9. Clean(now)
  <2> SUFFICES ASSUME NEW u \in now.players, NEW p \in u.members PROVE ~Failed(now, p)
    BY DEF Clean
  <2>1. p \in Pids
    BY <1>8, SearchParts DEF RoomSane, Sane
  <2>2. CASE p \in Members(old)
    BY <1>6, <2>1, <2>2 DEF Failed
  <2>3. CASE p \notin Members(old)
    <3>1. u \in r.players
      BY <1>6, <2>3 DEF Members
    <3>2. ~Failed(r, p)
      BY <3>1 DEF Clean
    <3> QED BY <1>6, <2>1, <2>3, <3>2 DEF Failed
  <2> QED BY <2>2, <2>3
<1>10. Seated(now) = Size(now.players) /\ Size(now.players) \in Nat /\ Party(now.players)
  BY <1>8, <1>9, SeatedType, RoomParty
<1>11. Party({s}) /\ Size({s}) <= Cardinality(s.members) /\ Cardinality(s.members) \in Nat
  <2>1. IsFiniteSet(s.members) /\ s.members \subseteq Pids
    BY <1>1, SearchParts DEF Sane
  <2> QED BY <2>1, SizeOne, FS_CardinalityType
<1>12. Party(P) /\ Size(P) <= Size(now.players) + Size({s})
  BY <1>4, <1>6, <1>10, <1>11, SizeJoined
<1>13. Size(P) \in Nat /\ Size({s}) \in Nat
  BY <1>11, <1>12, SeatsType
<1>14. now.capacity \in 1..8 /\ s.max \in 1..8
  BY <1>1, <1>6, RoomParts, SearchParts
<1>15. cap \in 1..8 /\ cap <= now.capacity /\ cap <= s.max
  BY <1>14, SmallerOf
<1> HIDE DEF cap
<1>16. Size(P) <= cap
  <2> DEFINE a == Size(P)
             b == Size(now.players)
             c == Size({s})
             d == Cardinality(s.members)
  <2>1. a \in Nat /\ b \in Nat /\ c \in Nat /\ d \in Nat /\ a <= b + c /\ c <= d /\ b + d <= cap
    BY <1>5, <1>10, <1>11, <1>12, <1>13
  <2> HIDE DEF a, b, c, d
  <2>2. a <= cap
    BY <1>15, <2>1
  <2> QED BY <2>2 DEF a
<1>17. Size(P) <= now.capacity
  BY <1>13, <1>14, <1>15, <1>16
<1>18. r.capacity \in Nat /\ Size(P) <= r.capacity
  <2>1. r.capacity \in Nat
    BY <1>7, RoomParts
  <2> QED BY <1>6, <1>13, <1>14, <1>17, <2>1
<1>19. ASSUME NEW j \in g PROVE Size(P) <= q[j].max
  <2>1. q[j].max \in 1..8
    BY SearchParts
  <2>2. CASE j = k
    BY <1>13, <1>14, <1>15, <1>16, <2>2 DEF s
  <2>3. CASE j # k
    <3>1. now.capacity <= q[j].max
      BY <1>6, <2>3
    <3> QED BY <1>13, <1>14, <1>17, <2>1, <3>1
  <2> QED BY <2>2, <2>3
<1> QED BY <1>18, <1>19 DEF P

LEMMA BackfillStage ==
  ASSUME NEW m, NEW n, NEW up, NEW i \in m.lv, Stage(m, n, up, NoRoom)
  PROVE  LET m2 == Backfill(m, i) IN Stage(m2, n, up, NoRoom) /\ i \in m2.lv
<1> DEFINE r == m.rs[i]
           adds == {x \in Turns(m.q) : BackfillAdds(r, m.q, x[1], x[2])}
           g == Greedy(m.q, adds)
           ss == {m.q[k] : k \in g}
           rs2 == Renew([m.rs EXCEPT ![i] = Seat(@, ss)], i)
           q2 == Keep(m.q, g)
           m2 == Backfill(m, i)
<1>1. CASE ~(r.open /\ r.target = NoRoom /\ r.source = NoRoom /\ g # {})
  <2>1. m2 = m
    BY <1>1 DEF Backfill
  <2> QED BY <2>1
<1>2. CASE r.open /\ r.target = NoRoom /\ r.source = NoRoom /\ g # {}
  <2>1. /\ Sound(m.rs, m.lv, m.q, m.told, n, up, NoRoom)
        /\ RoomsSane(m.rs, m.lv, n) /\ Told(m.rs, m.lv, m.q, m.told, n)
        /\ Calm(m.rs, i)
    BY CtrAssumption DEF Stage, Sound, RoomsSane
  <2>2. m = [rs |-> m.rs, lv |-> m.lv, q |-> m.q, told |-> m.told, sent |-> m.sent]
    BY DEF Stage
  <2>3. m2 = [m EXCEPT !.rs = rs2, !.q = q2, !.sent = TRUE]
    BY <1>2 DEF Backfill
  <2> HIDE DEF rs2, m2, q2
  <2>4. m2 = [rs |-> rs2, lv |-> m.lv, q |-> q2, told |-> m.told, sent |-> TRUE]
    BY <2>2, <2>3, StageEdits
  <2>5. m.q \in Seq(Search) /\ \A k \in DOMAIN m.q : Sane(m.q[k], n)
    BY <2>1 DEF Told
  <2>6. RoomSane(r, n) /\ Clean(r) /\ MaxId \in Nat /\ m.rs[i] = r
    BY <2>1 DEF RoomsSane, Calm
  <2> HIDE DEF r
  <2>7. g \in SUBSET DOMAIN m.q
    <3> HIDE DEF adds
    <3> QED BY <2>5, GreedyPass
  <2>8. PICK k \in g : <<g \ {k}, k>> \in adds
    <3> HIDE DEF adds
    <3> QED BY <1>2, <2>5, GreedyLast
  <2>9. BackfillAdds(r, m.q, g \ {k}, k)
    BY <2>8
  <2> HIDE DEF adds, g
  <2>10. Size(r.players \cup ss) <= r.capacity /\ \A j \in g : Size(r.players \cup ss) <= m.q[j].max
    BY <2>5, <2>6, <2>7, <2>9, BackfillFits
  <2>11. \A s \in ss : Size(r.players \cup ss) <= s.max
    BY <2>10
  <2>12. /\ Sound(m.rs, m.lv, q2, m.told, n, up, NoRoom)
         /\ IsFiniteSet(ss) /\ \A s \in ss : Sane(s, n) /\ s.id \notin m.told /\ s.conn \in up
         /\ \A s, u \in ss : s.pid = u.pid <=> s.id = u.id
         /\ \A s \in ss : \A j \in m.lv : \A u \in m.rs[j].players : s.pid # u.pid /\ s.id # u.id
         /\ \A s \in ss : \A l \in DOMAIN q2 : q2[l].pid # s.pid /\ q2[l].id # s.id
    BY <2>1, <2>7, TakenOut DEF q2
  <2> HIDE DEF ss
  <2>13. Sound(rs2, m.lv, q2, m.told, n, up, NoRoom)
    BY <1>2, <2>6, <2>10, <2>11, <2>12, SeatSound DEF rs2
  <2>14. m2.rs = rs2 /\ m2.lv = m.lv /\ m2.q = q2 /\ m2.told = m.told /\ m2.sent = TRUE
    BY <2>4
  <2>15. Stage(m2, n, up, NoRoom)
    BY <2>4, <2>13, <2>14 DEF Stage
  <2> QED BY <2>14, <2>15 DEF m2
<1> QED BY <1>1, <1>2

LEMMA MergeReserveSound ==
  ASSUME NEW rs, NEW lv, NEW q, NEW t, NEW n, NEW up, Sound(rs, lv, q, t, n, up, NoRoom),
         NEW i \in lv, NEW j \in lv, i # j,
         rs[i].source = NoRoom, rs[i].target = NoRoom, rs[j].source = NoRoom, rs[j].target = NoRoom,
         Occupancy(rs, i) + Occupancy(rs, j) <= Min({rs[i].capacity, rs[j].capacity})
  PROVE  Sound(MergeReserve(rs, i, j), lv, q, t, n, up, NoRoom)
<1> DEFINE f == Forget(rs[i].states, Members(rs[j].players))
           dst == [rs[i] EXCEPT !.source = j, !.states = f]
           src == [rs[j] EXCEPT !.target = i]
           rs1 == [rs EXCEPT ![i] = dst, ![j] = src]
<1>1. /\ RoomsSane(rs, lv, n) /\ Arranged(rs, lv) /\ Alone(rs, lv) /\ Aside(rs, lv, q)
      /\ Told(rs, lv, q, t, n) /\ Present(rs, lv, q, up)
      /\ NoRoom \notin lv /\ \A k \in lv : Calm(rs, k)
  BY CtrAssumption DEF Sound, RoomsSane
<1>2. /\ MaxId \in Nat /\ i \in DOMAIN rs /\ j \in DOMAIN rs /\ lv \subseteq DOMAIN rs
      /\ DOMAIN rs \subseteq 1..n /\ n \in 0..MaxId
      /\ rs = [k \in DOMAIN rs |-> rs[k]] /\ \A k \in DOMAIN rs : RoomSane(rs[k], n)
  BY <1>1 DEF RoomsSane
<1>3. rs[i] \in Room /\ rs[j] \in Room /\ i \in 1..n /\ j \in 1..n /\ i \in 1..MaxId /\ j \in 1..MaxId
  BY <1>2 DEF RoomSane
<1>4. MergeReserve(rs, i, j) = Renew(rs1, i)
  <2>1. [rs EXCEPT ![i].source = j, ![i].states = Forget(@, Members(rs[j].players)), ![j].target = i] = rs1
    BY <1>2, <1>3 DEF Room
  <2> QED BY <2>1 DEF MergeReserve
<1>5. f \in [Pids -> {0, 2, 3}]
      /\ \A p \in Pids : f[p] = IF p \in Members(rs[j].players) THEN 0 ELSE rs[i].states[p]
  BY <1>2, <1>3, RoomParts DEF Forget
<1> HIDE DEF f
<1>6. /\ dst \in Room /\ dst.players = rs[i].players /\ dst.host = rs[i].host /\ dst.states = f
      /\ dst.capacity = rs[i].capacity /\ dst.offers = rs[i].offers /\ dst.acked = rs[i].acked
      /\ dst.source = j /\ dst.target = NoRoom
  BY <1>3, <1>5 DEF Room
<1>7. /\ src \in Room /\ src.players = rs[j].players /\ src.host = rs[j].host
      /\ src.states = rs[j].states
      /\ src.capacity = rs[j].capacity /\ src.offers = rs[j].offers /\ src.acked = rs[j].acked
      /\ src.source = NoRoom /\ src.target = i
  BY <1>3 DEF Room
<1> HIDE DEF dst, src
<1>8. /\ DOMAIN rs1 = DOMAIN rs /\ rs1 = [k \in DOMAIN rs1 |-> rs1[k]]
      /\ rs1[i] = dst /\ rs1[j] = src /\ \A k \in DOMAIN rs \ {i, j} : rs1[k] = rs[k]
  BY <1>2
<1> HIDE DEF rs1
<1>9. RoomsSane(rs1, lv, n)
  <2>1. RoomSane(dst, n)
    BY <1>2, <1>3, <1>6 DEF RoomSane
  <2>2. RoomSane(src, n)
    BY <1>2, <1>3, <1>7 DEF RoomSane
  <2>3. \A k \in DOMAIN rs1 : RoomSane(rs1[k], n)
    BY <1>2, <1>8, <2>1, <2>2
  <2> QED BY <1>1, <1>8, <2>3 DEF RoomsSane
<1>10. \A k \in lv : /\ rs1[k].players = rs[k].players /\ rs1[k].host = rs[k].host
                     /\ rs1[k].acked = rs[k].acked
  BY <1>2, <1>6, <1>7, <1>8
<1>11. Coming(rs1, i) = rs[j].players /\ Coming(rs1, j) = {} /\ Coming(rs, i) = {} /\ Coming(rs, j) = {}
  <2>1. j # NoRoom
    BY <1>1
  <2> QED BY <1>6, <1>7, <1>8, <2>1 DEF Coming
<1>12. ASSUME NEW k \in lv \ {i, j}
       PROVE  HostSeated(rs1[k]) /\ Linked(rs1, lv, k) /\ Fits(rs1, k) /\ Offered(rs1, k) /\ Calm(rs1, k)
  <2>1. /\ HostSeated(rs[k]) /\ Linked(rs, lv, k) /\ Fits(rs, k) /\ Offered(rs, k) /\ Calm(rs, k)
        /\ k \in DOMAIN rs
    BY <1>1, <1>2 DEF Arranged
  <2>2. rs1[k] = rs[k] /\ k # NoRoom
    BY <1>1, <1>8, <2>1
  <2>3. rs[k].source # NoRoom => rs[k].source \in DOMAIN rs \ {i, j} /\ rs1[rs[k].source] = rs[rs[k].source]
    BY <1>8, <2>1, <2>2 DEF Linked
  <2>4. rs[k].target \in lv => rs[k].target \in DOMAIN rs \ {i, j} /\ rs1[rs[k].target] = rs[rs[k].target]
    BY <1>2, <1>8, <2>1, <2>2 DEF Linked
  <2>5. Linked(rs1, lv, k)
    BY <1>8, <2>1, <2>2, <2>3, <2>4 DEF Linked
  <2>6. Coming(rs1, k) = Coming(rs, k)
    BY <2>2, <2>3 DEF Coming
  <2>7. Fits(rs1, k)
    BY <2>1, <2>2, <2>3, <2>6 DEF Fits
  <2> QED BY <2>1, <2>2, <2>5, <2>6, <2>7 DEF Offered, Calm
<1>13. HostSeated(rs1[j]) /\ Linked(rs1, lv, j) /\ Fits(rs1, j) /\ Offered(rs1, j) /\ Calm(rs1, j)
  <2>1. HostSeated(rs[j]) /\ Fits(rs, j) /\ Offered(rs, j) /\ Calm(rs, j)
    BY <1>1 DEF Arranged
  <2>2. Linked(rs1, lv, j)
    BY <1>6, <1>7, <1>8 DEF Linked
  <2>3. HostSeated(rs1[j]) /\ Fits(rs1, j)
    BY <1>7, <1>8, <1>11, <2>1 DEF HostSeated, Fits
  <2>4. Offered(rs1, j)
    BY <1>7, <1>8, <1>11, <2>1 DEF Offered, Failed
  <2>5. Calm(rs1, j)
    BY <1>7, <1>8, <1>11, <2>1 DEF Calm, Clean, Failed
  <2> QED BY <2>2, <2>3, <2>4, <2>5
<1>14. HostSeated(rs1[i]) /\ Linked(rs1, lv, i) /\ Fits(rs1, i)
  <2>1. HostSeated(rs[i]) /\ Linked(rs, lv, i) /\ Linked(rs, lv, j) /\ Clean(rs[i]) /\ Clean(rs[j])
    BY <1>1 DEF Arranged, Calm
  <2>2. HostSeated(rs1[i])
    BY <1>6, <1>8, <2>1 DEF HostSeated
  <2>3. Linked(rs1, lv, i)
    BY <1>1, <1>2, <1>6, <1>7, <1>8 DEF Linked
  <2>4. Occupancy(rs, i) = Size(rs[i].players) /\ Occupancy(rs, j) = Size(rs[j].players)
        /\ Occupancy(rs, i) \in Nat /\ Occupancy(rs, j) \in Nat
    BY <1>1, <2>1, OccupancyType
  <2> DEFINE cap == Min({rs[i].capacity, rs[j].capacity})
             sum == Size(rs[i].players) + Size(rs[j].players)
  <2>5. rs[i].capacity \in 1..8 /\ rs[j].capacity \in 1..8
    BY <1>2, <1>3, RoomParts
  <2>6. cap \in 1..8 /\ cap <= rs[i].capacity /\ cap <= rs[j].capacity
    BY <2>5, SmallerOf
  <2>7. sum \in Nat /\ sum <= cap
    BY <2>4
  <2> HIDE DEF cap, sum
  <2>8. sum <= rs[i].capacity /\ sum <= rs[j].capacity
    BY <2>5, <2>6, <2>7
  <2>9. Fits(rs1, i)
    BY <1>6, <1>7, <1>8, <1>11, <2>8 DEF Fits, sum
  <2> QED BY <2>2, <2>3, <2>9
<1>15. Calm(rs1, i)
  <2>1. Clean(rs[i])
    BY <1>1 DEF Calm
  <2>2. \A s \in rs[i].players \cup rs[j].players : \A p \in s.members : p \in Pids
    BY <1>2, <1>3, RoomParts, SearchParts
  <2>3. ASSUME NEW s \in rs[i].players, NEW p \in s.members PROVE ~Failed(dst, p)
    <3>1. ~Failed(rs[i], p) /\ p \in Pids
      BY <2>1, <2>2 DEF Clean
    <3>2. f[p] # 3 \/ f[p] = rs[i].states[p]
      BY <1>5, <3>1
    <3> QED BY <1>6, <3>1, <3>2 DEF Failed
  <2>4. ASSUME NEW s \in rs[j].players, NEW p \in s.members PROVE dst.states[p] # 3
    <3>1. p \in Pids /\ p \in Members(rs[j].players)
      BY <2>2 DEF Members
    <3> QED BY <1>5, <1>6, <3>1
  <2> QED BY <1>6, <1>8, <1>11, <2>3, <2>4 DEF Calm, Clean
<1>16. Alone(rs1, lv) /\ Aside(rs1, lv, q) /\ Told(rs1, lv, q, t, n) /\ Present(rs1, lv, q, up)
  BY <1>1, <1>10, SeatedSame
<1>17. \A k \in lv : HostSeated(rs1[k]) /\ Linked(rs1, lv, k) /\ Fits(rs1, k) /\ Calm(rs1, k)
  BY <1>12, <1>13, <1>14, <1>15
<1>18. \A k \in lv \ {i} : Offered(rs1, k)
  BY <1>12, <1>13
<1>19. Ready(rs1, lv, q, t, n, up, NoRoom, i)
  BY <1>9, <1>16, <1>17, <1>18 DEF Ready
<1> QED BY <1>4, <1>19, RenewSound

LEMMA StartMergeStage ==
  ASSUME NEW m, NEW n, NEW up, NEW i \in m.lv, Stage(m, n, up, NoRoom)
  PROVE  Stage(StartMerge(m, i), n, up, NoRoom)
<1> DEFINE rs == Unlink(m.rs, m.lv, {i})
           lv == m.lv
           candidates == MergeSources(rs, lv, i)
           Best == CHOOSE j \in candidates : \A k \in candidates \ {j} : Before(rs, j, k)
           m2 == StartMerge(m, i)
<1>1. /\ Sound(m.rs, lv, m.q, m.told, n, up, NoRoom)
      /\ RoomsSane(m.rs, lv, n) /\ Arranged(m.rs, lv) /\ Told(m.rs, lv, m.q, m.told, n)
      /\ Present(m.rs, lv, m.q, up)
  BY DEF Stage, Sound
<1>2. m = [rs |-> m.rs, lv |-> m.lv, q |-> m.q, told |-> m.told, sent |-> m.sent]
  BY DEF Stage
<1>3. Shrunk(m.rs, lv, rs, lv)
  BY <1>1, UnlinkShrinks
<1>4. m.q \in Seq(Search) /\ Shorter(m.q, m.q)
  BY <1>1, SameShorter DEF Told
<1>5. Present(rs, lv, m.q, up)
  BY <1>1, <1>3, <1>4, ShrunkPresent
<1>6. Sound(rs, lv, m.q, m.told, n, up, NoRoom)
  BY <1>1, <1>3, <1>4, <1>5, ShrunkSound
<1> HIDE DEF rs
<1>7. CASE rs[i].target = NoRoom /\ rs[i].source = NoRoom /\ MergeOpen(rs, i) /\ candidates # {}
  <2>1. RoomsSane(rs, lv, n) /\ Arranged(rs, lv) /\ candidates \in SUBSET lv
    BY <1>6 DEF Sound, MergeSources
  <2>2. Best \in candidates
    <3>1. \E j \in candidates : \A k \in candidates \ {j} : Before(rs, j, k)
      BY <1>7, <2>1, FirstRoom
    <3> QED BY <3>1
  <2> HIDE DEF Best
  <2>3. /\ Best \in lv /\ Best # i /\ rs[Best].target = NoRoom /\ rs[Best].source = NoRoom
        /\ Occupancy(rs, i) + Occupancy(rs, Best) <= Min({rs[i].capacity, rs[Best].capacity})
    BY <2>2 DEF MergeSources
  <2> DEFINE rs2 == MergeReserve(rs, i, Best)
  <2>4. Sound(rs2, lv, m.q, m.told, n, up, NoRoom)
    BY <1>6, <1>7, <2>3, MergeReserveSound
  <2> HIDE DEF rs2
  <2>5. m2 = [m EXCEPT !.rs = rs2]
    BY <1>7 DEF StartMerge, rs, rs2, Best
  <2> HIDE DEF m2
  <2>6. m2 = [rs |-> rs2, lv |-> m.lv, q |-> m.q, told |-> m.told, sent |-> m.sent]
    BY <1>2, <2>5, StageEdits
  <2>7. m2.rs = rs2 /\ m2.lv = lv /\ m2.q = m.q /\ m2.told = m.told /\ m2.sent = m.sent
    BY <2>6
  <2>8. Stage(m2, n, up, NoRoom)
    BY <2>4, <2>6, <2>7 DEF Stage
  <2> QED BY <2>8 DEF m2
<1>8. CASE ~(rs[i].target = NoRoom /\ rs[i].source = NoRoom /\ MergeOpen(rs, i) /\ candidates # {})
  <2>1. m2 = [m EXCEPT !.rs = rs]
    BY <1>8 DEF StartMerge, rs
  <2> HIDE DEF m2
  <2>2. m2 = [rs |-> rs, lv |-> m.lv, q |-> m.q, told |-> m.told, sent |-> m.sent]
    BY <1>2, <2>1, StageEdits
  <2>3. m2.rs = rs /\ m2.lv = lv /\ m2.q = m.q /\ m2.told = m.told /\ m2.sent = m.sent
    BY <2>2
  <2>4. Stage(m2, n, up, NoRoom)
    BY <1>6, <2>2, <2>3 DEF Stage
  <2> QED BY <2>4 DEF m2
<1> QED BY <1>7, <1>8

LEMMA SyncSound ==
  ASSUME NEW m, NEW n, NEW up, NEW i \in m.lv, Stage(m, n, up, i), Heard(m.rs, i)
  PROVE  Stage(SyncStages(m, i), n, up, NoRoom)
<1> DEFINE m1 == FinishMerge(m, i)
           m2 == [m1 EXCEPT !.rs[i] = ReleaseFailed(@)]
           m3 == NotifyGuests(m2, i)
           m4 == Backfill(m3, i)
<1>1. Stage(m1, n, up, i) /\ i \in m1.lv /\ Heard(m1.rs, i) /\ m1.rs[i].source = NoRoom
  BY FinishSound
<1>2. SyncStages(m, i) = IF m4.sent THEN m4 ELSE StartMerge(m4, i)
  BY DEF SyncStages
<1> HIDE DEF m1
<1>3. Stage(m2, n, up, NoRoom) /\ i \in m2.lv /\ Heard(m2.rs, i)
  BY <1>1, ReleaseStage
<1> HIDE DEF m2
<1>4. Stage(m3, n, up, NoRoom) /\ i \in m3.lv
  BY <1>3, NotifyStage
<1> HIDE DEF m3
<1>5. Stage(m4, n, up, NoRoom) /\ i \in m4.lv
  BY <1>4, BackfillStage
<1> HIDE DEF m4
<1>6. Stage(StartMerge(m4, i), n, up, NoRoom)
  BY <1>5, StartMergeStage
<1> QED BY <1>2, <1>5, <1>6

-----------------------------------------------------------------------------
(* The operations *)
Up == {c \in Conns : phase[c] = "open"}

Inv ==
    /\ load \in Loads
    /\ phase \in [Conns -> {"new", "open", "closed"}]
    /\ Sound(rooms, live, waiting, told, ctrIDs, Up, NoRoom)

LEMMA InstallSound ==
  ASSUME NEW rs, NEW lv, NEW q, NEW t, NEW n, NEW up, Sound(rs, lv, q, t, n, up, NoRoom)
  PROVE  Sound(Reachable(rs, lv), lv, q, t, n, up, NoRoom)
<1>1. RoomsSane(rs, lv, n) /\ Arranged(rs, lv) /\ Told(rs, lv, q, t, n) /\ Present(rs, lv, q, up)
  BY DEF Sound
<1>2. Shrunk(rs, lv, Reachable(rs, lv), lv)
  BY <1>1, ReachableShrinks
<1>3. Shorter(q, q)
  BY <1>1, SameShorter DEF Told
<1>4. Present(Reachable(rs, lv), lv, q, up)
  BY <1>1, <1>2, <1>3, ShrunkPresent
<1> QED BY <1>2, <1>3, <1>4, ShrunkSound

LEMMA UpGrows ==
  ASSUME NEW rs, NEW lv, NEW q, NEW t, NEW n, NEW up, Sound(rs, lv, q, t, n, up, NoRoom),
         NEW up2, up \subseteq up2
  PROVE  Sound(rs, lv, q, t, n, up2, NoRoom)
BY DEF Sound, Present

LEMMA LeaveSound ==
  ASSUME Inv, NEW c, NEW is, Leave(c, is), UNCHANGED <<ctrIDs, told>>
  PROVE  /\ Sound(rooms', live', waiting', told', ctrIDs', Up, NoRoom)
         /\ is = live => Sound(rooms', live', waiting', told', ctrIDs', Up \ {c}, NoRoom)
<1> DEFINE rs == Without(rooms, live, c, is)
           lv == LiveWithout(rooms, live, c, is)
           ks == {k \in DOMAIN waiting : waiting[k].conn # c}
           q == Taking(waiting, ks)
<1>1. /\ Sound(rooms, live, waiting, told, ctrIDs, Up, NoRoom)
      /\ RoomsSane(rooms, live, ctrIDs) /\ Arranged(rooms, live)
      /\ Told(rooms, live, waiting, told, ctrIDs) /\ Present(rooms, live, waiting, Up)
  BY DEF Inv, Sound
<1>2. rooms' = Reachable(rs, lv) /\ live' = lv /\ waiting' = q
  BY DEF Leave, LeaveRooms, Install, Without, LiveWithout
<1>3. /\ Shrunk(rooms, live, rs, lv)
      /\ \A i \in lv : \A s \in rs[i].players : s \in rooms[i].players /\ (i \in is => s.conn # c)
  BY <1>1, LeaveShrinks
<1>4. waiting \in Seq(Search) /\ ks \in SUBSET DOMAIN waiting
  BY <1>1 DEF Told
<1>5. lv \subseteq live
  BY DEF LiveWithout
<1> HIDE DEF rs, lv
<1>6. Shorter(q, waiting) /\ \A k \in DOMAIN q : \E j \in ks : q[k] = waiting[j]
  <2> HIDE DEF ks
  <2> QED BY <1>4, TakingShorter
<1> HIDE DEF q
<1>7. Present(rs, lv, q, Up)
  BY <1>1, <1>3, <1>6, ShrunkPresent
<1>8. Sound(rs, lv, q, told, ctrIDs, Up, NoRoom)
  BY <1>1, <1>3, <1>6, <1>7, ShrunkSound
<1>9. Sound(Reachable(rs, lv), lv, q, told, ctrIDs, Up, NoRoom)
  BY <1>8, InstallSound
<1>10. ASSUME is = live
       PROVE  Sound(Reachable(rs, lv), lv, q, told, ctrIDs, Up \ {c}, NoRoom)
  <2>1. ASSUME NEW k \in DOMAIN q PROVE q[k].conn \in Up \ {c}
    BY <1>1, <1>6 DEF Present
  <2>2. ASSUME NEW i \in lv, NEW s \in rs[i].players PROVE s.conn \in Up \ {c}
    BY <1>1, <1>3, <1>5, <1>10 DEF Present
  <2>3. Present(rs, lv, q, Up \ {c})
    BY <2>1, <2>2 DEF Present
  <2>4. Sound(rs, lv, q, told, ctrIDs, Up \ {c}, NoRoom)
    BY <1>1, <1>3, <1>6, <2>3, ShrunkSound
  <2> QED BY <2>4, InstallSound
<1> QED BY <1>2, <1>9, <1>10

LEMMA CancelQueued ==
  ASSUME Inv, NEW c, NEW id, Cancel(c, id)
  PROVE  Sound(rooms', live', waiting', told', ctrIDs', Up, NoRoom)
<1>1. /\ Sound(rooms, live, waiting, told, ctrIDs, Up, NoRoom)
      /\ RoomsSane(rooms, live, ctrIDs) /\ Arranged(rooms, live)
      /\ Told(rooms, live, waiting, told, ctrIDs) /\ Present(rooms, live, waiting, Up)
  BY DEF Inv, Sound
<1>2. PICK k \in DOMAIN waiting : waiting' = Taking(waiting, DOMAIN waiting \ {k})
  BY DEF Cancel
<1> DEFINE ks == DOMAIN waiting \ {k}
           q == Taking(waiting, ks)
<1>3. waiting \in Seq(Search) /\ ks \in SUBSET DOMAIN waiting
  BY <1>1 DEF Told
<1>4. Shorter(q, waiting)
  <2> HIDE DEF ks
  <2> QED BY <1>3, TakingShorter
<1>5. Shrunk(rooms, live, rooms, live)
  BY <1>1, SameShrunk
<1>6. waiting' = q
  BY <1>2
<1> HIDE DEF q
<1>7. Present(rooms, live, q, Up)
  BY <1>1, <1>4, <1>5, ShrunkPresent
<1>8. Sound(rooms, live, q, told, ctrIDs, Up, NoRoom)
  BY <1>1, <1>4, <1>5, <1>7, ShrunkSound
<1> QED BY <1>6, <1>8 DEF Cancel

LEMMA SyncDocSound ==
  ASSUME Inv, NEW c, NEW i \in live, NEW offer \in rooms[i].offers, NEW open \in BOOLEAN,
         NEW states \in Reports(i), SyncDoc(c, i, offer, open, states)
  PROVE  Sound(rooms', live', waiting', told', ctrIDs', Up, NoRoom)
<1> DEFINE m0 == AcceptDoc(i, offer, open, states)
           m == SyncStages(m0, i)
<1>1. states \in [Pids -> {0, 2, 3}]
  BY DEF Reports
<1>2. Stage(m0, ctrIDs, Up, i) /\ i \in m0.lv /\ Heard(m0.rs, i)
  BY <1>1, AcceptSound DEF Inv
<1>3. rooms' = Reachable(m.rs, m.lv) /\ live' = m.lv /\ waiting' = m.q /\ told' = m.told
      /\ ctrIDs' = ctrIDs
  BY DEF SyncDoc, Install
<1> HIDE DEF m0
<1>4. Stage(m, ctrIDs, Up, NoRoom)
  BY <1>2, SyncSound
<1> HIDE DEF m
<1>5. Sound(Reachable(m.rs, m.lv), m.lv, m.q, m.told, ctrIDs, Up, NoRoom)
  BY <1>4, InstallSound DEF Stage
<1> QED BY <1>3, <1>5

(* A valid search, after the one it replaces was evicted.                   *)
LEMMA EnqueueBase ==
  ASSUME Inv, NEW c \in Conns, NEW d \in load.sends[c], phase[c] = "open", ctrIDs < MaxId,
         ValidSearch(c, d), NEW is
  PROVE  LET s == NewSearch(c, d)
             rs == Unlink(EvictedRooms(s), EvictedLive(s), is)
         IN  /\ Sound(rs, EvictedLive(s), Dequeued(s), told, ctrIDs + 1, Up, NoRoom)
             /\ RoomsSane(EvictedRooms(s), EvictedLive(s), ctrIDs)
             /\ Arranged(EvictedRooms(s), EvictedLive(s))
             /\ Sane(s, ctrIDs + 1) /\ s.pid \in s.members /\ s.id \notin told /\ s.conn \in Up
             /\ \A k \in DOMAIN Dequeued(s) : Dequeued(s)[k].pid # s.pid /\ Dequeued(s)[k].id # s.id
             /\ \A j \in EvictedLive(s) : \A u \in rs[j].players : s.pid # u.pid /\ s.id # u.id
<1> DEFINE n == ctrIDs
           s == NewSearch(c, d)
           E == EvictedRooms(s)
           lv == EvictedLive(s)
           q == Dequeued(s)
           rs == Unlink(E, lv, is)
           ks == {k \in DOMAIN waiting : waiting[k].pid # s.pid}
<1>1. /\ Sound(rooms, live, waiting, told, n, Up, NoRoom)
      /\ RoomsSane(rooms, live, n) /\ Arranged(rooms, live)
      /\ Told(rooms, live, waiting, told, n) /\ Present(rooms, live, waiting, Up)
      /\ load \in Loads
  BY DEF Inv, Sound
<1>2. MaxId \in Nat /\ n \in Nat /\ n + 1 \in n..MaxId /\ n + 1 \in 1..MaxId /\ ~(n + 1 <= n)
  BY <1>1 DEF RoomsSane
<1>3. /\ s.id = n + 1 /\ s.conn = c /\ s.pid = ConnPid[c] /\ s.members = d.members
      /\ s.min = d.min /\ s.max = d.max /\ s.filter = d.filter
      /\ s = [id |-> n + 1, conn |-> c, pid |-> ConnPid[c], members |-> d.members,
              min |-> d.min, max |-> d.max, filter |-> d.filter]
  BY DEF NewSearch
<1>4. /\ d.members \subseteq Pids /\ IsFiniteSet(d.members) /\ d.min \in Nat /\ d.max \in Nat
      /\ ConnPid[c] \in Pids
  BY <1>1, CtrAssumption
<1>5. d.min \in 1..8 /\ d.max \in 1..8 /\ ConnPid[c] \in d.members
  BY <1>4 DEF ValidSearch
<1>6. d.filter \in {x.filter : x \in UNION {load.sends[b] : b \in Conns}}
  OBVIOUS
<1>7. s \in Search
  BY <1>2, <1>3, <1>4, <1>5, <1>6 DEF Search
<1> HIDE DEF s
<1>8. Sane(s, n + 1) /\ s.pid \in s.members /\ s.conn \in Up
  BY <1>2, <1>3, <1>4, <1>5, <1>7 DEF Sane, Up
<1>9. s.id \notin told
  BY <1>1, <1>2, <1>3 DEF Told
<1>10. /\ Shrunk(rooms, live, E, lv)
       /\ \A i \in lv : \A u \in E[i].players : u \in rooms[i].players /\ u.pid # s.pid
  BY <1>1, EvictShrinks
<1>11. waiting \in Seq(Search) /\ ks \in SUBSET DOMAIN waiting
  BY <1>1 DEF Told
<1>12. Shorter(q, waiting) /\ \A k \in DOMAIN q : \E j \in ks : q[k] = waiting[j]
  <2>1. q = Taking(waiting, ks)
    BY DEF Dequeued
  <2> HIDE DEF ks, q
  <2> QED BY <1>11, <2>1, TakingShorter
<1>13. \A k \in DOMAIN q : q[k].pid # s.pid /\ q[k].id # s.id
  <2>1. \A j \in ks : waiting[j].pid # s.pid /\ waiting[j].id # s.id
    BY <1>1, <1>2, <1>3 DEF Told, Sane
  <2> HIDE DEF ks, q
  <2> QED BY <1>12, <2>1
<1> HIDE DEF E, lv, q
<1>14. Present(E, lv, q, Up)
  BY <1>1, <1>10, <1>12, ShrunkPresent
<1>15. Sound(E, lv, q, told, n, Up, NoRoom)
  BY <1>1, <1>10, <1>12, <1>14, ShrunkSound
<1>16. /\ RoomsSane(E, lv, n) /\ Arranged(E, lv) /\ Told(E, lv, q, told, n)
  BY <1>15 DEF Sound
<1>17. Shrunk(E, lv, rs, lv) /\ \A i \in lv : rs[i].players = E[i].players
  BY <1>16, UnlinkShrinks DEF RoomsSane
<1>18. Shorter(q, q)
  BY <1>16, SameShorter DEF Told
<1> HIDE DEF rs
<1>19. Present(rs, lv, q, Up)
  BY <1>14, <1>16, <1>17, <1>18, ShrunkPresent
<1>20. Sound(rs, lv, q, told, n, Up, NoRoom)
  BY <1>15, <1>17, <1>18, <1>19, ShrunkSound
<1>21. Sound(rs, lv, q, told, n + 1, Up, NoRoom)
  BY <1>2, <1>20, CountGrows
<1>22. \A j \in lv : \A u \in rs[j].players : s.pid # u.pid /\ s.id # u.id
  <2> SUFFICES ASSUME NEW j \in lv, NEW u \in rs[j].players PROVE s.pid # u.pid /\ s.id # u.id
    OBVIOUS
  <2>1. u \in rooms[j].players /\ u.pid # s.pid /\ j \in live
    BY <1>10, <1>17 DEF Shrunk
  <2>2. u.id <= n
    BY <1>1, <2>1 DEF RoomsSane, RoomSane, Sane
  <2> QED BY <1>2, <1>3, <2>1, <2>2
<1> QED BY <1>8, <1>9, <1>13, <1>16, <1>21, <1>22 DEF s, E, lv, q, rs

LEMMA JoinRoomSound ==
  ASSUME Inv, NEW c \in Conns, NEW d \in load.sends[c], phase[c] = "open", ctrIDs < MaxId,
         ValidSearch(c, d), JoinRoom(c, d)
  PROVE  Sound(rooms', live', waiting', told', ctrIDs', Up, NoRoom)
<1> DEFINE n == ctrIDs + 1
           s == NewSearch(c, d)
           E == EvictedRooms(s)
           lv == EvictedLive(s)
           q == Dequeued(s)
           T == Suitable(s)
           i == CHOOSE k \in T : \A j \in T \ {k} : Before(E, k, j)
           tried == {j \in lv : j = i \/ Before(E, j, i)}
           rs0 == Unlink(E, lv, lv)
           rs1 == Unlink(E, lv, tried)
           rs2 == Renew([rs1 EXCEPT ![i] = Seat(@, {s})], i)
<1>1. /\ T # {} /\ rooms' = Reachable(rs2, lv) /\ live' = lv /\ waiting' = q
      /\ told' = told /\ ctrIDs' = n
  BY DEF JoinRoom, Install
<1>2. /\ Sound(rs0, lv, q, told, n, Up, NoRoom) /\ RoomsSane(E, lv, ctrIDs) /\ Arranged(E, lv)
  BY EnqueueBase
<1>3. T \in SUBSET lv /\ \A k \in T : Suits(rs0, k, s)
  BY DEF Suitable
<1>4. i \in T
  <2>1. \E k \in T : \A j \in T \ {k} : Before(E, k, j)
    <3> HIDE DEF T, E, lv
    <3> QED BY <1>1, <1>2, <1>3, FirstRoom
  <2> HIDE DEF T
  <2> QED BY <2>1
<1>5. i \in lv /\ i \in tried /\ Suits(rs0, i, s)
  <2> HIDE DEF i, T
  <2> QED BY <1>3, <1>4
<1> HIDE DEF i, T
<1>6. /\ Sound(rs1, lv, q, told, n, Up, NoRoom)
      /\ Sane(s, n) /\ s.id \notin told /\ s.conn \in Up
      /\ \A k \in DOMAIN q : q[k].pid # s.pid /\ q[k].id # s.id
      /\ \A j \in lv : \A u \in rs1[j].players : s.pid # u.pid /\ s.id # u.id
  <2> HIDE DEF tried
  <2> QED BY EnqueueBase
<1>7. /\ rs1[i].players = rs0[i].players /\ rs1[i].source = rs0[i].source
      /\ rs1[i].capacity = rs0[i].capacity /\ rs1[i].target = rs0[i].target
  <2>1. i \in DOMAIN E
    BY <1>2, <1>5 DEF RoomsSane
  <2> QED BY <1>5, <2>1 DEF Unlink
<1> HIDE DEF s, E, lv, q, tried, rs0, rs1
<1>8. /\ RoomsSane(rs0, lv, n) /\ Linked(rs0, lv, i) /\ Clean(rs0[i]) /\ i \in lv
      /\ RoomsSane(rs1, lv, n) /\ MaxId \in Nat
  <2>1. NoRoom \notin lv
    BY <1>2, CtrAssumption DEF RoomsSane
  <2> QED BY <1>2, <1>5, <1>6, <2>1 DEF Sound, Arranged, Calm, RoomsSane
<1>9. /\ rs0[i].target = NoRoom /\ rs0[i].source = NoRoom
      /\ Occupancy(rs0, i) + Cardinality(s.members) <= rs0[i].capacity
      /\ Occupancy(rs0, i) + Cardinality(s.members) <= s.max
  BY <1>5 DEF Suits
<1>10. Occupancy(rs0, i) = Size(rs0[i].players) /\ Occupancy(rs0, i) \in Nat
  BY <1>8, <1>9, OccupancyType
<1>11. s \in Search /\ IsFiniteSet(s.members) /\ s.members \subseteq Pids /\ s.max \in Nat
  BY <1>6, <1>8, SearchParts DEF Sane
<1>12. Party({s}) /\ Size({s}) <= Cardinality(s.members) /\ Cardinality(s.members) \in Nat
  BY <1>11, SizeOne, FS_CardinalityType
<1> DEFINE P == rs1[i].players
<1>13. Party(P) /\ rs1[i].capacity \in Nat /\ i \in DOMAIN rs1
  <2>1. RoomSane(rs1[i], n) /\ i \in DOMAIN rs1
    BY <1>8 DEF RoomsSane
  <2> QED BY <1>8, <2>1, RoomParty, RoomParts DEF RoomSane
<1>14. Party(P \cup {s}) /\ Size(P \cup {s}) <= Size(P) + Size({s})
  BY <1>12, <1>13, SizeJoined
<1>15. Size(P \cup {s}) <= rs1[i].capacity /\ Size(P \cup {s}) <= s.max
  <2> DEFINE a == Size(P \cup {s})
             b == Size(P)
             x == Size({s})
             y == Cardinality(s.members)
             cap == rs1[i].capacity
             top == s.max
  <2>1. a \in Nat /\ b \in Nat /\ x \in Nat /\ y \in Nat /\ cap \in Nat /\ top \in Nat
    BY <1>11, <1>12, <1>13, <1>14, SeatsType
  <2>2. a <= b + x /\ x <= y
    BY <1>12, <1>14
  <2>3. b + y <= cap /\ b + y <= top
    BY <1>7, <1>9, <1>10
  <2> HIDE DEF a, b, x, y, cap, top
  <2>4. a <= cap /\ a <= top
    BY <2>1, <2>2, <2>3
  <2> QED BY <2>4 DEF a, cap, top
<1>16. Sound(rs2, lv, q, told, n, Up, NoRoom)
  <2>1. IsFiniteSet({s})
    BY FS_Singleton
  <2>2. rs1[i].source = NoRoom /\ rs1[i].target = NoRoom
    BY <1>7, <1>9
  <2> DEFINE ss == {s}
  <2>3. /\ \A u \in ss : Sane(u, n) /\ u.id \notin told /\ u.conn \in Up
        /\ \A u, v \in ss : u.pid = v.pid <=> u.id = v.id
        /\ \A u \in ss : \A j \in lv : \A v \in rs1[j].players : u.pid # v.pid /\ u.id # v.id
        /\ \A u \in ss : \A k \in DOMAIN q : q[k].pid # u.pid /\ q[k].id # u.id
        /\ Size(rs1[i].players \cup ss) <= rs1[i].capacity
        /\ \A u \in ss : Size(rs1[i].players \cup ss) <= u.max
        /\ IsFiniteSet(ss)
    BY <1>6, <1>15, <2>1
  <2> HIDE DEF ss
  <2>4. Sound(Renew([rs1 EXCEPT ![i] = Seat(@, ss)], i), lv, q, told, n, Up, NoRoom)
    BY <1>6, <1>8, <2>2, <2>3, SeatSound
  <2> QED BY <2>4 DEF ss
<1> HIDE DEF rs2
<1>17. Sound(Reachable(rs2, lv), lv, q, told, n, Up, NoRoom)
  BY <1>16, InstallSound
<1> QED BY <1>1, <1>17

LEMMA QueuedSound ==
  ASSUME Inv, NEW c \in Conns, NEW d \in load.sends[c], phase[c] = "open", ctrIDs < MaxId,
         ValidSearch(c, d)
  PROVE  LET s == NewSearch(c, d)
             rs == Unlink(EvictedRooms(s), EvictedLive(s), EvictedLive(s))
         IN  Sound(rs, EvictedLive(s), Append(Dequeued(s), s), told, ctrIDs + 1, Up, NoRoom)
<1> DEFINE n == ctrIDs + 1
           s == NewSearch(c, d)
           lv == EvictedLive(s)
           q == Dequeued(s)
           rs == Unlink(EvictedRooms(s), lv, lv)
<1>1. /\ Sound(rs, lv, q, told, n, Up, NoRoom)
      /\ Sane(s, n) /\ s.pid \in s.members /\ s.id \notin told /\ s.conn \in Up
      /\ \A k \in DOMAIN q : q[k].pid # s.pid /\ q[k].id # s.id
      /\ \A j \in lv : \A u \in rs[j].players : s.pid # u.pid /\ s.id # u.id
  BY EnqueueBase
<1> HIDE DEF s, lv, q, rs, n
<1>2. Sound(rs, lv, Append(q, s), told, n, Up, NoRoom)
  BY <1>1, AppendSound
<1> QED BY <1>2 DEF s, lv, q, rs, n

LEMMA WaitSound ==
  ASSUME Inv, NEW c \in Conns, NEW d \in load.sends[c], phase[c] = "open", ctrIDs < MaxId,
         ValidSearch(c, d), WaitInQueue(c, d)
  PROVE  Sound(rooms', live', waiting', told', ctrIDs', Up, NoRoom)
<1> DEFINE s == NewSearch(c, d)
           lv == EvictedLive(s)
           q == Append(Dequeued(s), s)
           rs == Unlink(EvictedRooms(s), lv, lv)
<1>1. rooms' = Reachable(rs, lv) /\ live' = lv /\ waiting' = q /\ told' = told /\ ctrIDs' = ctrIDs + 1
  BY DEF WaitInQueue, Install
<1>2. Sound(rs, lv, q, told, ctrIDs + 1, Up, NoRoom)
  BY QueuedSound
<1> HIDE DEF rs, lv, q
<1>3. Sound(Reachable(rs, lv), lv, q, told, ctrIDs + 1, Up, NoRoom)
  BY <1>2, InstallSound
<1> QED BY <1>1, <1>3

LEMMA FormRoomSound ==
  ASSUME Inv, NEW c \in Conns, NEW d \in load.sends[c], phase[c] = "open", ctrIDs < MaxId,
         ValidSearch(c, d), FormRoom(c, d)
  PROVE  Sound(rooms', live', waiting', told', ctrIDs', Up, NoRoom)
<1> DEFINE s == NewSearch(c, d)
           lv == EvictedLive(s)
           q == Append(Dequeued(s), s)
           adds == {x \in Turns(q) : GroupAdds(q, s.filter, x[1], x[2])}
           g == Group(q, s.filter)
           ss == {q[k] : k \in g}
           i == ctrIDs + 2
           rs == Unlink(EvictedRooms(s), lv, lv)
           rs2 == [j \in DOMAIN rs \cup {i} |-> IF j = i THEN NewRoom(q, g) ELSE rs[j]]
           lv2 == lv \cup {i}
           q2 == Keep(q, g)
           t2 == told \cup {q[Min(g)].id}
<1>1. /\ rooms' = Reachable(rs2, lv2) /\ live' = lv2 /\ waiting' = q2 /\ told' = t2 /\ ctrIDs' = i
      /\ i <= MaxId /\ Seats(ss, Pids) >= GroupMin(ss)
  BY DEF FormRoom, Install
<1>2. Sound(rs, lv, q, told, ctrIDs + 1, Up, NoRoom)
  BY QueuedSound
<1>3. g = Greedy(q, adds)
  BY DEF Group
<1> HIDE DEF rs, lv, q, g, adds
<1>4. q \in Seq(Search)
  BY <1>2 DEF Sound, Told
<1>5. g \in SUBSET DOMAIN q
  BY <1>3, <1>4, GreedyPass
<1>6. g # {}
  <2> SUFFICES ASSUME g = {} PROVE FALSE
    OBVIOUS
  <2>1. ss = {}
    OBVIOUS
  <2>2. Seats(ss, Pids) = 0
    BY <2>1, SizeNone DEF Size
  <2>3. GroupMin(ss) = Max({2})
    <3>1. {2} \cup {u.min : u \in ss} = {2}
      BY <2>1
    <3> QED BY <3>1 DEF GroupMin
  <2>4. Max({2}) \in {2}
    <3>1. {2} \in SUBSET Nat /\ IsFiniteSet({2}) /\ {2} # {}
      BY FS_Singleton
    <3> QED BY <3>1, Extremes
  <2> QED BY <1>1, <2>2, <2>3, <2>4
<1>7. PICK k \in g : <<g \ {k}, k>> \in adds
  BY <1>3, <1>4, <1>6, GreedyLast
<1>8. GroupAdds(q, s.filter, g \ {k}, k)
  BY <1>7 DEF adds
<1>9. Size(ss) <= GroupMax(ss)
  <2>1. {q[j] : j \in g \ {k}} \cup {q[k]} = ss
    OBVIOUS
  <2> QED BY <1>8, <2>1 DEF GroupAdds, Size
<1>10. ctrIDs \in Nat /\ i = (ctrIDs + 1) + 1
  BY DEF Inv, Sound, RoomsSane
<1>11. Sound(rs2, lv2, q2, t2, i, Up, NoRoom)
  <2> HIDE DEF i
  <2> DEFINE n == ctrIDs + 1
  <2>1. Size({q[j] : j \in g}) <= GroupMax({q[j] : j \in g})
    BY <1>9
  <2>2. i = n + 1 /\ i <= MaxId /\ Sound(rs, lv, q, told, n, Up, NoRoom)
    BY <1>1, <1>2, <1>10
  <2> HIDE DEF n
  <2>3. Sound(Formed(rs, q, g, i), lv \cup {i}, Keep(q, g), told \cup {q[Min(g)].id}, i, Up, NoRoom)
    <3> HIDE DEF ss, rs2, lv2, q2, t2
    <3> QED BY <1>5, <1>6, <2>1, <2>2, FormSound
  <2> QED BY <2>3 DEF Formed
<1> HIDE DEF rs2, lv2, q2, t2, i
<1>12. Sound(Reachable(rs2, lv2), lv2, q2, t2, i, Up, NoRoom)
  BY <1>11, InstallSound
<1> QED BY <1>1, <1>12

LEMMA InitSound ==
  ASSUME Init
  PROVE  Inv
<1>1. /\ load \in Loads /\ DOMAIN rooms = {} /\ live = {} /\ waiting = <<>> /\ told = {} /\ ctrIDs = 0
      /\ rooms = [i \in {} |-> 0]
  BY DEF Init
<1>2. MaxId \in Nat
  BY <1>1, CtrAssumption DEF MaxId
<1>3. phase \in [Conns -> {"new", "open", "closed"}]
  BY DEF Init
<1>4. rooms = [i \in DOMAIN rooms |-> rooms[i]]
  <2>1. rooms = [i \in {} |-> rooms[i]]
    BY <1>1
  <2> QED BY <1>1, <2>1
<1>5. RoomsSane(rooms, live, ctrIDs)
  BY <1>1, <1>2, <1>4 DEF RoomsSane
<1>6. waiting \in Seq(Search) /\ DOMAIN waiting = {}
  BY <1>1
<1>7. Sound(rooms, live, waiting, told, ctrIDs, Up, NoRoom)
  BY <1>1, <1>5, <1>6 DEF Sound, Arranged, Alone, Aside, Told, Present
<1> QED BY <1>1, <1>3, <1>7 DEF Inv

(* The invariant of the next state, read with the workload of this one.     *)
LEMMA SameLoad ==
  ASSUME load' = load, NEW up, Sound(rooms', live', waiting', told', ctrIDs', up', NoRoom)
  PROVE  Sound(rooms, live, waiting, told, ctrIDs, up, NoRoom)'
<1>1. MaxId' = MaxId /\ Search' = Search
  BY DEF MaxId, Search
<1>2. Room' = Room
  BY <1>1 DEF Room
<1> QED BY <1>1, <1>2 DEF Sound, RoomsSane, RoomSane, Sane, Told

LEMMA NextSound ==
  ASSUME Inv, [Next]_vars
  PROVE  Inv'
<1>1. CASE UNCHANGED vars
  <2>1. Sound(rooms', live', waiting', told', ctrIDs', Up', NoRoom)
    BY <1>1 DEF Inv, vars, Up
  <2> QED BY <1>1, <2>1, SameLoad DEF Inv, vars
<1>2. CASE Next
  <2>1. load' = load /\ load \in Loads
    BY <1>2 DEF Next, Inv
  <2>2. /\ phase' \in [Conns -> {"new", "open", "closed"}]
        /\ Sound(rooms', live', waiting', told', ctrIDs', Up', NoRoom)
    <3>1. PICK c \in Conns :
            \/ Connect(c)
            \/ Disconnect(c)
            \/ \E d \in load.sends[c] : Enqueue(c, d)
            \/ \E id \in 1..MaxId : Cancel(c, id)
            \/ \E is \in {{}, live} \cup {{i} : i \in live} : LobbyDisbanded(c, is)
            \/ \E i \in live :
                 \E offer \in rooms[i].offers, open \in BOOLEAN, states \in Reports(i) :
                    SyncDoc(c, i, offer, open, states)
      BY <1>2 DEF Next, Step
    <3>2. phase \in [Conns -> {"new", "open", "closed"}]
          /\ Sound(rooms, live, waiting, told, ctrIDs, Up, NoRoom)
      BY DEF Inv
    <3>3. ASSUME Connect(c)
          PROVE  /\ phase' \in [Conns -> {"new", "open", "closed"}]
                 /\ Sound(rooms', live', waiting', told', ctrIDs', Up', NoRoom)
      <4>1. phase' = [phase EXCEPT ![c] = "open"] /\ UNCHANGED <<ctrIDs, waiting, rooms, live, told>>
        BY <3>3 DEF Connect
      <4>2. Up \subseteq Up' /\ phase' \in [Conns -> {"new", "open", "closed"}]
        BY <3>2, <4>1 DEF Up
      <4> QED BY <3>2, <4>1, <4>2, UpGrows
    <3>4. ASSUME Disconnect(c)
          PROVE  /\ phase' \in [Conns -> {"new", "open", "closed"}]
                 /\ Sound(rooms', live', waiting', told', ctrIDs', Up', NoRoom)
      <4>1. phase' = [phase EXCEPT ![c] = "closed"] /\ Leave(c, live) /\ UNCHANGED <<ctrIDs, told>>
        BY <3>4 DEF Disconnect
      <4>2. Up' = Up \ {c} /\ phase' \in [Conns -> {"new", "open", "closed"}]
        BY <3>2, <4>1 DEF Up
      <4> QED BY <4>1, <4>2, LeaveSound
    <3>5. ASSUME NEW d \in load.sends[c], Enqueue(c, d)
          PROVE  phase' = phase /\ Sound(rooms', live', waiting', told', ctrIDs', Up, NoRoom)
      <4>1. /\ phase[c] = "open" /\ ctrIDs < MaxId /\ ValidSearch(c, d) /\ phase' = phase
            /\ JoinRoom(c, d) \/ WaitInQueue(c, d) \/ FormRoom(c, d)
        BY <3>5 DEF Enqueue
      <4> QED BY <4>1, JoinRoomSound, WaitSound, FormRoomSound
    <3>6. ASSUME NEW id, Cancel(c, id)
          PROVE  phase' = phase /\ Sound(rooms', live', waiting', told', ctrIDs', Up, NoRoom)
      BY <3>6, CancelQueued DEF Cancel
    <3>7. ASSUME NEW is, LobbyDisbanded(c, is)
          PROVE  phase' = phase /\ Sound(rooms', live', waiting', told', ctrIDs', Up, NoRoom)
      BY <3>7, LeaveSound DEF LobbyDisbanded
    <3>8. ASSUME NEW i \in live, NEW offer \in rooms[i].offers, NEW open \in BOOLEAN,
                 NEW states \in Reports(i), SyncDoc(c, i, offer, open, states)
          PROVE  phase' = phase /\ Sound(rooms', live', waiting', told', ctrIDs', Up, NoRoom)
      BY <3>8, SyncDocSound DEF SyncDoc
    <3>9. ASSUME phase' = phase PROVE Up' = Up
      BY <3>9 DEF Up
    <3> QED BY <3>1, <3>2, <3>3, <3>4, <3>5, <3>6, <3>7, <3>8, <3>9
  <2> QED BY <2>1, <2>2, SameLoad DEF Inv
<1> QED BY <1>1, <1>2 DEF vars

LEMMA Always == Spec => []Inv
<1>1. Init => Inv
  BY InitSound
<1>2. Inv /\ [Next]_vars => Inv'
  BY NextSound
<1> QED BY <1>1, <1>2, PTL DEF Spec

-----------------------------------------------------------------------------
(* Every variable has its type: in particular a room keeps a capacity of 1  *)
(* to 8 through joins, backfills and merges (the Min of seats), and a merge *)
(* leaves no dangling number outside the rooms that were given out.         *)
THEOREM TypeCorrect == Spec => []TypeOK
<1>1. Inv => TypeOK
  <2> SUFFICES ASSUME Inv PROVE TypeOK
    OBVIOUS
  <2>1. /\ load \in Loads /\ phase \in [Conns -> {"new", "open", "closed"}]
        /\ RoomsSane(rooms, live, ctrIDs) /\ Told(rooms, live, waiting, told, ctrIDs)
    BY DEF Inv, Sound
  <2>2. /\ MaxId \in Nat /\ ctrIDs \in 0..MaxId /\ DOMAIN rooms \subseteq 1..ctrIDs
        /\ rooms = [i \in DOMAIN rooms |-> rooms[i]] /\ \A i \in DOMAIN rooms : rooms[i] \in Room
        /\ live \subseteq DOMAIN rooms /\ waiting \in Seq(Search) /\ told \subseteq 1..ctrIDs
    BY <2>1 DEF RoomsSane, RoomSane, Told
  <2>3. rooms \in [DOMAIN rooms -> Room]
    BY <2>2
  <2>4. 1..ctrIDs \subseteq 1..MaxId
    BY <2>2
  <2> QED BY <2>1, <2>2, <2>3, <2>4 DEF TypeOK
<1> QED BY <1>1, Always, PTL

(* enqueue, backfill and the merges never leave two searches of one account *)
(* in the queue and the rooms (the evictions at the top of enqueue, and the *)
(* removal of the source room when its merge commits).                      *)
THEOREM LeaderInOnePlace == Spec => []LeaderOnce
<1>1. Inv => LeaderOnce
  <2> SUFFICES ASSUME Inv PROVE LeaderOnce
    OBVIOUS
  <2>1. Alone(rooms, live) /\ Aside(rooms, live, waiting)
    BY DEF Inv, Sound
  <2>2. \A j, k \in DOMAIN waiting : waiting[j].pid = waiting[k].pid => j = k
    BY <2>1 DEF Aside
  <2>3. ASSUME NEW i \in live, NEW s \in rooms[i].players
        PROVE  /\ \A t \in Queued : t.pid # s.pid
               /\ \A j \in live : \A t \in rooms[j].players : t.pid = s.pid => i = j /\ s.id = t.id
    <3>1. \A t \in Queued : t.pid # s.pid
      BY <2>1 DEF Aside, Queued
    <3>2. ASSUME NEW j \in live, NEW t \in rooms[j].players, t.pid = s.pid PROVE i = j /\ s.id = t.id
      BY <2>1, <3>2 DEF Alone
    <3> QED BY <3>1, <3>2
  <2> QED BY <2>2, <2>3 DEF LeaderOnce
<1> QED BY <1>1, Always, PTL

(* A room never holds, or reserves for a merge, more people than its seats, *)
(* whatever the sizes of the parties and whatever their hosts report        *)
(* (occupancy, and the sums that enqueue, backfill and startMerge compare). *)
THEOREM NoOverbooking == Spec => []SeatsRespected
<1>1. Inv => SeatsRespected
  <2> SUFFICES ASSUME Inv, NEW i \in live PROVE Occupancy(rooms, i) <= rooms[i].capacity
    BY DEF SeatsRespected
  <2>1. RoomsSane(rooms, live, ctrIDs) /\ Linked(rooms, live, i) /\ Fits(rooms, i)
    BY DEF Inv, Sound, Arranged
  <2> DEFINE occ == Occupancy(rooms, i)
             a == Size(rooms[i].players)
             b == Size(Coming(rooms, i))
             cap == rooms[i].capacity
  <2>2. occ \in Nat /\ occ <= a + b
    BY <2>1, OccupancyType
  <2>3. a \in Nat /\ b \in Nat
    BY <2>1, ComingParty
  <2>4. cap \in Nat
    BY <2>1, RoomParts DEF RoomsSane, RoomSane
  <2>5. a + b <= cap
    BY <2>1 DEF Fits
  <2> HIDE DEF occ, a, b, cap
  <2>6. occ <= cap
    BY <2>2, <2>3, <2>4, <2>5
  <2> QED BY <2>6 DEF occ, cap
<1> QED BY <1>1, Always, PTL

(* The leave of an ended connection (the deferred leave(l, 0)) leaves none  *)
(* of its searches behind, and every room of the map still has its host.    *)
THEOREM OnlyConnectedPlaced == Spec => []PlacedConnected
<1>1. Inv => PlacedConnected
  <2> SUFFICES ASSUME Inv PROVE PlacedConnected
    OBVIOUS
  <2>1. Present(rooms, live, waiting, Up) /\ \A i \in live : HostSeated(rooms[i])
    BY DEF Inv, Sound, Arranged
  <2>2. \A s \in Queued : phase[s.conn] = "open"
    BY <2>1 DEF Present, Queued, Up
  <2>3. ASSUME NEW i \in live
        PROVE  /\ \A s \in rooms[i].players : phase[s.conn] = "open"
               /\ \E s \in rooms[i].players : s.id = rooms[i].host.id
    BY <2>1 DEF Present, HostSeated, Up
  <2> QED BY <2>2, <2>3 DEF PlacedConnected
<1> QED BY <1>1, Always, PTL

(* No guest is told to join (2001, 2008) before its host uploaded a         *)
(* document composed from a list with that guest in it.                     *)
THEOREM HostDocumentFirst == Spec => []GuestsAcknowledged
<1>1. Inv => GuestsAcknowledged
  BY DEF Inv, Sound, Told, Acked, GuestsAcknowledged
<1> QED BY <1>1, Always, PTL

(* The two ends of a pending merge agree (mergeSource and mergeTarget), and *)
(* no room is promised twice.                                               *)
THEOREM MergeEndsAgree == Spec => []MergeLinked
<1>1. Inv => MergeLinked
  <2> SUFFICES ASSUME Inv, NEW i \in live
               PROVE  /\ rooms[i].source # NoRoom =>
                           LET src == rooms[rooms[i].source]
                           IN  src.target = i /\ src.source = NoRoom /\ rooms[i].target = NoRoom
                      /\ rooms[i].target \in live => rooms[rooms[i].target].source = i
    BY DEF MergeLinked
  <2>1. Linked(rooms, live, i)
    BY DEF Inv, Sound, Arranged
  <2> QED BY <2>1 DEF Linked
<1> QED BY <1>1, Always, PTL

=============================================================================
