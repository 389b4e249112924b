--------------------------- MODULE PlayersProofs ---------------------------
(***************************************************************************)
(* Proofs about the players of the lobby: about CtrStats, for any players, *)
(* boards, uploads and range of scores, and about Online, for any set of   *)
(* connections and any tickets. The two meet in `known`: the accounts that *)
(* may upload are those that Online has online, and the last theorem shows *)
(* that they come and go as CtrStats supposes.                             *)
(***************************************************************************)
EXTENDS Online, CtrStats, WellFoundedInduction, FiniteSetTheorems, TLAPS

CONSTANT CtrConns   \* the connections whose ticket is for CTR (title 5775)

-----------------------------------------------------------------------------
(* Induction over the natural numbers, for a set of them. *)
LEMMA NatSet ==
  ASSUME NEW T \in SUBSET Nat, 0 \in T, \A n \in T : n + 1 \in T
  PROVE  T = Nat
<1> DEFINE R == OpToRel(<, Nat)
           Bad == Nat \ T
<1>1. \A x, y \in Nat : <<x, y>> \in R <=> x < y
  BY DEF OpToRel
<1>2. IsWellFoundedOn(R, Nat)
  BY NatLessThanWellFounded
<1> HIDE DEF R
<1>3. SUFFICES ASSUME Bad # {} PROVE FALSE
  OBVIOUS
<1>4. PICK x \in Bad : \A y \in Bad : ~(<<y, x>> \in R)
  BY <1>2, <1>3, WFMin
<1>5. x \in Nat /\ x \notin T
  OBVIOUS
<1>6. x # 0
  BY <1>5
<1>7. x - 1 \in Nat /\ x - 1 < x
  BY <1>5, <1>6
<1>8. x - 1 \in T
  BY <1>1, <1>4, <1>5, <1>7
<1>9. (x - 1) + 1 \in T /\ (x - 1) + 1 = x
  BY <1>5, <1>8
<1> QED BY <1>5, <1>9

(* ... up to a number. *)
LEMMA Along ==
  ASSUME NEW n \in Nat, NEW Q, 0 \in Q, \A k \in Q : k \in 0..(n - 1) => k + 1 \in Q
  PROVE  n \in Q
<1> DEFINE T == {k \in Nat : k <= n => k \in Q}
<1>1. 0 \in T /\ \A k \in T : k + 1 \in T
  OBVIOUS
<1> HIDE DEF T
<1>2. T = Nat
  <2>1. T \in SUBSET Nat
    BY DEF T
  <2> QED BY <1>1, <2>1, NatSet
<1> QED BY <1>2 DEF T

-----------------------------------------------------------------------------
(* The writes of an upload are folded from left to right. *)
LEMMA MaxTop ==
  ASSUME NEW n \in Nat, NEW t \in SUBSET (1..(n + 1)), n + 1 \in t
  PROVE  Max(t) = n + 1
<1>1. \A x \in t : x <= n + 1 /\ x \in Nat
  OBVIOUS
<1>2. \A x \in t : (\A y \in t : x >= y) <=> x = n + 1
  BY <1>1
<1> QED BY <1>2 DEF Max

LEMMA MaxIn ==
  ASSUME NEW n \in Nat, NEW t \in SUBSET (1..n), t # {}
  PROVE  Max(t) \in t
<1> DEFINE T == {m \in Nat : \A u \in SUBSET (1..m) : u # {} => Max(u) \in u}
<1>1. 0 \in T
  <2>1. 1..0 = {}
    OBVIOUS
  <2> QED BY <2>1
<1>2. ASSUME NEW m \in T PROVE m + 1 \in T
  <2> SUFFICES ASSUME NEW u \in SUBSET (1..(m + 1)), u # {} PROVE Max(u) \in u
    OBVIOUS
  <2>1. CASE m + 1 \in u
    BY <2>1, MaxTop
  <2>2. CASE m + 1 \notin u
    <3>1. u \in SUBSET (1..m)
      BY <2>2
    <3> QED BY <3>1
  <2> QED BY <2>1, <2>2
<1>3. T = Nat
  <2>1. T \in SUBSET Nat
    OBVIOUS
  <2> HIDE DEF T
  <2> QED BY <1>1, <1>2, <2>1, NatSet
<1> QED BY <1>3

(* FoldLeft tabulates its result for every set of positions; the table      *)
(* exists if the results stay in some set I.                                *)
Fits(I, base, F, h, t) ==
    h[t] \in I /\ h[t] = IF t = {} THEN base ELSE F[<<h[t \ {Max(t)}], Max(t)>>]

Tabulates(I, base, n, F, h) ==
    h = [t \in SUBSET (1..n) |-> h[t]] /\ \A t \in SUBSET (1..n) : Fits(I, base, F, h, t)

LEMMA FoldTable ==
  ASSUME NEW I, NEW base \in I, NEW n \in Nat, NEW F, \A x \in I, k \in 1..n : F[<<x, k>>] \in I
  PROVE  \E h : Tabulates(I, base, n, F, h)
<1> DEFINE Q == {m \in Nat : m <= n => \E h : Tabulates(I, base, m, F, h)}
<1>1. 0 \in Q
  <2> DEFINE h == [t \in SUBSET (1..0) |-> base]
  <2>1. \A t \in SUBSET (1..0) : t = {}
    OBVIOUS
  <2>2. Tabulates(I, base, 0, F, h)
    BY <2>1 DEF Tabulates, Fits
  <2> QED BY <2>2
<1>2. ASSUME NEW m \in Q PROVE m + 1 \in Q
  <2> SUFFICES ASSUME m + 1 <= n PROVE \E h : Tabulates(I, base, m + 1, F, h)
    OBVIOUS
  <2>1. PICK h : Tabulates(I, base, m, F, h)
    OBVIOUS
  <2> DEFINE g == [t \in SUBSET (1..(m + 1)) |->
                     IF m + 1 \in t THEN F[<<h[t \ {m + 1}], m + 1>>] ELSE h[t]]
  <2>2. ASSUME NEW t \in SUBSET (1..(m + 1))
        PROVE  Fits(I, base, F, g, t)
    <3>1. CASE m + 1 \in t
      <4>1. Max(t) = m + 1
        BY <3>1, MaxTop
      <4>2. t \ {m + 1} \in SUBSET (1..m) /\ t \ {m + 1} \in SUBSET (1..(m + 1))
        <5>1. \A x \in 1..(m + 1) : x # m + 1 => x \in 1..m
          OBVIOUS
        <5> QED BY <5>1
      <4>3. g[t \ {m + 1}] = h[t \ {m + 1}] /\ h[t \ {m + 1}] \in I
        BY <2>1, <4>2 DEF Tabulates, Fits
      <4>4. g[t] = F[<<h[t \ {m + 1}], m + 1>>]
        BY <3>1
      <4> HIDE DEF g
      <4>5. m + 1 \in 1..n
        OBVIOUS
      <4>6. g[t] \in I
        BY <4>3, <4>4, <4>5
      <4> QED BY <3>1, <4>1, <4>3, <4>4, <4>6 DEF Fits
    <3>2. CASE m + 1 \notin t
      <4>1. t \in SUBSET (1..m)
        BY <3>2
      <4>2. t \ {Max(t)} \in SUBSET (1..m) /\ t \ {Max(t)} \in SUBSET (1..(m + 1))
        BY <4>1
      <4>3. g[t] = h[t] /\ g[t \ {Max(t)}] = h[t \ {Max(t)}]
        BY <3>2, <4>2
      <4>4. Fits(I, base, F, h, t)
        BY <2>1, <4>1 DEF Tabulates
      <4> HIDE DEF g
      <4> QED BY <4>3, <4>4 DEF Fits
    <3> QED BY <3>1, <3>2
  <2>3. g = [t \in SUBSET (1..(m + 1)) |-> g[t]]
    OBVIOUS
  <2> HIDE DEF g
  <2>4. Tabulates(I, base, m + 1, F, g)
    BY <2>2, <2>3 DEF Tabulates
  <2> QED BY <2>4
<1>3. Q = Nat
  <2>1. Q \in SUBSET Nat
    OBVIOUS
  <2> HIDE DEF Q
  <2> QED BY <1>1, <1>2, <2>1, NatSet
<1> QED BY <1>3

LEMMA Prefix ==
  ASSUME NEW n \in Nat, NEW k \in 1..n
  PROVE  /\ Max(1..k) = k /\ (1..k) \ {k} = 1..(k - 1)
         /\ 1..k # {} /\ 1..k \in SUBSET (1..n) /\ 1..(k - 1) \in SUBSET (1..n)
<1>1. PICK m \in Nat : k = m + 1
  OBVIOUS
<1>2. Max(1..k) = k
  <2>1. m + 1 \in 1..(m + 1) /\ 1..(m + 1) \in SUBSET (1..(m + 1))
    OBVIOUS
  <2> QED BY <1>1, <2>1, MaxTop
<1>3. \A x : x \in (1..k) \ {k} <=> x \in 1..(k - 1)
  OBVIOUS
<1>4. k \in 1..k /\ \A x \in 1..k : x \in 1..n
  OBVIOUS
<1>5. \A x \in 1..(k - 1) : x \in 1..n
  OBVIOUS
<1> QED BY <1>2, <1>3, <1>4, <1>5

(* Writes that parseStatWrites lets pass. *)
Sound == {w \in Write : /\ w.op \in {0, 1, 4}
                        /\ w.board \in OctaneBoards => w.op = 4}

ApplyRun(g, base, writes) ==
    /\ g[0] = base /\ g[Len(writes)] = FoldLeft(Apply, base, writes)
    /\ \A k \in 1..Len(writes) : g[k] = Apply(g[k - 1], writes[k])

(* The state after each write, on the copy of the file ... *)
LEMMA ApplySteps ==
  ASSUME NEW I, NEW base \in I, NEW writes \in Seq(Sound),
         \A s \in I, w \in Sound : Apply(s, w) \in I
  PROVE  \E g \in [0..Len(writes) -> I] : ApplyRun(g, base, writes)
<1> DEFINE n == Len(writes)
           F == [y \in I \X (1..n) |-> Apply(y[1], writes[y[2]])]
           Table(h) == h = [t \in SUBSET DOMAIN writes |->
                              IF t = {} THEN base ELSE Apply(h[t \ {Max(t)}], writes[Max(t)])]
           table == CHOOSE h : Table(h)
           g == [k \in 0..n |-> table[1..k]]
<1>1. n \in Nat /\ DOMAIN writes = 1..n /\ \A k \in 1..n : writes[k] \in Sound
  OBVIOUS
<1>2. \A s \in I, k \in 1..n : F[<<s, k>>] = Apply(s, writes[k]) /\ F[<<s, k>>] \in I
  BY <1>1
<1> HIDE DEF F, n
<1>3. PICK h : Tabulates(I, base, n, F, h)
  BY <1>1, <1>2, FoldTable
<1>4. ASSUME NEW t \in SUBSET (1..n)
      PROVE  h[t] = IF t = {} THEN base ELSE Apply(h[t \ {Max(t)}], writes[Max(t)])
  <2>1. CASE t = {}
    BY <1>3, <2>1 DEF Tabulates, Fits
  <2>2. CASE t # {}
    <3>1. Max(t) \in 1..n /\ t \ {Max(t)} \in SUBSET (1..n)
      BY <1>1, <2>2, MaxIn
    <3> QED BY <1>2, <1>3, <2>2, <3>1 DEF Tabulates, Fits
  <2> QED BY <2>1, <2>2
<1>5. Table(h)
  BY <1>1, <1>3, <1>4 DEF Tabulates
<1>6. Table(table)
  BY <1>5
<1>7. FoldLeft(Apply, base, writes) = table[DOMAIN writes]
  BY DEF FoldLeft, MapThenFoldSet
<1> HIDE DEF table
<1>8. ASSUME NEW k \in 1..n PROVE table[1..k] = Apply(table[1..(k - 1)], writes[k])
  <2>1. /\ Max(1..k) = k /\ (1..k) \ {k} = 1..(k - 1)
        /\ 1..k # {} /\ 1..k \in SUBSET (1..n)
    BY <1>1, Prefix
  <2>2. table[1..k] = Apply(table[(1..k) \ {k}], writes[k])
    BY <1>1, <1>6, <2>1
  <2> QED BY <2>1, <2>2
<1>9. table[1..0] = base
  <2>1. 1..0 = {} /\ {} \in SUBSET (1..n)
    OBVIOUS
  <2> QED BY <1>1, <1>6, <2>1
<1>10. \A m \in 0..n : table[1..m] \in I
  <2> SUFFICES ASSUME NEW m \in 0..n PROVE table[1..m] \in I
    OBVIOUS
  <2> DEFINE Q == {k \in 0..n : table[1..k] \in I}
  <2>1. 0 \in Q
    BY <1>1, <1>9
  <2>2. ASSUME NEW k \in Q, k \in 0..(m - 1) PROVE k + 1 \in Q
    <3>1. k + 1 \in 1..n /\ (k + 1) - 1 = k
      BY <1>1, <2>2
    <3>2. table[1..(k + 1)] = Apply(table[1..k], writes[k + 1])
      BY <1>8, <3>1
    <3> QED BY <1>1, <3>1, <3>2
  <2> HIDE DEF Q
  <2>3. m \in Nat
    BY <1>1
  <2>4. m \in Q
    BY <2>1, <2>2, <2>3, Along
  <2> QED BY <2>4 DEF Q
<1>11. g \in [0..n -> I] /\ g[0] = base /\ g[n] = FoldLeft(Apply, base, writes)
  BY <1>1, <1>7, <1>9, <1>10
<1>12. ASSUME NEW k \in 1..n PROVE g[k] = Apply(g[k - 1], writes[k])
  <2>1. k \in 0..n /\ k - 1 \in 0..n
    BY <1>1
  <2> QED BY <1>8, <2>1
<1> HIDE DEF g
<1> QED BY <1>11, <1>12 DEF n, ApplyRun

MeantRun(g, base, writes) ==
    /\ g[0] = base /\ g[Len(writes)] = FoldLeft(Meant, base, writes)
    /\ \A k \in 1..Len(writes) : g[k] = Meant(g[k - 1], writes[k])

(* ... and without limits of size. *)
LEMMA MeantSteps ==
  ASSUME NEW I, NEW base \in I, NEW writes \in Seq(Sound),
         \A s \in I, w \in Sound : Meant(s, w) \in I
  PROVE  \E g \in [0..Len(writes) -> I] : MeantRun(g, base, writes)
<1> DEFINE n == Len(writes)
           F == [y \in I \X (1..n) |-> Meant(y[1], writes[y[2]])]
           Table(h) == h = [t \in SUBSET DOMAIN writes |->
                              IF t = {} THEN base ELSE Meant(h[t \ {Max(t)}], writes[Max(t)])]
           table == CHOOSE h : Table(h)
           g == [k \in 0..n |-> table[1..k]]
<1>1. n \in Nat /\ DOMAIN writes = 1..n /\ \A k \in 1..n : writes[k] \in Sound
  OBVIOUS
<1>2. \A s \in I, k \in 1..n : F[<<s, k>>] = Meant(s, writes[k]) /\ F[<<s, k>>] \in I
  BY <1>1
<1> HIDE DEF F, n
<1>3. PICK h : Tabulates(I, base, n, F, h)
  BY <1>1, <1>2, FoldTable
<1>4. ASSUME NEW t \in SUBSET (1..n)
      PROVE  h[t] = IF t = {} THEN base ELSE Meant(h[t \ {Max(t)}], writes[Max(t)])
  <2>1. CASE t = {}
    BY <1>3, <2>1 DEF Tabulates, Fits
  <2>2. CASE t # {}
    <3>1. Max(t) \in 1..n /\ t \ {Max(t)} \in SUBSET (1..n)
      BY <1>1, <2>2, MaxIn
    <3> QED BY <1>2, <1>3, <2>2, <3>1 DEF Tabulates, Fits
  <2> QED BY <2>1, <2>2
<1>5. Table(h)
  BY <1>1, <1>3, <1>4 DEF Tabulates
<1>6. Table(table)
  BY <1>5
<1>7. FoldLeft(Meant, base, writes) = table[DOMAIN writes]
  BY DEF FoldLeft, MapThenFoldSet
<1> HIDE DEF table
<1>8. ASSUME NEW k \in 1..n PROVE table[1..k] = Meant(table[1..(k - 1)], writes[k])
  <2>1. /\ Max(1..k) = k /\ (1..k) \ {k} = 1..(k - 1)
        /\ 1..k # {} /\ 1..k \in SUBSET (1..n)
    BY <1>1, Prefix
  <2>2. table[1..k] = Meant(table[(1..k) \ {k}], writes[k])
    BY <1>1, <1>6, <2>1
  <2> QED BY <2>1, <2>2
<1>9. table[1..0] = base
  <2>1. 1..0 = {} /\ {} \in SUBSET (1..n)
    OBVIOUS
  <2> QED BY <1>1, <1>6, <2>1
<1>10. \A m \in 0..n : table[1..m] \in I
  <2> SUFFICES ASSUME NEW m \in 0..n PROVE table[1..m] \in I
    OBVIOUS
  <2> DEFINE Q == {k \in 0..n : table[1..k] \in I}
  <2>1. 0 \in Q
    BY <1>1, <1>9
  <2>2. ASSUME NEW k \in Q, k \in 0..(m - 1) PROVE k + 1 \in Q
    <3>1. k + 1 \in 1..n /\ (k + 1) - 1 = k
      BY <1>1, <2>2
    <3>2. table[1..(k + 1)] = Meant(table[1..k], writes[k + 1])
      BY <1>8, <3>1
    <3> QED BY <1>1, <3>1, <3>2
  <2> HIDE DEF Q
  <2>3. m \in Nat
    BY <1>1
  <2>4. m \in Q
    BY <2>1, <2>2, <2>3, Along
  <2> QED BY <2>4 DEF Q
<1>11. g \in [0..n -> I] /\ g[0] = base /\ g[n] = FoldLeft(Meant, base, writes)
  BY <1>1, <1>7, <1>9, <1>10
<1>12. ASSUME NEW k \in 1..n PROVE g[k] = Meant(g[k - 1], writes[k])
  <2>1. k \in 0..n /\ k - 1 \in 0..n
    BY <1>1
  <2> QED BY <1>8, <2>1
<1> HIDE DEF g
<1> QED BY <1>11, <1>12 DEF n, MeantRun

-----------------------------------------------------------------------------
(* One write. *)
Rows == [Boards -> [Pids -> Scores \cup {None}]]
Totals == [Boards -> [Pids -> Int \cup {None}]]
Copy == [ok : BOOLEAN, rows : Rows]

(* What a write means for the score in its place. *)
Value(x, w) ==
    CASE w.op = 0 -> w.score
      [] w.op = 1 -> Score(x) + w.score
      [] w.op = 4 -> IF x = None THEN w.score ELSE Max({x, w.score})

LEMMA ScoreRange ==
  /\ MaxScore \in Nat /\ MinScore \in Int /\ None \notin Int /\ Scores \subseteq Int
  /\ \A x \in Int : x \in Scores <=> MinScore <= x /\ x <= MaxScore
  /\ 0 \in Scores
BY StatsAssumption DEF MinScore, Scores

LEMMA RowsTotals == Rows \subseteq Totals
<1> SUFFICES ASSUME NEW r \in Rows PROVE r \in Totals
  OBVIOUS
<1>1. \A b \in Boards : r[b] \in [Pids -> Scores \cup {None}]
  BY DEF Rows
<1>2. \A b \in Boards : r[b] \in [Pids -> Int \cup {None}]
  <2> SUFFICES ASSUME NEW b \in Boards PROVE r[b] \in [Pids -> Int \cup {None}]
    OBVIOUS
  <2>1. \A p \in Pids : r[b][p] \in Scores \cup {None}
    BY <1>1
  <2> QED BY <1>1, <2>1, ScoreRange
<1> QED BY <1>2 DEF Rows, Totals

LEMMA WrapFits ==
  ASSUME NEW x \in Int
  PROVE  Wrap(x) \in Scores /\ (x \in Scores => Wrap(x) = x)
<1> DEFINE n == 2 * (MaxScore + 1)
           y == x - MinScore
           q == y \div n
           r == y % n
<1>1. n \in Nat /\ n > 0 /\ y \in Int
  BY ScoreRange
<1>2. n = MaxScore - MinScore + 1
  BY ScoreRange DEF MinScore
<1>3. Wrap(x) = r + MinScore
  BY DEF Wrap
<1> HIDE DEF n
<1>4. r \in 0..(n - 1) /\ q \in Int /\ y = n * q + r
  BY <1>1
<1>5. Wrap(x) \in Scores
  BY <1>1, <1>2, <1>3, <1>4, ScoreRange
<1>6. ASSUME x \in Scores PROVE Wrap(x) = x
  <2>1. y \in 0..(n - 1)
    BY <1>2, <1>6, ScoreRange
  <2> HIDE DEF y, q, r
  <2>2. ~(q >= 1)
    <3>1. q >= 1 => n * q >= n
      BY <1>1, <1>4
    <3> QED BY <1>1, <1>4, <2>1, <3>1
  <2>3. ~(q <= -1)
    <3>1. q <= -1 => n * q <= -n
      BY <1>1, <1>4
    <3> QED BY <1>1, <1>4, <2>1, <3>1
  <2>4. q = 0
    BY <1>4, <2>2, <2>3
  <2>5. y = r
    BY <1>1, <1>4, <2>4
  <2> QED BY <1>3, <2>5, ScoreRange DEF y
<1> QED BY <1>5, <1>6

LEMMA MaxOfTwo ==
  ASSUME NEW x \in Int, NEW y \in Int
  PROVE  Max({x, y}) = IF x >= y THEN x ELSE y
<1> DEFINE m == IF x >= y THEN x ELSE y
<1>1. \A z \in {x, y} : (\A v \in {x, y} : z >= v) <=> z = m
  OBVIOUS
<1>2. m \in {x, y}
  OBVIOUS
<1> HIDE DEF m
<1> QED BY <1>1, <1>2 DEF Max, m

LEMMA WriteParts ==
  ASSUME NEW w \in Sound
  PROVE  /\ w.board \in Boards /\ w.entity \in Pids /\ w.score \in Scores /\ w.score \in Int
         /\ w.op \in {0, 1, 4}
         /\ w.op = 0 \/ w.op = 1 \/ w.op = 4
BY ScoreRange DEF Sound, Write

LEMMA MeantValue ==
  ASSUME NEW t \in Totals, NEW w \in Sound
  PROVE  /\ Meant(t, w) \in Totals
         /\ Meant(t, w) = [t EXCEPT ![w.board][w.entity] = Value(t[w.board][w.entity], w)]
         /\ Value(t[w.board][w.entity], w) \in Int
<1> DEFINE x == t[w.board][w.entity]
<1>1. x \in Int \cup {None} /\ Score(x) \in Int
  BY WriteParts, ScoreRange DEF Totals, Score
<1>2. Value(x, w) \in Int
  <2>1. x \in Int => Max({x, w.score}) \in Int
    BY MaxOfTwo, WriteParts
  <2> QED BY <1>1, <2>1, WriteParts DEF Value
<1>3. Meant(t, w) = [t EXCEPT ![w.board][w.entity] = Value(t[w.board][w.entity], w)]
  BY DEF Meant, Value
<1> HIDE DEF x
<1>4. Meant(t, w) \in Totals
  <2>1. [t[w.board] EXCEPT ![w.entity] = Value(x, w)] \in [Pids -> Int \cup {None}]
    BY <1>2, WriteParts DEF Totals
  <2> QED BY <1>3, <2>1, WriteParts DEF Totals, x
<1> QED BY <1>2, <1>3, <1>4 DEF x

LEMMA ApplyValue ==
  ASSUME NEW s \in Copy, NEW w \in Sound
  PROVE  /\ Apply(s, w) \in Copy
         /\ Apply(s, w).ok => s.ok /\ Apply(s, w).rows = Meant(s.rows, w)
<1> DEFINE old == s.rows[w.board][w.entity]
           next == CASE w.op = 0 -> w.score
                     [] w.op = 1 -> Wrap(Score(old) + w.score)
                     [] w.op = 4 -> IF old # None /\ old >= w.score THEN old ELSE w.score
           fails == ~s.ok \/ (w.op = 1 /\ Overflows(Score(old), w.score))
<1>1. s.rows \in Rows /\ s.rows \in Totals /\ s.ok \in BOOLEAN
  BY RowsTotals DEF Copy
<1>2. old \in Scores \cup {None} /\ Score(old) \in Scores /\ Score(old) \in Int
  <2>1. old \in Scores \cup {None}
    BY <1>1, WriteParts DEF Rows
  <2> HIDE DEF old
  <2> QED BY <2>1, ScoreRange DEF Score
<1>3. Score(old) + w.score \in Int
  BY <1>2, WriteParts
<1>4. next \in Scores
  BY <1>2, <1>3, WriteParts, WrapFits
<1>5. ~fails => next = Value(old, w)
  <2>1. CASE w.op = 0
    BY <2>1 DEF Value
  <2>2. CASE w.op = 1
    <3>1. ~Overflows(Score(old), w.score) => Score(old) + w.score \in Scores
      BY <1>2, <1>3, WriteParts, ScoreRange DEF Overflows
    <3> QED BY <1>3, <2>2, <3>1, WrapFits DEF Value
  <2>3. CASE w.op = 4
    <3>1. old # None => Max({old, w.score}) = IF old >= w.score THEN old ELSE w.score
      BY <1>2, WriteParts, ScoreRange, MaxOfTwo
    <3> QED BY <2>3, <3>1 DEF Value
  <2> QED BY <2>1, <2>2, <2>3, WriteParts
<1>6. Apply(s, w) = IF fails THEN [s EXCEPT !.ok = FALSE]
                    ELSE [s EXCEPT !.rows[w.board][w.entity] = next]
  BY DEF Apply
<1> HIDE DEF next, fails
<1>7. CASE fails
  <2>1. Apply(s, w) = [s EXCEPT !.ok = FALSE]
    BY <1>6, <1>7
  <2>2. Apply(s, w) \in Copy /\ ~Apply(s, w).ok
    BY <2>1 DEF Copy
  <2> QED BY <2>2
<1>8. CASE ~fails
  <2> DEFINE after == [s.rows EXCEPT ![w.board][w.entity] = next]
  <2>1. Apply(s, w) = [s EXCEPT !.rows = after]
    BY <1>6, <1>8
  <2>2. after \in Rows
    <3>1. [s.rows[w.board] EXCEPT ![w.entity] = next] \in [Pids -> Scores \cup {None}]
      BY <1>1, <1>4, WriteParts DEF Rows
    <3> QED BY <1>1, <3>1, WriteParts DEF Rows
  <2>3. after = Meant(s.rows, w)
    BY <1>1, <1>5, <1>8, MeantValue DEF old
  <2> HIDE DEF after
  <2>4. Apply(s, w) \in Copy /\ Apply(s, w).rows = after
    BY <2>1, <2>2 DEF Copy
  <2>5. s.ok
    BY <1>8 DEF fails
  <2> QED BY <2>3, <2>4, <2>5
<1> QED BY <1>7, <1>8

-----------------------------------------------------------------------------
(* A whole upload. *)
BestOf(x, S) == IF S = {} THEN x = None ELSE x \in S /\ \A y \in S : y <= x

Best == \A b \in OctaneBoards, p \in Pids : BestOf(total[b][p], acked[b][p])

IInv == TypeOK /\ ScoresExact /\ Best

(* The scores among the first k writes. *)
Given(writes, b, p, k) ==
    {writes[j].score : j \in {i \in 1..k : writes[i].board = b /\ writes[i].entity = p}}

LEMMA BestMore ==
  ASSUME NEW S \in SUBSET Scores, NEW x, BestOf(x, S), NEW w \in Sound, w.op = 4
  PROVE  BestOf(Value(x, w), S \cup {w.score})
<1>1. Value(x, w) = IF x = None THEN w.score ELSE Max({x, w.score})
  BY DEF Value
<1>2. w.score \in Int /\ \A y \in S : y \in Int
  BY WriteParts, ScoreRange
<1>3. CASE S = {}
  BY <1>1, <1>2, <1>3 DEF BestOf
<1>4. CASE S # {}
  <2>1. x \in S /\ x \in Int /\ x # None /\ \A y \in S : y <= x
    BY <1>2, <1>4, ScoreRange DEF BestOf
  <2>2. Value(x, w) = IF x >= w.score THEN x ELSE w.score
    BY <1>1, <1>2, <2>1, MaxOfTwo
  <2>3. Value(x, w) \in S \cup {w.score} /\ \A y \in S \cup {w.score} : y <= Value(x, w)
    BY <1>2, <2>1, <2>2
  <2> QED BY <2>3 DEF BestOf
<1> QED BY <1>3, <1>4

LEMMA UploadSound ==
  ASSUME NEW pid \in Pids, NEW writes \in Uploads, ValidUpload(pid, writes)
  PROVE  writes \in Seq(Sound)
<1>1. writes \in Seq(Write) /\ Len(writes) \in Nat /\ DOMAIN writes = 1..Len(writes)
  BY StatsAssumption
<1>2. \A k \in 1..Len(writes) : writes[k] \in Sound
  BY <1>1 DEF ValidUpload, ValidWrite, Sound
<1> QED BY <1>1, <1>2

(* The two folds end in the same scores if no write failed. *)
LEMMA SameEnd ==
  ASSUME NEW n \in Nat, NEW writes \in Seq(Sound), n = Len(writes),
         NEW g \in [0..n -> Copy], NEW m \in [0..n -> Totals], g[0].rows = m[0],
         \A k \in 1..n : g[k] = Apply(g[k - 1], writes[k]) /\ m[k] = Meant(m[k - 1], writes[k]),
         g[n].ok
  PROVE  g[n].rows = m[n]
<1> DEFINE Q == {k \in 0..n : g[k].ok => g[k].rows = m[k]}
<1>1. 0 \in Q
  OBVIOUS
<1>2. ASSUME NEW k \in Q, k \in 0..(n - 1) PROVE k + 1 \in Q
  <2>1. k + 1 \in 1..n /\ (k + 1) - 1 = k /\ k + 1 \in 0..n /\ k \in 0..n
    BY <1>2
  <2>2. writes[k + 1] \in Sound /\ g[k] \in Copy
    BY <2>1
  <2>3. g[k + 1] = Apply(g[k], writes[k + 1]) /\ m[k + 1] = Meant(m[k], writes[k + 1])
    BY <2>1
  <2>4. g[k + 1].ok => g[k].ok /\ g[k + 1].rows = Meant(g[k].rows, writes[k + 1])
    BY <2>2, <2>3, ApplyValue
  <2> QED BY <2>1, <2>3, <2>4
<1> HIDE DEF Q
<1>3. n \in Q
  BY <1>1, <1>2, Along
<1> QED BY <1>3 DEF Q

(* ... and keep what is best on the boards of Octane. *)
LEMMA BestEnd ==
  ASSUME NEW n \in Nat, NEW writes \in Seq(Sound), n = Len(writes),
         NEW m \in [0..n -> Totals], NEW b \in OctaneBoards, NEW p \in Pids,
         NEW S \in SUBSET Scores, BestOf(m[0][b][p], S),
         \A k \in 1..n : m[k] = Meant(m[k - 1], writes[k])
  PROVE  BestOf(m[n][b][p], S \cup Given(writes, b, p, n))
<1> DEFINE G(k) == Given(writes, b, p, k)
           Q == {k \in 0..n : BestOf(m[k][b][p], S \cup G(k))}
<1>1. 0 \in Q
  <2>1. G(0) = {}
    <3>1. 1..0 = {}
      OBVIOUS
    <3> QED BY <3>1 DEF Given
  <2>2. S \cup G(0) = S
    BY <2>1
  <2>3. BestOf(m[0][b][p], S \cup G(0))
    BY <2>2
  <2> HIDE DEF G
  <2>4. 0 \in 0..n
    OBVIOUS
  <2> QED BY <2>3, <2>4
<1>2. ASSUME NEW k \in Q, k \in 0..(n - 1) PROVE k + 1 \in Q
  <2> DEFINE w == writes[k + 1]
             x == m[k][b][p]
  <2>1. k + 1 \in 1..n /\ (k + 1) - 1 = k /\ k + 1 \in 0..n /\ k \in 0..n /\ k \in Nat
    BY <1>2
  <2>2. w \in Sound /\ m[k] \in Totals /\ b \in Boards
    BY <2>1, StatsAssumption
  <2>3. m[k + 1] = Meant(m[k], w)
    BY <2>1
  <2>4. G(k) \subseteq Scores
    BY <2>1, WriteParts DEF Given
  <2>5. G(k + 1) = G(k) \cup (IF w.board = b /\ w.entity = p THEN {w.score} ELSE {})
    <3>1. \A i : i \in 1..(k + 1) <=> i \in 1..k \/ i = k + 1
      BY <2>1
    <3> QED BY <3>1 DEF Given
  <2>6. BestOf(x, S \cup G(k))
    OBVIOUS
  <2>7. m[k + 1] = [m[k] EXCEPT ![w.board][w.entity] = Value(m[k][w.board][w.entity], w)]
    BY <2>2, <2>3, MeantValue
  <2> HIDE DEF w, G
  <2>8. CASE w.board = b /\ w.entity = p
    <3>1. m[k + 1][b][p] = Value(x, w)
      BY <2>2, <2>7, <2>8 DEF Totals
    <3>2. w.op = 4
      BY <2>2, <2>8 DEF Sound
    <3>3. BestOf(Value(x, w), (S \cup G(k)) \cup {w.score})
      BY <2>2, <2>4, <2>6, <3>2, BestMore
    <3>4. S \cup G(k + 1) = (S \cup G(k)) \cup {w.score}
      BY <2>5, <2>8
    <3> QED BY <2>1, <3>1, <3>3, <3>4
  <2>9. CASE ~(w.board = b /\ w.entity = p)
    <3>1. m[k + 1][b][p] = x
      BY <2>2, <2>7, <2>9, WriteParts DEF Totals
    <3>2. G(k + 1) = G(k)
      BY <2>5, <2>9
    <3> QED BY <2>1, <2>6, <3>1, <3>2
  <2> QED BY <2>8, <2>9
<1> HIDE DEF Q
<1>3. n \in Q
  BY <1>1, <1>2, Along
<1> QED BY <1>3 DEF Q

LEMMA UploadStep ==
  ASSUME IInv, NEW pid \in Pids, NEW writes \in Uploads, Upload(pid, writes)
  PROVE  IInv'
<1> DEFINE n == Len(writes)
           base == [ok |-> TRUE, rows |-> rows]
<1>1. ValidUpload(pid, writes) /\ writes \in Seq(Sound) /\ n \in Nat /\ DOMAIN writes = 1..n
  BY UploadSound DEF Upload
<1>2. /\ FoldLeft(Apply, base, writes).ok
      /\ rows' = FoldLeft(Apply, base, writes).rows
      /\ total' = FoldLeft(Meant, total, writes)
      /\ acked' = [b \in Boards |-> [p \in Pids |-> acked[b][p] \cup ScoresIn(writes, b, p)]]
      /\ known' = known
  BY DEF Upload, Applied
<1>3. base \in Copy /\ total \in Totals /\ base.rows = total
  BY DEF IInv, TypeOK, ScoresExact, Copy, Rows, Totals
<1> HIDE DEF base, n
<1>4. PICK g \in [0..n -> Copy] :
         /\ g[0] = base /\ g[n] = FoldLeft(Apply, base, writes)
         /\ \A k \in 1..n : g[k] = Apply(g[k - 1], writes[k])
  <2>1. \A s \in Copy, w \in Sound : Apply(s, w) \in Copy
    BY ApplyValue
  <2>2. \E g \in [0..Len(writes) -> Copy] : ApplyRun(g, base, writes)
    BY <1>1, <1>3, <2>1, ApplySteps
  <2> QED BY <2>2 DEF n, ApplyRun
<1>5. PICK m \in [0..n -> Totals] :
         /\ m[0] = total /\ m[n] = FoldLeft(Meant, total, writes)
         /\ \A k \in 1..n : m[k] = Meant(m[k - 1], writes[k])
  <2>1. \A t \in Totals, w \in Sound : Meant(t, w) \in Totals
    BY MeantValue
  <2>2. \E m \in [0..Len(writes) -> Totals] : MeantRun(m, total, writes)
    BY <1>1, <1>3, <2>1, MeantSteps
  <2> QED BY <2>2 DEF n, MeantRun
<1>6. g[n].rows = m[n]
  <2>1. g[0].rows = m[0] /\ g[n].ok
    BY <1>2, <1>3, <1>4, <1>5
  <2>2. \A k \in 1..n : g[k] = Apply(g[k - 1], writes[k]) /\ m[k] = Meant(m[k - 1], writes[k])
    BY <1>4, <1>5
  <2>3. n = Len(writes)
    BY DEF n
  <2> QED BY <1>1, <2>1, <2>2, <2>3, SameEnd
<1>7. rows' = total' /\ rows' \in Rows /\ total' \in Totals
  BY <1>1, <1>2, <1>4, <1>5, <1>6 DEF Copy
<1>8. ASSUME NEW b \in Boards, NEW p \in Pids
      PROVE  /\ ScoresIn(writes, b, p) = Given(writes, b, p, n)
             /\ ScoresIn(writes, b, p) \subseteq Scores
  <2>1. \A k \in DOMAIN writes : writes[k].score \in Scores
    BY <1>1, WriteParts
  <2> QED BY <1>1, <2>1 DEF ScoresIn, Given
<1>9. TypeOK'
  <2>1. acked' \in [Boards -> [Pids -> SUBSET Scores]]
    <3>1. \A b \in Boards, p \in Pids : acked[b][p] \cup ScoresIn(writes, b, p) \in SUBSET Scores
      BY <1>8 DEF IInv, TypeOK
    <3> QED BY <1>2, <3>1
  <2>2. rows' \in Rows /\ total' \in Totals /\ known' \subseteq Pids
    BY <1>2, <1>7 DEF IInv, TypeOK
  <2> QED BY <2>1, <2>2 DEF TypeOK, Rows, Totals
<1>10. ScoresExact'
  BY <1>7 DEF ScoresExact
<1>11. Best'
  <2> SUFFICES ASSUME NEW b \in OctaneBoards, NEW p \in Pids
               PROVE  BestOf(total'[b][p], acked'[b][p])
    BY DEF Best, BestOf
  <2>1. b \in Boards
    BY StatsAssumption
  <2>2. BestOf(m[0][b][p], acked[b][p]) /\ acked[b][p] \in SUBSET Scores
    BY <1>5, <2>1 DEF IInv, TypeOK, Best
  <2>3. BestOf(m[n][b][p], acked[b][p] \cup Given(writes, b, p, n))
    BY <1>1, <1>5, <2>2, BestEnd DEF n
  <2>4. acked'[b][p] = acked[b][p] \cup Given(writes, b, p, n)
    BY <1>2, <1>8, <2>1
  <2> QED BY <1>2, <1>5, <2>3, <2>4
<1> QED BY <1>9, <1>10, <1>11 DEF IInv

LEMMA StatsInit == Init => IInv
<1> SUFFICES ASSUME Init PROVE IInv
  OBVIOUS
<1>1. TypeOK /\ ScoresExact
  BY DEF Init, TypeOK, ScoresExact
<1>2. Best
  BY StatsAssumption DEF Init, Best, BestOf
<1> QED BY <1>1, <1>2 DEF IInv

LEMMA StatsStep == IInv /\ [Next]_vars => IInv'
<1> SUFFICES ASSUME IInv, [Next]_vars PROVE IInv'
  OBVIOUS
<1>1. ASSUME known' \subseteq Pids, UNCHANGED <<rows, total, acked>> PROVE IInv'
  BY <1>1 DEF IInv, TypeOK, ScoresExact, Best
<1>2. ASSUME NEW pid \in Pids, Identify(pid) PROVE IInv'
  BY <1>1, <1>2 DEF Identify, IInv, TypeOK
<1>3. ASSUME NEW pid \in Pids, Disconnect(pid) PROVE IInv'
  BY <1>1, <1>3 DEF Disconnect, IInv, TypeOK
<1>4. ASSUME NEW pid \in Pids, NEW writes \in Uploads, Upload(pid, writes) PROVE IInv'
  BY <1>4, UploadStep
<1>5. CASE UNCHANGED vars
  BY <1>1, <1>5 DEF vars, IInv, TypeOK
<1> QED BY <1>2, <1>3, <1>4, <1>5 DEF Next

LEMMA StatsInvariant == Spec => []IInv
BY StatsInit, StatsStep, PTL DEF Spec

LEMMA BestIsMax == IInv => BestKept
<1> SUFFICES ASSUME IInv, NEW b \in OctaneBoards, NEW p \in Pids
             PROVE  rows[b][p] = IF acked[b][p] = {} THEN None ELSE Max(acked[b][p])
  BY DEF BestKept
<1> DEFINE S == acked[b][p]
           x == rows[b][p]
<1>1. BestOf(x, S) /\ S \subseteq Int
  <2>1. b \in Boards
    BY StatsAssumption
  <2>2. rows = total /\ BestOf(total[b][p], acked[b][p])
    BY DEF IInv, Best, ScoresExact
  <2>3. acked[b][p] \in SUBSET Scores
    BY <2>1 DEF IInv, TypeOK
  <2> QED BY <2>2, <2>3, ScoreRange
<1> HIDE DEF S, x
<1>2. CASE S = {}
  BY <1>1, <1>2 DEF BestOf, S, x
<1>3. CASE S # {}
  <2>1. x \in S /\ x \in Int /\ \A y \in S : y <= x /\ y \in Int
    BY <1>1, <1>3 DEF BestOf
  <2>2. \A y \in S : (\A z \in S : y >= z) <=> y = x
    BY <2>1
  <2>3. Max(S) = x
    BY <2>1, <2>2 DEF Max
  <2> QED BY <1>3, <2>3 DEF S, x
<1> QED BY <1>2, <1>3

-----------------------------------------------------------------------------
(* The two reads. Of the rows of a board any two are in order, so a sorted  *)
(* list of them exists, and the rank of a row is its place in every one.    *)
Sorted(b, all) ==
    /\ all \in [1..Cardinality(Ranked(b)) -> Ranked(b)]
    /\ \A i, j \in 1..Cardinality(Ranked(b)) : i < j => Better(b, all[i], all[j])

Ahead(b, p) == {q \in Ranked(b) \ {p} : Better(b, q, p)}

LEMMA BetterOrders ==
  ASSUME TypeOK, NEW b \in Boards, NEW p \in Ranked(b), NEW q \in Ranked(b)
  PROVE  /\ ~Better(b, p, p)
         /\ p # q => Better(b, p, q) \/ Better(b, q, p)
         /\ ~(Better(b, p, q) /\ Better(b, q, p))
         /\ \A r \in Ranked(b) : Better(b, p, q) /\ Better(b, q, r) => Better(b, p, r)
<1>1. \A r \in Ranked(b) : r \in Nat /\ rows[b][r] \in Int
  BY StatsAssumption DEF TypeOK, Ranked, Scores, MinScore
<1> QED BY <1>1 DEF Better

LEMMA RankedFinite ==
  ASSUME NEW b \in Boards
  PROVE  /\ IsFiniteSet(Ranked(b)) /\ Cardinality(Ranked(b)) \in Nat
         /\ Cardinality(Ranked(b)) <= Cardinality(Pids) /\ Cardinality(Pids) \in Nat
<1>1. Ranked(b) \subseteq Pids /\ IsFiniteSet(Pids)
  BY StatsAssumption DEF Ranked
<1> QED BY <1>1, FS_Subset, FS_CardinalityType

LEMMA AheadRises ==
  ASSUME TypeOK, NEW b \in Boards, NEW p \in Ranked(b), NEW q \in Ranked(b)
  PROVE  /\ IsFiniteSet(Ahead(b, p))
         /\ Cardinality(Ahead(b, p)) \in 0..(Cardinality(Ranked(b)) - 1)
         /\ Better(b, p, q) => Cardinality(Ahead(b, p)) < Cardinality(Ahead(b, q))
<1>1. \A r \in Ranked(b) : /\ IsFiniteSet(Ahead(b, r)) /\ Cardinality(Ahead(b, r)) \in Nat
                           /\ Cardinality(Ahead(b, r)) <= Cardinality(Ranked(b)) - 1
  <2> TAKE r \in Ranked(b)
  <2>1. Ahead(b, r) \subseteq Ranked(b) \ {r}
    BY DEF Ahead
  <2>2. /\ IsFiniteSet(Ranked(b) \ {r})
        /\ Cardinality(Ranked(b) \ {r}) = Cardinality(Ranked(b)) - 1
    BY RankedFinite, FS_RemoveElement
  <2>3. IsFiniteSet(Ahead(b, r)) /\ Cardinality(Ahead(b, r)) <= Cardinality(Ranked(b) \ {r})
    BY <2>1, <2>2, FS_Subset
  <2> QED BY <2>2, <2>3, FS_CardinalityType
<1>2. ASSUME Better(b, p, q) PROVE Cardinality(Ahead(b, p)) < Cardinality(Ahead(b, q))
  <2>1. Ahead(b, p) \subseteq Ahead(b, q) \ {p} /\ p \in Ahead(b, q)
    BY <1>2, BetterOrders DEF Ahead
  <2>2. Cardinality(Ahead(b, q) \ {p}) = Cardinality(Ahead(b, q)) - 1
        /\ IsFiniteSet(Ahead(b, q) \ {p})
    BY <1>1, <2>1, FS_RemoveElement
  <2>3. Cardinality(Ahead(b, p)) <= Cardinality(Ahead(b, q) \ {p})
    BY <2>1, <2>2, FS_Subset
  <2>4. Cardinality(Ahead(b, p)) \in Nat /\ Cardinality(Ahead(b, q)) \in Nat
    BY <1>1
  <2> QED BY <2>2, <2>3, <2>4
<1> QED BY <1>1, <1>2, RankedFinite

LEMMA PlacesInterval ==
  ASSUME NEW n \in Nat
  PROVE  IsFiniteSet(1..n) /\ Cardinality(1..n) = n
<1>1. IsFiniteSet(1..n) /\ Cardinality(1..n) = IF 1 > n THEN 0 ELSE n - 1 + 1
  BY FS_Interval
<1> QED BY <1>1

LEMMA RankReached ==
  ASSUME TypeOK, NEW b \in Boards, NEW k \in 1..Cardinality(Ranked(b))
  PROVE  \E p \in Ranked(b) : RankOf(b, p) = k
<1> DEFINE R == Ranked(b)
           n == Cardinality(R)
           f == [p \in R |-> RankOf(b, p)]
<1>1. n \in Nat /\ IsFiniteSet(R)
  BY RankedFinite
<1>2. IsFiniteSet(1..n) /\ Cardinality(1..n) = n
  BY <1>1, PlacesInterval
<1>3. \A p \in R : RankOf(b, p) = 1 + Cardinality(Ahead(b, p))
  BY DEF RankOf, Ahead
<1>4. f \in [R -> 1..n]
  <2>1. \A p \in R : Cardinality(Ahead(b, p)) \in 0..(n - 1)
    BY AheadRises
  <2> QED BY <1>1, <1>3, <2>1
<1>5. \A p, q \in R : f[p] = f[q] => p = q
  <2> SUFFICES ASSUME NEW p \in R, NEW q \in R, f[p] = f[q], p # q PROVE FALSE
    OBVIOUS
  <2>1. Cardinality(Ahead(b, p)) = Cardinality(Ahead(b, q))
    <3>1. Cardinality(Ahead(b, p)) \in Nat /\ Cardinality(Ahead(b, q)) \in Nat
      BY AheadRises, <1>1
    <3> QED BY <1>3, <3>1
  <2>2. Better(b, p, q) \/ Better(b, q, p)
    BY BetterOrders
  <2>3. Cardinality(Ahead(b, p)) \in Nat
    BY AheadRises, <1>1
  <2>4. /\ Better(b, p, q) => Cardinality(Ahead(b, p)) < Cardinality(Ahead(b, q))
        /\ Better(b, q, p) => Cardinality(Ahead(b, q)) < Cardinality(Ahead(b, p))
    BY AheadRises
  <2> QED BY <2>1, <2>2, <2>3, <2>4
<1>6. f \in Injection(R, 1..n)
  BY <1>4, <1>5 DEF Injection, IsInjective
<1>7. f \in Surjection(R, 1..n)
  BY <1>1, <1>2, <1>6, FS_Injection
<1> QED BY <1>7 DEF Surjection

LEMMA SortedExists ==
  ASSUME TypeOK, NEW b \in Boards
  PROVE  \E all : Sorted(b, all)
<1> DEFINE n == Cardinality(Ranked(b))
           all == [k \in 1..n |-> CHOOSE p \in Ranked(b) : RankOf(b, p) = k]
<1>1. \A k \in 1..n : all[k] \in Ranked(b) /\ RankOf(b, all[k]) = k
  BY RankReached
<1>2. all \in [1..n -> Ranked(b)]
  BY <1>1
<1> HIDE DEF all
<1>3. ASSUME NEW i \in 1..n, NEW j \in 1..n, i < j PROVE Better(b, all[i], all[j])
  <2> DEFINE p == all[i]
             q == all[j]
  <2>1. p \in Ranked(b) /\ q \in Ranked(b) /\ RankOf(b, p) = i /\ RankOf(b, q) = j
    BY <1>1
  <2> HIDE DEF p, q
  <2>2. /\ Cardinality(Ahead(b, p)) \in Int /\ Cardinality(Ahead(b, q)) \in Int
        /\ Better(b, q, p) => Cardinality(Ahead(b, q)) < Cardinality(Ahead(b, p))
    BY <2>1, AheadRises
  <2>3. i = 1 + Cardinality(Ahead(b, p)) /\ j = 1 + Cardinality(Ahead(b, q))
    BY <2>1 DEF RankOf, Ahead
  <2>4. p # q /\ ~Better(b, q, p)
    BY <1>3, <2>2, <2>3
  <2>5. Better(b, p, q)
    BY <2>1, <2>4, BetterOrders
  <2> QED BY <2>5 DEF p, q
<1> QED BY <1>2, <1>3 DEF Sorted

LEMMA ReadSorted ==
  ASSUME TypeOK, NEW b \in Boards
  PROVE  Sorted(b, Read(b)) /\ DOMAIN Read(b) = 1..Cardinality(Ranked(b))
<1>1. PICK all : Sorted(b, all)
  BY SortedExists
<1>2. /\ all \in [1..Cardinality(Ranked(b)) -> Ranked(b)]
      /\ \A i, j \in DOMAIN all : i < j => Better(b, all[i], all[j])
  BY <1>1 DEF Sorted
<1>3. /\ Read(b) \in [1..Cardinality(Ranked(b)) -> Ranked(b)]
      /\ \A i, j \in DOMAIN Read(b) : i < j => Better(b, Read(b)[i], Read(b)[j])
  BY <1>2 DEF Read
<1> QED BY <1>3 DEF Sorted

LEMMA ReadRanks ==
  ASSUME TypeOK, NEW b \in Boards
  PROVE  \A p \in Ranked(b) : /\ RankOf(b, p) \in 1..Cardinality(Ranked(b))
                              /\ Read(b)[RankOf(b, p)] = p
<1> DEFINE R == Ranked(b)
           n == Cardinality(R)
           all == Read(b)
<1>1. all \in [1..n -> R] /\ \A i, j \in 1..n : i < j => Better(b, all[i], all[j])
  BY ReadSorted DEF Sorted
<1>2. n \in Nat /\ IsFiniteSet(R) /\ IsFiniteSet(1..n) /\ Cardinality(1..n) = n
  BY RankedFinite, PlacesInterval
<1> HIDE DEF all, n
<1>3. \A i, j \in 1..n : all[i] = all[j] => i = j
  <2> SUFFICES ASSUME NEW i \in 1..n, NEW j \in 1..n, all[i] = all[j], i < j PROVE FALSE
    BY <1>2
  <2>1. Better(b, all[i], all[i]) /\ all[i] \in R
    BY <1>1
  <2> QED BY <2>1, BetterOrders
<1>4. all \in Surjection(1..n, R)
  <2>1. all \in Injection(1..n, R)
    BY <1>1, <1>3 DEF Injection, IsInjective
  <2> QED BY <1>2, <2>1, FS_Injection DEF n
<1>5. ASSUME NEW k \in 1..n PROVE Cardinality(Ahead(b, all[k])) = k - 1
  <2> DEFINE A == Ahead(b, all[k])
             f == [i \in 1..(k - 1) |-> all[i]]
  <2>1. \A i \in 1..(k - 1) : i \in 1..n /\ i < k
    BY <1>2
  <2>2. f \in [1..(k - 1) -> A]
    <3> SUFFICES ASSUME NEW i \in 1..(k - 1) PROVE all[i] \in A
      OBVIOUS
    <3>1. Better(b, all[i], all[k]) /\ all[i] \in R /\ all[i] # all[k]
      BY <1>1, <1>3, <2>1
    <3> QED BY <3>1 DEF Ahead
  <2>3. \A q \in A : \E i \in 1..(k - 1) : f[i] = q
    <3> SUFFICES ASSUME NEW q \in A PROVE \E i \in 1..(k - 1) : all[i] = q
      OBVIOUS
    <3>1. q \in R /\ Better(b, q, all[k])
      BY DEF Ahead
    <3>2. PICK i \in 1..n : all[i] = q
      BY <1>4, <3>1 DEF Surjection
    <3>3. ~(k < i) /\ i # k
      <4>1. k < i => Better(b, all[k], q)
        BY <1>1, <3>2
      <4>2. all[k] \in R
        BY <1>1
      <4> QED BY <3>1, <3>2, <4>1, <4>2, BetterOrders
    <3>4. i \in 1..(k - 1)
      BY <1>2, <3>3
    <3> QED BY <3>2, <3>4
  <2>4. f \in Surjection(1..(k - 1), A)
    BY <2>2, <2>3 DEF Surjection
  <2>5. f \in Injection(1..(k - 1), A)
    <3>1. \A i, j \in 1..(k - 1) : f[i] = f[j] => i = j
      BY <1>3, <2>1
    <3> QED BY <2>2, <3>1 DEF Injection, IsInjective
  <2> HIDE DEF f, A
  <2>6. k - 1 \in Nat
    BY <1>2
  <2>7. IsFiniteSet(1..(k - 1)) /\ Cardinality(1..(k - 1)) = k - 1
    BY <2>6, PlacesInterval
  <2>8. Cardinality(A) = Cardinality(1..(k - 1))
    BY <2>4, <2>5, <2>7, FS_Surjection
  <2> QED BY <2>7, <2>8 DEF A
<1>6. ASSUME NEW p \in R PROVE RankOf(b, p) \in 1..n /\ all[RankOf(b, p)] = p
  <2>1. PICK k \in 1..n : all[k] = p
    BY <1>4 DEF Surjection
  <2>2. RankOf(b, p) = 1 + Cardinality(Ahead(b, p))
    BY DEF RankOf, Ahead
  <2>3. Cardinality(Ahead(b, p)) = k - 1
    BY <1>5, <2>1
  <2>4. RankOf(b, p) = k
    BY <1>2, <2>2, <2>3
  <2> QED BY <2>1, <2>4
<1> QED BY <1>6 DEF n, all

LEMMA Multiples ==
  ASSUME NEW p \in Int, NEW q \in Int, NEW d \in Nat, d > 0, p < q
  PROVE  p * d + d <= q * d
<1>1. PICK k \in Nat : q = p + 1 + k
  BY SMT
<1>2. q * d = p * d + d + k * d
  BY <1>1
<1>3. k * d >= 0
  BY <1>1
<1> QED BY <1>2, <1>3

(* Page i of a board holds the ranks from 1 + i * limit to (i + 1) * limit. *)
Turned(b, limit, i) == Page(b, IF i = 0 THEN 0 ELSE 1 + i * limit, limit)

LEMMA PageRanks ==
  ASSUME TypeOK, NEW b \in Boards, NEW limit \in Nat, limit > 0, NEW i \in Nat
  PROVE  Turned(b, limit, i) =
           {<<k, Read(b)[k]>> : k \in {r \in 1..Cardinality(Ranked(b)) :
                                         i * limit < r /\ r <= i * limit + limit}}
<1> DEFINE start == IF i = 0 THEN 0 ELSE 1 + i * limit
<1>1. i * limit \in Nat
  OBVIOUS
<1>2. First(start) = 1 + i * limit
  BY <1>1 DEF First
<1>3. DOMAIN Read(b) = 1..Cardinality(Ranked(b)) /\ Cardinality(Ranked(b)) \in Nat
  BY ReadSorted, RankedFinite
<1> HIDE DEF start
<1>4. \A r \in DOMAIN Read(b) : First(start) <= r /\ r < First(start) + limit
                                 <=> i * limit < r /\ r <= i * limit + limit
  BY <1>1, <1>2, <1>3
<1>5. {r \in DOMAIN Read(b) : First(start) <= r /\ r < First(start) + limit} =
        {r \in 1..Cardinality(Ranked(b)) : i * limit < r /\ r <= i * limit + limit}
  BY <1>3, <1>4
<1> QED BY <1>5 DEF Turned, Page, start

LEMMA DivBounds ==
  ASSUME NEW t \in Nat, NEW d \in Nat, d > 0
  PROVE  t \div d \in Nat /\ (t \div d) * d \in Nat /\ (t \div d) * d <= t
         /\ t < (t \div d) * d + d /\ t \div d <= t
<1>1. t \div d \in Nat /\ (t \div d) * d \in Nat /\ (t \div d) * d <= t /\ t < (t \div d) * d + d
  OBVIOUS
<1> DEFINE q == t \div d
<1> HIDE DEF q
<1>2. q \in Nat /\ q * d <= t => q <= t
  <2> SUFFICES ASSUME q \in Nat, q * d <= t PROVE q <= t
    OBVIOUS
  <2>1. q * d = q + q * (d - 1)
    OBVIOUS
  <2>2. q * (d - 1) >= 0
    OBVIOUS
  <2> QED BY <2>1, <2>2
<1> QED BY <1>1, <1>2 DEF q

LEMMA PagesAreRanks ==
  ASSUME TypeOK
  PROVE  PagesCover
<1> SUFFICES ASSUME NEW b \in Boards, NEW limit \in 1..MaxLimit
             PROVE  /\ \A p \in Ranked(b) : \E i \in 0..Cardinality(Pids) :
                          /\ <<RankOf(b, p), p>> \in Turned(b, limit, i)
                          /\ <<RankOf(b, p), p>> \in Friends(b, {p})
                    /\ \A i, j \in 0..Cardinality(Pids) :
                          i # j => Turned(b, limit, i) \cap Turned(b, limit, j) = {}
  BY DEF PagesCover, Turned
<1> DEFINE n == Cardinality(Ranked(b))
<1>1. limit \in Nat /\ limit > 0
  BY StatsAssumption
<1>2. n \in Nat /\ n <= Cardinality(Pids) /\ Cardinality(Pids) \in Nat
  BY RankedFinite
<1> HIDE DEF n
<1>3. ASSUME NEW p \in Ranked(b)
      PROVE  \E i \in 0..Cardinality(Pids) : /\ <<RankOf(b, p), p>> \in Turned(b, limit, i)
                                             /\ <<RankOf(b, p), p>> \in Friends(b, {p})
  <2> DEFINE k == RankOf(b, p)
             i == (k - 1) \div limit
  <2>1. k \in 1..n /\ Read(b)[k] = p
    BY ReadRanks DEF n
  <2> HIDE DEF k
  <2>2. k - 1 \in Nat
    BY <1>2, <2>1
  <2>3. i \in Nat /\ i * limit \in Nat /\ i * limit <= k - 1 /\ k - 1 < i * limit + limit
        /\ i <= k - 1
    BY <1>1, <2>2, DivBounds
  <2> HIDE DEF i
  <2>4. i \in 0..Cardinality(Pids)
    BY <1>2, <2>1, <2>3
  <2>5. i * limit < k /\ k <= i * limit + limit
    BY <1>1, <1>2, <2>1, <2>3
  <2>6. <<k, Read(b)[k]>> \in Turned(b, limit, i)
    BY <1>1, <2>1, <2>3, <2>5, PageRanks DEF n
  <2>7. <<k, Read(b)[k]>> \in Friends(b, {p})
    BY <2>1, ReadSorted DEF Friends, n
  <2> QED BY <2>1, <2>4, <2>6, <2>7 DEF k
<1>4. ASSUME NEW i \in 0..Cardinality(Pids), NEW j \in 0..Cardinality(Pids), i < j
      PROVE  Turned(b, limit, i) \cap Turned(b, limit, j) = {}
  <2> SUFFICES ASSUME NEW row \in Turned(b, limit, i), row \in Turned(b, limit, j) PROVE FALSE
    OBVIOUS
  <2>1. i \in Nat /\ j \in Nat /\ i * limit \in Nat /\ j * limit \in Nat
    BY <1>1, <1>2
  <2>2. i * limit + limit <= j * limit
    BY <1>1, <1>4, <2>1, Multiples
  <2>3. PICK k \in 1..n : row = <<k, Read(b)[k]>> /\ k <= i * limit + limit
    <3>1. row \in {<<q, Read(b)[q]>> : q \in {r \in 1..n : i * limit < r /\ r <= i * limit + limit}}
      BY <1>1, <2>1, PageRanks DEF n
    <3> QED BY <3>1
  <2>4. PICK m \in 1..n : row = <<m, Read(b)[m]>> /\ j * limit < m
    <3>1. row \in {<<q, Read(b)[q]>> : q \in {r \in 1..n : j * limit < r /\ r <= j * limit + limit}}
      BY <1>1, <2>1, PageRanks DEF n
    <3> QED BY <3>1
  <2>5. k = m
    BY <2>3, <2>4
  <2> QED BY <1>1, <1>2, <2>1, <2>2, <2>3, <2>4, <2>5
<1>5. \A i, j \in 0..Cardinality(Pids) :
         i # j => Turned(b, limit, i) \cap Turned(b, limit, j) = {}
  <2> SUFFICES ASSUME NEW i \in 0..Cardinality(Pids), NEW j \in 0..Cardinality(Pids), i # j
               PROVE  Turned(b, limit, i) \cap Turned(b, limit, j) = {}
    OBVIOUS
  <2>1. i < j \/ j < i
    BY <1>2
  <2> QED BY <1>4, <2>1
<1> QED BY <1>3, <1>5

-----------------------------------------------------------------------------
(* The file and the history keep their types. *)
THEOREM TypeCorrect == Spec => []TypeOK
<1>1. IInv => TypeOK
  BY DEF IInv
<1> QED BY <1>1, StatsInvariant, PTL

(* A score on file is the sum, the replacement or the maximum of what was   *)
(* accepted, for scores of any width: parseStatWrites and the two overflow  *)
(* tests leave no upload that wraps around, and none that counts in part.   *)
THEOREM ScoresAdd == Spec => []ScoresExact
<1>1. IInv => ScoresExact
  BY DEF IInv
<1> QED BY <1>1, StatsInvariant, PTL

(* A time or a Ring Rally score on file is the best that was acknowledged.  *)
THEOREM RecordsStand == Spec => []BestKept
BY BestIsMax, StatsInvariant, PTL

(* Pages of any length give every player of a board once, at the rank that  *)
(* counts the better ones; a friend list gives the same rank.               *)
THEOREM PagesComplete == Spec => []PagesCover
<1>1. IInv => PagesCover
  BY PagesAreRanks DEF IInv
<1> QED BY <1>1, StatsInvariant, PTL

-----------------------------------------------------------------------------
(* Who is online. *)

(* The part of the state that retryPending works on is what makes the       *)
(* invariants inductive: whoever it may still try was pending once, and     *)
(* whoever was pending has been through its handshake.                      *)
RetriesLate ==
    /\ \A c \in wasPending : phase[c] # "new"
    /\ pending \subseteq wasPending
    /\ \A c \in Conns : todo[c] \subseteq wasPending

OnlineInv ==
    /\ OnlineTypeOK /\ RetriesLate /\ PendingOpen
    /\ OpenTracked /\ OnlineExact /\ PresenceForgotten

LEMMA OnlineStart == OnlineInit => OnlineInv
BY OnlineAssumption
   DEF OnlineInit, OnlineInv, OnlineTypeOK, RetriesLate, PendingOpen, OpenTracked, OnlineExact,
       PresenceForgotten, OwnPresence, Open

LEMMA OnlineStep == OnlineInv /\ [OnlineNext]_onlineVars => OnlineInv'
<1> SUFFICES ASSUME OnlineInv, [OnlineNext]_onlineVars PROVE OnlineInv'
  OBVIOUS
<1> USE OnlineAssumption DEF OnlineInv, OnlineTypeOK, RetriesLate
<1>1. ASSUME NEW c \in Conns, SaveIdentity(c) PROVE OnlineInv'
  BY <1>1 DEF SaveIdentity, PendingOpen, OpenTracked, OnlineExact, PresenceForgotten, OwnPresence, Open
<1>2. ASSUME NEW c \in Conns, LoadIdentity(c) PROVE OnlineInv'
  <2> USE <1>2 DEF LoadIdentity, Identified
  <2>1. OnlineTypeOK' /\ RetriesLate'
    OBVIOUS
  <2>2. PendingOpen'
    BY DEF PendingOpen, OnlineExact, Open
  <2>3. OpenTracked'
    BY DEF OpenTracked, Open
  <2>4. OnlineExact'
    BY DEF OnlineExact, Open
  <2>5. PresenceForgotten'
    BY DEF PresenceForgotten, OwnPresence
  <2> QED BY <2>1, <2>2, <2>3, <2>4, <2>5
<1>3. ASSUME NEW c \in Conns, RetryPending(c) PROVE OnlineInv'
  BY <1>3 DEF RetryPending, PendingOpen, OpenTracked, OnlineExact, PresenceForgotten, OwnPresence, Open
<1>4. ASSUME NEW c \in Conns, NEW d \in Conns, TryIdentity(c, d) PROVE OnlineInv'
  <2> USE <1>4 DEF TryIdentity, Identified
  <2>1. OnlineTypeOK' /\ RetriesLate'
    OBVIOUS
  <2>2. d \in wasPending
    OBVIOUS
<2>3. PendingOpen' /\ OpenTracked' /\ OnlineExact' /\
      PresenceForgotten'
    BY <2>2 DEF PendingOpen, OpenTracked, OnlineExact, PresenceForgotten, OwnPresence, Open
  <2> QED BY <2>1, <2>3
<1>5. ASSUME NEW c \in Conns, Retried(c) PROVE OnlineInv'
  BY <1>5 DEF Retried, PendingOpen, OpenTracked, OnlineExact, PresenceForgotten, OwnPresence, Open
<1>6. ASSUME NEW c \in Conns, NEW id \in Accounts \cup {0}, SetPresence(c, id)
      PROVE OnlineInv'
  <2> USE <1>6 DEF SetPresence, Serving, Open
  <2>1. OnlineTypeOK' /\ RetriesLate'
    OBVIOUS
  <2>2. PresenceForgotten'
    BY DEF PresenceForgotten, OwnPresence
  <2>3. PendingOpen' /\ OpenTracked' /\ OnlineExact'
    BY DEF PendingOpen, OpenTracked, OnlineExact
  <2> QED BY <2>1, <2>2, <2>3
<1>7. ASSUME NEW c \in Conns, Close(c) PROVE OnlineInv'
  <2> USE <1>7 DEF Close, DropOnline, Serving, Open
  <2>1. OnlineTypeOK' /\ RetriesLate'
    OBVIOUS
  <2>2. PendingOpen' /\ OpenTracked' /\ OnlineExact'
    BY DEF PendingOpen, OpenTracked, OnlineExact
  <2>3. PresenceForgotten'
    <3> SUFFICES ASSUME NEW p \in Accounts, OwnPresence(p)
                 PROVE \E d \in Conns : /\ TicketPid[d] = p
                                        /\ \/ phase'[d] \in {"open", "dropping"}
                                           \/ d \in wasPending
      BY DEF PresenceForgotten, OwnPresence
    <3>1. PICK d \in Conns : /\ TicketPid[d] = p
                             /\ phase[d] \in {"open", "dropping"} \/ d \in wasPending
      BY DEF PresenceForgotten
    <3>2. CASE d # c \/ d \in wasPending
      BY <3>1, <3>2
    <3>3. CASE d = c /\ d \notin wasPending
      <4>1. c \in online
        BY <3>3 DEF OnlineExact
      <4>2. CASE LastOfAccount(c)
        BY <3>1, <3>3, <4>1, <4>2
      <4>3. CASE ~LastOfAccount(c)
        <5>1. PICK e \in online \ {c} : TicketPid[e] = TicketPid[c]
          BY <4>3 DEF LastOfAccount
        <5>2. phase'[e] = "open" \/ e \in wasPending
          BY <5>1 DEF OnlineExact
        <5> QED BY <5>1, <5>2, <3>1, <3>3
      <4> QED BY <4>2, <4>3
    <3> QED BY <3>2, <3>3
  <2> QED BY <2>1, <2>2, <2>3
<1>8. ASSUME NEW c \in Conns, DropPresence(c) PROVE OnlineInv'
  <2> USE <1>8 DEF DropPresence, Open
  <2>1. OnlineTypeOK' /\ RetriesLate'
    OBVIOUS
  <2>2. PendingOpen' /\ OpenTracked' /\ OnlineExact'
    BY DEF PendingOpen, OpenTracked, OnlineExact
  <2>3. PresenceForgotten'
    BY DEF PresenceForgotten, OwnPresence
  <2> QED BY <2>1, <2>2, <2>3
<1>9. CASE UNCHANGED onlineVars
  BY <1>9 DEF onlineVars, PendingOpen, OpenTracked, OnlineExact, PresenceForgotten, OwnPresence, Open
<1> QED
  BY <1>1, <1>2, <1>3, <1>4, <1>5, <1>6, <1>7, <1>8, <1>9 DEF OnlineNext

LEMMA OnlineInvariant == OnlineSpec => []OnlineInv
<1>1. OnlineInit => OnlineInv
  BY OnlineStart
<1>2. OnlineInv /\ [OnlineNext]_onlineVars => OnlineInv'
  BY OnlineStep
<1> QED BY <1>1, <1>2, PTL DEF OnlineSpec

(* The state variables keep their types. *)
THEOREM OnlineTypes == OnlineSpec => []OnlineTypeOK
<1>1. OnlineInv => OnlineTypeOK
  BY DEF OnlineInv
<1> QED BY <1>1, OnlineInvariant, PTL

(* No interleaving of handshakes, retries on other goroutines and closes    *)
(* loses an open connection or leaves a closed one in `pending`.            *)
THEOREM PendingSound == OnlineSpec => []Tracked
<1>1. OnlineInv => Tracked
  BY DEF OnlineInv, Tracked
<1> QED BY <1>1, OnlineInvariant, PTL

(* A connection identified at its handshake is online exactly while open.   *)
THEOREM OnlineWhileOpen == OnlineSpec => []OnlineExact
<1>1. OnlineInv => OnlineExact
  BY DEF OnlineInv
<1> QED BY <1>1, OnlineInvariant, PTL

(* The presence that an account's connections stored is gone once they have *)
(* all ended, if they were identified at their handshakes, whatever clients *)
(* of other accounts store under its number.                                *)
THEOREM PresenceGone == OnlineSpec => []PresenceForgotten
<1>1. OnlineInv => PresenceForgotten
  BY DEF OnlineInv
<1> QED BY <1>1, OnlineInvariant, PTL

-----------------------------------------------------------------------------
(* The accounts that onCTRStats serves, and the server as a whole: every    *)
(* step is one of the connections or an upload.                             *)
Playing == {TicketPid[c] : c \in online \cap CtrConns}

KnownIsPlaying == known = Playing

ServerVars == <<vars, onlineVars>>

ServerNext ==
    \/ OnlineNext /\ UNCHANGED <<rows, total, acked>>
    \/ \E pid \in Pids, writes \in Uploads : Upload(pid, writes) /\ UNCHANGED onlineVars

Server == Init /\ OnlineInit /\ []KnownIsPlaying /\ [][ServerNext]_ServerVars

LEMMA OneConnection ==
  ASSUME OnlineNext
  PROVE  online' = online \/ \E c \in Conns : online' \in {online \cup {c}, online \ {c}}
BY DEF OnlineNext, SaveIdentity, LoadIdentity, RetryPending,
       TryIdentity, Retried, SetPresence, Close,
       DropPresence, Identified, DropOnline

LEMMA OnePlayer ==
  ASSUME Accounts \subseteq Pids, CtrConns \subseteq Conns,
         known = Playing, known' = Playing',
         OnlineNext, UNCHANGED <<rows, total, acked>>
  PROVE  [Next]_vars
<1>1. CASE known' = known
  BY <1>1 DEF vars
<1>2. CASE known' # known
  <2>1. PICK c \in Conns : online' \in {online \cup {c}, online \ {c}}
    BY <1>2, OneConnection DEF Playing
  <2> DEFINE pid == TicketPid[c]
  <2>2. pid \in Pids
    BY OnlineAssumption
  <2>3. c \in CtrConns
    BY <1>2, <2>1 DEF Playing
  <2>4. CASE online' = online \cup {c}
    <3>1. known' = known \cup {pid}
      BY <2>3, <2>4 DEF Playing
    <3>2. Identify(pid)
      BY <1>2, <3>1 DEF Identify
    <3> QED BY <2>2, <3>2 DEF Next
  <2>5. CASE online' = online \ {c}
    <3>1. known' \subseteq known
      BY <2>5 DEF Playing
    <3>2. \A q \in known \ known' : q = pid
      BY <2>5 DEF Playing
    <3>3. known' = known \ {pid} /\ pid \in known
      BY <1>2, <3>1, <3>2
    <3>4. Disconnect(pid)
      BY <3>3 DEF Disconnect
    <3> QED BY <2>2, <3>4 DEF Next
  <2> QED BY <2>1, <2>4, <2>5
<1> QED BY <1>1, <1>2

(* What CtrStats supposes of the players is what the handshakes, retries    *)
(* and closes of all connections make of `online`: beside them, uploads     *)
(* behave as CtrStats says, so all of the above holds of the server.        *)
THEOREM ServerImplements ==
  ASSUME Accounts \subseteq Pids, CtrConns \subseteq Conns
  PROVE  Server => Spec
<1>1. KnownIsPlaying /\ KnownIsPlaying' /\ [ServerNext]_ServerVars => [Next]_vars
  <2> SUFFICES ASSUME KnownIsPlaying, KnownIsPlaying', [ServerNext]_ServerVars PROVE [Next]_vars
    OBVIOUS
  <2>1. CASE OnlineNext /\ UNCHANGED <<rows, total, acked>>
    BY <2>1, OnePlayer DEF KnownIsPlaying
  <2>2. CASE \E pid \in Pids, writes \in Uploads : Upload(pid, writes)
    BY <2>2 DEF Next
  <2>3. CASE UNCHANGED ServerVars
    BY <2>3 DEF ServerVars
  <2> QED BY <2>1, <2>2, <2>3 DEF ServerNext
<1> QED BY <1>1, PTL DEF Server, Spec

=============================================================================
