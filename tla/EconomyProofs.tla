--------------------------- MODULE EconomyProofs ---------------------------
(* Proofs about Economy, for any clients, reports, purchases and data.     *)
EXTENDS Economy, WellFoundedInduction, FiniteSetTheorems, TLAPS

(* Induction over the natural numbers, for a set of them. *)
LEMMA NatSet ==
  ASSUME NEW T \in SUBSET Nat, 0 \in T, \A n \in T : n + 1 \in T
  PROVE  T = Nat
<1> DEFINE R == OpToRel(<, Nat)
           Bad == Nat \ T
<1>1. \A x, y \in Nat : <<x, y>> \in R <=> x < y
  BY DEF OpToRel
<1>2. IsWellFoundedOn(R, Nat)
  BY NatLessThanWellFounded
<1> HIDE DEF R
<1>3. SUFFICES ASSUME Bad # {} PROVE FALSE
  OBVIOUS
<1>4. PICK x \in Bad : \A y \in Bad : ~(<<y, x>> \in R)
  BY <1>2, <1>3, WFMin
<1>5. x \in Nat /\ x \notin T
  OBVIOUS
<1>6. x # 0
  BY <1>5
<1>7. x - 1 \in Nat /\ x - 1 < x
  BY <1>5, <1>6
<1>8. x - 1 \in T
  BY <1>1, <1>4, <1>5, <1>7
<1>9. (x - 1) + 1 \in T /\ (x - 1) + 1 = x
  BY <1>5, <1>8
<1> QED BY <1>5, <1>9

(* ... up to a number, and over the elements of a finite set. *)
LEMMA Along ==
  ASSUME NEW n \in Nat, NEW Q, 0 \in Q, \A k \in Q : k \in 0..(n - 1) => k + 1 \in Q
  PROVE  n \in Q
<1> DEFINE T == {k \in Nat : k <= n => k \in Q}
<1>1. 0 \in T /\ \A k \in T : k + 1 \in T
  OBVIOUS
<1> HIDE DEF T
<1>2. T = Nat
  <2>1. T \in SUBSET Nat
    BY DEF T
  <2> QED BY <1>1, <2>1, NatSet
<1> QED BY <1>2 DEF T

LEMMA OverFinite ==
  ASSUME NEW S, IsFiniteSet(S), NEW G, {} \in G,
         \A T \in SUBSET S : \A x \in S : T \in G /\ x \notin T => T \cup {x} \in G
  PROVE  S \in G
<1> DEFINE Q == {n \in Nat : \A T \in SUBSET S : Cardinality(T) = n => T \in G}
<1>1. 0 \in Q
  BY FS_Subset, FS_EmptySet
<1>2. ASSUME NEW n \in Q PROVE n + 1 \in Q
  <2> SUFFICES ASSUME NEW T \in SUBSET S, Cardinality(T) = n + 1 PROVE T \in G
    OBVIOUS
  <2>1. IsFiniteSet(T)
    BY FS_Subset
  <2>2. PICK x \in T : TRUE
    BY <2>1, FS_EmptySet
  <2>3. T \ {x} \in SUBSET S /\ Cardinality(T \ {x}) = n
    <3>1. Cardinality(T \ {x}) = Cardinality(T) - 1
      BY <2>1, FS_RemoveElement
    <3> QED BY <3>1
  <2>4. T \ {x} \in G /\ (T \ {x}) \cup {x} = T
    BY <2>3
  <2> QED BY <2>3, <2>4
<1>3. Q = Nat
  <2>1. Q \in SUBSET Nat
    OBVIOUS
  <2> HIDE DEF Q
  <2> QED BY <1>1, <1>2, <2>1, NatSet
<1> QED BY <1>3, FS_CardinalityType

-----------------------------------------------------------------------------
(* Sums *)
SumUpTo(f, S, h, n) ==
    \A T \in SUBSET S : Cardinality(T) <= n =>
       h[T] = IF T = {} THEN 0 ELSE f[CHOOSE x \in T : TRUE] + h[T \ {CHOOSE x \in T : TRUE}]

SumsOf(f, S, h) ==
    h = [T \in SUBSET S |->
           IF T = {} THEN 0 ELSE f[CHOOSE x \in T : TRUE] + h[T \ {CHOOSE x \in T : TRUE}]]

LEMMA SumTable ==
  ASSUME NEW f, NEW S, IsFiniteSet(S)
  PROVE  \E h : SumsOf(f, S, h) /\ SumFunctionOnSet(f, S) = h[S]
<1> DEFINE Q == {n \in Nat : \E h : h = [T \in SUBSET S |-> h[T]] /\ SumUpTo(f, S, h, n)}
<1>1. 0 \in Q
  <2> DEFINE h == [T \in SUBSET S |-> 0]
  <2>1. \A T \in SUBSET S : Cardinality(T) <= 0 => T = {}
    BY FS_Subset, FS_EmptySet, FS_CardinalityType
  <2>2. SumUpTo(f, S, h, 0) /\ h = [T \in SUBSET S |-> h[T]]
    BY <2>1 DEF SumUpTo
  <2> HIDE DEF h
  <2> QED BY <2>2
<1>2. ASSUME NEW n \in Q PROVE n + 1 \in Q
  <2>1. PICK h : h = [T \in SUBSET S |-> h[T]] /\ SumUpTo(f, S, h, n)
    OBVIOUS
  <2> DEFINE g == [T \in SUBSET S |->
                     IF T # {} /\ Cardinality(T) = n + 1
                     THEN f[CHOOSE x \in T : TRUE] + h[T \ {CHOOSE x \in T : TRUE}] ELSE h[T]]
  <2>2. ASSUME NEW T \in SUBSET S, Cardinality(T) <= n + 1
        PROVE  g[T] = IF T = {} THEN 0
                      ELSE f[CHOOSE x \in T : TRUE] + g[T \ {CHOOSE x \in T : TRUE}]
    <3> DEFINE c == CHOOSE x \in T : TRUE
    <3>1. CASE T = {}
      <4>1. {} \in SUBSET S /\ Cardinality({}) <= n
        BY FS_EmptySet
      <4>2. h[{}] = 0
        BY <2>1, <4>1 DEF SumUpTo
      <4> QED BY <3>1, <4>2
    <3>2. CASE T # {}
      <4>1. c \in T /\ IsFiniteSet(T)
        BY <3>2, FS_Subset
      <4> HIDE DEF c
      <4>2. /\ Cardinality(T) \in Nat /\ Cardinality(T \ {c}) = Cardinality(T) - 1
            /\ T \ {c} \in SUBSET S
        BY <4>1, FS_RemoveElement, FS_CardinalityType
      <4>3. g[T \ {c}] = h[T \ {c}]
        BY <4>2, <2>2
      <4>4. CASE Cardinality(T) = n + 1
        <5>1. g[T] = f[c] + h[T \ {c}]
          BY <4>4, <3>2 DEF c
        <5> QED BY <4>3, <5>1, <3>2 DEF c
      <4>5. CASE Cardinality(T) # n + 1
        <5>1. g[T] = h[T] /\ Cardinality(T) <= n
          BY <4>2, <4>5, <2>2
        <5>2. h[T] = f[c] + h[T \ {c}]
          BY <2>1, <3>2, <5>1 DEF SumUpTo, c
        <5> QED BY <4>3, <5>1, <5>2, <3>2 DEF c
      <4> QED BY <4>4, <4>5
    <3> QED BY <3>1, <3>2
  <2>3. g = [T \in SUBSET S |-> g[T]] /\ SumUpTo(f, S, g, n + 1)
    <3>1. g = [T \in SUBSET S |-> g[T]]
      OBVIOUS
    <3> HIDE DEF g
    <3> QED BY <2>2, <3>1 DEF SumUpTo
  <2> HIDE DEF g
  <2> QED BY <2>3
<1>3. Cardinality(S) \in Q
  <2>1. Q \in SUBSET Nat
    OBVIOUS
  <2> HIDE DEF Q
  <2> QED BY <1>1, <1>2, <2>1, NatSet, FS_CardinalityType
<1>4. PICK h : h = [T \in SUBSET S |-> h[T]] /\ SumUpTo(f, S, h, Cardinality(S))
  BY <1>3
<1>5. SumsOf(f, S, h)
  <2>1. \A T \in SUBSET S : Cardinality(T) <= Cardinality(S)
    BY FS_Subset
  <2> QED BY <1>4, <2>1 DEF SumUpTo, SumsOf
<1> DEFINE iter == CHOOSE g : SumsOf(f, S, g)
<1>6. SumsOf(f, S, iter)
  BY <1>5
<1>7. SumFunctionOnSet(f, S) = iter[S]
  BY DEF SumFunctionOnSet, FoldFunctionOnSet, MapThenFoldSet, SumsOf
<1> QED BY <1>6, <1>7

(* The sums of the parts of a set, whatever the function is elsewhere. *)
LEMMA SumParts ==
  ASSUME NEW f, NEW S, IsFiniteSet(S), NEW h, SumsOf(f, S, h), NEW U \in SUBSET S
  PROVE  SumFunctionOnSet(f, U) = h[U]
<1>1. IsFiniteSet(U)
  BY FS_Subset
<1>2. PICK g : SumsOf(f, U, g) /\ SumFunctionOnSet(f, U) = g[U]
  BY <1>1, SumTable
<1> DEFINE Q == {n \in Nat : \A T \in SUBSET U : Cardinality(T) = n => g[T] = h[T]}
<1>3. 0 \in Q
  <2>1. \A T \in SUBSET U : Cardinality(T) = 0 => T = {}
    BY <1>1, FS_Subset, FS_EmptySet
  <2>2. g[{}] = 0 /\ h[{}] = 0
    BY <1>2 DEF SumsOf
  <2> QED BY <2>1, <2>2
<1>4. ASSUME NEW n \in Q PROVE n + 1 \in Q
  <2> SUFFICES ASSUME NEW T \in SUBSET U, Cardinality(T) = n + 1 PROVE g[T] = h[T]
    OBVIOUS
  <2> DEFINE c == CHOOSE x \in T : TRUE
  <2>1. IsFiniteSet(T)
    BY <1>1, FS_Subset
  <2>2. T # {}
    BY <2>1, FS_EmptySet
  <2>3. c \in T
    BY <2>2
  <2>4. g[T] = f[c] + g[T \ {c}] /\ h[T] = f[c] + h[T \ {c}]
    BY <1>2, <2>2 DEF SumsOf
  <2> HIDE DEF c
  <2>5. Cardinality(T \ {c}) = Cardinality(T) - 1
    BY <2>1, <2>3, FS_RemoveElement
  <2>6. T \ {c} \in SUBSET U /\ Cardinality(T \ {c}) = n
    BY <2>5
  <2>7. g[T \ {c}] = h[T \ {c}]
    BY <2>6
  <2> QED BY <2>4, <2>7
<1>5. Q = Nat
  <2>1. Q \in SUBSET Nat
    OBVIOUS
  <2> HIDE DEF Q
  <2> QED BY <1>3, <1>4, <2>1, NatSet
<1> QED BY <1>1, <1>2, <1>5, FS_CardinalityType

LEMMA SumEmpty == ASSUME NEW f PROVE SumFunctionOnSet(f, {}) = 0
<1>1. IsFiniteSet({})
  BY FS_EmptySet
<1>2. PICK h : SumsOf(f, {}, h) /\ SumFunctionOnSet(f, {}) = h[{}]
  BY <1>1, SumTable
<1> QED BY <1>2 DEF SumsOf

(* The order does not matter: any element may be the last. *)
LEMMA SumLast ==
  ASSUME NEW f, NEW S, IsFiniteSet(S), \A x \in S : f[x] \in Int
  PROVE  /\ SumFunctionOnSet(f, S) \in Int
         /\ \A x \in S : SumFunctionOnSet(f, S) = SumFunctionOnSet(f, S \ {x}) + f[x]
<1>1. PICK h : SumsOf(f, S, h)
  BY SumTable
<1>2. \A T \in SUBSET S : SumFunctionOnSet(f, T) = h[T]
  BY <1>1, SumParts
<1> DEFINE Good(T) == h[T] \in Int /\ \A x \in T : h[T] = h[T \ {x}] + f[x]
           Q == {n \in Nat : \A T \in SUBSET S : Cardinality(T) <= n => Good(T)}
<1>3. 0 \in Q
  <2>1. ASSUME NEW T \in SUBSET S, Cardinality(T) <= 0 PROVE T = {}
    <3>1. IsFiniteSet(T) /\ Cardinality(T) \in Nat
      BY FS_Subset, FS_CardinalityType
    <3> QED BY <2>1, <3>1, FS_EmptySet
  <2>2. Good({})
    BY <1>1 DEF SumsOf
  <2> HIDE DEF Good
  <2> QED BY <2>1, <2>2
<1>4. ASSUME NEW n \in Q PROVE n + 1 \in Q
  <2>0. Good({})
    BY <1>1 DEF SumsOf
  <2> SUFFICES ASSUME NEW T \in SUBSET S, Cardinality(T) <= n + 1, T # {}
               PROVE  Good(T)
    <3> HIDE DEF Good
    <3> QED BY <2>0
  <2> DEFINE c == CHOOSE x \in T : TRUE
  <2>1. IsFiniteSet(T)
    BY FS_Subset
  <2>3. c \in T /\ f[c] \in Int
    OBVIOUS
  <2>4. h[T] = f[c] + h[T \ {c}]
    BY <1>1 DEF SumsOf
  <2> HIDE DEF c
  <2>5. ASSUME NEW x \in T
        PROVE  T \ {x} \in SUBSET S /\ Cardinality(T \ {x}) <= n
    <3>1. Cardinality(T \ {x}) = Cardinality(T) - 1
      BY <2>1, FS_RemoveElement
    <3>2. Cardinality(T) \in Nat
      BY <2>1, FS_CardinalityType
    <3> QED BY <3>1, <3>2
  <2>6. h[T \ {c}] \in Int
    BY <2>3, <2>5
  <2>7. ASSUME NEW x \in T, x # c
        PROVE  h[T] = h[T \ {x}] + f[x]
    <3>1. h[T \ {c}] = h[(T \ {c}) \ {x}] + f[x]
      BY <2>3, <2>5, <2>7
    <3>2. h[T \ {x}] = h[(T \ {x}) \ {c}] + f[c]
      BY <2>3, <2>5, <2>7
    <3>3. h[(T \ {c}) \ {x}] = h[(T \ {x}) \ {c}]
      <4>1. (T \ {c}) \ {x} = (T \ {x}) \ {c}
        OBVIOUS
      <4> QED BY <4>1
    <3>4. h[T \ {x}] \in Int /\ f[x] \in Int
      BY <2>5
    <3>5. h[(T \ {x}) \ {c}] \in Int
      <4>1. IsFiniteSet(T \ {x}) /\ c \in T \ {x}
        BY <2>1, <2>3, <2>7, FS_RemoveElement
      <4>2. Cardinality((T \ {x}) \ {c}) = Cardinality(T \ {x}) - 1 /\ Cardinality(T \ {x}) \in Nat
        BY <4>1, FS_RemoveElement, FS_CardinalityType
      <4> QED BY <4>2, <2>5
    <3> QED BY <2>3, <2>4, <3>1, <3>2, <3>3, <3>4, <3>5
  <2>8. h[T] \in Int /\ h[T] = h[T \ {c}] + f[c]
    BY <2>3, <2>4, <2>6
  <2> QED BY <2>7, <2>8
<1>5. Q = Nat
  <2>1. Q \in SUBSET Nat
    OBVIOUS
  <2> HIDE DEF Q
  <2> QED BY <1>3, <1>4, <2>1, NatSet
<1>6. Good(S)
  <2>1. Cardinality(S) \in Nat /\ Cardinality(S) <= Cardinality(S)
    BY FS_CardinalityType
  <2> HIDE DEF Good
  <2> QED BY <1>5, <2>1
<1> QED BY <1>2, <1>6
LEMMA SumMore ==
  ASSUME NEW f, NEW S, IsFiniteSet(S), NEW x, x \notin S, f[x] \in Int, \A y \in S : f[y] \in Int
  PROVE  SumFunctionOnSet(f, S \cup {x}) = SumFunctionOnSet(f, S) + f[x]
<1>1. IsFiniteSet(S \cup {x}) /\ \A y \in S \cup {x} : f[y] \in Int
  BY FS_AddElement
<1>2. (S \cup {x}) \ {x} = S
  OBVIOUS
<1> QED BY <1>1, <1>2, SumLast

(* Only the values on the set count. *)
LEMMA SumSame ==
  ASSUME NEW f, NEW g, NEW S, IsFiniteSet(S), \A x \in S : f[x] = g[x] /\ f[x] \in Int
  PROVE  SumFunctionOnSet(f, S) = SumFunctionOnSet(g, S)
<1> DEFINE G == {T \in SUBSET S : SumFunctionOnSet(f, T) = SumFunctionOnSet(g, T)}
<1>1. {} \in G
  BY SumEmpty
<1>2. ASSUME NEW T \in SUBSET S, NEW x \in S, T \in G, x \notin T
      PROVE  T \cup {x} \in G
  <2>1. IsFiniteSet(T)
    BY FS_Subset
  <2>2. SumFunctionOnSet(f, T \cup {x}) = SumFunctionOnSet(f, T) + f[x]
    BY <1>2, <2>1, SumMore
  <2>3. SumFunctionOnSet(g, T \cup {x}) = SumFunctionOnSet(g, T) + g[x]
    BY <1>2, <2>1, SumMore
  <2> QED BY <1>2, <2>2, <2>3
<1>3. S \in G
  <2> HIDE DEF G
  <2> QED BY <1>1, <1>2, OverFinite
<1> QED BY <1>3

LEMMA SumNat ==
  ASSUME NEW f, NEW S, IsFiniteSet(S), \A x \in S : f[x] \in Nat
  PROVE  SumFunctionOnSet(f, S) \in Nat
<1> DEFINE G == {T \in SUBSET S : SumFunctionOnSet(f, T) \in Nat}
<1>1. {} \in G
  BY SumEmpty
<1>2. ASSUME NEW T \in SUBSET S, NEW x \in S, T \in G, x \notin T
      PROVE  T \cup {x} \in G
  <2>1. IsFiniteSet(T)
    BY FS_Subset
  <2>2. SumFunctionOnSet(f, T \cup {x}) = SumFunctionOnSet(f, T) + f[x]
    BY <1>2, <2>1, SumMore
  <2> QED BY <1>2, <2>2
<1>3. S \in G
  <2> HIDE DEF G
  <2> QED BY <1>1, <1>2, OverFinite
<1> QED BY <1>3

-----------------------------------------------------------------------------
(* Reports are folded from left to right. *)
LEMMA MaxTop ==
  ASSUME NEW n \in Nat, NEW t \in SUBSET (1..(n + 1)), n + 1 \in t
  PROVE  Max(t) = n + 1
<1>1. \A x \in t : x <= n + 1 /\ x \in Nat
  OBVIOUS
<1>2. \A x \in t : (\A y \in t : x >= y) <=> x = n + 1
  BY <1>1
<1> QED BY <1>2 DEF Max

LEMMA MaxIn ==
  ASSUME NEW n \in Nat, NEW t \in SUBSET (1..n), t # {}
  PROVE  Max(t) \in t
<1> DEFINE T == {m \in Nat : \A u \in SUBSET (1..m) : u # {} => Max(u) \in u}
<1>1. 0 \in T
  <2>1. 1..0 = {}
    OBVIOUS
  <2> QED BY <2>1
<1>2. ASSUME NEW m \in T PROVE m + 1 \in T
  <2> SUFFICES ASSUME NEW u \in SUBSET (1..(m + 1)), u # {} PROVE Max(u) \in u
    OBVIOUS
  <2>1. CASE m + 1 \in u
    BY <2>1, MaxTop
  <2>2. CASE m + 1 \notin u
    <3>1. u \in SUBSET (1..m)
      BY <2>2
    <3> QED BY <3>1
  <2> QED BY <2>1, <2>2
<1>3. T = Nat
  <2>1. T \in SUBSET Nat
    OBVIOUS
  <2> HIDE DEF T
  <2> QED BY <1>1, <1>2, <2>1, NatSet
<1> QED BY <1>3

(* FoldLeft tabulates its result for every set of positions; the table      *)
(* exists if the results stay in some set I.                                *)
Fits(I, base, F, h, t) ==
    h[t] \in I /\ h[t] = IF t = {} THEN base ELSE F[<<h[t \ {Max(t)}], Max(t)>>]

Tabulates(I, base, n, F, h) ==
    h = [t \in SUBSET (1..n) |-> h[t]] /\ \A t \in SUBSET (1..n) : Fits(I, base, F, h, t)

LEMMA FoldTable ==
  ASSUME NEW I, NEW base \in I, NEW n \in Nat, NEW F, \A x \in I, k \in 1..n : F[<<x, k>>] \in I
  PROVE  \E h : Tabulates(I, base, n, F, h)
<1> DEFINE Q == {m \in Nat : m <= n => \E h : Tabulates(I, base, m, F, h)}
<1>1. 0 \in Q
  <2> DEFINE h == [t \in SUBSET (1..0) |-> base]
  <2>1. \A t \in SUBSET (1..0) : t = {}
    OBVIOUS
  <2>2. Tabulates(I, base, 0, F, h)
    BY <2>1 DEF Tabulates, Fits
  <2> QED BY <2>2
<1>2. ASSUME NEW m \in Q PROVE m + 1 \in Q
  <2> SUFFICES ASSUME m + 1 <= n PROVE \E h : Tabulates(I, base, m + 1, F, h)
    OBVIOUS
  <2>1. PICK h : Tabulates(I, base, m, F, h)
    OBVIOUS
  <2> DEFINE g == [t \in SUBSET (1..(m + 1)) |->
                     IF m + 1 \in t THEN F[<<h[t \ {m + 1}], m + 1>>] ELSE h[t]]
  <2>2. ASSUME NEW t \in SUBSET (1..(m + 1))
        PROVE  Fits(I, base, F, g, t)
    <3>1. CASE m + 1 \in t
      <4>1. Max(t) = m + 1
        BY <3>1, MaxTop
      <4>2. t \ {m + 1} \in SUBSET (1..m) /\ t \ {m + 1} \in SUBSET (1..(m + 1))
        OBVIOUS
      <4>3. g[t \ {m + 1}] = h[t \ {m + 1}] /\ h[t \ {m + 1}] \in I
        BY <2>1, <4>2 DEF Tabulates, Fits
      <4>4. g[t] = F[<<h[t \ {m + 1}], m + 1>>]
        BY <3>1
      <4> HIDE DEF g
      <4>5. m + 1 \in 1..n
        OBVIOUS
      <4>6. g[t] \in I
        BY <4>3, <4>4, <4>5
      <4> QED BY <3>1, <4>1, <4>3, <4>4, <4>6 DEF Fits
    <3>2. CASE m + 1 \notin t
      <4>1. t \in SUBSET (1..m)
        BY <3>2
      <4>2. t \ {Max(t)} \in SUBSET (1..m) /\ t \ {Max(t)} \in SUBSET (1..(m + 1))
        BY <4>1
      <4>3. g[t] = h[t] /\ g[t \ {Max(t)}] = h[t \ {Max(t)}]
        BY <3>2, <4>2
      <4>4. Fits(I, base, F, h, t)
        BY <2>1, <4>1 DEF Tabulates
      <4> HIDE DEF g
      <4> QED BY <4>3, <4>4 DEF Fits
    <3> QED BY <3>1, <3>2
  <2>3. g = [t \in SUBSET (1..(m + 1)) |-> g[t]]
    OBVIOUS
  <2> HIDE DEF g
  <2>4. Tabulates(I, base, m + 1, F, g)
    BY <2>2, <2>3 DEF Tabulates
  <2> QED BY <2>4
<1>3. Q = Nat
  <2>1. Q \in SUBSET Nat
    OBVIOUS
  <2> HIDE DEF Q
  <2> QED BY <1>1, <1>2, <2>1, NatSet
<1> QED BY <1>3

LEMMA Prefix ==
  ASSUME NEW n \in Nat, NEW k \in 1..n
  PROVE  /\ Max(1..k) = k /\ (1..k) \ {k} = 1..(k - 1)
         /\ 1..k # {} /\ 1..k \in SUBSET (1..n) /\ 1..(k - 1) \in SUBSET (1..n)
<1>1. PICK m \in Nat : k = m + 1
  OBVIOUS
<1>2. Max(1..k) = k
  <2>1. m + 1 \in 1..(m + 1) /\ 1..(m + 1) \in SUBSET (1..(m + 1))
    OBVIOUS
  <2> QED BY <1>1, <2>1, MaxTop
<1>3. \A x : x \in (1..k) \ {k} <=> x \in 1..(k - 1)
  OBVIOUS
<1>4. k \in 1..k /\ \A x \in 1..k : x \in 1..n
  OBVIOUS
<1>5. \A x \in 1..(k - 1) : x \in 1..n
  OBVIOUS
<1> QED BY <1>2, <1>3, <1>4, <1>5

LEMMA TableEnd ==
  ASSUME NEW n \in Nat, NEW table, NEW J, table[{}] \in J[0],
         \A k \in 1..n : table[1..(k - 1)] \in J[k - 1] => table[1..k] \in J[k]
  PROVE  table[1..n] \in J[n]
<1> DEFINE Q == {k \in 0..n : table[1..k] \in J[k]}
<1>1. 0 \in Q
  <2>1. 1..0 = {}
    OBVIOUS
  <2> QED BY <2>1
<1>2. ASSUME NEW k \in Q, k \in 0..(n - 1) PROVE k + 1 \in Q
  <2>1. k + 1 \in 1..n /\ (k + 1) - 1 = k
    BY <1>2
  <2> QED BY <2>1
<1> HIDE DEF Q
<1>3. n \in Q
  BY <1>1, <1>2, Along
<1> QED BY <1>3 DEF Q

(* What awardRaces does, one event after the other: J[k] holds after k events. *)
LEMMA RacesFold ==
  ASSUME NEW I, NEW base \in I, NEW report \in Seq(Events), NEW J, base \in J[0],
         \A s \in I, e \in Events : RaceStep(s, e) \in I,
         \A k \in 1..Len(report) : \A s \in I \cap J[k - 1] : RaceStep(s, report[k]) \in J[k]
  PROVE  FoldLeft(RaceStep, base, report) \in I \cap J[Len(report)]
<1> DEFINE n == Len(report)
           F == [y \in I \X (1..n) |-> RaceStep(y[1], report[y[2]])]
           K == [k \in 0..n |-> I \cap J[k]]
           Table(h) == h = [t \in SUBSET DOMAIN report |->
                              IF t = {} THEN base ELSE RaceStep(h[t \ {Max(t)}], report[Max(t)])]
           table == CHOOSE h : Table(h)
<1>1. n \in Nat /\ DOMAIN report = 1..n /\ \A k \in 1..n : report[k] \in Events
  OBVIOUS
<1>2. \A s \in I, k \in 1..n : F[<<s, k>>] = RaceStep(s, report[k]) /\ F[<<s, k>>] \in I
  BY <1>1
<1> HIDE DEF F, n
<1>3. PICK h : Tabulates(I, base, n, F, h)
  BY <1>1, <1>2, FoldTable
<1>4. ASSUME NEW t \in SUBSET (1..n)
      PROVE  h[t] = IF t = {} THEN base ELSE RaceStep(h[t \ {Max(t)}], report[Max(t)])
  <2>1. CASE t = {}
    BY <1>3, <2>1 DEF Tabulates, Fits
  <2>2. CASE t # {}
    <3>1. Max(t) \in 1..n /\ t \ {Max(t)} \in SUBSET (1..n)
      BY <1>1, <2>2, MaxIn
    <3> QED BY <1>2, <1>3, <2>2, <3>1 DEF Tabulates, Fits
  <2> QED BY <2>1, <2>2
<1>5. Table(h)
  BY <1>1, <1>3, <1>4 DEF Tabulates
<1>6. Table(table)
  BY <1>5
<1>7. FoldLeft(RaceStep, base, report) = table[DOMAIN report]
  BY DEF FoldLeft, MapThenFoldSet
<1> HIDE DEF table
<1>8. ASSUME NEW k \in 1..n, table[1..(k - 1)] \in K[k - 1]
      PROVE  table[1..k] \in K[k]
  <2>1. /\ Max(1..k) = k /\ (1..k) \ {k} = 1..(k - 1)
        /\ 1..k # {} /\ 1..k \in SUBSET (1..n)
    BY <1>1, Prefix
  <2>2. table[1..k] = RaceStep(table[(1..k) \ {k}], report[k])
    BY <1>1, <1>6, <2>1
  <2>3. table[1..k] = RaceStep(table[1..(k - 1)], report[k])
    BY <2>1, <2>2
  <2>4. k - 1 \in 0..n /\ k \in 0..n
    BY <1>1
  <2>5. table[1..(k - 1)] \in I \cap J[k - 1]
    BY <1>8, <2>4
  <2>6. RaceStep(table[1..(k - 1)], report[k]) \in I \cap J[k]
    BY <1>1, <2>5 DEF n
  <2> QED BY <2>3, <2>4, <2>6
<1>9. table[{}] \in K[0]
  BY <1>1, <1>6
<1> HIDE DEF K
<1>10. table[1..n] \in K[n]
  BY <1>1, <1>8, <1>9, TableEnd
<1> QED BY <1>1, <1>7, <1>10 DEF K, n

(* What reportPitStopRefresh does. *)
LEMMA RefreshFold ==
  ASSUME NEW I, NEW base \in I, NEW report \in Seq(Events), NEW J, base \in J[0],
         \A s \in I, e \in Events : RefreshStep(s, e) \in I,
         \A k \in 1..Len(report) : \A s \in I \cap J[k - 1] : RefreshStep(s, report[k]) \in J[k]
  PROVE  FoldLeft(RefreshStep, base, report) \in I \cap J[Len(report)]
<1> DEFINE n == Len(report)
           F == [y \in I \X (1..n) |-> RefreshStep(y[1], report[y[2]])]
           K == [k \in 0..n |-> I \cap J[k]]
           Table(h) == h = [t \in SUBSET DOMAIN report |->
                              IF t = {} THEN base ELSE RefreshStep(h[t \ {Max(t)}], report[Max(t)])]
           table == CHOOSE h : Table(h)
<1>1. n \in Nat /\ DOMAIN report = 1..n /\ \A k \in 1..n : report[k] \in Events
  OBVIOUS
<1>2. \A s \in I, k \in 1..n : F[<<s, k>>] = RefreshStep(s, report[k]) /\ F[<<s, k>>] \in I
  BY <1>1
<1> HIDE DEF F, n
<1>3. PICK h : Tabulates(I, base, n, F, h)
  BY <1>1, <1>2, FoldTable
<1>4. ASSUME NEW t \in SUBSET (1..n)
      PROVE  h[t] = IF t = {} THEN base ELSE RefreshStep(h[t \ {Max(t)}], report[Max(t)])
  <2>1. CASE t = {}
    BY <1>3, <2>1 DEF Tabulates, Fits
  <2>2. CASE t # {}
    <3>1. Max(t) \in 1..n /\ t \ {Max(t)} \in SUBSET (1..n)
      BY <1>1, <2>2, MaxIn
    <3> QED BY <1>2, <1>3, <2>2, <3>1 DEF Tabulates, Fits
  <2> QED BY <2>1, <2>2
<1>5. Table(h)
  BY <1>1, <1>3, <1>4 DEF Tabulates
<1>6. Table(table)
  BY <1>5
<1>7. FoldLeft(RefreshStep, base, report) = table[DOMAIN report]
  BY DEF FoldLeft, MapThenFoldSet
<1> HIDE DEF table
<1>8. ASSUME NEW k \in 1..n, table[1..(k - 1)] \in K[k - 1]
      PROVE  table[1..k] \in K[k]
  <2>1. /\ Max(1..k) = k /\ (1..k) \ {k} = 1..(k - 1)
        /\ 1..k # {} /\ 1..k \in SUBSET (1..n)
    BY <1>1, Prefix
  <2>2. table[1..k] = RefreshStep(table[(1..k) \ {k}], report[k])
    BY <1>1, <1>6, <2>1
  <2>3. table[1..k] = RefreshStep(table[1..(k - 1)], report[k])
    BY <2>1, <2>2
  <2>4. k - 1 \in 0..n /\ k \in 0..n
    BY <1>1
  <2>5. table[1..(k - 1)] \in I \cap J[k - 1]
    BY <1>8, <2>4
  <2>6. RefreshStep(table[1..(k - 1)], report[k]) \in I \cap J[k]
    BY <1>1, <2>5 DEF n
  <2> QED BY <2>3, <2>4, <2>6
<1>9. table[{}] \in K[0]
  BY <1>1, <1>6
<1> HIDE DEF K
<1>10. table[1..n] \in K[n]
  BY <1>1, <1>8, <1>9, TableEnd
<1> QED BY <1>1, <1>7, <1>10 DEF K, n

(* What purchase does, one SKU after the other. *)
LEMMA PurchaseFold ==
  ASSUME NEW I, NEW base \in I, NEW skus \in Seq(DOMAIN Catalog), NEW J, base \in J[0],
         \A s \in I, sku \in DOMAIN Catalog : PurchaseStep(s, sku) \in I,
         \A k \in 1..Len(skus) : \A s \in I \cap J[k - 1] : PurchaseStep(s, skus[k]) \in J[k]
  PROVE  FoldLeft(PurchaseStep, base, skus) \in I \cap J[Len(skus)]
<1> DEFINE n == Len(skus)
           F == [y \in I \X (1..n) |-> PurchaseStep(y[1], skus[y[2]])]
           K == [k \in 0..n |-> I \cap J[k]]
           Table(h) == h = [t \in SUBSET DOMAIN skus |->
                              IF t = {} THEN base ELSE PurchaseStep(h[t \ {Max(t)}], skus[Max(t)])]
           table == CHOOSE h : Table(h)
<1>1. n \in Nat /\ DOMAIN skus = 1..n /\ \A k \in 1..n : skus[k] \in DOMAIN Catalog
  OBVIOUS
<1>2. \A s \in I, k \in 1..n : F[<<s, k>>] = PurchaseStep(s, skus[k]) /\ F[<<s, k>>] \in I
  BY <1>1
<1> HIDE DEF F, n
<1>3. PICK h : Tabulates(I, base, n, F, h)
  BY <1>1, <1>2, FoldTable
<1>4. ASSUME NEW t \in SUBSET (1..n)
      PROVE  h[t] = IF t = {} THEN base ELSE PurchaseStep(h[t \ {Max(t)}], skus[Max(t)])
  <2>1. CASE t = {}
    BY <1>3, <2>1 DEF Tabulates, Fits
  <2>2. CASE t # {}
    <3>1. Max(t) \in 1..n /\ t \ {Max(t)} \in SUBSET (1..n)
      BY <1>1, <2>2, MaxIn
    <3> QED BY <1>2, <1>3, <2>2, <3>1 DEF Tabulates, Fits
  <2> QED BY <2>1, <2>2
<1>5. Table(h)
  BY <1>1, <1>3, <1>4 DEF Tabulates
<1>6. Table(table)
  BY <1>5
<1>7. FoldLeft(PurchaseStep, base, skus) = table[DOMAIN skus]
  BY DEF FoldLeft, MapThenFoldSet
<1> HIDE DEF table
<1>8. ASSUME NEW k \in 1..n, table[1..(k - 1)] \in K[k - 1]
      PROVE  table[1..k] \in K[k]
  <2>1. /\ Max(1..k) = k /\ (1..k) \ {k} = 1..(k - 1)
        /\ 1..k # {} /\ 1..k \in SUBSET (1..n)
    BY <1>1, Prefix
  <2>2. table[1..k] = PurchaseStep(table[(1..k) \ {k}], skus[k])
    BY <1>1, <1>6, <2>1
  <2>3. table[1..k] = PurchaseStep(table[1..(k - 1)], skus[k])
    BY <2>1, <2>2
  <2>4. k - 1 \in 0..n /\ k \in 0..n
    BY <1>1
  <2>5. table[1..(k - 1)] \in I \cap J[k - 1]
    BY <1>8, <2>4
  <2>6. PurchaseStep(table[1..(k - 1)], skus[k]) \in I \cap J[k]
    BY <1>1, <2>5 DEF n
  <2> QED BY <2>3, <2>4, <2>6
<1>9. table[{}] \in K[0]
  BY <1>1, <1>6
<1> HIDE DEF K
<1>10. table[1..n] \in K[n]
  BY <1>1, <1>8, <1>9, TableEnd
<1> QED BY <1>1, <1>7, <1>10 DEF K, n

(* What awardChallenges does to one of the challenges. *)
LEMMA ChallengeFold ==
  ASSUME NEW r, NEW account, NEW period, period = Current(r),
         NEW I, NEW base \in I, base = ChallengeStart(account.challenges[<<r, period[1]>>]), NEW report \in Seq(Events), NEW J, base \in J[0],
         \A s \in I, e \in Events : ChallengeStep(r, period, s, e) \in I,
         \A k \in 1..Len(report) : \A s \in I \cap J[k - 1] : ChallengeStep(r, period, s, report[k]) \in J[k]
  PROVE  Challenge(r, account, report) \in I \cap J[Len(report)]
<1> DEFINE n == Len(report)
           F == [y \in I \X (1..n) |-> ChallengeStep(r, period, y[1], report[y[2]])]
           K == [k \in 0..n |-> I \cap J[k]]
           Table(h) == h = [t \in SUBSET DOMAIN report |->
                              IF t = {} THEN base ELSE ChallengeStep(r, period, h[t \ {Max(t)}], report[Max(t)])]
           table == CHOOSE h : Table(h)
<1>1. n \in Nat /\ DOMAIN report = 1..n /\ \A k \in 1..n : report[k] \in Events
  OBVIOUS
<1>2. \A s \in I, k \in 1..n : F[<<s, k>>] = ChallengeStep(r, period, s, report[k]) /\ F[<<s, k>>] \in I
  BY <1>1
<1> HIDE DEF F, n
<1>3. PICK h : Tabulates(I, base, n, F, h)
  BY <1>1, <1>2, FoldTable
<1>4. ASSUME NEW t \in SUBSET (1..n)
      PROVE  h[t] = IF t = {} THEN base ELSE ChallengeStep(r, period, h[t \ {Max(t)}], report[Max(t)])
  <2>1. CASE t = {}
    BY <1>3, <2>1 DEF Tabulates, Fits
  <2>2. CASE t # {}
    <3>1. Max(t) \in 1..n /\ t \ {Max(t)} \in SUBSET (1..n)
      BY <1>1, <2>2, MaxIn
    <3> QED BY <1>2, <1>3, <2>2, <3>1 DEF Tabulates, Fits
  <2> QED BY <2>1, <2>2
<1>5. Table(h)
  BY <1>1, <1>3, <1>4 DEF Tabulates
<1>6. Table(table)
  BY <1>5
<1>7. Challenge(r, account, report) = table[DOMAIN report]
  BY DEF Challenge, FoldLeft, MapThenFoldSet
<1> HIDE DEF table
<1>8. ASSUME NEW k \in 1..n, table[1..(k - 1)] \in K[k - 1]
      PROVE  table[1..k] \in K[k]
  <2>1. /\ Max(1..k) = k /\ (1..k) \ {k} = 1..(k - 1)
        /\ 1..k # {} /\ 1..k \in SUBSET (1..n)
    BY <1>1, Prefix
  <2>2. table[1..k] = ChallengeStep(r, period, table[(1..k) \ {k}], report[k])
    BY <1>1, <1>6, <2>1
  <2>3. table[1..k] = ChallengeStep(r, period, table[1..(k - 1)], report[k])
    BY <2>1, <2>2
  <2>4. k - 1 \in 0..n /\ k \in 0..n
    BY <1>1
  <2>5. table[1..(k - 1)] \in I \cap J[k - 1]
    BY <1>8, <2>4
  <2>6. ChallengeStep(r, period, table[1..(k - 1)], report[k]) \in I \cap J[k]
    BY <1>1, <2>5 DEF n
  <2> QED BY <2>3, <2>4, <2>6
<1>9. table[{}] \in K[0]
  BY <1>1, <1>6
<1> HIDE DEF K
<1>10. table[1..n] \in K[n]
  BY <1>1, <1>8, <1>9, TableEnd
<1> QED BY <1>1, <1>7, <1>10 DEF K, n

-----------------------------------------------------------------------------
(* Types *)
Days == {Day(t) : t \in Times}

RaceState == [total : Nat, granted : [Events -> Nat], boosted : SUBSET Events, account : Account]

RefreshState == [account : Account, granted : [Events -> Nat]]

ChallengeState ==
    [c : Completion, credit : Nat, occ : [Events -> Nat], advanced : [Events -> Nat]]

PurchaseState == [ok : BOOLEAN, total : Nat, account : Account]

LEMMA EventType ==
  ASSUME NEW e \in Events
  PROVE  /\ e.kind \in {"race", "refresh", "challenge"} /\ e.at \in Nat /\ e.at \in Times /\ e.at # 0
         /\ e.kind = "race" => /\ e.coins \in Nat /\ e.extra \in Nat /\ e.seconds \in Nat
                               /\ e.online \in BOOLEAN /\ e.coins > 0
         /\ e.kind = "challenge" => e.inc \in Nat
BY EconomyAssumption, DataAssumption DEF Times

LEMMA AccountParts ==
  ASSUME NEW x \in Account
  PROVE  /\ x.balance \in Nat /\ x.items \subseteq Items /\ x.races \subseteq Events
         /\ x.online \in [Days -> Nat]
         /\ x.refresh \in [day : {0} \cup {PitStopDay(t) : t \in Times}, count : 0..2,
                           receipts : SUBSET Events]
         /\ x.challenges \in [Keys -> Completion]
BY DEF Account, Days

LEMMA RaceType ==
  ASSUME NEW s \in RaceState, NEW e \in Events
  PROVE  RaceStep(s, e) \in RaceState
<1> SUFFICES ASSUME e.kind = "race" PROVE Raced(s, e) \in RaceState
  BY DEF RaceStep
<1>1. s.total \in Nat /\ s.granted \in [Events -> Nat] /\ s.boosted \subseteq Events /\ s.account \in Account
  BY DEF RaceState
<1> DEFINE x == s.account
           boost == Boosts(x, e)
           amount == (IF boost THEN 5 ELSE 1) * e.coins + e.extra
           y == [x EXCEPT !.balance = @ + amount, !.races = @ \cup {e}, !.online = OnlineTime(x, e)]
<1>2. amount \in Nat
  BY EventType
<1>3. OnlineTime(x, e) \in [Days -> Nat]
  <2>1. x.online \in [Days -> Nat] /\ Day(e.at) \in Days /\ e.seconds \in Nat /\ e.online \in BOOLEAN
    BY <1>1, EventType, AccountParts DEF Days
  <2> QED BY <2>1 DEF OnlineTime
<1>4. y \in Account
  <2> HIDE DEF amount
  <2>1. x.balance + amount \in Nat /\ x.races \cup {e} \subseteq Events
    BY <1>1, <1>2, AccountParts
  <2> QED BY <1>1, <1>3, <2>1 DEF Account, Days
<1>5. s.total + amount \in Nat
  BY <1>1, <1>2
<1>6. [s.granted EXCEPT ![e] = @ + 1] \in [Events -> Nat]
  BY <1>1
<1>7. (IF boost THEN s.boosted \cup {e} ELSE s.boosted) \subseteq Events
  BY <1>1
<1>8. Raced(s, e) = [total |-> s.total + amount, granted |-> [s.granted EXCEPT ![e] = @ + 1],
                     boosted |-> IF boost THEN s.boosted \cup {e} ELSE s.boosted, account |-> y]
  BY DEF Raced
<1> HIDE DEF x, boost, amount, y
<1> QED BY <1>4, <1>5, <1>6, <1>7, <1>8 DEF RaceState

LEMMA RefreshType ==
  ASSUME NEW s \in RefreshState, NEW e \in Events
  PROVE  RefreshStep(s, e) \in RefreshState
<1>1. s.account \in Account /\ s.granted \in [Events -> Nat]
  BY DEF RefreshState
<1> DEFINE R == s.account.refresh
           x == [s.account EXCEPT !.refresh =
                  [day |-> @.day, count |-> @.count + 1, receipts |-> @.receipts \cup {e}]]
<1>2. R \in [day : {0} \cup {PitStopDay(t) : t \in Times}, count : 0..2, receipts : SUBSET Events]
  BY <1>1, AccountParts
<1>3. ASSUME R.count < 2 PROVE x \in Account
  BY <1>1, <1>2, <1>3 DEF Account
<1>4. [s.granted EXCEPT ![e] = @ + 1] \in [Events -> Nat]
  BY <1>1
<1> QED
  <2> HIDE DEF x
  <2> QED BY <1>3, <1>4 DEF RefreshStep, RefreshState, x

LEMMA SkuType ==
  ASSUME NEW k \in DOMAIN Catalog, NEW x
  PROVE  SkuPrice(x, k) \in Nat
<1> DEFINE parts == Catalog[k].parts
           U == {p \in parts : ~OwnsSKU(x, p)}
           price == [p \in parts |-> Catalog[p].price]
<1>1. /\ Catalog[k].price \in Nat /\ IsFiniteSet(parts)
      /\ \A p \in parts : Catalog[p].price \in Nat
  BY DataAssumption
<1>2. IsFiniteSet(U) /\ \A p \in U : price[p] \in Nat
  BY <1>1, FS_Subset
<1>3. SumFunctionOnSet(price, U) \in Nat
  <2> HIDE DEF U, price
  <2> QED BY <1>2, SumNat
<1> QED BY <1>1, <1>3 DEF SkuPrice

LEMMA SkuItems ==
  ASSUME NEW k \in DOMAIN Catalog
  PROVE  Catalog[k].items \subseteq Items
BY DEF Items

LEMMA PurchaseType ==
  ASSUME NEW s \in PurchaseState, NEW k \in DOMAIN Catalog
  PROVE  PurchaseStep(s, k) \in PurchaseState
<1> DEFINE price == SkuPrice(s.account, k)
           x == [s.account EXCEPT !.balance = @ - price, !.items = @ \cup Catalog[k].items]
<1>1. s.ok \in BOOLEAN /\ s.total \in Nat /\ s.account \in Account /\ price \in Nat
  BY SkuType DEF PurchaseState
<1>2. [s EXCEPT !.ok = FALSE] \in PurchaseState
  BY DEF PurchaseState
<1>3. ASSUME ~(price > s.account.balance) PROVE x \in Account
  <2> HIDE DEF price
  <2>1. s.account.balance - price \in Nat
    BY <1>1, <1>3, AccountParts
  <2>2. s.account.items \cup Catalog[k].items \subseteq Items
    BY <1>1, AccountParts, SkuItems
  <2> QED BY <1>1, <2>1, <2>2 DEF Account
<1>4. PurchaseStep(s, k) =
        IF ~s.ok \/ price > s.account.balance THEN [s EXCEPT !.ok = FALSE]
        ELSE [ok |-> TRUE, total |-> s.total + price, account |-> x]
  BY DEF PurchaseStep
<1> HIDE DEF price, x
<1>5. s.total + price \in Nat
  BY <1>1
<1> QED BY <1>2, <1>3, <1>4, <1>5 DEF PurchaseState

LEMMA UnstartedType == Unstarted \in Completion
<1>1. 0 \in Times
  BY EconomyAssumption DEF Times
<1> QED BY <1>1 DEF Unstarted, Completion

LEMMA CompletionParts ==
  ASSUME NEW c \in Completion
  PROVE  /\ c.completed \in Times /\ c.progress \in Nat
         /\ c.receipts \in [Events -> Nat] /\ c.distinct \subseteq 9..13
BY DEF Completion

LEMMA ChallengeParts ==
  ASSUME NEW s \in ChallengeState
  PROVE  /\ s.c \in Completion /\ s.credit \in Nat
         /\ s.occ \in [Events -> Nat] /\ s.advanced \in [Events -> Nat]
BY DEF ChallengeState

(* What an accepted event does to a challenge, field by field. *)
LEMMA CountedFields ==
  ASSUME NEW r \in DOMAIN Rules, NEW period, NEW s \in ChallengeState, NEW e \in Events,
         Accepted(r, period, e)
  PROVE  LET t == Counted(r, period, s, e)
         IN  /\ t \in ChallengeState /\ t.occ = s.occ
             /\ t.advanced \in {s.advanced, [s.advanced EXCEPT ![e] = @ + 1]}
             /\ \/ /\ t.c.completed = s.c.completed /\ t.credit = s.credit
                   /\ t.c.receipts = [s.c.receipts EXCEPT ![e] = s.occ[e] + 1]
                \/ /\ t.c.completed = e.at /\ t.credit = s.credit + Rules[r].reward
<1> DEFINE new == ~Rules[r].byMode \/ e.mode \in (9..13) \ s.c.distinct
           inc == IF Rules[r].byMode THEN 1 ELSE e.inc
           c == [s.c EXCEPT !.receipts[e] = s.occ[e] + 1,
                            !.distinct = IF Rules[r].byMode /\ new THEN @ \cup {e.mode} ELSE @]
           d == [c EXCEPT !.progress = Rules[r].target, !.completed = e.at, !.receipts = Unstarted.receipts]
           f == [c EXCEPT !.progress = @ + inc]
           more == [s.advanced EXCEPT ![e] = @ + 1]
           t == Counted(r, period, s, e)
<1>1. /\ s.c \in Completion /\ s.credit \in Nat /\ s.occ \in [Events -> Nat] /\ s.advanced \in [Events -> Nat]
      /\ s.c.receipts \in [Events -> Nat] /\ s.c.distinct \subseteq 9..13 /\ s.c.progress \in Nat
  BY ChallengeParts, CompletionParts
<1>2. Rules[r].target \in Nat /\ Rules[r].reward \in Nat
  BY DataAssumption
<1>3. e.inc \in Nat /\ e.at \in Times
  BY EventType DEF Accepted
<1>4. inc \in Nat
  BY <1>3
<1>5. c \in Completion /\ c.receipts = [s.c.receipts EXCEPT ![e] = s.occ[e] + 1] /\ c.completed = s.c.completed
  <2>1. [s.c.receipts EXCEPT ![e] = s.occ[e] + 1] \in [Events -> Nat]
    BY <1>1
  <2>2. (IF Rules[r].byMode /\ new THEN s.c.distinct \cup {e.mode} ELSE s.c.distinct) \subseteq 9..13
    BY <1>1
  <2> HIDE DEF new
  <2> QED BY <1>1, <2>1, <2>2 DEF Completion
<1>6. Unstarted.receipts \in [Events -> Nat]
  BY UnstartedType, CompletionParts
<1>7. d \in Completion /\ d.completed = e.at
  <2> HIDE DEF c
  <2> QED BY <1>2, <1>3, <1>5, <1>6 DEF Completion
<1>8. f \in Completion /\ f.receipts = c.receipts /\ f.completed = c.completed
  <2> HIDE DEF c, inc
  <2> QED BY <1>4, <1>5 DEF Completion
<1>9. more \in [Events -> Nat]
  BY <1>1
<1>10. t = IF ~new THEN [s EXCEPT !.c = c]
           ELSE IF inc >= Rules[r].target - s.c.progress
           THEN [s EXCEPT !.c = d, !.credit = @ + Rules[r].reward, !.advanced[e] = @ + 1]
           ELSE [s EXCEPT !.c = f, !.advanced[e] = @ + 1]
  BY DEF Counted
<1> HIDE DEF new, inc, c, d, f, t
<1>11. CASE t = [s EXCEPT !.c = c]
  <2>1. t = [c |-> c, credit |-> s.credit, occ |-> s.occ, advanced |-> s.advanced]
    BY <1>11 DEF ChallengeState
  <2> QED BY <1>1, <1>5, <2>1 DEF ChallengeState, t
<1>12. CASE t = [s EXCEPT !.c = d, !.credit = @ + Rules[r].reward, !.advanced[e] = @ + 1]
  <2>1. t = [c |-> d, credit |-> s.credit + Rules[r].reward, occ |-> s.occ, advanced |-> more]
    BY <1>12 DEF ChallengeState
  <2>2. s.credit + Rules[r].reward \in Nat
    BY <1>1, <1>2
  <2> HIDE DEF more
  <2>3. t \in ChallengeState
    BY <1>1, <1>7, <1>9, <2>1, <2>2 DEF ChallengeState
  <2>4. t.c = d /\ t.credit = s.credit + Rules[r].reward /\ t.occ = s.occ /\ t.advanced = more
    BY <2>1
  <2> QED BY <1>7, <2>3, <2>4 DEF t, more
<1>13. CASE t = [s EXCEPT !.c = f, !.advanced[e] = @ + 1]
  <2>1. t = [c |-> f, credit |-> s.credit, occ |-> s.occ, advanced |-> more]
    BY <1>13 DEF ChallengeState
  <2> HIDE DEF more
  <2>2. t \in ChallengeState
    BY <1>1, <1>8, <1>9, <2>1 DEF ChallengeState
  <2>3. t.c = f /\ t.credit = s.credit /\ t.occ = s.occ /\ t.advanced = more
    BY <2>1
  <2> QED BY <1>5, <1>8, <2>2, <2>3 DEF t, more
<1> QED BY <1>10, <1>11, <1>12, <1>13

-----------------------------------------------------------------------------
(* Days and periods *)
LEMMA Multiples ==
  ASSUME NEW p \in Int, NEW q \in Int, NEW d \in Nat, d > 0, p < q
  PROVE  p * d + d <= q * d
<1>1. PICK k \in Nat : q = p + 1 + k
  BY SMT
<1>2. q * d = p * d + d + k * d
  BY <1>1
<1>3. k * d >= 0
  BY <1>1
<1> QED BY <1>2, <1>3

LEMMA DivBounds ==
  ASSUME NEW t \in Nat, NEW d \in Nat, d > 0
  PROVE  t \div d \in Nat /\ (t \div d) * d \in Nat /\ (t \div d) * d <= t /\ t < (t \div d) * d + d
OBVIOUS

LEMMA DivUnique ==
  ASSUME NEW t \in Nat, NEW d \in Nat, d > 0, NEW q \in Nat, q * d <= t, t < q * d + d
  PROVE  q = t \div d
<1> DEFINE p == t \div d
<1>1. p \in Nat /\ p * d <= t /\ t < p * d + d
  BY DivBounds
<1> HIDE DEF p
<1>2. ASSUME p < q PROVE FALSE
  <2>1. p * d + d <= q * d
    BY <1>1, <1>2, Multiples
  <2>2. p * d \in Int /\ q * d \in Int
    BY <1>1
  <2> QED BY <1>1, <2>1, <2>2
<1>3. ASSUME q < p PROVE FALSE
  <2>1. q * d + d <= p * d
    BY <1>1, <1>3, Multiples
  <2>2. p * d \in Int /\ q * d \in Int
    BY <1>1
  <2> QED BY <1>1, <2>1, <2>2
<1>4. p = q
  BY <1>1, <1>2, <1>3
<1> QED BY <1>4 DEF p

LEMMA DivGrows ==
  ASSUME NEW t \in Nat, NEW u \in Nat, t <= u, NEW d \in Nat, d > 0
  PROVE  t \div d <= u \div d
<1> DEFINE p == t \div d
           q == u \div d
<1>1. /\ p \in Nat /\ p * d \in Nat /\ p * d <= t
      /\ q \in Nat /\ q * d \in Nat /\ u < q * d + d
  BY DivBounds
<1> HIDE DEF p, q
<1>2. ASSUME q < p PROVE FALSE
  <2>1. q * d + d <= p * d
    BY <1>1, <1>2, Multiples
  <2> QED BY <1>1, <2>1
<1> QED BY <1>1, <1>2 DEF p, q

(* A Pit Stop day is no earlier than that of an earlier time. *)
LEMMA PitStopDayGrows ==
  ASSUME NEW t \in Times, NEW u \in Times, t <= u
  PROVE  PitStopDay(t) \in Nat /\ PitStopDay(t) <= PitStopDay(u)
<1>1. /\ t \in Nat /\ u \in Nat /\ DayTicks \in Nat /\ DayTicks > 0
      /\ PitOffset \in Nat /\ PitOffset <= DayTicks
  BY EconomyAssumption DEF Times
<1>2. /\ t + 2 * DayTicks - PitOffset \in Nat /\ u + 2 * DayTicks - PitOffset \in Nat
      /\ t + 2 * DayTicks - PitOffset <= u + 2 * DayTicks - PitOffset
  BY <1>1
<1> QED BY <1>1, <1>2, DivGrows, DivBounds DEF PitStopDay

(* A time lies in at most one period of a challenge. *)
LEMMA PeriodFacts ==
  ASSUME NEW r \in DOMAIN Rules, NEW t \in Times, NEW P \in Period(r, t)
  PROVE  /\ P[1] \in Nat /\ P[2] \in Nat /\ P[1] <= t /\ t < P[2] /\ <<r, P[1]>> \in Keys
         /\ Period(r, t) = {P}
         /\ \A u \in Times : u \in P[1]..(P[2] - 1) => Period(r, u) = {P}
<1> DEFINE cycle(u) == (u \div CycleTicks) * CycleTicks
<1>1. CycleTicks \in Nat /\ CycleTicks > 0
  BY EconomyAssumption
<1>2. \A u \in Times : u \in Nat /\ cycle(u) \in Nat /\ cycle(u) <= u /\ u < cycle(u) + CycleTicks
  BY <1>1, DivBounds DEF Times
<1>3. PICK p \in Rules[r].periods : /\ t \in (cycle(t) + p[1])..(cycle(t) + p[2] - 1)
                                    /\ P = <<cycle(t) + p[1], cycle(t) + p[2]>>
  BY DEF Period
<1>4. /\ p = <<p[1], p[2]>> /\ p[1] \in Nat /\ p[2] \in (p[1] + 1)..CycleTicks
      /\ \A q \in Rules[r].periods : p = q \/ p[2] <= q[1] \/ q[2] <= p[1]
  BY DataAssumption
<1>5. P[1] = cycle(t) + p[1] /\ P[2] = cycle(t) + p[2]
  BY <1>3
<1>6. ASSUME NEW u \in Times, u \in P[1]..(P[2] - 1), cycle(u) = cycle(t)
      PROVE  u \in (cycle(u) + p[1])..(cycle(u) + p[2] - 1)
  <2>1. cycle(u) \in Nat /\ p[1] \in Nat /\ p[2] \in Nat /\ u \in Nat
    BY <1>2, <1>4
  <2> HIDE DEF cycle
  <2> QED BY <1>5, <1>6, <2>1
<1>7. \A u \in Times : u \in P[1]..(P[2] - 1) => u \div CycleTicks = t \div CycleTicks
  <2> SUFFICES ASSUME NEW u \in Times, u \in P[1]..(P[2] - 1)
               PROVE  u \div CycleTicks = t \div CycleTicks
    OBVIOUS
  <2> DEFINE q == t \div CycleTicks
  <2>1. q \in Nat
    BY <1>1, <1>2, DivBounds
  <2>2. q * CycleTicks <= u /\ u < q * CycleTicks + CycleTicks
    BY <1>1, <1>2, <1>4, <1>5
  <2> HIDE DEF q
  <2>3. q = u \div CycleTicks
    BY <1>1, <1>2, <2>1, <2>2, DivUnique
  <2> QED BY <2>3 DEF q
<1>8. \A u \in Times : u \in P[1]..(P[2] - 1) => Period(r, u) = {P}
  <2> SUFFICES ASSUME NEW u \in Times, u \in P[1]..(P[2] - 1) PROVE Period(r, u) = {P}
    OBVIOUS
  <2>1. cycle(u) = cycle(t)
    BY <1>7
  <2>2. u \in (cycle(u) + p[1])..(cycle(u) + p[2] - 1)
    BY <1>6, <2>1
  <2>3. P \in Period(r, u)
    BY <1>3, <2>1, <2>2 DEF Period
  <2>4. ASSUME NEW q \in Rules[r].periods, u \in (cycle(u) + q[1])..(cycle(u) + q[2] - 1) PROVE q = p
    <3>1. q[1] \in Nat /\ q[2] \in Nat
      BY DataAssumption
    <3> QED BY <1>2, <1>4, <2>2, <2>4, <3>1
  <2>5. \A Q \in Period(r, u) : Q = P
    BY <1>3, <2>1, <2>4 DEF Period
  <2> QED BY <2>3, <2>5
<1>9. t \in P[1]..(P[2] - 1) /\ P[1] \in Nat /\ P[2] \in Nat
  BY <1>2, <1>3, <1>4, <1>5
<1>10. P[1] <= t /\ t < P[2] /\ t \in Nat
  BY <1>2, <1>9
<1>11. <<r, P[1]>> \in Keys
  BY DEF Keys
<1>12. Period(r, t) = {P}
  BY <1>8, <1>9
<1> HIDE DEF cycle
<1> QED BY <1>8, <1>9, <1>10, <1>11, <1>12

(* The current period of an active challenge. *)
LEMMA CurrentFacts ==
  ASSUME now \in Times, NEW r \in Active
  PROVE  /\ r \in DOMAIN Rules /\ Current(r) \in Period(r, now) /\ <<r, Current(r)[1]>> \in Keys
         /\ \A t \in Times : t \in Current(r)[1]..(Current(r)[2] - 1) => Period(r, t) = {Current(r)}
<1>1. r \in DOMAIN Rules /\ Current(r) \in Period(r, now)
  BY DEF Active, Current
<1> QED BY <1>1, PeriodFacts

LEMMA KeysFinite == IsFiniteSet(Keys) /\ \A k \in Keys : k[1] \in DOMAIN Rules
<1>1. \A k \in Keys : k \in (DOMAIN Rules) \X Times
  <2> SUFFICES ASSUME NEW r \in DOMAIN Rules, NEW t \in Times, NEW P \in Period(r, t)
               PROVE  <<r, P[1]>> \in (DOMAIN Rules) \X Times
    BY DEF Keys
  <2>1. P[1] \in Nat /\ P[1] <= t
    BY PeriodFacts
  <2>2. P[1] \in Times
    BY <2>1, EconomyAssumption DEF Times
  <2> QED BY <2>2
<1>2. IsFiniteSet(Times) /\ IsFiniteSet(DOMAIN Rules)
  <2>1. 0 \in Int /\ MaxTime \in Int
    BY EconomyAssumption
  <2> QED BY <2>1, FS_Interval, DataAssumption DEF Times
<1>3. IsFiniteSet((DOMAIN Rules) \X Times)
  BY <1>2, FS_Product
<1>4. Keys \subseteq (DOMAIN Rules) \X Times
  BY <1>1
<1> QED BY <1>1, <1>3, <1>4, FS_Subset

(* The three ways an event can go in a challenge: it is none of it, it was  *)
(* counted before, or it counts.                                            *)
Again(s, e, t) ==
    /\ s.c.receipts[e] > s.occ[e]
    /\ t.c = s.c /\ t.credit = s.credit /\ t.advanced = s.advanced

Counts(r, s, e, t) ==
    /\ s.c.receipts[e] <= s.occ[e]
    /\ t.advanced \in {s.advanced, [s.advanced EXCEPT ![e] = @ + 1]}
    /\ \/ /\ t.c.completed = 0 /\ t.credit = s.credit
          /\ t.c.receipts = [s.c.receipts EXCEPT ![e] = s.occ[e] + 1]
       \/ /\ t.c.completed = e.at /\ t.credit = s.credit + Rules[r].reward

LEMMA ChallengeCases ==
  ASSUME NEW r \in DOMAIN Rules, NEW period, NEW s \in ChallengeState, NEW e \in Events
  PROVE  LET t == ChallengeStep(r, period, s, e)
         IN  /\ t \in ChallengeState
             /\ \/ t = s
                \/ /\ s.c.completed = 0 /\ Accepted(r, period, e)
                   /\ t.occ = [s.occ EXCEPT ![e] = @ + 1]
                   /\ Again(s, e, t) \/ Counts(r, s, e, t)
<1> DEFINE t == ChallengeStep(r, period, s, e)
           u == Counted(r, period, s, e)
<1>1. /\ s.c \in Completion /\ s.credit \in Nat /\ s.occ \in [Events -> Nat]
      /\ s.advanced \in [Events -> Nat] /\ s.c.receipts \in [Events -> Nat]
  BY ChallengeParts, CompletionParts
<1>2. [s.occ EXCEPT ![e] = @ + 1] \in [Events -> Nat]
  BY <1>1
<1>3. CASE s.c.completed # 0 \/ ~Accepted(r, period, e)
  <2>1. t = s
    BY <1>3 DEF ChallengeStep
  <2> QED BY <2>1
<1>4. CASE s.c.completed = 0 /\ Accepted(r, period, e) /\ s.c.receipts[e] > s.occ[e]
  <2>1. t = [s EXCEPT !.occ[e] = @ + 1]
    BY <1>4 DEF ChallengeStep
  <2>2. t = [c |-> s.c, credit |-> s.credit, occ |-> [s.occ EXCEPT ![e] = @ + 1], advanced |-> s.advanced]
    BY <2>1 DEF ChallengeState
  <2> HIDE DEF t
  <2>3. t \in ChallengeState
    BY <1>1, <1>2, <2>2 DEF ChallengeState
  <2>4. t.occ = [s.occ EXCEPT ![e] = @ + 1] /\ Again(s, e, t)
    BY <1>4, <2>2 DEF Again
  <2> QED BY <1>4, <2>3, <2>4 DEF t
<1>5. CASE s.c.completed = 0 /\ Accepted(r, period, e) /\ ~(s.c.receipts[e] > s.occ[e])
  <2>1. t = [u EXCEPT !.occ[e] = @ + 1]
    BY <1>5 DEF ChallengeStep
  <2>2. /\ u \in ChallengeState /\ u.occ = s.occ
        /\ u.advanced \in {s.advanced, [s.advanced EXCEPT ![e] = @ + 1]}
        /\ \/ /\ u.c.completed = s.c.completed /\ u.credit = s.credit
              /\ u.c.receipts = [s.c.receipts EXCEPT ![e] = s.occ[e] + 1]
           \/ /\ u.c.completed = e.at /\ u.credit = s.credit + Rules[r].reward
    BY <1>5, CountedFields
  <2> HIDE DEF u
  <2>3. t = [c |-> u.c, credit |-> u.credit, occ |-> [s.occ EXCEPT ![e] = @ + 1], advanced |-> u.advanced]
    BY <2>1, <2>2 DEF ChallengeState
  <2> HIDE DEF t
  <2>4. t \in ChallengeState
    BY <1>2, <2>2, <2>3 DEF ChallengeState
  <2>5. s.c.receipts[e] <= s.occ[e]
    BY <1>1, <1>5
  <2>6. /\ t.c = u.c /\ t.credit = u.credit /\ t.occ = [s.occ EXCEPT ![e] = @ + 1]
        /\ t.advanced = u.advanced
    BY <2>3
  <2>7. Counts(r, s, e, t)
    BY <1>5, <2>2, <2>5, <2>6 DEF Counts
  <2> QED BY <1>5, <2>4, <2>6, <2>7 DEF t
<1> QED BY <1>3, <1>4, <1>5

-----------------------------------------------------------------------------
(* Accounts *)
LEMMA MigratedType ==
  ASSUME NEW a \in Accounts
  PROVE  Migrated(a) \in Account
<1>1. Wallet[a].balance \in Nat /\ Wallet[a].items \subseteq Items
  BY EconomyAssumption
<1>2. [d \in {Day(t) : t \in Times} |-> 0] \in [{Day(t) : t \in Times} -> Nat]
  OBVIOUS
<1>3. [k \in Keys |-> Unstarted] \in [Keys -> Completion]
  BY UnstartedType
<1>4. [day |-> 0, count |-> 0, receipts |-> {}] \in
        [day : {0} \cup {PitStopDay(t) : t \in Times}, count : 0..2, receipts : SUBSET Events]
  OBVIOUS
<1> QED BY <1>1, <1>2, <1>3, <1>4 DEF Migrated, Account

LEMMA LoadedType ==
  ASSUME TypeOK, NEW a \in Accounts
  PROVE  Loaded(a) \in Account
BY MigratedType DEF Loaded, TypeOK

LEMMA AcctType ==
  ASSUME NEW c \in Clients
  PROVE  Acct(c) \in Accounts
BY DEF Acct, Accounts

(* What an account holds when it is loaded after a save, or after none. *)
LEMMA Saving ==
  ASSUME TypeOK, NEW a \in Accounts, NEW x \in Account, Save(a, x)
  PROVE  /\ disk' \in [Accounts -> Account \cup {NoFile}]
         /\ Loaded(a)' = x /\ disk'[a] = x /\ disk'[a] # NoFile
         /\ \A b \in Accounts \ {a} : Loaded(b)' = Loaded(b) /\ disk'[b] = disk[b]
<1>1. disk \in [Accounts -> Account \cup {NoFile}] /\ x # NoFile
  BY FileAssumption DEF TypeOK
<1>2. /\ disk' \in [Accounts -> Account \cup {NoFile}] /\ disk'[a] = x
      /\ \A b \in Accounts \ {a} : disk'[b] = disk[b]
  BY <1>1 DEF Save
<1> QED BY <1>1, <1>2 DEF Loaded

(* No account changes: at most, one is migrated. *)
Kept ==
    /\ disk' \in [Accounts -> Account \cup {NoFile}]
    /\ \A b \in Accounts : Loaded(b)' = Loaded(b) /\ (disk[b] # NoFile => disk'[b] # NoFile)

LEMMA Failing ==
  ASSUME TypeOK, NEW a \in Accounts, Fail(a)
  PROVE  Kept
<1>1. CASE UNCHANGED disk
  BY <1>1 DEF Kept, Loaded, TypeOK
<1>2. CASE Save(a, Loaded(a))
  <2>1. Loaded(a) \in Account
    BY LoadedType
  <2> QED BY <1>2, <2>1, Saving DEF Kept
<1> QED BY <1>1, <1>2 DEF Fail

LEMMA ReportType ==
  ASSUME NEW report \in Reports
  PROVE  report \in Seq(Events)
BY EconomyAssumption DEF Reports

-----------------------------------------------------------------------------
(* What the operations end with, if J[k] is what holds after k steps. *)
RaceStart(a) ==
    [total |-> 0, granted |-> granted[a], boosted |-> boosted[a], account |-> Loaded(a)]

LEMMA RacesEnd ==
  ASSUME TypeOK, NEW a \in Accounts, NEW report \in Seq(Events), NEW J, RaceStart(a) \in J[0],
         \A k \in 1..Len(report) : \A s \in RaceState \cap J[k - 1] : RaceStep(s, report[k]) \in J[k]
  PROVE  AwardRaces(a, report) \in RaceState \cap J[Len(report)]
<1>1. RaceStart(a) \in RaceState
  BY LoadedType DEF RaceStart, RaceState, TypeOK
<1>2. FoldLeft(RaceStep, RaceStart(a), report) \in RaceState \cap J[Len(report)]
  BY <1>1, RaceType, RacesFold
<1> QED BY <1>2 DEF AwardRaces, RaceStart

RefreshStart(a) == [account |-> RefreshRecord(Loaded(a)), granted |-> granted[a]]

Refreshed(a, report) == FoldLeft(RefreshStep, RefreshStart(a), report)

LEMMA RecordType ==
  ASSUME TypeOK, NEW a \in Accounts
  PROVE  RefreshRecord(Loaded(a)) \in Account
<1>1. Loaded(a) \in Account /\ now \in Times
  BY LoadedType DEF TypeOK
<1>2. [day |-> PitStopDay(now), count |-> 0, receipts |-> {}] \in
        [day : {0} \cup {PitStopDay(t) : t \in Times}, count : 0..2, receipts : SUBSET Events]
  BY <1>1
<1>3. [Loaded(a) EXCEPT !.refresh = [day |-> PitStopDay(now), count |-> 0, receipts |-> {}]] \in Account
  BY <1>1, <1>2 DEF Account
<1> QED BY <1>1, <1>3 DEF RefreshRecord

LEMMA RefreshEnd ==
  ASSUME TypeOK, NEW a \in Accounts, NEW report \in Seq(Events), NEW J, RefreshStart(a) \in J[0],
         \A k \in 1..Len(report) : \A s \in RefreshState \cap J[k - 1] : RefreshStep(s, report[k]) \in J[k]
  PROVE  Refreshed(a, report) \in RefreshState \cap J[Len(report)]
<1>1. RefreshStart(a) \in RefreshState
  BY RecordType DEF RefreshStart, RefreshState, TypeOK
<1> QED BY <1>1, RefreshType, RefreshFold DEF Refreshed

PurchaseStart(a) == [ok |-> TRUE, total |-> 0, account |-> Loaded(a)]

LEMMA PurchaseEnd ==
  ASSUME TypeOK, NEW a \in Accounts, NEW skus \in Seq(DOMAIN Catalog), NEW J, PurchaseStart(a) \in J[0],
         \A k \in 1..Len(skus) : \A s \in PurchaseState \cap J[k - 1] : PurchaseStep(s, skus[k]) \in J[k]
  PROVE  Purchased(a, skus) \in PurchaseState \cap J[Len(skus)]
<1>1. PurchaseStart(a) \in PurchaseState
  BY LoadedType DEF PurchaseStart, PurchaseState
<1>2. FoldLeft(PurchaseStep, PurchaseStart(a), skus) \in PurchaseState \cap J[Len(skus)]
  BY <1>1, PurchaseType, PurchaseFold
<1> QED BY <1>2 DEF Purchased, PurchaseStart

LEMMA ChallengeStartType ==
  ASSUME NEW x \in Account, NEW k \in Keys
  PROVE  ChallengeStart(x.challenges[k]) \in ChallengeState
BY AccountParts DEF ChallengeStart, ChallengeState

LEMMA ChallengeEnd ==
  ASSUME now \in Times, NEW r \in Active, NEW x \in Account, NEW report \in Seq(Events), NEW J,
         ChallengeStart(x.challenges[<<r, Current(r)[1]>>]) \in J[0],
         \A k \in 1..Len(report) : \A s \in ChallengeState \cap J[k - 1] :
            ChallengeStep(r, Current(r), s, report[k]) \in J[k]
  PROVE  Challenge(r, x, report) \in ChallengeState \cap J[Len(report)]
<1> DEFINE period == Current(r)
           start == ChallengeStart(x.challenges[<<r, period[1]>>])
<1>1. r \in DOMAIN Rules /\ <<r, period[1]>> \in Keys
  BY CurrentFacts
<1>2. start \in ChallengeState
  BY <1>1, ChallengeStartType
<1>3. \A s \in ChallengeState, e \in Events : ChallengeStep(r, period, s, e) \in ChallengeState
  BY <1>1, ChallengeCases
<1>4. period = Current(r) /\ start = ChallengeStart(x.challenges[<<r, period[1]>>]) /\ start \in J[0]
  OBVIOUS
<1>5. \A k \in 1..Len(report) : \A s \in ChallengeState \cap J[k - 1] :
        ChallengeStep(r, period, s, report[k]) \in J[k]
  OBVIOUS
<1> HIDE DEF start, period
<1> QED BY <1>2, <1>3, <1>4, <1>5, ChallengeFold

LEMMA RacesType ==
  ASSUME TypeOK, NEW a \in Accounts, NEW report \in Seq(Events)
  PROVE  AwardRaces(a, report) \in RaceState
<1> DEFINE J == [k \in 0..Len(report) |-> RaceState]
<1>1. RaceStart(a) \in RaceState
  BY LoadedType DEF RaceStart, RaceState, TypeOK
<1>2. \A k \in 1..Len(report) : report[k] \in Events /\ k \in 0..Len(report)
  OBVIOUS
<1>3. RaceStart(a) \in J[0]
  BY <1>1
<1>4. \A k \in 1..Len(report) : \A s \in RaceState \cap J[k - 1] : RaceStep(s, report[k]) \in J[k]
  BY <1>2, RaceType
<1> HIDE DEF J
<1> QED BY <1>3, <1>4, RacesEnd

LEMMA RefreshedType ==
  ASSUME TypeOK, NEW a \in Accounts, NEW report \in Seq(Events)
  PROVE  Refreshed(a, report) \in RefreshState
<1>1. RefreshStart(a) \in RefreshState
  BY RecordType DEF RefreshStart, RefreshState, TypeOK
<1> DEFINE J == [k \in 0..Len(report) |-> RefreshState]
<1>2. \A k \in 1..Len(report) : report[k] \in Events /\ k \in 0..Len(report)
  OBVIOUS
<1>3. RefreshStart(a) \in J[0]
  BY <1>1
<1>4. \A k \in 1..Len(report) : \A s \in RefreshState \cap J[k - 1] : RefreshStep(s, report[k]) \in J[k]
  BY <1>2, RefreshType
<1> HIDE DEF J
<1> QED BY <1>3, <1>4, RefreshEnd

LEMMA PurchasedType ==
  ASSUME TypeOK, NEW a \in Accounts, NEW skus \in Seq(DOMAIN Catalog)
  PROVE  Purchased(a, skus) \in PurchaseState
<1>1. PurchaseStart(a) \in PurchaseState
  BY LoadedType DEF PurchaseStart, PurchaseState
<1> DEFINE J == [k \in 0..Len(skus) |-> PurchaseState]
<1>2. \A k \in 1..Len(skus) : skus[k] \in DOMAIN Catalog /\ k \in 0..Len(skus)
  OBVIOUS
<1>3. PurchaseStart(a) \in J[0]
  BY <1>1
<1>4. \A k \in 1..Len(skus) : \A s \in PurchaseState \cap J[k - 1] : PurchaseStep(s, skus[k]) \in J[k]
  BY <1>2, PurchaseType
<1> HIDE DEF J
<1> QED BY <1>3, <1>4, PurchaseEnd

LEMMA ChallengeType ==
  ASSUME now \in Times, NEW r \in Active, NEW x \in Account, NEW report \in Seq(Events)
  PROVE  Challenge(r, x, report) \in ChallengeState
<1>1. r \in DOMAIN Rules /\ <<r, Current(r)[1]>> \in Keys
  BY CurrentFacts
<1> DEFINE J == [k \in 0..Len(report) |-> ChallengeState]
<1>2. \A k \in 1..Len(report) : report[k] \in Events /\ k \in 0..Len(report)
  OBVIOUS
<1>3. ChallengeStart(x.challenges[<<r, Current(r)[1]>>]) \in J[0]
  BY <1>1, ChallengeStartType
<1>4. \A k \in 1..Len(report) : \A s \in ChallengeState \cap J[k - 1] :
        ChallengeStep(r, Current(r), s, report[k]) \in J[k]
  BY <1>1, <1>2, ChallengeCases
<1> HIDE DEF J
<1> QED BY <1>3, <1>4, ChallengeEnd

(* The challenges together: what each of them credits is added up. *)
LEMMA AwardType ==
  ASSUME now \in Times, NEW x \in Account, NEW report \in Seq(Events)
  PROVE  LET s == AwardChallenges(x, report)
             credit == [r \in Active |-> Challenge(r, x, report).credit]
         IN  /\ IsFiniteSet(Active)
             /\ s.total = SumFunctionOnSet(credit, Active) /\ s.total \in Nat
             /\ s.advanced \in [Events -> Nat]
             /\ \A e \in Events :
                  s.advanced[e] = SumFunctionOnSet([r \in Active |-> Challenge(r, x, report).advanced[e]], Active)
             /\ s.account \in Account
             /\ s.account = [x EXCEPT !.balance = @ + s.total, !.challenges = s.account.challenges]
             /\ \A r \in Active : s.account.challenges[<<r, Current(r)[1]>>] = Challenge(r, x, report).c
             /\ \A k \in Keys \ CurrentKeys : s.account.challenges[k] = x.challenges[k]
<1> DEFINE s == AwardChallenges(x, report)
           run == [r \in Active |-> Challenge(r, x, report)]
           credit == [r \in Active |-> Challenge(r, x, report).credit]
           adv(e) == [r \in Active |-> Challenge(r, x, report).advanced[e]]
           records == [k \in Keys |-> IF k \in CurrentKeys THEN run[k[1]].c ELSE x.challenges[k]]
<1>1. IsFiniteSet(Active)
  BY DataAssumption, FS_Subset DEF Active
<1>2. \A r \in Active : /\ run[r] = Challenge(r, x, report) /\ run[r] \in ChallengeState
                        /\ run[r].c \in Completion /\ run[r].credit \in Nat
                        /\ run[r].advanced \in [Events -> Nat]
  BY ChallengeType, ChallengeParts
<1>3. credit = [r \in Active |-> run[r].credit] /\ \A e \in Events : adv(e) = [r \in Active |-> run[r].advanced[e]]
  OBVIOUS
<1>4. /\ s.total = SumFunction([r \in Active |-> run[r].credit])
      /\ s.advanced = [e \in Events |-> SumFunction([r \in Active |-> run[r].advanced[e]])]
      /\ s.account = [x EXCEPT !.balance = @ + s.total, !.challenges = records]
  BY DEF AwardChallenges
<1> HIDE DEF run, s
<1>5. \A f : DOMAIN f = Active => SumFunction(f) = SumFunctionOnSet(f, Active)
  BY DEF SumFunction, SumFunctionOnSet, FoldFunction
<1>6. s.total = SumFunctionOnSet(credit, Active)
  BY <1>3, <1>4, <1>5
<1>7. s.total \in Nat
  <2>1. \A r \in Active : credit[r] \in Nat
    BY <1>2, <1>3
  <2> HIDE DEF credit
  <2> QED BY <1>1, <1>6, <2>1, SumNat
<1>8. ASSUME NEW e \in Events
      PROVE  s.advanced[e] = SumFunctionOnSet(adv(e), Active) /\ s.advanced[e] \in Nat
  <2>1. s.advanced[e] = SumFunctionOnSet(adv(e), Active)
    BY <1>3, <1>4, <1>5
  <2>2. \A r \in Active : adv(e)[r] \in Nat
    BY <1>2, <1>3
  <2> HIDE DEF adv
  <2> QED BY <1>1, <2>1, <2>2, SumNat
<1>9. s.advanced \in [Events -> Nat]
  <2>1. s.advanced = [e \in Events |-> s.advanced[e]]
    BY <1>4
  <2> QED BY <1>8, <2>1
<1>10. /\ \A r \in Active : records[<<r, Current(r)[1]>>] = run[r].c
       /\ \A k \in Keys \ CurrentKeys : records[k] = x.challenges[k]
  <2>1. ASSUME NEW r \in Active PROVE records[<<r, Current(r)[1]>>] = run[r].c
    <3>1. <<r, Current(r)[1]>> \in Keys /\ <<r, Current(r)[1]>> \in CurrentKeys
      BY CurrentFacts DEF CurrentKeys
    <3> QED BY <3>1
  <2> QED BY <2>1
<1>11. records \in [Keys -> Completion]
  <2>1. ASSUME NEW k \in CurrentKeys PROVE run[k[1]].c \in Completion
    <3>1. PICK r \in Active : k = <<r, Current(r)[1]>>
      BY DEF CurrentKeys
    <3> QED BY <1>2, <3>1
  <2> QED BY <2>1, AccountParts
<1>12. s.account \in Account /\ s.account.challenges = records
  <2> HIDE DEF records
  <2>1. x.balance + s.total \in Nat
    BY <1>7, AccountParts
  <2> QED BY <1>4, <1>11, <2>1 DEF Account
<1>13. \A r \in Active : s.account.challenges[<<r, Current(r)[1]>>] = Challenge(r, x, report).c
  BY <1>2, <1>10, <1>12
<1>14. \A k \in Keys \ CurrentKeys : s.account.challenges[k] = x.challenges[k]
  BY <1>10, <1>12
<1>15. s.account = [x EXCEPT !.balance = @ + s.total, !.challenges = s.account.challenges]
  BY <1>4, <1>12
<1> HIDE DEF records, credit, adv
<1> QED BY <1>1, <1>6, <1>7, <1>8, <1>9, <1>12, <1>13, <1>14, <1>15 DEF s, credit, adv

-----------------------------------------------------------------------------
(* What the operations do to the accounts. *)
Others(a) ==
    \A b \in Accounts \ {a} : /\ Loaded(b)' = Loaded(b) /\ disk'[b] = disk[b]
                              /\ credited'[b] = credited[b] /\ debited'[b] = debited[b]
                              /\ granted'[b] = granted[b] /\ boosted'[b] = boosted[b]

LEMMA JobParts ==
  ASSUME TypeOK, NEW c \in Clients, job[c] # NoJob
  PROVE  /\ job[c] = [stage |-> job[c].stage, report |-> job[c].report, due |-> job[c].due]
         /\ job[c].stage \in {"races", "refresh", "challenges"}
         /\ job[c].report \in Reports /\ job[c].report \in Seq(Events)
         /\ job[c].due \subseteq Accounts \X Events
<1>1. job[c] \in [stage : {"races", "refresh", "challenges"}, report : Reports,
                  due : SUBSET (Accounts \X Events)]
  BY DEF TypeOK, Job
<1> QED BY <1>1, ReportType

LEMMA Busy ==
  ASSUME NEW c \in Clients, job[c].stage # "idle"
  PROVE  job[c] # NoJob
BY DEF NoJob

(* awardRaces returns nothing only if it changed nothing (that a race earns *)
(* at least one coin is needed here), so what it ends with is on file.      *)
LEMMA RaceCases ==
  ASSUME NEW s \in RaceState, NEW e \in Events
  PROVE  LET t == RaceStep(s, e)
             boost == Boosts(s.account, e)
             amount == (IF boost THEN 5 ELSE 1) * e.coins + e.extra
         IN  \/ t = s /\ (e.kind # "race" \/ ~Recent(e) \/ e \in s.account.races)
             \/ /\ e.kind = "race" /\ Recent(e) /\ e \notin s.account.races
                /\ amount \in Nat /\ amount > 0
                /\ t.total = s.total + amount /\ t.granted = [s.granted EXCEPT ![e] = @ + 1]
                /\ t.boosted = IF boost THEN s.boosted \cup {e} ELSE s.boosted
                /\ t.account = [s.account EXCEPT !.balance = @ + amount, !.races = @ \cup {e},
                                                 !.online = OnlineTime(s.account, e)]
                /\ t.account.balance = s.account.balance + amount
                /\ t.account.races = s.account.races \cup {e}
                /\ t.account.online = OnlineTime(s.account, e)
                /\ t.account.items = s.account.items /\ t.account.refresh = s.account.refresh
                /\ t.account.challenges = s.account.challenges
<1> DEFINE boost == Boosts(s.account, e)
           amount == (IF boost THEN 5 ELSE 1) * e.coins + e.extra
           x == [s.account EXCEPT !.balance = @ + amount, !.races = @ \cup {e},
                                  !.online = OnlineTime(s.account, e)]
<1>1. CASE e.kind # "race" \/ ~Recent(e) \/ e \in s.account.races
  BY <1>1 DEF RaceStep
<1>2. CASE e.kind = "race" /\ Recent(e) /\ e \notin s.account.races
  <2>1. amount \in Nat /\ amount > 0
    BY <1>2, EventType
  <2>2. s.account \in Account
    BY DEF RaceState
  <2>3. RaceStep(s, e) = Raced(s, e)
    BY <1>2 DEF RaceStep
  <2>4. Raced(s, e) = [total |-> s.total + amount, granted |-> [s.granted EXCEPT ![e] = @ + 1],
                       boosted |-> IF boost THEN s.boosted \cup {e} ELSE s.boosted, account |-> x]
    BY DEF Raced
  <2> HIDE DEF boost, amount
  <2>5. /\ x.balance = s.account.balance + amount /\ x.races = s.account.races \cup {e}
        /\ x.online = OnlineTime(s.account, e) /\ x.items = s.account.items
        /\ x.refresh = s.account.refresh /\ x.challenges = s.account.challenges
    BY <2>2 DEF Account
  <2> HIDE DEF x
  <2>6. /\ RaceStep(s, e).total = s.total + amount
        /\ RaceStep(s, e).granted = [s.granted EXCEPT ![e] = @ + 1]
        /\ RaceStep(s, e).boosted = IF boost THEN s.boosted \cup {e} ELSE s.boosted
        /\ RaceStep(s, e).account = x
    BY <2>3, <2>4
  <2> QED BY <1>2, <2>1, <2>5, <2>6 DEF x, boost, amount
<1> QED BY <1>1, <1>2

LEMMA RacesChange ==
  ASSUME TypeOK, NEW a \in Accounts, NEW report \in Seq(Events)
  PROVE  LET s == AwardRaces(a, report)
         IN  /\ s.account.balance = Loaded(a).balance + s.total
             /\ s.account.items = Loaded(a).items /\ s.account.refresh = Loaded(a).refresh
             /\ s.account.challenges = Loaded(a).challenges
             /\ s.total = 0 => s.account = Loaded(a)
             /\ \A e \in Events : e.kind # "race" => s.granted[e] = granted[a][e]
<1> DEFINE x == Loaded(a)
           P(s) == /\ s.account.balance = x.balance + s.total
                   /\ s.account.items = x.items /\ s.account.refresh = x.refresh
                   /\ s.account.challenges = x.challenges
                   /\ s.total = 0 => s.account = x
                   /\ \A e \in Events : e.kind # "race" => s.granted[e] = granted[a][e]
           J == [k \in 0..Len(report) |-> {s \in RaceState : P(s)}]
<1>1. x \in Account /\ x.balance \in Nat
  BY LoadedType, AccountParts
<1>2. RaceStart(a) \in RaceState
  BY LoadedType DEF RaceStart, RaceState, TypeOK
<1>3. RaceStart(a) \in J[0]
  BY <1>1, <1>2 DEF RaceStart
<1>4. ASSUME NEW k \in 1..Len(report), NEW s \in RaceState \cap J[k - 1]
      PROVE  RaceStep(s, report[k]) \in J[k]
  <2> DEFINE e == report[k]
             t == RaceStep(s, e)
             amount == (IF Boosts(s.account, e) THEN 5 ELSE 1) * e.coins + e.extra
  <2>1. e \in Events /\ s \in RaceState /\ P(s) /\ k \in 0..Len(report)
    OBVIOUS
  <2>2. t \in RaceState
    BY <2>1, RaceType
  <2>3. CASE t = s
    BY <2>1, <2>2, <2>3
  <2>4. CASE t # s
    <3>1. /\ amount \in Nat /\ amount > 0 /\ e.kind = "race"
          /\ t.total = s.total + amount /\ t.granted = [s.granted EXCEPT ![e] = @ + 1]
          /\ t.account.balance = s.account.balance + amount
          /\ t.account.items = s.account.items /\ t.account.refresh = s.account.refresh
          /\ t.account.challenges = s.account.challenges
      BY <2>1, <2>4, RaceCases
    <3>2. s.total \in Nat /\ s.granted \in [Events -> Nat]
      BY <2>1 DEF RaceState
    <3> HIDE DEF amount, t, e, x
    <3>3. t.total # 0 /\ t.account.balance = x.balance + t.total
      BY <1>1, <2>1, <3>1, <3>2
    <3>4. \A f \in Events : f.kind # "race" => t.granted[f] = granted[a][f]
      BY <2>1, <3>1, <3>2
    <3>5. P(t)
      BY <2>1, <3>1, <3>3, <3>4
    <3> QED BY <2>1, <2>2, <3>5 DEF e, t
  <2> QED BY <2>3, <2>4
<1> HIDE DEF P
<1>5. AwardRaces(a, report) \in J[Len(report)]
  <2> HIDE DEF J
  <2> QED BY <1>3, <1>4, RacesEnd
<1>6. P(AwardRaces(a, report))
  BY <1>5
<1> QED BY <1>6 DEF P

LEMMA RacesEffect ==
  ASSUME TypeOK, NEW c \in Clients, NEW a, a = Acct(c), Races(c)
  PROVE  LET s == AwardRaces(a, job[c].report)
         IN  /\ a \in Accounts /\ job[c] # NoJob /\ job[c].report \in Seq(Events) /\ s \in RaceState
             /\ disk' \in [Accounts -> Account \cup {NoFile}]
             /\ Loaded(a)' = s.account /\ disk'[a] # NoFile /\ Others(a)
             /\ credited'[a] = credited[a] + s.total /\ debited'[a] = debited[a]
             /\ granted'[a] = s.granted /\ boosted'[a] = s.boosted
<1> DEFINE s == AwardRaces(a, job[c].report)
           x == IF s.total # 0 THEN s.account ELSE Loaded(a)
<1>1. a \in Accounts /\ job[c] # NoJob
  BY AcctType, Busy DEF Races
<1>2. job[c].report \in Seq(Events)
  BY <1>1, JobParts
<1>3. s \in RaceState /\ (s.total = 0 => s.account = Loaded(a))
  BY <1>1, <1>2, RacesType, RacesChange
<1>4. /\ Save(a, x) /\ credited' = [credited EXCEPT ![a] = @ + s.total]
      /\ granted' = [granted EXCEPT ![a] = s.granted]
      /\ boosted' = [boosted EXCEPT ![a] = s.boosted] /\ debited' = debited
  BY DEF Races
<1> HIDE DEF s
<1>5. x = s.account /\ x \in Account
  BY <1>3 DEF RaceState
<1> HIDE DEF x
<1>6. /\ disk' \in [Accounts -> Account \cup {NoFile}]
      /\ Loaded(a)' = s.account /\ disk'[a] # NoFile
      /\ \A b \in Accounts \ {a} : Loaded(b)' = Loaded(b) /\ disk'[b] = disk[b]
  BY <1>1, <1>4, <1>5, Saving
<1>7. /\ credited \in [Accounts -> Nat] /\ granted \in [Accounts -> [Events -> Nat]]
      /\ boosted \in [Accounts -> SUBSET Events]
  BY DEF TypeOK
<1>8. Others(a)
  BY <1>1, <1>4, <1>6, <1>7 DEF Others
<1>9. /\ credited'[a] = credited[a] + s.total /\ debited'[a] = debited[a]
      /\ granted'[a] = s.granted /\ boosted'[a] = s.boosted
  BY <1>1, <1>4, <1>7
<1> QED BY <1>1, <1>2, <1>3, <1>6, <1>8, <1>9 DEF s

(* A refresh leaves the account alone but for its record; if no request is  *)
(* of today, nothing counts.                                                *)
LEMMA RefreshChange ==
  ASSUME TypeOK, NEW a \in Accounts, NEW report \in Seq(Events)
  PROVE  LET s == Refreshed(a, report)
         IN  /\ s.account.balance = Loaded(a).balance /\ s.account.items = Loaded(a).items
             /\ s.account.races = Loaded(a).races /\ s.account.online = Loaded(a).online
             /\ s.account.challenges = Loaded(a).challenges
             /\ s.account.refresh.day = PitStopDay(now)
             /\ \A e \in Events : e.kind # "refresh" => s.granted[e] = granted[a][e]
             /\ (\A k \in 1..Len(report) : report[k].kind = "refresh" => ~InDay(report[k])) =>
                  s.granted = granted[a]
<1> DEFINE x == Loaded(a)
           none == \A k \in 1..Len(report) : report[k].kind = "refresh" => ~InDay(report[k])
           P(s) == /\ s.account.balance = x.balance /\ s.account.items = x.items
                   /\ s.account.races = x.races /\ s.account.online = x.online
                   /\ s.account.challenges = x.challenges
                   /\ s.account.refresh.day = PitStopDay(now)
                   /\ \A e \in Events : e.kind # "refresh" => s.granted[e] = granted[a][e]
                   /\ none => s.granted = granted[a]
           J == [k \in 0..Len(report) |-> {s \in RefreshState : P(s)}]
<1>1. RefreshStart(a) \in RefreshState
  BY RecordType DEF RefreshStart, RefreshState, TypeOK
<1>2. RefreshStart(a) \in J[0]
  <2>1. x \in Account
    BY LoadedType
  <2>2. P(RefreshStart(a))
    BY <2>1 DEF RefreshStart, RefreshRecord, Account
  <2> QED BY <1>1, <2>2
<1>3. ASSUME NEW k \in 1..Len(report), NEW s \in RefreshState \cap J[k - 1]
      PROVE  RefreshStep(s, report[k]) \in J[k]
  <2> DEFINE e == report[k]
             t == RefreshStep(s, e)
             new == [day |-> s.account.refresh.day, count |-> s.account.refresh.count + 1,
                     receipts |-> s.account.refresh.receipts \cup {e}]
  <2>1. /\ e \in Events /\ s \in RefreshState /\ P(s) /\ k \in 0..Len(report)
        /\ none => ~(e.kind = "refresh" /\ InDay(e))
    OBVIOUS
  <2>2. t \in RefreshState
    BY <2>1, RefreshType
  <2>3. CASE t = s
    <3> HIDE DEF P
    <3> QED BY <2>1, <2>2, <2>3
  <2>4. CASE t # s
    <3>1. /\ e.kind = "refresh" /\ ~none
          /\ t = [account |-> [s.account EXCEPT !.refresh = new],
                  granted |-> [s.granted EXCEPT ![e] = @ + 1]]
      <4> HIDE DEF none
      <4> QED BY <2>1, <2>4 DEF RefreshStep
    <3>2. s.account \in Account /\ s.granted \in [Events -> Nat]
      BY <2>1 DEF RefreshState
    <3>3. new.day = s.account.refresh.day
      OBVIOUS
    <3> DEFINE y == [s.account EXCEPT !.refresh = new]
    <3> HIDE DEF new, none, x, t, e
    <3>4. /\ y.balance = s.account.balance /\ y.items = s.account.items
          /\ y.races = s.account.races /\ y.online = s.account.online
          /\ y.challenges = s.account.challenges /\ y.refresh = new
      BY <3>2 DEF Account
    <3> HIDE DEF y
    <3>7. t.account = y /\ t.granted = [s.granted EXCEPT ![e] = @ + 1]
      BY <3>1 DEF y
    <3>5. \A f \in Events : f.kind # "refresh" => t.granted[f] = granted[a][f]
      BY <2>1, <3>1, <3>2, <3>7
    <3>6. P(t)
      BY <2>1, <3>1, <3>3, <3>4, <3>5, <3>7
    <3> QED BY <2>1, <2>2, <3>6 DEF e, t
  <2> QED BY <2>3, <2>4
<1> HIDE DEF P
<1>4. Refreshed(a, report) \in J[Len(report)]
  <2> HIDE DEF J
  <2> QED BY <1>2, <1>3, RefreshEnd
<1>5. P(Refreshed(a, report))
  BY <1>4
<1> QED BY <1>5 DEF P

LEMMA RefreshEffect ==
  ASSUME TypeOK, NEW c \in Clients, NEW a, a = Acct(c), Refresh(c)
  PROVE  LET s == Refreshed(a, job[c].report)
         IN  /\ a \in Accounts /\ job[c] # NoJob /\ job[c].report \in Seq(Events) /\ s \in RefreshState
             /\ disk' \in [Accounts -> Account \cup {NoFile}] /\ Others(a)
             /\ credited'[a] = credited[a] /\ debited'[a] = debited[a] /\ boosted'[a] = boosted[a]
             /\ disk[a] # NoFile => disk'[a] # NoFile
             /\ \/ Loaded(a)' = Loaded(a) /\ granted'[a] = granted[a]
                \/ Loaded(a)' = s.account /\ granted'[a] = s.granted
<1> DEFINE report == job[c].report
           s == Refreshed(a, report)
           requests == Refreshes(report)
           some == \E e \in requests : InDay(e)
           x == IF some THEN s.account ELSE Loaded(a)
<1>1. a \in Accounts /\ job[c] # NoJob
  BY AcctType, Busy DEF Refresh
<1>2. report \in Seq(Events)
  BY <1>1, JobParts
<1>3. s \in RefreshState /\ s.account \in Account /\ Loaded(a) \in Account
  BY <1>1, <1>2, RefreshedType, LoadedType DEF RefreshState
<1>4. ~some => s.granted = granted[a]
  <2> SUFFICES ASSUME ~some PROVE \A k \in 1..Len(report) : report[k].kind = "refresh" => ~InDay(report[k])
    BY <1>1, <1>2, RefreshChange
  <2> SUFFICES ASSUME NEW k \in 1..Len(report), report[k].kind = "refresh" PROVE ~InDay(report[k])
    OBVIOUS
  <2>1. report[k] \in requests
    BY <1>2 DEF Refreshes, ToSet
  <2> QED BY <2>1
<1>5. /\ UNCHANGED <<now, credited, debited, boosted>>
      /\ \/ UNCHANGED <<disk, granted>>
         \/ Save(a, x) /\ granted' = [granted EXCEPT ![a] = s.granted]
  BY DEF Refresh, Refreshed, RefreshStart
<1>6. granted \in [Accounts -> [Events -> Nat]] /\ disk \in [Accounts -> Account \cup {NoFile}]
  BY DEF TypeOK
<1> HIDE DEF s, some, report, requests
<1>7. CASE UNCHANGED <<disk, granted>>
  <2>1. \A b \in Accounts : Loaded(b)' = Loaded(b) /\ disk'[b] = disk[b] /\ granted'[b] = granted[b]
    BY <1>7 DEF Loaded
  <2>2. Others(a)
    BY <1>5, <2>1 DEF Others
  <2> QED BY <1>1, <1>2, <1>3, <1>5, <1>6, <1>7, <2>1, <2>2 DEF s, report
<1>8. CASE Save(a, x) /\ granted' = [granted EXCEPT ![a] = s.granted]
  <2>1. x \in Account
    BY <1>3
  <2>2. /\ disk' \in [Accounts -> Account \cup {NoFile}]
        /\ Loaded(a)' = x /\ disk'[a] # NoFile
        /\ \A b \in Accounts \ {a} : Loaded(b)' = Loaded(b) /\ disk'[b] = disk[b]
    <3> HIDE DEF x
    <3> QED BY <1>1, <1>8, <2>1, Saving
  <2>3. granted'[a] = s.granted /\ \A b \in Accounts \ {a} : granted'[b] = granted[b]
    BY <1>1, <1>6, <1>8
  <2>4. Others(a)
    BY <1>5, <2>2, <2>3 DEF Others
  <2>5. \/ Loaded(a)' = Loaded(a) /\ granted'[a] = granted[a]
        \/ Loaded(a)' = s.account /\ granted'[a] = s.granted
    BY <1>4, <2>2, <2>3
  <2> QED BY <1>1, <1>2, <1>3, <1>5, <2>2, <2>4, <2>5 DEF s, report
<1> QED BY <1>5, <1>7, <1>8

LEMMA ChallengesEffect ==
  ASSUME TypeOK, NEW c \in Clients, NEW a, a = Acct(c), Challenges(c)
  PROVE  LET s == AwardChallenges(Loaded(a), job[c].report)
         IN  /\ a \in Accounts /\ job[c] # NoJob /\ job[c].report \in Seq(Events)
             /\ disk' \in [Accounts -> Account \cup {NoFile}]
             /\ Loaded(a)' = s.account /\ disk'[a] # NoFile /\ Others(a)
             /\ credited'[a] = credited[a] + s.total /\ debited'[a] = debited[a]
             /\ granted'[a] = [e \in Events |-> granted[a][e] + s.advanced[e]]
             /\ boosted'[a] = boosted[a]
<1> DEFINE s == AwardChallenges(Loaded(a), job[c].report)
           x == s.account
<1>1. a \in Accounts /\ job[c] # NoJob
  BY AcctType, Busy DEF Challenges
<1>2. job[c].report \in Seq(Events) /\ Loaded(a) \in Account /\ now \in Times
  BY <1>1, JobParts, LoadedType DEF TypeOK
<1>3. x \in Account
  BY <1>2, AwardType
<1>4. /\ Save(a, x) /\ credited' = [credited EXCEPT ![a] = @ + s.total]
      /\ granted' = [granted EXCEPT ![a] = [e \in Events |-> @[e] + s.advanced[e]]]
      /\ boosted' = boosted /\ debited' = debited
  BY DEF Challenges
<1>5. /\ credited \in [Accounts -> Nat] /\ granted \in [Accounts -> [Events -> Nat]]
  BY DEF TypeOK
<1> HIDE DEF s, x
<1>6. /\ disk' \in [Accounts -> Account \cup {NoFile}]
      /\ Loaded(a)' = x /\ disk'[a] # NoFile
      /\ \A b \in Accounts \ {a} : Loaded(b)' = Loaded(b) /\ disk'[b] = disk[b]
  BY <1>1, <1>3, <1>4, Saving
<1>7. /\ credited'[a] = credited[a] + s.total
      /\ \A b \in Accounts \ {a} : credited'[b] = credited[b] /\ granted'[b] = granted[b]
  BY <1>1, <1>4, <1>5
<1>8. granted'[a] = [e \in Events |-> granted[a][e] + s.advanced[e]]
  BY <1>1, <1>4, <1>5
<1>9. Others(a)
  BY <1>4, <1>6, <1>7 DEF Others
<1> QED BY <1>1, <1>2, <1>4, <1>6, <1>7, <1>8, <1>9 DEF s, x

LEMMA PurchaseEffect ==
  ASSUME TypeOK, NEW c \in Clients, NEW a, a = Acct(c), NEW skus \in load.purchases, Purchase(c, skus)
  PROVE  LET s == Purchased(a, skus)
         IN  /\ a \in Accounts /\ skus \in Seq(DOMAIN Catalog) /\ s \in PurchaseState /\ s.ok
             /\ disk' \in [Accounts -> Account \cup {NoFile}]
             /\ Loaded(a)' = s.account /\ disk'[a] # NoFile /\ Others(a)
             /\ credited'[a] = credited[a] /\ debited'[a] = debited[a] + s.total
             /\ granted'[a] = granted[a] /\ boosted'[a] = boosted[a]
<1> DEFINE s == Purchased(a, skus)
           x == s.account
<1>1. a \in Accounts /\ skus \in Seq(DOMAIN Catalog)
  BY AcctType, EconomyAssumption DEF TypeOK
<1>2. s \in PurchaseState /\ x \in Account
  BY <1>1, PurchasedType DEF PurchaseState
<1>3. /\ s.ok /\ Save(a, x) /\ debited' = [debited EXCEPT ![a] = @ + s.total]
      /\ UNCHANGED <<credited, granted, boosted>>
  BY DEF Purchase
<1>4. debited \in [Accounts -> Nat]
  BY DEF TypeOK
<1> HIDE DEF s, x
<1>5. /\ disk' \in [Accounts -> Account \cup {NoFile}]
      /\ Loaded(a)' = x /\ disk'[a] # NoFile
      /\ \A b \in Accounts \ {a} : Loaded(b)' = Loaded(b) /\ disk'[b] = disk[b]
  BY <1>1, <1>2, <1>3, Saving
<1>6. debited'[a] = debited[a] + s.total /\ \A b \in Accounts \ {a} : debited'[b] = debited[b]
  BY <1>1, <1>3, <1>4
<1>7. Others(a)
  BY <1>3, <1>5, <1>6 DEF Others
<1> QED BY <1>1, <1>2, <1>3, <1>5, <1>6, <1>7 DEF s, x

-----------------------------------------------------------------------------
(* The report that a goroutine goes on with. *)
LEMMA JobMoves ==
  ASSUME TypeOK, NEW c \in Clients
  PROVE  /\ Races(c) => job' = [job EXCEPT ![c] = [stage |-> "refresh", report |-> job[c].report,
                                                   due |-> {Acct(c)} \X Due(job[c].report)]]
         /\ Refresh(c) => job' = [job EXCEPT ![c] = [stage |-> "challenges", report |-> job[c].report,
                                                     due |-> job[c].due]]
<1> DEFINE due == {Acct(c)} \X Due(job[c].report)
<1>1. job \in [Clients -> Job]
  BY DEF TypeOK
<1>2. ASSUME Races(c)
      PROVE  job' = [job EXCEPT ![c] = [stage |-> "refresh", report |-> job[c].report, due |-> due]]
  <2>1. job[c] = [stage |-> job[c].stage, report |-> job[c].report, due |-> job[c].due]
    BY <1>2, Busy, JobParts DEF Races
  <2>2. job' = [job EXCEPT ![c].stage = "refresh", ![c].due = due]
    BY <1>2 DEF Races
  <2> HIDE DEF due
  <2>3. job' = [job EXCEPT ![c] = [[job[c] EXCEPT !.stage = "refresh"] EXCEPT !.due = due]]
    BY <1>1, <2>2
  <2>4. [[job[c] EXCEPT !.stage = "refresh"] EXCEPT !.due = due] =
          [stage |-> "refresh", report |-> job[c].report, due |-> due]
    <3>1. [job[c] EXCEPT !.stage = "refresh"] =
            [stage |-> "refresh", report |-> job[c].report, due |-> job[c].due]
      BY <2>1
    <3>2. [[stage |-> "refresh", report |-> job[c].report, due |-> job[c].due] EXCEPT !.due = due] =
            [stage |-> "refresh", report |-> job[c].report, due |-> due]
      OBVIOUS
    <3> QED BY <3>1, <3>2
  <2> QED BY <2>3, <2>4
<1>3. ASSUME Refresh(c)
      PROVE  job' = [job EXCEPT ![c] = [stage |-> "challenges", report |-> job[c].report,
                                        due |-> job[c].due]]
  <2>1. job[c] = [stage |-> job[c].stage, report |-> job[c].report, due |-> job[c].due]
    BY <1>3, Busy, JobParts DEF Refresh
  <2>2. job' = [job EXCEPT ![c].stage = "challenges"]
    BY <1>3 DEF Refresh
  <2>3. [job[c] EXCEPT !.stage = "challenges"] =
          [stage |-> "challenges", report |-> job[c].report, due |-> job[c].due]
    BY <2>1
  <2> QED BY <1>1, <2>2, <2>3
<1> QED BY <1>2, <1>3

(* The steps that change no account. *)
Quiet ==
    /\ Kept
    /\ UNCHANGED <<credited, debited, granted, boosted, acked>>
    /\ now' \in Times /\ now <= now'
    /\ \A c \in Clients : job'[c] \in {NoJob, job[c]} \/ job'[c].due = {}

Typed ==
    /\ load' \in Workloads /\ known' \subseteq Clients /\ job' \in [Clients -> Job]

LEMMA Stays == ASSUME TypeOK, UNCHANGED disk PROVE Kept
BY DEF Kept, Loaded, TypeOK

LEMMA QuietSteps ==
  ASSUME TypeOK, NEW c \in Clients
  PROVE  /\ \A report \in load.reports : ReportEvents(c, report) => Quiet /\ Typed
         /\ RacesFail(c) \/ RefreshFail(c) \/ ChallengesFail(c) \/ Snapshot(c) => Quiet /\ Typed
         /\ Identify(c) => Quiet /\ Typed
<1>0. /\ now \in Times /\ now <= now /\ NoJob \in Job /\ Acct(c) \in Accounts
      /\ job \in [Clients -> Job] /\ load \in Workloads /\ known \subseteq Clients
  BY EconomyAssumption, AcctType DEF TypeOK, Times, Job
<1>1. ASSUME NEW report \in load.reports, ReportEvents(c, report) PROVE Quiet /\ Typed
  <2> DEFINE j == [stage |-> "races", report |-> report, due |-> {}]
  <2>1. j \in Job /\ j.due = {}
    BY <1>0 DEF Job, Reports
  <2>2. job' = [job EXCEPT ![c] = j] /\ UNCHANGED <<load, now, known, disk, credited, debited, granted, boosted, acked>>
    BY <1>1 DEF ReportEvents
  <2> HIDE DEF j
  <2>3. Kept
    BY <2>2, Stays
  <2> QED BY <1>0, <2>1, <2>2, <2>3 DEF Quiet, Typed
<1>2. ASSUME RacesFail(c) \/ RefreshFail(c) \/ ChallengesFail(c) \/ Snapshot(c) PROVE Quiet /\ Typed
  <2>1. /\ Fail(Acct(c)) /\ (job' = [job EXCEPT ![c] = NoJob] \/ job' = job)
        /\ UNCHANGED <<load, now, known, credited, debited, granted, boosted, acked>>
    BY <1>2 DEF RacesFail, RefreshFail, ChallengesFail, Snapshot
  <2>2. PICK a \in Accounts : a = Acct(c)
    BY <1>0
  <2>3. Fail(a)
    BY <2>1, <2>2
  <2>4. Kept
    BY <2>3, Failing
  <2> QED BY <1>0, <2>1, <2>4 DEF Quiet, Typed
<1>3. ASSUME Identify(c) PROVE Quiet /\ Typed
  <2>1. known' = known \cup {c} /\ UNCHANGED <<load, now, disk, job, credited, debited, granted, boosted, acked>>
    BY <1>3 DEF Identify
  <2>2. Kept
    BY <2>1, Stays
  <2> QED BY <1>0, <2>1, <2>2 DEF Quiet, Typed
<1> QED BY <1>1, <1>2, <1>3

LEMMA QuietRest ==
  ASSUME TypeOK
  PROVE  (Crash \/ Tick \/ UNCHANGED vars) => Quiet /\ Typed
<1>0. /\ now \in Times /\ now <= now /\ NoJob \in Job
      /\ job \in [Clients -> Job] /\ load \in Workloads /\ known \subseteq Clients
  BY EconomyAssumption DEF TypeOK, Times, Job
<1>1. ASSUME Crash PROVE Quiet /\ Typed
  <2>1. /\ job' = [c \in Clients |-> NoJob] /\ known' = Clients \ load.late
        /\ UNCHANGED <<load, now, disk, credited, debited, granted, boosted, acked>>
    BY <1>1 DEF Crash
  <2>2. Kept
    BY <2>1, Stays
  <2> QED BY <1>0, <2>1, <2>2 DEF Quiet, Typed
<1>2. ASSUME Tick PROVE Quiet /\ Typed
  <2>1. /\ now < load.until /\ now' = now + 1
        /\ UNCHANGED <<load, known, disk, job, credited, debited, granted, boosted, acked>>
    BY <1>2 DEF Tick
  <2>2. Kept
    BY <2>1, Stays
  <2>3. now' \in Times /\ now <= now'
    BY <1>0, <2>1, EconomyAssumption DEF Times
  <2> QED BY <1>0, <2>1, <2>2, <2>3 DEF Quiet, Typed
<1>3. ASSUME UNCHANGED vars PROVE Quiet /\ Typed
  <2>1. UNCHANGED <<load, now, known, disk, job, credited, debited, granted, boosted, acked>>
    BY <1>3 DEF vars
  <2>2. Kept
    BY <2>1, Stays
  <2> QED BY <1>0, <2>1, <2>2 DEF Quiet, Typed
<1> QED BY <1>1, <1>2, <1>3

(* Every step is quiet, or one of four operations. *)
LEMMA Steps ==
  ASSUME TypeOK, [Next]_vars
  PROVE  \/ Quiet /\ Typed
         \/ \E c \in Clients, a \in Accounts :
              /\ a = Acct(c)
              /\ \/ Races(c) \/ Refresh(c) \/ Challenges(c)
                 \/ \E skus \in load.purchases : Purchase(c, skus)
<1>1. \A c \in Clients : Acct(c) \in Accounts
  BY AcctType
<1> QED BY <1>1, QuietSteps, QuietRest DEF Next

LEMMA TypeInit == Init => TypeOK
<1> SUFFICES ASSUME Init PROVE TypeOK
  OBVIOUS
<1>1. load \in Workloads /\ known \subseteq Clients /\ now \in Times
  BY EconomyAssumption DEF Init, Times
<1>2. /\ job \in [Clients -> Job] /\ disk \in [Accounts -> Account \cup {NoFile}]
      /\ credited \in [Accounts -> Nat] /\ debited \in [Accounts -> Nat]
  BY DEF Init, Job
<1>3. /\ granted \in [Accounts -> [Events -> Nat]] /\ boosted \in [Accounts -> SUBSET Events]
      /\ acked \in [Accounts -> SUBSET Events]
  BY DEF Init
<1> QED BY <1>1, <1>2, <1>3 DEF TypeOK

LEMMA TypeStep == TypeOK /\ [Next]_vars => TypeOK'
<1> SUFFICES ASSUME TypeOK, [Next]_vars PROVE TypeOK'
  OBVIOUS
<1>0. /\ load \in Workloads /\ now \in Times /\ known \subseteq Clients /\ job \in [Clients -> Job]
      /\ credited \in [Accounts -> Nat] /\ debited \in [Accounts -> Nat]
      /\ granted \in [Accounts -> [Events -> Nat]] /\ boosted \in [Accounts -> SUBSET Events]
      /\ acked \in [Accounts -> SUBSET Events] /\ NoJob \in Job
  BY DEF TypeOK, Job
<1>1. CASE Quiet /\ Typed
  BY <1>0, <1>1 DEF Quiet, Typed, Kept, TypeOK
<1>2. ASSUME NEW c \in Clients, NEW a \in Accounts, a = Acct(c), Races(c) PROVE TypeOK'
  <2> DEFINE s == AwardRaces(a, job[c].report)
             j == [stage |-> "refresh", report |-> job[c].report, due |-> {a} \X Due(job[c].report)]
  <2>1. s \in RaceState /\ disk' \in [Accounts -> Account \cup {NoFile}] /\ job[c] # NoJob
    BY <1>2, RacesEffect
  <2>2. s.total \in Nat /\ s.granted \in [Events -> Nat] /\ s.boosted \subseteq Events
    BY <2>1 DEF RaceState
  <2>3. /\ credited' = [credited EXCEPT ![a] = @ + s.total]
        /\ granted' = [granted EXCEPT ![a] = s.granted]
        /\ boosted' = [boosted EXCEPT ![a] = s.boosted]
        /\ UNCHANGED <<load, now, known, debited, acked>>
    BY <1>2 DEF Races
  <2>4. j \in Job
    <3>1. job[c].report \in Reports /\ job[c].report \in Seq(Events)
      BY <2>1, JobParts
    <3>2. Due(job[c].report) \subseteq Events
      BY <3>1 DEF Due, ToSet
    <3> QED BY <3>1, <3>2 DEF Job
  <2>5. job' = [job EXCEPT ![c] = j]
    BY <1>2, JobMoves
  <2> HIDE DEF s, j
  <2>6. credited' \in [Accounts -> Nat]
    BY <1>0, <2>2, <2>3
  <2>7. granted' \in [Accounts -> [Events -> Nat]] /\ boosted' \in [Accounts -> SUBSET Events]
    BY <1>0, <2>2, <2>3
  <2>8. job' \in [Clients -> Job]
    BY <1>0, <2>4, <2>5
  <2> QED BY <1>0, <2>1, <2>3, <2>6, <2>7, <2>8 DEF TypeOK
<1>3. ASSUME NEW c \in Clients, NEW a \in Accounts, a = Acct(c), Refresh(c) PROVE TypeOK'
  <2> DEFINE s == Refreshed(a, job[c].report)
             j == [stage |-> "challenges", report |-> job[c].report, due |-> job[c].due]
  <2>1. s \in RefreshState /\ disk' \in [Accounts -> Account \cup {NoFile}] /\ job[c] # NoJob
    BY <1>3, RefreshEffect
  <2>2. s.granted \in [Events -> Nat]
    BY <2>1 DEF RefreshState
  <2>3. /\ granted' \in {granted, [granted EXCEPT ![a] = s.granted]}
        /\ UNCHANGED <<load, now, known, credited, debited, boosted, acked>>
    BY <1>3 DEF Refresh, Refreshed, RefreshStart
  <2>4. j \in Job
    BY <2>1, JobParts DEF Job
  <2>5. job' = [job EXCEPT ![c] = j]
    BY JobMoves, <1>3
  <2> HIDE DEF s, j
  <2>6. granted' \in [Accounts -> [Events -> Nat]]
    BY <1>0, <2>2, <2>3
  <2>7. job' \in [Clients -> Job]
    BY <1>0, <2>4, <2>5
  <2> QED BY <1>0, <2>1, <2>3, <2>6, <2>7 DEF TypeOK
<1>4. ASSUME NEW c \in Clients, NEW a \in Accounts, a = Acct(c), Challenges(c) PROVE TypeOK'
  <2> DEFINE s == AwardChallenges(Loaded(a), job[c].report)
  <2>1. /\ disk' \in [Accounts -> Account \cup {NoFile}] /\ job[c] # NoJob
        /\ job[c].report \in Seq(Events)
    BY <1>4, ChallengesEffect
  <2>2. s.total \in Nat /\ s.advanced \in [Events -> Nat]
    BY <1>0, <2>1, LoadedType, AwardType
  <2>3. /\ credited' = [credited EXCEPT ![a] = @ + s.total]
        /\ granted' = [granted EXCEPT ![a] = [e \in Events |-> @[e] + s.advanced[e]]]
        /\ acked' = [b \in Accounts |-> acked[b] \cup {d[2] : d \in {x \in job[c].due : x[1] = b}}]
        /\ job' = [job EXCEPT ![c] = NoJob]
        /\ UNCHANGED <<load, now, known, debited, boosted>>
    BY <1>4 DEF Challenges
  <2> HIDE DEF s
  <2>4. credited' \in [Accounts -> Nat]
    BY <1>0, <2>2, <2>3
  <2>5. granted' \in [Accounts -> [Events -> Nat]]
    <3>1. [e \in Events |-> granted[a][e] + s.advanced[e]] \in [Events -> Nat]
      BY <1>0, <2>2
    <3> QED BY <1>0, <2>3, <3>1
  <2>6. acked' \in [Accounts -> SUBSET Events]
    <3>1. job[c].due \subseteq Accounts \X Events
      BY <2>1, JobParts
    <3> QED BY <1>0, <2>3, <3>1
  <2>7. job' \in [Clients -> Job]
    BY <1>0, <2>3
  <2> QED BY <1>0, <2>1, <2>3, <2>4, <2>5, <2>6, <2>7 DEF TypeOK
<1>5. ASSUME NEW c \in Clients, NEW a \in Accounts, a = Acct(c),
             NEW skus \in load.purchases, Purchase(c, skus)
      PROVE  TypeOK'
  <2> DEFINE s == Purchased(a, skus)
  <2>1. s \in PurchaseState /\ disk' \in [Accounts -> Account \cup {NoFile}]
    BY <1>5, PurchaseEffect
  <2>2. s.total \in Nat
    BY <2>1 DEF PurchaseState
  <2>3. /\ debited' = [debited EXCEPT ![a] = @ + s.total]
        /\ UNCHANGED <<load, now, known, job, credited, granted, boosted, acked>>
    BY <1>5 DEF Purchase
  <2> HIDE DEF s
  <2>4. debited' \in [Accounts -> Nat]
    BY <1>0, <2>2, <2>3
  <2> QED BY <1>0, <2>1, <2>3, <2>4 DEF TypeOK
<1> QED BY <1>1, <1>2, <1>3, <1>4, <1>5, Steps

(* What is stored and remembered is what the program can read back: no      *)
(* balance, total or count is negative, and what is on file is an account.  *)
THEOREM Typing == Spec => []TypeOK
BY TypeInit, TypeStep, PTL DEF Spec

-----------------------------------------------------------------------------
(* The inductive invariant. It speaks of what an account holds when it is   *)
(* loaded, so that a migration, alone in a save, changes nothing.           *)
Ledger(a) == Loaded(a).balance + debited[a] = Wallet[a].balance + credited[a]

RacesSound(R, G) ==
    /\ \A e \in R : e.kind = "race"
    /\ \A e \in Events : e.kind = "race" => G[e] = IF e \in R THEN 1 ELSE 0

(* The record R of a Pit Stop day tells which refreshes of its day counted, *)
(* and none of a later day did.                                             *)
PitDays == {PitStopDay(t) : t \in Times}

CountedOn(day, G) == {e \in Events : e.kind = "refresh" /\ PitStopDay(e.at) = day /\ G[e] = 1}

RefreshSound(R, G) ==
    /\ R.receipts = CountedOn(R.day, G) /\ Cardinality(R.receipts) = R.count
    /\ \A e \in Events : e.kind = "refresh" => G[e] <= 1 /\ (G[e] = 1 => PitStopDay(e.at) <= R.day)
    /\ \A day \in PitDays \cup {R.day} : IsFiniteSet(CountedOn(day, G)) /\ Cardinality(CountedOn(day, G)) <= 2

(* The racing time of a day holds at least the races that were boosted.     *)
BoostedOn(day, B) == {e \in B : Day(e.at) = day}

Seconds(S) == SumFunctionOnSet([e \in S |-> e.seconds], S)

BonusSound(online, B) ==
    \A day \in Days :
       /\ Seconds(BoostedOn(day, B)) <= online[day]
       /\ BoostedOn(day, B) # {} =>
            \E e \in BoostedOn(day, B) : Seconds(BoostedOn(day, B) \ {e}) < BonusCap

(* What the races and the completed periods on file are worth.              *)
Worth(R, B) == SumFunctionOnSet([e \in R |-> (IF e \in B THEN 5 ELSE 1) * e.coins + e.extra], R)

Completed(records) == {k \in Keys : records[k].completed # 0}

Rewards(S) == SumFunctionOnSet([k \in S |-> Rules[k[1]].reward], S)

Earned(a) == credited[a] = Worth(Loaded(a).races, boosted[a]) + Rewards(Completed(Loaded(a).challenges))

(* The receipts of a challenge that is not completed cover what counted.    *)
Reported(e, n) == n = 0 \/ \E r \in Reports : n <= Occurrences(e, r)

Covered(c, e, n) == c.completed = 0 => n <= c.receipts[e] /\ Reported(e, c.receipts[e])

ReplaysSound(records, G) ==
    \A e \in Events : e.kind = "challenge" =>
       /\ Reported(e, G[e])
       /\ \A r \in DOMAIN Rules : e.rule = r =>
            \A P \in Period(r, e.at) : Covered(records[<<r, P[1]>>], e, G[e])

(* Items bought, and the least and the most that they can have cost.        *)
Least(S) == SumFunctionOnSet([i \in S |-> Min(PricesOf(i))], S)
Most(S) == SumFunctionOnSet([i \in S |-> Max(PricesOf(i))], S)

PaidSound(a, items, debit) ==
    LET bought == items \ Wallet[a].items
    IN  /\ Wallet[a].items \subseteq items /\ IsFiniteSet(bought)
        /\ Least(bought) <= debit /\ debit <= Most(bought)

Sound(a) ==
    /\ Ledger(a)
    /\ RacesSound(Loaded(a).races, granted[a])
    /\ RefreshSound(Loaded(a).refresh, granted[a]) /\ Loaded(a).refresh.day <= PitStopDay(now)
    /\ boosted[a] \subseteq Loaded(a).races /\ IsFiniteSet(Loaded(a).races)
    /\ BonusSound(Loaded(a).online, boosted[a])
    /\ Earned(a)
    /\ ReplaysSound(Loaded(a).challenges, granted[a])
    /\ PaidSound(a, Loaded(a).items, debited[a])

(* The races of a report that has left its first section are on file.       *)
Recorded ==
    /\ \A a \in Accounts : acked[a] \subseteq Loaded(a).races
    /\ \A c \in Clients : job[c] # NoJob =>
         \A d \in job[c].due : d[2] \in Loaded(d[1]).races

Inv == TypeOK /\ (\A a \in Accounts : Sound(a)) /\ Recorded

LEMMA InvInit == Init => Inv
<1> SUFFICES ASSUME Init PROVE Inv
  OBVIOUS
<1>1. TypeOK
  BY TypeInit
<1>2. ASSUME NEW a \in Accounts PROVE Sound(a)
  <2>1. /\ Loaded(a) = Migrated(a) /\ credited[a] = 0 /\ debited[a] = 0 /\ boosted[a] = {}
        /\ granted[a] = [e \in Events |-> 0] /\ now = 0
    BY <1>2 DEF Init, Loaded
  <2>2. /\ Loaded(a).balance = Wallet[a].balance /\ Loaded(a).items = Wallet[a].items
        /\ Loaded(a).races = {} /\ Loaded(a).online = [d \in Days |-> 0]
        /\ Loaded(a).refresh = [day |-> 0, count |-> 0, receipts |-> {}]
        /\ Loaded(a).challenges = [k \in Keys |-> Unstarted]
    BY <2>1 DEF Migrated, Days
  <2>3. Ledger(a)
    BY <2>1, <2>2 DEF Ledger
  <2>4. RacesSound(Loaded(a).races, granted[a])
    BY <2>1, <2>2 DEF RacesSound
  <2>5. RefreshSound(Loaded(a).refresh, granted[a])
    <3>1. \A day : CountedOn(day, granted[a]) = {}
      BY <2>1 DEF CountedOn
    <3>2. IsFiniteSet({}) /\ Cardinality({}) = 0
      BY FS_EmptySet
    <3>3. \A day : IsFiniteSet(CountedOn(day, granted[a])) /\ Cardinality(CountedOn(day, granted[a])) = 0
      BY <3>1, <3>2
    <3>4. \A e \in Events : granted[a][e] = 0
      BY <2>1
    <3>5. Loaded(a).refresh.receipts = {} /\ Loaded(a).refresh.count = 0
      BY <2>2
    <3> QED BY <3>1, <3>2, <3>3, <3>4, <3>5 DEF RefreshSound
  <2>6. Loaded(a).refresh.day <= PitStopDay(now)
    <3>1. now \in Times
      BY <1>1 DEF TypeOK
    <3> QED BY <2>2, <3>1, PitStopDayGrows DEF Times
  <2>7. boosted[a] \subseteq Loaded(a).races /\ IsFiniteSet(Loaded(a).races)
    BY <2>1, <2>2, FS_EmptySet
  <2>8. BonusSound(Loaded(a).online, boosted[a])
    <3>1. \A day : BoostedOn(day, boosted[a]) = {}
      BY <2>1 DEF BoostedOn
    <3>2. Seconds({}) = 0
      BY SumEmpty DEF Seconds
    <3> QED BY <2>2, <3>1, <3>2 DEF BonusSound
  <2>9. Earned(a)
    <3>1. Completed(Loaded(a).challenges) = {}
      BY <2>2 DEF Completed, Unstarted
    <3>2. Worth({}, boosted[a]) = 0 /\ Rewards({}) = 0
      BY SumEmpty DEF Worth, Rewards
    <3> QED BY <2>1, <2>2, <3>1, <3>2 DEF Earned
  <2>10. ReplaysSound(Loaded(a).challenges, granted[a])
    <3> SUFFICES ASSUME NEW e \in Events, NEW r \in DOMAIN Rules, NEW P \in Period(r, e.at)
                 PROVE  Covered(Loaded(a).challenges[<<r, P[1]>>], e, 0) /\ Reported(e, 0)
      BY <2>1 DEF ReplaysSound, Reported
    <3>1. <<r, P[1]>> \in Keys
      BY EventType, PeriodFacts
    <3>2. Loaded(a).challenges[<<r, P[1]>>] = Unstarted /\ Unstarted.receipts[e] = 0
      BY <2>2, <3>1 DEF Unstarted
    <3> QED BY <3>2 DEF Covered, Reported
  <2>11. PaidSound(a, Loaded(a).items, debited[a])
    <3> DEFINE bought == Loaded(a).items \ Wallet[a].items
    <3>1. bought = {}
      BY <2>2
    <3>2. Least({}) = 0 /\ Most({}) = 0 /\ IsFiniteSet({})
      BY SumEmpty, FS_EmptySet DEF Least, Most
    <3> HIDE DEF bought
    <3>3. Least(bought) = 0 /\ Most(bought) = 0 /\ IsFiniteSet(bought)
      BY <3>1, <3>2
    <3> QED BY <2>1, <2>2, <3>3 DEF PaidSound, bought
  <2> QED BY <2>3, <2>4, <2>5, <2>6, <2>7, <2>8, <2>9, <2>10, <2>11 DEF Sound
<1>3. Recorded
  BY DEF Init, Recorded
<1> QED BY <1>1, <1>2, <1>3 DEF Inv

(* An account that keeps what it holds stays sound, whatever the time.      *)
LEMMA Carried ==
  ASSUME TypeOK, NEW a \in Accounts, Sound(a),
         Loaded(a)' = Loaded(a), credited'[a] = credited[a], debited'[a] = debited[a],
         granted'[a] = granted[a], boosted'[a] = boosted[a], now' \in Times, now <= now'
  PROVE  Sound(a)'
<1>1. Loaded(a).refresh.day <= PitStopDay(now')
  <2>1. now \in Times /\ Loaded(a) \in Account
    BY LoadedType DEF TypeOK
  <2>2. PitStopDay(now) \in Nat /\ PitStopDay(now) <= PitStopDay(now') /\ PitStopDay(now') \in Nat
    BY <2>1, PitStopDayGrows DEF Times
  <2>3. Loaded(a).refresh.day \in Nat
    BY <2>1, AccountParts, PitStopDayGrows DEF Times
  <2> QED BY <2>2, <2>3 DEF Sound
<1> QED BY <1>1 DEF Sound, Ledger, Earned

-----------------------------------------------------------------------------
(* awardRaces keeps the account sound. *)
LEMMA SumGrow ==
  ASSUME NEW f, NEW g, NEW S, IsFiniteSet(S), NEW x, x \notin S, f[x] \in Int,
         \A y \in S : f[y] = g[y] /\ f[y] \in Int
  PROVE  SumFunctionOnSet(f, S \cup {x}) = SumFunctionOnSet(g, S) + f[x]
<1>1. SumFunctionOnSet(f, S \cup {x}) = SumFunctionOnSet(f, S) + f[x]
  BY SumMore
<1>2. SumFunctionOnSet(f, S) = SumFunctionOnSet(g, S)
  BY SumSame
<1> QED BY <1>1, <1>2

LEMMA SecondsMore ==
  ASSUME NEW S \in SUBSET Events, IsFiniteSet(S), \A x \in S : x.kind = "race",
         NEW e \in Events, e.kind = "race", e \notin S
  PROVE  /\ Seconds(S) \in Nat /\ e.seconds \in Nat
         /\ Seconds(S \cup {e}) = Seconds(S) + e.seconds
<1> DEFINE f == [x \in S \cup {e} |-> x.seconds]
           g == [x \in S |-> x.seconds]
<1>1. \A x \in S \cup {e} : x.seconds \in Nat
  BY EventType
<1>2. f[e] = e.seconds /\ \A x \in S : f[x] = g[x] /\ f[x] \in Int /\ g[x] \in Nat
  BY <1>1
<1>3. Seconds(S) = SumFunctionOnSet(g, S) /\ Seconds(S \cup {e}) = SumFunctionOnSet(f, S \cup {e})
  BY DEF Seconds
<1> HIDE DEF f, g
<1>4. SumFunctionOnSet(g, S) \in Nat
  BY <1>2, SumNat
<1>5. SumFunctionOnSet(f, S \cup {e}) = SumFunctionOnSet(g, S) + f[e]
  BY <1>1, <1>2, SumGrow
<1> QED BY <1>1, <1>2, <1>3, <1>4, <1>5

LEMMA WorthMore ==
  ASSUME NEW R \in SUBSET Events, IsFiniteSet(R), \A x \in R : x.kind = "race",
         NEW e \in Events, e.kind = "race", e \notin R,
         NEW B, NEW C, \A x \in R : x \in C <=> x \in B
  PROVE  /\ Worth(R, B) \in Nat
         /\ Worth(R \cup {e}, C) = Worth(R, B) + ((IF e \in C THEN 5 ELSE 1) * e.coins + e.extra)
<1> DEFINE f == [x \in R \cup {e} |-> (IF x \in C THEN 5 ELSE 1) * x.coins + x.extra]
           g == [x \in R |-> (IF x \in B THEN 5 ELSE 1) * x.coins + x.extra]
<1>1. \A x \in R \cup {e} : f[x] \in Nat
  BY EventType
<1>2. /\ f[e] = (IF e \in C THEN 5 ELSE 1) * e.coins + e.extra
      /\ \A x \in R : f[x] = g[x] /\ f[x] \in Int /\ g[x] \in Nat
  <2>1. f[e] = (IF e \in C THEN 5 ELSE 1) * e.coins + e.extra
    OBVIOUS
  <2>2. ASSUME NEW x \in R PROVE f[x] = g[x]
    OBVIOUS
  <2> HIDE DEF f, g
  <2> QED BY <1>1, <2>1, <2>2
<1>3. Worth(R, B) = SumFunctionOnSet(g, R) /\ Worth(R \cup {e}, C) = SumFunctionOnSet(f, R \cup {e})
  BY DEF Worth
<1> HIDE DEF f, g
<1>4. SumFunctionOnSet(g, R) \in Nat
  BY <1>2, SumNat
<1>5. f[e] \in Int
  BY <1>1
<1>6. SumFunctionOnSet(f, R \cup {e}) = SumFunctionOnSet(g, R) + f[e]
  BY <1>2, <1>5, SumGrow
<1> QED BY <1>2, <1>3, <1>4, <1>6

(* Each race is counted at most once, and the recent ones of the report are *)
(* on file.                                                                 *)
LEMMA RacesOnce ==
  ASSUME TypeOK, NEW a \in Accounts, NEW report \in Seq(Events),
         RacesSound(Loaded(a).races, granted[a])
  PROVE  LET s == AwardRaces(a, report)
         IN  /\ RacesSound(s.account.races, s.granted)
             /\ Loaded(a).races \subseteq s.account.races
             /\ Due(report) \subseteq s.account.races
<1> DEFINE P(s) == RacesSound(s.account.races, s.granted) /\ Loaded(a).races \subseteq s.account.races
           D(s, k) == \A i \in 1..k : report[i].kind = "race" /\ Recent(report[i]) =>
                                        report[i] \in s.account.races
           J == [k \in 0..Len(report) |-> {s \in RaceState : P(s) /\ D(s, k)}]
<1>1. RaceStart(a) \in RaceState
  BY LoadedType DEF RaceStart, RaceState, TypeOK
<1>2. RaceStart(a) \in J[0]
  <2>1. P(RaceStart(a)) /\ D(RaceStart(a), 0)
    BY DEF RaceStart
  <2> HIDE DEF P, D
  <2> QED BY <1>1, <2>1
<1>3. ASSUME NEW k \in 1..Len(report), NEW s \in RaceState \cap J[k - 1]
      PROVE  RaceStep(s, report[k]) \in J[k]
  <2> DEFINE e == report[k]
             t == RaceStep(s, e)
  <2>1. e \in Events /\ s \in RaceState /\ P(s) /\ D(s, k - 1) /\ k \in 0..Len(report)
    OBVIOUS
  <2>2. t \in RaceState
    BY <2>1, RaceType
  <2>0. \/ t = s /\ (e.kind # "race" \/ ~Recent(e) \/ e \in s.account.races)
        \/ t.account.races = s.account.races \cup {e}
    BY <2>1, RaceCases
  <2>3. s.account.races \subseteq t.account.races
    <3> HIDE DEF t, e
    <3> QED BY <2>0
  <2>4. e.kind = "race" /\ Recent(e) => e \in t.account.races
    <3> HIDE DEF t, e
    <3> QED BY <2>0
  <2>5. D(t, k)
    <3> SUFFICES ASSUME NEW i \in 1..k, report[i].kind = "race" /\ Recent(report[i])
                 PROVE  report[i] \in t.account.races
      OBVIOUS
    <3>1. CASE i = k
      BY <2>4, <3>1
    <3>2. CASE i # k
      <4>1. i \in 1..(k - 1)
        BY <3>2
      <4> QED BY <2>1, <2>3, <4>1
    <3> QED BY <3>1, <3>2
  <2>6. P(t)
    <3>1. CASE t = s
      BY <2>1, <3>1
    <3>2. CASE t # s
      <4>1. /\ e.kind = "race" /\ e \notin s.account.races
            /\ t.granted = [s.granted EXCEPT ![e] = @ + 1]
            /\ t.account.races = s.account.races \cup {e}
        BY <2>1, <3>2, RaceCases
      <4>2. s.granted \in [Events -> Nat]
        BY <2>1 DEF RaceState
      <4> HIDE DEF t, e
      <4>3. RacesSound(s.account.races \cup {e}, t.granted)
        BY <2>1, <4>1, <4>2 DEF RacesSound
      <4> QED BY <2>1, <4>1, <4>3
    <3> QED BY <3>1, <3>2
  <2> HIDE DEF P, D, t, e
  <2>7. t \in J[k]
    BY <2>1, <2>2, <2>5, <2>6
  <2> QED BY <2>7 DEF t, e
<1> HIDE DEF P, D
<1>4. AwardRaces(a, report) \in J[Len(report)]
  <2> HIDE DEF J
  <2> QED BY <1>2, <1>3, RacesEnd
<1>5. P(AwardRaces(a, report)) /\ D(AwardRaces(a, report), Len(report))
  BY <1>4
<1>6. Due(report) \subseteq AwardRaces(a, report).account.races
  BY <1>5 DEF D, Due, ToSet
<1> QED BY <1>5, <1>6 DEF P

(* One more race, boosted or not, on the day's racing time.                 *)
LEMMA BonusStep ==
  ASSUME NEW x \in Account, NEW B \in SUBSET Events, B \subseteq x.races, IsFiniteSet(x.races),
         \A r \in x.races : r.kind = "race", BonusSound(x.online, B),
         NEW e \in Events, e.kind = "race", e \notin x.races
  PROVE  BonusSound(OnlineTime(x, e), IF Boosts(x, e) THEN B \cup {e} ELSE B)
<1> DEFINE C == IF Boosts(x, e) THEN B \cup {e} ELSE B
           online == OnlineTime(x, e)
           d == Day(e.at)
<1>1. x.online \in [Days -> Nat] /\ d \in Days /\ e.seconds \in Nat /\ e.online \in BOOLEAN
  BY AccountParts, EventType DEF Days
<1>2. /\ online = [x.online EXCEPT ![d] = IF e.online THEN @ + e.seconds ELSE @]
      /\ Boosts(x, e) <=> e.online /\ x.online[d] < BonusCap
  BY <1>1 DEF OnlineTime, Boosts
<1>3. \A day \in Days : online[day] = x.online[day] + IF day = d /\ e.online THEN e.seconds ELSE 0
  BY <1>1, <1>2
<1> HIDE DEF online, d
<1>4. ASSUME NEW day \in Days
      PROVE  /\ Seconds(BoostedOn(day, C)) <= online[day]
             /\ BoostedOn(day, C) # {} =>
                  \E r \in BoostedOn(day, C) : Seconds(BoostedOn(day, C) \ {r}) < BonusCap
  <2> DEFINE S == BoostedOn(day, B)
  <2>1. /\ S \in SUBSET Events /\ IsFiniteSet(S) /\ e \notin S
        /\ \A r \in S : r.kind = "race"
    BY FS_Subset DEF BoostedOn
  <2>2. /\ Seconds(S) \in Nat /\ e.seconds \in Nat
        /\ Seconds(S \cup {e}) = Seconds(S) + e.seconds
    <3> HIDE DEF S
    <3> QED BY <2>1, SecondsMore
  <2>3. /\ Seconds(S) <= x.online[day]
        /\ S # {} => \E r \in S : Seconds(S \ {r}) < BonusCap
    BY DEF BonusSound
  <2>4. BoostedOn(day, C) = IF day = d /\ Boosts(x, e) THEN S \cup {e} ELSE S
    BY DEF BoostedOn, d
  <2> HIDE DEF S, C
  <2>5. CASE day = d /\ Boosts(x, e)
    <3>1. BoostedOn(day, C) = S \cup {e} /\ (S \cup {e}) \ {e} = S
      BY <2>1, <2>4, <2>5
    <3>2. online[day] = x.online[day] + e.seconds /\ x.online[day] < BonusCap /\ x.online[day] \in Nat
      BY <1>1, <1>2, <1>3, <2>5
    <3>3. Seconds(S) < BonusCap
      BY <2>2, <2>3, <3>2, EconomyAssumption
    <3>4. Seconds(BoostedOn(day, C) \ {e}) < BonusCap /\ e \in BoostedOn(day, C)
      BY <3>1, <3>3
    <3>5. Seconds(BoostedOn(day, C)) <= online[day]
      BY <2>2, <2>3, <3>1, <3>2
    <3> QED BY <3>4, <3>5
  <2>6. CASE ~(day = d /\ Boosts(x, e))
    <3>1. BoostedOn(day, C) = S
      BY <2>4, <2>6
    <3>2. x.online[day] \in Nat /\ online[day] \in Nat /\ x.online[day] <= online[day]
      BY <1>1, <1>3
    <3>3. Seconds(S) <= online[day]
      BY <2>2, <2>3, <3>2
    <3> QED BY <2>3, <3>1, <3>3
  <2> QED BY <2>5, <2>6
<1> QED BY <1>4 DEF BonusSound, online, C

(* Neither is more boosted than the day allows, nor is a coin earned that   *)
(* no race on file is worth.                                                *)
LEMMA WorthNat ==
  ASSUME TypeOK, NEW a \in Accounts, Sound(a)
  PROVE  Worth(Loaded(a).races, boosted[a]) \in Nat
<1> DEFINE f == [e \in Loaded(a).races |-> (IF e \in boosted[a] THEN 5 ELSE 1) * e.coins + e.extra]
<1>1. \A e \in Loaded(a).races : f[e] \in Nat
  BY LoadedType, AccountParts, EventType DEF Sound, RacesSound
<1>2. IsFiniteSet(Loaded(a).races) /\ Worth(Loaded(a).races, boosted[a]) = SumFunctionOnSet(f, Loaded(a).races)
  BY DEF Sound, Worth
<1> HIDE DEF f
<1> QED BY <1>1, <1>2, SumNat

LEMMA RacesWorth ==
  ASSUME TypeOK, NEW a \in Accounts, NEW report \in Seq(Events), Sound(a)
  PROVE  LET s == AwardRaces(a, report)
         IN  /\ s.boosted \subseteq s.account.races /\ IsFiniteSet(s.account.races)
             /\ BonusSound(s.account.online, s.boosted)
             /\ Worth(s.account.races, s.boosted) = Worth(Loaded(a).races, boosted[a]) + s.total
<1> DEFINE W == Worth(Loaded(a).races, boosted[a])
           P(s) == /\ \A e \in s.account.races : e.kind = "race"
                   /\ s.boosted \subseteq s.account.races /\ IsFiniteSet(s.account.races)
                   /\ BonusSound(s.account.online, s.boosted)
                   /\ Worth(s.account.races, s.boosted) = W + s.total
           J == [k \in 0..Len(report) |-> {s \in RaceState : P(s)}]
<1>1. RaceStart(a) \in RaceState /\ Loaded(a) \in Account
  BY LoadedType DEF RaceStart, RaceState, TypeOK
<1>2. W \in Nat
  BY WorthNat
<1>3. RaceStart(a) \in J[0]
  <2>1. P(RaceStart(a))
    <3> HIDE DEF W
    <3> QED BY <1>2 DEF RaceStart, Sound, RacesSound, W
  <2> HIDE DEF P
  <2> QED BY <1>1, <2>1
<1>4. ASSUME NEW k \in 1..Len(report), NEW s \in RaceState \cap J[k - 1]
      PROVE  RaceStep(s, report[k]) \in J[k]
  <2> DEFINE e == report[k]
             t == RaceStep(s, e)
             x == s.account
             boost == Boosts(x, e)
             amount == (IF boost THEN 5 ELSE 1) * e.coins + e.extra
             C == IF boost THEN s.boosted \cup {e} ELSE s.boosted
  <2>1. e \in Events /\ s \in RaceState /\ P(s) /\ k \in 0..Len(report)
    OBVIOUS
  <2>2. t \in RaceState
    BY <2>1, RaceType
  <2>3. P(t)
    <3>1. CASE t = s
      <4> HIDE DEF P
      <4> QED BY <2>1, <3>1
    <3>2. CASE t # s
      <4>1. /\ e.kind = "race" /\ e \notin x.races /\ amount \in Nat
            /\ t.total = s.total + amount /\ t.boosted = C
            /\ t.account.races = x.races \cup {e} /\ t.account.online = OnlineTime(x, e)
        BY <2>1, <3>2, RaceCases
      <4>2. /\ x \in Account /\ s.total \in Nat /\ s.boosted \in SUBSET Events /\ x.races \in SUBSET Events
        BY <2>1, AccountParts DEF RaceState
      <4>3. BonusSound(OnlineTime(x, e), C)
        <5> HIDE DEF x, e
        <5> QED BY <2>1, <4>1, <4>2, BonusStep DEF x
      <4>4. \A r \in x.races : r \in C <=> r \in s.boosted
        BY <4>1
      <4>5. e \in C <=> boost
        BY <2>1, <4>1
      <4> HIDE DEF boost, C, W, t, e
      <4>6. Worth(x.races \cup {e}, C) =
              Worth(x.races, s.boosted) + ((IF e \in C THEN 5 ELSE 1) * e.coins + e.extra)
        BY <2>1, <4>1, <4>2, <4>4, WorthMore
      <4>7. (IF e \in C THEN 5 ELSE 1) * e.coins + e.extra = amount
        BY <4>5
      <4> HIDE DEF amount
      <4>8. Worth(t.account.races, t.boosted) = W + t.total
        BY <1>2, <2>1, <4>1, <4>2, <4>6, <4>7
      <4>9. IsFiniteSet(t.account.races)
        BY <2>1, <4>1, FS_AddElement
      <4>10. \A r \in t.account.races : r.kind = "race"
        BY <2>1, <4>1
      <4>11. t.boosted \subseteq t.account.races
        BY <2>1, <4>1 DEF C
      <4> QED BY <4>1, <4>3, <4>8, <4>9, <4>10, <4>11
    <3> QED BY <3>1, <3>2
  <2> HIDE DEF P, t, e
  <2>4. t \in J[k]
    BY <2>1, <2>2, <2>3
  <2> QED BY <2>4 DEF t, e
<1> HIDE DEF P
<1>5. AwardRaces(a, report) \in J[Len(report)]
  <2> HIDE DEF J
  <2> QED BY <1>3, <1>4, RacesEnd
<1>6. P(AwardRaces(a, report))
  BY <1>5
<1> QED BY <1>6 DEF P

(* Two refreshes a day: those that counted today are in the day's record.   *)
LEMMA RecordSound ==
  ASSUME TypeOK, NEW a \in Accounts, Sound(a)
  PROVE  /\ RefreshSound(RefreshRecord(Loaded(a)).refresh, granted[a])
         /\ RefreshRecord(Loaded(a)).refresh.day = PitStopDay(now)
<1> DEFINE R == Loaded(a).refresh
           G == granted[a]
           D == PitStopDay(now)
           N == [day |-> D, count |-> 0, receipts |-> {}]
<1>1. /\ Loaded(a) \in Account /\ now \in Times /\ G \in [Events -> Nat]
      /\ RefreshSound(R, G) /\ R.day <= D
  BY LoadedType DEF TypeOK, Sound
<1>2. D \in Nat /\ D \in PitDays /\ \A e \in Events : PitStopDay(e.at) \in Nat
  BY <1>1, EventType, PitStopDayGrows DEF PitDays, Times
<1>3. R.day \in Nat
  BY <1>1, AccountParts, PitStopDayGrows DEF Times
<1>4. RefreshRecord(Loaded(a)).refresh = IF R.day = D THEN R ELSE N
  BY <1>1 DEF RefreshRecord, Account
<1> HIDE DEF R, G, D, N
<1>5. CASE R.day = D
  BY <1>1, <1>4, <1>5 DEF R, G, D
<1>6. CASE R.day # D
  <2>1. \A e \in Events : e.kind = "refresh" => G[e] <= 1 /\ (G[e] = 1 => PitStopDay(e.at) < D)
    BY <1>1, <1>2, <1>3, <1>6 DEF RefreshSound
  <2>2. CountedOn(D, G) = {}
    BY <1>2, <2>1 DEF CountedOn
  <2>3. N.day = D /\ N.count = 0 /\ N.receipts = {}
    BY DEF N
  <2>4. Cardinality(N.receipts) = N.count
    BY <2>3, FS_EmptySet
  <2>5. \A day \in PitDays \cup {D} : IsFiniteSet(CountedOn(day, G)) /\ Cardinality(CountedOn(day, G)) <= 2
    BY <1>1, <1>2 DEF RefreshSound
  <2>6. \A e \in Events : e.kind = "refresh" => G[e] <= 1 /\ (G[e] = 1 => PitStopDay(e.at) <= D)
    BY <1>2, <2>1
  <2>7. RefreshSound(N, G)
    BY <2>2, <2>3, <2>4, <2>5, <2>6 DEF RefreshSound
  <2> QED BY <1>4, <1>6, <2>3, <2>7 DEF R, G, D
<1> QED BY <1>5, <1>6

LEMMA RefreshStepSound ==
  ASSUME TypeOK, NEW s \in RefreshState, NEW e \in Events,
         RefreshSound(s.account.refresh, s.granted), s.account.refresh.day = PitStopDay(now)
  PROVE  /\ RefreshSound(RefreshStep(s, e).account.refresh, RefreshStep(s, e).granted)
         /\ RefreshStep(s, e).account.refresh.day = PitStopDay(now)
<1> DEFINE R == s.account.refresh
           G == s.granted
           H == [G EXCEPT ![e] = @ + 1]
           N == [day |-> R.day, count |-> R.count + 1, receipts |-> R.receipts \cup {e}]
           t == RefreshStep(s, e)
<1>1. s.account \in Account /\ G \in [Events -> Nat]
  BY DEF RefreshState
<1>2. R.count \in 0..2 /\ R.receipts \subseteq Events
  BY <1>1, AccountParts
<1>3. CASE t = s
  BY <1>3
<1>4. CASE t # s
  <2>1. /\ e.kind = "refresh" /\ InDay(e) /\ e \notin R.receipts /\ R.count < 2
        /\ t = [account |-> [s.account EXCEPT !.refresh = N], granted |-> H]
    BY <1>4 DEF RefreshStep
  <2>2. [s.account EXCEPT !.refresh = N].refresh = N
    BY <1>1 DEF Account
  <2>3. t.account.refresh = N /\ t.granted = H
    <3> DEFINE y == [s.account EXCEPT !.refresh = N]
    <3>1. t = [account |-> y, granted |-> H] /\ y.refresh = N
      BY <2>1, <2>2
    <3> HIDE DEF y, N, H, t
    <3> QED BY <3>1
  <2>4. PitStopDay(e.at) = R.day
    BY <2>1 DEF InDay
  <2> HIDE DEF t, R, G
  <2>5. /\ R.receipts = CountedOn(R.day, G) /\ Cardinality(R.receipts) = R.count
        /\ \A f \in Events : f.kind = "refresh" => G[f] <= 1 /\ (G[f] = 1 => PitStopDay(f.at) <= R.day)
        /\ \A day \in PitDays \cup {R.day} : IsFiniteSet(CountedOn(day, G)) /\ Cardinality(CountedOn(day, G)) <= 2
    BY DEF RefreshSound, R, G
  <2>6. G[e] = 0 /\ H[e] = 1 /\ \A f \in Events \ {e} : H[f] = G[f]
    <3>1. G[e] # 1
      BY <2>1, <2>4, <2>5 DEF CountedOn
    <3>2. G[e] \in Nat /\ G[e] <= 1
      BY <1>1, <2>1, <2>5
    <3>3. G[e] = 0
      BY <3>1, <3>2
    <3> QED BY <1>1, <3>3
  <2> HIDE DEF H
  <2>7. CountedOn(R.day, H) = R.receipts \cup {e}
    BY <2>1, <2>4, <2>5, <2>6 DEF CountedOn
  <2>8. \A day : day # R.day => CountedOn(day, H) = CountedOn(day, G)
    BY <2>4, <2>6 DEF CountedOn
  <2>9. N.day = R.day /\ N.count = R.count + 1 /\ N.receipts = R.receipts \cup {e}
    OBVIOUS
  <2> HIDE DEF N
  <2>10. IsFiniteSet(R.receipts) /\ Cardinality(R.receipts \cup {e}) = R.count + 1 /\ R.count + 1 <= 2
         /\ IsFiniteSet(R.receipts \cup {e})
    <3>1. IsFiniteSet(R.receipts)
      BY <2>5
    <3> QED BY <1>2, <2>1, <2>5, <3>1, FS_AddElement DEF R
  <2>11. \A day \in PitDays \cup {R.day} : IsFiniteSet(CountedOn(day, H)) /\ Cardinality(CountedOn(day, H)) <= 2
    <3> SUFFICES ASSUME NEW day \in PitDays \cup {R.day}
                 PROVE  IsFiniteSet(CountedOn(day, H)) /\ Cardinality(CountedOn(day, H)) <= 2
      OBVIOUS
    <3>1. CASE day = R.day
      BY <2>7, <2>10, <3>1
    <3>2. CASE day # R.day
      <4>1. CountedOn(day, H) = CountedOn(day, G)
        BY <2>8, <3>2
      <4> QED BY <2>5, <4>1
    <3> QED BY <3>1, <3>2
  <2>12. \A f \in Events : f.kind = "refresh" => H[f] <= 1 /\ (H[f] = 1 => PitStopDay(f.at) <= R.day)
    <3> SUFFICES ASSUME NEW f \in Events, f.kind = "refresh"
                 PROVE  H[f] <= 1 /\ (H[f] = 1 => PitStopDay(f.at) <= R.day)
      OBVIOUS
    <3>1. CASE f = e
      <4>1. PitStopDay(e.at) \in Nat
        BY EventType, PitStopDayGrows
      <4> QED BY <2>4, <2>6, <3>1, <4>1
    <3>2. CASE f # e
      BY <2>5, <2>6, <3>2
    <3> QED BY <3>1, <3>2
  <2>13. RefreshSound(N, H)
    BY <2>7, <2>9, <2>10, <2>11, <2>12 DEF RefreshSound
  <2>14. N.day = PitStopDay(now)
    BY <2>9 DEF R
  <2> QED BY <2>3, <2>13, <2>14 DEF t
<1> QED BY <1>3, <1>4

LEMMA RefreshedSound ==
  ASSUME TypeOK, NEW a \in Accounts, NEW report \in Seq(Events), Sound(a)
  PROVE  LET s == Refreshed(a, report)
         IN  /\ RefreshSound(s.account.refresh, s.granted)
             /\ s.account.refresh.day = PitStopDay(now)
<1> DEFINE P(s) == /\ RefreshSound(s.account.refresh, s.granted)
                   /\ s.account.refresh.day = PitStopDay(now)
           J == [k \in 0..Len(report) |-> {s \in RefreshState : P(s)}]
<1>1. RefreshStart(a) \in RefreshState
  BY RecordType DEF RefreshStart, RefreshState, TypeOK
<1>2. RefreshStart(a) \in J[0]
  <2>1. P(RefreshStart(a))
    BY RecordSound DEF RefreshStart
  <2> HIDE DEF P
  <2> QED BY <1>1, <2>1
<1>3. ASSUME NEW k \in 1..Len(report), NEW s \in RefreshState \cap J[k - 1]
      PROVE  RefreshStep(s, report[k]) \in J[k]
  <2>1. report[k] \in Events /\ s \in RefreshState /\ P(s) /\ k \in 0..Len(report)
    OBVIOUS
  <2>2. RefreshStep(s, report[k]) \in RefreshState /\ P(RefreshStep(s, report[k]))
    BY <2>1, RefreshType, RefreshStepSound
  <2> HIDE DEF P
  <2> QED BY <2>1, <2>2
<1> HIDE DEF P
<1>4. Refreshed(a, report) \in J[Len(report)]
  <2> HIDE DEF J
  <2> QED BY <1>2, <1>3, RefreshEnd
<1>5. P(Refreshed(a, report))
  BY <1>4
<1> QED BY <1>5 DEF P

-----------------------------------------------------------------------------
(* awardChallenges keeps the account sound. *)
LEMMA Apart ==
  ASSUME NEW r, NEW period, NEW s, NEW e, ~Accepted(r, period, e)
  PROVE  ChallengeStep(r, period, s, e) = s
BY DEF ChallengeStep

(* Only the events of its own period advance a challenge, and it pays when  *)
(* it is completed, not again.                                              *)
LEMMA ChallengePays ==
  ASSUME now \in Times, NEW r \in Active, NEW x \in Account, NEW report \in Seq(Events)
  PROVE  LET c == x.challenges[<<r, Current(r)[1]>>]
             s == Challenge(r, x, report)
         IN  /\ s.credit = IF c.completed = 0 /\ s.c.completed # 0 THEN Rules[r].reward ELSE 0
             /\ c.completed # 0 => s.c = c
             /\ \A e \in Events : ~Accepted(r, Current(r), e) => s.advanced[e] = 0
<1> DEFINE period == Current(r)
           c == x.challenges[<<r, period[1]>>]
           P(s) == /\ s.credit = IF c.completed = 0 /\ s.c.completed # 0 THEN Rules[r].reward ELSE 0
                   /\ c.completed # 0 => s.c = c
                   /\ \A e \in Events : ~Accepted(r, period, e) => s.advanced[e] = 0
           J == [k \in 0..Len(report) |-> {s \in ChallengeState : P(s)}]
<1>1. r \in DOMAIN Rules /\ <<r, period[1]>> \in Keys /\ Rules[r].reward \in Nat
  BY CurrentFacts, DataAssumption
<1>2. ChallengeStart(c) \in ChallengeState
  BY <1>1, ChallengeStartType
<1> HIDE DEF c, period
<1>3. ChallengeStart(c) \in J[0]
  BY <1>2 DEF ChallengeStart
<1>4. ASSUME NEW k \in 1..Len(report), NEW s \in ChallengeState \cap J[k - 1]
      PROVE  ChallengeStep(r, period, s, report[k]) \in J[k]
  <2> DEFINE e == report[k]
             t == ChallengeStep(r, period, s, e)
  <2>1. e \in Events /\ s \in ChallengeState /\ P(s) /\ k \in 0..Len(report)
    OBVIOUS
  <2>2. t \in ChallengeState
    BY <1>1, <2>1, ChallengeCases
  <2>3. CASE t = s
    <3> HIDE DEF P
    <3> QED BY <2>1, <2>2, <2>3
  <2>4. CASE t # s
    <3>2. e.at # 0
      BY <2>1, EventType
    <3>5. s.c.completed = 0 /\ Accepted(r, period, e) /\ (Again(s, e, t) \/ Counts(r, s, e, t))
      <4>1. r \in DOMAIN Rules /\ e \in Events /\ s \in ChallengeState
        BY <1>1, <2>1
      <4> HIDE DEF e, P
      <4> QED BY <2>4, <4>1, ChallengeCases
    <3> HIDE DEF t, e
    <3>0. /\ s.c.completed = 0 /\ Accepted(r, period, e)
          /\ \/ t.c = s.c /\ t.credit = s.credit /\ t.advanced = s.advanced
             \/ /\ t.advanced \in {s.advanced, [s.advanced EXCEPT ![e] = @ + 1]}
                /\ \/ t.c.completed = 0 /\ t.credit = s.credit
                   \/ t.c.completed = e.at /\ t.credit = s.credit + Rules[r].reward
      BY <3>5 DEF Again, Counts
    <3>1. s.credit = 0 /\ c.completed = 0
      BY <2>1, <3>0
    <3>3. t.credit = IF c.completed = 0 /\ t.c.completed # 0 THEN Rules[r].reward ELSE 0
      BY <1>1, <3>0, <3>1, <3>2
    <3>4. \A f \in Events : ~Accepted(r, period, f) => t.advanced[f] = 0
      <4>1. s.advanced \in [Events -> Nat] /\ e \in Events
        BY <2>1, ChallengeParts DEF e
      <4>2. \A f \in Events : f # e => t.advanced[f] = s.advanced[f]
        BY <3>0, <4>1
      <4> QED BY <2>1, <3>0, <4>2
    <3>6. P(t)
      BY <3>1, <3>3, <3>4
    <3> QED BY <2>1, <2>2, <3>6 DEF t, e
  <2> QED BY <2>3, <2>4
<1> HIDE DEF P
<1>5. Challenge(r, x, report) \in J[Len(report)]
  <2> HIDE DEF J
  <2> QED BY <1>3, <1>4, ChallengeEnd DEF c, period
<1>6. P(Challenge(r, x, report))
  BY <1>5
<1> QED BY <1>6 DEF P, c, period

(* An event happens no more often in what was read so far than in all of    *)
(* the report.                                                              *)
Seen(report, k, e) == {i \in 1..k : report[i] = e}

LEMMA SeenMore ==
  ASSUME NEW report \in Seq(Events), NEW e, NEW k \in 1..Len(report)
  PROVE  /\ Cardinality(Seen(report, k, e)) =
              Cardinality(Seen(report, k - 1, e)) + IF report[k] = e THEN 1 ELSE 0
         /\ Cardinality(Seen(report, k - 1, e)) \in Nat
         /\ Cardinality(Seen(report, k, e)) \in Nat
         /\ Cardinality(Seen(report, k, e)) <= Occurrences(e, report)
         /\ Occurrences(e, report) \in Nat
<1> DEFINE S == Seen(report, k - 1, e)
           T == Seen(report, k, e)
           U == {i \in DOMAIN report : report[i] = e}
<1>1. IsFiniteSet(1..(k - 1)) /\ IsFiniteSet(1..k) /\ IsFiniteSet(1..Len(report))
  BY FS_Interval
<1>2. IsFiniteSet(S) /\ IsFiniteSet(T)
  BY <1>1, FS_Subset DEF Seen
<1>3. IsFiniteSet(U) /\ T \subseteq U
  <2>1. DOMAIN report = 1..Len(report)
    OBVIOUS
  <2> QED BY <1>1, <2>1, FS_Subset DEF Seen
<1>4. T = IF report[k] = e THEN S \cup {k} ELSE S
  BY DEF Seen
<1>5. k \notin S
  BY DEF Seen
<1>6. Occurrences(e, report) = Cardinality(U)
  BY DEF Occurrences
<1> HIDE DEF S, T, U
<1>7. Cardinality(S) \in Nat /\ Cardinality(T) \in Nat /\ Cardinality(U) \in Nat /\ Cardinality(T) <= Cardinality(U)
  BY <1>2, <1>3, FS_CardinalityType, FS_Subset
<1>8. Cardinality(T) = Cardinality(S) + IF report[k] = e THEN 1 ELSE 0
  BY <1>2, <1>4, <1>5, <1>7, FS_AddElement
<1> QED BY <1>6, <1>7, <1>8 DEF S, T

LEMMA OneMore ==
  ASSUME NEW g \in Nat, NEW m \in Nat, NEW n \in Nat, NEW p \in Nat, NEW q \in Nat,
         g + m <= p, p <= q, n <= m + 1
  PROVE  g + n <= q + 1
OBVIOUS

(* The receipts keep an event from counting more often than one report says *)
(* that it happened.                                                        *)
LEMMA ChallengeCounts ==
  ASSUME now \in Times, NEW r \in Active, NEW x \in Account, NEW report \in Reports, NEW e \in Events,
         NEW g \in Nat, Reported(e, g), Covered(x.challenges[<<r, Current(r)[1]>>], e, g)
  PROVE  LET s == Challenge(r, x, report)
         IN  Reported(e, g + s.advanced[e]) /\ Covered(s.c, e, g + s.advanced[e])
<1> DEFINE period == Current(r)
           c == x.challenges[<<r, period[1]>>]
           P(s) == Reported(e, g + s.advanced[e]) /\ Covered(s.c, e, g + s.advanced[e])
           O(s, k) == s.occ[e] <= Cardinality(Seen(report, k, e))
           J == [k \in 0..Len(report) |-> {s \in ChallengeState : P(s) /\ O(s, k)}]
<1>0. report \in Seq(Events)
  BY ReportType
<1>1. r \in DOMAIN Rules /\ <<r, period[1]>> \in Keys
  BY CurrentFacts
<1>2. ChallengeStart(c) \in ChallengeState
  BY <1>1, ChallengeStartType
<1>3. Covered(c, e, g)
  OBVIOUS
<1> HIDE DEF c, period
<1>4. ChallengeStart(c) \in J[0]
  <2>1. P(ChallengeStart(c))
    <3>1. ChallengeStart(c).c = c /\ g + ChallengeStart(c).advanced[e] = g
      BY DEF ChallengeStart
    <3> QED BY <1>3, <3>1
  <2>2. O(ChallengeStart(c), 0)
    <3>1. Seen(report, 0, e) = {}
      BY DEF Seen
    <3>2. Cardinality(Seen(report, 0, e)) = 0 /\ ChallengeStart(c).occ[e] = 0
      BY <3>1, FS_EmptySet DEF ChallengeStart
    <3> QED BY <3>2
  <2> HIDE DEF P, O
  <2> QED BY <1>0, <1>2, <2>1, <2>2
<1>5. ASSUME NEW k \in 1..Len(report), NEW s \in ChallengeState \cap J[k - 1]
      PROVE  ChallengeStep(r, period, s, report[k]) \in J[k]
  <2> DEFINE f == report[k]
             t == ChallengeStep(r, period, s, f)
             before == Cardinality(Seen(report, k - 1, e))
             after == Cardinality(Seen(report, k, e))
  <2>1. f \in Events /\ s \in ChallengeState /\ P(s) /\ O(s, k - 1) /\ k \in 0..Len(report)
    BY <1>0
  <2>2. /\ after = before + (IF f = e THEN 1 ELSE 0) /\ before \in Nat /\ after \in Nat
        /\ after <= Occurrences(e, report) /\ Occurrences(e, report) \in Nat
    BY <1>0, SeenMore
  <2>3. t \in ChallengeState
    BY <1>1, <2>1, ChallengeCases
  <2>4. /\ s.occ \in [Events -> Nat] /\ s.advanced \in [Events -> Nat] /\ s.c.receipts \in [Events -> Nat]
        /\ t.occ \in [Events -> Nat] /\ t.advanced \in [Events -> Nat]
    BY <2>1, <2>3, ChallengeParts, CompletionParts
  <2>7. s.occ[e] <= before /\ s.occ[e] \in Nat
    BY <2>1, <2>4
  <2>8. t.occ[e] <= after => O(t, k)
    OBVIOUS
  <2>9. \/ t = s
        \/ /\ s.c.completed = 0 /\ t.occ = [s.occ EXCEPT ![f] = @ + 1]
           /\ Again(s, f, t) \/ Counts(r, s, f, t)
    <3>1. r \in DOMAIN Rules /\ f \in Events /\ s \in ChallengeState
      BY <1>1, <2>1
    <3> HIDE DEF f, P
    <3> QED BY <3>1, ChallengeCases
  <2> HIDE DEF before, after, O
  <2>5. P(t) /\ O(t, k)
    <3>1. CASE t = s
      <4>1. s.occ[e] <= after
        BY <2>2, <2>7
      <4> HIDE DEF P
      <4> QED BY <2>1, <2>8, <3>1, <4>1
    <3>2. CASE t # s /\ f # e
      <4>2. f.at # 0 /\ f \in Events
        BY <2>1, EventType
      <4> HIDE DEF t, f
      <4>1. /\ s.c.completed = 0
            /\ t.occ = [s.occ EXCEPT ![f] = @ + 1]
            /\ \/ t.c = s.c /\ t.advanced = s.advanced
               \/ /\ t.advanced \in {s.advanced, [s.advanced EXCEPT ![f] = @ + 1]}
                  /\ \/ /\ t.c.completed = 0
                        /\ t.c.receipts = [s.c.receipts EXCEPT ![f] = s.occ[f] + 1]
                     \/ t.c.completed = f.at
        BY <2>9, <3>2 DEF Again, Counts
      <4>3. t.advanced[e] = s.advanced[e] /\ t.occ[e] = s.occ[e]
        BY <2>4, <3>2, <4>1
      <4>4. \/ t.c = s.c
            \/ t.c.completed = 0 /\ s.c.completed = 0 /\ t.c.receipts[e] = s.c.receipts[e]
            \/ t.c.completed # 0
        BY <2>4, <3>2, <4>1, <4>2
      <4>5. P(t)
        BY <2>1, <4>3, <4>4 DEF Covered
      <4>6. O(t, k)
        BY <2>2, <2>7, <2>8, <4>3
      <4> QED BY <4>5, <4>6
    <3>3. CASE t # s /\ f = e
      <4>2. e.at # 0
        BY EventType
      <4> HIDE DEF t, f
      <4>1. /\ s.c.completed = 0
            /\ t.occ = [s.occ EXCEPT ![e] = @ + 1]
            /\ \/ t.c = s.c /\ t.advanced = s.advanced
               \/ /\ s.c.receipts[e] <= s.occ[e]
                  /\ t.advanced \in {s.advanced, [s.advanced EXCEPT ![e] = @ + 1]}
                  /\ \/ /\ t.c.completed = 0
                        /\ t.c.receipts = [s.c.receipts EXCEPT ![e] = s.occ[e] + 1]
                     \/ t.c.completed = e.at
        BY <2>9, <3>3 DEF Again, Counts
      <4>3. O(t, k)
        BY <2>2, <2>4, <2>7, <2>8, <3>3, <4>1
      <4>4. CASE t.c = s.c /\ t.advanced = s.advanced
        <5> HIDE DEF O
        <5> QED BY <2>1, <4>3, <4>4
      <4>5. CASE /\ s.c.receipts[e] <= s.occ[e]
                 /\ t.advanced \in {s.advanced, [s.advanced EXCEPT ![e] = @ + 1]}
                 /\ \/ /\ t.c.completed = 0
                       /\ t.c.receipts = [s.c.receipts EXCEPT ![e] = s.occ[e] + 1]
                    \/ t.c.completed = e.at
        <5>1. g + s.advanced[e] <= s.c.receipts[e]
          BY <2>1, <4>1 DEF Covered
        <5>2. t.advanced[e] <= s.advanced[e] + 1
          BY <2>4, <4>5
        <5>3. g + t.advanced[e] <= s.occ[e] + 1 /\ s.occ[e] + 1 <= Occurrences(e, report)
          <6>1. /\ s.c.receipts[e] <= s.occ[e] /\ s.c.receipts[e] \in Nat /\ s.occ[e] \in Nat
                /\ s.advanced[e] \in Nat /\ t.advanced[e] \in Nat
            BY <2>4, <4>5
          <6>2. s.occ[e] + 1 <= Occurrences(e, report)
            BY <2>2, <2>7, <3>3
          <6>3. g + t.advanced[e] <= s.occ[e] + 1
            BY <5>1, <5>2, <6>1, OneMore
          <6> QED BY <6>2, <6>3
        <5>4. Reported(e, s.occ[e] + 1) /\ Reported(e, g + t.advanced[e])
          BY <2>2, <2>4, <5>3 DEF Reported
        <5>5. Covered(t.c, e, g + t.advanced[e])
          BY <2>4, <4>2, <4>5, <5>3, <5>4 DEF Covered
        <5> QED BY <4>3, <5>4, <5>5
      <4> QED BY <4>1, <4>4, <4>5
    <3> QED BY <3>1, <3>2, <3>3
  <2> HIDE DEF P, O, t, f
  <2>6. t \in J[k]
    BY <2>1, <2>3, <2>5
  <2> QED BY <2>6 DEF t, f
<1> HIDE DEF P, O
<1>6. Challenge(r, x, report) \in J[Len(report)]
  <2> HIDE DEF J
  <2> QED BY <1>0, <1>4, <1>5, ChallengeEnd DEF c, period
<1>7. P(Challenge(r, x, report))
  BY <1>0, <1>6
<1> QED BY <1>7 DEF P

LEMMA SumOne ==
  ASSUME NEW f, NEW S, IsFiniteSet(S), NEW x \in S, f[x] \in Int, \A y \in S \ {x} : f[y] = 0
  PROVE  SumFunctionOnSet(f, S) = f[x]
<1> DEFINE G == {T \in SUBSET S : SumFunctionOnSet(f, T) = IF x \in T THEN f[x] ELSE 0}
<1>1. {} \in G
  BY SumEmpty
<1>2. ASSUME NEW T \in SUBSET S, NEW y \in S, T \in G, y \notin T
      PROVE  T \cup {y} \in G
  <2>1. IsFiniteSet(T) /\ f[y] \in Int /\ \A z \in T : f[z] \in Int
    BY FS_Subset
  <2>2. SumFunctionOnSet(f, T \cup {y}) = SumFunctionOnSet(f, T) + f[y]
    BY <1>2, <2>1, SumMore
  <2>3. CASE y = x
    BY <1>2, <2>2, <2>3
  <2>4. CASE y # x
    BY <1>2, <2>2, <2>4
  <2> QED BY <2>3, <2>4
<1>3. S \in G
  <2> HIDE DEF G
  <2> QED BY <1>1, <1>2, OverFinite
<1> QED BY <1>3

LEMMA SumNone ==
  ASSUME NEW f, NEW S, IsFiniteSet(S), \A y \in S : f[y] = 0
  PROVE  SumFunctionOnSet(f, S) = 0
<1>1. CASE S = {}
  BY <1>1, SumEmpty
<1>2. CASE S # {}
  BY <1>2, SumOne
<1> QED BY <1>1, <1>2

LEMMA AddThree ==
  ASSUME NEW p \in Int, NEW q \in Int, NEW r \in Int
  PROVE  (p + q) + r = p + (q + r)
OBVIOUS

LEMMA RewardsNat == \A S \in SUBSET Keys : Rewards(S) \in Nat
<1> TAKE S \in SUBSET Keys
<1> DEFINE g == [j \in S |-> Rules[j[1]].reward]
<1>1. IsFiniteSet(S) /\ \A j \in S : g[j] \in Nat
  BY KeysFinite, FS_Subset, DataAssumption
<1>2. Rewards(S) = SumFunctionOnSet(g, S)
  BY DEF Rewards
<1> HIDE DEF g
<1> QED BY <1>1, <1>2, SumNat

LEMMA RewardsMore ==
  ASSUME NEW S \in SUBSET Keys, NEW k \in Keys, k \notin S
  PROVE  /\ Rewards(S) \in Nat /\ Rules[k[1]].reward \in Nat
         /\ Rewards(S \cup {k}) = Rewards(S) + Rules[k[1]].reward
<1> DEFINE f == [j \in S \cup {k} |-> Rules[j[1]].reward]
           g == [j \in S |-> Rules[j[1]].reward]
<1>1. IsFiniteSet(S) /\ \A j \in Keys : Rules[j[1]].reward \in Nat
  BY KeysFinite, FS_Subset, DataAssumption
<1>2. f[k] = Rules[k[1]].reward /\ \A j \in S : f[j] = g[j] /\ f[j] \in Int /\ g[j] \in Nat
  BY <1>1
<1>3. Rewards(S) = SumFunctionOnSet(g, S) /\ Rewards(S \cup {k}) = SumFunctionOnSet(f, S \cup {k})
  BY DEF Rewards
<1> HIDE DEF f, g
<1>4. SumFunctionOnSet(g, S) \in Nat
  BY <1>1, <1>2, SumNat
<1>5. SumFunctionOnSet(f, S \cup {k}) = SumFunctionOnSet(g, S) + f[k]
  BY <1>1, <1>2, SumGrow
<1> QED BY <1>1, <1>2, <1>3, <1>4, <1>5

(* Each period that is completed pays its reward, and no other does.        *)
LEMMA AwardsPay ==
  ASSUME now \in Times, NEW x \in Account, NEW report \in Seq(Events)
  PROVE  LET s == AwardChallenges(x, report)
         IN  Rewards(Completed(s.account.challenges)) = Rewards(Completed(x.challenges)) + s.total
<1> DEFINE s == AwardChallenges(x, report)
           key(r) == <<r, Current(r)[1]>>
           run(r) == Challenge(r, x, report)
           credit == [r \in Active |-> run(r).credit]
           done == Completed(x.challenges)
           new(r) == x.challenges[key(r)].completed = 0 /\ run(r).c.completed # 0
           More(T) == {key(r) : r \in {q \in T : new(q)}}
           G == {T \in SUBSET Active : Rewards(done \cup More(T)) = Rewards(done) + SumFunctionOnSet(credit, T)}
<1>1. /\ IsFiniteSet(Active) /\ s.total = SumFunctionOnSet(credit, Active)
      /\ \A r \in Active : s.account.challenges[key(r)] = run(r).c
      /\ \A k \in Keys \ CurrentKeys : s.account.challenges[k] = x.challenges[k]
  BY AwardType
<1>2. \A r \in Active : /\ key(r) \in Keys /\ r \in DOMAIN Rules /\ Rules[r].reward \in Nat
                        /\ key(r)[1] = r
  BY CurrentFacts, DataAssumption
<1>3. \A r \in Active : /\ credit[r] = IF new(r) THEN Rules[r].reward ELSE 0
                        /\ x.challenges[key(r)].completed # 0 => run(r).c = x.challenges[key(r)]
  BY ChallengePays
<1>4. done \subseteq Keys
  BY DEF Completed
<1> HIDE DEF key, run, credit, new
<1>5. {} \in G
  <2>1. More({}) = {} /\ done \cup {} = done
    OBVIOUS
  <2>2. Rewards(done) \in Nat
    BY <1>4, RewardsNat
  <2>3. SumFunctionOnSet(credit, {}) = 0
    BY SumEmpty
  <2>4. done \cup More({}) = done
    BY <2>1
  <2> DEFINE S == done \cup More({})
  <2>5. S = done
    BY <2>4
  <2> HIDE DEF S, done
  <2>6. Rewards(S) = Rewards(done) + SumFunctionOnSet(credit, {})
    BY <2>2, <2>3, <2>5
  <2> QED BY <2>6 DEF S
<1>6. ASSUME NEW T \in SUBSET Active, NEW r \in Active, T \in G, r \notin T
      PROVE  T \cup {r} \in G
  <2> DEFINE S == done \cup More(T)
  <2>1. IsFiniteSet(T) /\ \A q \in Active : credit[q] \in Int
    BY <1>1, <1>2, <1>3, FS_Subset
  <2>2. SumFunctionOnSet(credit, T \cup {r}) = SumFunctionOnSet(credit, T) + credit[r]
    BY <1>6, <2>1, SumMore
  <2>3. SumFunctionOnSet(credit, T) \in Int
    BY <2>1, SumLast
  <2>4. S \in SUBSET Keys /\ Rewards(S) = Rewards(done) + SumFunctionOnSet(credit, T)
    BY <1>2, <1>4, <1>6
  <2>5. done \cup More(T \cup {r}) = IF new(r) THEN S \cup {key(r)} ELSE S
    OBVIOUS
  <2>6. new(r) => key(r) \notin S
    <3> SUFFICES ASSUME new(r) PROVE key(r) \notin S
      OBVIOUS
    <3>1. key(r) \notin done
      BY DEF new, Completed
    <3>2. key(r) \notin More(T)
      BY <1>2, <1>6
    <3> QED BY <3>1, <3>2
  <2> DEFINE S2 == done \cup More(T \cup {r})
             base == Rewards(done)
             sum == SumFunctionOnSet(credit, T)
  <2>8. S2 = (IF new(r) THEN S \cup {key(r)} ELSE S) /\ Rewards(S) = base + sum
        /\ S \in SUBSET Keys /\ sum \in Int
    BY <2>3, <2>4, <2>5
  <2>9. base \in Nat
    BY <1>4, RewardsNat
  <2> HIDE DEF S, S2, done, More, base, sum
  <2>7. Rewards(S2) = base + (sum + credit[r])
    <3>2. CASE new(r)
      <4>1. Rewards(S \cup {key(r)}) = Rewards(S) + Rules[key(r)[1]].reward
        BY <1>2, <2>8, <2>6, <3>2, RewardsMore
      <4>2. Rules[key(r)[1]].reward = credit[r] /\ credit[r] \in Nat
        BY <1>2, <1>3, <3>2
      <4>3. Rewards(S2) = Rewards(S) + credit[r]
        BY <2>8, <3>2, <4>1, <4>2
      <4>4. (base + sum) + credit[r] = base + (sum + credit[r])
        BY <2>8, <2>9, <4>2, AddThree
      <4> QED BY <2>8, <4>3, <4>4
    <3>3. CASE ~new(r)
      <4>1. credit[r] = 0 /\ S2 = S
        BY <1>3, <2>8, <3>3
      <4>2. Rewards(S2) = base + sum
        BY <2>8, <4>1
      <4>3. (base + sum) + credit[r] = base + (sum + credit[r]) /\ base + sum = (base + sum) + credit[r]
        BY <2>8, <2>9, <4>1, AddThree
      <4> QED BY <4>2, <4>3
    <3> QED BY <3>2, <3>3
  <2>10. Rewards(done \cup More(T \cup {r})) = Rewards(done) + SumFunctionOnSet(credit, T \cup {r})
    BY <2>2, <2>7 DEF S2, base, sum
  <2> QED BY <2>10
<1>7. Active \in G
  <2> HIDE DEF G
  <2> QED BY <1>1, <1>5, <1>6, OverFinite
<1>8. Completed(s.account.challenges) = done \cup More(Active)
  <2>1. ASSUME NEW k \in Keys
        PROVE  s.account.challenges[k].completed # 0 <=> (x.challenges[k].completed # 0 \/ k \in More(Active))
    <3>1. CASE k \in CurrentKeys
      <4>1. PICK r \in Active : k = key(r)
        BY <3>1 DEF CurrentKeys, key
      <4>2. s.account.challenges[k] = run(r).c
        BY <1>1, <4>1
      <4>3. k \in More(Active) <=> new(r)
        BY <1>2, <4>1
      <4> HIDE DEF s, More
      <4> QED BY <1>3, <4>1, <4>2, <4>3 DEF new
    <3>2. CASE k \notin CurrentKeys
      <4>1. k \notin More(Active)
        BY <3>2 DEF CurrentKeys, key
      <4> HIDE DEF s, More
      <4> QED BY <1>1, <3>2, <4>1
    <3> QED BY <3>1, <3>2
  <2>2. More(Active) \subseteq Keys
    BY <1>2
  <2> HIDE DEF s, More
  <2> QED BY <2>1, <2>2 DEF Completed
<1>9. Rewards(done \cup More(Active)) = Rewards(done) + SumFunctionOnSet(credit, Active)
  BY <1>7
<1> HIDE DEF done, More, s
<1> QED BY <1>1, <1>8, <1>9 DEF done, s

(* No event counts for a challenge more often than a report says.           *)
LEMMA AwardsCount ==
  ASSUME TypeOK, NEW a \in Accounts, Sound(a), NEW report \in Reports
  PROVE  LET s == AwardChallenges(Loaded(a), report)
         IN  /\ ReplaysSound(s.account.challenges, [e \in Events |-> granted[a][e] + s.advanced[e]])
             /\ \A e \in Events : e.kind # "challenge" => s.advanced[e] = 0
<1> DEFINE x == Loaded(a)
           s == AwardChallenges(x, report)
           key(r) == <<r, Current(r)[1]>>
           run(r) == Challenge(r, x, report)
           G == granted[a]
           adv(e) == [r \in Active |-> run(r).advanced[e]]
<1>0. now \in Times /\ x \in Account /\ report \in Seq(Events) /\ G \in [Events -> Nat]
  BY LoadedType, ReportType DEF TypeOK
<1>1. /\ IsFiniteSet(Active)
      /\ \A e \in Events : s.advanced[e] = SumFunctionOnSet(adv(e), Active)
      /\ \A r \in Active : s.account.challenges[key(r)] = run(r).c
      /\ \A k \in Keys \ CurrentKeys : s.account.challenges[k] = x.challenges[k]
  BY <1>0, AwardType
<1>2. \A r \in Active : /\ key(r) \in Keys /\ r \in DOMAIN Rules /\ run(r).advanced \in [Events -> Nat]
                        /\ Current(r) \in Period(r, now)
                        /\ \A t \in Times : t \in Current(r)[1]..(Current(r)[2] - 1) => Period(r, t) = {Current(r)}
  BY <1>0, CurrentFacts, ChallengeType, ChallengeParts
<1>3. \A r \in Active : \A e \in Events : ~Accepted(r, Current(r), e) => run(r).advanced[e] = 0
  BY <1>0, ChallengePays
<1>4. ReplaysSound(x.challenges, G)
  BY DEF Sound
<1> HIDE DEF key, run, G, s, x
<1>5. ASSUME NEW e \in Events, \A r \in Active : ~Accepted(r, Current(r), e)
      PROVE  s.advanced[e] = 0
  <2>1. \A r \in Active : adv(e)[r] = 0
    BY <1>3, <1>5
  <2> HIDE DEF adv
  <2> QED BY <1>1, <2>1, SumNone
<1>6. ASSUME NEW e \in Events, e.kind = "challenge"
      PROVE  /\ Reported(e, G[e] + s.advanced[e])
             /\ \A r \in DOMAIN Rules : e.rule = r => \A P \in Period(r, e.at) :
                  Covered(s.account.challenges[<<r, P[1]>>], e, G[e] + s.advanced[e])
  <2>0. /\ Reported(e, G[e]) /\ G[e] \in Nat /\ e.at \in Times
        /\ \A r \in DOMAIN Rules : e.rule = r => \A P \in Period(r, e.at) : Covered(x.challenges[<<r, P[1]>>], e, G[e])
    BY <1>0, <1>4, <1>6, EventType DEF ReplaysSound
  <2>1. CASE \E r \in Active : Accepted(r, Current(r), e)
    <3>1. PICK r \in Active : Accepted(r, Current(r), e)
      BY <2>1
    <3>2. e.rule = r /\ e.at \in Current(r)[1]..(Current(r)[2] - 1)
      BY <3>1 DEF Accepted
    <3>3. Period(r, e.at) = {Current(r)} /\ r \in DOMAIN Rules
      BY <1>2, <2>0, <3>2
    <3>4. Covered(x.challenges[key(r)], e, G[e])
      BY <2>0, <3>2, <3>3 DEF key
    <3>5. Reported(e, G[e] + run(r).advanced[e]) /\ Covered(run(r).c, e, G[e] + run(r).advanced[e])
      BY <1>0, <2>0, <3>4, ChallengeCounts DEF key, run
    <3>6. \A q \in Active \ {r} : adv(e)[q] = 0
      <4>1. \A q \in Active \ {r} : ~Accepted(q, Current(q), e)
        BY <3>2 DEF Accepted
      <4> QED BY <1>3, <4>1
    <3>7. adv(e)[r] = run(r).advanced[e] /\ adv(e)[r] \in Int
      BY <1>2
    <3> HIDE DEF adv
    <3>8. s.advanced[e] = run(r).advanced[e]
      BY <1>1, <3>6, <3>7, SumOne
    <3>9. s.account.challenges[<<r, Current(r)[1]>>] = run(r).c
      BY <1>1 DEF key
    <3> QED BY <3>2, <3>3, <3>5, <3>8, <3>9
  <2>2. CASE \A r \in Active : ~Accepted(r, Current(r), e)
    <3>1. s.advanced[e] = 0 /\ G[e] + s.advanced[e] = G[e]
      BY <1>5, <2>0, <2>2
    <3>2. ASSUME NEW r \in DOMAIN Rules, e.rule = r, NEW P \in Period(r, e.at)
          PROVE  Covered(s.account.challenges[<<r, P[1]>>], e, G[e])
      <4> DEFINE k == <<r, P[1]>>
      <4>1. /\ k \in Keys /\ P[1] \in Nat /\ P[2] \in Nat /\ P[1] <= e.at /\ e.at < P[2]
            /\ Period(r, e.at) = {P} /\ \A u \in Times : u \in P[1]..(P[2] - 1) => Period(r, u) = {P}
        BY <2>0, PeriodFacts
      <4>2. Covered(x.challenges[k], e, G[e])
        BY <2>0, <3>2
      <4>3. CASE k \in CurrentKeys
        <5>1. r \in Active /\ P[1] = Current(r)[1]
          BY <4>3 DEF CurrentKeys
        <5>2. P[1] \in Times
          BY <2>0, <4>1, EconomyAssumption DEF Times
        <5>3. /\ Current(r)[1] \in Nat /\ Current(r)[2] \in Nat /\ Current(r)[1] <= now /\ now < Current(r)[2]
              /\ now \in Nat
          <6>1. Current(r) \in Period(r, now) /\ r \in DOMAIN Rules /\ now \in Times
            BY <1>0, <1>2, <5>1
          <6>2. now \in Nat
            BY <6>1 DEF Times
          <6> HIDE DEF k
          <6> QED BY <6>1, <6>2, PeriodFacts
        <5>4. P[1] \in P[1]..(P[2] - 1) /\ P[1] \in Current(r)[1]..(Current(r)[2] - 1)
          BY <2>0, <4>1, <5>1, <5>3 DEF Times
        <5>5. P = Current(r)
          <6>1. Period(r, P[1]) = {P} /\ Period(r, P[1]) = {Current(r)}
            BY <1>2, <4>1, <5>1, <5>2, <5>4
          <6> QED BY <6>1
        <5>6. e.at \in Current(r)[1]..(Current(r)[2] - 1)
          BY <2>0, <4>1, <5>5 DEF Times
        <5>7. x.challenges[k] = x.challenges[key(r)] /\ s.account.challenges[k] = run(r).c
          BY <1>1, <5>1, <5>5 DEF key
        <5>8. Reported(e, G[e] + run(r).advanced[e]) /\ Covered(run(r).c, e, G[e] + run(r).advanced[e])
          BY <1>0, <2>0, <4>2, <5>1, <5>7, ChallengeCounts DEF key, run
        <5>9. run(r).advanced[e] = 0
          BY <1>3, <2>2, <5>1
        <5> QED BY <2>0, <5>7, <5>8, <5>9
      <4>4. CASE k \notin CurrentKeys
        BY <1>1, <4>1, <4>2, <4>4
      <4> QED BY <4>3, <4>4
    <3> QED BY <2>0, <3>1, <3>2
  <2> QED BY <2>1, <2>2
<1>7. ASSUME NEW e \in Events, e.kind # "challenge" PROVE s.advanced[e] = 0
  BY <1>5, <1>7 DEF Accepted
<1>8. ReplaysSound(s.account.challenges, [e \in Events |-> G[e] + s.advanced[e]])
  BY <1>6 DEF ReplaysSound
<1> QED BY <1>7, <1>8 DEF s, x, G


-----------------------------------------------------------------------------
(* purchase keeps the account sound: what is charged for an item lies       *)
(* between its least and its highest price.                                 *)
LEMMA Extremes ==
  ASSUME NEW S \in SUBSET Nat, IsFiniteSet(S), S # {}
  PROVE  /\ Min(S) \in S /\ \A y \in S : Min(S) <= y
         /\ Max(S) \in S /\ \A y \in S : y <= Max(S)
<1> DEFINE Lower(T) == T = {} \/ \E m \in T : \A y \in T : m <= y
           Upper(T) == T = {} \/ \E m \in T : \A y \in T : y <= m
           G == {T \in SUBSET S : Lower(T) /\ Upper(T)}
<1>1. {} \in G
  OBVIOUS
<1>2. ASSUME NEW T \in SUBSET S, NEW x \in S, T \in G, x \notin T
      PROVE  T \cup {x} \in G
  <2>1. Lower(T) /\ Upper(T) /\ x \in Nat /\ \A y \in T : y \in Nat
    BY <1>2
  <2>2. Lower(T \cup {x})
    <3>1. CASE T = {}
      BY <2>1, <3>1
    <3>2. CASE T # {}
      <4>1. PICK m \in T : \A y \in T : m <= y
        BY <2>1, <3>2
      <4>2. CASE m <= x
        BY <4>1, <4>2
      <4>3. CASE ~(m <= x)
        <5>1. \A y \in T \cup {x} : x <= y
          BY <2>1, <4>1, <4>3
        <5> QED BY <5>1
      <4> QED BY <4>2, <4>3
    <3> QED BY <3>1, <3>2
  <2>3. Upper(T \cup {x})
    <3>1. CASE T = {}
      BY <2>1, <3>1
    <3>2. CASE T # {}
      <4>1. PICK m \in T : \A y \in T : y <= m
        BY <2>1, <3>2
      <4>2. CASE x <= m
        BY <4>1, <4>2
      <4>3. CASE ~(x <= m)
        <5>1. \A y \in T \cup {x} : y <= x
          BY <2>1, <4>1, <4>3
        <5> QED BY <5>1
      <4> QED BY <4>2, <4>3
    <3> QED BY <3>1, <3>2
  <2> HIDE DEF Lower, Upper
  <2> QED BY <2>2, <2>3
<1>3. S \in G
  <2> HIDE DEF G
  <2> QED BY <1>1, <1>2, OverFinite
<1>4. (\E m \in S : \A y \in S : m <= y) /\ (\E m \in S : \A y \in S : m >= y)
  BY <1>3
<1>5. Min(S) \in S /\ \A y \in S : Min(S) <= y
  BY <1>4 DEF Min
<1>6. Max(S) \in S /\ \A y \in S : Max(S) >= y
  BY <1>4 DEF Max
<1> QED BY <1>5, <1>6

(* Every item is sold by itself. *)
LEMMA Priced ==
  ASSUME NEW i \in Items
  PROVE  /\ Min(PricesOf(i)) \in Nat /\ Max(PricesOf(i)) \in Nat
         /\ \A p \in PricesOf(i) : p \in Nat /\ Min(PricesOf(i)) <= p /\ p <= Max(PricesOf(i))
<1> DEFINE single == {s \in DOMAIN Catalog : Catalog[s].parts = {} /\ i \in Catalog[s].items}
<1>1. PricesOf(i) \in SUBSET Nat
  BY DataAssumption DEF PricesOf
<1>2. IsFiniteSet(PricesOf(i))
  <2>1. IsFiniteSet(single)
    BY DataAssumption, FS_Subset
  <2>2. PricesOf(i) = {Catalog[k].price : k \in single}
    BY DEF PricesOf
  <2> DEFINE f == [k \in single |-> Catalog[k].price]
             image == {Catalog[k].price : k \in single}
  <2>3. f \in Surjection(single, image)
    BY DEF Surjection
  <2>4. PricesOf(i) = image
    BY <2>2
  <2> HIDE DEF single, f, image
  <2> QED BY <2>1, <2>3, <2>4, FS_Surjection
<1>3. PricesOf(i) # {}
  <2>1. PICK k \in DOMAIN Catalog : i \in Catalog[k].items
    BY DEF Items
  <2>2. \E p \in DOMAIN Catalog : Catalog[p].parts = {} /\ i \in Catalog[p].items
    BY <2>1, DataAssumption
  <2> QED BY <2>2 DEF PricesOf
<1> QED BY <1>1, <1>2, <1>3, Extremes

LEMMA BetweenMore ==
  ASSUME NEW l \in Int, NEW d \in Int, NEW m \in Int, l <= d, d <= m,
         NEW p \in Nat, NEW x \in Nat, NEW y \in Nat, x <= p, p <= y
  PROVE  l + x <= d + p /\ d + p <= m + y
OBVIOUS

LEMMA PaidMore ==
  ASSUME NEW a \in Accounts, NEW items \in SUBSET Items, NEW debit \in Nat, PaidSound(a, items, debit),
         NEW k \in DOMAIN Catalog, Catalog[k].parts = {}, ~(Catalog[k].items \subseteq items)
  PROVE  PaidSound(a, items \cup Catalog[k].items, debit + Catalog[k].price)
<1>1. PICK i \in Items : Catalog[k].items = {i}
  BY DataAssumption
<1> DEFINE S == items \ Wallet[a].items
           T == (items \cup {i}) \ Wallet[a].items
           low == [j \in T |-> Min(PricesOf(j))]
           lowS == [j \in S |-> Min(PricesOf(j))]
           high == [j \in T |-> Max(PricesOf(j))]
           highS == [j \in S |-> Max(PricesOf(j))]
<1>2. /\ Wallet[a].items \subseteq items /\ IsFiniteSet(S) /\ Least(S) <= debit /\ debit <= Most(S)
      /\ i \notin items
  BY <1>1 DEF PaidSound
<1>3. T = S \cup {i} /\ i \notin S
  BY <1>2
<1>4. \A j \in T : low[j] \in Nat /\ high[j] \in Nat
  BY Priced
<1>5. \A j \in S : low[j] = lowS[j] /\ high[j] = highS[j]
  BY <1>3
<1>6. /\ Least(S) = SumFunctionOnSet(lowS, S) /\ Least(T) = SumFunctionOnSet(low, T)
      /\ Most(S) = SumFunctionOnSet(highS, S) /\ Most(T) = SumFunctionOnSet(high, T)
  BY DEF Least, Most
<1>7. Catalog[k].price \in Nat /\ low[i] <= Catalog[k].price /\ Catalog[k].price <= high[i]
  <2>1. Catalog[k].price \in PricesOf(i)
    BY <1>1 DEF PricesOf
  <2> QED BY <1>3, <2>1, Priced
<1>8. IsFiniteSet(T)
  BY <1>2, <1>3, FS_AddElement
<1> HIDE DEF S, T, low, lowS, high, highS
<1>9. Least(T) = Least(S) + low[i] /\ Most(T) = Most(S) + high[i]
  <2>1. i \in T /\ \A j \in S : j \in T
    BY <1>3
  <2>2. SumFunctionOnSet(low, S \cup {i}) = SumFunctionOnSet(lowS, S) + low[i]
    BY <1>2, <1>3, <1>4, <1>5, <2>1, SumGrow
  <2>3. SumFunctionOnSet(high, S \cup {i}) = SumFunctionOnSet(highS, S) + high[i]
    BY <1>2, <1>3, <1>4, <1>5, <2>1, SumGrow
  <2> QED BY <1>3, <1>6, <2>2, <2>3
<1>10. Least(S) \in Int /\ Most(S) \in Int /\ low[i] \in Nat /\ high[i] \in Nat
  <2>1. i \in T /\ \A j \in S : lowS[j] \in Int /\ highS[j] \in Int
    BY <1>3, <1>4, <1>5
  <2> QED BY <1>2, <1>4, <1>6, <2>1, SumLast
<1>11. Least(T) <= debit + Catalog[k].price /\ debit + Catalog[k].price <= Most(T)
  BY <1>2, <1>7, <1>9, <1>10, BetweenMore
<1>12. Wallet[a].items \subseteq items \cup {i} /\ T = (items \cup Catalog[k].items) \ Wallet[a].items
  BY <1>1, <1>2 DEF T
<1> QED BY <1>1, <1>8, <1>11, <1>12 DEF PaidSound


(* A bundle adds the items of its unowned parts, each at the part's price. *)
LEMMA BundlePaid ==
  ASSUME NEW a \in Accounts, NEW items \in SUBSET Items, NEW debit \in Nat, PaidSound(a, items, debit),
         NEW k \in DOMAIN Catalog, Catalog[k].parts # {}
  PROVE  LET price == [p \in Catalog[k].parts |-> Catalog[p].price]
             U == {p \in Catalog[k].parts : ~(Catalog[p].items \subseteq items)}
         IN  PaidSound(a, items \cup Catalog[k].items, debit + SumFunctionOnSet(price, U))
<1> DEFINE parts == Catalog[k].parts
           price == [p \in parts |-> Catalog[p].price]
           U == {p \in parts : ~(Catalog[p].items \subseteq items)}
           With(T) == items \cup UNION {Catalog[p].items : p \in T}
           sum(T) == SumFunctionOnSet(price, T)
           G == {T \in SUBSET U : sum(T) \in Nat /\ PaidSound(a, With(T), debit + sum(T))}
<1>1. /\ parts \subseteq DOMAIN Catalog /\ IsFiniteSet(parts)
      /\ Catalog[k].items = UNION {Catalog[p].items : p \in parts}
      /\ \A p \in parts : /\ Catalog[p].parts = {}
                          /\ \A q \in parts \ {p} : Catalog[p].items \cap Catalog[q].items = {}
  BY DataAssumption
<1>2. \A p \in parts : price[p] \in Nat /\ price[p] = Catalog[p].price /\ Catalog[p].items \subseteq Items
  BY <1>1, DataAssumption, SkuItems
<1>3. IsFiniteSet(U) /\ U \subseteq parts
  BY <1>1, FS_Subset
<1> HIDE DEF price
<1>4. {} \in G
  <2>1. With({}) = items
    OBVIOUS
  <2>2. sum({}) = 0 /\ debit + 0 = debit
    BY SumEmpty
  <2> HIDE DEF With, sum
  <2> QED BY <2>1, <2>2
<1>5. ASSUME NEW T \in SUBSET U, NEW p \in U, T \in G, p \notin T
      PROVE  T \cup {p} \in G
  <2>1. /\ sum(T) \in Nat /\ PaidSound(a, With(T), debit + sum(T)) /\ With(T) \subseteq Items
        /\ p \in DOMAIN Catalog /\ Catalog[p].parts = {} /\ debit + sum(T) \in Nat
    BY <1>1, <1>2, <1>5
  <2>2. ~(Catalog[p].items \subseteq With(T))
    <3>1. PICK i \in Catalog[p].items : i \notin items
      OBVIOUS
    <3>2. \A q \in T : i \notin Catalog[q].items
      BY <1>1, <1>5, <3>1
    <3> QED BY <3>1, <3>2
  <2>3. PaidSound(a, With(T) \cup Catalog[p].items, (debit + sum(T)) + Catalog[p].price)
    <3> HIDE DEF With, sum
    <3> QED BY <2>1, <2>2, PaidMore
  <2>4. With(T \cup {p}) = With(T) \cup Catalog[p].items
    OBVIOUS
  <2>5. sum(T \cup {p}) = sum(T) + price[p]
    <3>1. IsFiniteSet(T) /\ (\A q \in T : price[q] \in Int) /\ price[p] \in Int
      BY <1>2, <1>3, FS_Subset
    <3> QED BY <1>5, <3>1, SumMore
  <2>6. sum(T) + price[p] \in Nat /\ (debit + sum(T)) + price[p] = debit + (sum(T) + price[p])
    <3>1. price[p] \in Nat
      BY <1>2
    <3> HIDE DEF sum
    <3> QED BY <2>1, <3>1, AddThree
  <2>7. price[p] = Catalog[p].price
    BY <1>2
  <2> HIDE DEF With, sum
  <2>8. PaidSound(a, With(T \cup {p}), debit + sum(T \cup {p}))
    BY <2>3, <2>4, <2>5, <2>6, <2>7
  <2> QED BY <2>5, <2>6, <2>8
<1>6. U \in G
  <2> HIDE DEF G, U
  <2> QED BY <1>3, <1>4, <1>5, OverFinite
<1>7. With(U) = items \cup Catalog[k].items
  BY <1>1
<1> HIDE DEF With
<1> QED BY <1>6, <1>7 DEF price

LEMMA PurchaseCases ==
  ASSUME NEW s \in PurchaseState, NEW k \in DOMAIN Catalog
  PROVE  LET t == PurchaseStep(s, k)
         IN  \/ t.account = s.account /\ t.total = s.total
             \/ /\ t.total = s.total + SkuPrice(s.account, k)
                /\ t.account.balance = s.account.balance - SkuPrice(s.account, k)
                /\ t.account.items = s.account.items \cup Catalog[k].items
                /\ t.account.races = s.account.races /\ t.account.online = s.account.online
                /\ t.account.refresh = s.account.refresh
                /\ t.account.challenges = s.account.challenges
<1> DEFINE price == SkuPrice(s.account, k)
           y == [s.account EXCEPT !.balance = @ - price, !.items = @ \cup Catalog[k].items]
           t == PurchaseStep(s, k)
<1>1. s = [ok |-> s.ok, total |-> s.total, account |-> s.account] /\ s.account \in Account
  BY DEF PurchaseState
<1>2. t = IF ~s.ok \/ price > s.account.balance THEN [s EXCEPT !.ok = FALSE]
          ELSE [ok |-> TRUE, total |-> s.total + price, account |-> y]
  BY DEF PurchaseStep
<1> HIDE DEF price
<1>3. /\ y.balance = s.account.balance - price /\ y.items = s.account.items \cup Catalog[k].items
      /\ y.races = s.account.races /\ y.online = s.account.online
      /\ y.refresh = s.account.refresh /\ y.challenges = s.account.challenges
  BY <1>1 DEF Account
<1> HIDE DEF y, t
<1>4. CASE ~s.ok \/ price > s.account.balance
  <2>1. t.account = s.account /\ t.total = s.total
    BY <1>1, <1>2, <1>4
  <2> QED BY <2>1 DEF t
<1>5. CASE ~(~s.ok \/ price > s.account.balance)
  <2>1. t.account = y /\ t.total = s.total + price
    BY <1>2, <1>5
  <2> QED BY <1>3, <2>1 DEF t, price
<1> QED BY <1>4, <1>5

(* What is charged and returned is what the items of the SKU may cost.      *)
LEMMA SkuPaid ==
  ASSUME NEW a \in Accounts, NEW x \in Account, NEW debit \in Nat, PaidSound(a, x.items, debit),
         NEW k \in DOMAIN Catalog
  PROVE  PaidSound(a, x.items \cup Catalog[k].items, debit + SkuPrice(x, k))
<1>1. x.items \in SUBSET Items
  BY AccountParts
<1>2. CASE OwnsSKU(x, k)
  <2>1. SkuPrice(x, k) = 0 /\ debit + 0 = debit
    BY <1>2 DEF SkuPrice
  <2>2. x.items \cup Catalog[k].items = x.items
    BY <1>2 DEF OwnsSKU
  <2> QED BY <2>1, <2>2
<1>3. CASE ~OwnsSKU(x, k) /\ Catalog[k].parts = {}
  <2>1. SkuPrice(x, k) = Catalog[k].price
    BY <1>3 DEF SkuPrice
  <2> QED BY <1>1, <1>3, <2>1, PaidMore DEF OwnsSKU
<1>4. CASE ~OwnsSKU(x, k) /\ Catalog[k].parts # {}
  <2>1. SkuPrice(x, k) = SumFunctionOnSet([p \in Catalog[k].parts |-> Catalog[p].price],
                                          {p \in Catalog[k].parts : ~(Catalog[p].items \subseteq x.items)})
    BY <1>4 DEF SkuPrice, OwnsSKU
  <2> QED BY <1>1, <1>4, <2>1, BundlePaid
<1> QED BY <1>2, <1>3, <1>4

LEMMA MoveThree ==
  ASSUME NEW b \in Nat, NEW t \in Nat, NEW p \in Nat, NEW m, b + t = m
  PROVE  (b - p) + (t + p) = m
OBVIOUS

LEMMA PurchaseSound ==
  ASSUME TypeOK, NEW a \in Accounts, NEW skus \in Seq(DOMAIN Catalog), NEW debit \in Nat,
         PaidSound(a, Loaded(a).items, debit)
  PROVE  LET s == Purchased(a, skus)
             x == Loaded(a)
         IN  /\ s.account.balance + s.total = x.balance
             /\ PaidSound(a, s.account.items, debit + s.total)
             /\ s.account.races = x.races /\ s.account.online = x.online
             /\ s.account.refresh = x.refresh /\ s.account.challenges = x.challenges
<1> DEFINE x == Loaded(a)
           P(s) == /\ s.account.balance + s.total = x.balance
                   /\ PaidSound(a, s.account.items, debit + s.total)
                   /\ s.account.races = x.races /\ s.account.online = x.online
                   /\ s.account.refresh = x.refresh /\ s.account.challenges = x.challenges
           J == [k \in 0..Len(skus) |-> {s \in PurchaseState : P(s)}]
<1>1. x \in Account /\ x.balance \in Nat
  BY LoadedType, AccountParts
<1>2. PurchaseStart(a) \in J[0]
  <2>1. PurchaseStart(a) \in PurchaseState
    BY <1>1 DEF PurchaseStart, PurchaseState
  <2>2. /\ PurchaseStart(a).account = x /\ PurchaseStart(a).total = 0
        /\ x.balance + 0 = x.balance /\ debit + 0 = debit
    BY <1>1 DEF PurchaseStart
  <2>3. P(PurchaseStart(a))
    <3> HIDE DEF x
    <3>1. PaidSound(a, x.items, debit)
      BY DEF x
    <3> QED BY <2>2, <3>1
  <2> HIDE DEF P
  <2> QED BY <2>1, <2>3
<1>3. ASSUME NEW k \in 1..Len(skus), NEW s \in PurchaseState \cap J[k - 1]
      PROVE  PurchaseStep(s, skus[k]) \in J[k]
  <2> DEFINE t == PurchaseStep(s, skus[k])
             price == SkuPrice(s.account, skus[k])
  <2>1. /\ skus[k] \in DOMAIN Catalog /\ k \in 0..Len(skus) /\ k - 1 \in 0..Len(skus)
        /\ P(s) /\ s \in PurchaseState
    <3> HIDE DEF P
    <3> QED OBVIOUS
  <2>2. t \in PurchaseState
    BY <2>1, PurchaseType
  <2>3. /\ s.total \in Nat /\ s.account \in Account /\ s.account.balance \in Nat /\ price \in Nat
        /\ debit + s.total \in Nat
    BY <2>1, SkuType, AccountParts DEF PurchaseState
  <2>4. PaidSound(a, s.account.items \cup Catalog[skus[k]].items, (debit + s.total) + price)
    BY <2>1, <2>3, SkuPaid
  <2>5. (debit + s.total) + price = debit + (s.total + price)
    BY <2>3, AddThree
  <2>6. (s.account.balance - price) + (s.total + price) = x.balance
    BY <2>1, <2>3, MoveThree
  <2>7. \/ t.account = s.account /\ t.total = s.total
        \/ /\ t.total = s.total + price
           /\ t.account.balance = s.account.balance - price
           /\ t.account.items = s.account.items \cup Catalog[skus[k]].items
           /\ t.account.races = s.account.races /\ t.account.online = s.account.online
           /\ t.account.refresh = s.account.refresh
           /\ t.account.challenges = s.account.challenges
    BY <2>1, PurchaseCases
  <2> HIDE DEF t, price, x
  <2>8. P(t)
    <3>1. CASE t.account = s.account /\ t.total = s.total
      BY <2>1, <3>1
    <3>2. CASE ~(t.account = s.account /\ t.total = s.total)
      BY <2>1, <2>4, <2>5, <2>6, <2>7, <3>2
    <3> QED BY <3>1, <3>2
  <2> HIDE DEF P
  <2>9. t \in J[k]
    BY <2>1, <2>2, <2>8
  <2> QED BY <2>9 DEF t
<1> HIDE DEF P
<1>4. Purchased(a, skus) \in J[Len(skus)]
  <2> HIDE DEF J
  <2> QED BY <1>2, <1>3, PurchaseEnd
<1>5. P(Purchased(a, skus))
  BY <1>4
<1> QED BY <1>5 DEF P, x


-----------------------------------------------------------------------------
(* Every operation keeps the accounts sound. *)
LEMMA LedgerCredit ==
  ASSUME NEW b \in Nat, NEW d \in Nat, NEW w \in Nat, NEW c \in Nat, b + d = w + c, NEW t \in Nat
  PROVE  (b + t) + d = w + (c + t)
OBVIOUS

LEMMA LedgerDebit ==
  ASSUME NEW b \in Nat, NEW d \in Nat, NEW w \in Nat, NEW c \in Nat, b + d = w + c, NEW t \in Nat,
         NEW y \in Nat, y + t = b
  PROVE  y + (d + t) = w + c
OBVIOUS

LEMMA Earning ==
  ASSUME NEW p \in Nat, NEW q \in Nat, NEW c, c = p + q, NEW t \in Nat
  PROVE  c + t = (p + t) + q /\ c + t = p + (q + t)
OBVIOUS

LEMMA Numbers ==
  ASSUME TypeOK, NEW a \in Accounts
  PROVE  /\ Loaded(a) \in Account /\ Loaded(a).balance \in Nat /\ Wallet[a].balance \in Nat
         /\ credited[a] \in Nat /\ debited[a] \in Nat /\ now \in Times
         /\ Rewards(Completed(Loaded(a).challenges)) \in Nat
<1>1. Loaded(a) \in Account
  BY LoadedType
<1>2. Completed(Loaded(a).challenges) \subseteq Keys
  BY DEF Completed
<1>3. Wallet[a].balance \in Nat
  BY EconomyAssumption
<1> QED BY <1>1, <1>2, <1>3, AccountParts, RewardsNat DEF TypeOK

LEMMA RacesKeep ==
  ASSUME TypeOK, NEW c \in Clients, NEW a, a = Acct(c), Races(c), a \in Accounts, Sound(a)
  PROVE  /\ Sound(a)' /\ Loaded(a).races \subseteq Loaded(a)'.races
         /\ Due(job[c].report) \subseteq Loaded(a)'.races
<1> DEFINE s == AwardRaces(a, job[c].report)
           y == s.account
           x == Loaded(a)
<1>1. /\ job[c].report \in Seq(Events) /\ s \in RaceState
      /\ Loaded(a)' = y /\ credited'[a] = credited[a] + s.total /\ debited'[a] = debited[a]
      /\ granted'[a] = s.granted /\ boosted'[a] = s.boosted /\ now' = now
  <2>1. now' = now
    BY DEF Races
  <2> QED BY <2>1, RacesEffect
<1>2. /\ y.balance = x.balance + s.total /\ y.items = x.items /\ y.refresh = x.refresh
      /\ y.challenges = x.challenges /\ \A e \in Events : e.kind # "race" => s.granted[e] = granted[a][e]
  BY <1>1, RacesChange
<1>3. /\ RacesSound(y.races, s.granted) /\ x.races \subseteq y.races
      /\ Due(job[c].report) \subseteq y.races
  BY <1>1, RacesOnce DEF Sound
<1>4. /\ s.boosted \subseteq y.races /\ IsFiniteSet(y.races) /\ BonusSound(y.online, s.boosted)
      /\ Worth(y.races, s.boosted) = Worth(x.races, boosted[a]) + s.total
  BY <1>1, RacesWorth
<1>5. s.total \in Nat
  BY <1>1 DEF RaceState
<1>6. /\ x.balance \in Nat /\ Wallet[a].balance \in Nat /\ credited[a] \in Nat /\ debited[a] \in Nat
      /\ Rewards(Completed(x.challenges)) \in Nat /\ Worth(x.races, boosted[a]) \in Nat
  BY Numbers, WorthNat
<1> HIDE DEF s, y
<1>7. y.balance + debited'[a] = Wallet[a].balance + credited'[a]
  <2>1. x.balance + debited[a] = Wallet[a].balance + credited[a]
    BY DEF Sound, Ledger
  <2> HIDE DEF x
  <2>2. (x.balance + s.total) + debited[a] = Wallet[a].balance + (credited[a] + s.total)
    BY <1>5, <1>6, <2>1, LedgerCredit
  <2> QED BY <1>1, <1>2, <2>2
<1>8. credited'[a] = Worth(y.races, boosted'[a]) + Rewards(Completed(y.challenges))
  <2>1. credited[a] = Worth(x.races, boosted[a]) + Rewards(Completed(x.challenges))
    BY DEF Sound, Earned
  <2> HIDE DEF x
  <2>2. credited[a] + s.total = (Worth(x.races, boosted[a]) + s.total) + Rewards(Completed(x.challenges))
    BY <1>5, <1>6, <2>1, Earning
  <2> QED BY <1>1, <1>2, <1>4, <2>2
<1>9. RefreshSound(y.refresh, granted'[a]) /\ y.refresh.day <= PitStopDay(now)
  <2>1. \A e \in Events : e.kind = "refresh" => s.granted[e] = granted[a][e]
    BY <1>2
  <2>2. \A day : CountedOn(day, s.granted) = CountedOn(day, granted[a])
    BY <2>1 DEF CountedOn
  <2>3. RefreshSound(x.refresh, granted[a]) /\ x.refresh.day <= PitStopDay(now)
    BY DEF Sound
  <2> QED BY <1>1, <1>2, <2>1, <2>2, <2>3 DEF RefreshSound
<1>10. ReplaysSound(y.challenges, granted'[a])
  <2>1. \A e \in Events : e.kind = "challenge" => s.granted[e] = granted[a][e]
    BY <1>2
  <2>2. ReplaysSound(x.challenges, granted[a])
    BY DEF Sound
  <2> QED BY <1>1, <1>2, <2>1, <2>2 DEF ReplaysSound
<1>11. PaidSound(a, y.items, debited'[a])
  BY <1>1, <1>2 DEF Sound
<1>12. Sound(a)'
  BY <1>1, <1>3, <1>4, <1>7, <1>8, <1>9, <1>10, <1>11 DEF Sound, Ledger, Earned
<1> QED BY <1>1, <1>3, <1>12

LEMMA RefreshKeeps ==
  ASSUME TypeOK, NEW c \in Clients, NEW a, a = Acct(c), Refresh(c), a \in Accounts, Sound(a)
  PROVE  Sound(a)' /\ Loaded(a)'.races = Loaded(a).races
<1> DEFINE s == Refreshed(a, job[c].report)
           y == s.account
           x == Loaded(a)
<1>1. /\ job[c].report \in Seq(Events) /\ s \in RefreshState /\ now' = now
      /\ credited'[a] = credited[a] /\ debited'[a] = debited[a] /\ boosted'[a] = boosted[a]
      /\ \/ Loaded(a)' = x /\ granted'[a] = granted[a]
         \/ Loaded(a)' = y /\ granted'[a] = s.granted
  BY RefreshEffect DEF Refresh
<1>2. CASE Loaded(a)' = x /\ granted'[a] = granted[a]
  <2>1. now \in Times /\ now <= now
    BY Numbers DEF Times
  <2>2. Sound(a)'
    BY <1>1, <1>2, <2>1, Carried
  <2> QED BY <1>2, <2>2
<1>3. CASE Loaded(a)' = y /\ granted'[a] = s.granted
  <2>1. /\ y.balance = x.balance /\ y.items = x.items /\ y.races = x.races /\ y.online = x.online
        /\ y.challenges = x.challenges
        /\ \A e \in Events : e.kind # "refresh" => s.granted[e] = granted[a][e]
    BY <1>1, RefreshChange
  <2>2. RefreshSound(y.refresh, s.granted) /\ y.refresh.day = PitStopDay(now)
    BY <1>1, RefreshedSound
  <2>3. PitStopDay(now) \in Nat
    BY Numbers, PitStopDayGrows DEF Times
  <2> HIDE DEF s, y, x
  <2>4. RacesSound(y.races, granted'[a])
    <3>1. RacesSound(x.races, granted[a])
      BY DEF Sound, x
    <3> QED BY <1>3, <2>1, <3>1 DEF RacesSound
  <2>5. ReplaysSound(y.challenges, granted'[a])
    <3>1. ReplaysSound(x.challenges, granted[a])
      BY DEF Sound, x
    <3> QED BY <1>3, <2>1, <3>1 DEF ReplaysSound
  <2>6. y.refresh.day <= PitStopDay(now)
    BY <2>2, <2>3
  <2>7. Sound(a)'
    BY <1>1, <1>3, <2>1, <2>2, <2>4, <2>5, <2>6 DEF Sound, Ledger, Earned, x
  <2> QED BY <1>3, <2>1, <2>7 DEF x
<1> QED BY <1>1, <1>2, <1>3


LEMMA ChallengesKeep ==
  ASSUME TypeOK, NEW c \in Clients, NEW a, a = Acct(c), Challenges(c), a \in Accounts, Sound(a)
  PROVE  Sound(a)' /\ Loaded(a)'.races = Loaded(a).races
<1> DEFINE x == Loaded(a)
           s == AwardChallenges(x, job[c].report)
           y == s.account
<1>1. /\ job[c].report \in Seq(Events) /\ job[c].report \in Reports
      /\ Loaded(a)' = y /\ credited'[a] = credited[a] + s.total /\ debited'[a] = debited[a]
      /\ granted'[a] = [e \in Events |-> granted[a][e] + s.advanced[e]] /\ boosted'[a] = boosted[a]
      /\ now' = now
  <2>1. now' = now
    BY DEF Challenges
  <2>2. /\ job[c] # NoJob
        /\ Loaded(a)' = y /\ credited'[a] = credited[a] + s.total /\ debited'[a] = debited[a]
        /\ granted'[a] = [e \in Events |-> granted[a][e] + s.advanced[e]] /\ boosted'[a] = boosted[a]
    BY ChallengesEffect
  <2>3. job[c].report \in Seq(Events) /\ job[c].report \in Reports
    BY <2>2, JobParts
  <2> QED BY <2>1, <2>2, <2>3
<1>2. /\ x \in Account /\ x.balance \in Nat /\ Wallet[a].balance \in Nat /\ credited[a] \in Nat
      /\ debited[a] \in Nat /\ now \in Times /\ Rewards(Completed(x.challenges)) \in Nat
      /\ Worth(x.races, boosted[a]) \in Nat
  BY Numbers, WorthNat
<1>3. /\ s.total \in Nat /\ y = [x EXCEPT !.balance = @ + s.total, !.challenges = y.challenges]
  <2> HIDE DEF x
  <2> QED BY <1>1, <1>2, AwardType
<1>4. Rewards(Completed(y.challenges)) = Rewards(Completed(x.challenges)) + s.total
  <2> HIDE DEF x
  <2> QED BY <1>1, <1>2, AwardsPay
<1>5. /\ ReplaysSound(y.challenges, granted'[a])
      /\ \A e \in Events : e.kind # "challenge" => s.advanced[e] = 0
  BY <1>1, AwardsCount
<1> HIDE DEF s, y
<1>6. /\ y.balance = x.balance + s.total /\ y.items = x.items /\ y.races = x.races
      /\ y.online = x.online /\ y.refresh = x.refresh
  <2> HIDE DEF x
  <2> QED BY <1>2, <1>3 DEF Account
<1>7. y.balance + debited'[a] = Wallet[a].balance + credited'[a]
  <2>1. x.balance + debited[a] = Wallet[a].balance + credited[a]
    BY DEF Sound, Ledger
  <2> HIDE DEF x
  <2>3. /\ x.balance \in Nat /\ Wallet[a].balance \in Nat /\ credited[a] \in Nat /\ debited[a] \in Nat
        /\ s.total \in Nat
    BY <1>2, <1>3
  <2>2. (x.balance + s.total) + debited[a] = Wallet[a].balance + (credited[a] + s.total)
    BY <2>1, <2>3, LedgerCredit
  <2> QED BY <1>1, <1>6, <2>2
<1>8. credited'[a] = Worth(y.races, boosted'[a]) + Rewards(Completed(y.challenges))
  <2>1. credited[a] = Worth(x.races, boosted[a]) + Rewards(Completed(x.challenges))
    BY DEF Sound, Earned
  <2> HIDE DEF x
  <2>2. credited[a] + s.total = Worth(x.races, boosted[a]) + (Rewards(Completed(x.challenges)) + s.total)
    BY <1>2, <1>3, <2>1, Earning
  <2> QED BY <1>1, <1>4, <1>6, <2>2
<1>9. \A e \in Events : e.kind # "challenge" => granted'[a][e] = granted[a][e]
  <2>1. granted[a] \in [Events -> Nat]
    BY DEF TypeOK
  <2> QED BY <1>1, <1>5, <2>1
<1>10. RacesSound(y.races, granted'[a])
  <2>1. RacesSound(x.races, granted[a])
    BY DEF Sound
  <2>2. \A e \in Events : e.kind = "race" => granted'[a][e] = granted[a][e]
    BY <1>9
  <2> QED BY <1>6, <2>1, <2>2 DEF RacesSound
<1>11. RefreshSound(y.refresh, granted'[a]) /\ y.refresh.day <= PitStopDay(now)
  <2>1. \A e \in Events : e.kind = "refresh" => granted'[a][e] = granted[a][e]
    BY <1>9
  <2>2. \A day : CountedOn(day, granted'[a]) = CountedOn(day, granted[a])
    BY <2>1 DEF CountedOn
  <2>3. RefreshSound(x.refresh, granted[a]) /\ x.refresh.day <= PitStopDay(now)
    BY DEF Sound
  <2> QED BY <1>6, <2>1, <2>2, <2>3 DEF RefreshSound
<1>12. Sound(a)'
  BY <1>1, <1>5, <1>6, <1>7, <1>8, <1>10, <1>11 DEF Sound, Ledger, Earned
<1> QED BY <1>1, <1>6, <1>12

LEMMA PurchaseKeeps ==
  ASSUME TypeOK, NEW c \in Clients, NEW a, a = Acct(c), NEW skus \in load.purchases, Purchase(c, skus),
         a \in Accounts, Sound(a)
  PROVE  Sound(a)' /\ Loaded(a)'.races = Loaded(a).races
<1> DEFINE x == Loaded(a)
           s == Purchased(a, skus)
           y == s.account
<1>1. /\ skus \in Seq(DOMAIN Catalog) /\ s \in PurchaseState
      /\ Loaded(a)' = y /\ credited'[a] = credited[a] /\ debited'[a] = debited[a] + s.total
      /\ granted'[a] = granted[a] /\ boosted'[a] = boosted[a] /\ now' = now
  <2>1. now' = now
    BY DEF Purchase
  <2> QED BY <2>1, PurchaseEffect
<1>2. /\ x.balance \in Nat /\ Wallet[a].balance \in Nat /\ credited[a] \in Nat /\ debited[a] \in Nat
  BY Numbers
<1>3. PaidSound(a, x.items, debited[a])
  BY DEF Sound
<1>4. /\ y.balance + s.total = x.balance /\ PaidSound(a, y.items, debited[a] + s.total)
      /\ y.races = x.races /\ y.online = x.online /\ y.refresh = x.refresh
      /\ y.challenges = x.challenges
  BY <1>1, <1>2, <1>3, PurchaseSound
<1>5. s.total \in Nat /\ y.balance \in Nat
  BY <1>1, AccountParts DEF PurchaseState
<1> HIDE DEF s, y
<1>6. y.balance + debited'[a] = Wallet[a].balance + credited'[a]
  <2>1. x.balance + debited[a] = Wallet[a].balance + credited[a]
    BY DEF Sound, Ledger
  <2> HIDE DEF x
  <2>2. y.balance + (debited[a] + s.total) = Wallet[a].balance + credited[a]
    BY <1>2, <1>4, <1>5, <2>1, LedgerDebit
  <2> QED BY <1>1, <2>2
<1>7. Sound(a)'
  BY <1>1, <1>4, <1>6 DEF Sound, Ledger, Earned
<1> QED BY <1>1, <1>4, <1>7

(* ... and what is recorded stays on file, for each section that ran.       *)
LEMMA RecordedKept ==
  ASSUME TypeOK, Recorded, \A b \in Accounts : Loaded(b).races \subseteq Loaded(b)'.races
  PROVE  /\ \A b \in Accounts : acked[b] \subseteq Loaded(b)'.races
         /\ \A c \in Clients : job[c] # NoJob => \A d \in job[c].due : d[2] \in Loaded(d[1])'.races
<1>1. ASSUME NEW c \in Clients, job[c] # NoJob, NEW d \in job[c].due
      PROVE  d[2] \in Loaded(d[1])'.races
  <2>1. d[1] \in Accounts
    BY <1>1, JobParts
  <2> QED BY <1>1, <2>1 DEF Recorded
<1> QED BY <1>1 DEF Recorded

LEMMA QuietRecorded ==
  ASSUME TypeOK, Recorded, Quiet
  PROVE  Recorded'
<1>1. \A b \in Accounts : Loaded(b)' = Loaded(b)
  BY DEF Quiet, Kept
<1>2. /\ \A b \in Accounts : acked[b] \subseteq Loaded(b)'.races
      /\ \A c \in Clients : job[c] # NoJob => \A d \in job[c].due : d[2] \in Loaded(d[1])'.races
  BY <1>1, RecordedKept
<1>3. acked' = acked /\ \A c \in Clients : job'[c] \in {NoJob, job[c]} \/ job'[c].due = {}
  BY DEF Quiet
<1> QED BY <1>2, <1>3 DEF Recorded

LEMMA OthersRaces ==
  ASSUME NEW a \in Accounts, Others(a), Loaded(a).races \subseteq Loaded(a)'.races
  PROVE  \A b \in Accounts : Loaded(b).races \subseteq Loaded(b)'.races
BY DEF Others

LEMMA RecordedStep ==
  ASSUME TypeOK, Recorded, NEW c \in Clients, NEW a \in Accounts, a = Acct(c), Others(a),
         Loaded(a).races \subseteq Loaded(a)'.races
  PROVE  /\ Races(c) /\ Due(job[c].report) \subseteq Loaded(a)'.races => Recorded'
         /\ Refresh(c) => Recorded'
         /\ Challenges(c) => Recorded'
         /\ \A skus \in load.purchases : Purchase(c, skus) => Recorded'
<1>1. /\ \A b \in Accounts : acked[b] \subseteq Loaded(b)'.races
      /\ \A q \in Clients : job[q] # NoJob => \A d \in job[q].due : d[2] \in Loaded(d[1])'.races
  BY OthersRaces, RecordedKept
<1>2. job \in [Clients -> Job]
  BY DEF TypeOK
<1>3. ASSUME Races(c), Due(job[c].report) \subseteq Loaded(a)'.races PROVE Recorded'
  <2>1. job' = [job EXCEPT ![c] = [stage |-> "refresh", report |-> job[c].report,
                                   due |-> {a} \X Due(job[c].report)]]
    BY <1>3, JobMoves
  <2>2. acked' = acked
    BY <1>3 DEF Races
  <2>3. ASSUME NEW q \in Clients, job'[q] # NoJob, NEW d \in job'[q].due
        PROVE  d[2] \in Loaded(d[1])'.races
    <3>1. CASE q = c
      <4>1. d \in {a} \X Due(job[c].report)
        BY <1>2, <2>1, <2>3, <3>1
      <4>2. d[1] = a /\ d[2] \in Due(job[c].report)
        BY <4>1
      <4> QED BY <1>3, <4>2
    <3>2. CASE q # c
      BY <1>1, <1>2, <2>1, <2>3, <3>2
    <3> QED BY <3>1, <3>2
  <2> QED BY <1>1, <2>2, <2>3 DEF Recorded
<1>4. ASSUME Refresh(c) PROVE Recorded'
  <2>1. job' = [job EXCEPT ![c] = [stage |-> "challenges", report |-> job[c].report, due |-> job[c].due]]
    BY <1>4, JobMoves
  <2>2. acked' = acked
    BY <1>4 DEF Refresh
  <2>3. job[c] # NoJob
    BY <1>4, Busy DEF Refresh
  <2>4. \A q \in Clients : job'[q] # NoJob => job[q] # NoJob /\ job'[q].due = job[q].due
    BY <1>2, <2>1, <2>3
  <2> QED BY <1>1, <2>2, <2>4 DEF Recorded
<1>5. ASSUME Challenges(c) PROVE Recorded'
  <2>1. /\ job' = [job EXCEPT ![c] = NoJob]
        /\ acked' = [b \in Accounts |-> acked[b] \cup {d[2] : d \in {x \in job[c].due : x[1] = b}}]
    BY <1>5 DEF Challenges
  <2>2. job[c] # NoJob
    BY <1>5, Busy DEF Challenges
  <2>3. \A b \in Accounts : acked'[b] \subseteq Loaded(b)'.races
    BY <1>1, <2>1, <2>2
  <2>4. \A q \in Clients : job'[q] # NoJob => job[q] # NoJob /\ job'[q] = job[q]
    BY <1>2, <2>1
  <2> QED BY <1>1, <2>3, <2>4 DEF Recorded
<1>6. ASSUME NEW skus \in load.purchases, Purchase(c, skus) PROVE Recorded'
  <2>1. acked' = acked /\ job' = job
    BY <1>6 DEF Purchase
  <2> QED BY <1>1, <2>1 DEF Recorded
<1> QED BY <1>3, <1>4, <1>5, <1>6

LEMMA OthersSound ==
  ASSUME TypeOK, \A b \in Accounts : Sound(b), NEW a \in Accounts, Others(a), now' = now
  PROVE  \A b \in Accounts \ {a} : Sound(b)'
<1> TAKE b \in Accounts \ {a}
<1>1. now \in Times /\ now <= now
  BY DEF TypeOK, Times
<1> QED BY <1>1, Carried DEF Others

LEMMA InvStep == Inv /\ [Next]_vars => Inv'
<1> SUFFICES ASSUME Inv, [Next]_vars PROVE Inv'
  OBVIOUS
<1>1. TypeOK /\ (\A b \in Accounts : Sound(b)) /\ Recorded
  BY DEF Inv
<1>2. TypeOK'
  BY <1>1, TypeStep
<1>3. CASE Quiet
  <2>1. ASSUME NEW b \in Accounts PROVE Sound(b)'
    <3>1. /\ Loaded(b)' = Loaded(b) /\ credited'[b] = credited[b] /\ debited'[b] = debited[b]
          /\ granted'[b] = granted[b] /\ boosted'[b] = boosted[b] /\ now' \in Times /\ now <= now'
      BY <1>3 DEF Quiet, Kept
    <3> QED BY <1>1, <3>1, Carried
  <2>2. Recorded'
    BY <1>1, <1>3, QuietRecorded
  <2> QED BY <1>2, <2>1, <2>2 DEF Inv
<1>4. ASSUME NEW c \in Clients, NEW a \in Accounts, a = Acct(c),
             \/ Races(c) \/ Refresh(c) \/ Challenges(c)
             \/ \E skus \in load.purchases : Purchase(c, skus)
      PROVE  Inv'
  <2>1. now' = now
    BY <1>4 DEF Races, Refresh, Challenges, Purchase
  <2>2. Others(a) /\ Sound(a)' /\ Recorded'
    <3>1. CASE Races(c)
      <4>1. Others(a)
        BY <1>1, <1>4, <3>1, RacesEffect
      <4>2. /\ Sound(a)' /\ Loaded(a).races \subseteq Loaded(a)'.races
            /\ Due(job[c].report) \subseteq Loaded(a)'.races
        BY <1>1, <1>4, <3>1, RacesKeep
      <4> QED BY <1>1, <1>4, <3>1, <4>1, <4>2, RecordedStep
    <3>2. CASE Refresh(c)
      <4>1. Others(a)
        BY <1>1, <1>4, <3>2, RefreshEffect
      <4>2. Sound(a)' /\ Loaded(a).races \subseteq Loaded(a)'.races
        BY <1>1, <1>4, <3>2, RefreshKeeps
      <4> QED BY <1>1, <1>4, <3>2, <4>1, <4>2, RecordedStep
    <3>3. CASE Challenges(c)
      <4>1. Others(a)
        BY <1>1, <1>4, <3>3, ChallengesEffect
      <4>2. Sound(a)' /\ Loaded(a).races \subseteq Loaded(a)'.races
        BY <1>1, <1>4, <3>3, ChallengesKeep
      <4> QED BY <1>1, <1>4, <3>3, <4>1, <4>2, RecordedStep
    <3>4. ASSUME NEW skus \in load.purchases, Purchase(c, skus)
          PROVE  Others(a) /\ Sound(a)' /\ Recorded'
      <4>1. Others(a)
        BY <1>1, <1>4, <3>4, PurchaseEffect
      <4>2. Sound(a)' /\ Loaded(a).races \subseteq Loaded(a)'.races
        BY <1>1, <1>4, <3>4, PurchaseKeeps
      <4> QED BY <1>1, <1>4, <3>4, <4>1, <4>2, RecordedStep
    <3> QED BY <1>4, <3>1, <3>2, <3>3, <3>4
  <2>3. \A b \in Accounts \ {a} : Sound(b)'
    BY <1>1, <2>1, <2>2, OthersSound
  <2> QED BY <1>2, <2>2, <2>3 DEF Inv
<1> QED BY <1>1, <1>3, <1>4, Steps


-----------------------------------------------------------------------------
(* The properties, of every behaviour. *)
LEMMA OnFile ==
  ASSUME NEW a \in Saved
  PROVE  a \in Accounts /\ Loaded(a) = disk[a]
BY DEF Saved, Loaded

LEMMA InvRaceOnce == Inv => RaceOnce
BY DEF Inv, Sound, RacesSound, RaceOnce

LEMMA InvBalanced == Inv => Balanced
BY OnFile DEF Inv, Sound, Ledger, Balanced

LEMMA InvAckedRecorded == Inv => AckedRecorded
<1> SUFFICES ASSUME Inv, NEW a \in Accounts, acked[a] # {}
             PROVE  a \in Saved /\ acked[a] \subseteq disk[a].races
  BY DEF AckedRecorded
<1>1. acked[a] \subseteq Loaded(a).races
  BY DEF Inv, Recorded
<1>2. Migrated(a).races = {}
  BY DEF Migrated
<1>3. disk[a] # NoFile
  BY <1>1, <1>2 DEF Loaded
<1> QED BY <1>1, <1>3 DEF Loaded, Saved

LEMMA InvRefreshLimit == Inv => RefreshLimit
<1> SUFFICES ASSUME Inv, NEW a \in Accounts, NEW t \in Times
             PROVE  LET today == {e \in Events : e.kind = "refresh" /\ PitStopDay(e.at) = PitStopDay(t)}
                    IN  /\ \A e \in today : granted[a][e] <= 1
                        /\ Cardinality({e \in today : granted[a][e] = 1}) <= 2
  BY DEF RefreshLimit
<1> DEFINE today == {e \in Events : e.kind = "refresh" /\ PitStopDay(e.at) = PitStopDay(t)}
<1>1. RefreshSound(Loaded(a).refresh, granted[a])
  BY DEF Inv, Sound
<1>2. {e \in today : granted[a][e] = 1} = CountedOn(PitStopDay(t), granted[a])
  BY DEF CountedOn
<1>3. PitStopDay(t) \in PitDays
  BY DEF PitDays
<1>4. Cardinality(CountedOn(PitStopDay(t), granted[a])) <= 2
  BY <1>1, <1>3 DEF RefreshSound
<1>5. \A e \in today : granted[a][e] <= 1
  BY <1>1 DEF RefreshSound
<1> QED BY <1>2, <1>4, <1>5

LEMMA InvBonusBounded == Inv => BonusBounded
<1> SUFFICES ASSUME Inv, NEW a \in Accounts, NEW t \in Times,
                    {e \in boosted[a] : Day(e.at) = Day(t)} # {}
             PROVE  LET today == {e \in boosted[a] : Day(e.at) = Day(t)}
                    IN  \E e \in today : SumFunctionOnSet([x \in today |-> x.seconds], today \ {e}) < BonusCap
  BY DEF BonusBounded
<1> DEFINE today == {e \in boosted[a] : Day(e.at) = Day(t)}
           f == [x \in today |-> x.seconds]
<1>1. /\ BonusSound(Loaded(a).online, boosted[a]) /\ boosted[a] \subseteq Loaded(a).races
      /\ IsFiniteSet(Loaded(a).races) /\ RacesSound(Loaded(a).races, granted[a])
      /\ Loaded(a).races \subseteq Events
  BY LoadedType, AccountParts DEF Inv, Sound
<1>2. Day(t) \in Days /\ today = BoostedOn(Day(t), boosted[a])
  BY DEF Days, BoostedOn
<1>3. PICK e \in today : Seconds(today \ {e}) < BonusCap
  BY <1>1, <1>2 DEF BonusSound
<1> DEFINE S == today \ {e}
           g == [x \in S |-> x.seconds]
<1>4. IsFiniteSet(S) /\ \A x \in S : f[x] = g[x] /\ f[x] \in Int
  <2>1. \A x \in S : x \in Events /\ x.kind = "race"
    BY <1>1 DEF RacesSound
  <2>2. \A x \in S : x.seconds \in Nat
    BY <2>1, EventType
  <2> QED BY <1>1, <2>2, FS_Subset
<1>5. Seconds(S) = SumFunctionOnSet(g, S)
  BY DEF Seconds
<1> HIDE DEF f, g, S, today
<1>6. SumFunctionOnSet(f, S) < BonusCap
  BY <1>3, <1>4, <1>5, SumSame DEF S
<1> QED BY <1>3, <1>6 DEF f, S, today

LEMMA InvRewardsOnce == Inv => RewardsOnce
<1> SUFFICES ASSUME Inv, NEW a \in Saved
             PROVE  LET races == SumFunction([e \in disk[a].races |->
                                   (IF e \in boosted[a] THEN 5 ELSE 1) * e.coins + e.extra])
                        done == {k \in Keys : disk[a].challenges[k].completed # 0}
                    IN  credited[a] = races + SumFunction([k \in done |-> Rules[k[1]].reward])
  BY DEF RewardsOnce
<1> DEFINE done == {k \in Keys : disk[a].challenges[k].completed # 0}
<1>1. credited[a] = Worth(disk[a].races, boosted[a]) + Rewards(done)
  BY OnFile DEF Inv, Sound, Earned, Completed
<1>2. SumFunction([k \in done |-> Rules[k[1]].reward]) = Rewards(done)
  BY DEF SumFunction, Rewards
<1>3. SumFunction([e \in disk[a].races |-> (IF e \in boosted[a] THEN 5 ELSE 1) * e.coins + e.extra])
        = Worth(disk[a].races, boosted[a])
  BY DEF SumFunction, Worth
<1> QED BY <1>1, <1>2, <1>3

LEMMA InvReplaysIgnored == Inv => ReplaysIgnored
<1> SUFFICES ASSUME Inv, NEW a \in Accounts, NEW e \in Events, e.kind = "challenge"
             PROVE  \E r \in Reports : granted[a][e] <= Occurrences(e, r)
  BY DEF ReplaysIgnored
<1>1. Reported(e, granted[a][e])
  BY DEF Inv, Sound, ReplaysSound
<1>2. PICK r \in Reports : e \in ToSet(r)
  BY DEF Events
<1>3. Occurrences(e, r) \in Nat
  <2>1. r \in Seq(Events)
    BY ReportType
  <2>2. IsFiniteSet(1..Len(r)) /\ DOMAIN r = 1..Len(r)
    BY <2>1, FS_Interval
  <2>3. IsFiniteSet({k \in DOMAIN r : r[k] = e})
    BY <2>2, FS_Subset
  <2> QED BY <2>3, FS_CardinalityType DEF Occurrences
<1> QED BY <1>1, <1>2, <1>3 DEF Reported

LEMMA InvPaidOnce == Inv => PaidOnce
<1> SUFFICES ASSUME Inv, NEW a \in Saved
             PROVE  LET bought == disk[a].items \ Wallet[a].items
                    IN  debited[a] \in SumFunction([i \in bought |-> Min(PricesOf(i))])
                                       ..SumFunction([i \in bought |-> Max(PricesOf(i))])
  BY DEF PaidOnce
<1> DEFINE bought == disk[a].items \ Wallet[a].items
           low == [i \in bought |-> Min(PricesOf(i))]
           high == [i \in bought |-> Max(PricesOf(i))]
<1>1. /\ a \in Accounts /\ debited[a] \in Nat /\ bought \subseteq Items
      /\ IsFiniteSet(bought) /\ Least(bought) <= debited[a] /\ debited[a] <= Most(bought)
  BY OnFile, LoadedType, AccountParts DEF Inv, Sound, PaidSound, TypeOK
<1>2. \A i \in bought : low[i] \in Int /\ high[i] \in Int
  BY <1>1, Priced
<1>3. /\ SumFunction(low) = SumFunctionOnSet(low, bought)
      /\ SumFunction(high) = SumFunctionOnSet(high, bought)
  BY DEF SumFunction
<1>4. Least(bought) = SumFunctionOnSet(low, bought) /\ Most(bought) = SumFunctionOnSet(high, bought)
  BY DEF Least, Most
<1> HIDE DEF low, high, bought
<1>5. SumFunctionOnSet(low, bought) \in Int /\ SumFunctionOnSet(high, bought) \in Int
  BY <1>1, <1>2, SumLast
<1>6. debited[a] \in SumFunction(low)..SumFunction(high)
  BY <1>1, <1>3, <1>4, <1>5
<1> QED BY <1>6 DEF low, high, bought

(* The inductive invariant: what every account's file and what the          *)
(* operations returned have to do with one another.                         *)
THEOREM Invariance == Spec => []Inv
BY InvInit, InvStep, PTL DEF Spec

(* However often and on however many of its connections an account sends a  *)
(* report, and whichever section failed or crashed, each race is credited   *)
(* at most once.                                                            *)
THEOREM RacesCreditedOnce == Spec => []RaceOnce
BY Invariance, InvRaceOnce, PTL

(* The balance on file is the migrated one, plus the credits and minus the  *)
(* debits that the operations returned.                                     *)
THEOREM BooksBalance == Spec => []Balanced
BY Invariance, InvBalanced, PTL

(* The races of a report that was acknowledged have their receipts on file. *)
THEOREM AcknowledgedOnFile == Spec => []AckedRecorded
BY Invariance, InvAckedRecorded, PTL

(* A Pit Stop day counts at most two refreshes, and each event once.        *)
THEOREM TwoRefreshesADay == Spec => []RefreshLimit
BY Invariance, InvRefreshLimit, PTL

(* Without one of them, the boosted races of a day stay below the cap.      *)
THEOREM BonusCapped == Spec => []BonusBounded
BY Invariance, InvBonusBounded, PTL

(* What was credited is what the races on file and the periods completed on *)
(* file are worth: a period pays its reward once.                           *)
THEOREM PeriodPaysOnce == Spec => []RewardsOnce
BY Invariance, InvRewardsOnce, PTL

(* An event advances its challenge no more often than one report has it,    *)
(* however often reports are replayed.                                      *)
THEOREM ReplayedOnce == Spec => []ReplaysIgnored
BY Invariance, InvReplaysIgnored, PTL

(* The debits lie between the least and the most that the items bought may  *)
(* cost, whatever the order of bundles, parts and retries.                  *)
THEOREM ItemsPaidOnce == Spec => []PaidOnce
BY Invariance, InvPaidOnce, PTL

=============================================================================
