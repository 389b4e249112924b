--------------------------- MODULE SeasonsProofs ---------------------------
(* Proofs about Seasons, for any configurations, dates and clients. *)
EXTENDS Seasons, FiniteSetTheorems, TLAPS

Configs == {Loaded(f) : f \in Files \cup {Shipped}}

Told == {"seasons", "config"}

(* What was made for a client is what the file and the date gave then, and   *)
(* the date has passed.                                                      *)
SeenHonest ==
    \A c \in Clients : seen[c] # Unasked =>
       /\ seen[c] = [name |-> seen[c].name, said |-> seen[c].said,
                     file |-> seen[c].file, date |-> seen[c].date]
       /\ seen[c].name \in Told
       /\ seen[c].date \in Months /\ MonthsSince(seen[c].date, date) >= 0
       /\ seen[c].file \in Files \cup {Shipped}
       /\ seen[c].said = Effective(Loaded(seen[c].file), seen[c].date)[seen[c].name]

(* What a run of writePubfiles has in hand is of one moment, and so is what  *)
(* it has written; the seasons are written last.                             *)
JobOfOne ==
    job # NoJob =>
       /\ job.todo \in {Copies, <<"config", "seasons">>, <<"seasons">>}
       /\ \E f \in Files \cup {Shipped}, d \in Passed : job.eff = Effective(Loaded(f), d)
       /\ job.todo # Copies => disk["blacklist"] = job.eff["blacklist"]
       /\ job.todo = <<"seasons">> => disk["config"] = job.eff["config"]

(* So are the copies, if their last writer came to its end. *)
CopiesWhole == complete => torn \/ CopiesOfOne

(* Nothing is ever served as absent by a run of writePubfiles, and what it  *)
(* has written, or a run before it, stays on disk.                          *)
CopiesThere ==
    /\ complete => \A n \in Names : disk[n] # Absent
    /\ job # NoJob =>
          /\ \A n \in Names : job.eff[n] # Absent
          /\ job.todo # Copies => disk["blacklist"] # Absent
          /\ job.todo = <<"seasons">> => disk["config"] # Absent

Shapes ==
    /\ date \in Months /\ week \in Nat
    /\ file \in Files \cup {Shipped, Broken, Missing}
    /\ disk = [n \in Names |-> disk[n]]
    /\ seen = [c \in Clients |-> seen[c]]
    /\ MonthsSince(FirstMonth, date) >= 0

(* What remains of TypeOK. *)
Flags ==
    /\ week \in 0..MaxWeeks
    /\ up \in BOOLEAN /\ complete \in BOOLEAN /\ torn \in BOOLEAN
    /\ job # NoJob => /\ job.boot \in BOOLEAN /\ DOMAIN job.eff = Names
                      /\ job = [boot |-> job.boot, eff |-> job.eff, todo |-> job.todo]

IInv == Shapes /\ SeenHonest /\ JobOfOne /\ CopiesWhole /\ CopiesThere

-----------------------------------------------------------------------------
LEMMA NamesListed == Names = {"blacklist", "config", "seasons"}
BY DEF Names, Copies, ToSet

(* The season list: of the numbers listed, the one in place i has i - 1      *)
(* numbers below it, since as many numbers have different ranks below their *)
(* count.                                                                   *)
LEMMA RankRises ==
  ASSUME NEW S, IsFiniteSet(S), S \subseteq Nat, NEW m \in S, NEW n \in S
  PROVE  /\ Rank(S, n) \in 0..(Cardinality(S) - 1)
         /\ m < n => Rank(S, m) < Rank(S, n)
<1> DEFINE B(k) == {j \in S : j < k}
<1>1. \A k \in S : /\ IsFiniteSet(B(k)) /\ B(k) \subseteq S \ {k}
                   /\ Cardinality(B(k)) \in Nat
                   /\ Cardinality(B(k)) <= Cardinality(S) - 1
  <2> TAKE k \in S
  <2>1. B(k) \subseteq S \ {k}
    OBVIOUS
  <2>2. IsFiniteSet(S \ {k}) /\ Cardinality(S \ {k}) = Cardinality(S) - 1
    BY FS_RemoveElement
  <2>3. IsFiniteSet(B(k)) /\ Cardinality(B(k)) <= Cardinality(S \ {k})
    BY <2>1, <2>2, FS_Subset
  <2> QED BY <2>1, <2>2, <2>3, FS_CardinalityType
<1>2. Cardinality(S) \in Nat
  BY FS_CardinalityType
<1>3. ASSUME m < n PROVE Cardinality(B(m)) < Cardinality(B(n))
  <2>1. B(m) \subseteq B(n) \ {m} /\ m \in B(n)
    <3>1. m \in Nat /\ n \in Nat
      OBVIOUS
    <3>2. \A j \in S : j < m => j \in Nat /\ j < n /\ j # m
      BY <1>3, <3>1
    <3> QED BY <1>3, <3>2
  <2>2. IsFiniteSet(B(n) \ {m}) /\ Cardinality(B(n) \ {m}) = Cardinality(B(n)) - 1
    BY <1>1, <2>1, FS_RemoveElement
  <2>3. Cardinality(B(m)) <= Cardinality(B(n) \ {m})
    BY <2>1, <2>2, FS_Subset
  <2> HIDE DEF B
  <2>4. /\ Cardinality(B(m)) \in Nat /\ Cardinality(B(n)) \in Nat
    BY <1>1
  <2> QED BY <2>2, <2>3, <2>4
<1> QED BY <1>1, <1>2, <1>3 DEF Rank

LEMMA RankReached ==
  ASSUME NEW S, IsFiniteSet(S), S \subseteq Nat, NEW i \in 0..(Cardinality(S) - 1)
  PROVE  \E n \in S : Rank(S, n) = i
<1> DEFINE T == 0..(Cardinality(S) - 1)
           f == [n \in S |-> Rank(S, n)]
<1>1. Cardinality(S) \in Nat
  BY FS_CardinalityType
<1>2. IsFiniteSet(T) /\ Cardinality(T) = Cardinality(S)
  <2>1. 0 \in Int /\ Cardinality(S) - 1 \in Int
    BY <1>1
  <2>2. /\ IsFiniteSet(T)
        /\ Cardinality(T) = IF 0 > Cardinality(S) - 1 THEN 0 ELSE (Cardinality(S) - 1) - 0 + 1
    BY <2>1, FS_Interval
  <2> QED BY <1>1, <2>2
<1>3. f \in [S -> T]
  BY RankRises
<1>4. \A a, b \in S : f[a] = f[b] => a = b
  <2> SUFFICES ASSUME NEW a \in S, NEW b \in S, Rank(S, a) = Rank(S, b) PROVE a = b
    OBVIOUS
  <2>1. a < b => Rank(S, a) < Rank(S, b)
    BY RankRises
  <2>2. b < a => Rank(S, b) < Rank(S, a)
    BY RankRises
  <2>3. Rank(S, a) \in Nat /\ a \in Nat /\ b \in Nat
    BY <1>3
  <2> QED BY <2>1, <2>2, <2>3
<1>5. f \in Injection(S, T)
  BY <1>3, <1>4 DEF Injection, IsInjective
<1>6. f \in Surjection(S, T)
  BY <1>2, <1>5, FS_Injection
<1> QED BY <1>6 DEF Surjection

LEMMA ListInOrder ==
  ASSUME NEW c \in Configs
  PROVE  /\ Listed(c) \subseteq Nat /\ IsFiniteSet(Listed(c))
         /\ Cardinality(Listed(c)) \in Nat
         /\ DOMAIN SeasonList(c) = 1..Cardinality(Listed(c))
         /\ Len(SeasonList(c)) = Cardinality(Listed(c))
         /\ \A i \in 1..Cardinality(Listed(c)) :
               /\ SeasonList(c)[i] \in Listed(c)
               /\ Rank(Listed(c), SeasonList(c)[i]) = i - 1
<1> DEFINE S == Listed(c)
<1>1. S \subseteq Nat /\ IsFiniteSet(S)
  <2>1. IsFiniteSet(DOMAIN c.themes) /\ DOMAIN c.themes \subseteq Nat
    BY SettingsAssumption DEF Configs
  <2>2. S \subseteq DOMAIN c.themes
    BY DEF Listed
  <2> QED BY <2>1, <2>2, FS_Subset
<1>2. Cardinality(S) \in Nat
  BY <1>1, FS_CardinalityType
<1>3. SeasonList(c) = [i \in 1..Cardinality(S) |-> CHOOSE n \in S : Rank(S, n) = i - 1]
  BY DEF SeasonList
<1>4. ASSUME NEW i \in 1..Cardinality(S)
      PROVE  SeasonList(c)[i] \in S /\ Rank(S, SeasonList(c)[i]) = i - 1
  <2>1. \E n \in S : Rank(S, n) = i - 1
    BY <1>1, <1>2, RankReached
  <2> HIDE DEF S
  <2> QED BY <1>3, <2>1
<1>5. Len(SeasonList(c)) = Cardinality(S)
  <2> HIDE DEF S
  <2> QED BY <1>2, <1>3
<1> QED BY <1>1, <1>2, <1>3, <1>4, <1>5

(* The rotation picks one of the list. *)
LEMMA MonthsCounted ==
  ASSUME NEW a \in Months, NEW d \in Months
  PROVE  MonthsSince(a, d) \in Int /\ MonthsRun(a, d) \in Nat
BY DEF MonthsSince, MonthsRun, Months

LEMMA MonthAfterIs ==
  ASSUME NEW d \in Months, NEW a \in Months
  PROVE  /\ MonthAfter(d) \in Months
         /\ MonthsSince(a, MonthAfter(d)) = MonthsSince(a, d) + 1
<1>1. d.year \in Nat /\ d.month \in 1..12 /\ d = [year |-> d.year, month |-> d.month]
  BY DEF Months
<1>2. a.year \in Nat /\ a.month \in 1..12
  BY DEF Months
<1>3. CASE d.month = 12
  BY <1>1, <1>2, <1>3 DEF MonthAfter, MonthsSince, Months
<1>4. CASE d.month # 12
  <2>1. MonthAfter(d) = [year |-> d.year, month |-> d.month + 1]
    BY <1>1, <1>4 DEF MonthAfter
  <2> QED BY <1>1, <1>2, <1>4, <2>1 DEF MonthsSince, Months
<1> QED BY <1>3, <1>4

LEMMA Remainder ==
  ASSUME NEW n \in Nat, NEW k \in Nat, k # 0
  PROVE  n % k \in 0..(k - 1)
OBVIOUS

LEMMA RotatedListed ==
  ASSUME NEW c \in Configs, NEW d \in Months, SeasonList(c) # <<>>
  PROVE  Rotated(SeasonList(c), c, d) \in Listed(c)
<1> DEFINE k == Cardinality(Listed(c))
           n == MonthsRun(c.anchor, d)
<1>1. n \in Nat
  BY MonthsCounted, SettingsAssumption DEF Configs
<1>2. k \in Nat /\ k # 0
  <2>1. k \in Nat /\ DOMAIN SeasonList(c) = 1..k
    BY ListInOrder
  <2>2. ASSUME k = 0 PROVE FALSE
    <3>1. SeasonList(c) = <<>>
      BY <2>1, <2>2 DEF SeasonList
    <3> QED BY <3>1
  <2> QED BY <2>1, <2>2
<1>3. (n % k) + 1 \in 1..k
  <2> HIDE DEF k, n
  <2>1. n % k \in 0..(k - 1)
    BY <1>1, <1>2, Remainder
  <2> QED BY <1>2, <2>1
<1> QED BY <1>3, ListInOrder DEF Rotated

(* The shipped file says the same when it is read as the operator's. *)
LEMMA ShippedLoaded == Loaded(Shipped) = Shipped
<1>1. Over(Shipped, Shipped) = Shipped
  BY SeasonsAssumption DEF Over
<1>2. Over(Shipped.themes, Shipped.themes) = Shipped.themes
  BY SeasonsAssumption DEF Over
<1>3. [Shipped EXCEPT !.themes = Shipped.themes] = Shipped
  BY SeasonsAssumption
<1> QED BY <1>1, <1>2, <1>3 DEF Loaded

(* A missing file that is created changes nothing that is served. *)
LEMMA CreatedSame ==
  ASSUME file \in Files \cup {Shipped, Broken, Missing}, file' = Created
  PROVE  /\ Parses' = Parses
         /\ Parses => PubConfig' = PubConfig
         /\ file' \in Files \cup {Shipped, Broken, Missing}
BY SeasonsAssumption, ShippedLoaded DEF Created, Parses, PubConfig

LEMMA PubConfigKnown ==
  ASSUME file \in Files \cup {Shipped, Broken, Missing}, Parses
  PROVE  PubConfig \in Configs
BY ShippedLoaded DEF Parses, PubConfig, Configs

(* No configuration tells a season or events that read as absent. *)
LEMMA EffectiveThere ==
  ASSUME NEW c \in Configs, NEW d \in Months, NEW n \in Names
  PROVE  Effective(c, d)[n] # Absent
<1>1. /\ c.season \in Nat /\ c.anchor \in Months /\ c.events \subseteq Events
      /\ \A k \in DOMAIN c.themes : c.themes[k] \subseteq Events
  BY SettingsAssumption DEF Configs
<1>2. Season(c, d) \in Nat
  BY <1>1, ListInOrder, RotatedListed DEF Season
<1>3. EventsOn(c, d) \subseteq Events
  BY <1>1 DEF EventsOn, Theme
<1> QED BY <1>2, <1>3, SettingsAssumption, NamesListed DEF Effective

LEMMA AnswerThere ==
  ASSUME Shapes, CopiesThere, complete, NEW n \in Names
  PROVE  Answer(n) # Absent
<1>1. CASE Generated(n)
  BY <1>1, PubConfigKnown, EffectiveThere DEF Shapes, Generated, Answer
<1>2. CASE ~Generated(n)
  BY <1>2 DEF Answer, CopiesThere
<1> QED BY <1>1, <1>2

(* The current date has been, and what has been stays so.                     *)
LEMMA DatePassed ==
  ASSUME Shapes
  PROVE  date \in Passed
<1>1. /\ date.year \in Nat /\ date.month \in 1..12
      /\ date = [year |-> date.year, month |-> date.month]
      /\ FirstMonth.year \in Nat /\ FirstMonth.month \in 1..12
  BY SeasonsAssumption DEF Shapes, Months
<1>2. (date.year - FirstMonth.year) * 12 + date.month - FirstMonth.month >= 0
  BY DEF Shapes, MonthsSince
<1>3. FirstMonth.year <= date.year
  BY <1>1, <1>2
<1>4. date \in [year : FirstMonth.year .. date.year, month : 1..12]
  BY <1>1, <1>3
<1>5. MonthsSince(date, date) = 0
  BY <1>1 DEF MonthsSince
<1> QED BY <1>4, <1>5 DEF Passed, Shapes

LEMMA PassedStays ==
  ASSUME Shapes, date' \in {date, MonthAfter(date)}
  PROVE  Passed \subseteq Passed'
<1>1. CASE date' = date
  BY <1>1 DEF Passed
<1>2. CASE date' = MonthAfter(date)
  <2> SUFFICES ASSUME NEW d \in Passed PROVE d \in Passed'
    OBVIOUS
  <2>1. /\ date \in Months /\ FirstMonth \in Months
        /\ date.year \in Nat /\ FirstMonth.year \in Nat
    BY SeasonsAssumption DEF Shapes, Months
  <2>2. d \in Months /\ d.year \in FirstMonth.year .. date.year
    BY <2>1 DEF Passed, Months
  <2>3. MonthAfter(date) \in Months /\ MonthsSince(d, MonthAfter(date)) = MonthsSince(d, date) + 1
    BY <2>1, <2>2, MonthAfterIs
  <2>4. MonthsSince(FirstMonth, d) >= 0 /\ MonthsSince(d, date) >= 0 /\ MonthsSince(d, date) \in Int
    BY <2>1, <2>2, MonthsCounted DEF Passed
  <2>5. date'.year \in Nat /\ date.year <= date'.year
    BY <1>2, <2>1 DEF MonthAfter, Months
  <2>6. d \in [year : FirstMonth.year .. date'.year, month : 1..12]
    BY <2>1, <2>2, <2>5 DEF Passed
  <2> QED BY <1>2, <2>3, <2>4, <2>6 DEF Passed
<1> QED BY <1>1, <1>2

(* Histories and copies that nobody touches are as good a moment later.      *)
LEMMA SeenStays ==
  ASSUME Shapes, SeenHonest, seen' = seen, date' \in {date, MonthAfter(date)}
  PROVE  SeenHonest'
<1> SUFFICES ASSUME NEW c \in Clients, seen[c] # Unasked
             PROVE  MonthsSince(seen[c].date, date') >= 0
  BY DEF SeenHonest
<1>1. /\ seen[c].date \in Months /\ MonthsSince(seen[c].date, date) >= 0
      /\ MonthsSince(seen[c].date, date) \in Int
  BY MonthsCounted DEF SeenHonest, Shapes
<1>2. MonthsSince(seen[c].date, MonthAfter(date)) = MonthsSince(seen[c].date, date) + 1
  BY <1>1, MonthAfterIs DEF Shapes
<1> QED BY <1>1, <1>2

LEMMA JobStays ==
  ASSUME Shapes, JobOfOne, UNCHANGED <<job, disk>>, date' \in {date, MonthAfter(date)}
  PROVE  JobOfOne'
BY PassedStays DEF JobOfOne

LEMMA CopiesStay ==
  ASSUME Shapes, CopiesWhole, UNCHANGED <<disk, complete, torn>>,
         date' \in {date, MonthAfter(date)}
  PROVE  CopiesWhole'
BY PassedStays DEF CopiesWhole, CopiesOfOne

(* What pubfiles.json says while it parses, whether it is there or not. *)
LEMMA CreatedLoads ==
  ASSUME file \in Files \cup {Shipped, Broken, Missing}, Parses
  PROVE  Created \in Files \cup {Shipped} /\ PubConfig = Loaded(Created)
BY ShippedLoaded DEF Created, Parses, PubConfig

LEMMA NoJobHere ==
  ASSUME job' = NoJob
  PROVE  JobOfOne'
BY DEF JobOfOne

LEMMA SeasonsInit == Init => IInv
<1> SUFFICES ASSUME Init PROVE IInv
  OBVIOUS
<1>1. Shapes
  <2>1. MonthsSince(FirstMonth, FirstMonth) = 0
    BY SeasonsAssumption DEF MonthsSince, Months
  <2> QED BY <2>1, SeasonsAssumption DEF Init, Shapes
<1>2. SeenHonest
  BY DEF Init, SeenHonest
<1>3. JobOfOne
  BY DEF Init, JobOfOne
<1>4. CopiesWhole
  BY DEF Init, CopiesWhole
<1>5. CopiesThere
  BY DEF Init, CopiesThere
<1> QED BY <1>1, <1>2, <1>3, <1>4, <1>5 DEF IInv

-----------------------------------------------------------------------------
(* Requests. *)
LEMMA RequestStep ==
  ASSUME IInv, RiftFile \/ \E c \in Clients, n \in Names : PublisherFile(c, n)
  PROVE  IInv'
<1> USE DEF IInv
<1>1. UNCHANGED <<date, week, disk, job, complete, torn>> /\ file' \in {file, Created}
  BY DEF RiftFile, PublisherFile
<1>2. file' \in Files \cup {Shipped, Broken, Missing}
  BY <1>1, CreatedSame DEF Shapes
<1>3. /\ seen' = [c \in Clients |-> seen'[c]]
      /\ SeenHonest'
  <2>1. CASE seen' = seen
    BY <1>1, <2>1, SeenStays DEF Shapes
  <2>2. ASSUME NEW c \in Clients, NEW n \in Names, Generated(n), file' = Created,
               seen' = [seen EXCEPT ![c] = [name |-> n, said |-> Answer(n),
                                            file |-> file', date |-> date]]
        PROVE  <1>3!1 /\ <1>3!2
    <3> DEFINE q == [name |-> n, said |-> Answer(n), file |-> file', date |-> date]
    <3>1. n \in Told /\ Parses
      BY <2>2, NamesListed DEF Generated, Told
    <3>2. file' \in Files \cup {Shipped} /\ PubConfig = Loaded(file')
      BY <2>2, <3>1, CreatedLoads DEF Shapes
    <3>3. Answer(n) = Effective(Loaded(file'), date)[n]
      BY <2>2, <3>2 DEF Answer
    <3>4. MonthsSince(date, date) = 0
      BY DEF MonthsSince, Shapes, Months
    <3>5. seen' = [seen EXCEPT ![c] = q]
      BY <2>2
    <3>6. seen'[c] = q /\ \A e \in Clients \ {c} : seen'[e] = seen[e]
      BY <3>5 DEF Shapes
    <3>7. SeenHonest'
      BY <1>1, <3>1, <3>2, <3>3, <3>4, <3>6 DEF SeenHonest, Shapes
    <3> QED BY <3>5, <3>7 DEF Shapes
  <2>3. \/ seen' = seen
        \/ \E c \in Clients, n \in Names :
              /\ Generated(n) /\ file' = Created
              /\ seen' = [seen EXCEPT ![c] = [name |-> n, said |-> Answer(n),
                                              file |-> file', date |-> date]]
    BY DEF RiftFile, PublisherFile, Generated
  <2> QED BY <2>1, <2>2, <2>3
<1>4. Shapes'
  BY <1>1, <1>2, <1>3 DEF Shapes
<1>5. JobOfOne' /\ CopiesWhole' /\ CopiesThere'
  BY <1>1, JobStays, CopiesStay DEF CopiesThere
<1> QED BY <1>3, <1>4, <1>5

(* The start of a run of writePubfiles. *)
LEMMA BeginStep ==
  ASSUME IInv, NEW boot \in BOOLEAN, Begin(boot)
  PROVE  IInv'
<1> USE DEF IInv
<1>1. UNCHANGED <<date, week, disk, seen, complete, torn>> /\ file' = Created
  BY DEF Begin
<1>2. file' \in Files \cup {Shipped, Broken, Missing}
  BY <1>1, CreatedSame DEF Shapes
<1>3. Shapes' /\ SeenHonest' /\ CopiesWhole'
  BY <1>1, <1>2, SeenStays, CopiesStay DEF Shapes
<1>4. JobOfOne' /\ CopiesThere'
  <2>1. CASE Parses
    <3>1. job' = [boot |-> boot, eff |-> Effective(PubConfig, date), todo |-> Copies]
      BY <2>1 DEF Begin
    <3>2. /\ Created \in Files \cup {Shipped} /\ PubConfig = Loaded(Created)
          /\ PubConfig \in Configs
      BY <2>1, CreatedLoads, PubConfigKnown DEF Shapes
    <3>3. \E f \in Files \cup {Shipped}, d \in Passed' : job'.eff = Effective(Loaded(f), d)
      <4>1. date \in Passed'
        BY <1>1, DatePassed, PassedStays
      <4> QED BY <3>1, <3>2, <4>1
    <3>4. job'.todo = Copies /\ Copies # <<"seasons">>
      BY <3>1 DEF Copies
    <3>5. JobOfOne'
      BY <3>3, <3>4 DEF JobOfOne
    <3>6. \A n \in Names : job'.eff[n] # Absent
      BY <3>1, <3>2, EffectiveThere DEF Shapes
    <3> QED BY <1>1, <3>4, <3>5, <3>6 DEF CopiesThere
  <2>2. CASE ~Parses
    BY <1>1, <2>2, NoJobHere DEF Begin, CopiesThere
  <2> QED BY <2>1, <2>2
<1> QED BY <1>3, <1>4

(* One copy after the other. *)
LEMMA CopiesLeft ==
  /\ Tail(Copies) = <<"config", "seasons">>
  /\ Tail(<<"config", "seasons">>) = <<"seasons">>
  /\ <<"config", "seasons">> # <<>> /\ <<"seasons">> # <<>>
<1>1. Tail(Copies) = <<"config", "seasons">>
  BY DEF Copies
<1>2. Tail(<<"config", "seasons">>) = <<"seasons">>
  OBVIOUS
<1> QED BY <1>1, <1>2

LEMMA WriteMore ==
  ASSUME WriteCopy, Tail(job.todo) # <<>>
  PROVE  job' = [job EXCEPT !.todo = Tail(job.todo)] /\ torn' = TRUE
BY DEF WriteCopy

LEMMA WriteStep == ASSUME IInv, WriteCopy PROVE IInv'
<1> USE DEF IInv
<1>1. UNCHANGED <<date, week, file, seen>> /\ job # NoJob
  BY DEF WriteCopy
<1>2. disk' = [disk EXCEPT ![Head(job.todo)] = job.eff[Head(job.todo)]]
  BY DEF WriteCopy, Made
<1>3. complete' = (complete \/ Tail(job.todo) = <<>>)
  BY DEF WriteCopy
<1>4. \A n \in Names : disk'[n] # Absent \/ (n # Head(job.todo) /\ disk'[n] = disk[n])
  BY <1>1, <1>2 DEF Shapes, CopiesThere
<1>5. Copies # <<"config", "seasons">> /\ Copies # <<"seasons">>
      /\ <<"config", "seasons">> # <<"seasons">> /\ Head(Copies) = "blacklist"
  BY DEF Copies
<1>6. Shapes' /\ SeenHonest'
  BY <1>1, <1>2, SeenStays DEF Shapes
<1>7. PICK f \in Files \cup {Shipped}, d \in Passed : job.eff = Effective(Loaded(f), d)
  BY <1>1 DEF JobOfOne
<1>8. d \in Passed'
  BY <1>1, PassedStays
<1>9. CASE job.todo = Copies
  <2>1. job' = [job EXCEPT !.todo = <<"config", "seasons">>] /\ torn' = TRUE
    BY <1>9, CopiesLeft, WriteMore
  <2>2. job'.todo = <<"config", "seasons">> /\ job'.eff = job.eff
    BY <2>1, <1>1, <1>9 DEF JobOfOne
  <2>3. CopiesThere'
    BY <1>1, <1>3, <1>4, <1>5, <1>9, <2>2, CopiesLeft, NamesListed DEF CopiesThere
  <2>4. disk'["blacklist"] = job.eff["blacklist"]
    BY <1>2, <1>5, <1>9, NamesListed DEF Shapes
  <2>5. JobOfOne'
    BY <1>5, <1>7, <1>8, <2>2, <2>4 DEF JobOfOne
  <2> QED BY <1>6, <2>1, <2>3, <2>5 DEF CopiesWhole
<1>10. CASE job.todo = <<"config", "seasons">>
  <2>1. job' = [job EXCEPT !.todo = <<"seasons">>] /\ torn' = TRUE
    BY <1>10, CopiesLeft, WriteMore
  <2>2. job'.todo = <<"seasons">> /\ job'.eff = job.eff
    BY <2>1, <1>1, <1>10 DEF JobOfOne
  <2>3. disk'["config"] = job.eff["config"] /\ disk'["blacklist"] = job.eff["blacklist"]
    BY <1>1, <1>2, <1>5, <1>10, NamesListed DEF Shapes, JobOfOne
  <2>4. CopiesThere'
    BY <1>1, <1>3, <1>4, <1>5, <1>10, <2>2, <2>3, CopiesLeft, NamesListed DEF CopiesThere
  <2>5. JobOfOne'
    BY <1>5, <1>7, <1>8, <2>2, <2>3 DEF JobOfOne
  <2> QED BY <1>6, <2>1, <2>4, <2>5 DEF CopiesWhole
<1>11. CASE job.todo = <<"seasons">>
  <2>1. job' = NoJob
    BY <1>11 DEF WriteCopy
  <2>2. \A n \in Names : disk'[n] = job.eff[n]
    BY <1>1, <1>2, <1>5, <1>11, NamesListed DEF Shapes, JobOfOne
  <2>3. CopiesWhole'
    BY <1>7, <1>8, <2>2 DEF CopiesWhole, CopiesOfOne
  <2>4. CopiesThere'
    BY <1>1, <1>4, <1>5, <1>11, <2>1, NamesListed DEF CopiesThere
  <2> QED BY <1>6, <2>1, <2>3, <2>4, NoJobHere
<1> QED BY <1>1, <1>9, <1>10, <1>11 DEF JobOfOne

(* A run that ends early, by an error or with the server. *)
LEMMA InterruptedStep ==
  ASSUME IInv, job # NoJob, Interrupted, job' = NoJob, UNCHANGED <<date, week, file, seen, complete>>
  PROVE  IInv'
<1> USE DEF IInv
<1>1. CASE UNCHANGED <<disk, torn>>
  BY <1>1, SeenStays, CopiesStay, NoJobHere DEF Shapes, CopiesThere
<1>2. CASE disk' = [disk EXCEPT ![Head(job.todo)] = Cut] /\ torn' = TRUE
  <2>1. Shapes' /\ SeenHonest' /\ JobOfOne' /\ CopiesWhole'
    BY <1>2, SeenStays, NoJobHere DEF Shapes, CopiesWhole
  <2>2. CopiesThere'
    BY <1>2, SettingsAssumption DEF Shapes, CopiesThere
  <2> QED BY <2>1, <2>2
<1> QED BY <1>1, <1>2 DEF Interrupted

(* What leaves the copies and the run of writePubfiles alone. *)
LEMMA QuietStep ==
  ASSUME IInv, UNCHANGED <<disk, job, seen, complete, torn>>,
         week' \in Nat, file' \in Files \cup {Shipped, Broken, Missing},
         date' \in {date, MonthAfter(date)}
  PROVE  IInv'
<1> USE DEF IInv
<1>1. date' \in Months /\ MonthsSince(FirstMonth, date') >= 0
  <2>1. MonthAfter(date) \in Months /\ MonthsSince(FirstMonth, MonthAfter(date)) = MonthsSince(FirstMonth, date) + 1
    BY SeasonsAssumption, MonthAfterIs DEF Shapes
  <2>2. MonthsSince(FirstMonth, date) \in Int
    BY SeasonsAssumption, MonthsCounted DEF Shapes
  <2> QED BY <2>1, <2>2 DEF Shapes
<1>2. Shapes' /\ SeenHonest' /\ JobOfOne' /\ CopiesWhole' /\ CopiesThere'
  BY <1>1, SeenStays, JobStays, CopiesStay DEF Shapes, CopiesThere
<1> QED BY <1>2

LEMMA StopStep == ASSUME IInv, Stop PROVE IInv'
<1>1. CASE job.boot
  <2>1. job # NoJob
    BY <1>1 DEF NoJob
  <2> QED BY <1>1, <2>1, InterruptedStep DEF Stop
<1>2. CASE ~job.boot
  BY <1>2, QuietStep DEF Stop, IInv, Shapes
<1> QED BY <1>1, <1>2

(* The operator and the calendar. *)
LEMMA WorldStep == ASSUME IInv, Edit \/ NextMonth \/ NextWeek PROVE IInv'
<1>1. file \in Files \cup {Shipped, Broken, Missing} /\ week \in Nat
  BY DEF IInv, Shapes
<1>2. CASE Edit
  BY <1>1, <1>2, QuietStep DEF Edit
<1>3. CASE NextMonth
  BY <1>1, <1>3, QuietStep DEF NextMonth
<1>4. CASE NextWeek
  BY <1>1, <1>4, QuietStep DEF NextWeek
<1> QED BY <1>2, <1>3, <1>4

LEMMA SeasonsStep == IInv /\ [Next]_vars => IInv'
<1> SUFFICES ASSUME IInv, [Next]_vars PROVE IInv'
  OBVIOUS
<1>1. CASE RiftFile \/ \E c \in Clients, n \in Names : PublisherFile(c, n)
  BY <1>1, RequestStep
<1>2. CASE Boot \/ Command
  BY <1>2, BeginStep DEF Boot, Command
<1>3. CASE WriteCopy
  BY <1>3, WriteStep
<1>4. CASE WriteFails
  BY <1>4, InterruptedStep DEF WriteFails
<1>5. CASE Stop
  BY <1>5, StopStep
<1>6. CASE Edit \/ NextMonth \/ NextWeek
  BY <1>6, WorldStep
<1>7. CASE UNCHANGED vars
  BY <1>7, QuietStep DEF vars, IInv, Shapes
<1> QED BY <1>1, <1>2, <1>3, <1>4, <1>5, <1>6, <1>7 DEF Next

-----------------------------------------------------------------------------
LEMMA FlagsStep == IInv /\ Flags /\ [Next]_vars => Flags'
<1> SUFFICES ASSUME IInv, Flags, [Next]_vars PROVE Flags'
  OBVIOUS
<1>1. CASE RiftFile \/ \E c \in Clients, n \in Names : PublisherFile(c, n)
  BY <1>1 DEF RiftFile, PublisherFile, Flags
<1>2. ASSUME NEW boot \in BOOLEAN, Begin(boot) PROVE Flags'
  <2>1. UNCHANGED <<week, complete, torn>> /\ up' \in BOOLEAN
    BY <1>2 DEF Begin, Flags
  <2>2. ASSUME job' # NoJob PROVE job' = [boot |-> boot, eff |-> Effective(PubConfig, date), todo |-> Copies]
    BY <1>2, <2>2 DEF Begin
  <2>3. DOMAIN Effective(PubConfig, date) = Names
    BY NamesListed DEF Effective
  <2> QED BY <2>1, <2>2, <2>3 DEF Flags
<1>3. CASE WriteCopy
  <2>1. job' = NoJob \/ (job # NoJob /\ job' = [job EXCEPT !.todo = Tail(job.todo)])
    BY <1>3 DEF WriteCopy
  <2>2. job' # NoJob => job # NoJob /\ job' = [boot |-> job.boot, eff |-> job.eff, todo |-> job'.todo]
    BY <2>1 DEF Flags
  <2>3. UNCHANGED week /\ up' \in BOOLEAN /\ complete' \in BOOLEAN /\ torn' \in BOOLEAN
    BY <1>3 DEF WriteCopy, Flags
  <2> QED BY <2>1, <2>2, <2>3 DEF Flags
<1>4. CASE WriteFails
  <2>1. job' = NoJob /\ UNCHANGED <<week, complete>> /\ up' \in BOOLEAN /\ torn' \in BOOLEAN
    BY <1>4 DEF WriteFails, Interrupted, Flags
  <2> QED BY <2>1 DEF Flags
<1>5. CASE Stop
  <2>1. job' \in {job, NoJob} /\ UNCHANGED <<week, complete>> /\ up' = FALSE /\ torn' \in BOOLEAN
    BY <1>5 DEF Stop, Interrupted, Flags
  <2> QED BY <2>1 DEF Flags
<1>6. CASE Edit \/ NextMonth
  BY <1>6 DEF Edit, NextMonth, Flags
<1>7. CASE NextWeek
  BY <1>7, SeasonsAssumption DEF NextWeek, Flags
<1>8. CASE UNCHANGED vars
  BY <1>8 DEF vars, Flags
<1> QED BY <1>1, <1>2, <1>3, <1>4, <1>5, <1>6, <1>7, <1>8 DEF Next, Boot, Command

LEMMA CopiesEnd ==
  ASSUME NEW s \in {Copies, <<"config", "seasons">>, <<"seasons">>}
  PROVE  s # <<>> /\ IsSuffix(s, Copies)
<1>1. Reverse(Copies) = <<"seasons", "config", "blacklist">>
  BY DEF Copies, Reverse
<1>2. CASE s = Copies
  BY <1>1, <1>2 DEF IsSuffix, IsPrefix, Copies
<1>3. CASE s = <<"config", "seasons">>
  <2>1. Reverse(s) = <<"seasons", "config">>
    BY <1>3 DEF Reverse
  <2> QED BY <1>1, <1>3, <2>1 DEF IsSuffix, IsPrefix
<1>4. CASE s = <<"seasons">>
  <2>1. Reverse(s) = <<"seasons">>
    BY <1>4 DEF Reverse
  <2> QED BY <1>1, <1>4, <2>1 DEF IsSuffix, IsPrefix
<1> QED BY <1>2, <1>3, <1>4

(* Every setting, copy, run and answer has the shape the code's types give  *)
(* it.                                                                      *)
THEOREM TypeCorrect == Spec => []TypeOK
<1>1. Init => Flags
  <2> SUFFICES ASSUME Init PROVE Flags
    OBVIOUS
  <2>1. week \in 0..MaxWeeks
    BY SeasonsAssumption DEF Init
  <2> QED BY <2>1 DEF Init, Flags
<1>2. IInv /\ Flags => TypeOK
  <2> SUFFICES ASSUME IInv, Flags PROVE TypeOK
    OBVIOUS
  <2>1. date.year \in Nat /\ date.month \in 1..12
    BY DEF IInv, Shapes, Months
  <2>2. file \in Files \cup {Shipped, Broken, Missing} /\ DOMAIN disk = Names
    BY DEF IInv, Shapes
  <2>3. \A c \in Clients :
           seen[c] # Unasked => DOMAIN seen[c] = {"name", "said", "file", "date"}
    <3> SUFFICES ASSUME NEW c \in Clients, seen[c] # Unasked
                 PROVE  DOMAIN seen[c] = {"name", "said", "file", "date"}
      OBVIOUS
    <3> DEFINE q == [name |-> seen[c].name, said |-> seen[c].said,
                     file |-> seen[c].file, date |-> seen[c].date]
    <3>1. seen[c] = q
      BY DEF IInv, SeenHonest
    <3>2. DOMAIN q = {"name", "said", "file", "date"}
      OBVIOUS
    <3> HIDE DEF q
    <3> QED BY <3>1, <3>2
  <2>4. job # NoJob => /\ job.boot \in BOOLEAN
                      /\ job.todo # <<>> /\ IsSuffix(job.todo, Copies)
                      /\ DOMAIN job.eff = Names
    BY CopiesEnd DEF IInv, JobOfOne, Flags
  <2> QED BY <2>1, <2>2, <2>3, <2>4 DEF Flags, TypeOK
<1> QED BY <1>1, <1>2, SeasonsInit, SeasonsStep, FlagsStep, PTL DEF Spec

(* publisherFile and writePubfiles: once every copy has been written, no    *)
(* request is answered as absent again, whatever becomes of pubfiles.json,  *)
(* through restarts and runs that fail half-way, and the copies are of one  *)
(* configuration and one date unless the last run that wrote did not end.   *)
THEOREM FilesFound == Spec => []Answered
<1>1. IInv => Answered
  BY AnswerThere DEF IInv, Answered, CopiesWhole
<1> QED BY <1>1, SeasonsInit, SeasonsStep, PTL DEF Spec

-----------------------------------------------------------------------------
(* The order of the rotations. *)
LEMMA NextRemainder ==
  ASSUME NEW n \in Nat, NEW k \in Nat, k # 0
  PROVE  (n + 1) % k = IF (n % k) + 1 = k THEN 0 ELSE (n % k) + 1
<1> DEFINE q == n \div k
           r == n % k
           p == (n + 1) \div k
           s == (n + 1) % k
<1>1. q \in Int /\ r \in 0..(k - 1) /\ n = k * q + r
  OBVIOUS
<1>2. p \in Int /\ s \in 0..(k - 1) /\ n + 1 = k * p + s
  OBVIOUS
<1> HIDE DEF q, r, p, s
<1>3. k * (p - q) = r + 1 - s
  BY <1>1, <1>2
<1>4. CASE p = q
  BY <1>1, <1>2, <1>4
<1>5. CASE p > q
  <2>1. k * (p - q) >= k
    <3>1. p - q \in Nat /\ p - q >= 1
      BY <1>1, <1>2, <1>5
    <3> QED BY <3>1
  <2> QED BY <1>1, <1>2, <1>3, <2>1
<1>6. CASE p < q
  <2>1. k * (p - q) <= -k
    <3>1. q - p \in Nat /\ q - p >= 1
      BY <1>1, <1>2, <1>6
    <3>2. k * (q - p) >= k
      BY <3>1
    <3> QED BY <1>1, <1>2, <3>2
  <2> QED BY <1>1, <1>2, <1>3, <2>1
<1>7. s = IF r + 1 = k THEN 0 ELSE r + 1
  BY <1>1, <1>2, <1>4, <1>5, <1>6
<1> QED BY <1>7 DEF r, s

LEMMA RankOrders ==
  ASSUME NEW S, IsFiniteSet(S), S \subseteq Nat, NEW m \in S, NEW n \in S
  PROVE  Rank(S, m) < Rank(S, n) <=> m < n
<1>1. m < n => Rank(S, m) < Rank(S, n)
  BY RankRises
<1>2. n < m => Rank(S, n) < Rank(S, m)
  BY RankRises
<1>3. Rank(S, m) \in 0..(Cardinality(S) - 1) /\ Rank(S, n) \in 0..(Cardinality(S) - 1)
  BY RankRises
<1>4. m \in Nat /\ n \in Nat /\ Cardinality(S) \in Nat
  BY FS_CardinalityType
<1> QED BY <1>1, <1>2, <1>3, <1>4

(* The number that follows has the next rank, or the first after the last.  *)
LEMMA FollowsRank ==
  ASSUME NEW S, IsFiniteSet(S), S \subseteq Nat, NEW n \in S, NEW m \in S,
         Rank(S, m) = IF Rank(S, n) + 1 = Cardinality(S) THEN 0 ELSE Rank(S, n) + 1
  PROVE  Follows(S, n) = m
<1> DEFINE later == {k \in S : k > n}
<1>1. \A k \in S : Rank(S, k) \in 0..(Cardinality(S) - 1)
  BY RankRises
<1>2. Cardinality(S) \in Nat
  BY FS_CardinalityType
<1>3. \A j, k \in S : Rank(S, j) < Rank(S, k) <=> j < k
  BY RankOrders
<1>4. CASE Rank(S, n) + 1 = Cardinality(S)
  <2>1. later = {}
    <3> SUFFICES ASSUME NEW k \in S, k > n PROVE FALSE
      OBVIOUS
    <3>1. n < k /\ k \in Nat /\ n \in Nat
      OBVIOUS
    <3>2. Rank(S, n) < Rank(S, k)
      BY <1>3, <3>1
    <3> QED BY <1>1, <1>2, <1>4, <3>2
  <2>2. \A j \in S : m <= j
    BY <1>1, <1>2, <1>3, <1>4
  <2>3. \A k \in S : (\A j \in S : k <= j) => k = m
    BY <2>2
  <2>4. m = CHOOSE k \in S : \A j \in S : k <= j
    BY <2>2, <2>3
  <2> QED BY <2>1, <2>4 DEF Follows
<1>5. CASE Rank(S, n) + 1 # Cardinality(S)
  <2>1. m \in later
    BY <1>1, <1>2, <1>3, <1>5
  <2>2. \A j \in later : m <= j
    BY <1>1, <1>2, <1>3, <1>5
  <2>3. \A k \in later : (\A j \in later : k <= j) => k = m
    BY <2>1, <2>2
  <2>4. m = CHOOSE k \in later : \A j \in later : k <= j
    BY <2>1, <2>2, <2>3
  <2> QED BY <2>1, <2>4 DEF Follows
<1> QED BY <1>4, <1>5

LEMMA ListedAll ==
  ASSUME NEW c \in Configs
  PROVE  ToSet(SeasonList(c)) = Listed(c)
<1> DEFINE S == Listed(c)
<1>1. ToSet(SeasonList(c)) = {SeasonList(c)[i] : i \in 1..Cardinality(S)}
  BY ListInOrder DEF ToSet
<1>2. ASSUME NEW n \in S PROVE \E i \in 1..Cardinality(S) : SeasonList(c)[i] = n
  <2> HIDE DEF S
  <2>1. S \subseteq Nat /\ IsFiniteSet(S) /\ Cardinality(S) \in Nat
    BY ListInOrder DEF S
  <2>2. Rank(S, n) \in 0..(Cardinality(S) - 1)
    BY <1>2, <2>1, RankRises
  <2>3. Rank(S, n) + 1 \in 1..Cardinality(S)
    BY <2>1, <2>2
  <2> DEFINE m == SeasonList(c)[Rank(S, n) + 1]
  <2>4. m \in S /\ Rank(S, m) = Rank(S, n)
    <3>1. m \in S /\ Rank(S, m) = (Rank(S, n) + 1) - 1
      BY <2>3, ListInOrder DEF S
    <3> QED BY <2>2, <3>1
  <2>5. m = n
    <3> HIDE DEF m
    <3>1. (Rank(S, m) < Rank(S, n) <=> m < n) /\ (Rank(S, n) < Rank(S, m) <=> n < m)
      BY <1>2, <2>1, <2>4, RankOrders
    <3> QED BY <1>2, <2>1, <2>2, <2>4, <3>1
  <2> QED BY <2>3, <2>5
<1> QED BY <1>1, <1>2, ListInOrder

LEMMA SeasonFollows ==
  ASSUME NEW c \in Configs, NEW d \in Months, c.rotation, Listed(c) # {}
  PROVE  Season(c, MonthAfter(d)) =
            IF MonthsSince(c.anchor, d) >= 0 THEN Follows(Listed(c), Season(c, d))
            ELSE Season(c, d)
<1> DEFINE S == Listed(c)
           k == Cardinality(S)
           x == MonthsSince(c.anchor, d)
           At(n) == SeasonList(c)[(n % k) + 1]
<1>1. c.anchor \in Months
  BY SettingsAssumption DEF Configs
<1>2. x \in Int /\ MonthAfter(d) \in Months /\ MonthsSince(c.anchor, MonthAfter(d)) = x + 1
  BY <1>1, MonthsCounted, MonthAfterIs
<1>3. S \subseteq Nat /\ IsFiniteSet(S) /\ k \in Nat /\ k # 0
  BY ListInOrder, FS_EmptySet
<1>4. SeasonList(c) # <<>>
  <2>1. Len(SeasonList(c)) = k
    BY ListInOrder
  <2> HIDE DEF k
  <2> QED BY <1>3, <2>1
<1>5. Season(c, d) = At(MonthsRun(c.anchor, d))
      /\ Season(c, MonthAfter(d)) = At(MonthsRun(c.anchor, MonthAfter(d)))
  BY <1>4, ListInOrder DEF Season, Rotated
<1>6. CASE x >= 0
  <2>1. MonthsRun(c.anchor, d) = x /\ MonthsRun(c.anchor, MonthAfter(d)) = x + 1 /\ x \in Nat
    BY <1>2, <1>6 DEF MonthsRun
  <2>2. \A n \in Nat : At(n) \in S /\ Rank(S, At(n)) = n % k
    <3> TAKE n \in Nat
    <3> DEFINE r == n % k
    <3>1. r \in 0..(k - 1)
      <4> HIDE DEF k
      <4> QED BY <1>3, Remainder
    <3> HIDE DEF r
    <3>2. r + 1 \in 1..k /\ (r + 1) - 1 = r
      <4> HIDE DEF k
      <4> QED BY <1>3, <3>1
    <3>3. SeasonList(c)[r + 1] \in S /\ Rank(S, SeasonList(c)[r + 1]) = (r + 1) - 1
      BY <3>2, ListInOrder
    <3> QED BY <3>2, <3>3 DEF r
  <2>3. (x + 1) % k = IF (x % k) + 1 = k THEN 0 ELSE (x % k) + 1
    <3> HIDE DEF k, x
    <3> QED BY <1>3, <2>1, NextRemainder
  <2>4. Follows(S, At(x)) = At(x + 1)
    <3>1. /\ At(x) \in S /\ Rank(S, At(x)) = x % k
          /\ At(x + 1) \in S /\ Rank(S, At(x + 1)) = (x + 1) % k
      <4> HIDE DEF S, k, x, At
      <4> QED BY <2>1, <2>2
    <3> HIDE DEF S, x, At
    <3> QED BY <1>3, <2>3, <3>1, FollowsRank
  <2> QED BY <1>5, <1>6, <2>1, <2>4
<1>7. CASE ~(x >= 0)
  <2>1. MonthsRun(c.anchor, d) = 0 /\ MonthsRun(c.anchor, MonthAfter(d)) = 0
    BY <1>2, <1>7 DEF MonthsRun
  <2> QED BY <1>5, <1>7, <2>1
<1> QED BY <1>6, <1>7

(* Two dates no month apart are the same; one month apart, the second is     *)
(* the month after the first.                                                *)
LEMMA MonthsApart ==
  ASSUME NEW a \in Months, NEW d \in Months
  PROVE  /\ MonthsSince(a, d) = 0 => d = a
         /\ MonthsSince(a, d) = 1 => d = MonthAfter(a)
<1>1. /\ a.year \in Nat /\ a.month \in 1..12 /\ a = [year |-> a.year, month |-> a.month]
      /\ d.year \in Nat /\ d.month \in 1..12 /\ d = [year |-> d.year, month |-> d.month]
  BY DEF Months
<1>2. MonthsSince(a, d) = (d.year - a.year) * 12 + d.month - a.month
  BY DEF MonthsSince
<1>3. ASSUME MonthsSince(a, d) = 0 PROVE d = a
  <2>1. d.year = a.year /\ d.month = a.month
    BY <1>1, <1>2, <1>3
  <2> QED BY <1>1, <2>1
<1>4. ASSUME MonthsSince(a, d) = 1 PROVE d = MonthAfter(a)
  <2>1. CASE a.month = 12
    <3>1. d.year = a.year + 1 /\ d.month = 1
      BY <1>1, <1>2, <1>4, <2>1
    <3> QED BY <1>1, <2>1, <3>1 DEF MonthAfter
  <2>2. CASE a.month # 12
    <3>1. d.year = a.year /\ d.month = a.month + 1
      BY <1>1, <1>2, <1>4, <2>2
    <3>2. MonthAfter(a) = [year |-> a.year, month |-> a.month + 1]
      BY <1>1, <2>2 DEF MonthAfter
    <3> QED BY <1>1, <3>1, <3>2
  <2> QED BY <2>1, <2>2
<1> QED BY <1>3, <1>4

(* The season of a month is in turn after the season of the month before.    *)
LEMMA SeasonInTurn ==
  ASSUME NEW c \in Configs, NEW a \in Months, NEW d \in Months,
         MonthsSince(a, d) \in {0, 1}
  PROVE  /\ InTurn(c, MonthsSince(a, d), Season(c, a), Season(c, d))
         /\ Season(c, d) \in {Season(c, a)} \cup ToSet(SeasonList(c))
         /\ Season(c, a) \in {Season(c, d)} \cup ToSet(SeasonList(c))
<1>1. CASE MonthsSince(a, d) = 0
  BY <1>1, MonthsApart DEF InTurn
<1>2. CASE MonthsSince(a, d) = 1
  <2>1. d = MonthAfter(a)
    BY <1>2, MonthsApart
  <2>2. CASE c.rotation /\ SeasonList(c) # <<>>
    <3>1. /\ Season(c, a) = Rotated(SeasonList(c), c, a)
          /\ Season(c, d) = Rotated(SeasonList(c), c, d)
      BY <2>2 DEF Season
    <3>2. Season(c, a) \in Listed(c) /\ Season(c, d) \in Listed(c)
      BY <2>2, <3>1, RotatedListed
    <3>3. ToSet(SeasonList(c)) = Listed(c)
      BY ListedAll
    <3>4. Season(c, d) = IF MonthsSince(c.anchor, a) >= 0 THEN Follows(Listed(c), Season(c, a))
                         ELSE Season(c, a)
      BY <2>1, <2>2, <3>2, SeasonFollows
    <3> QED BY <1>2, <2>2, <3>2, <3>3, <3>4 DEF InTurn
  <2>3. CASE ~(c.rotation /\ SeasonList(c) # <<>>)
    <3>1. Season(c, a) = c.season /\ Season(c, d) = c.season
      BY <2>3 DEF Season
    <3> QED BY <3>1 DEF InTurn
  <2> QED BY <2>2, <2>3
<1> QED BY <1>1, <1>2

LEMMA InvariantInStep == IInv => SessionInStep
<1> SUFFICES ASSUME IInv, NEW c \in Clients, seen[c] # Unasked, Parses, seen[c].file = file,
                    MonthsSince(seen[c].date, date) <= 1
             PROVE  IF seen[c].name = "seasons"
                    THEN \E n \in {seen[c].said} \cup ToSet(SeasonList(PubConfig)) :
                            /\ InTurn(PubConfig, MonthsSince(seen[c].date, date), seen[c].said, n)
                            /\ Belong(PubConfig, n, Answer("config"))
                    ELSE \E n \in {Answer("seasons")} \cup ToSet(SeasonList(PubConfig)) :
                            /\ InTurn(PubConfig, MonthsSince(seen[c].date, date), n, Answer("seasons"))
                            /\ Belong(PubConfig, n, seen[c].said)
  BY DEF SessionInStep
<1> DEFINE k == PubConfig
           then == seen[c].date
           old == Season(k, then)
           new == Season(k, date)
<1>1. /\ then \in Months /\ date \in Months /\ MonthsSince(then, date) \in {0, 1}
  <2>1. then \in Months /\ date \in Months /\ MonthsSince(then, date) >= 0
    BY DEF IInv, Shapes, SeenHonest
  <2> QED BY <2>1, MonthsCounted
<1>2. k \in Configs /\ k = Loaded(file)
  <2>1. file \in Files \cup {Shipped}
    BY DEF IInv, SeenHonest
  <2>2. k \in Configs
    BY PubConfigKnown DEF IInv, Shapes
  <2>3. k = Loaded(file)
    BY <2>1, SeasonsAssumption, ShippedLoaded DEF PubConfig
  <2> QED BY <2>2, <2>3
<1>3. /\ seen[c].name = "seasons" => seen[c].said = old
      /\ seen[c].name # "seasons" => seen[c].said = EventsOn(k, then)
  <2>1. seen[c].name \in Told /\ seen[c].said = Effective(k, then)[seen[c].name]
    BY <1>2 DEF IInv, SeenHonest
  <2> QED BY <2>1 DEF Told, Effective
<1>4. Answer("seasons") = new /\ Answer("config") = EventsOn(k, date)
  BY DEF Answer, Generated, Effective
<1>5. Belong(k, old, EventsOn(k, then)) /\ Belong(k, new, EventsOn(k, date))
  BY DEF Belong, Season, EventsOn
<1>6. /\ InTurn(k, MonthsSince(then, date), old, new)
      /\ new \in {old} \cup ToSet(SeasonList(k))
      /\ old \in {new} \cup ToSet(SeasonList(k))
  BY <1>1, <1>2, SeasonInTurn
<1> HIDE DEF k, then, old, new
<1>7. CASE seen[c].name = "seasons"
  <2>1. seen[c].said = old /\ Answer("config") = EventsOn(k, date)
    BY <1>3, <1>4, <1>7
  <2> QED BY <1>5, <1>6, <1>7, <2>1 DEF k, then
<1>8. CASE seen[c].name # "seasons"
  <2>1. seen[c].said = EventsOn(k, then) /\ Answer("seasons") = new
    BY <1>3, <1>4, <1>8
  <2> QED BY <1>5, <1>6, <1>8, <2>1 DEF k, then
<1> QED BY <1>7, <1>8

(* effectiveConfig and generatedPubfile: two requests of a session that find *)
(* pubfiles.json the same are told a season and the events of that season,   *)
(* or of the one before or after it when the month ended between them,       *)
(* whatever else happened there.                                             *)
THEOREM SessionsInStep == Spec => []SessionInStep
BY SeasonsInit, SeasonsStep, InvariantInStep, PTL DEF Spec

LEMMA RiftFollows ==
  ASSUME NEW w \in Nat
  PROVE  \E i \in DOMAIN RiftFiles :
            /\ RiftData(w) = RiftFiles[i]
            /\ RiftData(w + 1) = RiftFiles[IF i = Len(RiftFiles) THEN 1 ELSE i + 1]
<1> DEFINE k == Len(RiftFiles)
<1>1. k \in Nat /\ k # 0 /\ DOMAIN RiftFiles = 1..k
  BY SeasonsAssumption
<1>2. (w % k) + 1 \in 1..k /\ w % k \in Nat
  <2> HIDE DEF k
  <2>1. w % k \in 0..(k - 1)
    BY <1>1, Remainder
  <2> QED BY <1>1, <2>1
<1>3. (w + 1) % k = IF (w % k) + 1 = k THEN 0 ELSE (w % k) + 1
  <2> HIDE DEF k
  <2> QED BY <1>1, NextRemainder
<1>4. ((w + 1) % k) + 1 = IF (w % k) + 1 = k THEN 1 ELSE ((w % k) + 1) + 1
  BY <1>2, <1>3
<1>5. (w % k) + 1 \in DOMAIN RiftFiles
  BY <1>1, <1>2
<1> QED BY <1>4, <1>5 DEF RiftData

LEMMA RotatesInOrder ==
  ASSUME Shapes, Next, Parses, UNCHANGED file
  PROVE  SeasonInOrder /\ RiftInOrder
<1> DEFINE c == PubConfig
<1>1. c \in Configs
  BY PubConfigKnown DEF Shapes
<1>2. ASSUME date' # date PROVE date' = MonthAfter(date)
  BY <1>2 DEF Next, PublisherFile, RiftFile, Boot, Command, Begin, WriteCopy, WriteFails,
              Stop, Edit, NextMonth, NextWeek
<1>3. ASSUME week' # week PROVE week' = week + 1
  BY <1>3 DEF Next, PublisherFile, RiftFile, Boot, Command, Begin, WriteCopy, WriteFails,
              Stop, Edit, NextMonth, NextWeek
<1>4. SeasonInOrder
  <2> SUFFICES ASSUME c.rotation, ToSet(SeasonList(c)) # {}, date' # date
               PROVE  Season(c, date') =
                         IF MonthsSince(c.anchor, date) >= 0
                         THEN Follows(ToSet(SeasonList(c)), Season(c, date))
                         ELSE Season(c, date)
    BY DEF SeasonInOrder
  <2>1. ToSet(SeasonList(c)) = Listed(c)
    BY <1>1, ListedAll
  <2> HIDE DEF c
  <2> QED BY <1>1, <1>2, <2>1, SeasonFollows DEF Shapes
<1>5. RiftInOrder
  <2> SUFFICES ASSUME c.mode = "weekly", week' # week
               PROVE  \E i \in DOMAIN RiftFiles :
                         /\ RiftData(RiftNumber(c, week)) = RiftFiles[i]
                         /\ RiftData(RiftNumber(c, week')) =
                               RiftFiles[IF i = Len(RiftFiles) THEN 1 ELSE i + 1]
    BY DEF RiftInOrder
  <2>1. RiftNumber(c, week) = week /\ RiftNumber(c, week') = week + 1
    BY <1>3 DEF RiftNumber
  <2> QED BY <2>1, RiftFollows DEF Shapes
<1> QED BY <1>4, <1>5

(* rotatedSeason and riftDataFile: as long as the file stays as it is, a    *)
(* new month brings the season that follows in the list and a new week the  *)
(* rift file that follows, each starting again after its last.              *)
THEOREM RotationsInOrder == Spec => RotationInOrder
<1>1. IInv /\ [Next]_vars => [Parses /\ UNCHANGED file => SeasonInOrder /\ RiftInOrder]_vars
  BY RotatesInOrder DEF IInv
<1> QED BY <1>1, SeasonsInit, SeasonsStep, PTL DEF Spec, RotationInOrder

=============================================================================
