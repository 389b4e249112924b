------------------------------ MODULE CtrStats ------------------------------
(***************************************************************************)
(* The leaderboards of Crash Team Racing (ctr_stats.go): one file with the *)
(* scores of all boards, uploads of several scores at once, and reads by   *)
(* rank and by player.                                                     *)
(*                                                                         *)
(* An upload is parsed as a whole, then applied write by write to a copy   *)
(* of the file, which replaces the file if no write failed, all under      *)
(* ctrStatsStore.mu. Scores are int64, here of any two's complement range. *)
(* An upload that is refused, that cannot be saved or that a crash         *)
(* interrupts before the rename changes nothing and has no action.         *)
(***************************************************************************)
EXTENDS Integers, Sequences, FiniteSets, FiniteSetsExt, SequencesExt

CONSTANTS
    Pids,        \* accounts, numbers
    Boards,      \* leaderboards
    TimeBoards,  \* those of times
    RingBoards,  \* those of Ring Rally
    Uploads,     \* the uploads that clients send, as sequences of writes
    MaxScore,    \* the largest score (MaxInt64)
    TimeMax,     \* the largest score of a time (MaxUint32)
    MaxWrites,   \* the most writes of an upload (128)
    MaxLimit,    \* the most rows a reader may ask for (1000)
    None         \* no row

MinScore == -MaxScore - 1
Scores == MinScore..MaxScore

(* octaneBoard *)
OctaneBoards == TimeBoards \cup RingBoards

(* ctrStatWrite; `entity` is the account that the client names. *)
Write == [board : Boards, entity : Pids, op : 0..7, score : Scores]

ASSUME StatsAssumption ==
    /\ Pids \subseteq Nat \ {0} /\ IsFiniteSet(Pids)
    /\ OctaneBoards \subseteq Boards
    /\ MaxScore \in Nat /\ None \notin Int
    /\ MaxWrites \in Nat /\ MaxLimit \in Nat /\ TimeMax \in Nat
    /\ \A u \in Uploads : u \in Seq(Write)

VARIABLES
    known,   \* accounts with an identified connection
    rows,    \* the file: rows[b][p] is the score of p on b
    total,   \* (history) the same, computed without limits of size
    acked    \* (history) acked[b][p]: the scores of acknowledged uploads

vars == <<known, rows, total, acked>>

TypeOK ==
    /\ known \subseteq Pids
    /\ rows \in [Boards -> [Pids -> Scores \cup {None}]]
    /\ total \in [Boards -> [Pids -> Int \cup {None}]]
    /\ acked \in [Boards -> [Pids -> SUBSET Scores]]

Init ==
    /\ known = {}
    /\ rows = [b \in Boards |-> [p \in Pids |-> None]]
    /\ total = rows
    /\ acked = [b \in Boards |-> [p \in Pids |-> {}]]

-----------------------------------------------------------------------------
(* parseStatWrites: what every write of an upload by pid must satisfy. *)
ValidWriteAnyOp(pid, w) ==              \* a bug: Octane scores of any operation
    /\ w.entity = pid
    /\ w.op \in {0, 1, 4}
    /\ w.board \in OctaneBoards => w.score >= 0
    /\ w.board \in TimeBoards => w.score \in 1..TimeMax

ValidWrite(pid, w) ==
    /\ w.entity = pid
    /\ w.op \in {0, 1, 4}
    /\ w.board \in OctaneBoards => w.op = 4 /\ w.score >= 0
    /\ w.board \in TimeBoards => w.score \in 1..TimeMax

ValidUpload(pid, writes) ==
    /\ Len(writes) \in 1..MaxWrites
    /\ \A k \in DOMAIN writes : ValidWrite(pid, writes[k])

(* The sum of two int64. *)
Wrap(x) == ((x - MinScore) % (2 * (MaxScore + 1))) + MinScore

OverflowsUpOnly(old, inc) == inc > 0 /\ old > MaxScore - inc    \* a bug: one side only

Overflows(old, inc) ==
    \/ inc > 0 /\ old > MaxScore - inc
    \/ inc < 0 /\ old < MinScore - inc

Score(x) == IF x = None THEN 0 ELSE x

(* ctrStatsStore.write: one write on the copy. *)
Apply(s, w) ==
    LET old == s.rows[w.board][w.entity]
        next == CASE w.op = 0 -> w.score
                  [] w.op = 1 -> Wrap(Score(old) + w.score)
                  [] w.op = 4 -> IF old # None /\ old >= w.score THEN old ELSE w.score
    IN  IF ~s.ok \/ (w.op = 1 /\ Overflows(Score(old), w.score)) THEN [s EXCEPT !.ok = FALSE]
        ELSE [s EXCEPT !.rows[w.board][w.entity] = next]

Applied(writes) == FoldLeft(Apply, [ok |-> TRUE, rows |-> rows], writes)

(* (history) What the operations mean. *)
Meant(t, w) ==
    [t EXCEPT ![w.board][w.entity] =
       CASE w.op = 0 -> w.score
         [] w.op = 1 -> Score(@) + w.score
         [] w.op = 4 -> IF @ = None THEN w.score ELSE Max({@, w.score})]

ScoresIn(writes, b, p) ==
    {writes[k].score : k \in {j \in DOMAIN writes : writes[j].board = b /\ writes[j].entity = p}}

(* onCTRStats, task 1. *)
Upload(pid, writes) ==
    LET s == Applied(writes)
    IN  /\ pid \in known
        /\ ValidUpload(pid, writes)
        /\ s.ok
        /\ rows' = s.rows
        /\ total' = FoldLeft(Meant, total, writes)
        /\ acked' = [b \in Boards |-> [p \in Pids |-> acked[b][p] \cup ScoresIn(writes, b, p)]]
        /\ UNCHANGED known

(* The player connects, or its identity file is found at last. *)
Identify(pid) ==
    /\ pid \notin known
    /\ known' = known \cup {pid}
    /\ UNCHANGED <<rows, total, acked>>

(* dropOnline of its last connection. *)
Disconnect(pid) ==
    /\ pid \in known
    /\ known' = known \ {pid}
    /\ UNCHANGED <<rows, total, acked>>

Next ==
    \E pid \in Pids :
       \/ Identify(pid)
       \/ Disconnect(pid)
       \/ \E writes \in Uploads : Upload(pid, writes)

Spec == Init /\ [][Next]_vars

-----------------------------------------------------------------------------
(* ctrStatsStore.read: a board, best score first, with the rank of a row as *)
(* its place.                                                               *)
Ranked(b) == {p \in Pids : rows[b][p] # None}

Better(b, p, q) == rows[b][p] > rows[b][q] \/ (rows[b][p] = rows[b][q] /\ p < q)

Read(b) ==
    CHOOSE all \in [1..Cardinality(Ranked(b)) -> Ranked(b)] :
       \A i, j \in DOMAIN all : i < j => Better(b, all[i], all[j])

(* onCTRStats, task 4: the first `limit` rows from the rank `start`; a row  *)
(* is its rank and its player.                                              *)
First(start) == IF start = 0 THEN 1 ELSE start

PageAfter(b, start, limit) ==           \* a bug: the first row is skipped
    LET all == Read(b)
    IN  {<<k, all[k]>> : k \in {r \in DOMAIN all : First(start) < r /\ r <= First(start) + limit}}

Page(b, start, limit) ==
    LET all == Read(b)
    IN  {<<k, all[k]>> : k \in {r \in DOMAIN all : First(start) <= r /\ r < First(start) + limit}}

(* ... task 13: the rows of the players that the client names. *)
Friends(b, ids) ==
    LET all == Read(b)
    IN  {<<k, all[k]>> : k \in {r \in DOMAIN all : all[r] \in ids}}

-----------------------------------------------------------------------------
(* A score is the sum, the replacement or the maximum of what was accepted, *)
(* never what is left of it in 64 bits, and an upload counts entirely or    *)
(* not at all (ctr_stats.go:130).                                           *)
ScoresExact == rows = total

(* "faster is larger" (ctr_stats.go:135): a time or a Ring Rally score on   *)
(* file is the best that the player was told to be saved, whatever else an  *)
(* upload or a later one says.                                              *)
BestKept ==
    \A b \in OctaneBoards, p \in Pids :
       rows[b][p] = IF acked[b][p] = {} THEN None ELSE Max(acked[b][p])

(* A reader that turns the pages of a board meets every player once, at the *)
(* rank that counts the better ones, and a player is shown the same rank    *)
(* among its friends.                                                       *)
RankOf(b, p) == 1 + Cardinality({q \in Ranked(b) \ {p} : Better(b, q, p)})

PagesCover ==
    \A b \in Boards, limit \in 1..MaxLimit :
       LET page(i) == Page(b, IF i = 0 THEN 0 ELSE 1 + i * limit, limit)
       IN  /\ \A p \in Ranked(b) : \E i \in 0..Cardinality(Pids) :
                <<RankOf(b, p), p>> \in page(i) /\ <<RankOf(b, p), p>> \in Friends(b, {p})
           /\ \A i, j \in 0..Cardinality(Pids) : i # j => page(i) \cap page(j) = {}

=============================================================================
