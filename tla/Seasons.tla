------------------------------ MODULE Seasons ------------------------------
(***************************************************************************)
(* The files that the game fetches when a session starts: the season, the  *)
(* community events, the blacklist and the weekly rift (seasons.go,        *)
(* pubfiles.go, riftdata.go, services.go publisherFile).                   *)
(*                                                                         *)
(* Seasons.txt and Config.txt are made from pubfiles.json and the clock on *)
(* every request, and are two requests. The operator edits pubfiles.json   *)
(* while the server runs: a file that does not parse, because of a mistake *)
(* or because it is only half saved, makes publisherFile fall back on the  *)
(* copies on disk, which writePubfiles wrote one after the other when the  *)
(* server started or when the operator ran "server pubfiles".              *)
(*                                                                         *)
(* A date is a year and a month, which is what the rotation reads; weeks   *)
(* pass on their own, so that a month may begin in any of them. The text   *)
(* of the files is abstracted to the season and to the set of events that  *)
(* are on; the multipliers, the flags and the season's dates are left out. *)
(***************************************************************************)
EXTENDS Integers, FiniteSets, Sequences, SequencesExt

CONSTANTS
    Clients,
    Events,     \* the community events
    Files,      \* what the operator may save: settings, the others left out
    Shipped,    \* defaultPubfiles: a value for every setting
    Broken,     \* a pubfiles.json that does not parse
    Missing,    \* no pubfiles.json
    Absent,     \* a request that is answered as absent; a copy not on disk
    Cut,        \* a copy that was truncated and not written to its end
    Unasked,    \* no file was made for the client yet
    RiftFiles,  \* the numbered rift files, in numeric order
    FirstMonth, \* the date at which the model starts
    MaxMonths,  \* bound: months that pass
    MaxWeeks    \* bound: weeks that pass

Copies == <<"blacklist", "config", "seasons">>  \* in the order of their names
Names == ToSet(Copies)
Months == [year : Nat, month : 1..12]

ASSUME SeasonsAssumption ==
    /\ MaxMonths \in Nat /\ MaxWeeks \in Nat
    /\ FirstMonth \in Months
    /\ RiftFiles # <<>> /\ RiftFiles \in Seq(ToSet(RiftFiles)) /\ IsInjective(RiftFiles)
    /\ Shipped = [x \in DOMAIN Shipped |-> Shipped[x]]  \* a record of settings ...
    /\ "themes" \in DOMAIN Shipped
    /\ Shipped.themes = [n \in DOMAIN Shipped.themes |-> Shipped.themes[n]] \* and of themes
    /\ Shipped.events = {}  \* a file's events replace the shipped ones one by one
    /\ Broken # Missing /\ {Broken, Missing} \cap (Files \cup {Shipped}) = {}

VARIABLES
    date,     \* the current month, [year, month]
    week,     \* now.Unix() / riftWeek
    file,     \* pubfiles.json
    disk,     \* the copies in D3_PUBFILES
    up,       \* the server accepts connections
    job,      \* the run of writePubfiles that is under way, or NoJob
    seen,     \* (history) seen[c]: the last file that was made for c
    complete, \* (history) a run of writePubfiles has written all its files
    torn      \* (history) the last run stopped before it had

vars == <<date, week, file, disk, up, job, seen, complete, torn>>

NoJob == [boot |-> FALSE, eff |-> Absent, todo |-> <<>>]

(* Settings are records of which some are left out; served are the names of *)
(* a season, a set of events, and what takes their place.                   *)
TypeOK ==
    /\ date.year \in Nat /\ date.month \in 1..12
    /\ week \in 0..MaxWeeks
    /\ file \in Files \cup {Shipped, Broken, Missing}
    /\ DOMAIN disk = Names
    /\ job # NoJob => /\ job.boot \in BOOLEAN
                     /\ job.todo # <<>> /\ IsSuffix(job.todo, Copies)
                     /\ DOMAIN job.eff = Names
    /\ \A c \in Clients : seen[c] # Unasked => DOMAIN seen[c] = {"name", "said", "file", "date"}
    /\ {up, complete, torn} \subseteq BOOLEAN

Init ==
    /\ date = FirstMonth
    /\ week = 0
    /\ file \in Files \cup {Shipped, Broken, Missing}
    /\ disk = [n \in Names |-> Absent]
    /\ up = FALSE
    /\ job = NoJob
    /\ seen = [c \in Clients |-> Unasked]
    /\ complete = FALSE
    /\ torn = FALSE

-----------------------------------------------------------------------------
(* loadPubConfig: a setting that the file leaves out keeps its default, and *)
(* so does a season that its season_themes leaves out: Unmarshal adds to    *)
(* the map that the defaults filled. A file that is missing is written.     *)
Over(f, g) == [x \in DOMAIN f \cup DOMAIN g |-> IF x \in DOMAIN f THEN f[x] ELSE g[x]]

Loaded(f) ==
    LET c == Over(f, Shipped)
    IN  [c EXCEPT !.themes = Over(@, Shipped.themes)]

(* Every configuration that may be read has the settings that the code's     *)
(* types give it; a request answered as absent was told neither a season nor  *)
(* a set of events.                                                           *)
ASSUME SettingsAssumption ==
    /\ Absent \notin Nat /\ Absent # Cut /\ \A E \in SUBSET Events : Absent # E
    /\ \A f \in Files \cup {Shipped} :
          LET c == Loaded(f)
          IN  /\ c.season \in Nat /\ c.anchor \in Months
              /\ c.events \subseteq Events
              /\ IsFiniteSet(DOMAIN c.themes) /\ DOMAIN c.themes \subseteq Nat
              /\ \A n \in DOMAIN c.themes : c.themes[n] \subseteq Events

Parses == file # Broken
PubConfig == IF file = Missing THEN Shipped ELSE Loaded(file)
Created == IF file = Missing THEN Shipped ELSE file

(* seasonList, in numeric order; 0 stands for a key that is not a season's   *)
(* number.                                                                    *)
Listed(c) ==
    {n \in DOMAIN c.themes \ {0} :
        (c.first = 0 \/ n >= c.first) /\ (c.last = 0 \/ n <= c.last)}

Rank(S, n) == Cardinality({m \in S : m < n})

SeasonList(c) ==
    LET S == Listed(c)
    IN  [i \in 1..Cardinality(S) |-> CHOOSE n \in S : Rank(S, n) = i - 1]

(* rotatedSeason *)
MonthsSince(anchor, d) == (d.year - anchor.year) * 12 + d.month - anchor.month
MonthsOfYear(anchor, d) ==              \* a bug: every year starts again
    LET n == d.month - anchor.month IN IF n < 0 THEN 0 ELSE n
MonthsRun(anchor, d) ==
    LET n == MonthsSince(anchor, d) IN IF n < 0 THEN 0 ELSE n

Rotated(list, c, d) == list[(MonthsRun(c.anchor, d) % Len(list)) + 1]

(* effectiveConfig: the rotation first, then the theme of its season. *)
Season(c, d) ==
    IF c.rotation /\ SeasonList(c) # <<>> THEN Rotated(SeasonList(c), c, d) ELSE c.season

Theme(c, season) == IF season \in DOMAIN c.themes THEN c.themes[season] ELSE {}

EventsOfConfigured(c, d) ==             \* a bug: the theme before the rotation
    c.events \cup IF c.themed THEN Theme(c, c.season) ELSE {}
EventsOn(c, d) == c.events \cup IF c.themed THEN Theme(c, Season(c, d)) ELSE {}

Effective(c, d) == [seasons |-> Season(c, d), config |-> EventsOn(c, d), blacklist |-> {}]

(* riftChallengeNumber, and the data file for which the game then asks by     *)
(* that number; the mode "random" is left out.                                *)
RiftNumber(c, w) == IF c.mode = "fixed" THEN c.number ELSE w

RiftDataToLast(n) ==                    \* a bug: stops at the last file
    RiftFiles[IF n < Len(RiftFiles) THEN n + 1 ELSE Len(RiftFiles)]
RiftData(n) == RiftFiles[(n % Len(RiftFiles)) + 1]

-----------------------------------------------------------------------------
(* publisherFile: Seasons.txt and Config.txt are generated from a             *)
(* pubfiles.json that parses; everything else is looked for on disk, where    *)
(* the seasons and the blacklist have other names than the game's.            *)
Generated(n) == n # "blacklist" /\ Parses

AnswerNoCopies(n) ==                    \* a bug: no copy of a generated file
    IF Generated(n) THEN Effective(PubConfig, date)[n]
    ELSE IF n = "blacklist" THEN disk[n] ELSE Absent
Answer(n) == IF Generated(n) THEN Effective(PubConfig, date)[n] ELSE disk[n]

PublisherFile(c, n) ==
    /\ up
    /\ file' = IF n = "blacklist" THEN file ELSE Created
    /\ seen' = IF Generated(n)
               THEN [seen EXCEPT ![c] = [name |-> n, said |-> Answer(n), file |-> file', date |-> date]]
               ELSE seen
    /\ UNCHANGED <<date, week, disk, up, job, complete, torn>>

(* riftFile reads pubfiles.json for the number and for the data. *)
RiftFile ==
    /\ up
    /\ file' = Created
    /\ UNCHANGED <<date, week, disk, up, job, seen, complete, torn>>

-----------------------------------------------------------------------------
(* writePubfiles: it reads the file once, and then writes the copies one by  *)
(* one. main goes on to the lobby whatever came of it. Bound: the server and *)
(* the command do not write at the same time.                                *)
Begin(boot) ==
    /\ job = NoJob
    /\ job' = IF Parses THEN [boot |-> boot, eff |-> Effective(PubConfig, date), todo |-> Copies]
              ELSE NoJob
    /\ up' = (up \/ (boot /\ ~Parses))
    /\ file' = Created
    /\ UNCHANGED <<date, week, disk, seen, complete, torn>>

Boot == ~up /\ Begin(TRUE)
Command == Parses /\ Begin(FALSE)

MadeNow(n) ==                           \* a bug: every copy reads the file and the clock
    IF Parses THEN Effective(PubConfig, date)[n] ELSE job.eff[n]

Made(n) == job.eff[n]

WriteCopy ==
    /\ job # NoJob
    /\ LET n == Head(job.todo)
           last == Tail(job.todo) = <<>>
       IN  /\ disk' = [disk EXCEPT ![n] = Made(n)]
           /\ job' = IF last THEN NoJob ELSE [job EXCEPT !.todo = Tail(job.todo)]
           /\ up' = (up \/ (last /\ job.boot))
           /\ complete' = (complete \/ last)
           /\ torn' = ~last
    /\ UNCHANGED <<date, week, file, seen>>

(* The copy that is next is left as it was, or cut short. *)
Interrupted ==
    \/ UNCHANGED <<disk, torn>>
    \/ disk' = [disk EXCEPT ![Head(job.todo)] = Cut] /\ torn' = TRUE

(* A copy cannot be written: writePubfiles gives up. *)
WriteFails ==
    /\ job # NoJob
    /\ job' = NoJob
    /\ up' = (up \/ job.boot)
    /\ Interrupted
    /\ UNCHANGED <<date, week, file, seen, complete>>

Stop ==
    /\ up \/ job.boot
    /\ up' = FALSE
    /\ IF job.boot THEN job' = NoJob /\ Interrupted
       ELSE UNCHANGED <<disk, job, torn>>
    /\ UNCHANGED <<date, week, file, seen, complete>>

-----------------------------------------------------------------------------
(* The operator saves, spoils or removes pubfiles.json. *)
Edit ==
    /\ \E f \in Files \cup {Broken, Missing} : f # file /\ file' = f
    /\ UNCHANGED <<date, week, disk, up, job, seen, complete, torn>>

MonthAfter(d) ==
    IF d.month = 12 THEN [year |-> d.year + 1, month |-> 1] ELSE [d EXCEPT !.month = @ + 1]

NextMonth ==
    /\ MonthsSince(FirstMonth, date) < MaxMonths
    /\ date' = MonthAfter(date)
    /\ UNCHANGED <<week, file, disk, up, job, seen, complete, torn>>

NextWeek ==
    /\ week < MaxWeeks
    /\ week' = week + 1
    /\ UNCHANGED <<date, file, disk, up, job, seen, complete, torn>>

Next ==
    \/ \E c \in Clients, n \in Names : PublisherFile(c, n)
    \/ RiftFile
    \/ Boot \/ Command \/ WriteCopy \/ WriteFails \/ Stop
    \/ Edit \/ NextMonth \/ NextWeek

Spec == Init /\ [][Next]_vars

-----------------------------------------------------------------------------
(* The events that are on for a season: its theme and the operator's extras. *)
Belong(c, season, events) ==
    /\ c.rotation \/ season = c.season
    /\ events = c.events \cup IF c.themed THEN Theme(c, season) ELSE {}

(* The season that follows in numeric order among those listed, the first    *)
(* one after the last.                                                       *)
Follows(S, n) ==
    LET later == {k \in S : k > n}
    IN  IF later = {} THEN CHOOSE k \in S : \A j \in S : k <= j
        ELSE CHOOSE k \in later : \A j \in later : k <= j

(* n is the season s, or the one whose turn it is `months` later.            *)
InTurn(c, months, s, n) ==
    n = s \/ (months = 1 /\ c.rotation /\ n = Follows(ToSet(SeasonList(c)), s))

(* A session asks for the season and for the events one after the other, in  *)
(* any order and with anything in between: restarts, runs of writePubfiles,  *)
(* edits that are taken back, a spoiled file. If the second request finds    *)
(* pubfiles.json as the first one left it, then in the same month the events *)
(* are those of the season, and in the next month they are those of two      *)
(* seasons that follow each other in the rotation, never anything else. An   *)
(* edit that stays does mix the two files: the code does not prevent it.     *)
SessionInStep ==
    \A c \in Clients :
       LET q == seen[c]
           conf == PubConfig
           months == MonthsSince(q.date, date)
           Some(s) == {s} \cup ToSet(SeasonList(conf))
       IN  q # Unasked /\ Parses /\ q.file = file /\ months <= 1 =>
              IF q.name = "seasons"
              THEN \E n \in Some(q.said) :
                      InTurn(conf, months, q.said, n) /\ Belong(conf, n, Answer("config"))
              ELSE \E n \in Some(Answer("seasons")) :
                      InTurn(conf, months, n, Answer("seasons")) /\ Belong(conf, n, q.said)

(* The copies are those of one configuration on one date that has been.      *)
Passed ==
    {d \in [year : FirstMonth.year .. date.year, month : 1..12] :
        MonthsSince(FirstMonth, d) >= 0 /\ MonthsSince(d, date) >= 0}

CopiesOfOne ==
    \E f \in Files \cup {Shipped}, d \in Passed :
       \A n \in Names : disk[n] = Effective(Loaded(f), d)[n]

(* Once all the copies have been written, a game finds its season, its        *)
(* events and the blacklist whatever the operator does to pubfiles.json,      *)
(* through every later restart and every run of writePubfiles that fails; and *)
(* the copies it may be given are of one moment, although they are written    *)
(* one by one while the file and the month change, unless the last run that   *)
(* wrote stopped before its end.                                              *)
Answered ==
    complete => /\ \A n \in Names : Answer(n) # Absent
                /\ torn \/ CopiesOfOne

(* Every month after the anchor brings the season that follows; until the    *)
(* anchor it is the first. Every week brings the next rift file in the same  *)
(* way.                                                                      *)
SeasonInOrder ==
    LET c == PubConfig
        S == ToSet(SeasonList(c))
        old == Season(c, date)
        new == Season(c, date')
    IN  c.rotation /\ S # {} /\ date' # date =>
          new = IF MonthsSince(c.anchor, date) >= 0 THEN Follows(S, old) ELSE old

RiftInOrder ==
    LET c == PubConfig
        Served(w) == RiftData(RiftNumber(c, w))
    IN  c.mode = "weekly" /\ week' # week =>
          \E i \in DOMAIN RiftFiles :
             /\ Served(week) = RiftFiles[i]
             /\ Served(week') = RiftFiles[IF i = Len(RiftFiles) THEN 1 ELSE i + 1]

RotationInOrder ==
    [][Parses /\ UNCHANGED file => SeasonInOrder /\ RiftInOrder]_vars

=============================================================================
