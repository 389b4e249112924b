-------------------------- MODULE MmSessionsProofs --------------------------
(* Proofs about MmSessions, for any connections, accounts, tickets, ids and *)
(* grace period.                                                            *)
EXTENDS MmSessions, TLAPS

(* A session that is not merely reserved has room information, and stays so *)
(* after it was deleted: mmFindSessions may still hold a pointer to it.     *)
Published ==
    \A id \in Ids : heap[id] # Nil /\ ~heap[id].reserved => heap[id].info # NoInfo

IInv == TypeOK /\ Published /\ OwnerAlive /\ HostAccountable /\ AnswersPublished

LEMMA MmInit == Init => IInv
BY DEF Init, IInv, TypeOK, Object, Search, Idle, Published, OwnerAlive, HostAccountable,
       AnswersPublished

(* What the tasks write into a session they own is a session. *)
LEMMA AttachedSession ==
  ASSUME TypeOK, NEW c \in Conns, NEW s \in Session
  PROVE  /\ Attached(c, s) \in Session
         /\ Attached(c, s).owner = c
         /\ Attached(c, s).ownerPID = pid[c]
         /\ Attached(c, s).reserved = s.reserved
         /\ Attached(c, s).info = s.info
BY DEF TypeOK, Session, Attached

LEMMA LiveSession ==
  ASSUME TypeOK, NEW id \in live
  PROVE  id \in Ids /\ heap[id] \in Session /\ heap[id] # Nil
BY DEF TypeOK, Object

(* A step that replaces one live session by one attached to an open          *)
(* connection keeps the invariant.                                           *)
LEMMA WriteStep ==
  ASSUME IInv, NEW c \in Conns, phase[c] = "open", NEW id \in live,
         NEW s \in Session, s.owner = c, s.ownerPID = pid[c],
         s.reserved => heap[id].reserved,
         ~s.reserved => s.info # NoInfo,
         heap' = [heap EXCEPT ![id] = s],
         UNCHANGED <<phase, pid, live, find>>
  PROVE  IInv'
<1> USE NilAssumption, MmAssumption DEF IInv
<1>1. id \in Ids /\ heap[id] \in Session /\ heap[id] # Nil
  BY LiveSession
<1>2. \A i \in Ids : heap'[i] = IF i = id THEN s ELSE heap[i]
  BY <1>1 DEF TypeOK
<1>3. TypeOK'
  BY <1>1 DEF TypeOK, Object
<1>4. Published'
  BY <1>1, <1>2 DEF Published
<1>5. OwnerAlive' /\ HostAccountable'
  BY <1>1, <1>2 DEF OwnerAlive, HostAccountable, TypeOK
<1>6. AnswersPublished'
  <2> SUFFICES ASSUME NEW d \in Conns, NEW i \in find[d].found
               PROVE heap'[i] # Nil /\ ~heap'[i].reserved /\ heap'[i].info # NoInfo
    BY DEF AnswersPublished
  <2>1. i \in Ids /\ heap[i] # Nil /\ ~heap[i].reserved /\ heap[i].info # NoInfo
    BY DEF AnswersPublished, TypeOK, Search
  <2> QED BY <2>1, <1>1, <1>2
<1> QED BY <1>3, <1>4, <1>5, <1>6

(* A step that adds a new session and removes others keeps it, too. *)
LEMMA AllocateStep ==
  ASSUME IInv, NEW c \in Conns, phase[c] = "open", NEW id \in Ids, Fresh(id),
         NEW s \in Session, s.owner = c, s.ownerPID = pid[c],
         ~s.reserved => s.info # NoInfo,
         NEW kept \in SUBSET live, live' = kept \cup {id},
         heap' = [heap EXCEPT ![id] = s],
         UNCHANGED <<phase, pid, find>>
  PROVE  IInv'
<1> USE NilAssumption, MmAssumption DEF IInv, Fresh
<1>1. \A i \in Ids : heap'[i] = IF i = id THEN s ELSE heap[i]
  BY DEF TypeOK
<1>2. s # Nil /\ id \notin live
  BY DEF TypeOK
<1>3. TypeOK'
  BY <1>1, <1>2 DEF TypeOK, Object
<1>4. Published'
  BY <1>1 DEF Published
<1>5. OwnerAlive' /\ HostAccountable'
  BY <1>1, <1>2 DEF OwnerAlive, HostAccountable, TypeOK
<1>6. AnswersPublished'
  <2> SUFFICES ASSUME NEW d \in Conns, NEW i \in find[d].found
               PROVE heap'[i] # Nil /\ ~heap'[i].reserved /\ heap'[i].info # NoInfo
    BY DEF AnswersPublished
  <2>1. i \in Ids /\ heap[i] # Nil /\ ~heap[i].reserved /\ heap[i].info # NoInfo
    BY DEF AnswersPublished, TypeOK, Search
  <2> QED BY <2>1, <1>1
<1> QED BY <1>3, <1>4, <1>5, <1>6

(* A step that changes only owner and age of some live sessions, and maybe  *)
(* removes others, keeps what queries rely on.                              *)
LEMMA KeepsAnswers ==
  ASSUME IInv,
         \A i \in Ids : /\ heap'[i] = Nil <=> heap[i] = Nil
                        /\ heap[i] # Nil => /\ heap'[i].reserved = heap[i].reserved
                                            /\ heap'[i].info = heap[i].info,
         UNCHANGED find
  PROVE  Published' /\ AnswersPublished'
<1>1. Published'
  BY DEF IInv, Published
<1>2. AnswersPublished'
  BY DEF IInv, AnswersPublished, TypeOK, Search
<1> QED BY <1>1, <1>2

(* What dropSessionsOf writes into a session. *)
LEMMA DetachedSession ==
  ASSUME NEW s \in Session
  PROVE  /\ Detached(s) \in Session
         /\ Detached(s).owner = NoConn
         /\ Detached(s).ownerPID = s.ownerPID
         /\ Detached(s).reserved = s.reserved
         /\ Detached(s).info = s.info
<1>1. 0 \in 0..(Grace + 1)
  BY MmAssumption
<1> QED BY <1>1 DEF Session, Detached

LEMMA DropStep == ASSUME IInv, NEW c \in Conns, Drop(c) PROVE IInv'
<1> USE NilAssumption, MmAssumption DEF IInv, Drop, Serving
<1>1. \A i \in Ids : heap'[i] = IF i \in live /\ ~Dropped(c, i) /\ heap[i].owner = c
                               THEN Detached(heap[i]) ELSE heap[i]
  OBVIOUS
<1>2. \A s \in Session :
         /\ Detached(s) \in Session
         /\ Detached(s).owner = NoConn
         /\ Detached(s).ownerPID = s.ownerPID
         /\ Detached(s).reserved = s.reserved
         /\ Detached(s).info = s.info
  BY DetachedSession
<1>3. \A i \in live : i \in Ids /\ heap[i] \in Session /\ heap[i] # Nil
  BY LiveSession
<1>4. TypeOK'
  <2>1. heap' \in [Ids -> Object]
    BY <1>1, <1>2, <1>3 DEF TypeOK, Object
  <2>2. live' \subseteq {i \in Ids : heap'[i] # Nil}
    BY <1>1, <1>2, <1>3 DEF TypeOK
  <2> QED BY <2>1, <2>2 DEF TypeOK
<1>5. Published' /\ AnswersPublished'
  BY <1>1, <1>2, <1>3, KeepsAnswers
<1>6. OwnerAlive'
  BY <1>1, <1>2, <1>3 DEF OwnerAlive, Dropped, TypeOK
<1>7. HostAccountable'
  BY <1>1, <1>2, <1>3 DEF HostAccountable, Dropped
<1> QED BY <1>4, <1>5, <1>6, <1>7

LEMMA TickStep == ASSUME IInv, Tick PROVE IInv'
<1> USE NilAssumption, MmAssumption DEF IInv, Tick
<1>1. \A i \in Ids : heap'[i] = IF i \in live /\ heap[i].owner = NoConn /\ heap[i].age <= Grace
                               THEN [heap[i] EXCEPT !.age = @ + 1] ELSE heap[i]
  OBVIOUS
<1>2. ASSUME NEW s \in Session, s.age <= Grace
      PROVE  LET t == [s EXCEPT !.age = @ + 1]
             IN  /\ t \in Session
                 /\ t.owner = s.owner /\ t.ownerPID = s.ownerPID
                 /\ t.reserved = s.reserved /\ t.info = s.info
  BY <1>2 DEF Session
<1>3. \A i \in live : i \in Ids /\ heap[i] \in Session /\ heap[i] # Nil
  BY LiveSession
<1>4. TypeOK'
  <2>1. heap' \in [Ids -> Object]
    BY <1>1, <1>2, <1>3 DEF TypeOK, Object
  <2>2. live' \subseteq {i \in Ids : heap'[i] # Nil}
    BY <1>1, <1>2, <1>3 DEF TypeOK
  <2> QED BY <2>1, <2>2 DEF TypeOK
<1>5. Published' /\ AnswersPublished'
  BY <1>1, <1>2, <1>3, KeepsAnswers
<1>6. OwnerAlive' /\ HostAccountable'
  BY <1>1, <1>2, <1>3 DEF OwnerAlive, HostAccountable
<1> QED BY <1>4, <1>5, <1>6

(* A step that only removes sessions, or identifies or opens connections.  *)
LEMMA ShrinkStep ==
  ASSUME IInv, live' \subseteq live, UNCHANGED <<phase, pid, heap, find>>
  PROVE  IInv'
BY DEF IInv, TypeOK, Published, OwnerAlive, HostAccountable, AnswersPublished

LEMMA ConnectStep == ASSUME IInv, NEW c \in Conns, Connect(c) \/ Identify(c) PROVE IInv'
<1> USE MmAssumption DEF IInv, Connect, Identify
<1>1. TypeOK'
  BY DEF TypeOK
<1>2. Published' /\ AnswersPublished'
  BY DEF Published, AnswersPublished
<1>3. OwnerAlive'
  <2>1. \A id \in live : heap[id].owner \in Conns \cup {NoConn}
    BY LiveSession DEF Session
  <2> QED BY <2>1 DEF OwnerAlive, TypeOK
<1>4. HostAccountable'
  <2> SUFFICES ASSUME NEW id \in live, heap[id].owner # NoConn
               PROVE heap[id].ownerPID \in {NoPid, pid'[heap[id].owner]}
    BY DEF HostAccountable
  <2>1. heap[id].owner \in Conns /\ phase[heap[id].owner] = "open"
    BY LiveSession DEF OwnerAlive, Session
  <2>2. heap[id].ownerPID \in {NoPid, pid[heap[id].owner]}
    BY DEF HostAccountable
  <2> QED BY <2>1, <2>2 DEF TypeOK
<1> QED BY <1>1, <1>2, <1>3, <1>4

LEMMA TaskStep == ASSUME IInv, NEW c \in Conns, Task(c) PROVE IInv'
<1> USE NilAssumption, MmAssumption DEF IInv
<1>1. ASSUME NEW ctx \in Contexts, NEW id \in Ids, RequestSessionID(c, ctx, id) PROVE IInv'
  <2> DEFINE s == [context |-> ctx, owner |-> c, ownerPID |-> pid[c], reserved |-> TRUE,
                   info |-> NoInfo, age |-> 0]
             kept == {old \in live : ~(/\ heap[old].reserved
                                      /\ heap[old].context = ctx
                                      /\ Owns(c, heap[old]))}
  <2>1. s \in Session
    BY DEF Session, TypeOK
  <2>2. /\ phase[c] = "open" /\ Fresh(id)
        /\ kept \in SUBSET live /\ live' = kept \cup {id}
        /\ heap' = [heap EXCEPT ![id] = s]
        /\ UNCHANGED <<phase, pid, find>>
    BY <1>1 DEF RequestSessionID, Serving
  <2>3. s.owner = c /\ s.ownerPID = pid[c] /\ s.reserved
    OBVIOUS
  <2> HIDE DEF s, kept
  <2> QED BY <2>1, <2>2, <2>3, AllocateStep
<1>2. ASSUME NEW ctx \in Contexts, NEW id \in Ids, NEW info \in Infos,
             CreateSession(c, ctx, id, info)
      PROVE IInv'
  <2> DEFINE s == [context |-> ctx, owner |-> c, ownerPID |-> pid[c], reserved |-> FALSE,
                   info |-> info, age |-> 0]
             kept == {old \in live : ~Replaced(c, ctx, old)}
  <2>1. s \in Session
    BY DEF Session, TypeOK
  <2>2. /\ phase[c] = "open" /\ Fresh(id)
        /\ kept \in SUBSET live /\ live' = kept \cup {id}
        /\ heap' = [heap EXCEPT ![id] = s]
        /\ UNCHANGED <<phase, pid, find>>
    BY <1>2 DEF CreateSession, Serving
  <2>3. s.owner = c /\ s.ownerPID = pid[c] /\ s.info # NoInfo
    OBVIOUS
  <2> HIDE DEF s, kept
  <2> QED BY <2>1, <2>2, <2>3, AllocateStep
<1>3. ASSUME NEW ctx \in Contexts, NEW id \in Ids, NEW info \in Infos, NEW init \in BOOLEAN,
             UpdateSession(c, ctx, id, info, init)
      PROVE IInv'
  <2> DEFINE a == Attached(c, heap[id])
             s == IF init THEN [a EXCEPT !.info = info, !.reserved = FALSE]
                          ELSE [a EXCEPT !.info = info]
  <2>0. heap' = [heap EXCEPT ![id] = s]
    BY <1>3 DEF UpdateSession
  <2>1. /\ phase[c] = "open" /\ id \in live
        /\ UNCHANGED <<phase, pid, live, find>>
    BY <1>3 DEF UpdateSession, Serving, MayTouch
  <2>2. /\ a \in Session /\ a.owner = c /\ a.ownerPID = pid[c]
        /\ a.reserved = heap[id].reserved
    BY <2>1, LiveSession, AttachedSession
  <2> HIDE DEF a
  <2>3. /\ s \in Session /\ s.owner = c /\ s.ownerPID = pid[c] /\ s.info # NoInfo
        /\ s.reserved => heap[id].reserved
    BY <2>2 DEF Session
  <2> HIDE DEF s
  <2> QED BY <2>0, <2>1, <2>3, WriteStep
<1>4. ASSUME NEW ctx \in Contexts, NEW id \in Ids, NEW info \in Infos \cup {NoInfo},
             UpdatePlayers(c, ctx, id, info)
      PROVE IInv'
  <2> DEFINE a == Attached(c, heap[id])
             s == Refreshed(a, info)
  <2>1. /\ phase[c] = "open" /\ id \in live
        /\ heap' = [heap EXCEPT ![id] = s]
        /\ UNCHANGED <<phase, pid, live, find>>
    BY <1>4 DEF UpdatePlayers, Serving, MayTouch, TypeOK
  <2>2. /\ a \in Session /\ a.owner = c /\ a.ownerPID = pid[c]
        /\ a.reserved = heap[id].reserved /\ a.info = heap[id].info
    BY <2>1, LiveSession, AttachedSession
  <2>3. ~heap[id].reserved => heap[id].info # NoInfo
    BY <2>1, LiveSession DEF Published
  <2> HIDE DEF a
  <2>4. /\ s \in Session /\ s.owner = c /\ s.ownerPID = pid[c]
        /\ ~s.reserved => s.info # NoInfo
        /\ s.reserved => heap[id].reserved
    BY <2>2, <2>3 DEF Session, Refreshed
  <2> HIDE DEF s
  <2> QED BY <2>1, <2>4, WriteStep
<1>5. ASSUME NEW ctx \in Contexts, NEW id \in Ids, DeleteSession(c, ctx, id) PROVE IInv'
  BY <1>5, ShrinkStep DEF DeleteSession
<1>6. ASSUME NEW ctx \in Contexts, FindLock(c, ctx) PROVE IInv'
  <2>1. PICK found \in SUBSET Findable(c, ctx) :
               find' = [find EXCEPT ![c] = [running |-> TRUE, found |-> found]]
    BY <1>6 DEF FindLock
  <2>2. UNCHANGED <<phase, pid, heap, live>>
    BY <1>6 DEF FindLock
  <2>3. \A i \in found : i \in Ids /\ heap[i] # Nil /\ ~heap[i].reserved /\ heap[i].info # NoInfo
    BY LiveSession DEF Findable, Published
  <2>4. TypeOK'
    BY <2>1, <2>2, <2>3 DEF TypeOK, Search
  <2>5. AnswersPublished'
    BY <2>1, <2>2, <2>3 DEF AnswersPublished, TypeOK, Search
  <2> QED BY <2>2, <2>4, <2>5 DEF Published, OwnerAlive, HostAccountable
<1>7. ASSUME FindReply(c) PROVE IInv'
  BY <1>7 DEF FindReply, Idle, Search, TypeOK, Published, OwnerAlive, HostAccountable,
              AnswersPublished
<1> QED BY <1>1, <1>2, <1>3, <1>4, <1>5, <1>6, <1>7 DEF Task

LEMMA MmStep == IInv /\ [Next]_vars => IInv'
<1> SUFFICES ASSUME IInv, [Next]_vars PROVE IInv'
  OBVIOUS
<1>1. ASSUME NEW c \in Conns, Connect(c) \/ Identify(c) \/ Drop(c) \/ Task(c) PROVE IInv'
  BY <1>1, ConnectStep, DropStep, TaskStep
<1>2. CASE Tick
  BY <1>2, TickStep
<1>3. CASE Reap
  BY <1>3, ShrinkStep DEF Reap
<1>4. CASE UNCHANGED vars
  BY <1>4, ShrinkStep DEF vars
<1> QED BY <1>1, <1>2, <1>3, <1>4 DEF Next

LEMMA MmInvariant == Spec => []IInv
<1>1. Init => IInv
  BY MmInit
<1>2. IInv /\ [Next]_vars => IInv'
  BY MmStep
<1> QED BY <1>1, <1>2, PTL DEF Spec

(* The state variables keep their types. *)
THEOREM MmTypes == Spec => []TypeOK
<1>1. IInv => TypeOK
  BY DEF IInv
<1> QED BY <1>1, MmInvariant, PTL

(* A game with a host connection is hosted by one that is open, so that its *)
(* end will detach the game and the reaper can remove it.                   *)
THEOREM GamesHaveLiveHosts == Spec => []OwnerAlive
<1>1. IInv => OwnerAlive
  BY DEF IInv
<1> QED BY <1>1, MmInvariant, PTL

(* Whoever may reclaim a game is known, however late identities arrive.     *)
THEOREM GamesAccountable == Spec => []HostAccountable
<1>1. IInv => HostAccountable
  BY DEF IInv
<1> QED BY <1>1, MmInvariant, PTL

(* mmFindSessions, reading through its pointers after the unlock, never     *)
(* meets a mere reservation.                                                *)
THEOREM QueriesSafe == Spec => []AnswersPublished
<1>1. IInv => AnswersPublished
  BY DEF IInv
<1> QED BY <1>1, MmInvariant, PTL

-----------------------------------------------------------------------------
(* The action properties, from the same invariant. *)

LEMMA HostStep == IInv /\ [Next]_vars => [HostKept]_vars
<1> SUFFICES ASSUME IInv, Next, NEW id \in live, heap[id].ownerPID # NoPid
             PROVE heap'[id].ownerPID = heap[id].ownerPID
  BY DEF HostKept
<1> USE NilAssumption, MmAssumption
<1>1. id \in Ids /\ heap[id] \in Session /\ heap[id] # Nil /\ TypeOK
  BY LiveSession DEF IInv
<1>2. ASSUME NEW c \in Conns, NEW ctx \in Contexts, MayTouch(c, ctx, id)
      PROVE  Attached(c, heap[id]) \in Session /\ Attached(c, heap[id]).ownerPID = heap[id].ownerPID
  <2>1. heap[id].ownerPID = pid[c]
    BY <1>2 DEF MayTouch, Owns, IInv, HostAccountable
  <2> QED BY <1>1, <2>1, AttachedSession
<1>3. ASSUME NEW c \in Conns, Task(c) PROVE heap'[id].ownerPID = heap[id].ownerPID
  <2>1. ASSUME NEW ctx \in Contexts, NEW i \in Ids, NEW info \in Infos, NEW init \in BOOLEAN,
               UpdateSession(c, ctx, i, info, init)
        PROVE heap'[id].ownerPID = heap[id].ownerPID
    <3> DEFINE a == Attached(c, heap[i])
               s == IF init THEN [a EXCEPT !.info = info, !.reserved = FALSE]
                            ELSE [a EXCEPT !.info = info]
    <3>1. heap' = [heap EXCEPT ![i] = s]
      BY <2>1 DEF UpdateSession
    <3>2. CASE i = id
      <4>1. a \in Session /\ a.ownerPID = heap[id].ownerPID
        BY <1>2, <2>1, <3>2 DEF UpdateSession
      <4> HIDE DEF a
      <4>2. s.ownerPID = heap[id].ownerPID
        BY <4>1 DEF Session
      <4> QED BY <1>1, <3>1, <3>2, <4>2 DEF TypeOK
    <3>3. CASE i # id
      BY <1>1, <3>1, <3>3 DEF TypeOK
    <3> QED BY <3>2, <3>3
  <2>2. ASSUME NEW ctx \in Contexts, NEW i \in Ids, NEW info \in Infos \cup {NoInfo},
               UpdatePlayers(c, ctx, i, info)
        PROVE heap'[id].ownerPID = heap[id].ownerPID
    <3> DEFINE a == Attached(c, heap[i])
    <3>1. heap' = [heap EXCEPT ![i] = Refreshed(a, info)]
      BY <2>2 DEF UpdatePlayers
    <3>2. CASE i = id
      <4>1. a \in Session /\ a.ownerPID = heap[id].ownerPID
        BY <1>2, <2>2, <3>2 DEF UpdatePlayers
      <4> HIDE DEF a
      <4>2. Refreshed(a, info).ownerPID = heap[id].ownerPID
        BY <4>1 DEF Session, Refreshed
      <4> QED BY <1>1, <3>1, <3>2, <4>2 DEF TypeOK
    <3>3. CASE i # id
      BY <1>1, <3>1, <3>3 DEF TypeOK
    <3> QED BY <3>2, <3>3
  <2>3. ASSUME NEW ctx \in Contexts, NEW i \in Ids,
               \/ RequestSessionID(c, ctx, i)
               \/ \E info \in Infos : CreateSession(c, ctx, i, info)
        PROVE heap'[id].ownerPID = heap[id].ownerPID
    <3>1. i # id /\ \E s : heap' = [heap EXCEPT ![i] = s]
      BY <1>1, <2>3 DEF RequestSessionID, CreateSession, Fresh
    <3> QED BY <1>1, <3>1 DEF TypeOK
  <2>4. ASSUME \/ \E ctx \in Contexts, i \in Ids : DeleteSession(c, ctx, i)
               \/ \E ctx \in Contexts : FindLock(c, ctx)
               \/ FindReply(c)
        PROVE heap'[id].ownerPID = heap[id].ownerPID
    BY <2>4 DEF DeleteSession, FindLock, FindReply
  <2> QED BY <1>3, <2>1, <2>2, <2>3, <2>4 DEF Task
<1>4. ASSUME NEW c \in Conns, Drop(c) PROVE heap'[id].ownerPID = heap[id].ownerPID
  BY <1>1, <1>4, DetachedSession DEF Drop
<1>5. CASE Tick
  BY <1>1, <1>5 DEF Tick, Session
<1>6. ASSUME NEW c \in Conns, Connect(c) \/ Identify(c)
      PROVE heap'[id].ownerPID = heap[id].ownerPID
  BY <1>6 DEF Connect, Identify
<1>7. CASE Reap
  BY <1>7 DEF Reap
<1> QED BY <1>3, <1>4, <1>5, <1>6, <1>7 DEF Next

(* Once a game belongs to an account it never becomes another account's.   *)
THEOREM HostIsStable == Spec => HostNeverChanges
<1>1. IInv /\ [Next]_vars => [HostKept]_vars
  BY HostStep
<1> QED BY <1>1, MmInvariant, PTL DEF Spec, HostNeverChanges

LEMMA GraceStep == IInv /\ [Next]_vars => [GraceKept]_vars
<1> SUFFICES ASSUME IInv, Next, NEW id \in live \ live', heap[id].ownerPID # NoPid
             PROVE \/ \E c \in Conns : phase'[c] = "open" /\ Owns(c, heap[id])
                   \/ heap[id].owner = NoConn /\ heap[id].age > Grace
  BY DEF GraceKept
<1>1. ASSUME NEW c \in Conns, Task(c) PROVE phase'[c] = "open" /\ Owns(c, heap[id])
  BY <1>1 DEF Task, RequestSessionID, DeleteSession, CreateSession, UpdateSession,
              UpdatePlayers, FindLock, FindReply, Serving, MayTouch, Replaced, Owns
<1>2. ASSUME NEW c \in Conns, Connect(c) \/ Identify(c) \/ Drop(c) PROVE FALSE
  BY <1>2 DEF Connect, Identify, Drop, Dropped
<1>3. CASE Tick
  BY <1>3 DEF Tick
<1>4. CASE Reap
  BY <1>4 DEF Reap, Expired
<1> QED BY <1>1, <1>2, <1>3, <1>4 DEF Next

(* The game of a known account disappears by its connected owner's doing,   *)
(* or after it was without a host for longer than orphanGrace.              *)
THEOREM GraceIsHonoured == Spec => GraceHonoured
<1>1. IInv /\ [Next]_vars => [GraceKept]_vars
  BY GraceStep
<1> QED BY <1>1, MmInvariant, PTL DEF Spec, GraceHonoured

(* What the tasks that write one session leave of the others. *)
LEMMA OthersKept ==
  ASSUME TypeOK, NEW id, NEW s, heap' = [heap EXCEPT ![id] = s],
         NEW other \in live, other # id
  PROVE  heap'[other] = heap[other]
BY DEF TypeOK

LEMMA StrangersStep == TypeOK => StrangersKept
<1> SUFFICES ASSUME TypeOK, NEW c \in Conns, Task(c),
                    NEW g \in live, ~Owns(c, heap[g])
             PROVE  g \in live' /\ heap'[g] = heap[g]
  BY DEF StrangersKept
<1>1. g \in Ids /\ heap[g] # Nil
  BY LiveSession
<1>2. ASSUME NEW ctx \in Contexts, NEW id \in Ids, RequestSessionID(c, ctx, id)
      PROVE  g \in live' /\ heap'[g] = heap[g]
  BY <1>1, <1>2, OthersKept DEF RequestSessionID, Fresh
<1>3. ASSUME NEW ctx \in Contexts, NEW id \in Ids, DeleteSession(c, ctx, id)
      PROVE  g \in live' /\ heap'[g] = heap[g]
  BY <1>3 DEF DeleteSession, MayTouch
<1>4. ASSUME NEW ctx \in Contexts, NEW id \in Ids, NEW info, CreateSession(c, ctx, id, info)
      PROVE  g \in live' /\ heap'[g] = heap[g]
  <2>1. ~Replaced(c, ctx, g)
    BY DEF Replaced, Owns
  <2> QED BY <1>1, <1>4, <2>1, OthersKept DEF CreateSession, Fresh
<1>5. ASSUME NEW ctx \in Contexts, NEW id \in Ids, NEW info, NEW init,
             UpdateSession(c, ctx, id, info, init) \/ UpdatePlayers(c, ctx, id, info)
      PROVE  g \in live' /\ heap'[g] = heap[g]
  <2>1. live' = live /\ g # id
    BY <1>5 DEF UpdateSession, UpdatePlayers, MayTouch
  <2>2. \E s : heap' = [heap EXCEPT ![id] = s]
    BY <1>5 DEF UpdateSession, UpdatePlayers
  <2> QED BY <2>1, <2>2, OthersKept
<1>6. ASSUME FindReply(c) \/ \E ctx \in Contexts : FindLock(c, ctx)
      PROVE  g \in live' /\ heap'[g] = heap[g]
  BY <1>6 DEF FindReply, FindLock
<1> QED BY <1>2, <1>3, <1>4, <1>5, <1>6 DEF Task

(* lobbyConn.owns, in every task that writes or removes games: nothing that *)
(* a connection asks for touches the games of others.                       *)
THEOREM StrangersAreSafe == Spec => StrangersTouchNothing
<1>1. TypeOK /\ [Next]_vars => [StrangersKept]_vars
  BY StrangersStep
<1> QED BY <1>1, MmTypes, PTL DEF Spec, StrangersTouchNothing

-----------------------------------------------------------------------------
(* MmSessions implements Directory: every step of the code is a step that   *)
(* the promise allows, for any connections, accounts, ids and grace period. *)

(* How the sessions look from outside. *)
LEMMA OutlineNone == Outline(Nil, FALSE) = Promised!NoGame
BY DEF Outline, Promised!NoGame

LEMMA OutlineGone ==
  ASSUME NEW s \in Session
  PROVE  Outline(s, FALSE) = Promised!Gone
BY NilAssumption DEF Outline, Promised!Gone, Promised!NoGame

LEMMA OutlineHosted ==
  ASSUME NEW s \in Session, s.owner # NoConn
  PROVE  Outline(s, TRUE)
           = Promised!Hosted(IF s.reserved THEN "reserved" ELSE "published", s.ownerPID)
BY NilAssumption DEF Outline, Promised!Hosted

LEMMA OutlineAway ==
  ASSUME NEW s \in Session, s.owner = NoConn
  PROVE  Outline(s, TRUE)
           = [stage |-> IF s.reserved THEN "reserved" ELSE "published",
              host |-> s.ownerPID, hosted |-> FALSE, away |-> s.age]
BY NilAssumption DEF Outline

LEMMA OutlineListed ==
  ASSUME NEW s \in Session
  PROVE  /\ Promised!Listed(Outline(s, TRUE))
         /\ Outline(s, TRUE).host = s.ownerPID
         /\ Outline(s, TRUE).hosted = (s.owner # NoConn)
         /\ Outline(s, TRUE).stage = IF s.reserved THEN "reserved" ELSE "published"
BY NilAssumption DEF Outline, Promised!Listed

LEMMA GameRecord ==
  ASSUME NEW st \in {"none", "reserved", "published", "gone"}, NEW p \in Pids \cup {NoPid},
         NEW b \in BOOLEAN, NEW n \in 0..(Grace + 1)
  PROVE  [stage |-> st, host |-> p, hosted |-> b, away |-> n] \in Promised!Game
BY DEF Promised!Game

LEMMA OutlineType ==
  ASSUME NEW s \in Session
  PROVE  Outline(s, TRUE) \in Promised!Game /\ Outline(s, FALSE) \in Promised!Game
<1> USE MmAssumption, NilAssumption
<1>1. /\ s.ownerPID \in Pids \cup {NoPid}
      /\ s.age \in 0..(Grace + 1)
      /\ 0 \in 0..(Grace + 1)
  BY DEF Session
<1>2. \E st \in {"none", "reserved", "published", "gone"} :
        st = IF s.reserved THEN "reserved" ELSE "published"
  OBVIOUS
<1>3. Outline(s, TRUE) \in Promised!Game
  <2>1. PICK st \in {"none", "reserved", "published", "gone"} :
               st = IF s.reserved THEN "reserved" ELSE "published"
    BY <1>2
  <2>2. CASE s.owner = NoConn
    <3>1. Outline(s, TRUE) = [stage |-> st, host |-> s.ownerPID, hosted |-> FALSE, away |-> s.age]
      BY <2>1, <2>2, OutlineAway
    <3>2. [stage |-> st, host |-> s.ownerPID, hosted |-> FALSE, away |-> s.age] \in Promised!Game
      BY <1>1, GameRecord
    <3> QED BY <3>1, <3>2
  <2>3. CASE s.owner # NoConn
    <3>1. Outline(s, TRUE) = [stage |-> st, host |-> s.ownerPID, hosted |-> TRUE, away |-> 0]
      BY <2>1, <2>3, OutlineHosted DEF Promised!Hosted
    <3>2. [stage |-> st, host |-> s.ownerPID, hosted |-> TRUE, away |-> 0] \in Promised!Game
      BY <1>1, GameRecord
    <3> QED BY <3>1, <3>2
  <2> QED BY <2>2, <2>3
<1>4. Outline(s, FALSE) \in Promised!Game
  BY <1>1, OutlineGone, GameRecord DEF Promised!Gone
<1> QED BY <1>3, <1>4

(* `heap` and `live` as they are, or as they become. *)
LEMMA PictureType ==
  ASSUME NEW h \in [Ids -> Object], NEW l \in SUBSET {i \in Ids : h[i] # Nil}, NEW i \in Ids
  PROVE  Outline(h[i], i \in l) \in Promised!Game
<1>1. CASE i \in l
  <2>1. h[i] \in Session /\ (i \in l) = TRUE
    BY <1>1 DEF Object
  <2> QED BY <2>1, OutlineType
<1>2. CASE i \notin l
  <2>1. (i \in l) = FALSE
    BY <1>2
  <2>2. CASE h[i] = Nil
    <3>1. Promised!NoGame \in Promised!Game
      BY MmAssumption DEF Promised!NoGame, Promised!Game
    <3> QED BY <2>1, <2>2, <3>1, OutlineNone
  <2>3. CASE h[i] \in Session
    BY <2>1, <2>3, OutlineType
  <2> QED BY <2>2, <2>3 DEF Object
<1> QED BY <1>1, <1>2

LEMMA GamesType == ASSUME TypeOK PROVE Games \in [Ids -> Promised!Game]
<1>1. heap \in [Ids -> Object] /\ live \in SUBSET {i \in Ids : heap[i] # Nil}
  BY DEF TypeOK
<1> QED BY <1>1, PictureType DEF Games

LEMMA GamesNextType == ASSUME TypeOK' PROVE Games' \in [Ids -> Promised!Game]
<1>1. heap' \in [Ids -> Object] /\ live' \in SUBSET {i \in Ids : heap'[i] # Nil}
  BY DEF TypeOK
<1> QED BY <1>1, PictureType DEF Games

LEMMA PromiseInit == Init => Promised!Init
<1> SUFFICES ASSUME Init PROVE Promised!Init
  OBVIOUS
<1>1. \A id \in Ids : Outline(heap[id], id \in live) = Promised!NoGame
  <2> TAKE id \in Ids
  <2>1. heap[id] = Nil /\ (id \in live) = FALSE
    BY DEF Init
  <2> QED BY <2>1, OutlineNone
<1>2. Present = {}
  BY DEF Init, Present
<1> QED BY <1>1, <1>2 DEF Promised!Init, Games

-----------------------------------------------------------------------------
(* The accounts of a step's connection, as the promise sees them. *)
LEMMA PlayerPresent ==
  ASSUME TypeOK, NEW c \in Conns, phase[c] = "open"
  PROVE  pid[c] \in Pids \cup {NoPid} /\ pid[c] \in Present \cup {NoPid}
BY DEF TypeOK, Present

(* A step of an open connection that plays with the games it may touch.     *)
LEMMA PlayStep ==
  ASSUME TypeOK, TypeOK', NEW c \in Conns, phase[c] = "open", UNCHANGED <<phase, pid>>,
         \A i \in Ids : \/ Games'[i] = Games[i]
                        \/ Promised!Played(pid[c], Games[i], Games'[i])
  PROVE  Promised!Next
<1>1. pid[c] \in Pids \cup {NoPid} /\ pid[c] \in Present \cup {NoPid}
  BY PlayerPresent
<1>2. Games' \in [Ids -> Promised!Game]
  BY GamesNextType
<1>3. Present' = Present
  BY DEF Present
<1>4. Promised!Play(pid[c])
  BY <1>1, <1>2, <1>3 DEF Promised!Play
<1> QED BY <1>1, <1>4 DEF Promised!Next

(* What can happen to one game in such a step: nothing, ... *)
LEMMA GameKept ==
  ASSUME NEW i \in Ids, heap'[i] = heap[i], i \in live' <=> i \in live
  PROVE  Games'[i] = Games[i]
<1>1. (i \in live') = (i \in live)
  OBVIOUS
<1> QED BY <1>1 DEF Games

(* ... it is opened, ... *)
LEMMA GameOpened ==
  ASSUME TypeOK, NEW i \in Ids, heap[i] = Nil, i \in live', heap'[i] \in Session,
         heap'[i].owner # NoConn
  PROVE  Promised!Played(heap'[i].ownerPID, Games[i], Games'[i])
<1>1. Games[i] = Promised!NoGame
  <2>1. (i \in live) = FALSE
    BY DEF TypeOK
  <2> QED BY <2>1, OutlineNone DEF Games
<1>2. Games'[i] = Outline(heap'[i], TRUE)
  <2>1. (i \in live') = TRUE
    OBVIOUS
  <2> QED BY <2>1 DEF Games
<1>3. CASE heap'[i].reserved
  <2>1. Games'[i] = Promised!Hosted("reserved", heap'[i].ownerPID)
    BY <1>2, <1>3, OutlineHosted
  <2> QED BY <1>1, <2>1 DEF Promised!Played
<1>4. CASE ~heap'[i].reserved
  <2>1. Games'[i] = Promised!Hosted("published", heap'[i].ownerPID)
    BY <1>2, <1>4, OutlineHosted
  <2> QED BY <1>1, <2>1 DEF Promised!Played
<1> QED BY <1>3, <1>4

(* ... closed, ... *)
LEMMA GameClosed ==
  ASSUME TypeOK, NEW i \in live, i \notin live', heap'[i] = heap[i],
         NEW p, heap[i].ownerPID \in {p, NoPid}
  PROVE  Promised!Played(p, Games[i], Games'[i])
<1>1. i \in Ids /\ heap[i] \in Session
  BY LiveSession
<1>2. Games[i] = Outline(heap[i], TRUE) /\ Games'[i] = Outline(heap[i], FALSE)
  <2>1. (i \in live) = TRUE /\ (i \in live') = FALSE
    OBVIOUS
  <2> QED BY <1>1, <2>1 DEF Games
<1>3. Games'[i] = Promised!Gone
  BY <1>1, <1>2, OutlineGone
<1>4. Promised!Open(p, Games[i])
  BY <1>1, <1>2, OutlineListed DEF Promised!Open
<1> QED BY <1>3, <1>4 DEF Promised!Played

(* ... or written. *)
LEMMA GameWritten ==
  ASSUME TypeOK, NEW i \in live, i \in live', heap'[i] \in Session, heap'[i].owner # NoConn,
         heap[i].ownerPID \in {heap'[i].ownerPID, NoPid},
         heap'[i].reserved => heap[i].reserved
  PROVE  Promised!Played(heap'[i].ownerPID, Games[i], Games'[i])
<1>1. i \in Ids /\ heap[i] \in Session
  BY LiveSession
<1>2. Games[i] = Outline(heap[i], TRUE) /\ Games'[i] = Outline(heap'[i], TRUE)
  <2>1. (i \in live) = TRUE /\ (i \in live') = TRUE
    OBVIOUS
  <2> QED BY <1>1, <2>1 DEF Games
<1>3. Promised!Open(heap'[i].ownerPID, Games[i])
  BY <1>1, <1>2, OutlineListed DEF Promised!Open
<1>4. CASE heap'[i].reserved
  <2>1. Games[i].stage = "reserved"
    BY <1>1, <1>2, <1>4, OutlineListed
  <2>2. Games'[i] = Promised!Hosted("reserved", heap'[i].ownerPID)
    BY <1>2, <1>4, OutlineHosted
  <2> QED BY <1>3, <2>1, <2>2 DEF Promised!Played
<1>5. CASE ~heap'[i].reserved
  <2>1. Games'[i] = Promised!Hosted("published", heap'[i].ownerPID)
    BY <1>2, <1>5, OutlineHosted
  <2> QED BY <1>3, <2>1 DEF Promised!Played
<1> QED BY <1>4, <1>5

(* Whoever owns a game is its account, or the game is nobody's yet. *)
LEMMA OwnerMayTouch ==
  ASSUME IInv, NEW c \in Conns, NEW i \in live, Owns(c, heap[i])
  PROVE  heap[i].ownerPID \in {pid[c], NoPid}
BY MmAssumption DEF Owns, IInv, HostAccountable

-----------------------------------------------------------------------------
(* The steps. *)

(* A new game, which replaces others of its account. *)
LEMMA OpenPromise ==
  ASSUME IInv, IInv', NEW c \in Conns, phase[c] = "open", NEW id \in Ids, Fresh(id),
         NEW s \in Session, s.owner = c, s.ownerPID = pid[c],
         NEW kept \in SUBSET live, live' = kept \cup {id},
         \A old \in live \ kept : heap[old].ownerPID \in {pid[c], NoPid},
         heap' = [heap EXCEPT ![id] = s],
         UNCHANGED <<phase, pid>>
  PROVE  Promised!Next
<1> USE MmAssumption
<1>1. TypeOK /\ TypeOK'
  BY DEF IInv
<1>2. id \notin live /\ heap[id] = Nil
  BY <1>1 DEF TypeOK, Fresh
<1>3. ASSUME NEW i \in Ids
      PROVE Games'[i] = Games[i] \/ Promised!Played(pid[c], Games[i], Games'[i])
  <2>1. CASE i = id
    <3>1. heap'[i] = s /\ i \in live' /\ s.owner # NoConn
      BY <1>1, <2>1 DEF TypeOK
    <3> QED BY <1>1, <1>2, <2>1, <3>1, GameOpened
  <2>2. CASE i # id /\ i \in live /\ i \notin kept
    <3>1. heap'[i] = heap[i] /\ i \notin live' /\ heap[i].ownerPID \in {pid[c], NoPid}
      BY <1>1, <2>2 DEF TypeOK
    <3> QED BY <1>1, <2>2, <3>1, GameClosed
  <2>3. CASE i # id /\ (i \in live => i \in kept)
    <3>1. heap'[i] = heap[i] /\ (i \in live' <=> i \in live)
      BY <1>1, <2>3 DEF TypeOK
    <3> QED BY <3>1, GameKept
  <2> QED BY <2>1, <2>2, <2>3
<1> QED BY <1>1, <1>3, PlayStep

(* A write into a game that the connection owns. *)
LEMMA WritePromise ==
  ASSUME IInv, IInv', NEW c \in Conns, phase[c] = "open", NEW id \in live, Owns(c, heap[id]),
         NEW s \in Session, s.owner = c, s.ownerPID = pid[c],
         s.reserved => heap[id].reserved,
         heap' = [heap EXCEPT ![id] = s],
         UNCHANGED <<phase, pid, live>>
  PROVE  Promised!Next
<1> USE MmAssumption
<1>1. TypeOK /\ TypeOK'
  BY DEF IInv
<1>2. heap[id].ownerPID \in {pid[c], NoPid}
  BY OwnerMayTouch
<1>3. ASSUME NEW i \in Ids
      PROVE Games'[i] = Games[i] \/ Promised!Played(pid[c], Games[i], Games'[i])
  <2>1. CASE i = id
    <3>1. heap'[i] = s /\ i \in live' /\ s.owner # NoConn
      BY <1>1, <2>1 DEF TypeOK
    <3> QED BY <1>1, <1>2, <2>1, <3>1, GameWritten
  <2>2. CASE i # id
    <3>1. heap'[i] = heap[i] /\ (i \in live' <=> i \in live)
      BY <1>1, <2>2 DEF TypeOK
    <3> QED BY <3>1, GameKept
  <2> QED BY <2>1, <2>2
<1> QED BY <1>1, <1>3, PlayStep

LEMMA TaskPromise ==
  ASSUME IInv, IInv', NEW c \in Conns, Task(c)
  PROVE  Promised!Next \/ UNCHANGED <<Games, Present>>
<1> USE NilAssumption, MmAssumption
<1>0. TypeOK /\ TypeOK'
  BY DEF IInv
<1>1. ASSUME NEW ctx \in Contexts, NEW id \in Ids, RequestSessionID(c, ctx, id)
      PROVE Promised!Next
  <2> DEFINE s == [context |-> ctx, owner |-> c, ownerPID |-> pid[c], reserved |-> TRUE,
                   info |-> NoInfo, age |-> 0]
             kept == {old \in live : ~(/\ heap[old].reserved
                                      /\ heap[old].context = ctx
                                      /\ Owns(c, heap[old]))}
  <2>1. s \in Session /\ s.owner = c /\ s.ownerPID = pid[c]
    BY <1>0 DEF Session, TypeOK
  <2>2. /\ phase[c] = "open" /\ Fresh(id)
        /\ kept \in SUBSET live /\ live' = kept \cup {id}
        /\ heap' = [heap EXCEPT ![id] = s]
        /\ UNCHANGED <<phase, pid>>
    BY <1>1 DEF RequestSessionID, Serving
  <2>3. \A old \in live \ kept : heap[old].ownerPID \in {pid[c], NoPid}
    BY OwnerMayTouch
  <2> HIDE DEF s, kept
  <2> QED BY <2>1, <2>2, <2>3, OpenPromise
<1>2. ASSUME NEW ctx \in Contexts, NEW id \in Ids, NEW info \in Infos,
             CreateSession(c, ctx, id, info)
      PROVE Promised!Next
  <2> DEFINE s == [context |-> ctx, owner |-> c, ownerPID |-> pid[c], reserved |-> FALSE,
                   info |-> info, age |-> 0]
             kept == {old \in live : ~Replaced(c, ctx, old)}
  <2>1. s \in Session /\ s.owner = c /\ s.ownerPID = pid[c]
    BY <1>0 DEF Session, TypeOK
  <2>2. /\ phase[c] = "open" /\ Fresh(id)
        /\ kept \in SUBSET live /\ live' = kept \cup {id}
        /\ heap' = [heap EXCEPT ![id] = s]
        /\ UNCHANGED <<phase, pid>>
    BY <1>2 DEF CreateSession, Serving
  <2>3. \A old \in live \ kept : heap[old].ownerPID \in {pid[c], NoPid}
    BY DEF Replaced
  <2> HIDE DEF s, kept
  <2> QED BY <2>1, <2>2, <2>3, OpenPromise
<1>3. ASSUME NEW ctx \in Contexts, NEW id \in Ids, NEW info \in Infos, NEW init \in BOOLEAN,
             UpdateSession(c, ctx, id, info, init)
      PROVE Promised!Next
  <2> DEFINE a == Attached(c, heap[id])
             s == IF init THEN [a EXCEPT !.info = info, !.reserved = FALSE]
                          ELSE [a EXCEPT !.info = info]
  <2>0. heap' = [heap EXCEPT ![id] = s]
    BY <1>3 DEF UpdateSession
  <2>1. /\ phase[c] = "open" /\ id \in live /\ Owns(c, heap[id])
        /\ UNCHANGED <<phase, pid, live>>
    BY <1>3 DEF UpdateSession, Serving, MayTouch
  <2>2. /\ a \in Session /\ a.owner = c /\ a.ownerPID = pid[c]
        /\ a.reserved = heap[id].reserved
    BY <1>0, <2>1, LiveSession, AttachedSession
  <2> HIDE DEF a
  <2>3. /\ s \in Session /\ s.owner = c /\ s.ownerPID = pid[c]
        /\ s.reserved => heap[id].reserved
    BY <2>2 DEF Session
  <2> HIDE DEF s
  <2> QED BY <2>0, <2>1, <2>3, WritePromise
<1>4. ASSUME NEW ctx \in Contexts, NEW id \in Ids, NEW info \in Infos \cup {NoInfo},
             UpdatePlayers(c, ctx, id, info)
      PROVE Promised!Next
  <2> DEFINE a == Attached(c, heap[id])
             s == Refreshed(a, info)
  <2>1. /\ phase[c] = "open" /\ id \in live /\ Owns(c, heap[id])
        /\ heap' = [heap EXCEPT ![id] = s]
        /\ UNCHANGED <<phase, pid, live>>
    BY <1>4 DEF UpdatePlayers, Serving, MayTouch
  <2>2. /\ a \in Session /\ a.owner = c /\ a.ownerPID = pid[c]
        /\ a.reserved = heap[id].reserved
    BY <1>0, <2>1, LiveSession, AttachedSession
  <2> HIDE DEF a
  <2>3. /\ s \in Session /\ s.owner = c /\ s.ownerPID = pid[c]
        /\ s.reserved => heap[id].reserved
    BY <2>2 DEF Session, Refreshed
  <2> HIDE DEF s
  <2> QED BY <2>1, <2>3, WritePromise
<1>5. ASSUME NEW ctx \in Contexts, NEW id \in Ids, DeleteSession(c, ctx, id)
      PROVE Promised!Next
  <2>1. /\ phase[c] = "open" /\ id \in live /\ Owns(c, heap[id])
        /\ live' = live \ {id} /\ UNCHANGED <<phase, pid, heap>>
    BY <1>5 DEF DeleteSession, Serving, MayTouch
  <2>2. ASSUME NEW i \in Ids
        PROVE Games'[i] = Games[i] \/ Promised!Played(pid[c], Games[i], Games'[i])
    <3>1. CASE i = id
      <4>1. i \in live /\ i \notin live' /\ heap'[i] = heap[i] /\ heap[i].ownerPID \in {pid[c], NoPid}
        BY <2>1, <3>1, OwnerMayTouch
      <4> QED BY <1>0, <4>1, GameClosed
    <3>2. CASE i # id
      BY <2>1, <3>2, GameKept
    <3> QED BY <3>1, <3>2
  <2> QED BY <1>0, <2>1, <2>2, PlayStep
<1>6. ASSUME \/ \E ctx \in Contexts : FindLock(c, ctx)
             \/ FindReply(c)
      PROVE UNCHANGED <<Games, Present>>
  <2>1. UNCHANGED <<phase, pid, heap, live>>
    BY <1>6 DEF FindLock, FindReply
  <2> QED BY <2>1 DEF Games, Present
<1> QED BY <1>1, <1>2, <1>3, <1>4, <1>5, <1>6 DEF Task

(* A connection opens, or its identity arrives. *)
LEMMA ArrivePromise ==
  ASSUME TypeOK, NEW c \in Conns, Connect(c) \/ Identify(c)
  PROVE  Promised!Next \/ UNCHANGED <<Games, Present>>
<1> USE MmAssumption
<1>1. UNCHANGED Games
  BY DEF Connect, Identify, Games
<1>2. PICK p \in Pids \cup {NoPid} :
         /\ pid' = [pid EXCEPT ![c] = p]
         /\ phase[c] = "new" \/ pid[c] = NoPid
         /\ phase' = [phase EXCEPT ![c] = phase'[c]]
         /\ phase[c] = "open" => phase'[c] = "open"
         /\ phase[c] = "closed" => phase'[c] = "closed"
  BY DEF Connect, Identify, TypeOK
<1>3. \A d \in Conns \ {c} : pid'[d] = pid[d] /\ phase'[d] = phase[d]
  BY <1>2 DEF TypeOK
<1>4. pid'[c] = p
  BY <1>2 DEF TypeOK
<1>5. CASE p = NoPid \/ phase'[c] # "open"
  <2>1. Present' = Present
    BY <1>2, <1>3, <1>4, <1>5 DEF Present, TypeOK
  <2> QED BY <1>1, <2>1
<1>6. CASE p # NoPid /\ phase'[c] = "open"
  <2>1. Present' = Present \cup {p}
    BY <1>2, <1>3, <1>4, <1>6 DEF Present, TypeOK
  <2>2. Promised!Arrive(p)
    BY <1>1, <2>1 DEF Promised!Arrive
  <2> QED BY <1>6, <2>2 DEF Promised!Next
<1> QED BY <1>5, <1>6

LEMMA DropPromise == ASSUME IInv, IInv', NEW c \in Conns, Drop(c) PROVE Promised!Next
<1> USE MmAssumption
<1>1. TypeOK /\ TypeOK' /\ phase[c] = "open"
  BY DEF IInv, Drop, Serving
<1>2. pid[c] \in Pids \cup {NoPid} /\ pid[c] \in Present \cup {NoPid}
  BY <1>1, PlayerPresent
<1>3. Present' \in {Present, Present \ {pid[c]}}
  <2>1. \A d \in Conns : phase'[d] = "open" <=> phase[d] = "open" /\ d # c
    BY <1>1 DEF Drop, TypeOK
  <2>2. UNCHANGED pid
    BY DEF Drop
  <2>3. CASE \E d \in Conns \ {c} : phase[d] = "open" /\ pid[d] = pid[c]
    BY <2>1, <2>2, <2>3 DEF Present
  <2>4. CASE \A d \in Conns \ {c} : phase[d] = "open" => pid[d] # pid[c]
    BY <2>1, <2>2, <2>4 DEF Present
  <2> QED BY <2>3, <2>4
<1>4. ASSUME NEW i \in Ids
      PROVE Games'[i] = Games[i] \/ Promised!Left(pid[c], Games[i], Games'[i])
  <2>1. CASE i \in live /\ Dropped(c, i)
    <3>1. /\ heap[i] \in Session /\ heap[i].owner = c /\ heap[i].ownerPID = NoPid
          /\ i \notin live' /\ heap'[i] = heap[i]
      BY <1>1, <2>1, LiveSession DEF Drop, Dropped
    <3>2. (i \in live) = TRUE /\ (i \in live') = FALSE
      BY <2>1, <3>1
    <3>3. Games[i] = Outline(heap[i], TRUE) /\ Games'[i] = Outline(heap[i], FALSE)
      BY <3>1, <3>2 DEF Games
    <3>4. Promised!Open(pid[c], Games[i]) /\ Games[i].hosted /\ Games[i].host = NoPid
      BY <3>1, <3>3, OutlineListed DEF Promised!Open
    <3> QED BY <3>1, <3>3, <3>4, OutlineGone DEF Promised!Left
  <2>2. CASE i \in live /\ ~Dropped(c, i) /\ heap[i].owner = c
    <3>1. /\ heap[i] \in Session /\ i \in live' /\ heap'[i] = Detached(heap[i])
          /\ heap[i].ownerPID # NoPid
      BY <1>1, <2>2, LiveSession DEF Drop, Dropped
    <3>2. heap[i].ownerPID = pid[c] /\ heap[i].owner # NoConn
      BY <2>2, <3>1 DEF IInv, HostAccountable
    <3>3. (i \in live) = TRUE /\ (i \in live') = TRUE
      BY <2>2, <3>1
    <3>4. Games[i] = Outline(heap[i], TRUE) /\ Games'[i] = Outline(Detached(heap[i]), TRUE)
      BY <3>1, <3>3 DEF Games
    <3>5. PICK st : st = IF heap[i].reserved THEN "reserved" ELSE "published"
      OBVIOUS
    <3>6. Games[i] = [stage |-> st, host |-> pid[c], hosted |-> TRUE, away |-> 0]
      BY <3>1, <3>2, <3>4, <3>5, OutlineHosted DEF Promised!Hosted
    <3>7. Games'[i] = [stage |-> st, host |-> pid[c], hosted |-> FALSE, away |-> 0]
      <4>1. /\ Detached(heap[i]) \in Session /\ Detached(heap[i]).owner = NoConn
            /\ Detached(heap[i]).ownerPID = pid[c] /\ Detached(heap[i]).age = 0
            /\ Detached(heap[i]).reserved = heap[i].reserved
        BY <3>1, <3>2, DetachedSession DEF Detached, Session
      <4> QED BY <3>4, <3>5, <4>1, OutlineAway
    <3>8. Promised!Open(pid[c], Games[i])
      BY <3>1, <3>2, <3>4, OutlineListed DEF Promised!Open
    <3>9. pid[c] # NoPid
      BY <3>1, <3>2
    <3>10. /\ Games[i].hosted /\ Games[i].host # NoPid
           /\ Games'[i] = Promised!Waiting(Games[i].stage, pid[c], 0)
      BY <3>6, <3>7, <3>9 DEF Promised!Waiting
    <3> QED BY <3>8, <3>10 DEF Promised!Left
  <2>3. CASE ~(i \in live /\ (Dropped(c, i) \/ heap[i].owner = c))
    <3>1. heap'[i] = heap[i] /\ (i \in live' <=> i \in live)
      BY <2>3 DEF Drop
    <3> QED BY <3>1, GameKept
  <2> QED BY <2>1, <2>2, <2>3
<1>5. Games' \in [Ids -> Promised!Game]
  BY <1>1, GamesNextType
<1>6. Promised!Leave(pid[c])
  BY <1>2, <1>3, <1>4, <1>5 DEF Promised!Leave
<1> QED BY <1>2, <1>6 DEF Promised!Next

LEMMA TickPromise == ASSUME IInv, IInv', Tick PROVE Promised!Next
<1> USE MmAssumption, NilAssumption
<1>1. TypeOK /\ TypeOK'
  BY DEF IInv
<1>2. ASSUME NEW i \in Ids
      PROVE Games'[i] = Games[i] \/ Promised!Waited(Games[i], Games'[i])
  <2>1. CASE i \in live /\ heap[i].owner = NoConn /\ heap[i].age <= Grace
    <3>1. heap[i] \in Session /\ i \in live' /\ heap'[i] = [heap[i] EXCEPT !.age = heap[i].age + 1]
      BY <1>1, <2>1, LiveSession DEF Tick
    <3>2. /\ heap'[i] \in Session /\ heap'[i].owner = NoConn
          /\ heap'[i].age = heap[i].age + 1
          /\ heap'[i].ownerPID = heap[i].ownerPID /\ heap'[i].reserved = heap[i].reserved
      BY <2>1, <3>1 DEF Session
    <3>3. (i \in live) = TRUE /\ (i \in live') = TRUE
      BY <2>1, <3>1
    <3>4. Games[i] = Outline(heap[i], TRUE) /\ Games'[i] = Outline(heap'[i], TRUE)
      BY <3>3 DEF Games
    <3>5. PICK st : st = IF heap[i].reserved THEN "reserved" ELSE "published"
      OBVIOUS
    <3>6. Games[i] = [stage |-> st, host |-> heap[i].ownerPID, hosted |-> FALSE, away |-> heap[i].age]
      BY <2>1, <3>1, <3>4, <3>5, OutlineAway
    <3>7. Games'[i] = [stage |-> st, host |-> heap[i].ownerPID, hosted |-> FALSE,
                       away |-> heap[i].age + 1]
      BY <3>2, <3>4, <3>5, OutlineAway
    <3>8. Promised!Listed(Games[i])
      BY <3>1, <3>4, OutlineListed
    <3>9. ~Games[i].hosted /\ Games[i].stage = st /\ Games[i].host = heap[i].ownerPID
          /\ Games[i].away = heap[i].age
      BY <3>6
    <3>10. Games'[i] = Promised!Waiting(Games[i].stage, Games[i].host, Games[i].away + 1)
      BY <3>7, <3>9 DEF Promised!Waiting
    <3> QED BY <3>8, <3>9, <3>10 DEF Promised!Waited
  <2>2. CASE ~(i \in live /\ heap[i].owner = NoConn /\ heap[i].age <= Grace)
    <3>1. heap'[i] = heap[i] /\ (i \in live' <=> i \in live)
      BY <2>2 DEF Tick
    <3> QED BY <3>1, GameKept
  <2> QED BY <2>1, <2>2
<1>3. UNCHANGED Present
  BY DEF Tick, Present
<1>4. Games' \in [Ids -> Promised!Game]
  BY <1>1, GamesNextType
<1>5. Promised!Wait
  BY <1>2, <1>3, <1>4 DEF Promised!Wait
<1> QED BY <1>5 DEF Promised!Next

LEMMA ReapPromise == ASSUME IInv, IInv', Reap PROVE Promised!Next
<1>1. TypeOK /\ TypeOK'
  BY DEF IInv
<1>2. ASSUME NEW i \in Ids
      PROVE Games'[i] = Games[i] \/ Promised!Lapsed(Games[i], Games'[i])
  <2>1. CASE i \in live /\ Expired(i)
    <3>1. heap[i] \in Session /\ i \notin live' /\ heap'[i] = heap[i]
          /\ heap[i].owner = NoConn /\ heap[i].age > Grace
      BY <1>1, <2>1, LiveSession DEF Reap, Expired
    <3>2. (i \in live) = TRUE /\ (i \in live') = FALSE
      BY <2>1, <3>1
    <3>3. Games[i] = Outline(heap[i], TRUE) /\ Games'[i] = Outline(heap[i], FALSE)
      BY <3>1, <3>2 DEF Games
    <3>4. Games'[i] = Promised!Gone
      BY <3>1, <3>3, OutlineGone
    <3>5. /\ Promised!Listed(Games[i])
          /\ ~Games[i].hosted /\ Games[i].away > Grace
      <4>1. Promised!Listed(Games[i])
        BY <3>1, <3>3, OutlineListed
      <4>2. PICK st : st = IF heap[i].reserved THEN "reserved" ELSE "published"
        OBVIOUS
      <4>3. Games[i] = [stage |-> st, host |-> heap[i].ownerPID, hosted |-> FALSE,
                        away |-> heap[i].age]
        BY <3>1, <3>3, <4>2, OutlineAway
      <4> QED BY <3>1, <4>1, <4>3
    <3> QED BY <3>4, <3>5 DEF Promised!Lapsed
  <2>2. CASE ~(i \in live /\ Expired(i))
    <3>1. heap'[i] = heap[i] /\ (i \in live' <=> i \in live)
      BY <2>2 DEF Reap
    <3> QED BY <3>1, GameKept
  <2> QED BY <2>1, <2>2
<1>3. UNCHANGED Present
  BY DEF Reap, Present
<1>4. Games' \in [Ids -> Promised!Game]
  BY <1>1, GamesNextType
<1>5. Promised!Lapse
  BY <1>2, <1>3, <1>4 DEF Promised!Lapse
<1> QED BY <1>5 DEF Promised!Next

LEMMA PromiseStep == IInv /\ IInv' /\ [Next]_vars => [Promised!Next]_Promised!vars
<1> SUFFICES ASSUME IInv, IInv', [Next]_vars
             PROVE  Promised!Next \/ UNCHANGED <<Games, Present>>
  BY DEF Promised!vars
<1>1. TypeOK
  BY DEF IInv
<1>2. ASSUME NEW c \in Conns, Connect(c) \/ Identify(c) \/ Drop(c) \/ Task(c)
      PROVE  Promised!Next \/ UNCHANGED <<Games, Present>>
  BY <1>1, <1>2, ArrivePromise, DropPromise, TaskPromise
<1>3. CASE Tick
  BY <1>3, TickPromise
<1>4. CASE Reap
  BY <1>4, ReapPromise
<1>5. CASE UNCHANGED vars
  BY <1>5 DEF vars, Games, Present
<1> QED BY <1>2, <1>3, <1>4, <1>5 DEF Next

(* The directory keeps its promise: a game is touched by its own account    *)
(* only, never changes its account, never goes back a stage, and is lost    *)
(* only by its account's doing or after the grace period.                   *)
THEOREM DirectoryKeepsPromise == Spec => KeepsPromise
<1>1. Init => Promised!Init
  BY PromiseInit
<1>2. IInv /\ IInv' /\ [Next]_vars => [Promised!Next]_Promised!vars
  BY PromiseStep
<1> QED BY <1>1, <1>2, MmInvariant, PTL DEF Spec, KeepsPromise, Promised!Spec

=============================================================================
