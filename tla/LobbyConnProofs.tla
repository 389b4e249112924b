-------------------------- MODULE LobbyConnProofs --------------------------
(* Proofs about LobbyConn, for any connections, workloads and tickets. *)
EXTENDS LobbyConn, FiniteSetTheorems, TLAPS

(* Where a goroutine is tells what it has in hand. *)
Placed ==
    \A g \in Conns :
       /\ snd[g] # NoFrame => pc[g] \in {"replying", "notifying"}
       /\ pc[g] = "replying" => /\ snd[g] # NoFrame
                                /\ snd[g].to = g
                                /\ snd[g].kind = "reply"
                                /\ snd[g].of = tasks[g]
       /\ pc[g] = "notifying" /\ snd[g] # NoFrame => snd[g].kind = "push"
       /\ after[g] # "none" => pc[g] \in {"replying", "after"}
       /\ notices[g] # {} => pc[g] \in {"replying", "after", "notifying"}

(* Keys come before everything that makes a connection an addressee. *)
Addressees ==
    \A g \in Conns :
       /\ pc[g] \in {"serving", "replying", "after", "notifying"} => g \in keyed
       /\ search[g] # 0 => g \in keyed
       /\ \A n \in notices[g] : n.to \in keyed

(* A number that was given out is written, or in the hands of the holder of *)
(* the mutex, or lost on a broken connection.                               *)
Numbering ==
    /\ \A g \in Conns : snd[g] # NoFrame /\ snd[g].num # 0 => mu[snd[g].to] = g
    /\ \A d \in Conns : mu[d] # Free =>
          /\ snd[mu[d]] # NoFrame /\ snd[mu[d]].to = d
          /\ snd[mu[d]].num = seq[d] /\ snd[mu[d]].num # 0
          /\ d \in broken \/ Len(wire[d]) + 1 = seq[d]
    /\ \A d \in Conns : mu[d] = Free => d \in broken \/ Len(wire[d]) = seq[d]
    /\ NumbersExact

(* The reply of task k is on the wire, or nothing can follow any more. *)
Known(d, k) ==
    \/ d \in broken
    \/ \E j \in DOMAIN wire[d] : wire[d][j].kind = "reply" /\ wire[d][j].of = k

(* Notices are about searches whose reply is known. *)
Informed ==
    /\ \A c \in Conns : search[c] # 0 => Known(c, search[c])
    /\ \A c \in Conns : pc[c] = "after" => Known(c, tasks[c])
    /\ \A g \in Conns : \A n \in notices[g] : n.of # 0 => Known(n.to, n.of)
    /\ \A g \in Conns : snd[g] # NoFrame /\ snd[g].kind = "push" /\ snd[g].of # 0
                           => Known(snd[g].to, snd[g].of)
    /\ SearchKnownFirst

(* The deferred calls undo what the connection has entered. *)
Ended ==
    \A c \in Conns :
       /\ c \in online => pc[c] \notin {"left", "closed"}
       /\ search[c] # 0 => pc[c] \notin {"left", "closed"}
       /\ c \in listed \cup games => pc[c] # "closed"

(* How many of the first n tasks are outside the set S. *)
Outside(S, n) == Cardinality(1..n \ S)

(* Each task that was long enough has its reply on the wire, but the one     *)
(* being answered.                                                          *)
Answered ==
    \A c \in Conns :
       /\ dropped[c] \subseteq 1..tasks[c]
       /\ pc[c] = "replying" => tasks[c] \in 1..MaxTasks /\ tasks[c] \notin dropped[c]
       /\ \A k \in DOMAIN wire[c] :
             wire[c][k].kind = "reply" =>
                /\ wire[c][k].of \in 1..tasks[c] \ dropped[c]
                /\ Replies(wire[c], k) = Outside(dropped[c], wire[c][k].of)
       /\ c \in broken \/ Replies(wire[c], Len(wire[c])) =
                              Outside(dropped[c], IF pc[c] = "replying" THEN tasks[c] - 1
                                                  ELSE tasks[c])

IInv == TypeOK /\ Placed /\ Addressees /\ KeysBeforeUse /\ Numbering /\ Informed /\ Ended
        /\ Answered

-----------------------------------------------------------------------------
LEMMA NoFrameApart == ASSUME NEW f \in Frame PROVE f # NoFrame
BY DEF Frame, NoFrame

LEMMA ConnInit == Init => IInv
<1> SUFFICES ASSUME Init PROVE IInv
  OBVIOUS
<1> USE ConnAssumption DEF Init
<1>1. TypeOK
  BY DEF TypeOK
<1>2. Placed /\ Addressees /\ KeysBeforeUse /\ Ended
  BY DEF Placed, Addressees, KeysBeforeUse, Ended
<1>3. Numbering
  BY DEF Numbering, NumbersExact
<1>4. Informed
  BY DEF Informed, SearchKnownFirst
<1>5. Answered
  <2>1. {j \in 1..0 : (<<>>)[j].kind = "reply"} = {} /\ 1..0 \ {} = {}
    OBVIOUS
  <2>2. Replies(<<>>, 0) = 0 /\ Outside({}, 0) = 0
    BY <2>1, FS_EmptySet DEF Replies, Outside
  <2> QED BY <2>2 DEF Answered
<1> QED BY <1>1, <1>2, <1>3, <1>4, <1>5 DEF IInv

-----------------------------------------------------------------------------
(* The notices of the matchmaker go to connections that search. *)
LEMMA NotifiedHolds ==
  ASSUME NEW held \in [Conns -> 0..MaxTasks], NEW ns \in Notified(held), NEW n \in ns
  PROVE  n \in Notice /\ held[n.to] # 0 /\ n.of = held[n.to]
BY DEF Notified, Notice

LEMMA NotifiedType ==
  ASSUME NEW held \in [Conns -> 0..MaxTasks], NEW ns \in Notified(held)
  PROVE  ns \in SUBSET Notice
BY NotifiedHolds

(* A task that is too short is counted, and that is all. *)
LEMMA ShortStep ==
  ASSUME TypeOK, NEW c \in Conns, OnTask(c, "short")
  PROVE  /\ UNCHANGED <<pc, keyed, after, notices, snd, mu, seq, wire, broken, listed, online,
                        games, search>>
         /\ pc[c] = "serving" /\ tasks[c] + 1 \in 1..MaxTasks
         /\ tasks' = [tasks EXCEPT ![c] = tasks[c] + 1]
         /\ dropped' = [dropped EXCEPT ![c] = dropped[c] \cup {tasks[c] + 1}]
BY ConnAssumption DEF OnTask, Serving, AfterTask, Left, Reply, TypeOK

(* Types, one action at a time. *)
LEMMA TypeStep == TypeOK /\ [Next]_vars => TypeOK'
<1> SUFFICES ASSUME TypeOK, [Next]_vars PROVE TypeOK'
  OBVIOUS
<1> USE ConnAssumption DEF TypeOK, Goto, writing, services
<1>1. ASSUME NEW c \in Conns, Accept(c) \/ Hello(c) \/ Keepalive(c) \/ ReadFails(c) PROVE TypeOK'
  <2>1. CASE Accept(c)
    BY <2>1 DEF Accept
  <2>2. CASE Hello(c)
    BY <2>2 DEF Hello
  <2>3. CASE Keepalive(c)
    BY <2>3 DEF Keepalive
  <2>4. CASE ReadFails(c)
    BY <2>4 DEF ReadFails
  <2> QED BY <1>1, <2>1, <2>2, <2>3, <2>4
<1>2. ASSUME NEW c \in Conns, OnClientAuth(c) PROVE TypeOK'
  <2>1. keyed' \subseteq Conns /\ online' \subseteq Conns /\ broken' \subseteq Conns
    BY <1>2 DEF OnClientAuth
  <2>2. pc' \in [Conns -> {"new", "hello", "auth", "serving", "replying", "after", "notifying",
                           "ending", "left", "closed"}]
    BY <1>2 DEF OnClientAuth
  <2>3. UNCHANGED <<tasks, dropped, listed, games, search, after, notices, snd, mu, seq, wire>>
    BY <1>2 DEF OnClientAuth
  <2> QED BY <2>1, <2>2, <2>3
<1>3a. ASSUME NEW c \in Conns, OnTask(c, "short") PROVE TypeOK'
  <2>1. /\ UNCHANGED <<pc, keyed, after, notices, snd, mu, seq, wire, broken, listed, online,
                      games, search>>
        /\ tasks[c] + 1 \in 1..MaxTasks
        /\ tasks' = [tasks EXCEPT ![c] = tasks[c] + 1]
        /\ dropped' = [dropped EXCEPT ![c] = dropped[c] \cup {tasks[c] + 1}]
    BY <1>3a, ShortStep
  <2>2. tasks' \in [Conns -> 0..MaxTasks]
    BY <2>1
  <2>3. dropped' \in [Conns -> SUBSET (1..MaxTasks)]
    BY <2>1
  <2> QED BY <2>1, <2>2, <2>3
<1>3. ASSUME NEW c \in Conns, NEW kind \in Kinds \ {"short"}, OnTask(c, kind) PROVE TypeOK'
  <2> USE <1>3 DEF OnTask
  <2>1. tasks' \in [Conns -> 0..MaxTasks]
    OBVIOUS
  <2>2. after' \in [Conns -> {"none", "enqueue", "notify"}]
    BY DEF AfterTask
  <2>3. notices' \in [Conns -> SUBSET Notice]
    <3>1. CASE UNCHANGED notices
      BY <3>1
    <3>2. CASE \E ns \in Notified(search) : notices' = [notices EXCEPT ![c] = ns]
      <4>1. PICK ns \in Notified(search) : notices' = [notices EXCEPT ![c] = ns]
        BY <3>2
      <4>2. ns \in SUBSET Notice
        BY NotifiedType
      <4> QED BY <4>1, <4>2
    <3>3. CASE notices' = [notices EXCEPT ![c] = {[to |-> c, of |-> 0]}]
      BY <3>3 DEF Notice
    <3> QED BY <3>1, <3>2, <3>3 DEF AfterTask
  <2>4. snd' \in [Conns -> Frame \cup {NoFrame}]
    <3>1. [to |-> c, kind |-> "reply", of |-> tasks[c] + 1, num |-> 0] \in Frame
      BY DEF Frame
    <3>2. Answer(c)
      BY DEF Reply
    <3> QED BY <3>1, <3>2 DEF Answer
  <2>5. search' \in [Conns -> 0..MaxTasks]
    BY DEF Left
  <2>6. pc' \in [Conns -> {"new", "hello", "auth", "serving", "replying", "after", "notifying",
                           "ending", "left", "closed"}]
    BY DEF Reply, Answer
  <2> QED BY <2>1, <2>2, <2>3, <2>4, <2>5, <2>6
<1>4. ASSUME NEW g \in Conns, Lock(g) PROVE TypeOK'
  <2> USE <1>4 DEF Lock, Numbered
  <2>1. snd[g] \in Frame
    OBVIOUS
  <2>2. snd[g].to \in Conns /\ seq[snd[g].to] + 1 \in Nat
    BY <2>1 DEF Frame
  <2>3. [snd[g] EXCEPT !.num = seq[snd[g].to] + 1] \in Frame
    BY <2>1, <2>2 DEF Frame
  <2>4. snd' \in [Conns -> Frame \cup {NoFrame}]
    BY <2>3
  <2> QED BY <2>2, <2>4
<1>5. ASSUME NEW g \in Conns, Write(g) PROVE TypeOK'
  <2> USE <1>5 DEF Write, Send, Unlock
  <2>1. snd[g] \in Frame /\ snd[g].to \in Conns
    BY DEF Frame
  <2>2. CASE wire' = [wire EXCEPT ![snd[g].to] = Append(wire[snd[g].to], snd[g])]
    <3>1. Append(wire[snd[g].to], snd[g]) \in Seq(Frame)
      BY <2>1
    <3>2. wire' \in [Conns -> Seq(Frame)]
      BY <2>2, <3>1
    <3> QED BY <2>1, <3>2
  <2>3. CASE UNCHANGED wire
    BY <2>1, <2>3
  <2> QED BY <2>2, <2>3
<1>6. ASSUME NEW c \in Conns, AfterReply(c) PROVE TypeOK'
  <2> USE <1>6 DEF AfterReply
  <2>1. CASE after[c] = "enqueue"
    <3>1. search' \in [Conns -> 0..MaxTasks]
      <4>1. search' = [search EXCEPT ![c] = tasks[c]] /\ tasks[c] \in 0..MaxTasks
        BY <2>1
      <4> QED BY <4>1
    <3>2. PICK ns \in Notified(search') : notices' = [notices EXCEPT ![c] = ns]
      BY <2>1
    <3>3. ns \in SUBSET Notice
      BY <3>1, NotifiedType
    <3> QED BY <3>1, <3>2, <3>3
  <2>2. CASE after[c] # "enqueue"
    BY <2>2
  <2> QED BY <2>1, <2>2
<1>7. ASSUME NEW c \in Conns, Push(c) PROVE TypeOK'
  <2>1. PICK n \in notices[c] :
           /\ notices' = [notices EXCEPT ![c] = @ \ {n}]
           /\ snd' = [snd EXCEPT ![c] = [to |-> n.to, kind |-> "push", of |-> n.of, num |-> 0]]
    BY <1>7 DEF Push
  <2>2. [to |-> n.to, kind |-> "push", of |-> n.of, num |-> 0] \in Frame
    BY <2>1 DEF Frame, Notice
  <2> QED BY <1>7, <2>1, <2>2 DEF Push
<1>8. ASSUME NEW c \in Conns, Leave(c) \/ Close(c) PROVE TypeOK'
  <2>1. CASE Leave(c)
    BY <2>1 DEF Leave
  <2>2. CASE Close(c)
    BY <2>2 DEF Close
  <2> QED BY <1>8, <2>1, <2>2
<1>9. CASE UNCHANGED vars
  BY <1>9 DEF vars
<1> HIDE DEF TypeOK, Goto, writing, services
<1> QED
  BY <1>1, <1>2, <1>3a, <1>3, <1>4, <1>5, <1>6, <1>7, <1>8, <1>9 DEF Next, Step

-----------------------------------------------------------------------------
(* The cases of a step, with the actions that only touch a connection's own *)
(* place taken together.                                                    *)
Quiet(c) == Accept(c) \/ Hello(c) \/ Keepalive(c) \/ ReadFails(c) \/ OnClientAuth(c)

LEMMA StepCases ==
  ASSUME [Next]_vars, NEW P,
         \A c \in Conns : Quiet(c) => P,
         \A c \in Conns : OnTask(c, "short") => P,
         \A c \in Conns : \A kind \in Kinds \ {"short"} : OnTask(c, kind) => P,
         \A c \in Conns : Lock(c) => P,
         \A c \in Conns : Write(c) => P,
         \A c \in Conns : AfterReply(c) => P,
         \A c \in Conns : Push(c) => P,
         \A c \in Conns : Leave(c) \/ Close(c) => P,
         UNCHANGED vars => P
  PROVE  P
BY DEF Next, Step, Quiet

LEMMA PlacedStep == TypeOK /\ Placed /\ [Next]_vars => Placed'
<1> SUFFICES ASSUME TypeOK, Placed, [Next]_vars PROVE Placed'
  OBVIOUS
<1> USE ConnAssumption DEF Placed, TypeOK, Goto, writing, services
<1>1. ASSUME NEW c \in Conns, Quiet(c) PROVE Placed'
  <2>1. CASE Accept(c)
    BY <2>1 DEF Accept
  <2>2. CASE Hello(c)
    BY <2>2 DEF Hello
  <2>3. CASE Keepalive(c)
    BY <2>3 DEF Keepalive
  <2>4. CASE ReadFails(c)
    BY <2>4 DEF ReadFails
  <2>5. CASE OnClientAuth(c)
    BY <2>5 DEF OnClientAuth
  <2> QED BY <1>1, <2>1, <2>2, <2>3, <2>4, <2>5 DEF Quiet
<1>0. ASSUME NEW c \in Conns, OnTask(c, "short") PROVE Placed'
  BY <1>0, ShortStep
<1>2. ASSUME NEW c \in Conns, NEW kind \in Kinds \ {"short"}, OnTask(c, kind) PROVE Placed'
  <2>1. pc[c] = "serving" /\ pc' = [pc EXCEPT ![c] = "replying"]
        /\ tasks' = [tasks EXCEPT ![c] = tasks[c] + 1]
    BY <1>2 DEF OnTask, Serving, Reply, Answer
  <2>2. snd' = [snd EXCEPT ![c] = [to |-> c, kind |-> "reply", of |-> tasks[c] + 1, num |-> 0]]
    BY <1>2 DEF OnTask, Reply, Answer
  <2>3. snd'[c] # NoFrame
    BY <2>2 DEF NoFrame
  <2>4. \A g \in Conns \ {c} : after'[g] = after[g] /\ notices'[g] = notices[g]
    BY <1>2 DEF OnTask, AfterTask
  <2> QED BY <2>1, <2>2, <2>3, <2>4
<1>3. ASSUME NEW g \in Conns, Lock(g) PROVE Placed'
  <2>1. snd[g] \in Frame /\ UNCHANGED <<pc, after, notices, tasks>>
    BY <1>3 DEF Lock
  <2>2. PICK n : snd' = [snd EXCEPT ![g].num = n]
    BY <1>3 DEF Lock, Numbered
  <2>3. /\ snd'[g] # NoFrame /\ snd'[g].to = snd[g].to
        /\ snd'[g].kind = snd[g].kind /\ snd'[g].of = snd[g].of
    BY <2>1, <2>2 DEF Frame, NoFrame
  <2>4. \A h \in Conns \ {g} : snd'[h] = snd[h]
    BY <2>2
  <2> QED BY <1>3, <2>1, <2>3, <2>4 DEF Lock
<1>4. ASSUME NEW g \in Conns, Write(g) PROVE Placed'
  <2>1. snd' = [snd EXCEPT ![g] = NoFrame] /\ UNCHANGED <<after, notices, tasks>>
    BY <1>4 DEF Write
  <2>2. pc' = [pc EXCEPT ![g] = IF pc[g] = "replying" /\ after[g] # "none" THEN "after"
                                ELSE IF notices[g] # {} THEN "notifying" ELSE "serving"]
    BY <1>4 DEF Write
  <2> QED BY <1>4, <2>1, <2>2 DEF Write
<1>5. ASSUME NEW c \in Conns, AfterReply(c) PROVE Placed'
  <2>1. /\ pc[c] = "after" /\ after' = [after EXCEPT ![c] = "none"]
        /\ pc' = [pc EXCEPT ![c] = IF notices'[c] = {} THEN "serving" ELSE "notifying"]
        /\ UNCHANGED <<snd, tasks>>
    BY <1>5 DEF AfterReply
  <2>2. \A g \in Conns \ {c} : notices'[g] = notices[g]
    BY <1>5 DEF AfterReply
  <2> QED BY <2>1, <2>2
<1>6. ASSUME NEW c \in Conns, Push(c) PROVE Placed'
  <2>1. PICK n \in notices[c] :
           /\ notices' = [notices EXCEPT ![c] = @ \ {n}]
           /\ snd' = [snd EXCEPT ![c] = [to |-> n.to, kind |-> "push", of |-> n.of, num |-> 0]]
    BY <1>6 DEF Push
  <2>2. pc[c] = "notifying" /\ UNCHANGED <<pc, tasks, after>>
    BY <1>6 DEF Push
  <2> QED BY <2>1, <2>2
<1>7. ASSUME NEW c \in Conns, Leave(c) \/ Close(c) PROVE Placed'
  <2>1. CASE Leave(c)
    BY <2>1 DEF Leave
  <2>2. CASE Close(c)
    BY <2>2 DEF Close
  <2> QED BY <1>7, <2>1, <2>2
<1>8. CASE UNCHANGED vars
  BY <1>8 DEF vars
<1> HIDE DEF Placed, TypeOK, Goto, writing, services
<1> QED
  BY <1>0, <1>1, <1>2, <1>3, <1>4, <1>5, <1>6, <1>7, <1>8, StepCases

LEMMA KeysStep ==
  TypeOK /\ Placed /\ Addressees /\ KeysBeforeUse /\ [Next]_vars
     => Addressees' /\ KeysBeforeUse'
<1> SUFFICES ASSUME TypeOK, Placed, Addressees, KeysBeforeUse, [Next]_vars
             PROVE  Addressees' /\ KeysBeforeUse'
  OBVIOUS
<1> DEFINE P == Addressees' /\ KeysBeforeUse'
<1> USE ConnAssumption DEF Addressees, KeysBeforeUse, TypeOK, Goto, writing, services
<1>1. ASSUME NEW c \in Conns, Quiet(c) PROVE P
  <2>1. CASE Accept(c)
    BY <2>1 DEF Accept
  <2>2. CASE Hello(c)
    BY <2>2 DEF Hello
  <2>3. CASE Keepalive(c)
    BY <2>3 DEF Keepalive
  <2>4. CASE ReadFails(c)
    BY <2>4 DEF ReadFails
  <2>5. CASE OnClientAuth(c)
    BY <2>5 DEF OnClientAuth
  <2> QED BY <1>1, <2>1, <2>2, <2>3, <2>4, <2>5 DEF Quiet
<1>0. ASSUME NEW c \in Conns, OnTask(c, "short") PROVE P
  BY <1>0, ShortStep
<1>2. ASSUME NEW c \in Conns, NEW kind \in Kinds \ {"short"}, OnTask(c, kind) PROVE P
  <2>1. /\ pc[c] = "serving" /\ c \in keyed /\ UNCHANGED keyed
        /\ pc' = [pc EXCEPT ![c] = "replying"]
    BY <1>2 DEF OnTask, Serving, Reply, Answer
  <2>2. snd' = [snd EXCEPT ![c] = [to |-> c, kind |-> "reply", of |-> tasks[c] + 1, num |-> 0]]
    BY <1>2 DEF OnTask, Reply, Answer
  <2>3. \A g \in Conns : search'[g] # 0 => search[g] # 0
    BY <1>2 DEF OnTask, Left
  <2>4. \A g \in Conns : \A n \in notices'[g] : n.to \in keyed
    <3>1. CASE UNCHANGED notices
      BY <3>1
    <3>2. CASE \E ns \in Notified(search) : notices' = [notices EXCEPT ![c] = ns]
      <4>1. PICK ns \in Notified(search) : notices' = [notices EXCEPT ![c] = ns]
        BY <3>2
      <4>2. \A n \in ns : n.to \in keyed
        <5> TAKE n \in ns
        <5>1. n \in Notice /\ search[n.to] # 0
          BY NotifiedHolds
        <5> QED BY <5>1 DEF Notice
      <4> QED BY <4>1, <4>2
    <3>3. CASE notices' = [notices EXCEPT ![c] = {[to |-> c, of |-> 0]}]
      BY <3>3, <2>1
    <3> QED BY <1>2, <3>1, <3>2, <3>3 DEF OnTask, AfterTask
  <2> QED BY <2>1, <2>2, <2>3, <2>4
<1>3. ASSUME NEW g \in Conns, Lock(g) PROVE P
  <2>1. snd[g] \in Frame /\ snd[g] # NoFrame /\ UNCHANGED <<pc, keyed, notices, search>>
    BY <1>3 DEF Lock
  <2>2. PICK n : snd' = [snd EXCEPT ![g].num = n]
    BY <1>3 DEF Lock, Numbered
  <2>3. snd'[g].to = snd[g].to /\ \A h \in Conns \ {g} : snd'[h] = snd[h]
    BY <2>1, <2>2 DEF Frame
  <2> QED BY <2>1, <2>3
<1>4. ASSUME NEW g \in Conns, Write(g) PROVE P
  <2>1. snd' = [snd EXCEPT ![g] = NoFrame] /\ UNCHANGED <<keyed, notices, search>>
    BY <1>4 DEF Write
  <2>2. g \in keyed /\ \A h \in Conns \ {g} : pc'[h] = pc[h]
    BY <1>4 DEF Write, Placed
  <2> QED BY <2>1, <2>2
<1>5. ASSUME NEW c \in Conns, AfterReply(c) PROVE P
  <2>1. /\ pc[c] = "after" /\ c \in keyed /\ UNCHANGED <<keyed, snd>>
        /\ \A h \in Conns \ {c} : pc'[h] = pc[h]
    BY <1>5 DEF AfterReply
  <2>2. CASE after[c] = "enqueue"
    <3>1. search' = [search EXCEPT ![c] = tasks[c]]
      BY <1>5, <2>2 DEF AfterReply
    <3>2. search' \in [Conns -> 0..MaxTasks] /\ \A d \in Conns : search'[d] # 0 => d \in keyed
      BY <2>1, <3>1
    <3>3. PICK ns \in Notified(search') : notices' = [notices EXCEPT ![c] = ns]
      BY <1>5, <2>2 DEF AfterReply
    <3>4. \A n \in ns : n.to \in keyed
      <4> TAKE n \in ns
      <4>1. n \in Notice /\ search'[n.to] # 0
        BY <3>2, NotifiedHolds
      <4> QED BY <3>2, <4>1 DEF Notice
    <3> QED BY <2>1, <3>2, <3>3, <3>4
  <2>3. CASE after[c] # "enqueue"
    <3>1. UNCHANGED <<search, notices>>
      BY <1>5, <2>3 DEF AfterReply
    <3> QED BY <2>1, <3>1
  <2> QED BY <2>2, <2>3
<1>6. ASSUME NEW c \in Conns, Push(c) PROVE P
  <2>1. PICK n \in notices[c] :
           /\ notices' = [notices EXCEPT ![c] = @ \ {n}]
           /\ snd' = [snd EXCEPT ![c] = [to |-> n.to, kind |-> "push", of |-> n.of, num |-> 0]]
    BY <1>6 DEF Push
  <2>2. UNCHANGED <<pc, keyed, search>>
    BY <1>6 DEF Push
  <2> QED BY <2>1, <2>2
<1>7. ASSUME NEW c \in Conns, Leave(c) \/ Close(c) PROVE P
  <2>1. CASE Leave(c)
    BY <2>1 DEF Leave
  <2>2. CASE Close(c)
    BY <2>2 DEF Close
  <2> QED BY <1>7, <2>1, <2>2
<1>8. ASSUME UNCHANGED vars PROVE P
  BY <1>8 DEF vars
<1> HIDE DEF P
<1>9. P
  <2> HIDE DEF Addressees, KeysBeforeUse, TypeOK, Goto, writing, services
  <2> QED BY <1>0, <1>1, <1>2, <1>3, <1>4, <1>5, <1>6, <1>7, <1>8, StepCases
<1> QED BY <1>9 DEF P

LEMMA NumberingStep ==
  TypeOK /\ Placed /\ Numbering /\ [Next]_vars => Numbering'
<1> SUFFICES ASSUME TypeOK, Placed, Numbering, [Next]_vars PROVE Numbering'
  OBVIOUS
<1> DEFINE P == Numbering'
<1> USE ConnAssumption
<1>1. ASSUME UNCHANGED <<snd, mu, seq, wire>>, broken \subseteq broken' PROVE P
  BY <1>1 DEF Numbering, NumbersExact
<1>2. ASSUME NEW c \in Conns, Quiet(c) PROVE P
  <2>1. UNCHANGED <<snd, mu, seq, wire>> /\ broken \subseteq broken'
    BY <1>2 DEF Quiet, Accept, Hello, Keepalive, ReadFails, OnClientAuth, writing
  <2> QED BY <2>1, <1>1
<1>3. ASSUME NEW c \in Conns, AfterReply(c) \/ Leave(c) \/ Close(c) PROVE P
  <2>1. UNCHANGED <<snd, mu, seq, wire, broken>>
    BY <1>3 DEF AfterReply, Leave, Close, writing
  <2> QED BY <2>1, <1>1
<1>0. ASSUME UNCHANGED vars PROVE P
  BY <1>0, <1>1 DEF vars
(* A new frame has no number yet, and its sender holds no mutex. *)
<1>4. ASSUME NEW c \in Conns, snd[c] = NoFrame, snd'[c].num = 0,
             \A h \in Conns \ {c} : snd'[h] = snd[h],
             UNCHANGED <<mu, seq, wire, broken>>
      PROVE  P
  <2>1. \A d \in Conns : mu[d] # c
    BY <1>4 DEF Numbering, TypeOK
  <2>2. \A h \in Conns : snd'[h] # NoFrame /\ snd'[h].num # 0 => mu'[snd'[h].to] = h
    BY <1>4 DEF Numbering
  <2>3. \A d \in Conns : mu'[d] # Free =>
           /\ snd'[mu'[d]] # NoFrame /\ snd'[mu'[d]].to = d
           /\ snd'[mu'[d]].num = seq'[d] /\ snd'[mu'[d]].num # 0
           /\ d \in broken' \/ Len(wire'[d]) + 1 = seq'[d]
    <3> TAKE d \in Conns
    <3>1. mu[d] # Free => mu[d] \in Conns \ {c}
      BY <2>1 DEF TypeOK
    <3> QED BY <1>4, <3>1 DEF Numbering
  <2>4. \A d \in Conns : mu'[d] = Free => d \in broken' \/ Len(wire'[d]) = seq'[d]
    BY <1>4 DEF Numbering
  <2>5. NumbersExact'
    BY <1>4 DEF Numbering, NumbersExact
  <2> QED BY <2>2, <2>3, <2>4, <2>5 DEF Numbering
<1>5a. ASSUME NEW c \in Conns, OnTask(c, "short") PROVE P
  BY <1>1, <1>5a, ShortStep
<1>5. ASSUME NEW c \in Conns, NEW kind \in Kinds \ {"short"}, OnTask(c, kind) PROVE P
  <2>1. snd' = [snd EXCEPT ![c] = [to |-> c, kind |-> "reply", of |-> tasks[c] + 1, num |-> 0]]
        /\ UNCHANGED <<mu, seq, wire, broken>>
    BY <1>5 DEF OnTask, Reply, Answer
  <2>2. snd[c] = NoFrame
    BY <1>5 DEF OnTask, Serving, Placed
  <2>3. snd'[c].num = 0 /\ \A h \in Conns \ {c} : snd'[h] = snd[h]
    BY <2>1 DEF TypeOK
  <2> QED BY <2>1, <2>2, <2>3, <1>4
<1>6. ASSUME NEW c \in Conns, Push(c) PROVE P
  <2>1. PICK n \in notices[c] :
           snd' = [snd EXCEPT ![c] = [to |-> n.to, kind |-> "push", of |-> n.of, num |-> 0]]
    BY <1>6 DEF Push
  <2>2. snd[c] = NoFrame /\ UNCHANGED <<mu, seq, wire, broken>>
    BY <1>6 DEF Push
  <2>3. snd'[c].num = 0 /\ \A h \in Conns \ {c} : snd'[h] = snd[h]
    BY <2>1 DEF TypeOK
  <2> QED BY <2>2, <2>3, <1>4
<1>7. ASSUME NEW g \in Conns, Lock(g) PROVE P
  <2>1. PICK d \in Conns : d = snd[g].to
    BY <1>7 DEF Lock, TypeOK, Frame
  <2>2. /\ snd[g] \in Frame /\ snd[g].num = 0 /\ mu[d] = Free
        /\ mu' = [mu EXCEPT ![d] = g]
        /\ seq' = [seq EXCEPT ![d] = seq[d] + 1]
        /\ snd' = [snd EXCEPT ![g].num = seq[d] + 1]
        /\ UNCHANGED <<wire, broken>>
    BY <1>7, <2>1 DEF Lock, Numbered, TypeOK
  <2>3. /\ snd'[g] # NoFrame /\ snd'[g].to = d /\ snd'[g].num = seq[d] + 1
        /\ \A h \in Conns \ {g} : snd'[h] = snd[h]
    BY <2>1, <2>2 DEF TypeOK, Frame, NoFrame
  <2>4. \A e \in Conns : mu[e] # g
    BY <2>2 DEF Numbering, TypeOK
  <2>5. mu'[d] = g /\ seq'[d] = seq[d] + 1 /\ seq[d] \in Nat
        /\ \A e \in Conns \ {d} : mu'[e] = mu[e] /\ seq'[e] = seq[e]
    BY <2>2 DEF TypeOK
  <2>6. d \in broken \/ Len(wire[d]) = seq[d]
    BY <2>2 DEF Numbering
  <2>7. \A h \in Conns : snd'[h] # NoFrame /\ snd'[h].num # 0 => mu'[snd'[h].to] = h
    <3> TAKE h \in Conns
    <3>1. CASE h = g
      BY <2>3, <2>5, <3>1
    <3>2. CASE h # g
      <4>1. snd'[h] = snd[h]
        BY <2>3, <3>2
      <4>2. snd[h] # NoFrame => snd[h].to \in Conns
        BY DEF TypeOK, Frame
      <4>3. snd[h] # NoFrame /\ snd[h].num # 0 => mu[snd[h].to] = h
        BY DEF Numbering
      <4>4. snd[h] # NoFrame /\ snd[h].num # 0 => snd[h].to # d
        BY <2>2, <4>3
      <4> QED BY <2>5, <4>1, <4>2, <4>3, <4>4
    <3> QED BY <3>1, <3>2
  <2>8. \A e \in Conns : mu'[e] # Free =>
           /\ snd'[mu'[e]] # NoFrame /\ snd'[mu'[e]].to = e
           /\ snd'[mu'[e]].num = seq'[e] /\ snd'[mu'[e]].num # 0
           /\ e \in broken \/ Len(wire[e]) + 1 = seq'[e]
    <3> TAKE e \in Conns
    <3>1. CASE e = d
      BY <2>3, <2>5, <2>6, <3>1
    <3>2. CASE e # d
      <4>1. mu'[e] = mu[e] /\ seq'[e] = seq[e] /\ (mu[e] # Free => mu[e] \in Conns \ {g})
        BY <2>4, <2>5, <3>2 DEF TypeOK
      <4> QED BY <2>3, <4>1 DEF Numbering
    <3> QED BY <3>1, <3>2
  <2>9. \A e \in Conns : mu'[e] = Free => e \in broken \/ Len(wire[e]) = seq'[e]
    BY <2>5 DEF Numbering
  <2>10. NumbersExact'
    BY <2>2 DEF Numbering, NumbersExact
  <2> QED BY <2>2, <2>7, <2>8, <2>9, <2>10 DEF Numbering
<1>8. ASSUME NEW g \in Conns, Write(g) PROVE P
  <2>1. PICK d \in Conns : d = snd[g].to
    BY <1>8 DEF Write, TypeOK, Frame
  <2>2. /\ snd[g] \in Frame /\ snd[g] # NoFrame /\ snd[g].num # 0
        /\ snd' = [snd EXCEPT ![g] = NoFrame] /\ mu' = [mu EXCEPT ![d] = Free]
        /\ UNCHANGED seq
    BY <1>8, <2>1 DEF Write, Send, Unlock, TypeOK
  <2>3. mu[d] = g /\ snd[g].num = seq[d] /\ (d \in broken \/ Len(wire[d]) + 1 = seq[d])
    BY <2>1, <2>2 DEF Numbering, TypeOK
  <2>4. /\ snd'[g] = NoFrame /\ \A h \in Conns \ {g} : snd'[h] = snd[h]
        /\ mu'[d] = Free /\ \A e \in Conns \ {d} : mu'[e] = mu[e]
    BY <2>2 DEF TypeOK
  <2>5. \A e \in Conns \ {d} : mu[e] # g
    BY <2>1, <2>2 DEF Numbering, TypeOK
  <2>6. broken \subseteq broken' /\ \A e \in Conns \ {d} : wire'[e] = wire[e]
    BY <1>8, <2>1 DEF Write, Send, TypeOK
  <2>7. \/ d \in broken' /\ wire'[d] = wire[d]
        \/ d \notin broken /\ wire'[d] = Append(wire[d], snd[g])
    BY <1>8, <2>1 DEF Write, Send, TypeOK
  <2>8. wire[d] \in Seq(Frame) /\ Len(wire[d]) \in Nat
    BY DEF TypeOK
  <2>9. \A h \in Conns : snd'[h] # NoFrame /\ snd'[h].num # 0 => mu'[snd'[h].to] = h
    <3> TAKE h \in Conns
    <3>1. CASE h # g /\ snd[h] # NoFrame /\ snd[h].num # 0
      <4>1. snd[h].to \in Conns /\ mu[snd[h].to] = h
        BY <3>1 DEF Numbering, TypeOK, Frame
      <4> QED BY <2>3, <2>4, <3>1, <4>1
    <3> QED BY <2>4, <3>1
  <2>10. \A e \in Conns : mu'[e] # Free =>
           /\ snd'[mu'[e]] # NoFrame /\ snd'[mu'[e]].to = e
           /\ snd'[mu'[e]].num = seq[e] /\ snd'[mu'[e]].num # 0
           /\ e \in broken' \/ Len(wire'[e]) + 1 = seq[e]
    <3> SUFFICES ASSUME NEW e \in Conns, mu'[e] # Free
                 PROVE /\ snd'[mu'[e]] # NoFrame /\ snd'[mu'[e]].to = e
                       /\ snd'[mu'[e]].num = seq[e] /\ snd'[mu'[e]].num # 0
                       /\ e \in broken' \/ Len(wire'[e]) + 1 = seq[e]
      OBVIOUS
    <3>1. e # d /\ mu'[e] = mu[e] /\ mu[e] \in Conns \ {g}
      BY <2>4, <2>5 DEF TypeOK
    <3> QED BY <2>4, <2>6, <3>1 DEF Numbering
  <2>11. \A e \in Conns : mu'[e] = Free => e \in broken' \/ Len(wire'[e]) = seq[e]
    <3> TAKE e \in Conns
    <3>1. CASE e # d
      BY <2>4, <2>6, <3>1 DEF Numbering
    <3>2. CASE e = d
      BY <2>3, <2>7, <2>8, <3>2
    <3> QED BY <3>1, <3>2
  <2>12. NumbersExact'
    <3> SUFFICES ASSUME NEW e \in Conns, NEW k \in DOMAIN wire'[e] PROVE wire'[e][k].num = k
      BY DEF NumbersExact
    <3>1. CASE wire'[e] = wire[e]
      BY <3>1 DEF Numbering, NumbersExact
    <3>2. CASE e = d /\ d \notin broken /\ wire'[d] = Append(wire[d], snd[g])
      <4>1. k \in 1..(Len(wire[d]) + 1)
        BY <2>8, <3>2
      <4>2. CASE k = Len(wire[d]) + 1
        BY <2>3, <2>8, <3>2, <4>2
      <4>3. CASE k \in 1..Len(wire[d])
        BY <2>8, <3>2, <4>3 DEF Numbering, NumbersExact
      <4> QED BY <2>8, <4>1, <4>2, <4>3
    <3> QED BY <2>6, <2>7, <3>1, <3>2
  <2> QED BY <2>2, <2>9, <2>10, <2>11, <2>12 DEF Numbering
<1> HIDE DEF P
<1>9. P
  BY <1>0, <1>2, <1>3, <1>5a, <1>5, <1>6, <1>7, <1>8, StepCases
<1> QED BY <1>9 DEF P

KnownNext(d, k) ==
    \/ d \in broken'
    \/ \E j \in DOMAIN wire'[d] : wire'[d][j].kind = "reply" /\ wire'[d][j].of = k

(* What is known stays known: frames are only added to a socket. *)
LEMMA KnownKept ==
  ASSUME TypeOK, broken \subseteq broken', NEW d \in Conns, NEW k, NEW f \in Frame,
         wire'[d] = wire[d] \/ wire'[d] = Append(wire[d], f),
         Known(d, k)
  PROVE  KnownNext(d, k)
<1>1. wire[d] \in Seq(Frame)
  BY DEF TypeOK
<1>2. CASE d \in broken
  BY <1>2 DEF Known, KnownNext
<1>3. CASE d \notin broken
  <2>1. PICK j \in DOMAIN wire[d] : wire[d][j].kind = "reply" /\ wire[d][j].of = k
    BY <1>3 DEF Known, KnownNext
  <2>2. j \in DOMAIN wire'[d] /\ wire'[d][j] = wire[d][j]
    BY <1>1, <2>1
  <2> QED BY <2>1, <2>2 DEF Known, KnownNext
<1> QED BY <1>2, <1>3

LEMMA InformedStep == TypeOK /\ Placed /\ Informed /\ [Next]_vars => Informed'
<1> SUFFICES ASSUME TypeOK, Placed, Informed, [Next]_vars PROVE Informed'
  OBVIOUS
<1> DEFINE P == Informed'
<1> USE ConnAssumption
<1>1. ASSUME UNCHANGED wire, broken \subseteq broken' PROVE
        /\ \A d \in Conns, k \in 0..MaxTasks : Known(d, k) => KnownNext(d, k)
        /\ SearchKnownFirst'
  BY <1>1 DEF Known, KnownNext, Informed, SearchKnownFirst
(* Steps that write nothing and make no notice. *)
<1>2. ASSUME UNCHANGED <<snd, wire, notices, tasks>>, broken \subseteq broken',
             \A d \in Conns : search'[d] \in {0, search[d]},
             \A d \in Conns : pc'[d] = "after" => pc[d] = "after"
      PROVE  P
  <2>1. \A d \in Conns, k \in 0..MaxTasks : Known(d, k) => KnownNext(d, k)
    BY <1>1, <1>2
  <2>2. \A d \in Conns : search[d] \in 0..MaxTasks /\ tasks[d] \in 0..MaxTasks
    BY DEF TypeOK
  <2>3. \A g \in Conns : \A n \in notices[g] : n.to \in Conns /\ n.of \in 0..MaxTasks
    BY DEF TypeOK, Notice
  <2>4. \A g \in Conns : snd[g] # NoFrame => snd[g].to \in Conns /\ snd[g].of \in 0..MaxTasks
    BY DEF TypeOK, Frame
  <2>5. \A d \in Conns : search'[d] # 0 => KnownNext(d, search'[d])
    BY <1>2, <2>1, <2>2 DEF Informed
  <2>6. \A d \in Conns : pc'[d] = "after" => KnownNext(d, tasks[d])
    BY <1>2, <2>1, <2>2 DEF Informed
  <2>7. \A g \in Conns : \A n \in notices[g] : n.of # 0 => KnownNext(n.to, n.of)
    BY <2>1, <2>3 DEF Informed
  <2>8. \A g \in Conns : snd[g] # NoFrame /\ snd[g].kind = "push" /\ snd[g].of # 0
                           => KnownNext(snd[g].to, snd[g].of)
    BY <2>1, <2>4 DEF Informed
  <2>9. SearchKnownFirst'
    BY <1>1, <1>2
  <2> QED BY <1>2, <2>5, <2>6, <2>7, <2>8, <2>9 DEF Informed, Known, KnownNext
(* Steps that write nothing but may make notices. *)
<1>12. ASSUME UNCHANGED <<wire, broken>>,
              \A d \in Conns : search'[d] # 0 => Known(d, search'[d]),
              \A d \in Conns : pc'[d] = "after" => Known(d, tasks'[d]),
              \A g \in Conns : \A n \in notices'[g] : n.of # 0 => Known(n.to, n.of),
              \A g \in Conns : snd'[g] # NoFrame /\ snd'[g].kind = "push" /\ snd'[g].of # 0
                               => Known(snd'[g].to, snd'[g].of)
       PROVE  P
  <2>1. \A d \in Conns : search'[d] # 0 => KnownNext(d, search'[d])
    BY <1>12 DEF Known, KnownNext
  <2>2. \A d \in Conns : pc'[d] = "after" => KnownNext(d, tasks'[d])
    BY <1>12 DEF Known, KnownNext
  <2>3. \A g \in Conns : \A n \in notices'[g] : n.of # 0 => KnownNext(n.to, n.of)
    BY <1>12 DEF Known, KnownNext
  <2>4. \A g \in Conns : snd'[g] # NoFrame /\ snd'[g].kind = "push" /\ snd'[g].of # 0
                         => KnownNext(snd'[g].to, snd'[g].of)
    BY <1>12 DEF Known, KnownNext
  <2>5. SearchKnownFirst'
    BY <1>1, <1>12
  <2> QED BY <2>1, <2>2, <2>3, <2>4, <2>5 DEF Informed, Known, KnownNext
<1>3. ASSUME NEW c \in Conns, Quiet(c) PROVE P
  <2>1. UNCHANGED <<snd, wire, notices, tasks, search>> /\ broken \subseteq broken'
    BY <1>3 DEF Quiet, Accept, Hello, Keepalive, ReadFails, OnClientAuth, writing, services
  <2>2. \A d \in Conns : pc'[d] = "after" => pc[d] = "after"
    BY <1>3 DEF Quiet, Accept, Hello, Keepalive, ReadFails, OnClientAuth, Goto, TypeOK
  <2> QED BY <2>1, <2>2, <1>2
<1>4. ASSUME NEW c \in Conns, Leave(c) \/ Close(c) PROVE P
  <2>1. UNCHANGED <<snd, wire, notices, tasks, broken>>
    BY <1>4 DEF Leave, Close, writing
  <2>2. \A d \in Conns : pc'[d] = "after" => pc[d] = "after"
    BY <1>4 DEF Leave, Close, Goto, TypeOK
  <2>3. \A d \in Conns : search'[d] \in {0, search[d]}
    BY <1>4 DEF Leave, Close, TypeOK
  <2> QED BY <2>1, <2>2, <2>3, <1>2
<1>5. ASSUME UNCHANGED vars PROVE P
  BY <1>5, <1>2 DEF vars
<1> HIDE DEF P
<1>6. ASSUME NEW g \in Conns, Lock(g) PROVE P
  <2>1. UNCHANGED <<pc, tasks, notices, wire, broken, search>> /\ snd[g] \in Frame
    BY <1>6 DEF Lock, services, TypeOK
  <2>2. PICK m : snd' = [snd EXCEPT ![g].num = m]
    BY <1>6 DEF Lock, Numbered
  <2>3. /\ snd'[g].to = snd[g].to /\ snd'[g].kind = snd[g].kind /\ snd'[g].of = snd[g].of
        /\ \A h \in Conns \ {g} : snd'[h] = snd[h]
    BY <2>1, <2>2 DEF TypeOK, Frame
  <2>4. snd[g] # NoFrame
    BY <1>6 DEF Lock
  <2>5. \A h \in Conns : snd'[h] # NoFrame /\ snd'[h].kind = "push" /\ snd'[h].of # 0
                           => Known(snd'[h].to, snd'[h].of)
    BY <2>3, <2>4 DEF Informed
  <2> QED BY <1>12, <2>1, <2>5 DEF Informed
<1>7. ASSUME NEW c \in Conns, Push(c) PROVE P
  <2>1. PICK n \in notices[c] :
           /\ notices' = [notices EXCEPT ![c] = @ \ {n}]
           /\ snd' = [snd EXCEPT ![c] = [to |-> n.to, kind |-> "push", of |-> n.of, num |-> 0]]
    BY <1>7 DEF Push
  <2>2. UNCHANGED <<pc, tasks, wire, broken, search>>
    BY <1>7 DEF Push, services
  <2>3. n.of # 0 => Known(n.to, n.of)
    BY DEF Informed
  <2>4. /\ snd'[c].to = n.to /\ snd'[c].of = n.of
        /\ \A h \in Conns \ {c} : snd'[h] = snd[h]
        /\ \A h \in Conns : notices'[h] \subseteq notices[h]
    BY <2>1 DEF TypeOK
  <2>5. \A h \in Conns : snd'[h] # NoFrame /\ snd'[h].kind = "push" /\ snd'[h].of # 0
                           => Known(snd'[h].to, snd'[h].of)
    BY <2>3, <2>4 DEF Informed
  <2>6. \A h \in Conns : \A m \in notices'[h] : m.of # 0 => Known(m.to, m.of)
    BY <2>4 DEF Informed
  <2> QED BY <1>12, <2>2, <2>5, <2>6 DEF Informed
<1>8. ASSUME NEW c \in Conns, AfterReply(c) PROVE P
  <2>1. /\ pc[c] = "after" /\ UNCHANGED <<snd, wire, broken, tasks>>
        /\ \A d \in Conns : pc'[d] = "after" => pc[d] = "after"
    BY <1>8 DEF AfterReply, Goto, TypeOK
  <2>2. CASE after[c] = "enqueue"
    <3>1. search' = [search EXCEPT ![c] = tasks[c]] /\ search' \in [Conns -> 0..MaxTasks]
      BY <1>8, <2>2 DEF AfterReply, TypeOK
    <3>2. \A d \in Conns : search'[d] # 0 => Known(d, search'[d])
      BY <2>1, <3>1 DEF Informed, TypeOK
    <3>3. PICK ns \in Notified(search') : notices' = [notices EXCEPT ![c] = ns]
      BY <1>8, <2>2 DEF AfterReply
    <3>4. \A n \in ns : n.of # 0 => Known(n.to, n.of)
      <4> TAKE n \in ns
      <4>1. n \in Notice /\ search'[n.to] # 0 /\ n.of = search'[n.to]
        BY <3>1, NotifiedHolds
      <4> QED BY <3>2, <4>1 DEF Notice
    <3>5. \A g \in Conns : \A n \in notices'[g] : n.of # 0 => Known(n.to, n.of)
      BY <3>3, <3>4 DEF Informed, TypeOK
    <3> QED BY <1>12, <2>1, <3>2, <3>5 DEF Informed
  <2>3. CASE after[c] # "enqueue"
    <3>1. UNCHANGED <<search, notices>>
      BY <1>8, <2>3 DEF AfterReply
    <3> QED BY <2>1, <3>1, <1>2 DEF TypeOK
  <2> QED BY <2>2, <2>3
<1>9a. ASSUME NEW c \in Conns, OnTask(c, "short") PROVE P
  <2>1. /\ UNCHANGED <<pc, snd, wire, broken, notices, search>> /\ pc[c] = "serving"
        /\ \A d \in Conns \ {c} : tasks'[d] = tasks[d]
    BY <1>9a, ShortStep DEF TypeOK
  <2> QED BY <1>12, <2>1 DEF Informed
<1>9. ASSUME NEW c \in Conns, NEW kind \in Kinds \ {"short"}, OnTask(c, kind) PROVE P
  <2>1. /\ UNCHANGED <<wire, broken>> /\ pc[c] = "serving"
        /\ tasks' = [tasks EXCEPT ![c] = tasks[c] + 1]
        /\ pc' = [pc EXCEPT ![c] = "replying"]
        /\ snd' = [snd EXCEPT ![c] = [to |-> c, kind |-> "reply", of |-> tasks[c] + 1, num |-> 0]]
    BY <1>9 DEF OnTask, Serving, Reply, Answer, Goto
  <2>2. \A d \in Conns : search'[d] \in {0, search[d]}
    BY <1>9 DEF OnTask, Left, TypeOK
  <2>3. \A g \in Conns : \A n \in notices'[g] : n.of # 0 => Known(n.to, n.of)
    <3>1. CASE UNCHANGED notices
      BY <3>1 DEF Informed
    <3>2. CASE \E ns \in Notified(search) : notices' = [notices EXCEPT ![c] = ns]
      <4>1. PICK ns \in Notified(search) : notices' = [notices EXCEPT ![c] = ns]
        BY <3>2
      <4>2. \A n \in ns : n.of # 0 => Known(n.to, n.of)
        <5> TAKE n \in ns
        <5>1. n \in Notice /\ search[n.to] # 0 /\ n.of = search[n.to]
          BY NotifiedHolds DEF TypeOK
        <5> QED BY <5>1 DEF Notice, Informed
      <4> QED BY <4>1, <4>2 DEF Informed, TypeOK
    <3>3. CASE notices' = [notices EXCEPT ![c] = {[to |-> c, of |-> 0]}]
      BY <3>3 DEF Informed, TypeOK
    <3> QED BY <1>9, <3>1, <3>2, <3>3 DEF OnTask, AfterTask
  <2>4. /\ snd'[c].kind = "reply" /\ \A h \in Conns \ {c} : snd'[h] = snd[h]
        /\ \A d \in Conns : pc'[d] = "after" => d # c /\ pc[d] = "after" /\ tasks'[d] = tasks[d]
    BY <2>1 DEF TypeOK
  <2>5. \A d \in Conns : search'[d] # 0 => Known(d, search'[d])
    BY <2>2 DEF Informed
  <2>6. \A d \in Conns : pc'[d] = "after" => Known(d, tasks'[d])
    BY <2>4 DEF Informed
  <2>7. \A g \in Conns : snd'[g] # NoFrame /\ snd'[g].kind = "push" /\ snd'[g].of # 0
                           => Known(snd'[g].to, snd'[g].of)
    BY <2>4 DEF Informed
  <2> QED BY <1>12, <2>1, <2>3, <2>5, <2>6, <2>7
<1>10. ASSUME NEW g \in Conns, Write(g) PROVE P
  <2>1. PICK d \in Conns : d = snd[g].to
    BY <1>10 DEF Write, TypeOK, Frame
  <2>2. /\ snd[g] \in Frame /\ snd' = [snd EXCEPT ![g] = NoFrame]
        /\ UNCHANGED <<tasks, notices, search>> /\ broken \subseteq broken'
    BY <1>10 DEF Write, Send, services, TypeOK
  <2>3. /\ \A e \in Conns \ {d} : wire'[e] = wire[e]
        /\ \/ d \in broken' /\ wire'[d] = wire[d]
           \/ d \notin broken /\ wire'[d] = Append(wire[d], snd[g])
    BY <1>10, <2>1 DEF Write, Send, TypeOK
  <2>4. \A e \in Conns, k \in 0..MaxTasks : Known(e, k) => KnownNext(e, k)
    BY <2>2, <2>3, KnownKept
  <2>5. \A e \in Conns : search[e] \in 0..MaxTasks /\ tasks[e] \in 0..MaxTasks
    BY DEF TypeOK
  <2>6. \A e \in Conns : search[e] # 0 => KnownNext(e, search[e])
    BY <2>4, <2>5 DEF Informed
  <2>7. \A h \in Conns : \A n \in notices[h] : n.of # 0 => KnownNext(n.to, n.of)
    <3> TAKE h \in Conns
    <3> TAKE n \in notices[h]
    <3>1. n.to \in Conns /\ n.of \in 0..MaxTasks
      BY DEF TypeOK, Notice
    <3> QED BY <2>4, <3>1 DEF Informed
  <2>8. \A h \in Conns : snd'[h] # NoFrame /\ snd'[h].kind = "push" /\ snd'[h].of # 0
                           => KnownNext(snd'[h].to, snd'[h].of)
    <3> TAKE h \in Conns
    <3>1. CASE h = g
      BY <2>2, <3>1 DEF TypeOK
    <3>2. CASE h # g /\ snd[h] # NoFrame
      <4>1. snd'[h] = snd[h] /\ snd[h].to \in Conns /\ snd[h].of \in 0..MaxTasks
        BY <2>2, <3>2 DEF TypeOK, Frame
      <4>2. snd[h].kind = "push" /\ snd[h].of # 0 => Known(snd[h].to, snd[h].of)
        BY <3>2 DEF Informed
      <4>3. snd[h].kind = "push" /\ snd[h].of # 0 => KnownNext(snd[h].to, snd[h].of)
        BY <2>4, <4>1, <4>2
      <4> QED BY <4>1, <4>3
    <3>3. CASE h # g /\ snd[h] = NoFrame
      BY <2>2, <3>3 DEF TypeOK
    <3> QED BY <3>1, <3>2, <3>3
  <2>9. \A e \in Conns : pc'[e] = "after" => KnownNext(e, tasks[e])
    <3> SUFFICES ASSUME NEW e \in Conns, pc'[e] = "after" PROVE KnownNext(e, tasks[e])
      OBVIOUS
    <3>1. CASE pc[e] = "after"
      BY <2>4, <2>5, <3>1 DEF Informed
    <3>2. CASE pc[e] # "after"
      <4>1. e = g /\ pc[g] = "replying"
        BY <1>10, <3>2 DEF Write, Goto, TypeOK
      <4>2. d = g /\ snd[g].kind = "reply" /\ snd[g].of = tasks[g]
        BY <2>1, <4>1 DEF Placed
      <4>3. CASE d \in broken'
        BY <4>1, <4>2, <4>3 DEF Known, KnownNext
      <4>4. CASE wire'[d] = Append(wire[d], snd[g])
        <5>1. Len(wire[d]) + 1 \in DOMAIN wire'[d] /\ wire'[d][Len(wire[d]) + 1] = snd[g]
          BY <2>2, <4>4 DEF TypeOK
        <5> QED BY <4>1, <4>2, <5>1 DEF Known, KnownNext
      <4> QED BY <2>3, <4>3, <4>4
    <3> QED BY <3>1, <3>2
  <2>10. SearchKnownFirst'
    <3> SUFFICES ASSUME NEW e \in Conns, NEW k \in DOMAIN wire'[e],
                        wire'[e][k].kind = "push", wire'[e][k].of # 0
                 PROVE  \E j \in 1..(k - 1) :
                           wire'[e][j].kind = "reply" /\ wire'[e][j].of = wire'[e][k].of
      BY DEF SearchKnownFirst
    <3>1. wire[e] \in Seq(Frame)
      BY DEF TypeOK
    <3>2. CASE wire'[e] = wire[e]
      BY <3>2 DEF Informed, SearchKnownFirst
    <3>3. CASE e = d /\ d \notin broken /\ wire'[d] = Append(wire[d], snd[g])
      <4>1. k \in 1..(Len(wire[d]) + 1)
        BY <3>1, <3>3
      <4>2. CASE k = Len(wire[d]) + 1
        <5>1. wire'[e][k] = snd[g]
          BY <3>1, <3>3, <4>2
        <5>2. Known(d, snd[g].of)
          BY <1>10, <2>1, <5>1 DEF Informed, Write
        <5>3. PICK j \in DOMAIN wire[d] : wire[d][j].kind = "reply" /\ wire[d][j].of = snd[g].of
          BY <3>3, <5>2 DEF Known, KnownNext
        <5>4. j \in 1..(k - 1) /\ wire'[d][j] = wire[d][j]
          BY <3>1, <3>3, <4>2
        <5>5. wire'[e][j].kind = "reply" /\ wire'[e][j].of = wire'[e][k].of
          BY <3>3, <5>1, <5>3, <5>4
        <5> QED BY <5>4, <5>5
      <4>3. CASE k \in 1..Len(wire[d])
        <5>1. k \in DOMAIN wire[d] /\ wire'[e][k] = wire[d][k]
          BY <3>1, <3>3, <4>3
        <5>2. PICK j \in 1..(k - 1) : wire[d][j].kind = "reply" /\ wire[d][j].of = wire[d][k].of
          BY <3>3, <5>1 DEF Informed, SearchKnownFirst
        <5>3. wire'[d][j] = wire[d][j]
          BY <3>1, <3>3, <4>3
        <5>4. wire'[e][j].kind = "reply" /\ wire'[e][j].of = wire'[e][k].of
          BY <3>3, <5>1, <5>2, <5>3
        <5> QED BY <5>2, <5>4
      <4> QED BY <3>1, <3>3, <4>1, <4>2, <4>3
    <3> QED BY <2>3, <3>2, <3>3
  <2> QED BY <2>2, <2>6, <2>7, <2>8, <2>9, <2>10 DEF P, Informed, Known, KnownNext
<1>11. P
  BY <1>3, <1>4, <1>5, <1>6, <1>7, <1>8, <1>9a, <1>9, <1>10, StepCases
<1> QED BY <1>11 DEF P

-----------------------------------------------------------------------------
(* What a connection has entered, it leaves before it is closed. *)
LEMMA EndedStep == TypeOK /\ Placed /\ Ended /\ [Next]_vars => Ended'
<1> SUFFICES ASSUME TypeOK, Placed, Ended, [Next]_vars PROVE Ended'
  OBVIOUS
<1> USE DEF Ended, Goto, writing, services
<1>1. ASSUME NEW c \in Conns, Quiet(c) PROVE Ended'
  <2>1. CASE Accept(c)
    BY <2>1 DEF TypeOK, Accept
  <2>2. CASE Hello(c)
    BY <2>2 DEF TypeOK, Hello
  <2>3. CASE Keepalive(c)
    BY <2>3 DEF TypeOK, Keepalive
  <2>4. CASE ReadFails(c)
    BY <2>4 DEF TypeOK, ReadFails
  <2>5. CASE OnClientAuth(c)
    BY <2>5 DEF TypeOK, OnClientAuth
  <2> QED BY <1>1, <2>1, <2>2, <2>3, <2>4, <2>5 DEF Quiet
<1>0. ASSUME NEW c \in Conns, OnTask(c, "short") PROVE Ended'
  BY <1>0, ShortStep
<1>2. ASSUME NEW c \in Conns, NEW kind \in Kinds \ {"short"}, OnTask(c, kind) PROVE Ended'
  BY <1>2 DEF TypeOK, OnTask, Serving, Left, Reply, Answer
<1>3. ASSUME NEW c \in Conns, Lock(c) PROVE Ended'
  BY <1>3 DEF Lock
<1>4. ASSUME NEW c \in Conns, Write(c) PROVE Ended'
  <2>1. pc[c] \in {"replying", "notifying"}
    BY <1>4 DEF Write, Placed
  <2>2. UNCHANGED <<online, search, listed, games>>
    BY <1>4 DEF Write
  <2>3. \A e \in Conns : pc'[e] \in {"left", "closed"} => pc'[e] = pc[e]
    BY <1>4 DEF Write, TypeOK
  <2> QED BY <2>2, <2>3
<1>5. ASSUME NEW c \in Conns, AfterReply(c) PROVE Ended'
  <2>1. UNCHANGED <<online, listed, games>>
    BY <1>5 DEF AfterReply
  <2>2. \A e \in Conns : pc'[e] \in {"left", "closed"} => e # c /\ pc'[e] = pc[e]
    BY <1>5 DEF AfterReply, TypeOK
  <2>3. \A e \in Conns : e # c => search'[e] = search[e]
    BY <1>5 DEF AfterReply, TypeOK
  <2> QED BY <2>1, <2>2, <2>3
<1>6. ASSUME NEW c \in Conns, Push(c) PROVE Ended'
  BY <1>6 DEF Push
<1>7. ASSUME NEW c \in Conns, Leave(c) PROVE Ended'
  BY <1>7 DEF Leave, TypeOK
<1>8. ASSUME NEW c \in Conns, Close(c) PROVE Ended'
  BY <1>8 DEF Close, TypeOK
<1>9. CASE UNCHANGED vars
  BY <1>9 DEF vars
<1> QED BY <1>0, <1>1, <1>2, <1>3, <1>4, <1>5, <1>6, <1>7, <1>8, <1>9, StepCases

-----------------------------------------------------------------------------
(* One more frame makes one more reply, or none. *)
LEMMA RepliesCounted ==
  ASSUME NEW w \in Seq(Frame), NEW f \in Frame
  PROVE  /\ Replies(w, Len(w)) \in Nat
         /\ \A k \in 1..Len(w) : Replies(Append(w, f), k) = Replies(w, k)
         /\ Replies(Append(w, f), Len(w) + 1) =
               IF f.kind = "reply" THEN Replies(w, Len(w)) + 1 ELSE Replies(w, Len(w))
<1> DEFINE R(k) == {j \in 1..k : w[j].kind = "reply"}
           A(k) == {j \in 1..k : Append(w, f)[j].kind = "reply"}
           n == Len(w)
<1>1. n \in Nat /\ (\A j \in 1..n : Append(w, f)[j] = w[j]) /\ Append(w, f)[n + 1] = f
  OBVIOUS
<1>2. IsFiniteSet(R(n))
  <2>1. IsFiniteSet(1..n)
    BY <1>1, FS_Interval
  <2>2. R(n) \subseteq 1..n
    OBVIOUS
  <2> QED BY <2>1, <2>2, FS_Subset
<1>3. \A k \in 1..n : A(k) = R(k)
  BY <1>1
<1>4. A(n + 1) = IF f.kind = "reply" THEN R(n) \cup {n + 1} ELSE R(n)
  BY <1>1
<1>5. Cardinality(R(n) \cup {n + 1}) = Cardinality(R(n)) + 1
  <2>1. n + 1 \notin R(n)
    BY <1>1
  <2> QED BY <1>2, <2>1, FS_AddElement
<1> QED BY <1>2, <1>3, <1>4, <1>5, FS_CardinalityType DEF Replies

(* One more task is one more outside the set, unless it is in the set; and   *)
(* what was counted before does not depend on later tasks.                  *)
LEMMA OutsideCounted ==
  ASSUME NEW n \in Nat, NEW S
  PROVE  /\ Outside(S, n) \in Nat
         /\ n + 1 \notin S => Outside(S, n + 1) = Outside(S, n) + 1
         /\ Outside(S \cup {n + 1}, n + 1) = Outside(S, n)
         /\ \A m \in 0..n : Outside(S \cup {n + 1}, m) = Outside(S, m)
<1>1. IsFiniteSet(1..n \ S)
  <2>1. IsFiniteSet(1..n)
    BY FS_Interval
  <2> QED BY <2>1, FS_Subset
<1>2. Cardinality((1..n \ S) \cup {n + 1}) = Cardinality(1..n \ S) + 1
  <2>1. n + 1 \notin 1..n \ S
    OBVIOUS
  <2> QED BY <1>1, <2>1, FS_AddElement
<1>3. n + 1 \notin S => 1..(n + 1) \ S = (1..n \ S) \cup {n + 1}
  OBVIOUS
<1>4. 1..(n + 1) \ (S \cup {n + 1}) = 1..n \ S
  OBVIOUS
<1>5. \A m \in 0..n : 1..m \ (S \cup {n + 1}) = 1..m \ S
  OBVIOUS
<1> QED BY <1>1, <1>2, <1>3, <1>4, <1>5, FS_CardinalityType DEF Outside

LEMMA AnsweredStep == TypeOK /\ Placed /\ Answered /\ [Next]_vars => Answered'
<1> SUFFICES ASSUME TypeOK, Placed, Answered, [Next]_vars PROVE Answered'
  OBVIOUS
<1> USE DEF Goto, writing, services
<1>1. ASSUME UNCHANGED <<wire, tasks, dropped>>, broken \subseteq broken',
             \A d \in Conns : pc'[d] = "replying" <=> pc[d] = "replying"
      PROVE  Answered'
  BY <1>1 DEF Answered
<1>2. ASSUME NEW c \in Conns, Quiet(c) PROVE Answered'
  <2>1. UNCHANGED <<wire, tasks, dropped>> /\ broken \subseteq broken'
    BY <1>2 DEF Quiet, Accept, Hello, Keepalive, ReadFails, OnClientAuth
  <2>2. \A d \in Conns : pc'[d] = "replying" <=> pc[d] = "replying"
    BY <1>2 DEF Quiet, Accept, Hello, Keepalive, ReadFails, OnClientAuth, TypeOK
  <2> QED BY <1>1, <2>1, <2>2
<1>0. ASSUME NEW c \in Conns, OnTask(c, "short") PROVE Answered'
  <2>1. /\ UNCHANGED <<wire, broken, pc>> /\ pc[c] = "serving" /\ tasks[c] \in Nat
        /\ tasks'[c] = tasks[c] + 1 /\ dropped'[c] = dropped[c] \cup {tasks[c] + 1}
        /\ \A d \in Conns \ {c} : dropped'[d] = dropped[d] /\ tasks'[d] = tasks[d]
    BY <1>0, ShortStep DEF TypeOK
  <2>2. /\ Outside(dropped'[c], tasks'[c]) = Outside(dropped[c], tasks[c])
        /\ \A m \in 1..tasks[c] : /\ Outside(dropped'[c], m) = Outside(dropped[c], m)
                                  /\ m \notin dropped[c] => m \notin dropped'[c]
    BY <2>1, OutsideCounted
  <2> SUFFICES ASSUME NEW e \in Conns
               PROVE  /\ dropped'[e] \subseteq 1..tasks'[e]
                      /\ pc[e] = "replying" => /\ tasks'[e] \in 1..MaxTasks
                                               /\ tasks'[e] \notin dropped'[e]
                      /\ \A k \in DOMAIN wire[e] :
                            wire[e][k].kind = "reply" =>
                               /\ wire[e][k].of \in 1..tasks'[e] \ dropped'[e]
                               /\ Replies(wire[e], k) = Outside(dropped'[e], wire[e][k].of)
                      /\ e \in broken \/ Replies(wire[e], Len(wire[e])) =
                            Outside(dropped'[e], IF pc[e] = "replying" THEN tasks'[e] - 1
                                                 ELSE tasks'[e])
    BY <2>1 DEF Answered
  <2>3. CASE e # c
    BY <2>1, <2>3 DEF Answered
  <2>4. CASE e = c
    <3>1. dropped[c] \subseteq 1..tasks[c]
      BY DEF Answered
    <3>2. dropped'[c] \subseteq 1..tasks'[c]
      BY <2>1, <3>1
    <3>3. \A k \in DOMAIN wire[c] :
             wire[c][k].kind = "reply" =>
                /\ wire[c][k].of \in 1..tasks'[c] \ dropped'[c]
                /\ Replies(wire[c], k) = Outside(dropped'[c], wire[c][k].of)
      <4> SUFFICES ASSUME NEW k \in DOMAIN wire[c], wire[c][k].kind = "reply"
                   PROVE  /\ wire[c][k].of \in 1..tasks'[c] \ dropped'[c]
                          /\ Replies(wire[c], k) = Outside(dropped'[c], wire[c][k].of)
        OBVIOUS
      <4>1. /\ wire[c][k].of \in 1..tasks[c] \ dropped[c]
            /\ Replies(wire[c], k) = Outside(dropped[c], wire[c][k].of)
        BY DEF Answered
      <4>2. Outside(dropped'[c], wire[c][k].of) = Outside(dropped[c], wire[c][k].of)
        BY <2>2, <4>1
      <4>3. wire[c][k].of \in 1..tasks'[c] \ dropped'[c]
        BY <2>1, <4>1
      <4> QED BY <4>1, <4>2, <4>3
    <3>4. c \in broken \/ Replies(wire[c], Len(wire[c])) = Outside(dropped'[c], tasks'[c])
      BY <2>1, <2>2 DEF Answered
    <3> QED BY <2>1, <2>4, <3>2, <3>3, <3>4
  <2> QED BY <2>3, <2>4
<1>3. ASSUME NEW c \in Conns, NEW kind \in Kinds \ {"short"}, OnTask(c, kind) PROVE Answered'
  <2>1. UNCHANGED <<wire, broken, dropped>>
    BY <1>3 DEF OnTask
  <2>2. \A d \in Conns \ {c} : pc'[d] = pc[d] /\ tasks'[d] = tasks[d]
    BY <1>3 DEF OnTask, Reply, Answer, TypeOK
  <2>3. /\ pc[c] = "serving" /\ pc'[c] = "replying"
        /\ tasks[c] \in Nat /\ tasks'[c] = tasks[c] + 1 /\ tasks'[c] \in 1..MaxTasks
    BY <1>3, ConnAssumption DEF OnTask, Serving, Reply, Answer, TypeOK
  <2>4. tasks'[c] - 1 = tasks[c] /\ 1..tasks[c] \subseteq 1..tasks'[c] /\ tasks'[c] \notin 1..tasks[c]
    BY <2>3
  <2> QED BY <2>1, <2>2, <2>3, <2>4 DEF Answered
<1>4. ASSUME NEW g \in Conns, Lock(g) PROVE Answered'
  BY <1>1, <1>4 DEF Lock
<1>5. ASSUME NEW g \in Conns, Write(g) PROVE Answered'
  <2> DEFINE d == snd[g].to
             w == wire[d]
  <2>1. /\ snd[g] \in Frame /\ snd[g] # NoFrame /\ d \in Conns /\ w \in Seq(Frame)
        /\ pc[g] \in {"replying", "notifying"} /\ UNCHANGED <<tasks, dropped>>
    BY <1>5 DEF Write, TypeOK, Frame, Placed
  <2>2. /\ pc'[g] # "replying" /\ \A e \in Conns \ {g} : pc'[e] = pc[e]
    BY <1>5 DEF Write, TypeOK
  <2>3. \/ UNCHANGED wire /\ broken' = broken \cup {d}
        \/ /\ wire' = [wire EXCEPT ![d] = Append(w, snd[g])]
           /\ d \notin broken /\ broken' = broken
    BY <1>5 DEF Write, Send
  <2>4. pc[g] = "replying" => d = g /\ snd[g].kind = "reply" /\ snd[g].of = tasks[g]
    BY <2>1 DEF Placed
  <2>5. pc[g] = "notifying" => snd[g].kind = "push"
    BY <2>1 DEF Placed
  <2>6. CASE UNCHANGED wire /\ broken' = broken \cup {d}
    BY <2>1, <2>2, <2>4, <2>6 DEF Answered
  <2>7. CASE /\ wire' = [wire EXCEPT ![d] = Append(w, snd[g])]
             /\ d \notin broken /\ broken' = broken
    <3>1. /\ Replies(w, Len(w)) \in Nat
          /\ \A k \in 1..Len(w) : Replies(Append(w, snd[g]), k) = Replies(w, k)
          /\ Replies(Append(w, snd[g]), Len(w) + 1) =
                IF snd[g].kind = "reply" THEN Replies(w, Len(w)) + 1 ELSE Replies(w, Len(w))
      BY <2>1, RepliesCounted
    <3> SUFFICES ASSUME NEW e \in Conns
                 PROVE  /\ pc'[e] = "replying" => pc[e] = "replying"
                        /\ \A k \in DOMAIN wire'[e] :
                              wire'[e][k].kind = "reply" =>
                                 /\ wire'[e][k].of \in 1..tasks[e] \ dropped[e]
                                 /\ Replies(wire'[e], k) = Outside(dropped[e], wire'[e][k].of)
                        /\ \/ e \in broken
                           \/ Replies(wire'[e], Len(wire'[e])) =
                                 Outside(dropped[e], IF pc'[e] = "replying" THEN tasks[e] - 1
                                                     ELSE tasks[e])
      BY <2>1, <2>7 DEF Answered
    <3>2. CASE e # d
      <4>1. wire'[e] = wire[e]
        BY <2>7, <3>2 DEF TypeOK
      <4>2. (pc'[e] = "replying") <=> (pc[e] = "replying")
        BY <2>1, <2>2, <2>4, <3>2
      <4> QED BY <4>1, <4>2 DEF Answered
    <3>3. CASE e = d
      <4>1. wire'[e] = Append(w, snd[g]) /\ wire[e] = w /\ Len(wire'[e]) = Len(w) + 1
        BY <2>1, <2>7, <3>3 DEF TypeOK
      <4>2. Replies(w, Len(w)) = Outside(dropped[e], IF pc[e] = "replying" THEN tasks[e] - 1
                                                     ELSE tasks[e])
        BY <2>7, <3>3, <4>1 DEF Answered
      <4>3. tasks[e] \in Nat /\ Len(w) \in Nat
        BY <2>1 DEF TypeOK
      <4>4. \A k \in 1..Len(w) :
               w[k].kind = "reply" => /\ w[k].of \in 1..tasks[e] \ dropped[e]
                                      /\ Replies(w, k) = Outside(dropped[e], w[k].of)
        BY <2>1, <3>3, <4>1 DEF Answered
      <4>5. \A k \in 1..Len(w) : wire'[e][k] = w[k] /\ Replies(wire'[e], k) = Replies(w, k)
        BY <2>1, <3>1, <4>1
      <4>6. wire'[e][Len(w) + 1] = snd[g] /\ DOMAIN wire'[e] = 1..(Len(w) + 1)
        BY <2>1, <4>1
      (* What holds of the new frame holds of all frames. *)
      <4>9. ASSUME snd[g].kind = "reply" =>
                      /\ snd[g].of \in 1..tasks[e] \ dropped[e]
                      /\ Replies(wire'[e], Len(w) + 1) = Outside(dropped[e], snd[g].of)
            PROVE  \A k \in DOMAIN wire'[e] :
                      wire'[e][k].kind = "reply" =>
                         /\ wire'[e][k].of \in 1..tasks[e] \ dropped[e]
                         /\ Replies(wire'[e], k) = Outside(dropped[e], wire'[e][k].of)
        <5> TAKE k \in DOMAIN wire'[e]
        <5>1. k \in 1..Len(w) \/ k = Len(w) + 1
          BY <4>3, <4>6
        <5>2. CASE k \in 1..Len(w)
          BY <4>4, <4>5, <5>2
        <5>3. CASE k = Len(w) + 1
          BY <4>6, <4>9, <5>3
        <5> QED BY <5>1, <5>2, <5>3
      <4>7. CASE pc[g] = "replying"
        <5>1. /\ e = g /\ snd[g].of = tasks[e] /\ pc'[e] # "replying" /\ snd[g].kind = "reply"
              /\ Replies(w, Len(w)) = Outside(dropped[e], tasks[e] - 1)
          BY <2>2, <2>4, <3>3, <4>2, <4>7
        <5>2. tasks[e] \in 1..MaxTasks /\ tasks[e] \notin dropped[e]
          BY <4>7, <5>1 DEF Answered
        <5>3. tasks[e] - 1 \in Nat /\ (tasks[e] - 1) + 1 = tasks[e]
          BY <4>3, <5>2
        <5>4. Outside(dropped[e], tasks[e]) = Outside(dropped[e], tasks[e] - 1) + 1
          BY <5>2, <5>3, OutsideCounted
        <5>5. Replies(wire'[e], Len(w) + 1) = Outside(dropped[e], tasks[e])
          BY <3>1, <4>1, <5>1, <5>4
        <5>6. tasks[e] \in 1..tasks[e] \ dropped[e]
          BY <4>3, <5>2
        <5>7. Replies(wire'[e], Len(wire'[e])) = Outside(dropped[e], tasks[e])
          BY <4>1, <5>5
        <5> QED BY <4>9, <5>1, <5>5, <5>6, <5>7
      <4>8. CASE pc[g] = "notifying"
        <5>1. /\ Replies(wire'[e], Len(w) + 1) = Replies(w, Len(w))
              /\ snd[g].kind = "push"
          BY <2>5, <3>1, <4>1, <4>8
        <5>2. pc'[e] = "replying" <=> pc[e] = "replying"
          BY <2>2, <4>8
        <5>3. Replies(wire'[e], Len(wire'[e])) = Outside(dropped[e],
                     IF pc'[e] = "replying" THEN tasks[e] - 1 ELSE tasks[e])
          BY <4>1, <4>2, <5>1, <5>2
        <5> QED BY <4>9, <5>1, <5>2, <5>3
      <4> QED BY <2>1, <4>7, <4>8
    <3> QED BY <3>2, <3>3
  <2> QED BY <2>3, <2>6, <2>7
<1>6. ASSUME NEW c \in Conns, AfterReply(c) PROVE Answered'
  BY <1>1, <1>6 DEF AfterReply, TypeOK
<1>7. ASSUME NEW c \in Conns, Push(c) PROVE Answered'
  BY <1>1, <1>7 DEF Push
<1>8. ASSUME NEW c \in Conns, Leave(c) \/ Close(c) PROVE Answered'
  <2>1. UNCHANGED <<wire, tasks, dropped, broken>>
    BY <1>8 DEF Leave, Close
  <2>2. \A d \in Conns : pc'[d] = "replying" <=> pc[d] = "replying"
    BY <1>8 DEF Leave, Close, TypeOK
  <2> QED BY <1>1, <2>1, <2>2
<1>9. CASE UNCHANGED vars
  BY <1>1, <1>9 DEF vars
<1> HIDE DEF Goto, writing, services
<1> QED BY <1>0, <1>2, <1>3, <1>4, <1>5, <1>6, <1>7, <1>8, <1>9, StepCases

-----------------------------------------------------------------------------
LEMMA ConnStep == IInv /\ [Next]_vars => IInv'
BY TypeStep, PlacedStep, KeysStep, NumberingStep, InformedStep, EndedStep, AnsweredStep
   DEF IInv

(* Every state of a lobby server satisfies the inductive invariant.         *)
LEMMA ConnInvariant == Spec => []IInv
<1>1. Spec => Init /\ [][Next]_vars
  BY PTL DEF Spec
<1> QED BY <1>1, ConnInit, ConnStep, PTL

(* The state of every lobby connection has the types that handshake.go      *)
(* declares for it, for any number of players and tasks.                    *)
THEOREM ConnTypes == Spec => []TypeOK
BY ConnInvariant, PTL DEF IInv

(* sendEncrypted (handshake.go): whatever goroutines write to a connection, *)
(* the frames on its socket are numbered 1, 2, 3... without a gap.          *)
THEOREM NumbersInOrder == Spec => []NumbersExact
<1>1. IInv => NumbersExact
  BY DEF IInv, Numbering
<1> QED BY <1>1, ConnInvariant, PTL

(* sendEncrypted dereferences l.keys: no goroutine, of the connection or of *)
(* another one, ever sends to a connection before its 0x82 was accepted.    *)
THEOREM KeysFirst == Spec => []KeysBeforeUse
<1>1. IInv => KeysBeforeUse
  BY DEF IInv
<1> QED BY <1>1, ConnInvariant, PTL

(* afterReply (services.go onTask, ctr_async.go): a notice about a search   *)
(* never overtakes the reply that tells the client the id of that search.   *)
THEOREM RepliesBeforeNotices == Spec => []SearchKnownFirst
<1>1. IInv => SearchKnownFirst
  BY DEF IInv, Informed
<1> QED BY <1>1, ConnInvariant, PTL

(* services.go onTask: the client gives the k-th reply to its k-th task. The *)
(* k-th reply answers the k-th of the tasks of three bytes or more, each of  *)
(* them has its reply before the next is read (unless a write failed), and a *)
(* shorter task never has one, whatever other goroutines write to the same   *)
(* socket.                                                                   *)
THEOREM RepliesInStep == Spec => []RepliesAlign
<1>1. IInv => RepliesAlign
  BY DEF IInv, Answered, RepliesAlign, LongEnough, Outside
<1> QED BY <1>1, ConnInvariant, PTL

(* The deferred calls of run and startLobby: a closed connection is neither *)
(* on the dashboard nor online, owns no game and has no search.             *)
THEOREM NothingLeftBehind == Spec => []NothingLeft
<1>1. IInv => NothingLeft
  BY DEF IInv, Ended, NothingLeft
<1> QED BY <1>1, ConnInvariant, PTL

=============================================================================
