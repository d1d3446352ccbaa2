-------------------------- MODULE ControlPlaneProofs --------------------------
(***************************************************************************)
(* Boundary A for any number of connections, peers and alerts: the two     *)
(* loops exclude each other, the lock is never lost, and what is served    *)
(* and answered is the operator's.                                         *)
(***************************************************************************)
EXTENDS ControlPlane, SequenceTheorems, TLAPS

(* Who waits, in the five queues there can be. *)
LEMMA Queues ==
  /\ Range(<<>>) = {}
  /\ \A x : Range(<<x>>) = {x}
  /\ \A x, y : Range(<<x, y>>) = {x, y}
PROOF
  <1>1. Range(<<>>) = {}
    BY DEF Range
  <1>2. ASSUME NEW x PROVE Range(<<x>>) = {x}
    <2>1. DOMAIN <<x>> = {1} /\ <<x>>[1] = x
      OBVIOUS
    <2> QED BY <2>1 DEF Range
  <1>3. ASSUME NEW x, NEW y PROVE Range(<<x, y>>) = {x, y}
    <2>1. DOMAIN <<x, y>> = {1, 2} /\ <<x, y>>[1] = x /\ <<x, y>>[2] = y
      OBVIOUS
    <2> QED BY <2>1 DEF Range
  <1> QED BY <1>1, <1>2, <1>3

Queue == {<<>>, <<"server">>, <<"monitor">>, <<"server", "monitor">>, <<"monitor", "server">>}

(* A loop that is not queued queues up; the first in the queue leaves it. *)
LEMMA Enqueue ==
  ASSUME NEW w \in Queue, NEW t \in {"server", "monitor"}, t \notin Range(w)
  PROVE  Append(w, t) \in Queue /\ Range(Append(w, t)) = Range(w) \union {t}
PROOF
  <1>1. ASSUME NEW x PROVE Append(<<x>>, t) = <<x, t>>
    <2>1. <<x>> \in Seq({x, t}) /\ <<x, t>> \in Seq({x, t}) /\ t \in {x, t}
      OBVIOUS
    <2>2. /\ Append(<<x>>, t) \in Seq({x, t}) /\ Len(Append(<<x>>, t)) = 2
          /\ Append(<<x>>, t)[1] = x /\ Append(<<x>>, t)[2] = t
      BY <2>1
    <2>3. Len(<<x, t>>) = 2 /\ <<x, t>>[1] = x /\ <<x, t>>[2] = t
      OBVIOUS
    <2>4. \A k \in 1 .. Len(Append(<<x>>, t)) : Append(<<x>>, t)[k] = <<x, t>>[k]
      <3>1. \A k \in 1 .. 2 : k = 1 \/ k = 2
        OBVIOUS
      <3> QED BY <2>2, <2>3, <3>1
    <2> QED BY <2>1, <2>2, <2>3, <2>4, SeqEqual
  <1>2. Append(<<>>, t) = <<t>>
    OBVIOUS
  <1>3. CASE w = <<>>
    BY <1>2, <1>3, Queues DEF Queue
  <1>4. CASE w = <<"server">>
    <2>1. t = "monitor"
      BY <1>4, Queues
    <2>2. Append(w, t) = <<"server", "monitor">>
      BY <1>1, <1>4, <2>1
    <2>3. Range(Append(w, t)) = {"server", "monitor"} /\ Range(w) = {"server"}
      BY <1>4, <2>2, Queues
    <2> QED BY <2>1, <2>2, <2>3 DEF Queue
  <1>5. CASE w = <<"monitor">>
    <2>1. t = "server"
      BY <1>5, Queues
    <2>2. Append(w, t) = <<"monitor", "server">>
      BY <1>1, <1>5, <2>1
    <2>3. Range(Append(w, t)) = {"monitor", "server"} /\ Range(w) = {"monitor"}
      BY <1>5, <2>2, Queues
    <2> QED BY <2>1, <2>2, <2>3 DEF Queue
  <1>6. w \in {<<>>, <<"server">>, <<"monitor">>}
    BY Queues DEF Queue
  <1> QED BY <1>3, <1>4, <1>5, <1>6

(* Taking the head of the queue. *)
LEMMA Dequeue ==
  ASSUME NEW w \in Queue, w # <<>>
  PROVE  /\ Tail(w) \in Queue /\ Head(w) \in {"server", "monitor"}
         /\ Head(w) \in Range(w) /\ Range(Tail(w)) = Range(w) \ {Head(w)}
PROOF
  <1>1. /\ \A x : Tail(<<x>>) = <<>> /\ Head(<<x>>) = x
        /\ \A x, y : Tail(<<x, y>>) = <<y>> /\ Head(<<x, y>>) = x
    OBVIOUS
  <1>2. CASE w = <<"server">>
    BY <1>1, <1>2, Queues DEF Queue
  <1>3. CASE w = <<"monitor">>
    BY <1>1, <1>3, Queues DEF Queue
  <1>4. CASE w = <<"server", "monitor">>
    BY <1>1, <1>4, Queues DEF Queue
  <1>5. CASE w = <<"monitor", "server">>
    BY <1>1, <1>5, Queues DEF Queue
  <1> QED BY <1>2, <1>3, <1>4, <1>5 DEF Queue

-----------------------------------------------------------------------------
(* The loops and the lock.                                                 *)
LoopsOK ==
  /\ server \in {"accepting", "locking", "reading", "serving", "writing"}
  /\ monitor \in {"polling", "locking", "serving"}
  /\ alerts \in 0 .. raised /\ raised \in 0 .. MaxAlerts
  /\ lock \in {"free", "server", "monitor"}
  /\ waiters \in Queue

(* Every step keeps the lock with the loop that works under it. *)
LEMMA LockStep ==
  ASSUME IInv, [Next]_vars
  PROVE  LoopsOK' /\ LockNeverLeaks' /\ NeverInterleave'
PROOF
  <1> USE BoundsAssumption DEF LockNeverLeaks, LockInUse, QueuedForLock, loops, mutex
  <1>0. LoopsOK /\ LockNeverLeaks /\ NeverInterleave
    BY DEF IInv, TypeOK, LoopsOK, Queue
  <1>1. CASE Peers \/ UNCHANGED vars
    <2>1. UNCHANGED <<server, cur, monitor, alerts, raised, lock, waiters>>
      BY <1>1 DEF Peers, Connect, Send, Leave, Receive, vars
    <2> QED BY <1>0, <2>1 DEF LoopsOK, NeverInterleave
  <1>2. CASE Accept
    <2>1. UNCHANGED <<monitor, alerts, raised, lock>> /\ server = "accepting"
      BY <1>2 DEF Accept
    <2>2. CASE conns[Head(backlog)].uid = operator_uid
      <3>1. server' = "locking" /\ waiters' = Append(waiters, "server")
        BY <1>2, <2>2 DEF Accept, Lock
      <3>2. waiters' \in Queue /\ Range(waiters') = Range(waiters) \union {"server"}
        BY <1>0, <2>1, <3>1, Enqueue DEF LoopsOK
      <3> QED BY <1>0, <2>1, <3>1, <3>2 DEF LoopsOK, NeverInterleave
    <2>3. CASE conns[Head(backlog)].uid # operator_uid
      <3>1. UNCHANGED <<server, waiters>>
        BY <1>2, <2>3 DEF Accept
      <3> QED BY <1>0, <2>1, <3>1 DEF LoopsOK, NeverInterleave
    <2> QED BY <2>2, <2>3
  <1>3. CASE ServerLocked
    <2>1. /\ UNCHANGED <<monitor, alerts, raised>> /\ server = "locking" /\ server' = "reading"
          /\ lock = "free" /\ lock' = "server"
          /\ waiters # <<>> /\ Head(waiters) = "server" /\ waiters' = Tail(waiters)
      BY <1>3 DEF ServerLocked, Granted
    <2>2. waiters' \in Queue /\ Range(waiters') = Range(waiters) \ {"server"}
      BY <1>0, <2>1, Dequeue DEF LoopsOK
    <2> QED BY <1>0, <2>1, <2>2 DEF LoopsOK, NeverInterleave
  <1>4. CASE ReadError \/ Written
    <2>1. /\ UNCHANGED <<monitor, alerts, raised, waiters>> /\ server \in {"reading", "writing"}
          /\ server' = "accepting" /\ lock' = "free"
      BY <1>4 DEF ReadError, Written, End, Unlock
    <2> QED BY <1>0, <2>1 DEF LoopsOK, NeverInterleave
  <1>5. CASE RejectFrame \/ ServeBrief \/ ServeLong \/ FinishLong
    <2>1. /\ UNCHANGED <<monitor, alerts, raised, lock, waiters>>
          /\ server \in {"reading", "serving"} /\ server' \in {"serving", "writing"}
      BY <1>5 DEF RejectFrame, ServeBrief, ServeLong, FinishLong, Write, Ready
    <2> QED BY <1>0, <2>1 DEF LoopsOK, NeverInterleave
  <1>6. CASE Poll
    <2>1. /\ UNCHANGED <<server, lock>> /\ monitor = "polling" /\ monitor' = "locking"
          /\ waiters' = Append(waiters, "monitor") /\ raised < MaxAlerts
      BY <1>6 DEF Poll, Lock
    <2>2. PICK n \in 1 .. MaxAlerts - raised : alerts' = n /\ raised' = raised + n
      BY <1>6 DEF Poll
    <2>3. waiters' \in Queue /\ Range(waiters') = Range(waiters) \union {"monitor"}
      BY <1>0, <2>1, Enqueue DEF LoopsOK
    <2>4. alerts' \in 0 .. raised' /\ raised' \in 0 .. MaxAlerts /\ alerts' # 0
      BY <1>0, <2>2 DEF LoopsOK
    <2> QED BY <1>0, <2>1, <2>3, <2>4 DEF LoopsOK, NeverInterleave
  <1>7. CASE MonitorLocked
    <2>1. /\ UNCHANGED <<server, alerts, raised>> /\ monitor = "locking" /\ monitor' = "serving"
          /\ lock = "free" /\ lock' = "monitor"
          /\ waiters # <<>> /\ Head(waiters) = "monitor" /\ waiters' = Tail(waiters)
      BY <1>7 DEF MonitorLocked, Granted
    <2>2. waiters' \in Queue /\ Range(waiters') = Range(waiters) \ {"monitor"}
      BY <1>0, <2>1, Dequeue DEF LoopsOK
    <2> QED BY <1>0, <2>1, <2>2 DEF LoopsOK, NeverInterleave
  <1>8. CASE Assessed
    <2>1. /\ UNCHANGED <<server, raised>> /\ monitor = "serving" /\ lock' = "free"
          /\ alerts' = alerts - 1
      BY <1>8 DEF Assessed, Unlock
    <2>2. alerts \in Nat /\ alerts # 0 /\ alerts' \in 0 .. raised
      BY <1>0, <2>1 DEF LoopsOK
    <2>3. CASE alerts > 1
      <3>1. monitor' = "locking" /\ waiters' = Append(waiters, "monitor")
        BY <1>8, <2>3 DEF Assessed, Lock
      <3>2. waiters' \in Queue /\ Range(waiters') = Range(waiters) \union {"monitor"}
        BY <1>0, <2>1, <3>1, Enqueue DEF LoopsOK
      <3>3. alerts' # 0
        BY <2>1, <2>2, <2>3
      <3> QED BY <1>0, <2>1, <2>2, <3>1, <3>2, <3>3 DEF LoopsOK, NeverInterleave
    <2>4. CASE ~(alerts > 1)
      <3>1. monitor' = "polling" /\ waiters' = waiters
        BY <1>8, <2>4 DEF Assessed
      <3>2. alerts' = 0
        BY <2>1, <2>2, <2>4
      <3> QED BY <1>0, <2>1, <2>2, <3>1, <3>2 DEF LoopsOK, NeverInterleave
    <2> QED BY <2>3, <2>4
  <1> QED BY <1>1, <1>2, <1>3, <1>4, <1>5, <1>6, <1>7, <1>8
          DEF Next, ServerStep, LoopStep, MonitorStep

-----------------------------------------------------------------------------
(* One more at the end of a sequence without repetitions, and one less at  *)
(* its head.                                                               *)
LEMMA OneMore ==
  ASSUME NEW S, NEW s \in Seq(S), NEW x \in S
  PROVE  /\ Append(s, x) \in Seq(S)
         /\ Range(Append(s, x)) = Range(s) \union {x}
         /\ IsInjective(s) /\ x \notin Range(s) => IsInjective(Append(s, x))
PROOF
  <1>1. /\ Append(s, x) \in Seq(S) /\ Len(s) \in Nat
        /\ DOMAIN s = 1 .. Len(s) /\ DOMAIN Append(s, x) = 1 .. Len(s) + 1
        /\ Append(s, x)[Len(s) + 1] = x
        /\ \A i \in 1 .. Len(s) : Append(s, x)[i] = s[i]
    OBVIOUS
  <1>2. \A i \in 1 .. Len(s) + 1 : i \in 1 .. Len(s) \/ i = Len(s) + 1
    BY <1>1
  <1>3. \A i \in 1 .. Len(s) : i \in 1 .. Len(s) + 1 /\ i # Len(s) + 1
    BY <1>1
  <1>4. Len(s) + 1 \in 1 .. Len(s) + 1
    BY <1>1
  <1> HIDE DEF Range
  <1>5. Range(Append(s, x)) = Range(s) \union {x}
    BY <1>1, <1>2, <1>3, <1>4 DEF Range
  <1>6. IsInjective(s) /\ x \notin Range(s) => IsInjective(Append(s, x))
    BY <1>1, <1>2, <1>3 DEF Range, IsInjective
  <1> QED BY <1>1, <1>5, <1>6

(* Taking the head of a sequence without repetitions. *)
LEMMA OneLess ==
  ASSUME NEW S, NEW s \in Seq(S), s # <<>>, IsInjective(s)
  PROVE  /\ Tail(s) \in Seq(S) /\ Head(s) \in S /\ Head(s) \in Range(s)
         /\ Range(Tail(s)) = Range(s) \ {Head(s)}
         /\ IsInjective(Tail(s))
PROOF
  <1>1. /\ Tail(s) \in Seq(S) /\ Len(s) \in Nat /\ Len(s) >= 1 /\ Head(s) = s[1] /\ s[1] \in S
        /\ DOMAIN s = 1 .. Len(s) /\ DOMAIN Tail(s) = 1 .. Len(s) - 1
        /\ \A i \in 1 .. Len(s) - 1 : Tail(s)[i] = s[i + 1]
    OBVIOUS
  <1>2. \A i \in 1 .. Len(s) - 1 : i \in Int /\ i + 1 \in 1 .. Len(s) /\ i + 1 # 1
    BY <1>1
  <1>3. \A i \in 1 .. Len(s) : i = 1 \/ (i - 1 \in 1 .. Len(s) - 1 /\ (i - 1) + 1 = i)
    BY <1>1
  <1>4. 1 \in 1 .. Len(s)
    BY <1>1
  <1>5. \A i, j \in 1 .. Len(s) - 1 : i + 1 = j + 1 => i = j
    BY <1>2
  <1>6. Head(s) \in Range(s)
    BY <1>1, <1>4 DEF Range
  <1>7. Range(Tail(s)) \subseteq Range(s) \ {Head(s)}
    BY <1>1, <1>2, <1>4 DEF Range, IsInjective
  <1>8. Range(s) \ {Head(s)} \subseteq Range(Tail(s))
    <2> SUFFICES ASSUME NEW i \in 1 .. Len(s), s[i] # Head(s) PROVE s[i] \in Range(Tail(s))
      BY <1>1 DEF Range
    <2>1. i - 1 \in 1 .. Len(s) - 1 /\ (i - 1) + 1 = i
      BY <1>1, <1>3
    <2>2. Tail(s)[i - 1] = s[i]
      BY <1>1, <2>1
    <2> QED BY <1>1, <2>1, <2>2 DEF Range
  <1>9. IsInjective(Tail(s))
    BY <1>1, <1>2, <1>5 DEF IsInjective
  <1> QED BY <1>1, <1>6, <1>7, <1>8, <1>9

-----------------------------------------------------------------------------
(* The connections.                                                        *)
ConnsOK ==
  /\ conns \in Seq(Conn)
  /\ backlog \in Seq(DOMAIN conns) /\ served \in Seq(DOMAIN conns)
  /\ cur \in 0 .. Len(conns) /\ answer \in [got : Got, fits : BOOLEAN]
ConnInv == ConnsOK /\ QueuedUntouched /\ AtHand /\ ServedRightly

(* The same, connection by connection. *)
ServedIsOperators(n) ==
  /\ conns[n].uid = operator_uid
  /\ conns[n].frame.version = PROTOCOL_VERSION /\ conns[n].frame.key = operator_pub
AnswerMatches(n) ==
  /\ conns[n].got \in {"Pong", "Task", "PolicyReloaded"} =>
       n \in Range(served) /\ conns[n].got = Reply[conns[n].frame.request]
  /\ conns[n].got \in {"Error", "closed"} => n \notin Range(served)
  /\ n \in Range(served) /\ conns[n].alive /\ conns[n].got = "nothing" =>
       server \in {"serving", "writing"} /\ cur = n
EachServedRightly ==
  /\ \A n \in Range(served) : ServedIsOperators(n)
  /\ IsInjective(served)
  /\ \A n \in DOMAIN conns : AnswerMatches(n)

(* ServedRightly, one connection at a time. *)
LEMMA ServedRightlyPer ==
  (ServedRightly <=> EachServedRightly) /\ (ServedRightly' <=> EachServedRightly')
PROOF
  <1>1. OnlyOperatorServed <=> \A n \in Range(served) : ServedIsOperators(n)
    BY DEF OnlyOperatorServed, ServedIsOperators, Range
  <1>2. AnswersMatch <=> IsInjective(served) /\ \A n \in DOMAIN conns : AnswerMatches(n)
    BY DEF AnswersMatch, AnswerMatches
  <1>3. OnlyOperatorServed' <=> \A n \in Range(served)' : ServedIsOperators(n)'
    BY DEF OnlyOperatorServed, ServedIsOperators, Range
  <1>4. AnswersMatch' <=> IsInjective(served)' /\ \A n \in DOMAIN conns' : AnswerMatches(n)'
    BY DEF AnswersMatch, AnswerMatches
  <1> QED BY <1>1, <1>2, <1>3, <1>4 DEF ServedRightly, EachServedRightly

(* A step may revise one connection, never who opened it or what it sent. *)
Revised(n, c) ==
  /\ conns' \in Seq(Conn) /\ DOMAIN conns' = DOMAIN conns /\ Len(conns') = Len(conns)
  /\ conns'[n] = c
  /\ \A m \in DOMAIN conns : m # n => conns'[m] = conns[m]
(* An update of one connection is such a step. *)
LEMMA Revise ==
  ASSUME conns \in Seq(Conn), NEW n \in DOMAIN conns, NEW c \in Conn,
         conns' = [conns EXCEPT ![n] = c]
  PROVE  Revised(n, c)
  BY DEF Revised

(* Steps of the peers. *)
LEMMA PeersStep ==
  ASSUME ConnInv, Peers
  PROVE  ConnInv'
PROOF
  <1> USE DEF loops, mutex, UnderWay
  <1>0. ConnsOK /\ QueuedUntouched /\ AtHand /\ EachServedRightly
    BY ServedRightlyPer DEF ConnInv
  <1>1. ASSUME NEW uid \in Peer, NEW frame \in Frame, Connect(uid, frame) PROVE ConnInv'
    <2> DEFINE c == [uid |-> uid, frame |-> frame, sent |-> "nothing", alive |-> TRUE,
                     got |-> "nothing"]
               new == Len(conns) + 1
    <2>1. /\ conns' = Append(conns, c) /\ backlog' = Append(backlog, new)
          /\ UNCHANGED <<server, cur, answer, served>>
      BY <1>1 DEF Connect
    <2>2. c \in Conn /\ c.got = "nothing"
      BY DEF Conn, Got
    <2> HIDE DEF c
    <2>3. /\ conns' \in Seq(Conn) /\ Len(conns) \in Nat /\ Len(conns') = new
          /\ DOMAIN conns = 1 .. Len(conns) /\ DOMAIN conns' = 1 .. new
          /\ conns'[new] = c
          /\ \A m \in DOMAIN conns : conns'[m] = conns[m]
      BY <1>0, <2>1, <2>2 DEF ConnsOK
    <2>4. /\ DOMAIN conns \subseteq DOMAIN conns' /\ new \in DOMAIN conns' /\ new \notin DOMAIN conns
          /\ \A m \in DOMAIN conns' : m \in DOMAIN conns \/ m = new
          /\ new # cur
      BY <1>0, <2>3, SMTT(30) DEF ConnsOK
    <2>5. Range(backlog) \subseteq DOMAIN conns /\ Range(served) \subseteq DOMAIN conns
      BY <1>0 DEF ConnsOK, Range
    <2>6. backlog \in Seq(DOMAIN conns') /\ served \in Seq(DOMAIN conns')
      BY <1>0, <2>4 DEF ConnsOK
    <2> HIDE DEF new
    <2>7. /\ backlog' \in Seq(DOMAIN conns') /\ Range(backlog') = Range(backlog) \union {new}
          /\ IsInjective(backlog')
      BY <1>0, <2>1, <2>4, <2>5, <2>6, OneMore DEF QueuedUntouched
    <2>8. ConnsOK'
      BY <1>0, <2>1, <2>3, <2>6, <2>7 DEF ConnsOK, new
    <2>9. QueuedUntouched'
      BY <1>0, <2>1, <2>2, <2>3, <2>4, <2>5, <2>7 DEF QueuedUntouched
    <2>10. AtHand'
      BY <1>0, <2>1, <2>3, <2>4 DEF AtHand
    <2>11. ASSUME NEW n \in Range(served)' PROVE ServedIsOperators(n)'
      BY <1>0, <2>1, <2>3, <2>5 DEF EachServedRightly, ServedIsOperators
    <2>12. ASSUME NEW n \in DOMAIN conns' PROVE AnswerMatches(n)'
      BY <1>0, <2>1, <2>2, <2>3, <2>4, <2>5 DEF EachServedRightly, AnswerMatches
    <2>13. EachServedRightly'
      BY <1>0, <2>1, <2>11, <2>12 DEF EachServedRightly
    <2> QED BY <2>8, <2>9, <2>10, <2>13, ServedRightlyPer DEF ConnInv
  <1>2. ASSUME NEW n \in DOMAIN conns, Send(n) \/ Leave(n) PROVE ConnInv'
    <2>1. PICK sent \in {"nothing", "part", "whole"}, alive \in BOOLEAN :
            /\ conns' = [conns EXCEPT ![n] = [conns[n] EXCEPT !.sent = sent, !.alive = alive]]
            /\ alive => conns[n].alive
      <3>1. conns[n] \in Conn
        BY <1>0 DEF ConnsOK
      <3>2. CASE Send(n)
        <4>1. PICK sent \in {"part", "whole"} : conns' = [conns EXCEPT ![n].sent = sent]
          BY <3>2 DEF Send
        <4>2. conns[n].alive = TRUE
          BY <3>1, <3>2 DEF Send, Conn
        <4>3. [conns[n] EXCEPT !.sent = sent] = [conns[n] EXCEPT !.sent = sent, !.alive = TRUE]
          BY <3>1, <4>2 DEF Conn
        <4> QED BY <4>1, <4>2, <4>3
      <3>3. CASE Leave(n)
        <4>1. conns' = [conns EXCEPT ![n].alive = FALSE]
          BY <3>3 DEF Leave
        <4>2. /\ conns[n].sent \in {"nothing", "part", "whole"}
              /\ [conns[n] EXCEPT !.alive = FALSE]
                   = [conns[n] EXCEPT !.sent = conns[n].sent, !.alive = FALSE]
          BY <3>1 DEF Conn
        <4> QED BY <4>1, <4>2
      <3> QED BY <1>2, <3>2, <3>3
    <2>2. PICK c : c = [conns[n] EXCEPT !.sent = sent, !.alive = alive]
      OBVIOUS
    <2>3. /\ c \in Conn /\ c.uid = conns[n].uid /\ c.frame = conns[n].frame
          /\ c.got = conns[n].got /\ (c.alive => conns[n].alive)
      <3>1. conns[n] \in Conn
        BY <1>0 DEF ConnsOK
      <3>2. /\ c \in Conn /\ c.uid = conns[n].uid /\ c.frame = conns[n].frame
            /\ c.got = conns[n].got /\ c.alive = alive
        BY <2>2, <3>1 DEF Conn
      <3> QED BY <2>1, <3>2
    <2>4. Revised(n, c) /\ UNCHANGED <<backlog, server, cur, answer, served>>
      BY <1>0, <1>2, <2>1, <2>2, <2>3, Revise DEF ConnsOK, Send, Leave
    <2>5. \A m \in DOMAIN conns :
            /\ conns'[m].uid = conns[m].uid /\ conns'[m].frame = conns[m].frame
            /\ conns'[m].got = conns[m].got /\ (conns'[m].alive => conns[m].alive)
      BY <2>3, <2>4 DEF Revised
    <2>6. Range(backlog) \subseteq DOMAIN conns /\ Range(served) \subseteq DOMAIN conns
      BY <1>0 DEF ConnsOK, Range
    <2>7. ConnsOK'
      BY <1>0, <2>4 DEF ConnsOK, Revised
    <2>8. QueuedUntouched' /\ AtHand'
      BY <1>0, <2>4, <2>5, <2>6 DEF QueuedUntouched, AtHand, Revised
    <2>9. EachServedRightly'
      BY <1>0, <2>4, <2>5, <2>6
      DEF EachServedRightly, ServedIsOperators, AnswerMatches, Revised
    <2> QED BY <2>7, <2>8, <2>9, ServedRightlyPer DEF ConnInv
  <1>3. CASE Receive
    <2>1. /\ UNCHANGED <<conns, backlog, server, cur, served>>
          /\ answer' = [answer EXCEPT !.fits = TRUE]
      BY <1>3 DEF Receive
    <2>2. answer' \in [got : Got, fits : BOOLEAN] /\ answer'.got = answer.got
      BY <1>0, <2>1 DEF ConnsOK
    <2>3. ConnsOK' /\ QueuedUntouched' /\ AtHand'
      BY <1>0, <2>1, <2>2 DEF ConnsOK, QueuedUntouched, AtHand
    <2>4. EachServedRightly'
      BY <1>0, <2>1 DEF EachServedRightly, ServedIsOperators, AnswerMatches
    <2> QED BY <2>3, <2>4, ServedRightlyPer DEF ConnInv
  <1> QED BY <1>1, <1>2, <1>3 DEF Peers

(* accept: the operator's connection is taken up, another's is closed. *)
LEMMA AcceptStep ==
  ASSUME ConnInv, Accept
  PROVE  ConnInv'
PROOF
  <1> USE DEF UnderWay
  <1>0. ConnsOK /\ QueuedUntouched /\ AtHand /\ EachServedRightly
    BY ServedRightlyPer DEF ConnInv
  <1>1. Range(backlog) \subseteq DOMAIN conns /\ Range(served) \subseteq DOMAIN conns
    BY <1>0 DEF ConnsOK, Range
  <1>2. server = "accepting" /\ backlog # <<>> /\ backlog' = Tail(backlog)
        /\ UNCHANGED <<served, answer>>
    BY DEF Accept
  <1>3. PICK h : h = Head(backlog)
    OBVIOUS
  <1>4. /\ backlog' \in Seq(DOMAIN conns) /\ h \in Range(backlog) /\ h \in DOMAIN conns
        /\ Range(backlog') = Range(backlog) \ {h} /\ IsInjective(backlog')
    BY <1>0, <1>2, <1>3, OneLess DEF ConnsOK, QueuedUntouched
  <1>5. CASE conns[h].uid = operator_uid
    <2>1. cur' = h /\ server' = "locking" /\ UNCHANGED conns
      BY <1>3, <1>5 DEF Accept
    <2>2. ConnsOK'
      BY <1>0, <1>2, <1>4, <2>1 DEF ConnsOK
    <2>3. QueuedUntouched' /\ AtHand'
      BY <1>0, <1>2, <1>4, <1>5, <2>1 DEF QueuedUntouched, AtHand
    <2>4. EachServedRightly'
      BY <1>0, <1>2, <2>1 DEF EachServedRightly, ServedIsOperators, AnswerMatches
    <2> QED BY <2>2, <2>3, <2>4, ServedRightlyPer DEF ConnInv
  <1>6. CASE conns[h].uid # operator_uid
    <2>1. conns' = [conns EXCEPT ![h].got = "closed"] /\ UNCHANGED <<server, cur>>
      BY <1>3, <1>6 DEF Accept
    <2>2. PICK c : c = [conns[h] EXCEPT !.got = "closed"]
      OBVIOUS
    <2>3. c \in Conn /\ c.uid = conns[h].uid /\ c.frame = conns[h].frame /\ c.got = "closed"
      <3>1. conns[h] \in Conn
        BY <1>0, <1>4 DEF ConnsOK
      <3> QED BY <2>2, <3>1 DEF Conn, Got
    <2>4. Revised(h, c)
      BY <1>0, <1>4, <2>1, <2>2, <2>3, Revise DEF ConnsOK
    <2>5. ConnsOK'
      BY <1>0, <1>2, <1>4, <2>1, <2>4 DEF ConnsOK, Revised
    <2>6. QueuedUntouched' /\ AtHand'
      BY <1>0, <1>1, <1>2, <1>4, <2>1, <2>4 DEF QueuedUntouched, AtHand, Revised
    <2>7. h \notin Range(served)
      BY <1>0, <1>4 DEF QueuedUntouched
    <2>8. ASSUME NEW n \in Range(served)' PROVE ServedIsOperators(n)'
      BY <1>0, <1>1, <1>2, <2>4, <2>7 DEF EachServedRightly, ServedIsOperators, Revised
    <2>9. ASSUME NEW n \in DOMAIN conns' PROVE AnswerMatches(n)'
      BY <1>0, <1>2, <2>1, <2>3, <2>4, <2>7 DEF EachServedRightly, AnswerMatches, Revised
    <2>10. EachServedRightly'
      BY <1>0, <1>2, <2>8, <2>9 DEF EachServedRightly
    <2> QED BY <2>5, <2>6, <2>10, ServedRightlyPer DEF ConnInv
  <1> QED BY <1>5, <1>6

(* What a request is answered with says that it was served. *)
LEMMA AnswersInKind ==
  ASSUME NEW f \in Frame
  PROVE  Reply[f.request] \in {"Pong", "Task", "PolicyReloaded"}
  BY RequestAssumption DEF Request, Reply

(* The request at hand is put on record. *)
LEMMA OnRecord ==
  ASSUME ConnInv, server = "reading", Acceptable(conns[cur].frame), served' = Append(served, cur)
  PROVE  /\ served' \in Seq(DOMAIN conns) /\ Range(served') = Range(served) \union {cur}
         /\ IsInjective(served') /\ ServedIsOperators(cur)
PROOF
  <1>1. cur \in DOMAIN conns /\ cur \notin Range(served) /\ conns[cur].uid = operator_uid
    BY DEF ConnInv, AtHand, UnderWay
  <1>2. IsInjective(served)
    BY ServedRightlyPer DEF ConnInv, EachServedRightly
  <1>3. ServedIsOperators(cur)
    BY <1>1 DEF ServedIsOperators, Acceptable, open
  <1> QED BY <1>1, <1>2, <1>3, OneMore DEF ConnInv, ConnsOK

(* serve_connection returns: refused and not served, or served in kind. *)
LEMMA EndStep ==
  ASSUME ConnInv, ReadError \/ Written
  PROVE  ConnInv'
PROOF
  <1>0. ConnsOK /\ QueuedUntouched /\ AtHand /\ EachServedRightly
    BY ServedRightlyPer DEF ConnInv
  <1>1. Range(backlog) \subseteq DOMAIN conns /\ Range(served) \subseteq DOMAIN conns
    BY <1>0 DEF ConnsOK, Range
  <1>2. /\ server \in {"reading", "writing"} /\ cur \in DOMAIN conns /\ conns[cur] \in Conn
        /\ conns[cur].uid = operator_uid /\ conns[cur].got = "nothing"
        /\ cur \in Range(served) <=> (server = "writing" /\ answer.got # "Error")
        /\ server = "writing" =>
             answer.got \in {"Error", "too large", Reply[conns[cur].frame.request]}
    <2>1. server \in {"reading", "writing"}
      BY DEF ReadError, Written
    <2>2. server # "accepting" /\ server # "serving"
      BY <2>1
    <2>3. cur \in DOMAIN conns /\ conns[cur] \in Conn
      <3>1. cur \in DOMAIN conns
        BY <1>0, <2>2, Zenon DEF AtHand
      <3> QED BY <1>0, <3>1 DEF ConnsOK
    <2> QED BY <1>0, <2>1, <2>2, <2>3, Zenon DEF AtHand, UnderWay
  <1>3. PICK got :
          /\ End(got) /\ served' = served
          /\ \/ got = "closed" /\ server = "reading"
             \/ got = answer.got /\ server = "writing"
    BY DEF ReadError, Written
  <1>4. Reply[conns[cur].frame.request] \in {"Pong", "Task", "PolicyReloaded"}
    BY <1>2, AnswersInKind DEF Conn
  <1>5. /\ got \in Got /\ got # "nothing"
        /\ \/ got \in {"closed", "Error"} /\ cur \notin Range(served)
           \/ got \in {Reply[conns[cur].frame.request], "too large"} /\ cur \in Range(served)
    BY <1>2, <1>3, <1>4 DEF Got
  <1>6. PICK c : c = [conns[cur] EXCEPT !.got = IF conns[cur].alive THEN got ELSE conns[cur].got]
    OBVIOUS
  <1>7. /\ c \in Conn /\ c.uid = conns[cur].uid /\ c.frame = conns[cur].frame
        /\ c.alive = conns[cur].alive
        /\ c.got = IF conns[cur].alive THEN got ELSE "nothing"
    BY <1>2, <1>5, <1>6 DEF Conn
  <1>8. /\ Revised(cur, c) /\ server' = "accepting" /\ UNCHANGED <<backlog, cur, answer>>
    <2>1. conns' = [conns EXCEPT ![cur] = c]
      BY <1>3, <1>6 DEF End
    <2> QED BY <1>0, <1>2, <1>3, <1>7, <2>1, Revise DEF ConnsOK, End
  <1>9. ConnsOK'
    BY <1>0, <1>3, <1>8 DEF ConnsOK, Revised
  <1>10. QueuedUntouched' /\ AtHand'
    BY <1>0, <1>1, <1>2, <1>3, <1>8 DEF QueuedUntouched, AtHand, Revised
  <1>11. ASSUME NEW n \in Range(served)' PROVE ServedIsOperators(n)'
    <2>1. ServedIsOperators(n) /\ n \in DOMAIN conns
      BY <1>0, <1>1, <1>3 DEF EachServedRightly
    <2> QED BY <1>7, <1>8, <2>1 DEF ServedIsOperators, Revised
  <1>12. ASSUME NEW n \in DOMAIN conns' PROVE AnswerMatches(n)'
    <2>1. CASE n = cur
      <3>1. conns'[n].frame = conns[cur].frame /\ conns'[n].got = c.got
            /\ conns'[n].alive = conns[cur].alive
        BY <1>7, <1>8, <2>1 DEF Revised
      <3>2. CASE conns[cur].alive
        <4>1. conns'[n].got = got /\ got # "nothing"
          BY <1>5, <1>7, <3>1, <3>2
        <4> QED BY <1>3, <1>4, <1>5, <2>1, <3>1, <4>1 DEF AnswerMatches
      <3>3. CASE ~conns[cur].alive
        <4>1. conns'[n].got = "nothing" /\ ~conns'[n].alive
          BY <1>7, <3>1, <3>3
        <4> QED BY <4>1 DEF AnswerMatches
      <3> QED BY <3>2, <3>3
    <2>2. CASE n # cur
      <3>1. conns'[n] = conns[n] /\ n \in DOMAIN conns
        BY <1>8, <2>2 DEF Revised
      <3> QED BY <1>0, <1>3, <1>8, <2>2, <3>1 DEF EachServedRightly, AnswerMatches
    <2> QED BY <2>1, <2>2
  <1>13. EachServedRightly'
    BY <1>0, <1>3, <1>11, <1>12 DEF EachServedRightly
  <1> QED BY <1>9, <1>10, <1>13, ServedRightlyPer DEF ConnInv

(* A request is judged, or a task is done: what it will be answered with.  *)
LEMMA JudgeStep ==
  ASSUME ConnInv, RejectFrame \/ ServeBrief \/ ServeLong \/ FinishLong
  PROVE  ConnInv'
PROOF
  <1>0. ConnsOK /\ QueuedUntouched /\ AtHand /\ EachServedRightly
    BY ServedRightlyPer DEF ConnInv
  <1>1. /\ server \in {"reading", "serving"} /\ server' \in {"serving", "writing"}
        /\ UNCHANGED <<conns, backlog, cur>>
    BY DEF RejectFrame, ServeBrief, ServeLong, FinishLong, Write, Ready
  <1>2. /\ cur \in DOMAIN conns /\ conns[cur] \in Conn /\ conns[cur].uid = operator_uid
        /\ conns[cur].got = "nothing" /\ cur \notin Range(backlog)
        /\ cur \in Range(served) <=> server = "serving"
    <2>1. server # "accepting" /\ server # "writing"
      BY <1>1
    <2>2. cur \in DOMAIN conns /\ conns[cur] \in Conn
      <3>1. cur \in DOMAIN conns
        BY <1>0, <2>1, Zenon DEF AtHand
      <3> QED BY <1>0, <3>1 DEF ConnsOK
    <2>3. cur \notin Range(backlog)
      BY <1>0, <2>1 DEF QueuedUntouched
    <2> QED BY <1>0, <2>1, <2>2, <2>3, Zenon DEF AtHand, UnderWay
  <1>3. Reply[conns[cur].frame.request] \in {"Pong", "Task", "PolicyReloaded"}
    BY <1>2, AnswersInKind DEF Conn
  <1>4. /\ served' \in Seq(DOMAIN conns) /\ IsInjective(served')
        /\ answer' \in [got : Got, fits : BOOLEAN]
        /\ \/ Range(served') = Range(served)
           \/ Range(served') = Range(served) \union {cur} /\ ServedIsOperators(cur)
        /\ cur \in Range(served') <=> UnderWay'
        /\ server' = "writing" =>
             answer'.got \in {"Error", "too large", Reply[conns[cur].frame.request]}
    <2>1. CASE RejectFrame
      <3>1. /\ server' = "writing" /\ answer' = [got |-> "Error", fits |-> TRUE]
            /\ served' = served /\ server = "reading"
        BY <2>1 DEF RejectFrame, Write, Ready
      <3> QED BY <1>0, <1>2, <3>1 DEF ConnsOK, EachServedRightly, Got, UnderWay
    <2>2. CASE ServeBrief \/ ServeLong
      <3>1. /\ server = "reading" /\ Acceptable(conns[cur].frame) /\ served' = Append(served, cur)
            /\ \/ server' = "serving" /\ UNCHANGED answer
               \/ /\ server' = "writing"
                  /\ answer' = [got |-> Reply[conns[cur].frame.request], fits |-> TRUE]
        BY <2>2 DEF ServeBrief, ServeLong, Write, Ready
      <3>2. /\ served' \in Seq(DOMAIN conns) /\ Range(served') = Range(served) \union {cur}
            /\ IsInjective(served') /\ ServedIsOperators(cur)
        BY <3>1, OnRecord
      <3>3. server' = "writing" => answer'.got = Reply[conns[cur].frame.request]
        BY <3>1
      <3>4. answer' \in [got : Got, fits : BOOLEAN]
        <4>1. Reply[conns[cur].frame.request] \in Got
          BY <1>3 DEF Got
        <4>2. [got |-> Reply[conns[cur].frame.request], fits |-> TRUE] \in [got : Got, fits : BOOLEAN]
          BY <4>1
        <4> QED BY <1>0, <3>1, <4>2, Zenon DEF ConnsOK
      <3> QED BY <1>3, <3>1, <3>2, <3>3, <3>4 DEF UnderWay
    <2>3. CASE FinishLong
      <3>1. PICK got \in {Reply[conns[cur].frame.request], "too large"}, fits \in BOOLEAN :
              server' = "writing" /\ answer' = [got |-> got, fits |-> fits]
        BY <2>3 DEF FinishLong, Write
      <3>2. served' = served /\ server = "serving"
        BY <2>3 DEF FinishLong
      <3>3. /\ got \in Got /\ got # "Error" /\ answer'.got = got
            /\ answer' \in [got : Got, fits : BOOLEAN]
        BY <1>3, <3>1 DEF Got
      <3> QED BY <1>0, <1>2, <3>1, <3>2, <3>3 DEF ConnsOK, EachServedRightly, UnderWay
    <2> QED BY <2>1, <2>2, <2>3
  <1>5. ConnsOK'
    BY <1>0, <1>1, <1>4 DEF ConnsOK
  <1>6. QueuedUntouched'
    BY <1>0, <1>1, <1>2, <1>4 DEF QueuedUntouched
  <1>7. AtHand'
    BY <1>1, <1>2, <1>4 DEF AtHand
  <1>8. ASSUME NEW n \in Range(served)' PROVE ServedIsOperators(n)'
    <2>1. ServedIsOperators(n)
      BY <1>0, <1>4 DEF EachServedRightly
    <2> QED BY <1>1, <2>1 DEF ServedIsOperators
  <1>9. ASSUME NEW n \in DOMAIN conns' PROVE AnswerMatches(n)'
    BY <1>0, <1>1, <1>2, <1>4 DEF EachServedRightly, AnswerMatches
  <1>10. EachServedRightly'
    BY <1>4, <1>8, <1>9 DEF EachServedRightly
  <1> QED BY <1>5, <1>6, <1>7, <1>10, ServedRightlyPer DEF ConnInv

(* Steps that concern the lock only. *)
LEMMA OtherStep ==
  ASSUME ConnInv, ServerLocked \/ MonitorStep \/ UNCHANGED vars
  PROVE  ConnInv'
PROOF
  <1>1. /\ UNCHANGED <<conns, backlog, served, cur, answer>>
        /\ \/ UNCHANGED server
           \/ server = "locking" /\ server' = "reading"
    BY DEF ServerLocked, MonitorStep, Poll, MonitorLocked, Assessed, vars, loops
  <1>2. EachServedRightly
    BY ServedRightlyPer DEF ConnInv
  <1>3. EachServedRightly'
    BY <1>1, <1>2 DEF EachServedRightly, ServedIsOperators, AnswerMatches
  <1> QED BY <1>1, <1>3, ServedRightlyPer
          DEF ConnInv, ConnsOK, QueuedUntouched, AtHand, UnderWay

-----------------------------------------------------------------------------
(* The invariant of the control plane. *)
THEOREM Invariance == Spec => []IInv
PROOF
  <1>1. Init => IInv
    <2> SUFFICES ASSUME Init PROVE IInv
      OBVIOUS
    <2>1. /\ conns = <<>> /\ backlog = <<>> /\ server = "accepting" /\ cur = 0
          /\ monitor = "polling" /\ alerts = 0 /\ raised = 0 /\ lock = "free"
          /\ waiters = <<>> /\ served = <<>> /\ answer = [got |-> "nothing", fits |-> TRUE]
      BY DEF Init
    <2>2. TypeOK
      BY <2>1, BoundsAssumption DEF TypeOK, Got
    <2>3. LockNeverLeaks /\ NeverInterleave
      BY <2>1, Queues DEF LockNeverLeaks, LockInUse, QueuedForLock, NeverInterleave
    <2>4. QueuedUntouched /\ AtHand
      BY <2>1, Queues DEF QueuedUntouched, AtHand, IsInjective
    <2>5. EachServedRightly
      BY <2>1, Queues DEF EachServedRightly, IsInjective
    <2> QED BY <2>2, <2>3, <2>4, <2>5, ServedRightlyPer DEF IInv
  <1>2. IInv /\ [Next]_vars => IInv'
    <2> SUFFICES ASSUME IInv, [Next]_vars PROVE IInv'
      OBVIOUS
    <2>1. LoopsOK' /\ LockNeverLeaks' /\ NeverInterleave'
      BY LockStep
    <2>2. ConnInv
      BY DEF IInv, TypeOK, ConnInv, ConnsOK
    <2>3. ConnInv'
      BY <2>2, PeersStep, AcceptStep, EndStep, JudgeStep, OtherStep
      DEF Next, ServerStep, LoopStep
    <2> QED BY <2>1, <2>3 DEF IInv, TypeOK, LoopsOK, Queue, ConnInv, ConnsOK
  <1> QED BY <1>1, <1>2, PTL DEF Spec

(* The operator's requests and the autonomous loop's tasks never overlap:  *)
(* the orchestrator is used under the lock only.                           *)
THEOREM OneUserAtATime == Spec => []NeverInterleave
PROOF
  <1>1. IInv => NeverInterleave
    BY DEF IInv
  <1> QED BY <1>1, Invariance, PTL

(* What is served came from the operator's uid under the operator's        *)
(* signature, is served once on its connection, and its answer tells the   *)
(* truth about it.                                                         *)
THEOREM OnlyTheOperatorIsServed == Spec => []ServedRightly
PROOF
  <1>1. IInv => ServedRightly
    BY DEF IInv
  <1> QED BY <1>1, Invariance, PTL

(* The lock is held exactly while a loop works under it, and a loop that   *)
(* asks for it is in its queue: it is never lost on an error path.         *)
THEOREM LockIsNeverLost == Spec => []LockNeverLeaks
PROOF
  <1>1. IInv => LockNeverLeaks
    BY DEF IInv
  <1> QED BY <1>1, Invariance, PTL
=============================================================================
