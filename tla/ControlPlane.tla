------------------------------ MODULE ControlPlane ------------------------------
(***************************************************************************)
(* Boundary A: archangeld's control loop (main.rs, server.rs), the frames  *)
(* of archangel-ctl, the client in archangelctl, and the monitor loop that *)
(* shares the orchestrator with the control loop under one fair mutex.     *)
(* What a request does to the orchestrator is the module Orchestrator's;   *)
(* here it is served, which for a task or an approval takes a while.       *)
(***************************************************************************)
EXTENDS Integers, Sequences, SequencesExt, FiniteSets

CONSTANTS
  Frame,            \* frames peers send: [version, key, request, seq, nonce, form]
  Peer,             \* uids that may open the socket
  operator_uid, operator_pub,
  PROTOCOL_VERSION,
  MaxConn,          \* bound: connections
  MaxAlerts         \* bound: alerts raised

ASSUME OperatorAssumption == operator_uid \in Peer
ASSUME BoundsAssumption == MaxConn \in Nat /\ MaxAlerts \in Nat

VARIABLES
  conns,       \* the connections so far: the peer, what it sent, what it got
  backlog,     \* the listen queue
  server,      \* serve_ctl_loop: "accepting", "locking", "reading", "serving", "writing"
  cur,         \* the connection it is at
  answer,      \* the response it writes, and whether the socket takes what is left of it
  monitor,     \* run_monitor_loop: "polling", "locking", "serving"
  alerts,      \* alerts left of the last poll
  raised,      \* bounded counter: alerts raised
  lock, waiters,  \* the mutex: its holder, and the tasks queued for it
  served       \* history: the connections whose request was served, in order

loops == <<server, cur, answer, monitor, alerts, raised>>
mutex == <<lock, waiters>>
vars == <<conns, backlog, loops, mutex, served>>

Request == {"Ping", "RunTask", "Approve", "Reject", "ReloadPolicy"}
Reply == [Ping |-> "Pong", RunTask |-> "Task", Approve |-> "Task", Reject |-> "Task",
          ReloadPolicy |-> "PolicyReloaded"]
ASSUME RequestAssumption == \A f \in Frame : f.request \in Request

Init ==
  /\ conns = <<>> /\ backlog = <<>>
  /\ server = "accepting" /\ cur = 0 /\ answer = [got |-> "nothing", fits |-> TRUE]
  /\ monitor = "polling" /\ alerts = 0 /\ raised = 0
  /\ lock = "free" /\ waiters = <<>>
  /\ served = <<>>

-----------------------------------------------------------------------------
(* A peer: CtlClient::request connects, writes its one frame and waits for *)
(* the answer; it may stop half-way and may go away at any time.           *)
Connect(uid, frame) ==
  /\ Len(conns) < MaxConn
  /\ conns' = Append(conns, [uid |-> uid, frame |-> frame, sent |-> "nothing",
                             alive |-> TRUE, got |-> "nothing"])
  /\ backlog' = Append(backlog, Len(conns) + 1)
  /\ UNCHANGED <<loops, mutex, served>>
Send(n) ==
  /\ conns[n].alive /\ conns[n].sent # "whole"
  /\ \E sent \in {"part", "whole"} \ {conns[n].sent} : conns' = [conns EXCEPT ![n].sent = sent]
  /\ UNCHANGED <<backlog, loops, mutex, served>>
Leave(n) ==
  /\ conns[n].alive /\ conns[n].got = "nothing"
  /\ conns' = [conns EXCEPT ![n].alive = FALSE]
  /\ UNCHANGED <<backlog, loops, mutex, served>>
(* A peer reads of a long answer until the socket takes the rest of it.    *)
Receive ==
  /\ server = "writing" /\ conns[cur].alive /\ ~answer.fits
  /\ answer' = [answer EXCEPT !.fits = TRUE]
  /\ UNCHANGED <<conns, backlog, server, cur, monitor, alerts, raised, mutex, served>>

-----------------------------------------------------------------------------
(* The mutex is granted in the order it was asked for.                     *)
Lock(task) == waiters' = Append(waiters, task)
Granted(task) ==
  /\ lock = "free" /\ waiters # <<>> /\ Head(waiters) = task
  /\ lock' = task
  /\ waiters' = Tail(waiters)
Unlock == lock' = "free"

(* serve_ctl_loop: a peer that is not the operator is dropped.             *)
Accept ==
  /\ server = "accepting" /\ backlog # <<>>
  /\ backlog' = Tail(backlog)
  /\ IF conns[Head(backlog)].uid = operator_uid
     THEN /\ cur' = Head(backlog)
          /\ server' = "locking"
          /\ Lock("server")
          /\ UNCHANGED conns
     ELSE /\ conns' = [conns EXCEPT ![Head(backlog)].got = "closed"]
          /\ UNCHANGED <<server, cur, waiters>>
  /\ UNCHANGED <<answer, monitor, alerts, raised, lock, served>>

ServerLocked ==
  /\ server = "locking"
  /\ Granted("server")
  /\ server' = "reading"
  /\ UNCHANGED <<conns, backlog, cur, answer, monitor, alerts, raised, served>>

(* The end of serve_connection, with or without an answer to its peer: the *)
(* lock is released and the loop goes on.                                  *)
EndKeepingLock(got) ==
  /\ conns' = [conns EXCEPT ![cur].got = IF conns[cur].alive THEN got ELSE @]
  /\ server' = "accepting"
  /\ UNCHANGED <<backlog, cur, answer, monitor, alerts, raised, mutex>>
End(got) ==
  /\ conns' = [conns EXCEPT ![cur].got = IF conns[cur].alive THEN got ELSE @]
  /\ server' = "accepting"
  /\ Unlock
  /\ UNCHANGED <<backlog, cur, answer, monitor, alerts, raised, waiters>>

(* The response is written with the lock still held: at once if the socket *)
(* takes it, else as far and as long as the peer reads, without a timeout. *)
Write(got, fits) ==
  /\ server' = "writing"
  /\ answer' = [got |-> got, fits |-> fits]
  /\ UNCHANGED <<conns, backlog, cur, monitor, alerts, raised, mutex>>
Written ==
  /\ server = "writing"
  /\ answer.fits \/ ~conns[cur].alive
  /\ End(answer.got)
  /\ UNCHANGED served

(* A frame above the cap, or a peer gone before its frame was complete,    *)
(* ends the connection without an answer.                                  *)
ReadError ==
  /\ server = "reading"
  /\ \/ conns[cur].sent # "nothing" /\ conns[cur].frame.form = "oversized"
     \/ ~conns[cur].alive /\ conns[cur].sent # "whole"
  /\ End("closed")
  /\ UNCHANGED served

(* CtlReplayGuard::admit, on a guard made for this connection: it has seen *)
(* no sequence number and no nonce, and a connection carries one request.  *)
last_seq == -1        \* None
seen_nonces == {}
admit(body) == body.seq > last_seq /\ body.nonce \notin seen_nonces

(* SignedCtlEnvelope::open: version, then signature, only then the body.   *)
open(frame) == frame.version = PROTOCOL_VERSION /\ frame.key = operator_pub

(* handle_ctl_frame: what is malformed, does not open or is a replay gets  *)
(* an Error and is not served; ...                                         *)
Acceptable(frame) == frame.form = "ok" /\ open(frame) /\ admit(frame)
Ready == server = "reading" /\ conns[cur].sent = "whole" /\ conns[cur].frame.form # "oversized"
RejectServed ==
  /\ Ready /\ ~Acceptable(conns[cur].frame)
  /\ served' = Append(served, cur)
  /\ Write("Error", TRUE)
RejectFrame ==
  /\ Ready /\ ~Acceptable(conns[cur].frame)
  /\ Write("Error", TRUE)
  /\ UNCHANGED served

(* ... a ping, a rejection or a reload (which answers no) is done at once; *)
(* a task or an approval awaits the model or the executor with the lock    *)
(* held.                                                                   *)
Brief == {"Ping", "Reject", "ReloadPolicy"}
ServeBrief ==
  /\ Ready /\ Acceptable(conns[cur].frame) /\ conns[cur].frame.request \in Brief
  /\ served' = Append(served, cur)
  /\ Write(Reply[conns[cur].frame.request], TRUE)
ServeLong ==
  /\ Ready /\ Acceptable(conns[cur].frame) /\ conns[cur].frame.request \notin Brief
  /\ served' = Append(served, cur)
  /\ server' = "serving"
  /\ UNCHANGED <<conns, backlog, cur, answer, monitor, alerts, raised, mutex>>

(* Its answer may be larger than the socket takes at once, and than the    *)
(* frame the client is willing to read.                                    *)
FinishLong ==
  /\ server = "serving"
  /\ \E got \in {Reply[conns[cur].frame.request], "too large"}, fits \in BOOLEAN :
       Write(got, fits)
  /\ UNCHANGED served

-----------------------------------------------------------------------------
(* run_monitor_loop: a poll yields some alerts; for each the lock is taken *)
(* and run_task awaited.                                                   *)
Poll ==
  /\ monitor = "polling" /\ raised < MaxAlerts
  /\ \E n \in 1 .. MaxAlerts - raised : alerts' = n /\ raised' = raised + n
  /\ monitor' = "locking"
  /\ Lock("monitor")
  /\ UNCHANGED <<conns, backlog, server, cur, answer, lock, served>>
MonitorUnlocked ==
  /\ monitor = "locking"
  /\ waiters' = SelectSeq(waiters, LAMBDA t : t # "monitor")
  /\ monitor' = "serving"
  /\ UNCHANGED <<conns, backlog, server, cur, answer, alerts, raised, lock, served>>
MonitorLocked ==
  /\ monitor = "locking"
  /\ Granted("monitor")
  /\ monitor' = "serving"
  /\ UNCHANGED <<conns, backlog, server, cur, answer, alerts, raised, served>>
Assessed ==
  /\ monitor = "serving"
  /\ alerts' = alerts - 1
  /\ Unlock
  /\ IF alerts > 1 THEN monitor' = "locking" /\ Lock("monitor")
     ELSE monitor' = "polling" /\ UNCHANGED waiters
  /\ UNCHANGED <<conns, backlog, server, cur, answer, raised, served>>

Peers ==
  \/ \E uid \in Peer, frame \in Frame : Connect(uid, frame)
  \/ \E n \in DOMAIN conns : Send(n) \/ Leave(n)
  \/ Receive
LoopStep ==
  Accept \/ ServerLocked \/ ReadError \/ RejectFrame \/ ServeBrief \/ ServeLong \/ Written
ServerStep == LoopStep \/ FinishLong
MonitorStep == Poll \/ MonitorLocked \/ Assessed
Next == Peers \/ ServerStep \/ MonitorStep

Spec == Init /\ [][Next]_vars

(* The two loops never stop.  Nothing is assumed of the peers, which the   *)
(* daemon reads from and writes to without a timeout, and not that a task  *)
(* ends: it waits for an executor that may hang (module Archangel).        *)
FairSpec == Spec /\ WF_vars(LoopStep) /\ WF_vars(MonitorLocked)

-----------------------------------------------------------------------------
Got == {"nothing", "closed", "Error", "Pong", "Task", "PolicyReloaded", "too large"}
Conn == [uid : Peer, frame : Frame, sent : {"nothing", "part", "whole"}, alive : BOOLEAN,
         got : Got]
TypeOK ==
  /\ conns \in Seq(Conn)
  /\ backlog \in Seq(DOMAIN conns) /\ served \in Seq(DOMAIN conns)
  /\ server \in {"accepting", "locking", "reading", "serving", "writing"}
  /\ cur \in 0 .. Len(conns) /\ answer \in [got : Got, fits : BOOLEAN]
  /\ monitor \in {"polling", "locking", "serving"}
  /\ alerts \in 0 .. raised /\ raised \in 0 .. MaxAlerts
  /\ lock \in {"free", "server", "monitor"}
  /\ waiters \in {<<>>, <<"server">>, <<"monitor">>, <<"server", "monitor">>,
                  <<"monitor", "server">>}

(* Operator and autonomous actions never interleave: while the monitor's   *)
(* task is under way no operator request is read, served or answered, and  *)
(* the orchestrator is used only under the lock.                           *)
NeverInterleave ==
  /\ monitor = "serving" => lock = "monitor" /\ server \notin {"reading", "serving", "writing"}
  /\ server \in {"reading", "serving", "writing"} => lock = "server"

(* The daemon acts only for the operator: whatever was served came from    *)
(* the operator's uid under the operator's signature in this version.      *)
OnlyOperatorServed ==
  \A i \in DOMAIN served :
    LET c == conns[served[i]]
    IN  /\ c.uid = operator_uid
        /\ c.frame.version = PROTOCOL_VERSION /\ c.frame.key = operator_pub

(* An answer tells the operator the truth about his own request: served    *)
(* once on its connection and answered in kind, or an error and not served *)
(* at all; one that was served is answered unless its peer left.  (The     *)
(* same signed frame is served again if it comes on another connection:    *)
(* the replay guard is the connection's.)                                  *)
AnswersMatch ==
  /\ IsInjective(served)
  /\ \A n \in DOMAIN conns :
       LET c == conns[n]
       IN  /\ c.got \in {"Pong", "Task", "PolicyReloaded"} =>
                n \in Range(served) /\ c.got = Reply[c.frame.request]
           /\ c.got \in {"Error", "closed"} => n \notin Range(served)
           /\ n \in Range(served) /\ c.alive /\ c.got = "nothing" =>
                server \in {"serving", "writing"} /\ cur = n

(* The operator, and nobody else, gets what he asked for (server.rs).      *)
ServedRightly == OnlyOperatorServed /\ AnswersMatch

(* Two things stop both loops for ever.  A peer, admitted by its uid, may  *)
(* stall while the server has the lock: it neither completes its frame nor *)
(* leaves, or it neither reads a long answer nor leaves.                   *)
PeerStalls ==
  \/ <>[](server = "reading" /\ conns[cur].alive /\ conns[cur].sent # "whole")
  \/ <>[](server = "writing" /\ conns[cur].alive /\ ~answer.fits)
(* Or a task never ends, in the executor it waits for.                     *)
TaskHangs == <>[](server = "serving") \/ <>[](monitor = "serving")
(* Every connection comes to an end.                                       *)
EveryConnectionEnds ==
  \A n \in 1 .. MaxConn :
    (n \in DOMAIN conns) ~>
      (n \in DOMAIN conns /\ (conns[n].got # "nothing" \/ ~conns[n].alive))
(* What the monitor read is assessed.                                      *)
AlertsAssessed == (alerts > 0) ~> (alerts = 0)
(* Neither loop starves the other: short of a peer that stalls or a task   *)
(* that hangs, the lock held across a slow task or a slow peer is passed   *)
(* on (main.rs).                                                           *)
LoopsGoOn == PeerStalls \/ TaskHangs \/ (EveryConnectionEnds /\ AlertsAssessed)

-----------------------------------------------------------------------------
(* What makes these properties inductive.  A connection is in one place:   *)
(* in the listen queue, at hand, or ended; only the operator's gets to hand,  *)
(* and it is among the served exactly while its request is under way or    *)
(* about to be answered in kind.                                           *)
UnderWay == server = "serving" \/ (server = "writing" /\ answer.got # "Error")
QueuedUntouched ==
  /\ IsInjective(backlog)
  /\ \A n \in Range(backlog) :
       /\ conns[n].got = "nothing" /\ n \notin Range(served)
       /\ server # "accepting" => n # cur
AtHand ==
  server # "accepting" =>
    /\ cur \in DOMAIN conns
    /\ conns[cur].uid = operator_uid /\ conns[cur].got = "nothing"
    /\ cur \in Range(served) <=> UnderWay
    /\ server = "writing" =>
         answer.got \in {"Error", "too large", Reply[conns[cur].frame.request]}

(* The lock is held by a loop that works under it, a loop that is locking  *)
(* is queued for it, once, and so nobody waits for a lock nobody gives up. *)
LockInUse ==
  /\ lock = "server" <=> server \in {"reading", "serving", "writing"}
  /\ lock = "monitor" <=> monitor = "serving"
QueuedForLock ==
  /\ server = "locking" <=> "server" \in Range(waiters)
  /\ monitor = "locking" <=> "monitor" \in Range(waiters)
  /\ monitor = "polling" <=> alerts = 0
LockNeverLeaks == LockInUse /\ QueuedForLock

IInv ==
  /\ TypeOK /\ LockNeverLeaks /\ NeverInterleave
  /\ QueuedUntouched /\ AtHand /\ ServedRightly

=============================================================================
