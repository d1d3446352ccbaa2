------------------------------- MODULE Archangel -------------------------------
(***************************************************************************)
(* The whole action path: the daemon of Orchestrator.tla and the executor  *)
(* of Executor.tla, joined by the executor's socket.  The two processes    *)
(* crash and restart on their own (systemd: Wants=, Restart=on-failure).   *)
(* The wire is the listen queue of the socket: a dead daemon's frame may   *)
(* still be in it, and it disappears with the executor's process.          *)
(***************************************************************************)
EXTENDS Orchestrator

CONSTANTS
  NONCE_WINDOW, MINUTE, HOUR, Limit,      \* see Executor
  MaxBoot                                 \* bound: executor incarnations

VARIABLES
  last_seq, seen_nonces, nonce_order, hits, session_key, mode_ceiling, conn, job,
  response, points, boot, accepted, runs, \* see Executor
  wire          \* connections not yet answered, each with its one frame

Execd == INSTANCE Executor WITH Session <- 1 .. MaxKey, Nonce <- 1 .. MaxTask,
                                MaxSeq <- MaxTask, MaxRuns <- MaxTask, Frame <- {}

(* The daemon knows the executor's stages by the executor's own names. *)
ASSUME SharedStages == ExecdStage = Execd!RejectStage

daemon == <<session, pc, current, tasks, history>>
executor == <<last_seq, seen_nonces, nonce_order, hits, session_key, mode_ceiling, conn,
              job, response, points, boot, accepted, runs>>
SystemVars == <<vars, executor, wire>>

SystemInit ==
  /\ Init
  /\ Execd!Init
  /\ wire = <<>>

(* The daemon writes its frame; nobody else connects. *)
DaemonStep ==
  /\ Daemon
  /\ wire' = wire \o SubSeq(sent', Len(sent) + 1, Len(sent'))
  /\ UNCHANGED executor

(* The served connection is answered and closed.  The answer reaches the   *)
(* daemon unless that has died since, or the response is over the frame    *)
(* cap its reader enforces.                                                *)
Served(f) == pc = "waiting" /\ current.frame = f
Answer(outcome) ==
  /\ wire' = Tail(wire)
  /\ reply' = IF Served(Head(wire)) THEN outcome ELSE reply

ExecdAccept ==
  /\ wire # <<>>
  /\ Execd!Accept
  /\ UNCHANGED <<daemon, reply, wire>>

(* A gate that refuses answers; one that lets the frame pass says nothing. *)
AnswerIfRefused ==
  IF conn' = "idle" THEN Answer([outcome |-> response', snapshot |-> FALSE])
                    ELSE UNCHANGED <<wire, reply>>
ExecdHandle ==
  /\ wire # <<>>
  /\ Execd!Handle(Head(wire))
  /\ AnswerIfRefused
  /\ UNCHANGED daemon
ExecdTakeSnapshot == Execd!TakeSnapshot /\ AnswerIfRefused /\ UNCHANGED daemon
ExecdExecute == Execd!Execute /\ AnswerIfRefused /\ UNCHANGED daemon

Lost == [outcome |-> "lost", snapshot |-> FALSE]
ExecdFinish ==
  /\ Execd!Finish
  /\ \E answer \in { Lost, [outcome |-> "Completed",
                            snapshot |-> runs[Len(runs)].snapshot # Execd!NoSnapshot] } :
       Answer(answer)
  /\ UNCHANGED daemon

(* The listen queue dies with the process: it binds its own socket.        *)
ExecdRestartKeepingQueue ==
  /\ Execd!Restart
  /\ UNCHANGED <<daemon, reply, wire>>
ExecdRestart ==
  /\ Execd!Restart
  /\ wire' = <<>>
  /\ reply' = IF pc = "waiting" /\ reply = NoReply THEN Lost ELSE reply
  /\ UNCHANGED daemon

OperatorStep == Operator /\ UNCHANGED <<executor, wire>>

SystemNext ==
  \/ DaemonStep
  \/ ExecdAccept
  \/ ExecdHandle
  \/ ExecdTakeSnapshot
  \/ ExecdExecute
  \/ ExecdFinish
  \/ ExecdRestart
  \/ OperatorStep

SystemSpec == SystemInit /\ [][SystemNext]_SystemVars

(* Both processes keep running their loops: the daemon's await of the      *)
(* backend ends (its HTTP client has a timeout), and the executor goes on  *)
(* accepting and judging.  That the btrfs command or the script it waits   *)
(* for ever ends is not assumed: neither wait has a deadline that holds    *)
(* (see Runner).  One step of its serial loop is enabled at a time.        *)
Fairness ==
  /\ WF_SystemVars(pc \in {"thinking", "sending", "waiting"} /\ DaemonStep /\ pc' # "down")
  /\ WF_SystemVars(ExecdAccept \/ ExecdHandle \/ ExecdExecute)
FairSpec == SystemSpec /\ Fairness

-----------------------------------------------------------------------------

Ran(a) == {i \in DOMAIN runs : runs[i].frame.nonce = a}

(* End to end no action runs twice, although each process restarts on its  *)
(* own and the executor's replay guard restarts empty.                     *)
NoActionRunsTwice ==
  \A i, j \in DOMAIN runs : runs[i].frame.nonce = runs[j].frame.nonce => i = j

(* The audit log never claims what did not happen: a completed action ran, *)
(* a recorded recovery point was taken for that action, and an operator    *)
(* told Executed can find both entries in the log.                         *)
AuditIsTruthful ==
  /\ \A i \in DOMAIN audit :
       audit[i].event = "ExecCompleted" => Ran(audit[i].action) # {}
  /\ \A i \in DOMAIN audit : audit[i].event = "SnapshotTaken" =>
       \E k \in Ran(audit[i].action) : runs[k].snapshot # Execd!NoSnapshot
  /\ \A t \in told : t.outcome = "Executed" =>
       \A k \in Ran(t.action) :
         /\ Logged("ExecCompleted", runs[k].frame) # {}
         /\ runs[k].bundle.persistent => Logged("SnapshotTaken", runs[k].frame) # {}

(* The operator's word holds on the host: what runs was requested in the   *)
(* log first, and what the operator rejected, or a gate refused, does not  *)
(* run, whatever is still in flight when a process dies.                   *)
RunsAreAudited ==
  /\ \A k \in DOMAIN runs : Logged("ExecRequested", runs[k].frame) # {}
  /\ \A t \in told : t.outcome \in GateRefusal \union ExecdStage => Ran(t.action) = {}

(* Log and host tell the same story, in both directions.                   *)
AuditMatchesHost == AuditIsTruthful /\ RunsAreAudited

(* The seq is signed into a frame when its action is proposed and checked  *)
(* when it is approved.  An action the operator approved is lost as a      *)
(* replay in one case only: a later action of the same session was sent    *)
(* before it.  No crash, restart or failed send costs another approval.    *)
ReplayOnlyIfOvertaken ==
  \A t \in told : t.outcome = "Replay" =>
    \E i, j \in DOMAIN sent :
      /\ i < j /\ sent[j].nonce = t.action
      /\ sent[i].session = sent[j].session /\ sent[i].seq > sent[j].seq

(* The system implements ActionLifecycle: an action is requested while the *)
(* daemon dispatches it or its frame is in the socket, and everything that *)
(* takes it out of there without a run closes it for good.                 *)
InFlight ==
  {f.nonce : f \in {wire[i] : i \in DOMAIN wire}}
    \union (IF pc = "sending" \/ (pc = "waiting" /\ reply = NoReply)
             THEN {current.action} ELSE {})
LifecyclePhase(a) ==
  CASE Ran(a) # {} -> "ran"
    [] Ran(a) = {} /\ a \in InFlight -> "requested"
    [] a \in {p.action : p \in pending} -> "pending"
    [] a > tasks \/ (a = tasks /\ pc = "thinking") -> "new"
    [] OTHER -> "closed"
LifecyclePhases == [a \in 1 .. MaxTask |-> LifecyclePhase(a)]
Lifecycle == INSTANCE ActionLifecycle WITH Action <- 1 .. MaxTask, phase <- LifecyclePhases
ImplementsLifecycle == Lifecycle!Spec

(* Every task is answered (or its daemon dies): nothing waits for ever,    *)
(* unless the executor itself does, for a btrfs command or for a run that  *)
(* never ends.  The daemon's read of the response has no timeout           *)
(* (transport.rs), so nothing else would end its wait.                     *)
ExecdHangs == <>[](conn \in {"snapshot", "running"})
TaskAnswered ==
  ExecdHangs \/ (pc \in {"thinking", "sending", "waiting"} ~> pc \in {"idle", "down"})

-----------------------------------------------------------------------------
(* What makes these properties inductive.  The socket hands the frames to  *)
(* the executor in the order they were sent: the wire is the rest of what  *)
(* was sent, and everything the executor knows of a frame (a run, its      *)
(* replay guard) it knows of one it has been handed.                       *)
Consumed == Len(sent) - Len(wire)
Started == Consumed + (IF conn = "running" THEN 1 ELSE 0)
Handed == Consumed + (IF conn \in {"snapshot", "sandbox", "running"} THEN 1 ELSE 0)
WireIsRest ==
  /\ wire \in Seq(Frame) /\ Len(wire) <= Len(sent)
  /\ \A k \in 1 .. Len(wire) : wire[k] = sent[Consumed + k]
RunIsHead ==
  conn = "running" => wire # <<>> /\ runs # <<>> /\ runs[Len(runs)].frame = Head(wire)
JobIsHead == Execd!Busy => wire # <<>> /\ job.frame = Head(wire)
RunsWereHanded == \A k \in DOMAIN runs : \E i \in 1 .. Started : sent[i] = runs[k].frame
GuardWasHanded ==
  /\ \A s \in 1 .. MaxKey : last_seq[s] # -1 =>
       \E i \in 1 .. Handed : sent[i].session = s /\ sent[i].seq = last_seq[s]
  /\ \A n \in seen_nonces : \E i \in 1 .. Handed : sent[i].nonce = n
SnapshotWhenPersistent ==
  /\ \A k \in DOMAIN runs : runs[k].bundle.persistent => runs[k].snapshot # Execd!NoSnapshot
  /\ conn = "sandbox" /\ job.bundle.persistent => job.snapshot # Execd!NoSnapshot

(* An answer is true of the action it is about, and it is the last word:   *)
(* the executor is done with that action's frame.                          *)
DoneWith(a) == \E i \in 1 .. Consumed : sent[i].nonce = a
Overtaken(a) ==
  \E i, j \in DOMAIN sent :
    /\ i < j /\ sent[j].nonce = a
    /\ sent[i].session = sent[j].session /\ sent[i].seq > sent[j].seq
ReplyIsTrue ==
  /\ pc # "waiting" => reply = NoReply
  /\ pc = "waiting" /\ reply # NoReply =>
       /\ DoneWith(current.action)
       /\ reply.outcome \in ExecdStage => Ran(current.action) = {}
       /\ reply.outcome = "Replay" => Overtaken(current.action)
       /\ reply.outcome = "Completed" =>
            \E k \in DOMAIN runs : /\ runs[k].frame = current.frame
                                   /\ reply.snapshot = (runs[k].snapshot # Execd!NoSnapshot)
ToldIsDone == \A t \in told : t.outcome \in ExecdStage \union {"Executed"} => DoneWith(t.action)

HostRun == [frame : Frame, bundle : Bundle, at : 0 .. MaxTime, boot : Nat,
            ceiling : HostMode, accepted : 0 .. MaxKey, snapshot : Nat]
HostJob == [frame : Frame, bundle : Bundle, at : 0 .. MaxTime, snapshot : Nat]
HostPoint == [frame : Frame, boot : Nat, before : Nat]
HostTypeOK ==
  /\ last_seq \in [1 .. MaxKey -> Int]
  /\ conn \in {"idle", "open", "snapshot", "sandbox", "running"}
  /\ Execd!Busy => job \in HostJob
  /\ mode_ceiling \in HostMode /\ accepted \in 0 .. MaxKey
  /\ points \in Seq(HostPoint) /\ boot \in Nat
  /\ runs \in Seq(HostRun)

SystemInv ==
  /\ IInv /\ SeqInv /\ HostTypeOK
  /\ WireIsRest /\ RunIsHead /\ JobIsHead /\ RunsWereHanded /\ GuardWasHanded /\ SnapshotWhenPersistent
  /\ ReplyIsTrue /\ ToldIsDone
  /\ NoActionRunsTwice /\ AuditMatchesHost /\ ReplayOnlyIfOvertaken
=============================================================================
