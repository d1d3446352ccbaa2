------------------------------ MODULE Orchestrator ------------------------------
(***************************************************************************)
(* archangeld, the daemon: the operator session of orchestrator.rs and     *)
(* session.rs behind the control plane of server.rs.  One mutex serialises *)
(* the operator's requests and the monitor's, so there is one task at a    *)
(* time; it awaits the model and the executor.  The executor is anything   *)
(* that may answer here; Archangel.tla puts the real one in its place.     *)
(***************************************************************************)
EXTENDS Policy, Integers, Sequences, FiniteSets

CONSTANTS
  Bundle,           \* the bundles an operator may install under a name
  Args,             \* argument maps the model may propose
  HostMode,         \* modes.default values the operator may configure
  APPROVAL_TTL,     \* lifetime of a pending approval, in ticks
  MAX_PENDING,      \* simultaneously pending approvals
  ExecdStage,       \* stages the executor may refuse at
  MaxTime,          \* bound: clock
  MaxKey,           \* bound: daemon incarnations
  MaxTask           \* bound: tasks run, hence actions proposed

ASSUME ApprovalAssumption == APPROVAL_TTL \in Nat /\ MAX_PENDING \in Nat
ASSUME ModeAssumption == HostMode \subseteq OperationMode
ASSUME BoundAssumption == MaxTime \in Nat /\ MaxKey \in Nat /\ MaxTask \in Nat

VARIABLES
  now,          \* the clock
  published,    \* the session-key file: the latest incarnation's key, 0 before
  bundle_dir,   \* [Exec -> Bundle], the signed bundles on disk
  mode,         \* Session.mode
  seq,          \* Session.seq
  pending,      \* the HashMap of pending approvals, as its set of entries
  pc,           \* "down", "idle", "thinking", "sending", "waiting"
  current,      \* the action being dispatched
  reply,        \* what the executor's connection has delivered
  tasks,        \* tasks run so far; also the id of the latest action
  audit,        \* history: the audit entries of all incarnations
  sent,         \* history: the frames written to the executor
  told          \* history: which outcome the operator was told of an action

environment == <<now, published, bundle_dir>>
session == <<mode, seq, pending>>
history == <<audit, sent, told>>
vars == <<environment, session, pc, current, reply, tasks, history>>

NoAction == 0
NoReply == [outcome |-> "none", snapshot |-> FALSE]
Reply == {NoReply, [outcome |-> "lost", snapshot |-> FALSE]}
           \union [outcome : {"Completed"}, snapshot : BOOLEAN]
           \union [outcome : ExecdStage, snapshot : {FALSE}]

Init ==
  /\ now = 0
  /\ published = 0
  /\ bundle_dir \in [Exec -> Bundle]
  /\ mode \in HostMode
  /\ seq = 0
  /\ pending = {}
  /\ pc = "down"
  /\ current = NoAction
  /\ reply = NoReply
  /\ tasks = 0
  /\ audit = <<>>
  /\ sent = <<>>
  /\ told = {}

-----------------------------------------------------------------------------
(* The audit log.  Every `append(..)?` may fail, which ends the handler    *)
(* with an error: of the entries a handler means to write, the first n are *)
(* written.  Handlers do not await between their appends.                  *)
Entry(event, action) ==
  [event |-> event, session |-> published, action |-> action, at |-> now]
AppendBuffered(entries, n) ==
  \E durable \in 0 .. n : audit' = audit \o SubSeq(entries, 1, durable)
AppendEntries(entries, n) == audit' = audit \o SubSeq(entries, 1, n)

Tell(action, outcome) == told' = told \union {[action |-> action, outcome |-> outcome]}

(* run_task, up to the await of backend.complete. *)
RunTask ==
  /\ pc = "idle"
  /\ tasks < MaxTask
  /\ tasks' = tasks + 1
  /\ \E n \in 0 .. 1 :
       /\ AppendEntries(<<Entry("LlmRequest", NoAction)>>, n)
       /\ pc' = IF n = 1 THEN "thinking" ELSE "idle"
  /\ UNCHANGED <<environment, session, current, reply, sent, told>>

(* The backend fails or times out, or it answers and no action comes of    *)
(* it: a question, a refusal, output that violates the contract or leaks   *)
(* the canary.  The last two are noted in the log.                         *)
NoActionReply ==
  /\ pc = "thinking"
  /\ \E entries \in { <<>>,
                      <<Entry("LlmResponse", NoAction)>>,
                      <<Entry("LlmResponse", NoAction), Entry("Note", NoAction)>>,
                      <<Entry("LlmResponse", NoAction), Entry("SessionEnded", NoAction)>> } :
       \E n \in 0 .. Len(entries) : AppendEntries(entries, n)
  /\ pc' = "idle"
  /\ UNCHANGED <<environment, session, current, reply, tasks, sent, told>>

(* invoke on a bundle that does not verify or arguments it does not take.  *)
DenyInvoke(exec, args) ==
  LET b == bundle_dir[exec]
      entries == <<Entry("LlmResponse", NoAction), Entry("Deny", tasks)>>
  IN
  /\ pc = "thinking"
  /\ ~b.signed \/ args \notin b.args
  /\ \E n \in 0 .. 2 :
       /\ AppendEntries(entries, n)
       /\ Tell(tasks, IF n = 2 THEN "bundle" ELSE "daemon")
  /\ pc' = "idle"
  /\ UNCHANGED <<environment, session, current, reply, tasks, sent>>

(* Session::sign_exec_request: the nonce is fresh randomness, named here   *)
(* by the action; the session is named by its key.                         *)
sign_exec_request_stale_seq(exec, args) ==
  [key |-> published, session |-> published, seq |-> IF seq = 0 THEN 1 ELSE seq,
   nonce |-> tasks, exec |-> exec, args |-> args, mode |-> mode, profile |-> "default"]
sign_exec_request(exec, args) ==
  [key |-> published, session |-> published, seq |-> seq + 1, nonce |-> tasks,
   exec |-> exec, args |-> args, mode |-> mode, profile |-> "default"]

action_digest(exec, args, b) == [exec |-> exec, args |-> args, payload |-> b.payload]

OtherDigest == [exec |-> "other", args |-> "other", payload |-> "other"]

NewPending(exec, args, b) ==
  [action |-> tasks, frame |-> sign_exec_request(exec, args),
   digest |-> action_digest(exec, args, b),
   two_person |-> requires_two_person_rule(b), created |-> now]

prune_pending_keeps_all == pending
prune_pending == {p \in pending : p.created >= now - APPROVAL_TTL}

TooManyPendingOffByOne == Cardinality(prune_pending) > MAX_PENDING
TooManyPending == Cardinality(prune_pending) >= MAX_PENDING

(* approve takes the entry out before it looks at it: single use. *)
TakenAfterDispatch(p) == prune_pending
Taken(p) == prune_pending \ {p}

(* invoke on a verified bundle: decide, log the decision, sign, and then   *)
(* dispatch (whose first append is the last entry here), stash or deny.    *)
Invoke(exec, args) ==
  LET b == bundle_dir[exec]
      decision == evaluate("default", mode, exec, b)
      logged == IF decision = "NotAllowed" THEN "Deny" ELSE decision
      entries == <<Entry("LlmResponse", NoAction), Entry(logged, tasks)>>
                   \o (IF decision = "Allow" THEN <<Entry("ExecRequested", tasks)>> ELSE <<>>)
      action == NewPending(exec, args, b)
  IN
  /\ pc = "thinking"
  /\ b.signed /\ args \in b.args
  /\ \E n \in 0 .. Len(entries) :
       /\ AppendEntries(entries, n)
       /\ seq' = IF n >= 2 THEN seq + 1 ELSE seq
       /\ \/ /\ n < Len(entries)
             /\ pc' = "idle"
             /\ Tell(tasks, "daemon")
             /\ UNCHANGED <<pending, current>>
          \/ /\ n = Len(entries)
             /\ decision = "Allow"
             /\ pc' = "sending"
             /\ current' = action
             /\ UNCHANGED <<pending, told>>
          \/ /\ n = Len(entries)
             /\ decision = "RequireApproval"
             /\ TooManyPending
             /\ pc' = "idle"
             /\ pending' = prune_pending
             /\ Tell(tasks, "approval")
             /\ UNCHANGED current
          \/ /\ n = Len(entries)
             /\ decision = "RequireApproval"
             /\ ~TooManyPending
             /\ pc' = "idle"
             /\ pending' = prune_pending \union {action}
             /\ UNCHANGED <<current, told>>
          \/ /\ n = Len(entries)
             /\ decision \in {"Deny", "NotAllowed"}
             /\ pc' = "idle"
             /\ Tell(tasks, "policy")
             /\ UNCHANGED <<pending, current>>
  /\ UNCHANGED <<environment, mode, reply, tasks, sent>>

-----------------------------------------------------------------------------
(* approve.  Whatever comes of it the pending entry is gone.               *)
ApproveUnknown(id) ==
  /\ pc = "idle"
  /\ \A p \in prune_pending : p.action # id
  /\ pending' = prune_pending
  /\ UNCHANGED <<environment, mode, seq, pc, current, reply, tasks, history>>

ApproveRefused(p, digest) ==
  /\ pc = "idle"
  /\ p \in prune_pending
  /\ pending' = Taken(p)
  /\ \/ /\ p.digest # digest
        /\ Tell(p.action, "approval")
        /\ UNCHANGED audit
     \/ /\ p.digest = digest
        /\ p.two_person
        /\ \E n \in 0 .. 1 :
             /\ AppendEntries(<<Entry("Note", NoAction)>>, n)
             /\ Tell(p.action, IF n = 1 THEN "two-person" ELSE "daemon")
  /\ UNCHANGED <<environment, mode, seq, pc, current, reply, tasks, sent>>

Approve(p, digest) ==
  /\ pc = "idle"
  /\ p \in prune_pending
  /\ p.digest = digest
  /\ ~p.two_person
  /\ pending' = Taken(p)
  /\ \E n \in 0 .. 2 :
       /\ AppendEntries(<<Entry("ApprovalGranted", p.action), Entry("ExecRequested", p.action)>>, n)
       /\ \/ /\ n = 2
             /\ pc' = "sending"
             /\ current' = p
             /\ UNCHANGED told
          \/ /\ n < 2
             /\ Tell(p.action, "daemon")
             /\ UNCHANGED <<pc, current>>
  /\ UNCHANGED <<environment, mode, seq, reply, tasks, sent>>

(* reject takes the entry out, expired or not. *)
RejectLeavesEntry(p) ==
  /\ pc = "idle"
  /\ p \in pending
  /\ Tell(p.action, "rejected")
  /\ UNCHANGED <<environment, session, pc, current, reply, tasks, audit, sent>>
Reject(p) ==
  /\ pc = "idle"
  /\ p \in pending
  /\ pending' = pending \ {p}
  /\ Tell(p.action, "rejected")
  /\ UNCHANGED <<environment, mode, seq, pc, current, reply, tasks, audit, sent>>

(* SocketExecTransport::send, on a connection of its own and once: connect *)
(* or the write fails, or the frame is in the executor's socket.           *)
SendFails ==
  /\ pc = "sending"
  /\ pc' = "idle"
  /\ current' = NoAction
  /\ Tell(current.action, "daemon")
  /\ UNCHANGED <<environment, session, reply, tasks, audit, sent>>
Send ==
  /\ pc = "sending"
  /\ pc' = "waiting"
  /\ sent' = Append(sent, current.frame)
  /\ UNCHANGED <<environment, session, current, reply, tasks, audit, told>>

(* The read returns.  "lost" stands for every transport error, a response  *)
(* over MAX_FRAME_LEN included; record_outcome logs anything else.         *)
ArrivedWhole == reply.outcome \notin {"none", "lost"}
Arrived == reply # NoReply

OutcomeEntriesNoSnapshot(a) ==
  CASE reply.outcome \in ExecdStage -> <<Entry("Note", NoAction)>>
    [] reply.outcome = "lost" -> <<>>
    [] reply.outcome = "Completed" -> <<Entry("ExecCompleted", a)>>
OutcomeEntries(a) ==
  CASE reply.outcome \in ExecdStage -> <<Entry("Note", NoAction)>>
    [] reply.outcome = "lost" -> <<>>
    [] reply.outcome = "Completed" ->
         (IF reply.snapshot THEN <<Entry("SnapshotTaken", a)>> ELSE <<>>)
           \o <<Entry("ExecCompleted", a)>>

Receive ==
  /\ pc = "waiting"
  /\ Arrived
  /\ \E n \in 0 .. Len(OutcomeEntries(current.action)) :
       LET complete == n = Len(OutcomeEntries(current.action)) /\ reply.outcome # "lost"
       IN  /\ AppendEntries(OutcomeEntries(current.action), n)
           /\ Tell(current.action, IF ~complete THEN "daemon"
                                   ELSE IF reply.outcome = "Completed" THEN "Executed"
                                   ELSE reply.outcome)
  /\ pc' = "idle"
  /\ current' = NoAction
  /\ reply' = NoReply
  /\ UNCHANGED <<environment, session, tasks, sent>>

(* The process dies; what it kept in memory is gone.  Started again it     *)
(* rotates the log, opens a new session, records it and only then          *)
(* publishes its key; without the record it exits.                         *)
Crash ==
  /\ pc # "down"
  /\ pc' = "down"
  /\ pending' = {}
  /\ seq' = 0
  /\ current' = NoAction
  /\ reply' = NoReply
  /\ UNCHANGED <<environment, mode, tasks, history>>
Start ==
  /\ pc = "down"
  /\ published < MaxKey
  /\ pc' = "idle"
  /\ mode' \in HostMode
  /\ published' = published + 1
  /\ audit' = Append(audit, [Entry("SessionStarted", NoAction) EXCEPT !.session = published + 1])
  /\ UNCHANGED <<now, bundle_dir, seq, pending, current, reply, tasks, sent, told>>

(* An operator installs a bundle; time passes. *)
Install(exec, b) ==
  /\ bundle_dir' = [bundle_dir EXCEPT ![exec] = b]
  /\ UNCHANGED <<now, published, session, pc, current, reply, tasks, history>>
Tick ==
  /\ now < MaxTime
  /\ now' = now + 1
  /\ UNCHANGED <<published, bundle_dir, session, pc, current, reply, tasks, history>>

Daemon ==
  \/ RunTask
  \/ NoActionReply
  \/ \E exec \in Exec, args \in Args : DenyInvoke(exec, args) \/ Invoke(exec, args)
  \/ \E id \in 1 .. MaxTask : ApproveUnknown(id)
  \/ \E p \in pending, digest \in {q.digest : q \in pending} \union {OtherDigest} :
       ApproveRefused(p, digest) \/ Approve(p, digest)
  \/ \E p \in pending : Reject(p)
  \/ SendFails
  \/ Send
  \/ Receive
  \/ Crash
  \/ Start
Operator == Tick \/ \E exec \in Exec, b \in Bundle : Install(exec, b)

(* An executor of which nothing is assumed. *)
ExecdAnswers ==
  /\ pc = "waiting"
  /\ reply = NoReply
  /\ reply' \in Reply \ {NoReply}
  /\ UNCHANGED <<environment, session, pc, current, tasks, history>>

Next == Daemon \/ Operator \/ ExecdAnswers
Spec == Init /\ [][Next]_vars

-----------------------------------------------------------------------------
Action == 1 .. MaxTask
Frame == [key : 1 .. MaxKey, session : 1 .. MaxKey, seq : Nat, nonce : Action,
          exec : Exec, args : Args, mode : OperationMode, profile : {"default"}]
Event == {"SessionStarted", "LlmRequest", "LlmResponse", "SessionEnded", "Note", "Allow",
          "RequireApproval", "Deny", "ApprovalGranted", "ExecRequested", "SnapshotTaken",
          "ExecCompleted"}
AuditEntry == [event : Event, session : 0 .. MaxKey, action : 0 .. MaxTask,
               at : 0 .. MaxTime]
GateRefusal == {"bundle", "policy", "approval", "two-person", "rejected"}

(* Shape of the state; at most MAX_PENDING approvals wait (anti-DoS cap).  *)
TypeOK ==
  /\ now \in 0 .. MaxTime /\ published \in 0 .. MaxKey
  /\ bundle_dir \in [Exec -> Bundle]
  /\ mode \in HostMode /\ seq \in Nat /\ tasks \in 0 .. MaxTask
  /\ pc \in {"down", "idle", "thinking", "sending", "waiting"}
  /\ \A p \in pending : p.action \in Action /\ p.frame \in Frame /\ p.created \in 0 .. now
  /\ Cardinality(pending) <= MAX_PENDING
  /\ pc \in {"sending", "waiting"} => current.action \in Action /\ current.frame \in Frame
  /\ reply \in Reply
  /\ audit \in Seq(AuditEntry)
  /\ sent \in Seq(Frame)

(* At most one action per task, and no action is ever handed to the        *)
(* executor twice: not by approving twice, not after an error, not by a    *)
(* later incarnation of the daemon.                                        *)
SentOnce ==
  \A i, j \in DOMAIN sent : sent[i].nonce = sent[j].nonce => i = j

(* No log, no execution: a frame is on the wire only after its session's   *)
(* log durably holds its ExecRequested entry, although any append may fail *)
(* and the process may die anywhere.                                       *)
Logged(event, f) ==
  {i \in DOMAIN audit : /\ audit[i].event = event
                        /\ audit[i].action = f.nonce
                        /\ audit[i].session = f.session}
SentAreAudited ==
  \A k \in DOMAIN sent : Logged("ExecRequested", sent[k]) # {}

(* Every frame sent was licensed: policy allowed it outright, or it waited *)
(* for approval and the operator approved it no later than APPROVAL_TTL    *)
(* after it was proposed.                                                  *)
Licensed(f) ==
  \/ Logged("Allow", f) # {}
  \/ \E i \in Logged("RequireApproval", f), j \in Logged("ApprovalGranted", f) :
       i < j /\ audit[j].at - audit[i].at <= APPROVAL_TTL
SentAreLicensed == \A k \in DOMAIN sent : Licensed(sent[k])

(* What a gate, the pending cap or the operator refused stays refused: the *)
(* frame exists, signed and valid, but never leaves the daemon.            *)
RefusedNeverSent ==
  \A t \in told : t.outcome \in GateRefusal => \A k \in DOMAIN sent : sent[k].nonce # t.action

-----------------------------------------------------------------------------
(* The stages of the executor are names of their own. *)
ASSUME StageAssumption ==
  ExecdStage \intersect ({"none", "lost", "Completed"} \union GateRefusal) = {}

(* What makes these properties inductive.  An action is undecided as long  *)
(* as its frame has not been sent and no refusal of it has been told: every*)
(* action the daemon still holds is, in whichever of its three places it   *)
(* is held, and it is held in one place only.                              *)
Undecided(a) ==
  /\ \A k \in DOMAIN sent : sent[k].nonce # a
  /\ \A t \in told : t.outcome \in GateRefusal => t.action # a
HeldAreUndecided ==
  /\ pc = "thinking" => tasks \in Action /\ Undecided(tasks)
  /\ \A p \in pending : Undecided(p.action)
  /\ pc = "sending" => Undecided(current.action)
HeldOnce ==
  /\ \A p, q \in pending : p.action = q.action => p = q
  /\ pc = "thinking" => \A p \in pending : p.action # tasks
  /\ pc \in {"sending", "waiting"} => \A p \in pending : p.action # current.action
DecidedAreOld ==
  /\ \A k \in DOMAIN sent : sent[k].nonce <= tasks
  /\ \A t \in told : t.action <= tasks

(* A held frame is this incarnation's, it carries its action's nonce, and  *)
(* the log holds what its gate decided.                                    *)
SignedHere(p) ==
  /\ p.frame.nonce = p.action
  /\ p.frame.session = published
  /\ p.action <= tasks
PendingSound ==
  /\ IsFiniteSet(pending)
  /\ pc = "down" => pending = {}
  /\ \A p \in pending :
       /\ SignedHere(p)
       /\ \E i \in Logged("RequireApproval", p.frame) : audit[i].at = p.created
CurrentSound ==
  /\ pc \in {"sending", "waiting"} => SignedHere(current)
  /\ pc = "sending" => /\ Logged("ExecRequested", current.frame) # {}
                       /\ Licensed(current.frame)
  /\ pc = "waiting" => \E k \in DOMAIN sent : sent[k] = current.frame
UpIsPublished == pc # "down" => published # 0
ToldActions == \A t \in told : t.action \in Action

IInv ==
  /\ TypeOK
  /\ UpIsPublished /\ ToldActions
  /\ HeldAreUndecided /\ HeldOnce /\ DecidedAreOld
  /\ PendingSound /\ CurrentSound
  /\ SentOnce /\ SentAreAudited /\ SentAreLicensed /\ RefusedNeverSent

(* A seq is signed once per session, although frames are held for approval *)
(* and a restarted daemon counts from 0 again: no held frame carries the   *)
(* seq of another one or of a frame already sent.                          *)
SeqUnsent(x) == \A k \in DOMAIN sent : sent[k].session = published => sent[k].seq # x
SeqBounded ==
  /\ \A k \in DOMAIN sent : sent[k].session <= published
  /\ pc # "down" => \A k \in DOMAIN sent : sent[k].session = published => sent[k].seq <= seq
  /\ \A p \in pending : p.frame.seq <= seq
SeqHeldOnce ==
  /\ \A p, q \in pending : p.frame.seq = q.frame.seq => p = q
  /\ \A p \in pending : SeqUnsent(p.frame.seq)
  /\ pc = "sending" => /\ current.frame.seq <= seq
                       /\ SeqUnsent(current.frame.seq)
                       /\ \A p \in pending : p.frame.seq # current.frame.seq
SeqSentOnce ==
  \A i, j \in DOMAIN sent :
    sent[i].session = sent[j].session /\ sent[i].seq = sent[j].seq => i = j
SeqInv == SeqBounded /\ SeqHeldOnce /\ SeqSentOnce
=============================================================================
