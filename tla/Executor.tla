-------------------------------- MODULE Executor --------------------------------
(***************************************************************************)
(* archangel-execd, the privileged executor: the serial accept loop of     *)
(* main.rs and the gate pipeline of handler.rs.  Nothing is assumed about  *)
(* the daemon: any frame may arrive on a connection, any number of times.  *)
(***************************************************************************)
EXTENDS Integers, Sequences, FiniteSets, FiniteSetsExt

CONSTANTS
  Session, Nonce, MaxSeq, NONCE_WINDOW,   \* see ReplayGuard
  MINUTE, HOUR, Limit, MaxTime,           \* see RateLimiter
  Exec, Allowlist,                        \* see Policy
  Frame,      \* the signed ExecRequest frames that may be delivered
  HostMode,   \* modes.default values the operator may configure
  Bundle,     \* the bundles an operator may install under a name
  MaxKey,     \* bound: session keys published (daemon incarnations)
  MaxBoot,    \* bound: executor incarnations
  MaxRuns     \* bound: actions run

ASSUME HostModeAssumption == HostMode \subseteq {"ReadOnly", "Interactive", "Autonomous"}
ASSUME FrameAssumption ==
  \A f \in Frame : /\ f.session \in Session /\ f.seq \in 0 .. MaxSeq
                   /\ f.nonce \in Nonce /\ f.exec \in Exec
ASSUME GuardAssumption == MaxSeq \in Nat /\ NONCE_WINDOW \in Nat \ {0}
ASSUME RateAssumption == /\ MINUTE \in Nat \ {0} /\ HOUR \in Nat \ {0} /\ MaxTime \in Nat
                         /\ Limit \in [{"total", "mutating", "critical"} -> Nat]
ASSUME ExecutorBounds == MaxKey \in Nat /\ MaxBoot \in Nat \ {0} /\ MaxRuns \in Nat

NoKey == 0
NoSnapshot == 0
NoJob == <<>>

VARIABLES
  now,          \* the clock
  published,    \* the session-key file archangeld writes: NoKey or the latest key
  bundle_dir,   \* [Exec -> Bundle], the signed bundles on disk
  last_seq, seen_nonces, nonce_order,     \* replay guard
  hits,         \* rate windows
  session_key,  \* key the current connection is verified against
  mode_ceiling, \* modes.default of the executor's own config, read at start
  conn,         \* "idle", "open" (reading a frame), "snapshot", "sandbox", "running"
  job,          \* what dispatch holds between its gates, while conn is busy
  response,     \* stage of the last response, or "Completed"
  points,       \* recovery points on the host, by id: for which frame and when
  boot,         \* history: which incarnation of the executor this is
  accepted,     \* history: the key published when the connection was accepted
  runs          \* history: every action run, in order

replay == <<last_seq, seen_nonces, nonce_order>>
process == <<session_key, mode_ceiling, boot>>
environment == <<now, published, bundle_dir>>
serving == <<conn, job, response>>
vars == <<environment, replay, hits, process, serving, points, accepted, runs>>

Replay == INSTANCE ReplayGuard WITH admitted <- runs
Rate == INSTANCE RateLimiter WITH charged <- runs, verdict <- response
Policy == INSTANCE Policy

Init ==
  /\ now = 0
  /\ published = NoKey
  /\ bundle_dir \in [Exec -> Bundle]
  /\ last_seq = [s \in Session |-> Replay!NoSeq]
  /\ seen_nonces = {}
  /\ nonce_order = <<>>
  /\ hits = [w \in Rate!Window |-> <<>>]
  /\ session_key = NoKey
  /\ mode_ceiling \in HostMode
  /\ conn = "idle"
  /\ job = NoJob
  /\ response = "none"
  /\ points = <<>>
  /\ boot = 1
  /\ accepted = NoKey
  /\ runs = <<>>

-----------------------------------------------------------------------------
(* serve_loop: accept a connection and re-read the session-key file.  With *)
(* no key published the connection is dropped and nothing changes.         *)
AcceptOnceKeyed ==
  /\ conn = "idle"
  /\ published # NoKey
  /\ conn' = "open"
  /\ response' = "none"
  /\ session_key' = IF session_key = NoKey THEN published ELSE session_key
  /\ accepted' = published
  /\ UNCHANGED <<environment, replay, hits, mode_ceiling, boot, job, points, runs>>
Accept ==
  /\ conn = "idle"
  /\ published # NoKey
  /\ conn' = "open"
  /\ response' = "none"
  /\ session_key' = published
  /\ accepted' = published
  /\ UNCHANGED <<environment, replay, hits, mode_ceiling, boot, job, points, runs>>

(* serve_one fails to read a whole frame: the connection is abandoned.     *)
PeerGone ==
  /\ conn = "open"
  /\ conn' = "idle"
  /\ UNCHANGED <<environment, replay, hits, process, job, response, points, accepted, runs>>

(* The gates in the order dispatch runs them, named by the RejectStage     *)
(* they answer with.  The first eight only look at the frame, the bundle   *)
(* and the executor's own memory: one step.  The other two take their      *)
(* time, a btrfs command and a cgroup, and are steps of their own.         *)
Pipeline == <<"SignatureInvalid", "Replay", "BundleUnverified", "ArgRejected",
              "NotReadOnly", "DenylistHit", "NotAllowlisted", "RateLimited">>
Gate == {Pipeline[i] : i \in DOMAIN Pipeline}
RejectStage == Gate \union {"SnapshotUnavailable", "SandboxRejected"}
Position == [g \in Gate |-> CHOOSE i \in DOMAIN Pipeline : Pipeline[i] = g]

ActionClass(b) == [mutating |-> ~b.read_only, critical |-> b.risk = "critical"]

check_mutation_by_claim(f, b) == b.read_only \/ Policy!allows_mutation(f.mode)
check_mutation(f, b) == b.read_only \/ Policy!allows_mutation(mode_ceiling)

(* refuses(f, b)[g]: would gate g refuse frame f, with b on disk? *)
refuses(f, b) ==
  LET decision == Policy!evaluate(f.profile, f.mode, f.exec, b)
  IN  [SignatureInvalid |-> f.key # session_key,
       Replay           |-> ~Replay!Fresh(f),
       BundleUnverified |-> ~b.signed,
       ArgRejected      |-> f.args \notin b.args,
       NotReadOnly      |-> ~check_mutation(f, b),
       DenylistHit      |-> decision = "Deny",
       NotAllowlisted   |-> decision = "NotAllowed",
       RateLimited      |-> ~Rate!Admissible(ActionClass(b))]

(* Where dispatch stops: the position of the first gate that refuses, or   *)
(* one past the last.                                                      *)
Admitted == Len(Pipeline) + 1
first_refusal(f, b) ==
  LET gates == refuses(f, b)
  IN  Min({Position[g] : g \in {g \in Gate : gates[g]}} \union {Admitted})

(* What a request leaves behind when dispatch stops at position stop: a    *)
(* gate that was passed has had its effect even if a later one refuses.    *)
Passed(gate, stop) == Position[gate] < stop
Charge(b, stop) ==
  hits' = CASE Passed("RateLimited", stop) -> Rate!Recorded(ActionClass(b))
            [] stop = Position["RateLimited"] -> Rate!Pruned(ActionClass(b))
            [] OTHER -> hits

Refuse(stage) == conn' = "idle" /\ job' = NoJob /\ response' = stage

(* handle, for a frame read from the open connection, up to the rate gate. *)
(* The bundle that dispatch goes on with is the one it has loaded here.    *)
Handle(f) ==
  LET b == bundle_dir[f.exec]
      stop == first_refusal(f, b)
  IN
  /\ conn = "open"
  /\ IF Passed("Replay", stop) THEN Replay!Commit(f) ELSE UNCHANGED replay
  /\ Charge(b, stop)
  /\ \/ stop < Admitted /\ Refuse(Pipeline[stop])
     \/ /\ stop = Admitted
        /\ conn' = "snapshot"
        /\ job' = [frame |-> f, bundle |-> b, at |-> now, snapshot |-> NoSnapshot]
        /\ UNCHANGED response
  /\ UNCHANGED <<environment, process, points, accepted, runs>>

(* snapshot_gate: a persistent mutation needs a declared path to snapshot  *)
(* (the first one), a backend detected at start and a snapshot that        *)
(* succeeds; id is what the host delivers, or NoSnapshot.                  *)
snapshot_gate_lenient(b, id) == TRUE
snapshot_gate(b, id) == b.persistent => id # NoSnapshot
TakeSnapshot ==
  LET b == job.bundle
      next == Len(points) + 1
  IN
  /\ conn = "snapshot"
  /\ \E id \in {NoSnapshot} \union (IF b.persistent /\ b.rw THEN {next} ELSE {}) :
       /\ points' = IF id = NoSnapshot THEN points
                    ELSE Append(points, [frame |-> job.frame, boot |-> boot,
                                         before |-> Len(runs) + 1])
       /\ \/ /\ snapshot_gate(b, id)
             /\ conn' = "sandbox"
             /\ job' = [job EXCEPT !.snapshot = id]
             /\ UNCHANGED response
          \/ ~snapshot_gate(b, id) /\ Refuse("SnapshotUnavailable")
  /\ UNCHANGED <<environment, replay, hits, process, accepted, runs>>

RunRecordReloaded ==
  [frame |-> job.frame, bundle |-> bundle_dir[job.frame.exec], at |-> job.at, boot |-> boot,
   ceiling |-> mode_ceiling, accepted |-> accepted, snapshot |-> job.snapshot]
RunRecord ==
  [frame |-> job.frame, bundle |-> job.bundle, at |-> job.at, boot |-> boot,
   ceiling |-> mode_ceiling, accepted |-> accepted, snapshot |-> job.snapshot]

(* sandbox_gate and cgroup_gate, then execute starts the script.           *)
Contained(b, limited) == b.plan /\ (b.limits => limited)
Execute ==
  /\ conn = "sandbox"
  /\ \/ /\ Contained(job.bundle, TRUE)
        /\ Len(runs) < MaxRuns
        /\ conn' = "running" /\ job' = NoJob /\ UNCHANGED response
        /\ runs' = Append(runs, RunRecord)
     \/ /\ ~Contained(job.bundle, FALSE)
        /\ Refuse("SandboxRejected")
        /\ UNCHANGED runs
  /\ UNCHANGED <<environment, replay, hits, process, points, accepted>>

(* execute returns: whatever the script did, the outcome is Completed.     *)
Finish ==
  /\ conn = "running"
  /\ conn' = "idle"
  /\ response' = "Completed"
  /\ UNCHANGED <<environment, replay, hits, process, job, points, accepted, runs>>

(* The process dies and systemd starts it again (Restart=on-failure): the  *)
(* guard and the windows are new, the config and the backend are re-read.  *)
Restart ==
  /\ boot < MaxBoot
  /\ boot' = boot + 1
  /\ last_seq' = [s \in Session |-> Replay!NoSeq]
  /\ seen_nonces' = {}
  /\ nonce_order' = <<>>
  /\ hits' = [w \in Rate!Window |-> <<>>]
  /\ session_key' = published
  /\ mode_ceiling' \in HostMode
  /\ conn' = "idle"
  /\ response' = "none"
  /\ accepted' = NoKey
  /\ job' = NoJob
  /\ UNCHANGED <<environment, points, runs>>

(* What happens around the executor: archangeld restarts and publishes a   *)
(* new session key, an operator installs a bundle, time passes.            *)
Publish ==
  /\ published < MaxKey
  /\ published' = published + 1
  /\ UNCHANGED <<now, bundle_dir, replay, hits, process, serving, points, accepted,
                 runs>>
Install(e, b) ==
  /\ bundle_dir' = [bundle_dir EXCEPT ![e] = b]
  /\ UNCHANGED <<now, published, replay, hits, process, serving, points, accepted,
                 runs>>
Tick ==
  /\ now < MaxTime
  /\ now' = now + 1
  /\ UNCHANGED <<published, bundle_dir, replay, hits, process, serving, points, accepted,
                 runs>>

Next ==
  \/ Accept
  \/ PeerGone
  \/ \E f \in Frame : Handle(f)
  \/ TakeSnapshot
  \/ Execute
  \/ Finish
  \/ Restart
  \/ Publish
  \/ \E e \in Exec, b \in Bundle : Install(e, b)
  \/ Tick

Spec == Init /\ [][Next]_vars

-----------------------------------------------------------------------------
Run == [frame : Frame, bundle : Bundle, at : 0 .. MaxTime, boot : 1 .. MaxBoot,
        ceiling : HostMode, accepted : NoKey .. MaxKey, snapshot : Nat]
Job == [frame : Frame, bundle : Bundle, at : 0 .. MaxTime, snapshot : Nat]
Point == [frame : Frame, boot : 1 .. MaxBoot, before : Nat]
Busy == conn \in {"snapshot", "sandbox"}

(* Shape of the state. *)
TypeOK ==
  /\ now \in 0 .. MaxTime /\ published \in NoKey .. MaxKey
  /\ bundle_dir \in [Exec -> Bundle]
  /\ last_seq \in [Session -> Replay!NoSeq .. MaxSeq]
  /\ seen_nonces \subseteq Nonce /\ nonce_order \in Seq(Nonce)
  /\ Len(nonce_order) <= NONCE_WINDOW
  /\ hits \in [Rate!Window -> Seq(0 .. MaxTime)]
  /\ \A w \in Rate!Window : Len(hits[w]) <= Limit[w]
  /\ session_key \in NoKey .. MaxKey /\ accepted \in NoKey .. MaxKey
  /\ mode_ceiling \in HostMode
  /\ conn \in {"idle", "open", "snapshot", "sandbox", "running"}
  /\ Busy => job \in Job
  /\ response \in {"none", "Completed"} \union RejectStage
  /\ boot \in 1 .. MaxBoot
  /\ points \in Seq(Point)
  /\ runs \in Seq(Run) /\ Len(runs) <= MaxRuns

(* Whatever is delivered, and however often, one executor process runs the *)
(* requests of a session in the order they were signed and none twice.     *)
InOrder(h) ==
  \A i, j \in DOMAIN h :
    i < j /\ h[i].boot = h[j].boot /\ h[i].frame.session = h[j].frame.session
      => h[i].frame.seq < h[j].frame.seq
RunsInOrder == InOrder(runs)

(* The blast-rate ceilings bound what one process really runs, across all  *)
(* sessions and whatever class the daemon claims, although what a later    *)
(* gate refuses is charged too: in the horizon that ends with the          *)
(* admission of any run there are at most Limit of its class.              *)
Counted(w, r, n) == r.boot = n /\ w \in Rate!Applies(ActionClass(r.bundle))
WithinCeilings(h) ==
  \A w \in Rate!Window, j \in DOMAIN h :
    Counted(w, h[j], h[j].boot)
      => Cardinality({i \in 1 .. j : /\ Counted(w, h[i], h[j].boot)
                                    /\ h[j].at - h[i].at < Rate!Horizon[w]}) <= Limit[w]
RunsWithinCeilings == WithinCeilings(runs)

(* No persistent mutation without a recovery point of its own (layer #16): *)
(* the id the run was given is that of a point which this process took for *)
(* this very request, after the run before it, whatever points refused     *)
(* requests and processes that died have left behind.                      *)
OwnPoint(r, j) ==
  IF r.bundle.persistent
    THEN /\ r.snapshot \in DOMAIN points
         /\ points[r.snapshot] = [frame |-> r.frame, boot |-> r.boot, before |-> j]
    ELSE r.snapshot = NoSnapshot
OwnRecoveryPoint == \A j \in DOMAIN runs : OwnPoint(runs[j], j)

(* What runs is what was judged: the bundle whose script is started has    *)
(* passed every gate with this frame, in this process, under the host's    *)
(* own mutation ceiling, whatever the frame claims and whatever bundle was *)
(* installed while the recovery point was taken.                           *)
Judged(f, b, ceiling) ==
  /\ b.signed /\ f.args \in b.args
  /\ b.read_only \/ Policy!allows_mutation(ceiling)
  /\ Policy!evaluate(f.profile, f.mode, f.exec, b) \notin {"Deny", "NotAllowed"}
RunsAsJudged ==
  \A i \in DOMAIN runs :
    Judged(runs[i].frame, runs[i].bundle, runs[i].ceiling) /\ runs[i].bundle.plan

(* Key rotation: an action runs only under the key that was published when *)
(* its connection was accepted, so a retired session cannot open new ones. *)
UnderCurrentKey(h) == \A i \in DOMAIN h : h[i].frame.key = h[i].accepted
RunsUnderCurrentKey == UnderCurrentKey(runs)

-----------------------------------------------------------------------------
(* What makes these properties inductive.  An admitted request that has    *)
(* not started yet counts like a run: work is the runs and it.  The open   *)
(* connection is verified against the key read when it was accepted;       *)
(* last_seq bounds the work of this process; times only grow; and all work *)
(* that may still count is in the windows, which may hold more: an action  *)
(* that a later gate refused has been charged as well.                     *)
work == IF Busy THEN Append(runs, RunRecord) ELSE runs

KeyIsAccepted == conn = "open" => session_key = accepted
LastSeqBoundsWork ==
  \A i \in DOMAIN work :
    work[i].boot = boot => work[i].frame.seq <= last_seq[work[i].frame.session]
HistoryIsPast == \A i \in DOMAIN work : work[i].boot <= boot /\ work[i].at <= now
WorkSince(w, t) == {i \in DOMAIN work : Counted(w, work[i], boot) /\ work[i].at >= t}
HitsSince(w, t) == {k \in DOMAIN hits[w] : hits[w][k] >= t}
WorkIsCharged ==
  \A w \in Rate!Window, t \in 0 .. MaxTime :
    now - t < Rate!Horizon[w] => Cardinality(WorkSince(w, t)) <= Cardinality(HitsSince(w, t))
JobIsJudged ==
  /\ Busy => Judged(job.frame, job.bundle, mode_ceiling)
  /\ conn = "sandbox" => OwnPoint(RunRecord, Len(runs) + 1)

IInv ==
  /\ TypeOK
  /\ KeyIsAccepted /\ LastSeqBoundsWork /\ HistoryIsPast /\ WorkIsCharged /\ JobIsJudged
  /\ InOrder(work) /\ WithinCeilings(work) /\ UnderCurrentKey(work)
  /\ OwnRecoveryPoint /\ RunsAsJudged
=============================================================================
