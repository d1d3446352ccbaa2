# A TLA+ verification of archangel

Archangel lets a language model propose administrative actions on a Linux host.  An
unprivileged daemon (`archangeld`, trust tier T3) talks to the model and the
operator; a privileged executor (`archangel-execd`, T2) runs operator-signed `.exec`
bundles.  The code's promise is that what runs was allowed, approved, logged,
rate-limited and recoverable, although the model, and even the daemon, may be wrong.
This directory models the path of an action through both processes, what surrounds
it (control plane, monitor, audit log, runner, provisioning) and the pure checks it
passes; TLC checks the models on small instances, and TLAPS proves every safety
property of those runs for every value of the constants.

## Inventory of the system

| Part | State | Operations | What makes it correct |
|---|---|---|---|
| Replay guard (`execd/replay.rs`) | last seq per session, nonce set and queue | `admit` | strictly increasing seq per session; a nonce is remembered for exactly a window; set and queue agree |
| Blast-rate limiter (`execd/ratelimit.rs`) | three sliding windows, in memory | `try_admit` | one process never admits above a ceiling, never sheds below it, charges all windows or none |
| Policy (`archangel-policy`, `core/mode.rs`) | the allowlist | `evaluate` | deny before allow before approval |
| Executor (`execd/handler.rs`, `main.rs`) | guard, windows, session key, mode ceiling | accept, the ten gates, run, restart | nothing runs that a gate refuses, whatever the daemon sends |
| Orchestrator (`archangeld/orchestrator.rs`, `session.rs`, `transport.rs`) | session (key, seq, mode), pending approvals | `run_task`, `invoke`, `approve`, `reject`, `record_outcome` | at most one send per action, after its log entry and its approval |
| Runner (`execd/sandbox.rs`, `sandbox/apply.rs`) | child, two pipes, two reader threads, cgroup | spawn, harden, enrol, read, wait, kill, join | a script runs filtered or not at all; its output and exit code are its own; nothing is left of it; it ends; with the exceptions the error paths make |
| Sandbox plan and limits (`archangel-sandbox`) | none | `plan`, `CpuMax::parse`, `MemoryMax::parse`, seccomp profiles | what was declared is what is enforced, or it is refused |
| Denylist and paths (`archangel-policy`, `pathnorm.rs`, `archangel-snapshot`) | rule table | `check_path`, `check_command`, `normalize_absolute`, `fs_type_for` | the verdict does not depend on the spelling |
| Control plane (`archangeld/server.rs`, `main.rs`, `archangel-ctl`, `archangelctl/client.rs`) | the shared mutex, a replay guard per connection | accept, read, serve, answer; the monitor as rival | serial; only the operator is served; every connection ends, short of a peer or a task that does not |
| Audit log (`archangel-audit`, `audit_view.rs`) | hash-chained file, head, seq, key file | `open`, `append`, rotation, `verify_chain` | an acknowledged entry stays; what verifies is genuine |
| Log monitor (`archangeld/monitor.rs`, `autoloop.rs`) | file offset, cooldown table | `poll`, `admit`, `assess` | no line of a file it follows is lost or read twice; no storm |
| Bundles and model replies (`archangel-exec-format`, `response.rs`) | files on disk | `load`, `validate`, `parse_model_response` | only verified bytes are used; a reply is one action or nothing |
| Provisioning (`archangelctl/setup.rs`, `keys.rs`, start of `archangeld`) | keys, trust store, signatures, allowlist, configuration | `setup`, `sign`, start, `publish_session_pub` | never overwrites an operator's file, never trusts a torn key |
| Configuration and egress (`archangel-config`, `archangel-egress`) | none | `load`, `validate`, `is_allowed`, `egress-sync` | everything dangerous is opt-in; deny by default |
| LLM backends, prompt, REPL, sites | none that matters here | | I/O and rendering |

The daemon calls the executor over a Unix socket, one connection per action, one
frame per connection, no retry and no timeout.  The executor re-reads the daemon's
published session key at every accept.  Operator requests and the monitor share the
orchestrator under one mutex.  Bundles on disk are read by both processes,
independently.  systemd restarts both on failure, and neither restart causes the
other.

What is hard: the two processes restart on their own while the session key, the
replay guard, the pending approvals, the rate windows and the bundles have different
lifetimes; an action is signed when proposed but sent when approved; audit appends,
snapshots and the connection can fail in the middle of a pipeline whose earlier
steps have already had their effect; files are created, written and synced in
separate steps between which a process or the power can die; a script outlives its
parent.  `PROJECT.json` lists these hazards line by line, each with the properties
that are about it.

## The modules

| Module | Models | Remarks |
|---|---|---|
| `ReplayGuard` | `replay.rs` | `last_seq`, `seen_nonces`, `nonce_order` as in the struct; `admitted` is a history |
| `RateLimiter` | `ratelimit.rs` | `hits[w]` is the deque of window `w`, `charged[w]` its history; a refusal prunes the windows it asked |
| `Policy` | `policy/lib.rs`, `allowlist.rs`, `core/mode.rs` | a bundle carries one bit for "payload or path hits the denylist" |
| `Executor` | `handler.rs`, `main.rs` | instantiates the three above; a dispatch is three steps, parted where it waits for the host |
| `Orchestrator` | `orchestrator.rs`, `session.rs`, `transport.rs`, `server.rs` | the daemon, with any executor |
| `Archangel` | both, joined by the executor's socket | `wire` is the listen queue |
| `ActionLifecycle` | nothing in particular: the promise | abstract specification that `Archangel` implements |
| `Runner` | `execd/sandbox.rs`, `sandbox/apply.rs`, the cgroup's life | threads, pipes, a script and its background process |
| `AuditLog` | `archangel-audit`, key and rotation in `archangeld/main.rs`, `audit_view.rs` | file contents and what of them is synced |
| `LogMonitor` | `monitor.rs`, `autoloop.rs`, the hand-over in `main.rs` | a file is a sequence of pieces, a line ends in a piece with `eol` |
| `ControlPlane` | `server.rs`, the two loops of `main.rs`, `archangel-ctl`, `client.rs` | connections, lock, peers |
| `Provisioning` | `setup.rs`, `keys.rs`, `trust.rs`, `verify.rs`, the start of `archangeld` | every file, every create and write |
| `PathRules`, `SandboxPlan`, `Egress`, `BundleFormat`, `Configuration` | pure functions of the crates of those names | operators only |
| `Inputs` | the above, one input at a time | the reference definitions they are compared with |
| `ExecutorPartProofs`, `ExecutorProofs`, `ArchangelProofs`, `ControlPlaneProofs`, `AuditLogProofs`, `ProvisioningProofs`, `LogMonitorProofs`, `InputsProofs` | | the theorems; runner, guard and limiter are in `ExecutorPartProofs`, the daemon alone and both together in `ArchangelProofs` |
| `MC*` | | instances for TLC |

*Executor.*  The gates are a sequence, `Pipeline`, in the order of `dispatch`;
`refuses` says for each gate whether it would refuse, `first_refusal` where
`dispatch` stops, and `Handle`, the gates up to the snapshot, applies the effects of
those that were passed, also when a later one refuses: the replay guard commits, the
rate windows are charged (or only pruned if the rate gate itself refuses).  What is
left of the request waits in `job`.  `TakeSnapshot` is the btrfs command: it adds a
point to `points`, the host's subvolumes, and the id it returns goes into `job`, or
it fails.  `Execute` makes the sandbox and starts the script, or is refused. Between
these steps the process may die, a key may be published and a bundle replaced.
Nothing is assumed of the daemon beyond the peer-uid check: any frame of `Frame` may
arrive any number of times, in any order.  Running is a state too. `mode_ceiling` is
read at the start of the process, and histories say which process (`boot`) a run
belongs to.

*Orchestrator.*  A task is `RunTask`, then (after the await on the model)
`NoActionReply`, `DenyInvoke` or `Invoke`; a dispatch is `Send` or `SendFails` and,
after the await on the executor, `Receive`.  Handlers do not await between two audit
appends, and any append may fail and end the handler with an error, so a handler
writes some prefix of its entries (`AppendEntries`).  That also covers a crash
between two appends.  Session ids, keys and nonces are random in the code; here a
session is named by the number of the incarnation that owns it and a nonce by its
action.  A digest is the triple it hashes, and `payload` stands for the payload's
hash.  The audit log is all or nothing per entry, and `audit` keeps the entries of
all incarnations, each with its session, because the daemon rotates the file at
start.

*Archangel.*  `DaemonStep` puts a sent frame on the wire; `ExecdAccept`,
`ExecdHandle`, `ExecdTakeSnapshot`, `ExecdExecute` and `ExecdFinish` serve the
wire's head.  A crash of the daemon leaves its frame on the wire (the bytes are in
the socket); a restart of the executor empties it and the daemon reads an error.  A
response larger than the frame cap is also an error to the daemon: the executor caps
each output stream at 1 MiB, the daemon refuses a response frame above 1 MiB.

*Runner.*  The main thread, the two reader threads, the child before and after
`execve`, the script and a background process it may start are separate processes. A
pipe is the number of bytes in it and the set of processes that hold it open for
writing; a reader sees the end of the file when both are empty.  A stream is a
number of bytes sent and kept, because the properties are about how many arrive;
`Utf8` says where a stream may be cut without splitting a character, which decides
whether `from_utf8_lossy` gives the bytes back.  A read may fail (`ReadFails`: that
reader ends, and nothing in the result says so), and so may `try_wait`
(`TryWaitFails`: the loop ends, with the child neither killed nor reaped,
`unwatched`).  `Expire` is the deadline; `phase` says where `BashRunner::run` is.
The cgroup is removed on return only when empty, as `rmdir` does it.

*AuditLog.*  A hash is the entry it is of, a signature names its key.  A line is
whole, bare (without its newline) or partial.  `write_all` may stop anywhere,
`sync_data` may fail, a process may die between any two steps, and a power failure
keeps what was synced and any prefix of the rest; the key file, which is never
synced, may be lost whole.  `Damage` is a change of the file from outside. Each
start renames the log to a name made of the clock's milliseconds (0 before the
epoch), which may be that of a rotated log: then that one is replaced.  The
directory is never synced, so a power failure may also undo the creation and the
rename, the newest first, as a journal does; `lost` are the runs whose log went that
way.  The unsynced tail of a log that was rotated is taken to be on disk.
`verify_and_render` is the operator's view.

*LogMonitor.*  Two sources are polled by one `LogMonitor`; between polls a file
grows by pieces, is truncated, replaced or unreadable.  `Cursor` is where the loop
of `poll` stands after each round, `Rounds` how many it takes; the gate then decides
alert by alert.  Patterns are labels of a line's words.  `base` and `seen` are
histories; `unnoticed` marks a file that was replaced and had grown past the old
offset before the next poll, the case a size comparison cannot detect.

*ControlPlane.*  A peer of any uid connects, sends its frame whole, in part or not
at all, and may leave at any moment.  `lock` and `waiters` are the tokio mutex,
which is fair.  A served task is held open (`serving`) so that peers and the monitor
act meanwhile.  The answer is written under the lock (`writing`): a long one goes
out only as far as its peer reads.  The work under the lock is module
`Orchestrator`.

*Provisioning.*  Setup, the daemon's start and operators act on the same files, each
create, write and read a step of its own.  `Interrupt` ends setup anywhere and
leaves what it had created or half written; a torn text is one that does not parse.
Operators may write at every step, between setup's creation of a file and its write
to it as well: what the two leave there is then setup's text, the operator's, or a
mixture of both.  The trust file may hold text that is not UTF-8, and its read may
fail: either way setup takes it for absent (`MisreadTrust`).  A bundle is a version
of its manifest; `endorsed` is the history of what was signed by whom.
`PayloadMatches` lists the versions whose payload has the hash their manifest
declares, `name_of` gives the name inside the manifest, `Shipped` what may be there
at first; in the instance the package has installed a bundle, one version's payload
does not match and one is named other than its file.  Not modelled: a line an
operator appends between the truncation and the write of the trust file that is
longer than what setup writes, of which a tail remains.

*Inputs.*  One input is given at a time; each operator is compared with a definition
that says what it is for: the meaning of a number with its unit, the places a rule
protects, the mounts that are deepest over a path, the text that is left of a key
file without its blanks.  Texts are sequences of characters where a parser looks at
characters (limits, names, hex), of components where it looks at components (paths).
A loop over a text is a recursive function of the number of rounds.

## Runs

| Run | Shows | Distinct states |
|---|---|---|
| `replay_guard` | order, nonce window and coherence of the guard | 6,849 (with symmetry) |
| `rate_limiter` | ceilings are neither exceeded nor enforced early | 75,456 |
| `executor` | five invariants of what runs, against an arbitrary daemon | 1,010,355 |
| `orchestrator` | what leaves the daemon, against an arbitrary executor, in interactive mode | 604,758 |
| `archangel` | end to end, the refinement of `ActionLifecycle`, and that every task is answered unless the executor hangs | 194,056 |
| `audit_log` | acknowledged entries stay, only genuine chains verify, a healthy log always does | 2.5 million |
| `log_monitor` | each line once, no storm, no endless suppression | 608,389 |
| `control_plane` | one at a time, only the operator, truthful answers, both loops go on unless a peer stalls or a task hangs | 231,705 |
| `runner` | output, exit code, confinement, clean-up and end of a run | 329,486 |
| `runner_wedged` | (violation) a background process stops the executor | |
| `provisioning` | what the daemon loads and trusts, and what setup leaves alone | 3.2 million |
| `inputs` | fifteen agreements between a check and what it is for, in five groups | 195,630 |

Where several statements are about one question the run checks their conjunction
(`AuditMatchesHost`, `VerifiedIsTrue`, `CooldownExact`, `ServedRightly`,
`LoopsGoOn`, `ResultFaithful`, `ConfinedAndReaped`, `DaemonInputsSound`,
`SetupSound`, `LeavesFilesAlone` and the five of `inputs`); the parts are named and
explained where they are defined.  Every component also states its type invariant;
`replay_guard` and `orchestrator` check theirs, where it carries a bound of the code
(the nonce window, `MAX_PENDING`), and the others are there for proofs.

`runner_wedged` is the one disagreement between the code and what it says of itself
that is kept as a run.  `sandbox.rs:16-17` promises that a hung action "is killed,
never wedges the executor".  The counterexample: the script starts a background
process that keeps stdout, the script exits or is killed at its deadline, `run`
joins the reader threads (`sandbox.rs:184`), and they read until the background
process ends.  `RunReturns` is what does hold: there is one other way, a `try_wait`
that fails (`sandbox.rs:180`), after which the child has no deadline any more and
the join waits for as long as it keeps its pipes.  `NeverWedges` leaves that way
aside, so that what it refutes is the promise about the ordinary one.

**Bounds.**  `MaxSeq`, `MaxTime`, `MaxKey`, `MaxBoot`, `MaxTask`, `MaxRuns`,
`MaxAppend`, `MaxFault`, `MaxLines`, `MaxReplace`, `MaxConn`, `MaxAlerts`,
`MaxBytes`, `MaxInterrupt`, `MaxEdit` and `MaxRun` bound counters; every one appears
in a guard.  Each is chosen so that the case of interest happens:

- four nonces for a window of two (eviction, and reuse after it); time for three
  full horizons of the minute window and more than one of the hour window; limits so
  that each window is the one that refuses;
- two keys and two boots (one restart of each process, in either order and at any
  step); two tasks (two pending approvals, one overtaking the other; with
  `MAX_PENDING` 1 in `orchestrator` also the full table); a clock that passes the
  approval lifetime of one tick in `orchestrator`.  `archangel` has no clock: expiry
  is the daemon's alone;
- in `executor`, bundles and frames such that every gate refuses some frame, one of
  them after the snapshot, so that a point is left without a run;
- in `audit_log`, three starts and two faults: a failure, then a power loss on the
  file it left, then a start that rotates it; up to three entries in the first run,
  two in the second and one in the third, of two kinds, so that a failed append and
  its retry differ; with three starts there are two rotations, of which the second
  may replace the first's file;
- in `log_monitor`, three pieces a file, one line a poll and one replacement: a line
  longer than the limit, a poll that ends at its limit, a rotation between two
  polls;
- in `control_plane`, two connections and two alerts, so that each loop waits for
  the other; peers of both uids, frames with each defect;
- in `runner`, a pipe of three bytes, chunks and a cap of two, up to four bytes on
  stdout and two on stderr: a full pipe, a chunk across the cap, output after the
  cap, a cap that cuts a character of two bytes, a stray byte;
- in `provisioning`, two generated keys and an operator's, one interruption or
  failing read, two edits, three versions of a bundle (read-only under another name,
  mutating, read-only with a payload that does not match), a trust file of three
  lines; an interruption also takes one of the two edits and of the daemon's two
  runs that may follow it;
- in `inputs`, every limit of up to four characters over digits, units and blanks
  (with a 13-bit stand-in for `u64` so that products overflow), every name of up to
  five, hex of up to four with blanks and newlines, an allow-all and a mistyped
  default policy, every place at, above and below a rule's in every one-detour
  spelling.

Deadlock is checked in `runner` and `inputs`; the other models stop when their
counters are exhausted, which the programs do not.

**Fairness.**  `Archangel`: the daemon's step out of "thinking", "sending" and
"waiting" (the HTTP client has an overall timeout, so the await on the model ends;
the others are local), and the executor's accepting, judging and starting (its loop
never leaves).  That the btrfs command or the script ends is not assumed, since
neither wait has a deadline that holds: `TaskAnswered` names the exception, an
executor that is for ever at one of the two (`ExecdHangs`).  `Runner`: the
executor's threads are scheduled, `fork` and `execve` end and time passes; nothing
is assumed of the script, nor that a read or a `try_wait` succeeds, nor that a read
fails in the end: a reader waits at an empty pipe for as long as somebody holds it
open.  `ControlPlane`: the two loops take their own steps; nothing is assumed of
tasks or peers. `LoopsGoOn` names the exceptions: a peer the uid check admitted that
stalls for ever in the middle of its frame or of a long answer (`PeerStalls`; the
daemon reads and writes under the lock without a timeout), and a task that never
ends (`TaskHangs`).

## What the models show about the code

Facts that are neither proved nor a run of their own, but that the models make plain
and a maintainer should know:

- The ceilings and the replay guard live in memory.  `ratelimit.rs:3-7` speaks of
  the host, but the ceilings hold per process of the executor, and count what it
  admits: one that restarts alone admits a second quota within a horizon, and would
  admit an old frame again under a session key that is still valid
  (`ratelimit.rs:21-23` and `replay.rs:6-15` consider only the daemon's restart).
  `NoActionRunsTwice` shows that this daemon never sends a frame twice.
- Approvals given in another order than the proposals are lost as Replay
  (`orchestrator.rs:130-132`); `ReplayOnlyIfOvertaken` shows it is the only way.
- A canary leak ends the session in the log, not in the daemon
  (`orchestrator.rs:13`, line 281).
- A bundle replaced since the preview is what runs after the approval: the frame
  names it and carries no digest (`archangel-ctl/src/message.rs:25-30`).
- The operator can be told Denied of an action that ran: the response was lost, or
  above the frame cap, or its log entry failed (`archangel-ctl/src/message.rs:62`).
- The control plane's replay guard is made for each connection, and a connection
  carries one request: a recorded frame of the operator's is served again on another
  connection.
- An answer is written with the orchestrator locked and without a timeout: an
  admitted peer that does not read a long one stops both loops (`main.rs:526`).
- A rotated log is replaced by the next of the same name (`main.rs:208-217`), which
  takes a clock that shows the same millisecond twice, or one before the epoch; the
  names of logs are never made durable.
- After a failed append the next one still chains to the old head: the log of that
  run no longer verifies, although every acknowledged entry is in it.
- A log replaced and grown past the old offset between two polls is read from the
  middle (`monitor.rs:126-129`): the lines before that offset are skipped.  The
  cooldown is timed by polls, not by what the alerts lead to (`main.rs:420-428`).
- A failing read of a script's output ends that stream's reader with
  `output_truncated` false (`sandbox.rs:84`), and a failing `try_wait` leaves the
  child running without a deadline (`sandbox.rs:180`).
- Limits bind from enrolment on, which follows `spawn`: the script may run before
  it.
- Setup cut short between `operator.key` and `operator.pub` fails at every later
  run; an empty or torn `operator.pub` is appended to `operators.pubkeys` as it is;
  an interrupted rewrite of `operators.pubkeys` can drop other keys; a truncated
  signature, allowlist or configuration is kept by later runs, which may report
  success over it.  The daemon refuses each of these (`DaemonInputsSound`).
- An `operators.pubkeys` that exists but cannot be read, or is not UTF-8, is taken
  for absent and overwritten with the operator's own key alone (`setup.rs:231-236`),
  although `setup.rs:147-148` says that setup never drops other keys.
  `KeysSurviveRun` names this case as its exception.
- `llm.env` is rewritten by every run of setup (`main.rs:299-311`); the files of
  `LeavesFilesAlone` are those of `setup.rs`.
- `manifest.rs:37` says the name must equal the file stem, "checked by the loader";
  it is not.
- The denylist judges the declared path alone: a directory above a protected file is
  not denied.  `handler.rs:277` snapshots only the first read-write path.
- `fs_type_for` takes the first of several mounts on one point, the kernel shows the
  last, and it sees mounts that others hide; `LongestMount` says what that leaves:
  btrfs is reported only if one of the deepest mounts is btrfs, and always if all
  are.  The executor asks for its state directory (`execd/main.rs:300-303`), not for
  the paths it snapshots.
- `egress-sync` without `--write` exits 0 with hosts missing; a write that fails
  midway exits 1 and leaves a cut drop-in in the place of the old one, which may
  deny nothing (`archangelctl/main.rs:558`).  `localhost` is let through whatever
  the policy says (`egress/lib.rs:184`).  A cooldown of 0 seconds is accepted.
- `strip_one_fence` drops the rest of the line a fence opens on, whatever it is:
  "```{A}" before a second line `{B}` is the reply B, although `response.rs:99-101`
  says that nothing else is tolerated.

## Proofs

Every safety property of the runs is a theorem: for each of the invariants, the
action property `LeavesFilesAlone` and the refinement `ImplementsLifecycle` there is
one that states the same definition, for all constants.  Each specification has one
inductive invariant, which contains its type invariant and is stated beside the
properties in the model (`IInv`, `SystemInv`, `GuardIInv`, `RateIInv`); only that of
`Inputs`, `Asked`, is in its proofs.  What a specification usually calls `Init`,
`Next` and `Spec` carries a prefix in `ReplayGuard` and `RateLimiter`, so that one
module can extend both.

### The executor's parts (`ExecutorPartProofs`)

*Replay guard*: `ReplayTypeCorrect`, `ReplayRefused`, `NonceDedupe`,
`WindowCoherence`. The invariants are not inductive alone.  `GuardIInv` adds that
`nonce_order` is the tail of the admission history (`OrderIsRecentHistory`: the k-th
remembered nonce is that of the (dropped + k)-th admission, and something was
dropped only from a full queue) and that `last_seq` bounds the history of its
session.  A new nonce is not in the set, hence not in the queue, hence not among the
last `NONCE_WINDOW` admissions.  Assumed: `NONCE_WINDOW` is a positive natural,
`MaxSeq` a natural; sessions and nonces are arbitrary sets.

*Limiter*: `RateTypeCorrect`, `CeilingHolds`, `NeverShedsEarly`.  Here `RateIInv`
says that a window is the tail of its admission history, that whatever it dropped is
a horizon old, and that the history is in time order.  `CeilingHolds`: when an
action is admitted the pruned window has fewer than `Limit` entries, so the
admission `Limit` places back has been dropped and is a horizon old.
`NeverShedsEarly` turns a full window into a set of recent admissions of that size,
by a bijection between the window's entries and that part of the history.  Assumed:
horizons positive, limits natural numbers (0 included).

*Runner*: `RunnerTellsTheTruth`, `RunnerConfinesAndReaps`, for every output cap,
chunk and pipe size.  The arithmetic is in `BytesKept`: bytes sent = bytes in the
pipe + bytes taken, the buffer is the part of the taken bytes below the cap, and a
reader is done only when nobody can write any more or its read failed. `ChildPlaced`
ties the child, the cgroup and the readers to the main thread's phase. The
statements carry the exceptions of the error paths: a stream whose read failed may
be cut, a child that was not waited for may be left.

### The executor (`ExecutorProofs`)

Against an arbitrary daemon: `ExecutorTypeCorrect`, `ExecutorRunsInOrder`,
`ExecutorWithinCeilings`, `ExecutorRecoveryPoints`, `ExecutorRunsAsJudged`,
`ExecutorKeyRotation`.  An admitted request that has not started yet counts like a
run (`work`).  The windows hold more than the work, because a gate after the rate
gate may refuse what was charged; `WorkIsCharged` compares the two: since any time
within a horizon there is at most as much work of a class as charges.  The ceilings
are those of one process; a restart empties the windows. `last_seq` bounds the work
of this process, times only grow, the open connection is verified against the key
read at its accept.  `JobIsJudged` carries what the gates saw across the snapshot to
the run, although the bundle on disk may be another by then, and that the id in
`job` is a point this process took for this request after the last run. Assumed:
frames have the fields of their type (`FrameAssumption`), limits and horizons as for
the limiter.

### The daemon, and both together (`ArchangelProofs`)

*Against an arbitrary executor*: `DaemonTypeCorrect`, `NothingSentTwice`,
`NothingSentUnlogged`, `NothingSentUnlicensed`, `RefusalsAreFinal`,
`SeqNeverReused`.  What the daemon sends depends on what it holds, in three places:
the task it thinks about, the pending table, the dispatch under way.  `IInv` says
that a held action is in one of them only, is undecided (not sent, no refusal told)
and not newer than the task counter; that a held frame is this incarnation's; and
that the log already has the entry its place requires.  `SeqInv` says the same of
sequence numbers. Assumed: lifetimes, caps and bounds are naturals; the executor's
stages are not among the daemon's own outcomes (`StageAssumption`).

*Over the socket*: `NothingRunsTwice`, `LogMatchesHost`,
`ApprovalsLostOnlyToOvertaking`, `SystemRefinesLifecycle`.  The link is that the
wire is the rest of `sent` (`WireIsRest`), and that whatever the executor knows of a
frame (a run, an entry of its guard) it knows of one it was handed, i.e. of a prefix
of `sent`.  Since `sent` has no action twice (`SentOnce`) the host cannot run one
twice, even though a restarted guard is empty.  A Replay answer means the guard has
met a sequence number at least as high, hence one handed over earlier.  For the
refinement the phase of an action is written as a table over log, wire and host
(`Phases`), each action of the system is shown to change at most one action's row
(`RunTable`, `DaemonTable`, `HostTable`), and each change is a step of
`ActionLifecycle` (`LifecycleStep`).  Assumed: both sides name the same stages
(`SharedStages`).

### Around the daemon

`ControlPlaneProofs`: `OneUserAtATime`, `OnlyTheOperatorIsServed`,
`LockIsNeverLost`, for any number of connections, peers and alerts.  A connection is
in one place (queue, at hand, ended), and the lock's holder and queue agree with
where the two loops stand.  `OnlyTheOperatorIsServed` counts per connection: a frame
is served at most once on the connection it came on.  Assumed: a frame's request is
one of `Request` (`RequestAssumption`).

`AuditLogProofs`: `AcknowledgedIsDurable`, `NoFalseAlarm`, `VerdictIsTrue`, for any
number of runs, entries and faults.  A sealed entry carries its run's past
(`WellSealed`): its seq is the number of entries acknowledged before it and its hash
the last of them.  Damage moves sealed entries but makes none, so in a chain that
verifies each entry is the one that its successor's run acknowledged at that place,
and the run is the same all along: the least position of another run's entry would
contradict its predecessor.  That is the argument for damaged files; for the others
`AckedAreSynced` keeps acknowledged entries in an archived file or in the synced
part of the log, `OneLogPerRun` says there is no second file they could be in
(`lost` excepts the runs whose file was replaced or lost its name), and
`HealthyChained` that a log without a failed append is a chain.  Assumed: one run at
least and natural bounds (`RunsAssumption`).

### Provisioning (`ProvisioningProofs`)

`DaemonStartsSound`, `SetupLeavesSound`, `FilesLeftAlone`, for any number of keys,
versions, interruptions and edits. Setup looks at a file in one step and writes it
in a later one, so the invariant says of each stage what setup may still rely on
(`SetupHolds`), the same for the daemon's start (`DaemonHolds`), where the keys are
that were trusted when setup began, in the file or in the text about to replace it
(`NothingDropped`, unless it was misread), how far setup has come, cut short or not
(`CalmProgress`) and while no run was ever interrupted (`Progress`), and what a
completed run leaves for the next (`AllInPlace`).  `SetupCompletes` holds after
interruptions, `SetupMakesStartable` only without: setup may report success over a
torn key or policy. `LeavesFilesAlone` is an action property; its proof needs the
invariant because a write is allowed by what an earlier step saw: `key_w` is reached
only from an empty secret, `allow_w` only from an allowlist that is not the
operator's. Assumed: operators' keys are other than the generated ones
(`ProvisioningAssumption`).

### Log monitor (`LogMonitorProofs`)

`LinesReadOnce`, `OncePerWindow`, for any number of sources, any limits and window;
a source whose replacement went unnoticed is exempt from the first. What a poll
reads is the trace of a loop, so the lemmas describe that trace: `CursorSteps` (each
round ends at the next newline), `ReadLines` and `LinesJoin` (the lines of a poll,
joined, are the file between the two offsets). `Tailed` adds that an offset lies
within a file whose replacement did not go unnoticed, and `Remembered` that the
cooldown table holds the last firing of every fingerprint younger than the window
although `admit` prunes it: what is pruned could not have held anything back.

### The pure checks (`InputsProofs`)

`PathsJudged`, `CageHolds`, `EgressAgrees`, `FormatsHold`, `NothingUnasked`, for
texts, paths, requests, tables and configurations of any length. The state
contributes nothing but that an input is of its kind (`Asked`); the work is in
lemmas about the operators:

- *paths*: `.`, an empty component, and a name followed by `..` leave the stack
  where it was (`DetourCancels`), so every respelling has the same normal form;
  `TreeCovers` and `RuleTable` say that a rule which protects a place matches the
  place itself and what is below it; `PlannedUnprotected` joins them to what `plan`
  admits and `intents` shows the gate;
- *limits*: `Value` is a number (`ValueIsNumber`), a product that passes
  `checked_mul` is the exact one (`MemoryExact`, `CpuExact`); `PlanChecks` finds the
  first failing check of `plan`, `FilterCloses` says that no profile opens a network
  family nobody asked for;
- *mounts*: after `k` lines the loop of `fs_type_for` holds the first of the longest
  mount points above the path among them (`MountFound`), which is one of the deepest
  (`DeepestMount`);
- *egress and configuration*: `EntryMeans`, `HostsListed`, `SyncIsHonest`,
  `OptedIn`, `RenderedLoads`;
- *formats*: a nibble's digit and value are inverse (`BytesSurvive`,
  `TextSurvives`), also through blanks at both ends (`TrimmedWindow`, `InkedText`);
  a safe name has no separator and is not `..` (`NameInside`); a reply that is
  accepted has one object and nothing else, apart from what stands on the line of an
  opening fence (`ObjectAlone`).

Assumed: `Name` has none of `""`, `.`, `..` and the rules' hits are rules of the
table (`PathRulesAssumption`, `CommandHitsAssumption`); letters do not contain the
separator (`BundleFormatAssumption`); ports are numbers, and the text "deny" is its
own lower case (`EgressAssumption`); `KIBI` is above 1 and a `u64` holds the largest
limit (`SandboxPlanAssumption`); inputs have the types of the code's arguments
(`InputsAssumption`).

### How loops are proved about

The provers cannot instantiate an induction theorem, whose parameter is an operator,
but they can use a set: `Induction` says that a set of numbers which contains 0 and,
with a number, the next one contains them all; it follows from the least element of
what is missing. `LoopTrace` gives, for a step function, the function from rounds to
states. A loop is written in the models as a recursive function of the number of
rounds, equal to its trace, and a claim about every round is an instance of
`Induction`.

All bounds (`MaxBoot`, `MaxTask`, `MaxTime`, ...) are arbitrary in the theorems;
they are part of the specifications, so the theorems are about every bounded system,
however large.

### What the proofs changed

`AuditLog`: `AcceptedIsGenuine` used to say that an accepted log is a prefix of what
was acknowledged, or all of it and one entry more. That is false: if an append fails
after its line is written, the head stays and the next append carries the same seq;
damage that then loses the second line leaves a chain that verifies and whose last
entry was never acknowledged, where another one was. The run could not see it while
it had one kind of event, because the two lines were then the same. What holds, and
is now stated, checked with two kinds and proved, is that only the last entry of an
accepted chain may be one whose append did not return Ok.

`Inputs`: `OneActionOrNothing` is now stated over the inked positions of a reply,
which the proof needs to say what "nothing else" is; texts, tables and the `Filled`
defaults of a configuration are functions on finite sets instead of `RECURSIVE`
operators and folds.

### Only model-checked

Liveness (`TaskAnswered`, `RunReturns`, `LoopsGoOn`), the deadlock checks and the
counterexample of `runner_wedged`: fairness and ENABLED are out of the prover's
reach.

## Not modelled

Cryptography and encodings (a signature is "made with that key"; CBOR and TOML are
verdicts), the denylist's regular expressions over commands (which commands they hit
is a parameter), the generated BPF programs, prompt text, HTTP, the REPL, rendering
and `doctor`, the text of the systemd drop-in, the btrfs command, rollback (nothing
calls it), the documentation sites.  The reasons are in `PROJECT.json` under
"components".  The wall clock is taken not to jump.

## Plan

1. *Done:* the guard and the limiter with proofs; policy, executor, orchestrator,
   their composition and the abstract life of an action; runner, audit log, log
   monitor, control plane, provisioning; the pure checks.
2. *Done:* proofs of every safety property the runs check, and of the refinement of
   `ActionLifecycle`.
3. *Open:* the parts listed under "Not modelled", and the hazards of `PROJECT.json`
   without a property (a half-written frame of a live peer, a clock that is set
   back, the size of `last_seq`).
