--------------------------------- MODULE Runner ---------------------------------
(***************************************************************************)
(* BashRunner::run of archangel-execd (sandbox.rs) between cgroup_gate and *)
(* the drop of the cgroup: one hardened child, two reader threads, a       *)
(* try_wait loop with a deadline.  The child runs an operator's script; it *)
(* may leave a background process behind (the orphan), which inherits the  *)
(* output pipes and, when it starts after the enrolment, the cgroup.       *)
(* A pipe carries byte counts: it is first in, first out, so how many      *)
(* bytes were kept says which.  Of a text only its valid prefixes matter:  *)
(* the conversion to a string changes a text that is not valid UTF-8.      *)
(***************************************************************************)
EXTENDS Integers, FiniteSets, FiniteSetsExt

CONSTANTS
  MAX_OUTPUT,  \* ExecLimits.max_output, per stream
  CHUNK,       \* size of the readers' chunk
  PIPE,        \* capacity of a kernel pipe
  Code,        \* exit codes a script may end with
  Utf8,        \* lengths at which what a stream carries is valid UTF-8, [Stream -> SUBSET Nat]
  MaxBytes     \* bound: bytes written to a stream, [Stream -> Nat]

Stream == {"stdout", "stderr"}
Process == {"child", "orphan"}
KILLED == -1
Signal == -2   \* a wait status without an exit code
None == -3

ASSUME RunnerAssumption ==
  /\ MAX_OUTPUT \in Nat /\ CHUNK \in Nat \ {0} /\ PIPE \in Nat \ {0}
  /\ Code \subseteq Nat /\ MaxBytes \in [Stream -> Nat] /\ Utf8 \in [Stream -> SUBSET Nat]

VARIABLES
  phase,      \* "idle", "cgroup_gate", "spawn", "enrol", "try_wait", "deadline", "join"
  limits,     \* the plan has a cpu or memory ceiling
  cgroup,     \* whether the action's cgroup directory exists
  enrolled,   \* processes in it
  hardened,   \* what install() has applied to the child
  child,      \* "none", "forked", "running", "zombie"
  status,     \* history: how the child ended, a Code, Signal or None
  orphan,     \* whether the script's background process runs
  writers,    \* [Stream -> SUBSET Process], open write ends
  pipe,       \* [Stream -> Nat], bytes in the pipe
  sent,       \* history: [Stream -> Nat], bytes ever written
  buf,        \* [Stream -> Nat], bytes a reader has kept
  truncated,  \* [Stream -> BOOLEAN]
  reader,     \* [Stream -> {"none", "reading", "done"}]
  read_failed, \* history: [Stream -> BOOLEAN], a read of the pipe returned an error
  expired,    \* whether the deadline has passed
  seen,       \* what try_wait returned: a Code, Signal or None
  unwatched,  \* history: try_wait returned an error, and nobody waits for the child any more
  result      \* RunResult of the last run, or how it was refused

kernel == <<child, hardened, enrolled, status, orphan, writers, pipe, sent, expired>>
readers == <<buf, truncated, reader, read_failed>>
waited == <<seen, unwatched>>
vars == <<phase, limits, cgroup, kernel, readers, waited, result>>

OnBoth(x) == [s \in Stream |-> x]
NoResult == [how |-> "none", exit_code |-> None, kept |-> OnBoth(0), lossy |-> OnBoth(FALSE),
             truncated |-> FALSE]

Init ==
  /\ phase = "idle" /\ limits = FALSE /\ result = NoResult
  /\ cgroup = FALSE /\ enrolled = {} /\ hardened = {} /\ child = "none" /\ status = None
  /\ orphan = FALSE /\ writers = OnBoth({}) /\ pipe = OnBoth(0) /\ sent = OnBoth(0)
  /\ buf = OnBoth(0) /\ truncated = OnBoth(FALSE) /\ reader = OnBoth("none")
  /\ read_failed = OnBoth(FALSE) /\ expired = FALSE /\ seen = None /\ unwatched = FALSE

(* A request has passed the other gates; what the last run left is another *)
(* directory and other processes, and is forgotten here.                   *)
Begin(l) ==
  /\ phase = "idle"
  /\ phase' = "cgroup_gate"
  /\ limits' = l
  /\ result' = NoResult
  /\ cgroup' = FALSE /\ enrolled' = {} /\ hardened' = {} /\ child' = "none" /\ status' = None
  /\ orphan' = FALSE /\ writers' = OnBoth({}) /\ pipe' = OnBoth(0) /\ sent' = OnBoth(0)
  /\ buf' = OnBoth(0) /\ truncated' = OnBoth(FALSE) /\ reader' = OnBoth("none")
  /\ read_failed' = OnBoth(FALSE) /\ expired' = FALSE /\ seen' = None /\ unwatched' = FALSE

(* String::from_utf8_lossy: a text that is not valid gets replacement      *)
(* characters where it is not.                                             *)
from_utf8_lossy(s) == buf[s] > 0 /\ buf[s] \notin Utf8[s]
Done(how, code) ==
  /\ phase' = "idle"
  /\ result' = [how |-> how, exit_code |-> code, kept |-> buf,
                lossy |-> [s \in Stream |-> from_utf8_lossy(s)],
                truncated |-> \E s \in Stream : truncated[s]]

(* Cgroup::create_for_self: no ceiling, no cgroup; what cannot be created  *)
(* or written is a rejection, and the directory goes with the guard.       *)
CreateCgroup ==
  /\ phase = "cgroup_gate"
  /\ cgroup' = limits
  /\ phase' = "spawn"
  /\ UNCHANGED <<limits, kernel, readers, waited, result>>
CgroupFails ==
  /\ phase = "cgroup_gate"
  /\ limits
  /\ Done("SandboxRejected", None)
  /\ UNCHANGED <<limits, cgroup, kernel, readers, waited>>

(* Drop for Cgroup: the kernel only removes an empty one. *)
DropCgroup == cgroup' = (cgroup /\ enrolled' # {})

(* cmd.spawn(): fork, then install() in the child, then execve. *)
Fork ==
  /\ phase = "spawn" /\ child = "none"
  /\ child' = "forked"
  /\ UNCHANGED <<phase, limits, cgroup, hardened, enrolled, status, orphan, writers, pipe, sent,
                 expired, readers, waited, result>>
set_no_new_privs == hardened = {} /\ hardened' = {"no_new_privs"}
apply_filter == hardened = {"no_new_privs"} /\ hardened' = {"no_new_privs", "seccomp"}
install ==
  /\ child = "forked"
  /\ set_no_new_privs \/ apply_filter
  /\ UNCHANGED <<phase, limits, cgroup, child, enrolled, status, orphan, writers, pipe, sent,
                 expired, readers, waited, result>>
Installed == child = "forked" /\ hardened = {"no_new_privs", "seccomp"}
Execve ==
  /\ Installed
  /\ child' = "running"
  /\ writers' = OnBoth({"child"})
  /\ UNCHANGED <<phase, limits, cgroup, hardened, enrolled, status, orphan, pipe, sent, expired,
                 readers, waited, result>>
(* fork, either call of install() or execve fails: spawn returns the error. *)
SpawnFails ==
  /\ phase = "spawn" /\ child \in {"none", "forked"}
  /\ child' = "none"
  /\ Done("spawn failed", KILLED)
  /\ UNCHANGED <<limits, hardened, enrolled, status, orphan, writers, pipe, sent, expired, readers,
                 waited>>
  /\ DropCgroup

(* spawn has returned; the script is already running. *)
Spawned ==
  /\ phase = "spawn" /\ child \in {"running", "zombie"}
  /\ phase' = IF limits THEN "enrol" ELSE "try_wait"
  /\ reader' = IF limits THEN reader ELSE OnBoth("reading")
  /\ UNCHANGED <<limits, cgroup, kernel, buf, truncated, read_failed, waited, result>>
Enrol ==
  /\ phase = "enrol"
  /\ enrolled' = IF child = "running" THEN {"child"} ELSE {}
  /\ phase' = "try_wait"
  /\ reader' = OnBoth("reading")
  /\ UNCHANGED <<limits, cgroup, hardened, child, status, orphan, writers, pipe, sent, expired,
                 buf, truncated, read_failed, waited, result>>

Gone(p) == writers' = [s \in Stream |-> writers[s] \ {p}] /\ enrolled' = enrolled \ {p}
(* child.kill(), child.wait(): the child is dead and reaped. *)
KillAndWait ==
  /\ child' = "none"
  /\ status' = IF child = "running" THEN Signal ELSE status
  /\ Gone("child")
EnrolFails ==
  /\ phase = "enrol"
  /\ KillAndWait
  /\ Done("cgroup enrolment failed", KILLED)
  /\ DropCgroup
  /\ UNCHANGED <<limits, hardened, orphan, pipe, sent, expired, readers, waited>>

(* One round of the loop: try_wait, and the clock only when it saw nothing. *)
TryWait ==
  /\ phase = "try_wait"
  /\ \/ child = "zombie" /\ phase' = "join" /\ child' = "none" /\ seen' = status
     \/ child = "running" /\ phase' = "deadline" /\ UNCHANGED <<child, seen>>
  /\ UNCHANGED <<limits, cgroup, hardened, enrolled, status, orphan, writers, pipe, sent, expired,
                 readers, unwatched, result>>
(* An error of try_wait ends the loop: the child is neither killed nor     *)
(* reaped, and the deadline is not looked at again.                        *)
TryWaitFails ==
  /\ phase = "try_wait"
  /\ phase' = "join"
  /\ unwatched' = TRUE
  /\ UNCHANGED <<limits, cgroup, kernel, readers, seen, result>>
NotYet ==
  /\ phase = "deadline" /\ ~expired
  /\ phase' = "try_wait"
  /\ UNCHANGED <<limits, cgroup, kernel, readers, waited, result>>
TimeoutNever ==
  /\ phase = "deadline"
  /\ phase' = "try_wait"
  /\ UNCHANGED <<limits, cgroup, kernel, readers, waited, result>>
TimeoutUnreaped ==
  /\ phase = "deadline" /\ expired
  /\ phase' = "join"
  /\ child' = IF child = "running" THEN "zombie" ELSE child
  /\ status' = IF child = "running" THEN Signal ELSE status
  /\ Gone("child")
  /\ UNCHANGED <<limits, cgroup, hardened, orphan, pipe, sent, expired, readers, waited, result>>
Timeout ==
  /\ phase = "deadline" /\ expired
  /\ KillAndWait
  /\ phase' = "join"
  /\ UNCHANGED <<limits, cgroup, hardened, orphan, pipe, sent, expired, readers, waited, result>>

(* read_capped: keep what fits, and go on reading so that nobody blocks. *)
KeptDropsChunk(s, n) == IF buf[s] + n > MAX_OUTPUT THEN buf[s] ELSE buf[s] + n
Kept(s, n) == Min({buf[s] + n, MAX_OUTPUT})
Read(s) ==
  /\ reader[s] = "reading" /\ pipe[s] > 0
  /\ \E n \in 1 .. Min({pipe[s], CHUNK}) :
       /\ pipe' = [pipe EXCEPT ![s] = @ - n]
       /\ buf' = [buf EXCEPT ![s] = Kept(s, n)]
       /\ truncated' = [truncated EXCEPT ![s] = @ \/ buf[s] + n > MAX_OUTPUT]
  /\ UNCHANGED <<phase, limits, cgroup, child, hardened, enrolled, status, orphan, writers, sent,
                 expired, reader, read_failed, waited, result>>
EndOfFile(s) ==
  /\ reader[s] = "reading" /\ pipe[s] = 0 /\ writers[s] = {}
  /\ reader' = [reader EXCEPT ![s] = "done"]
  /\ UNCHANGED <<phase, limits, cgroup, kernel, buf, truncated, read_failed, waited, result>>
(* A read that fails, or is interrupted by a signal, ends the reader like  *)
(* the end of the file, and closes its end of the pipe.                    *)
ReadFails(s) ==
  /\ reader[s] = "reading"
  /\ reader' = [reader EXCEPT ![s] = "done"]
  /\ read_failed' = [read_failed EXCEPT ![s] = TRUE]
  /\ UNCHANGED <<phase, limits, cgroup, kernel, buf, truncated, waited, result>>

Joined == \A s \in Stream : reader[s] = "done"
exit_code == IF seen \in Code THEN seen ELSE KILLED
Return ==
  /\ phase = "join"
  /\ Joined
  /\ Done("Completed", exit_code)
  /\ UNCHANGED <<limits, kernel, readers, waited>>
  /\ DropCgroup

(***************************************************************************)
(* The processes, and the clock.  Who writes to a pipe without a reader is *)
(* ended by a signal or told so, and writes nothing.  What a run leaves    *)
(* behind goes on after its return, but belongs to no run here.            *)
(***************************************************************************)
Alive(p) == IF p = "child" THEN child = "running" ELSE orphan
process == <<phase, limits, cgroup, hardened, expired, readers, waited, result>>

Write(p, s) ==
  /\ Alive(p) /\ p \in writers[s] /\ reader[s] # "done"
  /\ pipe[s] < PIPE /\ sent[s] < MaxBytes[s]
  /\ pipe' = [pipe EXCEPT ![s] = @ + 1]
  /\ sent' = [sent EXCEPT ![s] = @ + 1]
  /\ UNCHANGED <<process, child, enrolled, status, orphan, writers>>
Close(p, s) ==
  /\ Alive(p) /\ p \in writers[s]
  /\ writers' = [writers EXCEPT ![s] = @ \ {p}]
  /\ UNCHANGED <<process, child, enrolled, status, orphan, pipe, sent>>
Background ==
  /\ child = "running" /\ ~orphan
  /\ orphan' = TRUE
  /\ writers' = [s \in Stream |-> IF "child" \in writers[s] THEN Process ELSE writers[s]]
  /\ enrolled' = IF "child" \in enrolled THEN Process ELSE enrolled
  /\ UNCHANGED <<process, child, status, pipe, sent>>
Exit ==
  /\ child = "running"
  /\ child' = "zombie"
  /\ status' \in Code \union {Signal}
  /\ Gone("child")
  /\ UNCHANGED <<process, orphan, pipe, sent>>
OrphanExits ==
  /\ orphan
  /\ orphan' = FALSE
  /\ Gone("orphan")
  /\ UNCHANGED <<process, child, status, pipe, sent>>
Expire ==
  /\ phase \notin {"idle", "cgroup_gate"} /\ ~expired
  /\ expired' = TRUE
  /\ UNCHANGED <<phase, limits, cgroup, child, hardened, enrolled, status, orphan, writers, pipe,
                 sent, readers, waited, result>>

MainThread ==
  \/ CreateCgroup \/ CgroupFails
  \/ Fork \/ SpawnFails \/ Spawned
  \/ Enrol \/ EnrolFails
  \/ TryWait \/ TryWaitFails \/ NotYet \/ Timeout
  \/ Return
Starting == install \/ Execve
ReaderThread(s) == Read(s) \/ EndOfFile(s) \/ ReadFails(s)
Script ==
  \/ \E p \in Process, s \in Stream : Write(p, s) \/ Close(p, s)
  \/ Background
  \/ Exit
  \/ OrphanExits

Next ==
  \/ \E l \in BOOLEAN : Begin(l)
  \/ MainThread
  \/ Starting
  \/ \E s \in Stream : ReaderThread(s)
  \/ phase # "idle" /\ Script
  \/ Expire

Spec == Init /\ [][Next]_vars

(* The executor's threads are scheduled, the kernel finishes a fork and    *)
(* execve, and time passes.  Nothing is assumed of the script, and no read *)
(* has to fail: a reader waits at an empty pipe for as long as it is open. *)
Fairness ==
  /\ WF_vars(MainThread)
  /\ WF_vars(Starting)
  /\ \A s \in Stream : WF_vars(Read(s) \/ EndOfFile(s))
  /\ WF_vars(Expire)
FairSpec == Spec /\ Fairness

-----------------------------------------------------------------------------
TypeOK ==
  /\ phase \in {"idle", "cgroup_gate", "spawn", "enrol", "try_wait", "deadline", "join"}
  /\ limits \in BOOLEAN /\ cgroup \in BOOLEAN /\ orphan \in BOOLEAN /\ expired \in BOOLEAN
  /\ enrolled \subseteq Process
  /\ hardened \subseteq {"no_new_privs", "seccomp"}
  /\ child \in {"none", "forked", "running", "zombie"}
  /\ {status, seen} \subseteq Code \union {Signal, None}
  /\ writers \in [Stream -> SUBSET Process]
  /\ pipe \in [Stream -> 0 .. PIPE]
  /\ sent \in [Stream -> Nat] /\ \A s \in Stream : sent[s] <= MaxBytes[s]
  /\ buf \in [Stream -> 0 .. MAX_OUTPUT]
  /\ truncated \in [Stream -> BOOLEAN]
  /\ reader \in [Stream -> {"none", "reading", "done"}]
  /\ read_failed \in [Stream -> BOOLEAN] /\ unwatched \in BOOLEAN
  /\ result.exit_code \in Code \union {KILLED, None}

(* sandbox.rs read_capped: the response carries the first max_output bytes *)
(* of each stream, nothing in them is missing, and output_truncated says   *)
(* exactly whether there were more - however the writes, the chunks, the   *)
(* exit, the kill and the two threads interleave.  The text differs from   *)
(* what the script printed only where that is no UTF-8, or was cut.  All   *)
(* of it with one exception: of a stream whose reading failed the response *)
(* has some beginning, and nothing in it says that there was more.         *)
OutputFaithful ==
  result.how = "Completed" =>
    /\ \A s \in Stream :
         \/ read_failed[s] /\ result.kept[s] <= Min({sent[s], MAX_OUTPUT})
         \/ /\ result.kept[s] = Min({sent[s], MAX_OUTPUT})
            /\ result.lossy[s] => sent[s] > MAX_OUTPUT \/ sent[s] \notin Utf8[s]
    /\ result.truncated => \E s \in Stream : sent[s] > MAX_OUTPUT
    /\ (\E s \in Stream : sent[s] > MAX_OUTPUT /\ ~read_failed[s]) => result.truncated

(* RunResult: an exit code is the script's own; -1 stands for a signal, or *)
(* for a run whose deadline had passed, even if the script beat the kill,  *)
(* or for one nobody could wait for.                                       *)
HonestExit ==
  result.how = "Completed" =>
    \/ result.exit_code \in Code /\ result.exit_code = status
    \/ result.exit_code = KILLED /\ (status = Signal \/ expired \/ unwatched)

(* No script runs without no_new_privs and the filter, and a refusal means *)
(* that it did not run, or no longer does.                                 *)
NeverUnconfined ==
  /\ child \in {"running", "zombie"} => hardened = {"no_new_privs", "seccomp"}
  /\ result.how = "SandboxRejected" => hardened = {} /\ sent = OnBoth(0)
  /\ result.how = "cgroup enrolment failed" => ~Alive("child")

(* Between two runs the executor keeps no child, no zombie and no cgroup,  *)
(* except a child it failed to wait for, and a cgroup in which that or a   *)
(* background process still runs.                                          *)
NothingLeft ==
  phase = "idle" =>
    /\ child = "none" \/ unwatched
    /\ cgroup => \/ orphan /\ "orphan" \in enrolled
                 \/ unwatched /\ child = "running" /\ "child" \in enrolled

(* The response says what happened (RunResult, handler.rs execute).        *)
ResultFaithful == OutputFaithful /\ HonestExit

(* A script is confined while it runs and gone when its run is over.       *)
ConfinedAndReaped == NeverUnconfined /\ NothingLeft

(* Every run ends at the latest after its timeout, with two exceptions: a  *)
(* background process keeps a pipe open for ever, or the child does which  *)
(* try_wait failed to wait for, and which nobody kills at the deadline.    *)
HoldsPipe(p) == \E s \in Stream : p \in writers[s]
RunReturns ==
  \/ []<>(phase = "idle")
  \/ <>[](orphan /\ HoldsPipe("orphan"))
  \/ <>[](unwatched /\ HoldsPipe("child"))

(* sandbox.rs: "a hung action is killed, never wedges the executor".  A    *)
(* run whose try_wait failed is left aside, so that what is refuted is the *)
(* promise about the ordinary path.                                        *)
NeverWedges == <>unwatched \/ []<>(phase = "idle")

-----------------------------------------------------------------------------
(* What makes these properties inductive.  The main thread's phase says    *)
(* where the child can be; who is in the cgroup is alive; no reader runs   *)
(* before the child is enrolled.                                           *)
Outcome == {"none", "SandboxRejected", "spawn failed", "cgroup enrolment failed", "Completed"}
ResultOK ==
  /\ result \in [how : Outcome, exit_code : Code \union {KILLED, None},
                 kept : [Stream -> 0 .. MAX_OUTPUT], lossy : [Stream -> BOOLEAN],
                 truncated : BOOLEAN]
  /\ phase # "idle" => result = NoResult
ChildPlaced ==
  /\ phase = "cgroup_gate" \/ (phase \in {"idle", "join"} /\ ~unwatched) => child = "none"
  /\ unwatched => phase \in {"join", "idle"} /\ child \in {"running", "zombie"}
  /\ phase \in {"enrol", "try_wait", "deadline"} => child \in {"running", "zombie"}
  /\ phase \in {"cgroup_gate", "spawn", "enrol"} => enrolled = {} /\ reader = OnBoth("none")
  /\ phase = "cgroup_gate" => cgroup = FALSE
  /\ "child" \in enrolled => child = "running"
  /\ "orphan" \in enrolled => orphan
Untouched == hardened = {} /\ sent = OnBoth(0) /\ child = "none" /\ ~orphan
NotStarted ==
  phase = "cgroup_gate" \/ result.how = "SandboxRejected" => Untouched

(* A reader has kept what fits of the bytes it has taken out of its pipe,  *)
(* and unless a read failed it is done only when nobody can write to that  *)
(* pipe any more.                                                          *)
Taken(s) == sent[s] - pipe[s]
BytesKept ==
  \A s \in Stream :
    /\ pipe[s] <= sent[s]
    /\ buf[s] = IF Taken(s) <= MAX_OUTPUT THEN Taken(s) ELSE MAX_OUTPUT
    /\ truncated[s] <=> Taken(s) > MAX_OUTPUT
    /\ reader[s] = "done" /\ ~read_failed[s] => pipe[s] = 0 /\ writers[s] = {}

(* What try_wait saw is how the child ended; it saw nothing only of a      *)
(* child that was killed after the deadline, or when it failed.            *)
Concluded == phase = "join" \/ result.how = "Completed"
StatusSeen ==
  /\ child = "zombie" => status # None
  /\ seen # None => phase \in {"join", "idle"} /\ seen = status /\ ~unwatched
  /\ Concluded => seen # None \/ expired \/ unwatched
ResultIsBuffer ==
  result.how = "Completed" =>
    /\ Joined
    /\ result.kept = buf /\ result.lossy = [s \in Stream |-> from_utf8_lossy(s)]
    /\ result.truncated = (\E s \in Stream : truncated[s])
    /\ result.exit_code = exit_code

IInv ==
  /\ TypeOK /\ ResultOK
  /\ ChildPlaced /\ NotStarted /\ BytesKept /\ StatusSeen /\ ResultIsBuffer
  /\ ConfinedAndReaped
=============================================================================
