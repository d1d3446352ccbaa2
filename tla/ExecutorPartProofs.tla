--------------------------- MODULE ExecutorPartProofs ---------------------------
(***************************************************************************)
(* Proofs about the parts of the executor by themselves: its runner, its   *)
(* replay guard and its blast-rate limiter.                                *)
(***************************************************************************)
EXTENDS Runner, ReplayGuard, RateLimiter, FiniteSetTheorems, SequenceTheorems,
        WellFoundedInduction, TLAPS

-----------------------------------------------------------------------------
(* The runner, for every output cap, chunk and pipe size: what it reports  *)
(* of a run is what the run did, and nothing it started is left behind     *)
(* unconfined or unreaped, however its main thread, its two readers, the   *)
(* kernel, the script and the script's background process interleave.      *)

(* A non-empty set of naturals has a least element: what Min chooses. *)
LEMMA MinIsLeast ==
  ASSUME NEW S \in SUBSET Nat, S # {}
  PROVE  Min(S) \in S /\ \A j \in S : Min(S) <= j
PROOF
  <1>1. PICK m \in S : \A j \in S : ~(<<j, m>> \in OpToRel(<, Nat))
    BY WFMin, NatLessThanWellFounded
  <1>2. \A j \in S : ~(j < m)
    BY <1>1 DEF OpToRel
  <1>3. \A j \in S : m <= j
    BY <1>2
  <1> QED BY <1>3 DEF Min

(* The smaller of two numbers. *)
LEMMA MinOfTwo ==
  ASSUME NEW a \in Int, NEW b \in Int
  PROVE  Min({a, b}) = IF a <= b THEN a ELSE b
PROOF
  <1>1. \E x \in {a, b} : \A y \in {a, b} : x <= y
    OBVIOUS
  <1> QED BY <1>1 DEF Min

(* The first state. *)
LEMMA InitIInv == Init => IInv
PROOF
  <1> SUFFICES ASSUME Init PROVE IInv
    OBVIOUS
  <1> USE RunnerAssumption DEF Init, Stream, OnBoth, NoResult
  <1>1. TypeOK
    <2>1. \A s \in Stream : sent[s] <= MaxBytes[s]
      OBVIOUS
    <2>2. /\ writers \in [Stream -> SUBSET Process] /\ pipe \in [Stream -> 0 .. PIPE]
          /\ sent \in [Stream -> Nat] /\ buf \in [Stream -> 0 .. MAX_OUTPUT]
          /\ truncated \in [Stream -> BOOLEAN] /\ reader \in [Stream -> {"none", "reading", "done"}]
          /\ read_failed \in [Stream -> BOOLEAN] /\ unwatched = FALSE
      OBVIOUS
    <2>3. /\ result.exit_code = None /\ phase \in {"idle", "cgroup_gate"}
          /\ limits \in BOOLEAN /\ cgroup \in BOOLEAN /\ orphan \in BOOLEAN /\ expired \in BOOLEAN
          /\ enrolled = {} /\ hardened = {} /\ child = "none"
          /\ {status, seen} \subseteq {None}
      OBVIOUS
    <2> HIDE DEF Init, Stream, OnBoth, NoResult
    <2> QED BY <2>1, <2>2, <2>3 DEF TypeOK
  <1>2. ResultOK
    BY DEF ResultOK, Outcome, KILLED, None
  <1>3. ChildPlaced /\ NotStarted
    BY DEF ChildPlaced, NotStarted, Untouched
  <1>4. StatusSeen /\ ResultIsBuffer
    BY DEF StatusSeen, Concluded, ResultIsBuffer
  <1>5. BytesKept
    <2>1. \A s \in Stream : /\ pipe[s] = 0 /\ sent[s] = 0 /\ buf[s] = 0
                            /\ truncated[s] = FALSE /\ reader[s] = "none"
      OBVIOUS
    <2> HIDE DEF Init, Stream
    <2>2. \A s \in Stream : Taken(s) = 0 /\ ~(Taken(s) > MAX_OUTPUT)
      BY <2>1 DEF Taken
    <2> QED BY <2>1, <2>2 DEF BytesKept
  <1>6. ConfinedAndReaped
    BY DEF ConfinedAndReaped, NeverUnconfined, NothingLeft
  <1> QED BY <1>1, <1>2, <1>3, <1>4, <1>5, <1>6 DEF IInv

-----------------------------------------------------------------------------
(* The bytes of a stream are none of the business of a step that touches   *)
(* neither its pipe nor its reader's buffer, starts the readers at most    *)
(* and gives nobody a write end of a pipe all have closed.                 *)
LEMMA BytesStay ==
  ASSUME BytesKept, UNCHANGED <<pipe, sent, buf, truncated>>,
         \A s \in Stream : reader'[s] = "done" /\ ~read_failed'[s] =>
           /\ reader[s] = "done" /\ ~read_failed[s]
           /\ writers[s] = {} => writers'[s] = {}
  PROVE  BytesKept'
  BY DEF BytesKept, Taken

(* As long as a run is under way there is no result to keep. *)
LEMMA NoResultYet ==
  ASSUME ResultOK, phase # "idle", UNCHANGED result
  PROVE  ResultOK' /\ ResultIsBuffer' /\ result'.how = "none"
PROOF
  <1>1. result' = result /\ result = NoResult
    BY DEF ResultOK
  <1>2. result'.how = "none"
    BY <1>1 DEF NoResult
  <1>3. ResultOK'
    BY <1>1 DEF ResultOK
  <1> QED BY <1>2, <1>3 DEF ResultIsBuffer

(* Up to the enrolment of the child. *)
LEMMA StartInv ==
  ASSUME IInv, CreateCgroup \/ Fork \/ install \/ Execve \/ Spawned \/ Enrol
  PROVE  IInv'
PROOF
  <1> USE RunnerAssumption DEF IInv, Stream, Process, KILLED, Signal, None, OnBoth, NoResult,
                               kernel, readers, waited, process
  <1>1. CASE CreateCgroup
    <2>1. TypeOK'
      BY <1>1 DEF CreateCgroup, TypeOK
    <2>2. ResultOK' /\ ResultIsBuffer' /\ result'.how = "none"
      BY <1>1, NoResultYet DEF CreateCgroup, ChildPlaced
    <2>3. StatusSeen'
      BY <1>1, <2>2 DEF CreateCgroup, TypeOK, ChildPlaced, StatusSeen, Concluded
    <2>4. ChildPlaced' /\ NotStarted' /\ ConfinedAndReaped'
      BY <1>1, <2>2 DEF CreateCgroup, TypeOK, ChildPlaced, NotStarted, Untouched,
              ConfinedAndReaped, NeverUnconfined, NothingLeft, Alive
    <2>5. BytesKept'
      BY <1>1, BytesStay DEF CreateCgroup, TypeOK, ChildPlaced
    <2> QED BY <2>1, <2>2, <2>3, <2>4, <2>5 DEF IInv
  <1>2. CASE Fork
    <2>1. TypeOK'
      BY <1>2 DEF Fork, TypeOK
    <2>2. ResultOK' /\ ResultIsBuffer' /\ result'.how = "none"
      BY <1>2, NoResultYet DEF Fork, ChildPlaced
    <2>3. StatusSeen'
      BY <1>2, <2>2 DEF Fork, TypeOK, ChildPlaced, StatusSeen, Concluded
    <2>4. ChildPlaced' /\ NotStarted' /\ ConfinedAndReaped'
      BY <1>2, <2>2 DEF Fork, TypeOK, ChildPlaced, NotStarted, Untouched,
              ConfinedAndReaped, NeverUnconfined, NothingLeft, Alive
    <2>5. BytesKept'
      BY <1>2, BytesStay DEF Fork, TypeOK, ChildPlaced
    <2> QED BY <2>1, <2>2, <2>3, <2>4, <2>5 DEF IInv
  <1>3. CASE install
    <2>1. TypeOK'
      BY <1>3 DEF install, set_no_new_privs, apply_filter, TypeOK
    <2>2. ResultOK' /\ ResultIsBuffer' /\ result'.how = "none"
      BY <1>3, NoResultYet DEF install, set_no_new_privs, apply_filter, ChildPlaced
    <2>3. StatusSeen'
      BY <1>3, <2>2 DEF install, set_no_new_privs, apply_filter, TypeOK,
              ChildPlaced, StatusSeen, Concluded
    <2>4. ChildPlaced' /\ NotStarted' /\ ConfinedAndReaped'
      BY <1>3, <2>2 DEF install, set_no_new_privs, apply_filter, TypeOK,
              ChildPlaced, NotStarted, Untouched, ConfinedAndReaped,
              NeverUnconfined, NothingLeft, Alive
    <2>5. BytesKept'
      BY <1>3, BytesStay DEF install, set_no_new_privs, apply_filter, TypeOK, ChildPlaced
    <2> QED BY <2>1, <2>2, <2>3, <2>4, <2>5 DEF IInv
  <1>4. CASE Execve
    <2>1. TypeOK'
      BY <1>4 DEF Execve, Installed, TypeOK
    <2>2. ResultOK' /\ ResultIsBuffer' /\ result'.how = "none"
      BY <1>4, NoResultYet DEF Execve, Installed, ChildPlaced
    <2>3. StatusSeen'
      BY <1>4, <2>2 DEF Execve, Installed, TypeOK, ChildPlaced, StatusSeen, Concluded
    <2>4. ChildPlaced' /\ NotStarted' /\ ConfinedAndReaped'
      BY <1>4, <2>2 DEF Execve, Installed, TypeOK, ChildPlaced, NotStarted,
              Untouched, ConfinedAndReaped, NeverUnconfined, NothingLeft, Alive
    <2>5. BytesKept'
      BY <1>4, BytesStay DEF Execve, Installed, TypeOK, ChildPlaced
    <2> QED BY <2>1, <2>2, <2>3, <2>4, <2>5 DEF IInv
  <1>5. CASE Spawned
    <2>1. TypeOK'
      BY <1>5 DEF Spawned, TypeOK
    <2>2. ResultOK' /\ ResultIsBuffer' /\ result'.how = "none"
      BY <1>5, NoResultYet DEF Spawned, ChildPlaced
    <2>3. StatusSeen'
      BY <1>5, <2>2 DEF Spawned, TypeOK, ChildPlaced, StatusSeen, Concluded
    <2>4. ChildPlaced' /\ NotStarted' /\ ConfinedAndReaped'
      BY <1>5, <2>2 DEF Spawned, TypeOK, ChildPlaced, NotStarted, Untouched,
              ConfinedAndReaped, NeverUnconfined, NothingLeft, Alive
    <2>5. BytesKept'
      BY <1>5, BytesStay DEF Spawned, TypeOK, ChildPlaced
    <2> QED BY <2>1, <2>2, <2>3, <2>4, <2>5 DEF IInv
  <1>6. CASE Enrol
    <2>1. TypeOK'
      BY <1>6 DEF Enrol, TypeOK
    <2>2. ResultOK' /\ ResultIsBuffer' /\ result'.how = "none"
      BY <1>6, NoResultYet DEF Enrol, ChildPlaced
    <2>3. StatusSeen'
      BY <1>6, <2>2 DEF Enrol, TypeOK, ChildPlaced, StatusSeen, Concluded
    <2>4. ChildPlaced' /\ NotStarted' /\ ConfinedAndReaped'
      BY <1>6, <2>2 DEF Enrol, TypeOK, ChildPlaced, NotStarted, Untouched,
              ConfinedAndReaped, NeverUnconfined, NothingLeft, Alive
    <2>5. BytesKept'
      BY <1>6, BytesStay DEF Enrol, TypeOK, ChildPlaced
    <2> QED BY <2>1, <2>2, <2>3, <2>4, <2>5 DEF IInv
  <1> QED BY <1>1, <1>2, <1>3, <1>4, <1>5, <1>6

(* The loop around try_wait, and the deadline. *)
LEMMA LoopInv ==
  ASSUME IInv, TryWait \/ TryWaitFails \/ NotYet \/ Timeout \/ Expire
  PROVE  IInv'
PROOF
  <1> USE RunnerAssumption DEF IInv, Stream, Process, KILLED, Signal, None, OnBoth, NoResult,
                               kernel, readers, waited, process
  <1>1. CASE TryWait
    <2>1. TypeOK'
      BY <1>1 DEF TryWait, TypeOK
    <2>2. ResultOK' /\ ResultIsBuffer' /\ result'.how = "none"
      BY <1>1, NoResultYet DEF TryWait, ChildPlaced
    <2>3. StatusSeen'
      BY <1>1, <2>2 DEF TryWait, TypeOK, ChildPlaced, StatusSeen, Concluded
    <2>4. ChildPlaced' /\ NotStarted' /\ ConfinedAndReaped'
      BY <1>1, <2>2 DEF TryWait, TypeOK, ChildPlaced, NotStarted, Untouched,
              ConfinedAndReaped, NeverUnconfined, NothingLeft, Alive
    <2>5. BytesKept'
      BY <1>1, BytesStay DEF TryWait, TypeOK, ChildPlaced
    <2> QED BY <2>1, <2>2, <2>3, <2>4, <2>5 DEF IInv
  <1>2. CASE NotYet
    <2>1. TypeOK'
      BY <1>2 DEF NotYet, TypeOK
    <2>2. ResultOK' /\ ResultIsBuffer' /\ result'.how = "none"
      BY <1>2, NoResultYet DEF NotYet, ChildPlaced
    <2>3. StatusSeen'
      BY <1>2, <2>2 DEF NotYet, TypeOK, ChildPlaced, StatusSeen, Concluded
    <2>4. ChildPlaced' /\ NotStarted' /\ ConfinedAndReaped'
      BY <1>2, <2>2 DEF NotYet, TypeOK, ChildPlaced, NotStarted, Untouched,
              ConfinedAndReaped, NeverUnconfined, NothingLeft, Alive
    <2>5. BytesKept'
      BY <1>2, BytesStay DEF NotYet, TypeOK, ChildPlaced
    <2> QED BY <2>1, <2>2, <2>3, <2>4, <2>5 DEF IInv
  <1>3. CASE Timeout
    <2>1. TypeOK'
      BY <1>3 DEF Timeout, KillAndWait, Gone, TypeOK
    <2>2. ResultOK' /\ ResultIsBuffer' /\ result'.how = "none"
      BY <1>3, NoResultYet DEF Timeout, KillAndWait, Gone, ChildPlaced
    <2>3. StatusSeen'
      BY <1>3, <2>2 DEF Timeout, KillAndWait, Gone, TypeOK, ChildPlaced, StatusSeen,
              Concluded
    <2>4. ChildPlaced' /\ NotStarted' /\ ConfinedAndReaped'
      BY <1>3, <2>2 DEF Timeout, KillAndWait, Gone, TypeOK, ChildPlaced, NotStarted,
              Untouched, ConfinedAndReaped, NeverUnconfined, NothingLeft, Alive
    <2>5. BytesKept'
      BY <1>3, BytesStay DEF Timeout, KillAndWait, Gone, TypeOK, ChildPlaced
    <2> QED BY <2>1, <2>2, <2>3, <2>4, <2>5 DEF IInv
  <1>4. CASE Expire
    <2>1. TypeOK'
      BY <1>4 DEF Expire, TypeOK
    <2>2. ResultOK' /\ ResultIsBuffer' /\ result'.how = "none"
      BY <1>4, NoResultYet DEF Expire, ChildPlaced
    <2>3. StatusSeen'
      BY <1>4, <2>2 DEF Expire, TypeOK, ChildPlaced, StatusSeen, Concluded
    <2>4. ChildPlaced' /\ NotStarted' /\ ConfinedAndReaped'
      BY <1>4, <2>2 DEF Expire, TypeOK, ChildPlaced, NotStarted, Untouched,
              ConfinedAndReaped, NeverUnconfined, NothingLeft, Alive
    <2>5. BytesKept'
      BY <1>4, BytesStay DEF Expire, TypeOK, ChildPlaced
    <2> QED BY <2>1, <2>2, <2>3, <2>4, <2>5 DEF IInv
  <1>5. CASE TryWaitFails
    <2>1. TypeOK'
      BY <1>5 DEF TryWaitFails, TypeOK
    <2>2. ResultOK' /\ ResultIsBuffer' /\ result'.how = "none"
      BY <1>5, NoResultYet DEF TryWaitFails, ChildPlaced
    <2>3. StatusSeen'
      BY <1>5, <2>2 DEF TryWaitFails, TypeOK, ChildPlaced, StatusSeen, Concluded
    <2>4. ChildPlaced' /\ NotStarted' /\ ConfinedAndReaped'
      BY <1>5, <2>2 DEF TryWaitFails, TypeOK, ChildPlaced, NotStarted, Untouched,
              ConfinedAndReaped, NeverUnconfined, NothingLeft, Alive
    <2>5. BytesKept'
      BY <1>5, BytesStay DEF TryWaitFails, TypeOK, ChildPlaced
    <2> QED BY <2>1, <2>2, <2>3, <2>4, <2>5 DEF IInv
  <1> QED BY <1>1, <1>2, <1>3, <1>4, <1>5

(* What Done makes of the buffers is a result of the type of one. *)
LEMMA DoneResult ==
  ASSUME IInv, NEW how \in Outcome, NEW code \in Code \union {KILLED, None}, Done(how, code),
         UNCHANGED <<buf, truncated, reader, seen>>, how = "Completed" => Joined /\ code = exit_code
  PROVE  ResultOK' /\ ResultIsBuffer'
PROOF
  <1> DEFINE lossy == [s \in Stream |-> from_utf8_lossy(s)]
             cut == \E s \in Stream : truncated[s]
  <1>1. lossy \in [Stream -> BOOLEAN] /\ buf \in [Stream -> 0 .. MAX_OUTPUT]
    <2>1. \A s \in Stream : from_utf8_lossy(s) \in BOOLEAN
      BY DEF from_utf8_lossy
    <2> QED BY <2>1 DEF IInv, TypeOK
  <1>2. cut \in BOOLEAN
    BY Zenon
  <1>3. /\ phase' = "idle" /\ lossy' = lossy /\ cut' = cut
        /\ result' = [how |-> how, exit_code |-> code, kept |-> buf, lossy |-> lossy,
                      truncated |-> cut]
    BY Zenon DEF Done, from_utf8_lossy
  <1> HIDE DEF lossy, cut
  <1>4. ResultOK'
    BY <1>1, <1>2, <1>3 DEF ResultOK
  <1>5. (result.kept = buf)' /\ result'.lossy = lossy' /\ result'.truncated = cut'
    BY <1>3
  <1>6. result'.how = "Completed" => Joined' /\ result'.exit_code = exit_code'
    BY <1>3 DEF Joined, exit_code
  <1>7. ResultIsBuffer'
    BY <1>5, <1>6, Zenon DEF ResultIsBuffer, lossy, cut
  <1> QED BY <1>4, <1>7

(* The ways a run ends. *)
LEMMA EndInv ==
  ASSUME IInv, CgroupFails \/ SpawnFails \/ EnrolFails \/ Return
  PROVE  IInv'
PROOF
  <1> USE RunnerAssumption DEF IInv, Stream, Process, KILLED, Signal, None, OnBoth, NoResult,
                               kernel, readers, waited, process
  <1>1. CASE CgroupFails
    <2>1. TypeOK'
      BY <1>1 DEF CgroupFails, Done, TypeOK
    <2>2. ResultOK' /\ ResultIsBuffer'
      BY <1>1, DoneResult DEF CgroupFails, Outcome
    <2>3. StatusSeen'
      BY <1>1, <2>2 DEF CgroupFails, Done, TypeOK, ChildPlaced, StatusSeen, Concluded
    <2>4. ChildPlaced' /\ NotStarted' /\ ConfinedAndReaped'
      BY <1>1, <2>2 DEF CgroupFails, Done, TypeOK, ChildPlaced, NotStarted,
              Untouched, ConfinedAndReaped, NeverUnconfined, NothingLeft, Alive
    <2>5. BytesKept'
      BY <1>1, BytesStay DEF CgroupFails, Done, TypeOK, ChildPlaced
    <2> QED BY <2>1, <2>2, <2>3, <2>4, <2>5 DEF IInv
  <1>2. CASE SpawnFails
    <2>1. TypeOK'
      BY <1>2 DEF SpawnFails, Done, DropCgroup, TypeOK
    <2>2. ResultOK' /\ ResultIsBuffer'
      BY <1>2, DoneResult DEF SpawnFails, Outcome
    <2>3. StatusSeen'
      BY <1>2, <2>2 DEF SpawnFails, Done, DropCgroup, TypeOK, ChildPlaced,
              StatusSeen, Concluded
    <2>4. ChildPlaced' /\ NotStarted' /\ ConfinedAndReaped'
      BY <1>2, <2>2 DEF SpawnFails, Done, DropCgroup, TypeOK, ChildPlaced,
              NotStarted, Untouched, ConfinedAndReaped, NeverUnconfined,
              NothingLeft, Alive
    <2>5. BytesKept'
      BY <1>2, BytesStay DEF SpawnFails, Done, DropCgroup, TypeOK, ChildPlaced
    <2> QED BY <2>1, <2>2, <2>3, <2>4, <2>5 DEF IInv
  <1>3. CASE EnrolFails
    <2>1. TypeOK'
      BY <1>3 DEF EnrolFails, Done, DropCgroup, KillAndWait, Gone, TypeOK
    <2>2. ResultOK' /\ ResultIsBuffer'
      BY <1>3, DoneResult DEF EnrolFails, Outcome
    <2>3. StatusSeen'
      BY <1>3, <2>2 DEF EnrolFails, Done, DropCgroup, KillAndWait, Gone, TypeOK,
              ChildPlaced, StatusSeen, Concluded
    <2>4. ChildPlaced' /\ NotStarted' /\ ConfinedAndReaped'
      BY <1>3, <2>2 DEF EnrolFails, Done, DropCgroup, KillAndWait, Gone, TypeOK,
              ChildPlaced, NotStarted, Untouched, ConfinedAndReaped,
              NeverUnconfined, NothingLeft, Alive
    <2>5. BytesKept'
      BY <1>3, BytesStay DEF EnrolFails, Done, DropCgroup, KillAndWait, Gone,
              TypeOK, ChildPlaced
    <2> QED BY <2>1, <2>2, <2>3, <2>4, <2>5 DEF IInv
  <1>4. CASE Return
    <2>1. TypeOK'
      BY <1>4 DEF Return, Done, DropCgroup, exit_code, TypeOK
    <2>2. ResultOK' /\ ResultIsBuffer'
      BY <1>4, DoneResult DEF Return, Outcome, exit_code
    <2>3. StatusSeen'
      BY <1>4, <2>2 DEF Return, Done, DropCgroup, exit_code, TypeOK, ChildPlaced,
              StatusSeen, Concluded
    <2>4. /\ UNCHANGED <<enrolled, child, orphan, unwatched>>
          /\ child = "none" \/ unwatched
          /\ phase' = "idle" /\ result'.how = "Completed"
      BY <1>4 DEF Return, Done, ChildPlaced
    <2>5. ASSUME cgroup'
          PROVE  \/ orphan' /\ "orphan" \in enrolled'
                 \/ unwatched' /\ child' = "running" /\ "child" \in enrolled'
      <3>1. enrolled # {} /\ enrolled \subseteq {"child", "orphan"}
        BY <1>4, <2>4, <2>5, Zenon DEF Return, DropCgroup, TypeOK
      <3>2. "child" \in enrolled \/ "orphan" \in enrolled
        BY <3>1
      <3>3. /\ "child" \in enrolled => child = "running"
            /\ "orphan" \in enrolled => orphan
            /\ child = "running" => unwatched
        BY <2>4 DEF ChildPlaced
      <3> QED BY <2>4, <3>2, <3>3, Zenon
    <2>6. ChildPlaced' /\ NotStarted' /\ ConfinedAndReaped'
      <3>1. ChildPlaced' /\ NotStarted'
        BY <1>4, <2>4 DEF Return, TypeOK, ChildPlaced, NotStarted
      <3>2. NeverUnconfined' /\ NothingLeft'
        <4>1. NeverUnconfined'
          BY <1>4, <2>4 DEF Return, ConfinedAndReaped, NeverUnconfined
        <4>2. NothingLeft'
          BY <2>4, <2>5, Zenon DEF NothingLeft
        <4> QED BY <4>1, <4>2
      <3> QED BY <3>1, <3>2, Zenon DEF ConfinedAndReaped
    <2>7. BytesKept'
      BY <1>4, BytesStay DEF Return
    <2> QED BY <2>1, <2>2, <2>3, <2>6, <2>7 DEF IInv
  <1> QED BY <1>1, <1>2, <1>3, <1>4

(* The script and its background process come and go. *)
LEMMA ScriptInv ==
  ASSUME IInv, phase # "idle", Background \/ Exit \/ OrphanExits
  PROVE  IInv'
PROOF
  <1> USE RunnerAssumption DEF IInv, Stream, Process, KILLED, Signal, None, OnBoth, NoResult,
                               kernel, readers, waited, process
  <1>1. CASE Background
    <2>1. TypeOK'
      BY <1>1 DEF Background, TypeOK
    <2>2. ResultOK' /\ ResultIsBuffer' /\ result'.how = "none"
      BY <1>1, NoResultYet DEF Background, ChildPlaced
    <2>3. StatusSeen'
      BY <1>1, <2>2 DEF Background, TypeOK, ChildPlaced, StatusSeen, Concluded
    <2>4. ChildPlaced' /\ NotStarted' /\ ConfinedAndReaped'
      BY <1>1, <2>2 DEF Background, TypeOK, ChildPlaced, NotStarted, Untouched,
              ConfinedAndReaped, NeverUnconfined, NothingLeft, Alive
    <2>5. BytesKept'
      BY <1>1, BytesStay DEF Background, TypeOK, ChildPlaced
    <2> QED BY <2>1, <2>2, <2>3, <2>4, <2>5 DEF IInv
  <1>2. CASE Exit
    <2>1. TypeOK'
      BY <1>2 DEF Exit, Gone, TypeOK
    <2>2. ResultOK' /\ ResultIsBuffer' /\ result'.how = "none"
      BY <1>2, NoResultYet DEF Exit, Gone, ChildPlaced
    <2>3. StatusSeen'
      <3>1. /\ status' \in Code \union {Signal} /\ phase' = phase /\ seen' = seen
            /\ expired' = expired /\ unwatched' = unwatched /\ child' = "zombie"
        BY <1>2 DEF Exit, Gone
      <3>2. status' # None
        BY <3>1
      <3>3. seen = None
        BY <1>2 DEF Exit, ChildPlaced, StatusSeen
      <3>4. Concluded' => expired' \/ unwatched'
        BY <2>2, <3>1, <3>3 DEF Concluded, StatusSeen
      <3> QED BY <3>1, <3>2, <3>3, <3>4, Zenon DEF StatusSeen
    <2>4. ChildPlaced' /\ NotStarted' /\ ConfinedAndReaped'
      BY <1>2, <2>2 DEF Exit, Gone, TypeOK, ChildPlaced, NotStarted, Untouched,
              ConfinedAndReaped, NeverUnconfined, NothingLeft, Alive
    <2>5. BytesKept'
      BY <1>2, BytesStay DEF Exit, Gone, TypeOK, ChildPlaced
    <2> QED BY <2>1, <2>2, <2>3, <2>4, <2>5 DEF IInv
  <1>3. CASE OrphanExits
    <2>1. TypeOK'
      BY <1>3 DEF OrphanExits, Gone, TypeOK
    <2>2. ResultOK' /\ ResultIsBuffer' /\ result'.how = "none"
      BY <1>3, NoResultYet DEF OrphanExits, Gone, ChildPlaced
    <2>3. StatusSeen'
      BY <1>3, <2>2 DEF OrphanExits, Gone, TypeOK, ChildPlaced, StatusSeen, Concluded
    <2>4. ChildPlaced' /\ NotStarted' /\ ConfinedAndReaped'
      BY <1>3, <2>2 DEF OrphanExits, Gone, TypeOK, ChildPlaced, NotStarted,
              Untouched, ConfinedAndReaped, NeverUnconfined, NothingLeft, Alive
    <2>5. BytesKept'
      BY <1>3, BytesStay DEF OrphanExits, Gone, TypeOK, ChildPlaced
    <2> QED BY <2>1, <2>2, <2>3, <2>4, <2>5 DEF IInv
  <1> QED BY <1>1, <1>2, <1>3

(* The next request: nothing is carried over. *)
LEMMA BeginInv ==
  ASSUME IInv, NEW l \in BOOLEAN, Begin(l)
  PROVE  IInv'
PROOF
  <1> USE RunnerAssumption DEF Begin, Stream, OnBoth, NoResult
  <1>1. TypeOK'
    <2>1. \A s \in Stream : sent'[s] <= MaxBytes[s]
      OBVIOUS
    <2>2. /\ writers' \in [Stream -> SUBSET Process] /\ pipe' \in [Stream -> 0 .. PIPE]
          /\ sent' \in [Stream -> Nat] /\ buf' \in [Stream -> 0 .. MAX_OUTPUT]
          /\ truncated' \in [Stream -> BOOLEAN] /\ reader' \in [Stream -> {"none", "reading", "done"}]
          /\ read_failed' \in [Stream -> BOOLEAN] /\ unwatched' = FALSE
      OBVIOUS
    <2>3. /\ result'.exit_code = None /\ phase' \in {"idle", "cgroup_gate"}
          /\ limits' \in BOOLEAN /\ cgroup' \in BOOLEAN /\ orphan' \in BOOLEAN /\ expired' \in BOOLEAN
          /\ enrolled' = {} /\ hardened' = {} /\ child' = "none"
          /\ {status', seen'} \subseteq {None}
      OBVIOUS
    <2> HIDE DEF Begin, Stream, OnBoth, NoResult
    <2> QED BY <2>1, <2>2, <2>3 DEF TypeOK
  <1>2. ResultOK'
    BY DEF ResultOK, Outcome, KILLED, None
  <1>3. ChildPlaced' /\ NotStarted'
    BY DEF ChildPlaced, NotStarted, Untouched
  <1>4. StatusSeen' /\ ResultIsBuffer'
    BY DEF StatusSeen, Concluded, ResultIsBuffer
  <1>5. BytesKept'
    <2>1. \A s \in Stream : /\ pipe'[s] = 0 /\ sent'[s] = 0 /\ buf'[s] = 0
                            /\ truncated'[s] = FALSE /\ reader'[s] = "none"
      OBVIOUS
    <2> HIDE DEF Begin, Stream
    <2>2. \A s \in Stream : Taken(s)' = 0 /\ ~(Taken(s)' > MAX_OUTPUT)
      BY <2>1 DEF Taken
    <2> QED BY <2>1, <2>2 DEF BytesKept
  <1>6. ConfinedAndReaped'
    BY DEF ConfinedAndReaped, NeverUnconfined, NothingLeft
  <1> QED BY <1>1, <1>2, <1>3, <1>4, <1>5, <1>6 DEF IInv

-----------------------------------------------------------------------------
(* Steps that move bytes or close a pipe, while the main thread, the child *)
(* and the cgroup stay as they are.                                        *)
StreamsMove ==
  UNCHANGED <<phase, limits, cgroup, child, hardened, enrolled, status, orphan, expired,
              waited, result>>

(* A stream some reader still reads, or that someone may still write to,   *)
(* is not one whose run is over or has not begun.                          *)
LEMMA StreamsInv ==
  ASSUME IInv, StreamsMove,
         writers' \in [Stream -> SUBSET Process], pipe' \in [Stream -> 0 .. PIPE],
         sent' \in [Stream -> Nat], \A s \in Stream : sent'[s] <= MaxBytes[s],
         buf' \in [Stream -> 0 .. MAX_OUTPUT], truncated' \in [Stream -> BOOLEAN],
         reader' \in [Stream -> {"none", "reading", "done"}], read_failed' \in [Stream -> BOOLEAN],
         BytesKept',
         (reader' # reader \/ buf' # buf \/ truncated' # truncated) =>
            \E s \in Stream : reader[s] = "reading",
         sent' # sent => child = "running" \/ orphan
  PROVE  IInv'
PROOF
  <1> USE DEF StreamsMove, waited
  <1>1. TypeOK'
    BY DEF IInv, TypeOK
  <1>2. ResultOK'
    BY DEF IInv, ResultOK
  <1>3. UNCHANGED <<reader, buf, truncated>>
           \/ (result.how # "Completed" /\ phase \notin {"cgroup_gate", "spawn", "enrol"})
    BY DEF IInv, ResultIsBuffer, Joined, ChildPlaced, OnBoth
  <1>4. sent' = sent \/ ~Untouched
    BY DEF Untouched
  <1>5. ResultIsBuffer'
    BY <1>3 DEF IInv, ResultIsBuffer, Joined, exit_code, from_utf8_lossy
  <1>6. StatusSeen'
    BY DEF IInv, StatusSeen, Concluded
  <1>7. ChildPlaced'
    BY <1>3 DEF IInv, ChildPlaced
  <1>8. NotStarted'
    BY <1>4 DEF IInv, NotStarted, Untouched
  <1>9. ConfinedAndReaped'
    BY <1>4, <1>8 DEF IInv, NotStarted, Untouched, ConfinedAndReaped,
            NeverUnconfined, NothingLeft, Alive
  <1> QED BY <1>1, <1>2, <1>5, <1>6, <1>7, <1>8, <1>9 DEF IInv

(* read_capped takes a chunk out of the pipe and keeps what fits. *)
LEMMA ReadInv ==
  ASSUME IInv, NEW s \in Stream, Read(s)
  PROVE  IInv'
PROOF
  <1> USE RunnerAssumption
  <1>1. /\ StreamsMove /\ UNCHANGED <<writers, sent, reader, read_failed>>
        /\ reader[s] = "reading" /\ pipe[s] > 0
    BY DEF Read, StreamsMove, waited
  <1>2. /\ pipe \in [Stream -> 0 .. PIPE] /\ buf \in [Stream -> 0 .. MAX_OUTPUT]
        /\ truncated \in [Stream -> BOOLEAN] /\ sent \in [Stream -> Nat]
        /\ writers \in [Stream -> SUBSET Process]
        /\ reader \in [Stream -> {"none", "reading", "done"}]
        /\ read_failed \in [Stream -> BOOLEAN]
        /\ \A t \in Stream : sent[t] <= MaxBytes[t]
    BY DEF IInv, TypeOK
  <1>3. /\ pipe[s] \in Nat /\ buf[s] \in Nat /\ sent[s] \in Nat /\ pipe[s] <= sent[s]
        /\ buf[s] = IF Taken(s) <= MAX_OUTPUT THEN Taken(s) ELSE MAX_OUTPUT
        /\ truncated[s] <=> Taken(s) > MAX_OUTPUT
    BY <1>2 DEF IInv, BytesKept
  <1>4. PICK n \in 1 .. Min({pipe[s], CHUNK}) :
          /\ pipe' = [pipe EXCEPT ![s] = @ - n]
          /\ buf' = [buf EXCEPT ![s] = Kept(s, n)]
          /\ truncated' = [truncated EXCEPT ![s] = @ \/ buf[s] + n > MAX_OUTPUT]
    BY DEF Read
  <1>5. n \in Nat /\ n >= 1 /\ n <= pipe[s]
    BY <1>3, <1>4, MinOfTwo
  <1>6. Kept(s, n) = IF buf[s] + n <= MAX_OUTPUT THEN buf[s] + n ELSE MAX_OUTPUT
    BY <1>3, <1>5, MinOfTwo DEF Kept
  <1>7. /\ pipe'[s] = pipe[s] - n /\ buf'[s] = Kept(s, n)
        /\ pipe[s] - n \in 0 .. PIPE /\ Kept(s, n) \in 0 .. MAX_OUTPUT
        /\ truncated'[s] <=> truncated[s] \/ buf[s] + n > MAX_OUTPUT
    <2>1. pipe'[s] = pipe[s] - n /\ buf'[s] = Kept(s, n)
      BY <1>2, <1>4
    <2>2. pipe[s] - n \in 0 .. PIPE /\ Kept(s, n) \in 0 .. MAX_OUTPUT
      BY <1>2, <1>3, <1>5, <1>6
    <2>3. truncated'[s] <=> truncated[s] \/ buf[s] + n > MAX_OUTPUT
      BY <1>2, <1>4, Zenon
    <2> QED BY <2>1, <2>2, <2>3
  <1>8. /\ pipe' \in [Stream -> 0 .. PIPE] /\ buf' \in [Stream -> 0 .. MAX_OUTPUT]
        /\ truncated' \in [Stream -> BOOLEAN]
    BY <1>2, <1>4, <1>7
  <1>9. BytesKept'
    <2> SUFFICES ASSUME NEW t \in Stream
                 PROVE  /\ pipe'[t] <= sent'[t]
                        /\ buf'[t] = IF Taken(t)' <= MAX_OUTPUT THEN Taken(t)' ELSE MAX_OUTPUT
                        /\ truncated'[t] <=> Taken(t)' > MAX_OUTPUT
                        /\ reader'[t] = "done" /\ ~read_failed'[t] => pipe'[t] = 0 /\ writers'[t] = {}
      BY DEF BytesKept
    <2>1. CASE t = s
      <3>1. Taken(s)' = Taken(s) + n /\ Taken(s) \in Nat
        BY <1>1, <1>3, <1>5, <1>7 DEF Taken
      <3>2. truncated'[s] <=> Taken(s)' > MAX_OUTPUT
        BY <1>3, <1>5, <1>7, <3>1
      <3> QED BY <1>1, <1>3, <1>5, <1>6, <1>7, <2>1, <3>1, <3>2
    <2>2. CASE t # s
      <3>1. pipe'[t] = pipe[t] /\ buf'[t] = buf[t] /\ truncated'[t] = truncated[t]
        BY <1>2, <1>4, <2>2
      <3> QED BY <1>1, <3>1 DEF IInv, BytesKept, Taken
    <2> QED BY <2>1, <2>2
  <1> QED BY <1>1, <1>2, <1>8, <1>9, StreamsInv

(* End of file: the pipe is empty and nobody holds its write end. *)
LEMMA EndOfFileInv ==
  ASSUME IInv, NEW s \in Stream, EndOfFile(s)
  PROVE  IInv'
PROOF
  <1>1. /\ StreamsMove /\ UNCHANGED <<writers, pipe, sent, buf, truncated, read_failed>>
        /\ reader[s] = "reading" /\ pipe[s] = 0 /\ writers[s] = {}
        /\ reader' = [reader EXCEPT ![s] = "done"]
    BY DEF EndOfFile, StreamsMove, kernel, waited
  <1>2. TypeOK /\ BytesKept
    BY DEF IInv
  <1>3. reader' \in [Stream -> {"none", "reading", "done"}]
    BY <1>1, <1>2 DEF TypeOK
  <1>4. BytesKept'
    BY <1>1, <1>2 DEF TypeOK, BytesKept, Taken
  <1> QED BY <1>1, <1>2, <1>3, <1>4, StreamsInv DEF TypeOK

(* A failed read: what the stream still holds is lost, and known to be. *)
LEMMA ReadFailsInv ==
  ASSUME IInv, NEW s \in Stream, ReadFails(s)
  PROVE  IInv'
PROOF
  <1>1. /\ StreamsMove /\ UNCHANGED <<writers, pipe, sent, buf, truncated>>
        /\ reader[s] = "reading"
        /\ reader' = [reader EXCEPT ![s] = "done"]
        /\ read_failed' = [read_failed EXCEPT ![s] = TRUE]
    BY DEF ReadFails, StreamsMove, kernel, waited
  <1>2. TypeOK /\ BytesKept
    BY DEF IInv
  <1>3. /\ reader' \in [Stream -> {"none", "reading", "done"}]
        /\ read_failed' \in [Stream -> BOOLEAN]
    BY <1>1, <1>2 DEF TypeOK
  <1>4. ASSUME NEW t \in Stream, reader'[t] = "done", ~read_failed'[t]
        PROVE  reader[t] = "done" /\ ~read_failed[t]
    BY <1>1, <1>2, <1>4 DEF TypeOK
  <1>5. BytesKept'
    BY <1>1, <1>2, <1>4, BytesStay
  <1> QED BY <1>1, <1>2, <1>3, <1>5, StreamsInv DEF TypeOK

(* A live process writes a byte to an end it holds, or closes it. *)
LEMMA WriteInv ==
  ASSUME IInv, NEW p \in Process, NEW s \in Stream, Write(p, s) \/ Close(p, s)
  PROVE  IInv'
PROOF
  <1> USE RunnerAssumption
  <1>0. TypeOK /\ BytesKept /\ pipe[s] \in Nat /\ sent[s] \in Nat /\ MaxBytes[s] \in Nat
    BY DEF IInv, TypeOK
  <1>1. CASE Write(p, s)
    <2>1. /\ StreamsMove /\ UNCHANGED <<writers, buf, truncated, reader, read_failed>>
          /\ Alive(p) /\ reader[s] # "done" /\ pipe[s] < PIPE /\ sent[s] < MaxBytes[s]
          /\ pipe' = [pipe EXCEPT ![s] = @ + 1] /\ sent' = [sent EXCEPT ![s] = @ + 1]
      BY <1>1 DEF Write, StreamsMove, process, readers, waited
    <2>2. /\ pipe' \in [Stream -> 0 .. PIPE] /\ sent' \in [Stream -> Nat]
          /\ pipe'[s] = pipe[s] + 1 /\ sent'[s] = sent[s] + 1
          /\ \A t \in Stream \ {s} : pipe'[t] = pipe[t] /\ sent'[t] = sent[t]
      BY <1>0, <2>1 DEF TypeOK
    <2>3. \A t \in Stream : sent'[t] <= MaxBytes[t]
      BY <1>0, <2>1, <2>2 DEF TypeOK
    <2>4. ASSUME NEW t \in Stream
          PROVE  /\ pipe'[t] <= sent'[t] /\ Taken(t)' = Taken(t)
                 /\ reader[t] = "done" => pipe'[t] = pipe[t]
      BY <1>0, <2>1, <2>2 DEF BytesKept, Taken
    <2>5. BytesKept'
      BY <1>0, <2>1, <2>4 DEF BytesKept
    <2>6. child = "running" \/ orphan
      BY <2>1 DEF Alive
    <2> QED BY <1>0, <2>1, <2>2, <2>3, <2>5, <2>6, StreamsInv DEF TypeOK
  <1>2. CASE Close(p, s)
    <2>1. /\ StreamsMove /\ UNCHANGED <<pipe, sent, buf, truncated, reader, read_failed>>
          /\ writers' = [writers EXCEPT ![s] = @ \ {p}]
      BY <1>2 DEF Close, StreamsMove, process, readers, waited
    <2>2. /\ writers' \in [Stream -> SUBSET Process]
          /\ \A t \in Stream : writers[t] = {} => writers'[t] = {}
      BY <1>0, <2>1 DEF TypeOK
    <2>3. BytesKept'
      BY <1>0, <2>1, <2>2, BytesStay
    <2> QED BY <1>0, <2>1, <2>2, <2>3, StreamsInv DEF TypeOK
  <1> QED BY <1>1, <1>2

-----------------------------------------------------------------------------
(* The invariant of a run. *)
THEOREM Invariance == Spec => []IInv
PROOF
  <1>1. IInv /\ [Next]_vars => IInv'
    <2> SUFFICES ASSUME IInv, [Next]_vars PROVE IInv'
      OBVIOUS
    <2>1. CASE \E l \in BOOLEAN : Begin(l)
      BY <2>1, BeginInv
    <2>2. CASE MainThread \/ Starting \/ Expire
      BY <2>2, StartInv, LoopInv, EndInv DEF MainThread, Starting
    <2>3. CASE \E s \in Stream : ReaderThread(s)
      BY <2>3, ReadInv, EndOfFileInv, ReadFailsInv DEF ReaderThread
    <2>4. CASE phase # "idle" /\ Script
      BY <2>4, WriteInv, ScriptInv DEF Script
    <2>5. CASE UNCHANGED vars
      <3>1. /\ StreamsMove /\ UNCHANGED <<writers, pipe, sent, buf, truncated, reader, read_failed>>
            /\ TypeOK /\ BytesKept
        BY <2>5 DEF vars, kernel, readers, waited, StreamsMove, IInv
      <3>2. BytesKept'
        BY <3>1, BytesStay
      <3> QED BY <3>1, <3>2, StreamsInv DEF TypeOK
    <2> QED BY <2>1, <2>2, <2>3, <2>4, <2>5 DEF Next
  <1> QED BY <1>1, InitIInv, PTL DEF Spec

(* The response to a completed run carries the first max_output bytes of   *)
(* each stream - as text, and changed only where it is none or was cut -   *)
(* says exactly whether there were more, and its exit code is the script's *)
(* own, or -1 for a signal, a deadline that had passed or a failed wait.   *)
(* A stream whose reading failed is excepted, and has some beginning.      *)
THEOREM RunnerTellsTheTruth == Spec => []ResultFaithful
PROOF
  <1>1. IInv => ResultFaithful
    <2> SUFFICES ASSUME IInv, result.how = "Completed"
                 PROVE  OutputFaithful /\ HonestExit
      BY DEF ResultFaithful, OutputFaithful, HonestExit
    <2>1. /\ Joined /\ result.kept = buf /\ result.exit_code = exit_code
          /\ \A s \in Stream : result.lossy[s] = from_utf8_lossy(s)
          /\ result.truncated = (\E s \in Stream : truncated[s])
      BY DEF IInv, ResultIsBuffer
    <2>2. ASSUME NEW s \in Stream
          PROVE  /\ sent[s] \in Nat /\ Taken(s) \in Nat /\ Taken(s) <= sent[s]
                 /\ buf[s] = Min({Taken(s), MAX_OUTPUT})
                 /\ truncated[s] <=> Taken(s) > MAX_OUTPUT
                 /\ Min({Taken(s), MAX_OUTPUT}) <= Min({sent[s], MAX_OUTPUT})
                 /\ ~read_failed[s] => Taken(s) = sent[s]
      <3>1. sent[s] \in Nat /\ pipe[s] \in Nat /\ pipe[s] <= sent[s] /\ MAX_OUTPUT \in Nat
        BY RunnerAssumption DEF IInv, TypeOK, BytesKept
      <3>2. Taken(s) \in Nat /\ Taken(s) <= sent[s]
        BY <3>1 DEF Taken
      <3>3. buf[s] = Min({Taken(s), MAX_OUTPUT}) /\ (truncated[s] <=> Taken(s) > MAX_OUTPUT)
        BY <3>1, <3>2, MinOfTwo DEF IInv, BytesKept
      <3>4. Min({Taken(s), MAX_OUTPUT}) <= Min({sent[s], MAX_OUTPUT})
        BY <3>1, <3>2, MinOfTwo
      <3>5. ~read_failed[s] => Taken(s) = sent[s]
        BY <2>1, <3>1 DEF IInv, BytesKept, Joined, Taken
      <3> QED BY <3>1, <3>2, <3>3, <3>4, <3>5
    <2>3. ASSUME NEW s \in Stream, ~read_failed[s], result.lossy[s]
          PROVE  sent[s] > MAX_OUTPUT \/ sent[s] \notin Utf8[s]
      <3>1. buf[s] = Min({sent[s], MAX_OUTPUT}) /\ buf[s] \notin Utf8[s]
        BY <2>1, <2>2, <2>3, Zenon DEF from_utf8_lossy
      <3>2. sent[s] \in Nat /\ MAX_OUTPUT \in Nat
        BY <2>2, RunnerAssumption
      <3>3. buf[s] = IF sent[s] <= MAX_OUTPUT THEN sent[s] ELSE MAX_OUTPUT
        BY <3>1, <3>2, MinOfTwo
      <3> QED BY <3>1, <3>2, <3>3
    <2>4. \A s \in Stream :
            \/ read_failed[s] /\ result.kept[s] <= Min({sent[s], MAX_OUTPUT})
            \/ /\ result.kept[s] = Min({sent[s], MAX_OUTPUT})
               /\ result.lossy[s] => sent[s] > MAX_OUTPUT \/ sent[s] \notin Utf8[s]
      BY <2>1, <2>2, <2>3
    <2>5. /\ result.truncated => \E s \in Stream : sent[s] > MAX_OUTPUT
          /\ (\E s \in Stream : sent[s] > MAX_OUTPUT /\ ~read_failed[s]) => result.truncated
      <3>1. ASSUME NEW s \in Stream
            PROVE  /\ truncated[s] => sent[s] > MAX_OUTPUT
                   /\ sent[s] > MAX_OUTPUT /\ ~read_failed[s] => truncated[s]
        <4>1. sent[s] \in Nat /\ Taken(s) \in Nat /\ Taken(s) <= sent[s] /\ MAX_OUTPUT \in Nat
          BY <2>2, RunnerAssumption
        <4>2. (truncated[s] <=> Taken(s) > MAX_OUTPUT) /\ (~read_failed[s] => Taken(s) = sent[s])
          BY <2>2, Zenon
        <4>3. Taken(s) > MAX_OUTPUT => sent[s] > MAX_OUTPUT
          BY <4>1
        <4> QED BY <4>2, <4>3, Zenon
      <3>2. result.truncated <=> \E s \in Stream : truncated[s]
        BY <2>1, Zenon
      <3> QED BY <3>1, <3>2
    <2>6. OutputFaithful
      BY <2>4, <2>5 DEF OutputFaithful
    <2>7. \/ seen \in Code /\ seen = status
          \/ seen = Signal /\ seen = status
          \/ seen = None /\ (expired \/ unwatched)
      BY DEF IInv, TypeOK, StatusSeen, Concluded
    <2>8. {Signal, None} \intersect Code = {}
      BY RunnerAssumption DEF Signal, None
    <2>9. HonestExit
      BY <2>1, <2>7, <2>8 DEF HonestExit, exit_code
    <2> QED BY <2>6, <2>9
  <1> QED BY <1>1, Invariance, PTL

(* No script runs without no_new_privs and the filter, a refused one has   *)
(* not run, and between two runs there is no child, no zombie and no       *)
(* cgroup but a child it failed to wait for and the cgroup of that or of a *)
(* background process.                                                     *)
THEOREM RunnerConfinesAndReaps == Spec => []ConfinedAndReaped
PROOF
  <1>1. IInv => ConfinedAndReaped
    BY DEF IInv
  <1> QED BY <1>1, Invariance, PTL

-----------------------------------------------------------------------------
(* The replay guard, for every set of sessions and nonces, every MaxSeq    *)
(* and every NONCE_WINDOW: GuardSpec admits any requests at all, and its   *)
(* inductive invariant is GuardIInv.                                       *)

USE DEF NoSeq

(* A fresh guard satisfies the inductive invariant. *)
LEMMA ReplayInitIInv == GuardInit => GuardIInv
  BY MaxSeqAssumption, NonceWindowAssumption
  DEF GuardInit, GuardIInv, GuardTypeOK, WindowCoherent,
      OrderIsRecentHistory, Evicted,
      LastSeqBoundsHistory, AdmittedInOrder, NonceWindowHolds, Request

(* What an admitted request does to the nonce window: the queue stays the  *)
(* most recent part of the history and the set stays the range of it.      *)
LEMMA RememberKeepsWindow ==
  ASSUME NEW r \in Request, GuardIInv, admit(r)
  PROVE  /\ nonce_order' \in Seq(Nonce)
         /\ Len(nonce_order') <= NONCE_WINDOW
         /\ seen_nonces' \subseteq Nonce
         /\ WindowCoherent'
         /\ OrderIsRecentHistory'
PROOF
  <1> DEFINE n == r.nonce
             order == Append(nonce_order, n)
  <1>0. /\ n \in Nonce
        /\ nonce_order \in Seq(Nonce)
        /\ admitted \in Seq(Request)
        /\ admitted' = Append(admitted, r)
        /\ n \notin seen_nonces
        /\ NONCE_WINDOW \in Nat \ {0}
        /\ Len(nonce_order) <= NONCE_WINDOW
        /\ seen_nonces \subseteq Nonce
    BY MaxSeqAssumption, NonceWindowAssumption
    DEF GuardIInv, GuardTypeOK, Request, admit, Fresh,
        DuplicateNonce
  <1>1. CASE Len(order) > NONCE_WINDOW
    <2>1. nonce_order' = Tail(order) /\ seen_nonces' = (seen_nonces \union {n}) \ {Head(order)}
      BY <1>1 DEF admit, Commit, Remember
    <2>2. Len(nonce_order) = NONCE_WINDOW
      BY <1>0, <1>1
    <2>3. /\ Tail(order) \in Seq(Nonce)
          /\ Len(Tail(order)) = NONCE_WINDOW
          /\ Head(order) = nonce_order[1]
          /\ \A k \in 1 .. NONCE_WINDOW :
               Tail(order)[k] = IF k = NONCE_WINDOW THEN n ELSE nonce_order[k + 1]
      BY <1>0, <2>2
    <2>3a. /\ DOMAIN nonce_order' = 1 .. NONCE_WINDOW
           /\ Len(nonce_order') = NONCE_WINDOW
           /\ \A k \in 1 .. NONCE_WINDOW :
                nonce_order'[k] = IF k = NONCE_WINDOW THEN n ELSE nonce_order[k + 1]
      BY <2>1, <2>3
    <2> HIDE DEF order
    <2>4. WindowCoherent'
      <3>1. \A k \in 1 .. NONCE_WINDOW : nonce_order[k] # n
        BY <1>0, <2>2 DEF GuardIInv, WindowCoherent
      <3>2. \A k, l \in 1 .. NONCE_WINDOW : nonce_order[k] = nonce_order[l] => k = l
        BY <1>0, <2>2 DEF GuardIInv, WindowCoherent
      <3>3. \A k, l \in DOMAIN nonce_order' : nonce_order'[k] = nonce_order'[l] => k = l
        <4> SUFFICES ASSUME NEW k \in 1 .. NONCE_WINDOW, NEW l \in 1 .. NONCE_WINDOW,
                            nonce_order'[k] = nonce_order'[l]
                     PROVE  k = l
          BY <2>3a
        <4>0. NONCE_WINDOW \in Nat
          BY <1>0
        <4>1. CASE k = NONCE_WINDOW /\ l # NONCE_WINDOW
          <5>1. l + 1 \in 1 .. NONCE_WINDOW
            BY <4>1, <4>0
          <5> QED BY <4>1, <5>1, <2>3a, <3>1
        <4>2. CASE k # NONCE_WINDOW /\ l = NONCE_WINDOW
          <5>1. k + 1 \in 1 .. NONCE_WINDOW
            BY <4>2, <4>0
          <5> QED BY <4>2, <5>1, <2>3a, <3>1
        <4>3. CASE k # NONCE_WINDOW /\ l # NONCE_WINDOW
          <5>1. k + 1 \in 1 .. NONCE_WINDOW /\ l + 1 \in 1 .. NONCE_WINDOW
            BY <4>3, <4>0
          <5>2. nonce_order[k + 1] = nonce_order[l + 1]
            BY <4>3, <2>3a
          <5>3. k + 1 = l + 1
            BY <5>1, <5>2, <3>2
          <5> QED BY <5>3, <4>0
        <4> QED BY <4>1, <4>2, <4>3
      <3>4. \A x \in seen_nonces' : \E k \in 1 .. NONCE_WINDOW : nonce_order'[k] = x
        <4> SUFFICES ASSUME NEW x \in seen_nonces'
                     PROVE  \E k \in 1 .. NONCE_WINDOW : nonce_order'[k] = x
          OBVIOUS
        <4>1. CASE x = n
          BY <4>1, <1>0, <2>3a
        <4>2. CASE x # n
          <5>1. PICK j \in 1 .. NONCE_WINDOW : nonce_order[j] = x
            BY <4>2, <2>1, <1>0, <2>2 DEF GuardIInv, WindowCoherent
          <5>2. j # 1
            BY <5>1, <2>1, <2>3
          <5>3. nonce_order'[j - 1] = x /\ j - 1 \in 1 .. NONCE_WINDOW
            BY <5>1, <5>2, <2>3a, <1>0
          <5> QED BY <5>3
        <4> QED BY <4>1, <4>2
      <3>5. \A k \in 1 .. NONCE_WINDOW : nonce_order'[k] \in seen_nonces'
        <4>1. \A k \in 1 .. NONCE_WINDOW : nonce_order[k] \in seen_nonces
          BY <1>0, <2>2 DEF GuardIInv, WindowCoherent
        <4>2. \A k \in 1 .. NONCE_WINDOW : nonce_order'[k] # nonce_order[1]
          BY <1>0, <2>3a, <3>1, <3>2
        <4>3. \A k \in 1 .. NONCE_WINDOW : nonce_order'[k] \in seen_nonces \union {n}
          BY <1>0, <2>3a, <4>1
        <4> QED BY <4>2, <4>3, <2>1, <2>3
      <3> QED BY <3>3, <3>4, <3>5, <2>3a DEF WindowCoherent
    <2>5. OrderIsRecentHistory'
      <3>1. Len(admitted') = Len(admitted) + 1 /\ Len(admitted) \in Nat
        BY <1>0
      <3>2. /\ Evicted = Len(admitted) - NONCE_WINDOW
            /\ Evicted' = Len(admitted) + 1 - NONCE_WINDOW
            /\ Evicted >= 0
        BY <3>1, <1>0, <2>2, <2>3a DEF Evicted, GuardIInv, OrderIsRecentHistory
      <3>3. ASSUME NEW k \in 1 .. NONCE_WINDOW
            PROVE  nonce_order'[k] = admitted'[Evicted' + k].nonce
        <4>1. CASE k = NONCE_WINDOW
          <5>1. nonce_order'[k] = n
            BY <4>1, <2>3a, <1>0
          <5>2. Evicted' + k = Len(admitted) + 1
            BY <4>1, <3>2, <1>0
          <5>3. admitted'[Len(admitted) + 1] = r
            BY <1>0
          <5> QED BY <5>1, <5>2, <5>3
        <4>2. CASE k # NONCE_WINDOW
          <5>1. nonce_order'[k] = nonce_order[k + 1] /\ k + 1 \in DOMAIN nonce_order
            BY <4>2, <2>2, <2>3a, <1>0
          <5>2. nonce_order[k + 1] = admitted[Evicted + (k + 1)].nonce
            BY <5>1 DEF GuardIInv, OrderIsRecentHistory
          <5>3. Evicted + (k + 1) \in 1 .. Len(admitted) /\ Evicted' + k = Evicted + (k + 1)
            BY <4>2, <3>1, <3>2, <1>0
          <5> QED BY <5>1, <5>2, <5>3, <1>0
        <4> QED BY <4>1, <4>2
      <3>4. Evicted' >= 0
        BY <3>1, <3>2, <1>0
      <3>5. \A k \in DOMAIN nonce_order' : nonce_order'[k] = admitted'[Evicted' + k].nonce
        BY <3>3, <2>3a
      <3> QED BY <3>4, <3>5, <2>3a DEF OrderIsRecentHistory
    <2> QED BY <2>1, <2>3, <2>4, <2>5, <1>0
  <1>2. CASE ~(Len(order) > NONCE_WINDOW)
    <2>1. nonce_order' = order /\ seen_nonces' = seen_nonces \union {n}
      BY <1>2 DEF admit, Commit, Remember
    <2>2. /\ Len(order) = Len(nonce_order) + 1
          /\ Len(order) <= NONCE_WINDOW
          /\ order \in Seq(Nonce)
          /\ \A k \in 1 .. Len(order) :
               order[k] = IF k = Len(order) THEN n ELSE nonce_order[k]
      BY <1>0, <1>2
    <2>3. WindowCoherent'
      <3>1. \A k \in 1 .. Len(nonce_order) : nonce_order[k] # n
        BY <1>0 DEF GuardIInv, WindowCoherent
      <3>2. \A k, l \in 1 .. Len(nonce_order) : nonce_order[k] = nonce_order[l] => k = l
        BY <1>0 DEF GuardIInv, WindowCoherent
      <3>3. \A k, l \in DOMAIN nonce_order' : nonce_order'[k] = nonce_order'[l] => k = l
        BY <1>0, <2>1, <2>2, <3>1, <3>2
      <3>4. seen_nonces = {nonce_order[k] : k \in 1 .. Len(nonce_order)}
        BY <1>0 DEF GuardIInv, WindowCoherent
      <3>5. seen_nonces' = {nonce_order'[k] : k \in DOMAIN nonce_order'}
        <4>1. DOMAIN nonce_order' = 1 .. (Len(nonce_order) + 1)
          BY <1>0, <2>1, <2>2
        <4>2. \A k \in 1 .. (Len(nonce_order) + 1) :
                nonce_order'[k] = IF k = Len(nonce_order) + 1 THEN n ELSE nonce_order[k]
          BY <1>0, <2>1, <2>2
        <4>3. Len(nonce_order) \in Nat
          BY <1>0
        <4>4. \A x \in seen_nonces' : \E k \in DOMAIN nonce_order' : x = nonce_order'[k]
          <5> SUFFICES ASSUME NEW x \in seen_nonces'
                       PROVE  \E k \in DOMAIN nonce_order' : x = nonce_order'[k]
            OBVIOUS
          <5>1. CASE x = n
            BY <5>1, <4>1, <4>2, <4>3
          <5>2. CASE x # n
            <6>1. PICK j \in 1 .. Len(nonce_order) : x = nonce_order[j]
              BY <5>2, <2>1, <3>4
            <6>2. j \in DOMAIN nonce_order' /\ nonce_order'[j] = x
              BY <6>1, <4>1, <4>2, <4>3
            <6> QED BY <6>2
          <5> QED BY <5>1, <5>2
        <4>5. \A k \in DOMAIN nonce_order' : nonce_order'[k] \in seen_nonces'
          BY <4>1, <4>2, <4>3, <3>4, <2>1
        <4> QED BY <4>4, <4>5
      <3> QED BY <3>3, <3>5 DEF WindowCoherent
    <2>4. OrderIsRecentHistory'
      <3>1. Len(admitted') = Len(admitted) + 1 /\ Len(admitted) \in Nat
        BY <1>0
      <3>2. Evicted = 0
        BY <1>0, <2>2, <3>1 DEF Evicted, GuardIInv, OrderIsRecentHistory
      <3>3. Evicted' = 0
        BY <3>1, <3>2, <1>0, <2>1, <2>2 DEF Evicted
      <3>4. ASSUME NEW k \in 1 .. Len(order)
            PROVE  nonce_order'[k] = admitted'[Evicted' + k].nonce
        <4>1. Len(order) = Len(admitted')
          BY <3>1, <3>2, <2>2, <1>0 DEF Evicted
        <4>2. CASE k = Len(order)
          BY <4>1, <4>2, <3>1, <3>3, <2>1, <2>2, <1>0
        <4>3. CASE k # Len(order)
          <5>1. k \in DOMAIN nonce_order /\ nonce_order'[k] = nonce_order[k]
            BY <4>3, <2>1, <2>2, <1>0
          <5>2. nonce_order[k] = admitted[0 + k].nonce
            BY <5>1, <3>2 DEF GuardIInv, OrderIsRecentHistory
          <5>3. k \in 1 .. Len(admitted)
            BY <4>1, <4>3, <3>1
          <5> QED BY <5>1, <5>2, <5>3, <3>3, <1>0
        <4> QED BY <4>2, <4>3
      <3> QED BY <3>3, <3>4, <2>1, <2>2 DEF OrderIsRecentHistory
    <2> QED BY <2>1, <2>2, <2>3, <2>4, <1>0
  <1> QED BY <1>1, <1>2

(* An admitted request carries the largest seq of its session so far and a *)
(* nonce none of the last NONCE_WINDOW admitted requests carried.          *)
LEMMA CommitKeepsHistory ==
  ASSUME NEW r \in Request, GuardIInv, admit(r)
  PROVE  /\ last_seq' \in [Session -> NoSeq .. MaxSeq]
         /\ admitted' \in Seq(Request)
         /\ LastSeqBoundsHistory'
         /\ AdmittedInOrder'
         /\ NonceWindowHolds'
PROOF
  <1> DEFINE N == Len(admitted)
  <1>0. /\ r.session \in Session /\ r.seq \in 0 .. MaxSeq
        /\ last_seq \in [Session -> NoSeq .. MaxSeq]
        /\ last_seq' = [last_seq EXCEPT ![r.session] = r.seq]
        /\ admitted \in Seq(Request)
        /\ admitted' = Append(admitted, r)
        /\ MaxSeq \in Nat
    BY MaxSeqAssumption, NonceWindowAssumption DEF GuardIInv, GuardTypeOK, Request,
            admit, Commit
  <1>1. /\ N \in Nat
        /\ admitted' \in Seq(Request)
        /\ DOMAIN admitted = 1 .. N
        /\ DOMAIN admitted' = 1 .. (N + 1)
        /\ admitted'[N + 1] = r
        /\ \A i \in 1 .. N : admitted'[i] = admitted[i] /\ admitted[i] \in Request
    BY <1>0
  <1>2. last_seq[r.session] < r.seq
    BY <1>0 DEF admit, Fresh, NonMonotonicSeq
  <1>3. \A i \in 1 .. N : admitted[i].seq <= last_seq[admitted[i].session]
    BY <1>0 DEF GuardIInv, LastSeqBoundsHistory
  <1>3a. \A i \in 1 .. N : admitted[i].session \in Session /\ admitted[i].seq \in 0 .. MaxSeq
    BY <1>1 DEF Request
  <1> HIDE DEF N
  <1>4. LastSeqBoundsHistory'
    BY <1>0, <1>1, <1>2, <1>3, <1>3a DEF LastSeqBoundsHistory
  <1>5. AdmittedInOrder'
    <2> SUFFICES ASSUME NEW i \in 1 .. (N + 1), NEW j \in 1 .. (N + 1), i < j,
                        admitted'[i].session = admitted'[j].session
                 PROVE  admitted'[i].seq < admitted'[j].seq
      BY <1>1 DEF AdmittedInOrder
    <2>1. CASE j = N + 1
      BY <2>1, <1>0, <1>1, <1>2, <1>3, <1>3a
    <2>2. CASE j # N + 1
      <3>1. i \in DOMAIN admitted /\ j \in DOMAIN admitted
        BY <2>2, <1>1
      <3> QED BY <3>1, <1>1 DEF GuardIInv, AdmittedInOrder
    <2> QED BY <2>1, <2>2
  <1>6. NonceWindowHolds'
    <2> SUFFICES ASSUME NEW i \in 1 .. (N + 1), NEW j \in 1 .. (N + 1), i < j,
                        admitted'[i].nonce = admitted'[j].nonce
                 PROVE  j - i > NONCE_WINDOW
      BY <1>1 DEF NonceWindowHolds
    <2>1. CASE j = N + 1
      <3> DEFINE L == Len(nonce_order)
      <3>1. L \in Nat /\ DOMAIN nonce_order = 1 .. L
        BY DEF GuardIInv, GuardTypeOK
      <3>2. admitted[i].nonce = r.nonce /\ i \in 1 .. N
        BY <2>1, <1>1
      <3>3. ASSUME i > N - L PROVE FALSE
        <4>1. i - (N - L) \in 1 .. L
          BY <3>1, <3>2, <3>3, <1>1 DEF GuardIInv, OrderIsRecentHistory, Evicted, N
        <4>2. nonce_order[i - (N - L)] = admitted[(N - L) + (i - (N - L))].nonce
          BY <4>1, <3>1 DEF GuardIInv, OrderIsRecentHistory, Evicted, N
        <4>3. (N - L) + (i - (N - L)) = i
          BY <3>1, <1>1
        <4>4. nonce_order[i - (N - L)] \in seen_nonces
          BY <4>1, <3>1 DEF GuardIInv, WindowCoherent
        <4> QED BY <4>2, <4>3, <4>4, <3>2 DEF admit, Fresh, DuplicateNonce
      <3>4. N - L > 0 /\ L = NONCE_WINDOW
        BY <3>1, <3>2, <3>3, <1>1 DEF GuardIInv, OrderIsRecentHistory, Evicted, N
      <3> QED BY <3>1, <3>2, <3>3, <3>4, <2>1, <1>1
    <2>2. CASE j # N + 1
      <3>1. i \in DOMAIN admitted /\ j \in DOMAIN admitted
        BY <2>2, <1>1
      <3> QED BY <3>1, <1>1 DEF GuardIInv, NonceWindowHolds
    <2> QED BY <2>1, <2>2
  <1>7. last_seq' \in [Session -> NoSeq .. MaxSeq]
    BY <1>0
  <1> QED BY <1>1, <1>4, <1>5, <1>6, <1>7

(* The invariant is inductive: one admitted request, or a stutter. *)
LEMMA ReplayNextIInv == GuardIInv /\ [GuardNext]_GuardVars => GuardIInv'
PROOF
  <1> SUFFICES ASSUME GuardIInv, [GuardNext]_GuardVars PROVE GuardIInv'
    OBVIOUS
  <1>1. CASE UNCHANGED GuardVars
    BY <1>1 DEF GuardVars, GuardIInv, GuardTypeOK, WindowCoherent,
        OrderIsRecentHistory, Evicted,
                LastSeqBoundsHistory, AdmittedInOrder, NonceWindowHolds
  <1>2. ASSUME NEW r \in Request, admit(r) PROVE GuardIInv'
    <2> QED BY <1>2, RememberKeepsWindow, CommitKeepsHistory DEF GuardIInv, GuardTypeOK
  <1> QED BY <1>1, <1>2 DEF GuardNext

(* Every reachable guard state satisfies the inductive invariant. *)
THEOREM ReplayInvariance == GuardSpec => []GuardIInv
  BY ReplayInitIInv, ReplayNextIInv, PTL DEF GuardSpec

(* TypeOK: the guard keeps its shape and its nonce queue never grows past  *)
(* NONCE_WINDOW, whatever is sent to it (replay.rs, "bounded").            *)
THEOREM ReplayTypeCorrect == GuardSpec => []GuardTypeOK
  <1>1. GuardIInv => GuardTypeOK BY DEF GuardIInv
  <1> QED BY ReplayInvariance, <1>1, PTL

(* AdmittedInOrder: a guard never admits a replayed or reordered request.  *)
THEOREM ReplayRefused == GuardSpec => []AdmittedInOrder
  <1>1. GuardIInv => AdmittedInOrder BY DEF GuardIInv
  <1> QED BY ReplayInvariance, <1>1, PTL

(* NonceWindowHolds: no nonce is admitted twice within the dedupe window.  *)
THEOREM NonceDedupe == GuardSpec => []NonceWindowHolds
  <1>1. GuardIInv => NonceWindowHolds BY DEF GuardIInv
  <1> QED BY ReplayInvariance, <1>1, PTL

(* WindowCoherent: the set and the queue of nonces describe each other.    *)
THEOREM WindowCoherence == GuardSpec => []WindowCoherent
  <1>1. GuardIInv => WindowCoherent BY DEF GuardIInv
  <1> QED BY ReplayInvariance, <1>1, PTL

-----------------------------------------------------------------------------
(* The limiter, for any horizons and any ceilings (0 included).  Its       *)
(* inductive invariant is RateIInv.                                        *)

(* What the limiter is configured with. *)
LEMMA RateConstants ==
  /\ MINUTE \in Nat \ {0} /\ HOUR \in Nat \ {0} /\ MaxTime \in Nat
  /\ Limit \in [Window -> Nat]
  BY HorizonAssumption, LimitAssumption, MaxTimeAssumption DEF Window

(* prune(w) drops k admissions from the front, all of them a horizon old,  *)
(* and the oldest one it keeps is younger.                                 *)
LEMMA WindowPrune ==
  ASSUME NEW w \in Window, hits[w] \in Seq(0 .. MaxTime), now \in 0 .. MaxTime
  PROVE  \E k \in 0 .. Len(hits[w]) :
           /\ prune(w) \in Seq(0 .. MaxTime)
           /\ Len(prune(w)) = Len(hits[w]) - k
           /\ \A j \in 1 .. (Len(hits[w]) - k) : prune(w)[j] = hits[w][k + j]
           /\ \A j \in 1 .. k : now - hits[w][j] >= Horizon[w]
           /\ k < Len(hits[w]) => now - hits[w][k + 1] < Horizon[w]
PROOF
  <1> DEFINE q == hits[w]
             young == {i \in DOMAIN q : now - q[i] < Horizon[w]}
  <1>0. /\ q \in Seq(0 .. MaxTime) /\ Len(q) \in Nat /\ DOMAIN q = 1 .. Len(q)
        /\ now \in Nat /\ Horizon[w] \in Nat /\ MaxTime \in Nat
        /\ \A i \in 1 .. Len(q) : q[i] \in Nat
    BY RateConstants DEF Horizon
  <1>0a. \A j \in 1 .. Len(q) : j \in young \/ now - q[j] >= Horizon[w]
    <2> SUFFICES ASSUME NEW j \in 1 .. Len(q), ~(now - q[j] >= Horizon[w])
                 PROVE  j \in young
      OBVIOUS
    <2>1. q[j] \in Nat /\ j \in DOMAIN q
      BY <1>0
    <2>2. now - q[j] < Horizon[w]
      BY <2>1, <1>0
    <2> QED BY <2>1, <2>2
  <1>1. CASE young = {}
    <2>1. prune(w) = <<>>
      BY <1>1 DEF prune
    <2>2. \A j \in 1 .. Len(q) : now - q[j] >= Horizon[w]
      BY <1>0a, <1>1
    <2> QED BY <1>0, <2>1, <2>2
  <1>2. CASE young # {}
    <2> DEFINE m == CHOOSE i \in young : \A j \in young : i <= j
    <2>1. prune(w) = SubSeq(q, m, Len(q))
      BY <1>2 DEF prune
    <2>2. \E i \in young : \A j \in young : i <= j
      <3>1. young \in SUBSET Nat
        BY <1>0
      <3> HIDE DEF young
      <3> QED BY <3>1, <1>2, MinIsLeast
    <2>3. m \in young /\ \A j \in young : m <= j
      BY <2>2
    <2> HIDE DEF m
    <2>4. m \in 1 .. Len(q) /\ now - q[m] < Horizon[w]
      BY <2>3, <1>0
    <2>5. \A j \in 1 .. (m - 1) : now - q[j] >= Horizon[w]
      <3> SUFFICES ASSUME NEW j \in 1 .. (m - 1)
                   PROVE  now - q[j] >= Horizon[w]
        OBVIOUS
      <3>1. j \in 1 .. Len(q) /\ ~(m <= j)
        BY <2>4, <1>0
      <3> HIDE DEF young
      <3> QED BY <3>1, <2>3, <1>0a
    <2>6. /\ SubSeq(q, m, Len(q)) \in Seq(0 .. MaxTime)
          /\ Len(SubSeq(q, m, Len(q))) = Len(q) - (m - 1)
          /\ \A j \in 1 .. (Len(q) - (m - 1)) : SubSeq(q, m, Len(q))[j] = q[(m - 1) + j]
      BY <1>0, <2>4, SMTT(30)
    <2>7. m - 1 \in 0 .. Len(q) /\ (m - 1) + 1 = m
      BY <2>4, <1>0
    <2>8. prune(w) \in Seq(0 .. MaxTime) /\ Len(prune(w)) = Len(q) - (m - 1)
      BY <2>1, <2>6
    <2>9. \A j \in 1 .. (Len(q) - (m - 1)) : prune(w)[j] = q[(m - 1) + j]
      BY <2>1, <2>6
    <2>10. now - q[(m - 1) + 1] < Horizon[w]
      BY <2>4, <2>7
    <2> HIDE DEF q
    <2>11. \E k \in 0 .. Len(q) :
             /\ prune(w) \in Seq(0 .. MaxTime)
             /\ Len(prune(w)) = Len(q) - k
             /\ \A j \in 1 .. (Len(q) - k) : prune(w)[j] = q[k + j]
             /\ \A j \in 1 .. k : now - q[j] >= Horizon[w]
             /\ k < Len(q) => now - q[k + 1] < Horizon[w]
      BY <2>7, <2>8, <2>9, <2>10, <2>5
    <2> QED BY <2>11 DEF q
  <1> QED BY <1>1, <1>2

(* The inductive invariant of one window: q is its queue, L its admission  *)
(* history and t the time.                                                 *)
WindowInv(w, q, L, t) ==
  /\ q \in Seq(0 .. MaxTime) /\ L \in Seq(0 .. MaxTime)
  /\ Len(q) <= Limit[w] /\ Len(q) <= Len(L)
  /\ \A k \in 1 .. Len(q) : q[k] = L[(Len(L) - Len(q)) + k]
  /\ \A i \in 1 .. (Len(L) - Len(q)) : t - L[i] >= Horizon[w]
  /\ \A i \in 1 .. Len(L) : L[i] <= t
  /\ \A i, j \in 1 .. Len(L) : i <= j => L[i] <= L[j]
  /\ \A i \in 1 .. Len(L) :
       i + Limit[w] <= Len(L) => L[i + Limit[w]] - L[i] >= Horizon[w]

AllWindows == \A w \in Window : WindowInv(w, hits[w], charged[w], now)

(* IInv is WindowInv of every window. *)
LEMMA IInvByWindow == RateIInv <=> RateTypeOK /\ AllWindows
PROOF
  <1> SUFFICES ASSUME RateTypeOK
               PROVE  (WindowIsRecentHistory /\ HistoryOrdered /\ BlastRate)
                        <=> AllWindows
    BY DEF RateIInv
  <1>1. \A w \in Window :
          /\ hits[w] \in Seq(0 .. MaxTime) /\ charged[w] \in Seq(0 .. MaxTime)
          /\ Len(hits[w]) \in Nat /\ Len(charged[w]) \in Nat
          /\ Len(hits[w]) <= Limit[w]
          /\ DOMAIN hits[w] = 1 .. Len(hits[w])
          /\ DOMAIN charged[w] = 1 .. Len(charged[w])
    BY DEF RateTypeOK
  <1>2. ASSUME NEW w \in Window
        PROVE  (Dropped(w) >= 0) <=> (Len(hits[w]) <= Len(charged[w]))
    BY <1>1 DEF Dropped
  <1> QED BY <1>1, <1>2
          DEF AllWindows, WindowInv, WindowIsRecentHistory, HistoryOrdered,
              BlastRate, Dropped

(* Pruning keeps the window invariant. *)
LEMMA PruneKeepsWindow ==
  ASSUME RateTypeOK, NEW w \in Window, WindowInv(w, hits[w], charged[w], now)
  PROVE  /\ WindowInv(w, prune(w), charged[w], now)
         /\ \A k \in 1 .. Len(prune(w)) : now - prune(w)[k] < Horizon[w]
PROOF
  <1> DEFINE q == hits[w]
             L == charged[w]
             p == prune(w)
  <1>1. PICK k \in 0 .. Len(q) :
           /\ p \in Seq(0 .. MaxTime)
           /\ Len(p) = Len(q) - k
           /\ \A j \in 1 .. (Len(q) - k) : p[j] = q[k + j]
           /\ \A j \in 1 .. k : now - q[j] >= Horizon[w]
           /\ k < Len(q) => now - q[k + 1] < Horizon[w]
    BY WindowPrune DEF RateTypeOK
  <1>2. /\ Len(q) \in Nat /\ Len(L) \in Nat /\ Len(q) <= Len(L)
        /\ Limit[w] \in Nat /\ Len(q) <= Limit[w]
        /\ now \in Nat /\ Horizon[w] \in Nat /\ MaxTime \in Nat
        /\ \A i \in 1 .. Len(L) : L[i] \in Nat
        /\ \A i \in 1 .. Len(q) : q[i] \in Nat
    <2>1. /\ q \in Seq(0 .. MaxTime) /\ L \in Seq(0 .. MaxTime)
          /\ Len(q) <= Len(L) /\ Len(q) <= Limit[w]
      BY DEF WindowInv
    <2>2. MaxTime \in Nat /\ now \in Nat /\ Limit[w] \in Nat
      BY RateConstants DEF RateTypeOK
    <2>3. Horizon[w] \in Nat
      BY RateConstants DEF Horizon
    <2> HIDE DEF q, L
    <2>4. /\ Len(q) \in Nat /\ Len(L) \in Nat
          /\ \A i \in 1 .. Len(L) : L[i] \in Nat
          /\ \A i \in 1 .. Len(q) : q[i] \in Nat
      BY <2>1, <2>2, SMTT(30)
    <2> QED BY <2>1, <2>2, <2>3, <2>4
  <1>3. \A j \in 1 .. Len(q) : q[j] = L[(Len(L) - Len(q)) + j]
    BY DEF WindowInv
  <1>4. \A i \in 1 .. (Len(L) - Len(q)) : now - L[i] >= Horizon[w]
    BY DEF WindowInv
  <1>5. \A i, j \in 1 .. Len(L) : i <= j => L[i] <= L[j]
    BY DEF WindowInv
  <1> HIDE DEF p, q, L
  <1>6. ASSUME NEW j \in 1 .. Len(p) PROVE p[j] = L[(Len(L) - Len(p)) + j]
    <2>1. k + j \in 1 .. Len(q) /\ (Len(L) - Len(q)) + (k + j) = (Len(L) - Len(p)) + j
      BY <1>1, <1>2
    <2> QED BY <2>1, <1>1, <1>3
  <1>7. ASSUME NEW i \in 1 .. (Len(L) - Len(p)) PROVE now - L[i] >= Horizon[w]
    <2>1. CASE i <= Len(L) - Len(q)
      BY <2>1, <1>1, <1>2, <1>4
    <2>2. CASE i > Len(L) - Len(q)
      <3>1. /\ i - (Len(L) - Len(q)) \in 1 .. k
            /\ i - (Len(L) - Len(q)) \in 1 .. Len(q)
            /\ (Len(L) - Len(q)) + (i - (Len(L) - Len(q))) = i
        BY <2>2, <1>1, <1>2
      <3>2. q[i - (Len(L) - Len(q))] = L[i]
        BY <3>1, <1>3
      <3> QED BY <3>1, <3>2, <1>1
    <2> QED BY <2>1, <2>2, <1>1, <1>2
  <1>8. ASSUME NEW j \in 1 .. Len(p) PROVE now - p[j] < Horizon[w]
    <2>1. k < Len(q) /\ now - q[k + 1] < Horizon[w] /\ k + 1 \in 1 .. Len(q)
      BY <1>1, <1>2
    <2>2. /\ (Len(L) - Len(q)) + (k + 1) \in 1 .. Len(L)
          /\ (Len(L) - Len(p)) + j \in 1 .. Len(L)
          /\ (Len(L) - Len(q)) + (k + 1) <= (Len(L) - Len(p)) + j
      BY <2>1, <1>1, <1>2, SMTT(30)
    <2>3. q[k + 1] = L[(Len(L) - Len(q)) + (k + 1)]
      BY <2>1, <1>3
    <2>4. q[k + 1] <= p[j] /\ p[j] \in Nat /\ q[k + 1] \in Nat
      BY <2>2, <2>3, <1>5, <1>6, <1>2
    <2> QED BY <2>1, <2>4, <1>2
  <1>9. Len(p) <= Limit[w] /\ Len(p) <= Len(L)
    BY <1>1, <1>2
  <1>10. WindowInv(w, p, L, now)
    BY <1>1, <1>6, <1>7, <1>9 DEF WindowInv, q, L
  <1> QED BY <1>8, <1>10 DEF p, L

(* Recording an admission in a window with room keeps the invariant: the   *)
(* admission Limit places back has already been dropped, hence is a        *)
(* horizon old.                                                            *)
LEMMA RecordKeepsWindow ==
  ASSUME NEW w \in Window, NEW p, NEW L, NEW t \in 0 .. MaxTime,
         WindowInv(w, p, L, t), Len(p) < Limit[w]
  PROVE  WindowInv(w, Append(p, t), Append(L, t), t)
PROOF
  <1> DEFINE P == Append(p, t)
             M == Append(L, t)
  <1>1. /\ p \in Seq(0 .. MaxTime) /\ L \in Seq(0 .. MaxTime)
        /\ Len(p) \in Nat /\ Len(L) \in Nat /\ Len(p) <= Len(L)
        /\ Limit[w] \in Nat /\ Horizon[w] \in Nat /\ MaxTime \in Nat /\ t \in Nat
        /\ \A i \in 1 .. Len(L) : L[i] \in Nat
    BY RateConstants DEF WindowInv, Horizon
  <1>2. /\ P \in Seq(0 .. MaxTime) /\ M \in Seq(0 .. MaxTime)
        /\ Len(P) = Len(p) + 1 /\ Len(M) = Len(L) + 1
        /\ P[Len(p) + 1] = t /\ M[Len(L) + 1] = t
        /\ \A i \in 1 .. Len(p) : P[i] = p[i]
        /\ \A i \in 1 .. Len(L) : M[i] = L[i]
    BY <1>1
  <1> HIDE DEF P, M
  <1>2a. /\ Len(P) = Len(p) + 1 /\ Len(M) = Len(L) + 1
         /\ Len(p) \in Nat /\ Len(L) \in Nat /\ Len(p) <= Len(L) /\ Limit[w] \in Nat
    BY <1>1, <1>2
  <1>3. ASSUME NEW k \in 1 .. Len(P) PROVE P[k] = M[(Len(M) - Len(P)) + k]
    <2>1. CASE k = Len(p) + 1
      BY <2>1, <1>1, <1>2
    <2>2. CASE k # Len(p) + 1
      <3>1. /\ k \in 1 .. Len(p)
            /\ (Len(M) - Len(P)) + k = (Len(L) - Len(p)) + k
            /\ (Len(L) - Len(p)) + k \in 1 .. Len(L)
        BY <2>2, <1>2a
      <3> QED BY <3>1, <1>2 DEF WindowInv
    <2> QED BY <2>1, <2>2
  <1>4. ASSUME NEW i \in 1 .. (Len(M) - Len(P)) PROVE t - M[i] >= Horizon[w]
    <2>1. i \in 1 .. (Len(L) - Len(p)) /\ i \in 1 .. Len(L)
      BY <1>1, <1>2
    <2> QED BY <2>1, <1>2 DEF WindowInv
  <1>5. ASSUME NEW i \in 1 .. Len(M) PROVE M[i] <= t /\ M[i] \in Nat
    <2>1. CASE i = Len(L) + 1
      BY <2>1, <1>1, <1>2
    <2>2. CASE i # Len(L) + 1
      <3>1. i \in 1 .. Len(L)
        BY <2>2, <1>2a
      <3> QED BY <3>1, <1>1, <1>2 DEF WindowInv
    <2> QED BY <2>1, <2>2
  <1>6. ASSUME NEW i \in 1 .. Len(M), NEW j \in 1 .. Len(M), i <= j PROVE M[i] <= M[j]
    <2>1. CASE j = Len(L) + 1
      BY <2>1, <1>2, <1>5
    <2>2. CASE j # Len(L) + 1
      <3>1. i \in 1 .. Len(L) /\ j \in 1 .. Len(L)
        BY <2>2, <1>2a, <1>6
      <3> QED BY <3>1, <1>2, <1>6 DEF WindowInv
    <2> QED BY <2>1, <2>2
  <1>7. ASSUME NEW i \in 1 .. Len(M), i + Limit[w] <= Len(M)
        PROVE  M[i + Limit[w]] - M[i] >= Horizon[w]
    <2>1. CASE i + Limit[w] = Len(L) + 1
      <3>1. i \in 1 .. (Len(M) - Len(P))
        BY <2>1, <1>1, <1>2, SMTT(30)
      <3> QED BY <3>1, <2>1, <1>2, <1>4
    <2>2. CASE i + Limit[w] # Len(L) + 1
      <3>1. i \in 1 .. Len(L) /\ i + Limit[w] \in 1 .. Len(L) /\ i + Limit[w] <= Len(L)
        BY <2>2, <1>2a, <1>7
      <3> QED BY <3>1, <1>2 DEF WindowInv
    <2> QED BY <2>1, <2>2
  <1>8. Len(P) <= Limit[w] /\ Len(P) <= Len(M)
    BY <1>1, <1>2
  <1>9. WindowInv(w, P, M, t)
    BY <1>2, <1>3, <1>4, <1>5, <1>6, <1>7, <1>8 DEF WindowInv
  <1> QED BY <1>9 DEF P, M

(* A window outlives a tick of the clock. *)
LEMMA TickKeepsWindow ==
  ASSUME NEW w \in Window, NEW q, NEW L, NEW t \in Nat, WindowInv(w, q, L, t)
  PROVE  WindowInv(w, q, L, t + 1)
PROOF
  <1>1. Horizon[w] \in Nat /\ MaxTime \in Nat /\ Len(L) \in Nat /\ Len(q) \in Nat
    BY RateConstants DEF WindowInv, Horizon
  <1>2. \A i \in 1 .. Len(L) : L[i] \in Nat
    BY RateConstants DEF WindowInv
  <1>3. ASSUME NEW i \in 1 .. (Len(L) - Len(q)) PROVE (t + 1) - L[i] >= Horizon[w]
    <2>1. i \in 1 .. Len(L) /\ L[i] \in Nat
      BY <1>1, <1>2
    <2>2. t - L[i] >= Horizon[w]
      BY DEF WindowInv
    <2> QED BY <2>1, <2>2, <1>1
  <1>4. ASSUME NEW i \in 1 .. Len(L) PROVE L[i] <= t + 1
    <2>1. L[i] \in Nat /\ L[i] <= t
      BY <1>2 DEF WindowInv
    <2> QED BY <2>1
  <1> HIDE DEF Horizon
  <1> QED BY <1>3, <1>4 DEF WindowInv

-----------------------------------------------------------------------------
(* try_admit keeps the type invariant and every window's invariant.        *)
LEMMA AdmitKeepsIInv ==
  ASSUME RateIInv, NEW class \in ActionClass, Admit(class), UNCHANGED now
  PROVE  RateIInv'
PROOF
  <1>0. RateTypeOK /\ \A w \in Window : WindowInv(w, hits[w], charged[w], now)
    BY IInvByWindow DEF AllWindows
  <1>1. ASSUME NEW w \in Window PROVE WindowInv(w, hits'[w], charged'[w], now')
    <2>1. CASE w \in Applies(class)
      <3>1. hits'[w] = Append(prune(w), now) /\ charged'[w] = Append(charged[w], now)
        BY <2>1 DEF Admit, Recorded
      <3>2. WindowInv(w, prune(w), charged[w], now)
        BY <1>0, PruneKeepsWindow
      <3>3. Len(prune(w)) < Limit[w]
        <4>1. ~(Len(prune(w)) >= Limit[w])
          BY <2>1 DEF Admit, Admissible, is_full
        <4>2. Len(prune(w)) \in Nat /\ Limit[w] \in Nat
          BY <3>2, RateConstants DEF WindowInv
        <4> QED BY <4>1, <4>2
      <3>4. now \in 0 .. MaxTime
        BY <1>0 DEF RateTypeOK
      <3> QED BY <3>1, <3>2, <3>3, <3>4, RecordKeepsWindow
    <2>2. CASE w \notin Applies(class)
      BY <2>2, <1>0 DEF Admit, Recorded
    <2> QED BY <2>1, <2>2
  <1>2. RateTypeOK'
    <2>1. \A w \in Window : /\ hits'[w] \in Seq(0 .. MaxTime)
                           /\ charged'[w] \in Seq(0 .. MaxTime)
                           /\ Len(hits'[w]) <= Limit[w]
      BY <1>1 DEF WindowInv
    <2>2. \E f, g : hits' = [w \in Window |-> f[w]] /\ charged' = [w \in Window |-> g[w]]
      <3>1. hits' = [w \in Window |-> hits'[w]] /\ charged' = [w \in Window |-> charged'[w]]
        BY DEF Admit, Recorded
      <3> QED BY <3>1
    <2>3. hits' \in [Window -> Seq(0 .. MaxTime)] /\ charged' \in [Window -> Seq(0 .. MaxTime)]
      BY <2>1, <2>2
    <2>4. now' \in 0 .. MaxTime /\ verdict' = "admitted"
      BY <1>0 DEF RateTypeOK, Admit
    <2> QED BY <2>1, <2>3, <2>4 DEF RateTypeOK
  <1>3. AllWindows'
    BY <1>1 DEF AllWindows
  <1> QED BY <1>2, <1>3, IInvByWindow, PTL

(* A shed action only prunes. *)
LEMMA ShedKeepsIInv ==
  ASSUME RateIInv, NEW class \in ActionClass, Shed(class), UNCHANGED now
  PROVE  RateIInv'
PROOF
  <1>0. RateTypeOK /\ \A w \in Window : WindowInv(w, hits[w], charged[w], now)
    BY IInvByWindow DEF AllWindows
  <1>1. ASSUME NEW w \in Window PROVE WindowInv(w, hits'[w], charged'[w], now')
    <2>1. hits'[w] = prune(w) \/ hits'[w] = hits[w]
      BY DEF Shed, Pruned
    <2>2. charged'[w] = charged[w] /\ now' = now
      BY DEF Shed
    <2> QED BY <2>1, <2>2, <1>0, PruneKeepsWindow
  <1>2. RateTypeOK'
    <2>1. \A w \in Window : /\ hits'[w] \in Seq(0 .. MaxTime)
                           /\ Len(hits'[w]) <= Limit[w]
      BY <1>1 DEF WindowInv
    <2>2. hits' = [w \in Window |-> hits'[w]]
      BY DEF Shed, Pruned
    <2>3. hits' \in [Window -> Seq(0 .. MaxTime)]
      BY <2>1, <2>2
    <2>4. PICK w \in Window : verdict' = RateRejection[w]
      BY DEF Shed, Asked, Applies, Window
    <2>5. verdict' \in {"none", "admitted", "TotalPerMinute", "MutatingPerMinute", "CriticalPerHour"}
      BY <2>4 DEF RateRejection, Window
    <2>6. now' \in 0 .. MaxTime /\ charged' \in [Window -> Seq(0 .. MaxTime)]
      BY <1>0 DEF RateTypeOK, Shed
    <2> QED BY <2>1, <2>3, <2>5, <2>6 DEF RateTypeOK
  <1>3. AllWindows'
    BY <1>1 DEF AllWindows
  <1> QED BY <1>2, <1>3, IInvByWindow, PTL

(* So does the whole limiter: a tick admits nothing. *)
LEMMA TickKeepsIInv == RateIInv /\ Tick => RateIInv'
PROOF
  <1> SUFFICES ASSUME RateIInv, Tick PROVE RateIInv'
    OBVIOUS
  <1>0. RateTypeOK /\ \A w \in Window : WindowInv(w, hits[w], charged[w], now)
    BY IInvByWindow DEF AllWindows
  <1>1. now \in Nat /\ now' = now + 1 /\ now' \in 0 .. MaxTime
    BY <1>0, RateConstants DEF RateTypeOK, Tick
  <1>2. \A w \in Window : WindowInv(w, hits'[w], charged'[w], now')
    BY <1>0, <1>1, TickKeepsWindow DEF Tick
  <1>3. RateTypeOK'
    BY <1>0, <1>1 DEF RateTypeOK, Tick
  <1>4. AllWindows'
    BY <1>2 DEF AllWindows
  <1> QED BY <1>3, <1>4, IInvByWindow, PTL

(* Boot establishes the invariant. *)
LEMMA RateInitIInv == RateInit => RateIInv
  BY RateConstants
  DEF RateInit, RateIInv, RateTypeOK, WindowIsRecentHistory, HistoryOrdered,
      BlastRate, Dropped

(* The invariant is inductive: a tick, an admission, a refusal.            *)
LEMMA RateNextIInv == RateIInv /\ [RateNext]_RateVars => RateIInv'
PROOF
  <1> SUFFICES ASSUME RateIInv, [RateNext]_RateVars PROVE RateIInv'
    OBVIOUS
  <1>1. CASE Tick
    BY <1>1, TickKeepsIInv
  <1>2. ASSUME NEW class \in ActionClass, try_admit(class) PROVE RateIInv'
    BY <1>2, AdmitKeepsIInv, ShedKeepsIInv DEF try_admit
  <1>3. CASE UNCHANGED RateVars
    BY <1>3 DEF RateVars, RateIInv, RateTypeOK, WindowIsRecentHistory,
                HistoryOrdered, BlastRate, Dropped
  <1> QED BY <1>1, <1>2, <1>3 DEF RateNext

(* Every reachable limiter state satisfies the inductive invariant. *)
THEOREM RateInvariance == RateSpec => []RateIInv
  BY RateInitIInv, RateNextIInv, PTL DEF RateSpec

(* TypeOK: no window ever holds more admissions than its ceiling. *)
THEOREM RateTypeCorrect == RateSpec => []RateTypeOK
  <1>1. RateIInv => RateTypeOK BY DEF RateIInv
  <1> QED BY RateInvariance, <1>1, PTL

(* BlastRate: whatever is requested, and with any configured ceilings, one *)
(* executor process never admits more than Limit[w] actions of a class     *)
(* within a horizon (ratelimit.rs, layer #12).                             *)
THEOREM CeilingHolds == RateSpec => []BlastRate
  <1>1. RateIInv => BlastRate BY DEF RateIInv
  <1> QED BY RateInvariance, <1>1, PTL

-----------------------------------------------------------------------------
(* When a window is full, its history holds that many young admissions.    *)
LEMMA FullMeansCeiling ==
  ASSUME RateIInv, NEW w \in Window, is_full(w)
  PROVE  Cardinality({i \in DOMAIN charged[w] : now - charged[w][i] < Horizon[w]})
           >= Limit[w]
PROOF
  <1> DEFINE L == charged[w]
             p == prune(w)
             S == {i \in DOMAIN L : now - L[i] < Horizon[w]}
             T == (Len(L) - Len(p) + 1) .. Len(L)
  <1>1. /\ WindowInv(w, p, L, now)
        /\ \A k \in 1 .. Len(p) : now - p[k] < Horizon[w]
    BY IInvByWindow, PruneKeepsWindow DEF AllWindows
  <1>2. /\ L \in Seq(0 .. MaxTime) /\ Len(L) \in Nat /\ Len(p) \in Nat /\ Len(p) <= Len(L)
        /\ DOMAIN L = 1 .. Len(L) /\ Limit[w] \in Nat /\ Len(p) >= Limit[w]
        /\ \A k \in 1 .. Len(p) : p[k] = L[(Len(L) - Len(p)) + k]
    BY <1>1, RateConstants DEF WindowInv, is_full
  <1>2a. /\ Len(L) \in Nat /\ Len(p) \in Nat /\ Len(p) <= Len(L)
         /\ 1 .. Len(L) = DOMAIN L
    BY <1>2
  <1> HIDE DEF L, p
  <1>3. ASSUME NEW i \in T PROVE i \in S
    <2> DEFINE k == i - (Len(L) - Len(p))
    <2>1. k \in 1 .. Len(p) /\ (Len(L) - Len(p)) + k = i /\ i \in 1 .. Len(L)
      BY <1>2a
    <2>2. L[i] = p[k]
      BY <2>1, <1>2
    <2> HIDE DEF k
    <2> QED BY <2>1, <2>2, <1>1, <1>2
  <1>4. IsFiniteSet(T) /\ Cardinality(T) = Len(p)
    <2>1. Len(L) - Len(p) + 1 \in Int /\ Len(L) \in Int
      BY <1>2a
    <2>2. (IF Len(L) - Len(p) + 1 > Len(L) THEN 0 ELSE Len(L) - (Len(L) - Len(p) + 1) + 1) = Len(p)
      BY <1>2a
    <2> QED BY <2>1, <2>2, FS_Interval
  <1>5. IsFiniteSet(S)
    <2>1. IsFiniteSet(1 .. Len(L))
      BY <1>2a, FS_Interval
    <2>2. S \in SUBSET (1 .. Len(L))
      BY <1>2a
    <2> QED BY <2>1, <2>2, FS_Subset
  <1>6. Cardinality(T) <= Cardinality(S) /\ Cardinality(S) \in Nat
    <2> HIDE DEF S, T
    <2>1. T \subseteq S
      BY <1>3
    <2> QED BY <2>1, <1>5, FS_Subset, FS_CardinalityType
  <1> HIDE DEF S
  <1>7. Cardinality(S) >= Limit[w]
    BY <1>2, <1>4, <1>6
  <1> QED BY <1>7 DEF S, L

(* ShedOnlyAtCeiling: the limiter never sheds an action the configured     *)
(* ceilings would allow; shed actions consume no budget.                   *)
THEOREM NeverShedsEarly == RateSpec => []ShedOnlyAtCeiling
PROOF
  <1>1. RateInit => ShedOnlyAtCeiling
    BY DEF RateInit, ShedOnlyAtCeiling, RateRejection, Window
  <1>2. RateIInv /\ ShedOnlyAtCeiling /\ [RateNext]_RateVars => ShedOnlyAtCeiling'
    <2> SUFFICES ASSUME RateIInv, ShedOnlyAtCeiling, [RateNext]_RateVars
                 PROVE  ShedOnlyAtCeiling'
      OBVIOUS
    <2>1. CASE Tick
      BY <2>1 DEF Tick, ShedOnlyAtCeiling, RateRejection, Window
    <2>2. ASSUME NEW class \in ActionClass, Admit(class), UNCHANGED now
          PROVE  ShedOnlyAtCeiling'
      BY <2>2 DEF Admit, ShedOnlyAtCeiling, RateRejection, Window
    <2>3. ASSUME NEW class \in ActionClass, Shed(class), UNCHANGED now
          PROVE  ShedOnlyAtCeiling'
      <3>1. PICK w \in Window : is_full(w) /\ verdict' = RateRejection[w]
        BY <2>3 DEF Shed, Asked, Applies, Window
      <3>2. \A v \in Window : verdict' = RateRejection[v] => v = w
        BY <3>1 DEF RateRejection, Window
      <3>3. charged' = charged /\ now' = now
        BY <2>3 DEF Shed
      <3>4. PICK c : c = Cardinality({i \in DOMAIN charged[w] : now - charged[w][i] < Horizon[w]})
        OBVIOUS
      <3>5. c >= Limit[w]
        BY <2>3, <3>1, <3>4, FullMeansCeiling
      <3>6. c = Cardinality({i \in DOMAIN charged'[w] : now' - charged'[w][i] < Horizon[w]})
        BY <3>3, <3>4
      <3>7. ASSUME NEW v \in Window, verdict' = RateRejection[v]
            PROVE  Cardinality({i \in DOMAIN charged'[v] : now' - charged'[v][i] < Horizon[v]})
                     >= Limit[v]
        <4>1. v = w
          BY <3>2, <3>7
        <4> QED BY <3>5, <3>6, <4>1
      <3>8. \A S : Cardinality(S) = Cardinality(S)
        BY DEF Cardinality, Cardinality
      <3> QED BY <3>7, <3>8 DEF ShedOnlyAtCeiling
    <2>4. CASE UNCHANGED RateVars
      BY <2>4 DEF RateVars, ShedOnlyAtCeiling
    <2> QED BY <2>1, <2>2, <2>3, <2>4 DEF RateNext, try_admit
  <1> QED BY <1>1, <1>2, RateInvariance, PTL DEF RateSpec
=============================================================================
