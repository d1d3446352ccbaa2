---------------------------- MODULE ArchangelProofs ----------------------------
(***************************************************************************)
(* Proofs about the daemon, and about the daemon and the executor          *)
(* together.  First the daemon against any executor, for every set of      *)
(* bundles, arguments and modes, every APPROVAL_TTL and MAX_PENDING and    *)
(* every bound: it sends an action at most once, only after logging it,    *)
(* only licensed, and never one it has refused; the inductive invariant is *)
(* IInv of Orchestrator.  Then the two of them, for every number of tasks, *)
(* restarts and approvals: no action runs twice, log and host agree, an    *)
(* approved action is lost as a replay only when it was overtaken, and the *)
(* system implements ActionLifecycle; the inductive invariant is SystemInv *)
(* of Archangel.                                                           *)
(***************************************************************************)
EXTENDS Archangel, FiniteSetTheorems, SequenceTheorems, WellFoundedInduction, TLAPS

-----------------------------------------------------------------------------
(* The daemon, against any executor.                                       *)

(* The policy engine always answers, with one of its four decisions. *)
LEMMA EvaluateDecides ==
  ASSUME NEW profile, NEW m, NEW exec, NEW b
  PROVE  evaluate(profile, m, exec, b) \in PolicyDecision
  BY DEF evaluate, PolicyDecision

(* What a handler's appends do, however many of them succeed: the log is   *)
(* extended by the first n entries and keeps what it had.                  *)
LogKept == \A i \in DOMAIN audit : i \in DOMAIN audit' /\ audit'[i] = audit[i]

(* Appending the first n of a handler's entries only extends the log. *)
LEMMA AppendExtends ==
  ASSUME audit \in Seq(AuditEntry), NEW entries \in Seq(AuditEntry),
         NEW n \in 0 .. Len(entries), AppendEntries(entries, n)
  PROVE  /\ audit' \in Seq(AuditEntry)
         /\ LogKept
         /\ Len(audit') = Len(audit) + n
         /\ \A k \in 1 .. n : audit'[Len(audit) + k] = entries[k]
PROOF
  <1>1. SubSeq(entries, 1, n) \in Seq(AuditEntry) /\ Len(SubSeq(entries, 1, n)) = n
        /\ \A k \in 1 .. n : SubSeq(entries, 1, n)[k] = entries[k]
    OBVIOUS
  <1>2. audit' = audit \o SubSeq(entries, 1, n)
    BY DEF AppendEntries
  <1> QED BY <1>1, <1>2 DEF LogKept

(* What the log said of a frame it goes on saying. *)
LEMMA LoggedStays ==
  ASSUME LogKept, NEW event, NEW f
  PROVE  Logged(event, f) \subseteq Logged(event, f)'
  BY DEF LogKept, Logged

(* A licence on record stays one. *)
LEMMA LicensedStays ==
  ASSUME LogKept, NEW f, Licensed(f)
  PROVE  Licensed(f)'
PROOF
  <1>1. CASE Logged("Allow", f) # {}
    BY <1>1, LoggedStays DEF Licensed
  <1>2. CASE Logged("Allow", f) = {}
    <2>1. PICK i \in Logged("RequireApproval", f), j \in Logged("ApprovalGranted", f) :
            i < j /\ audit[j].at - audit[i].at <= APPROVAL_TTL
      BY <1>2 DEF Licensed
    <2>2. i \in Logged("RequireApproval", f)' /\ j \in Logged("ApprovalGranted", f)'
      BY LoggedStays
    <2>3. audit'[i] = audit[i] /\ audit'[j] = audit[j]
      BY DEF LogKept, Logged
    <2> QED BY <2>1, <2>2, <2>3 DEF Licensed
  <1> QED BY <1>1, <1>2

(* A step that sends nothing and keeps the log keeps what is said of the   *)
(* frames sent.                                                            *)
LEMMA SentStays ==
  ASSUME IInv, LogKept, UNCHANGED sent
  PROVE  SentOnce' /\ SentAreAudited' /\ SentAreLicensed'
PROOF
  <1>1. SentOnce'
    BY DEF IInv, SentOnce
  <1>2. SentAreAudited'
    <2> SUFFICES ASSUME NEW k \in DOMAIN sent
                 PROVE  Logged("ExecRequested", sent[k])' # {}
      BY DEF SentAreAudited
    <2>1. Logged("ExecRequested", sent[k]) # {}
      BY DEF IInv, SentAreAudited
    <2> QED BY <2>1 DEF Logged, LogKept
  <1>3. SentAreLicensed'
    <2> SUFFICES ASSUME NEW k \in DOMAIN sent
                 PROVE  Licensed(sent[k])'
      BY DEF SentAreLicensed
    <2> DEFINE f == sent[k]
    <2>1. Licensed(sent[k])
      BY DEF IInv, SentAreLicensed
    <2>2. PICK g : g = sent[k]
      OBVIOUS
    <2>3. Licensed(g)'
      BY <2>1, <2>2, LicensedStays
    <2> QED BY <2>2, <2>3 DEF Licensed, Logged
  <1> QED BY <1>1, <1>2, <1>3

(* Every entry the handlers log is one of the format's. *)
LEMMA EntryOK ==
  ASSUME TypeOK, NEW event \in Event, NEW a \in 0 .. MaxTask
  PROVE  Entry(event, a) \in AuditEntry
  BY DEF TypeOK, Entry, AuditEntry

(* Entries that leave the daemon's table, or stay in it, stay sound. *)
LEMMA PendingStays ==
  ASSUME IInv, LogKept, pending' \subseteq pending, UNCHANGED published,
         tasks' \in Nat, tasks' >= tasks, pc' # "down"
  PROVE  PendingSound'
PROOF
  <1>1. IsFiniteSet(pending')
    BY FS_Subset DEF IInv, PendingSound
  <1>2. ASSUME NEW p \in pending'
        PROVE  /\ SignedHere(p)'
               /\ \E i \in Logged("RequireApproval", p.frame)' : audit'[i].at = p.created
    <2>1. p \in pending /\ p.action \in Nat /\ tasks \in Nat
      BY BoundAssumption DEF IInv, TypeOK, Action
    <2>2. SignedHere(p)'
      BY <2>1 DEF IInv, PendingSound, SignedHere
    <2>3. PICK i \in Logged("RequireApproval", p.frame) : audit[i].at = p.created
      BY <2>1 DEF IInv, PendingSound
    <2>4. i \in Logged("RequireApproval", p.frame)' /\ audit'[i] = audit[i]
      BY <2>3, LoggedStays DEF Logged, LogKept
    <2> QED BY <2>2, <2>3, <2>4
  <1> QED BY <1>1, <1>2 DEF PendingSound

(* Action ids are numbers, in the frames sent as elsewhere. *)
LEMMA ActionIds ==
  ASSUME IInv
  PROVE  /\ tasks \in Nat
         /\ Action \subseteq Nat /\ Action \subseteq 0 .. MaxTask
         /\ \A k \in DOMAIN sent : sent[k] \in Frame /\ sent[k].nonce \in Nat
         /\ \A t \in told : t.action \in Nat
         /\ \A p \in pending : p.action \in Nat
PROOF
  <1>1. tasks \in Nat /\ Action \subseteq Nat /\ Action \subseteq 0 .. MaxTask
    BY BoundAssumption DEF IInv, TypeOK, Action
  <1>2. \A k \in DOMAIN sent : sent[k] \in Frame
    BY DEF IInv, TypeOK
  <1>3. \A f \in Frame : f.nonce \in Nat
    BY <1>1 DEF Frame
  <1>4. \A t \in told : t.action \in Nat
    BY <1>1 DEF IInv, ToldActions
  <1>5. \A p \in pending : p.action \in Nat
    BY <1>1 DEF IInv, TypeOK
  <1> QED BY <1>1, <1>2, <1>3, <1>4, <1>5

(* What the operator is told in this step is sound: it concerns an action  *)
(* proposed before, and a refusal one whose frame was never sent and which *)
(* no longer waits.                                                        *)
NewsSound ==
  \A t \in told' \ told :
    /\ t.action \in Action /\ t.action <= tasks
    /\ t.outcome \in GateRefusal => /\ \A k \in DOMAIN sent : sent[k].nonce # t.action
                                    /\ \A p \in pending' : p.action # t.action

(* Sound news keeps what was refused unsent, and leaves undecided every    *)
(* action it does not refuse.                                              *)
LEMMA NewsKeeps ==
  ASSUME IInv, UNCHANGED sent, tasks' \in Nat, tasks' >= tasks, NewsSound
  PROVE  /\ RefusedNeverSent' /\ ToldActions' /\ DecidedAreOld'
         /\ \A b : (/\ Undecided(b)
                   /\ \A t \in told' \ told : t.outcome \in GateRefusal => t.action # b)
                   => Undecided(b)'
PROOF
  <1>1. RefusedNeverSent'
    BY DEF IInv, RefusedNeverSent, NewsSound
  <1>2. ToldActions'
    BY DEF IInv, ToldActions, NewsSound
  <1>3. DecidedAreOld'
    <2>1. \A k \in DOMAIN sent' : sent'[k].nonce <= tasks'
      BY ActionIds DEF IInv, DecidedAreOld
    <2>2. ASSUME NEW t \in told' PROVE t.action <= tasks'
      <3>1. t.action <= tasks /\ t.action \in Nat
        BY ActionIds DEF IInv, DecidedAreOld, NewsSound
      <3> QED BY <3>1, ActionIds
    <2> QED BY <2>1, <2>2 DEF DecidedAreOld
  <1>4. \A b : (/\ Undecided(b)
               /\ \A t \in told' \ told : t.outcome \in GateRefusal => t.action # b)
               => Undecided(b)'
    BY DEF Undecided
  <1> QED BY <1>1, <1>2, <1>3, <1>4

(* Fewer approvals stay under the cap. *)
LEMMA FewerPending ==
  ASSUME IInv, NEW S, S \subseteq pending
  PROVE  /\ IsFiniteSet(S)
         /\ Cardinality(S) \in Nat
         /\ Cardinality(S) <= MAX_PENDING
PROOF
  <1>1. IsFiniteSet(pending) /\ Cardinality(pending) <= MAX_PENDING
    BY DEF IInv, PendingSound, TypeOK
  <1>2. IsFiniteSet(S) /\ Cardinality(S) <= Cardinality(pending)
    BY <1>1, FS_Subset
  <1>3. Cardinality(S) \in Nat /\ Cardinality(pending) \in Nat
    BY <1>1, <1>2, FS_CardinalityType
  <1> QED BY <1>1, <1>2, <1>3, ApprovalAssumption

-----------------------------------------------------------------------------
(* The first state: a daemon that has not started. *)
LEMMA InitIInv == Init => IInv
PROOF
  <1> SUFFICES ASSUME Init PROVE IInv
    OBVIOUS
  <1> USE BoundAssumption, ApprovalAssumption DEF Init
  <1>1. IsFiniteSet(pending) /\ Cardinality(pending) = 0
    BY FS_EmptySet
  <1>2. TypeOK
    BY <1>1 DEF TypeOK, Reply
  <1>3. UpIsPublished /\ ToldActions /\ HeldAreUndecided /\ HeldOnce /\ DecidedAreOld
    BY DEF UpIsPublished, ToldActions, HeldAreUndecided, HeldOnce, DecidedAreOld
  <1>4. PendingSound /\ CurrentSound
    BY <1>1 DEF PendingSound, CurrentSound
  <1>5. SentOnce /\ SentAreAudited /\ SentAreLicensed /\ RefusedNeverSent
    BY DEF SentOnce, SentAreAudited, SentAreLicensed, RefusedNeverSent
  <1> QED BY <1>2, <1>3, <1>4, <1>5 DEF IInv

(* A handler returns to the request loop.  Whatever it appended, dropped   *)
(* from the table and told the operator, the invariant holds as long as it *)
(* tells the truth.                                                        *)
LEMMA BackToIdle ==
  ASSUME IInv, LogKept, audit' \in Seq(AuditEntry),
         pc # "down", pc' = "idle", pending' \subseteq pending,
         reply' \in Reply, seq' \in Nat, NewsSound,
         UNCHANGED <<now, published, bundle_dir, mode, tasks, sent>>
  PROVE  IInv'
PROOF
  <1>1. TypeOK'
    <2>1. Cardinality(pending') <= MAX_PENDING
      BY FewerPending
    <2> QED BY <2>1 DEF IInv, TypeOK
  <1>2. tasks' \in Nat /\ tasks' >= tasks
    BY ActionIds
  <1>3. /\ RefusedNeverSent' /\ ToldActions' /\ DecidedAreOld'
        /\ \A b : (/\ Undecided(b)
                  /\ \A t \in told' \ told : t.outcome \in GateRefusal => t.action # b)
                  => Undecided(b)'
    BY <1>2, NewsKeeps
  <1>4. HeldAreUndecided'
    <2> SUFFICES ASSUME NEW p \in pending' PROVE Undecided(p.action)'
      BY DEF HeldAreUndecided
    <2>1. Undecided(p.action)
      BY DEF IInv, HeldAreUndecided
    <2>2. \A t \in told' \ told : t.outcome \in GateRefusal => t.action # p.action
      BY DEF NewsSound
    <2> QED BY <2>1, <2>2, <1>3
  <1>5. HeldOnce'
    BY DEF IInv, HeldOnce
  <1>6. PendingSound'
    BY <1>2, PendingStays
  <1>7. CurrentSound' /\ UpIsPublished'
    BY DEF IInv, CurrentSound, UpIsPublished
  <1>8. SentOnce' /\ SentAreAudited' /\ SentAreLicensed'
    BY SentStays
  <1> QED BY <1>1, <1>3, <1>4, <1>5, <1>6, <1>7, <1>8 DEF IInv

(* A task starts: its action is newer than anything ever decided. *)
LEMMA RunTaskIInv == IInv /\ RunTask => IInv'
PROOF
  <1> SUFFICES ASSUME IInv, RunTask PROVE IInv'
    OBVIOUS
  <1> USE BoundAssumption
  <1>0. PICK n \in 0 .. 1 :
          /\ AppendEntries(<<Entry("LlmRequest", NoAction)>>, n)
          /\ pc' = IF n = 1 THEN "thinking" ELSE "idle"
    BY DEF RunTask
  <1>1. <<Entry("LlmRequest", NoAction)>> \in Seq(AuditEntry)
        /\ Len(<<Entry("LlmRequest", NoAction)>>) = 1
    <2>1. Entry("LlmRequest", NoAction) \in AuditEntry
      BY EntryOK DEF IInv, Event, NoAction
    <2> QED BY <2>1
  <1>2. audit' \in Seq(AuditEntry) /\ LogKept
    BY <1>0, <1>1, AppendExtends DEF IInv, TypeOK
  <1>3. /\ tasks \in Nat /\ tasks' = tasks + 1 /\ tasks' \in Action
        /\ UNCHANGED <<now, published, bundle_dir, mode, seq, pending, current, reply, sent, told>>
        /\ pc = "idle" /\ pc' \in {"thinking", "idle"}
    BY <1>0 DEF IInv, TypeOK, RunTask, Action, environment, session
  <1>4. TypeOK'
    BY <1>2, <1>3 DEF IInv, TypeOK, Action
  <1>5. RefusedNeverSent' /\ ToldActions' /\ DecidedAreOld' /\ \A b : Undecided(b) => Undecided(b)'
    <2>1. NewsSound
      BY <1>3 DEF NewsSound
    <2> QED BY <1>3, <2>1, NewsKeeps
  <1>6. Undecided(tasks + 1)
    BY <1>3, ActionIds DEF IInv, DecidedAreOld, Undecided
  <1>7. HeldAreUndecided'
    BY <1>3, <1>5, <1>6 DEF IInv, HeldAreUndecided, Undecided
  <1>8. HeldOnce'
    BY <1>3 DEF IInv, HeldOnce, TypeOK, Action, PendingSound, SignedHere
  <1>9. PendingSound'
    BY <1>2, <1>3, PendingStays
  <1>10. CurrentSound' /\ UpIsPublished'
    BY <1>3 DEF IInv, CurrentSound, UpIsPublished
  <1> QED BY <1>2, <1>3, <1>4, <1>5, <1>7, <1>8, <1>9, <1>10, SentStays DEF IInv

(* The model answers without proposing anything that runs. *)
LEMMA NoActionReplyIInv == IInv /\ NoActionReply => IInv'
PROOF
  <1> SUFFICES ASSUME IInv, NoActionReply PROVE IInv'
    OBVIOUS
  <1> DEFINE E == {<<>>,
                   <<Entry("LlmResponse", NoAction)>>,
                   <<Entry("LlmResponse", NoAction), Entry("Note", NoAction)>>,
                   <<Entry("LlmResponse", NoAction), Entry("SessionEnded", NoAction)>>}
  <1>1. PICK entries \in E : \E n \in 0 .. Len(entries) : AppendEntries(entries, n)
    BY DEF NoActionReply
  <1>2. /\ Entry("LlmResponse", NoAction) \in AuditEntry
        /\ Entry("Note", NoAction) \in AuditEntry
        /\ Entry("SessionEnded", NoAction) \in AuditEntry
    BY EntryOK, BoundAssumption DEF IInv, Event, NoAction
  <1>3. entries \in Seq(AuditEntry)
    <2>1. ASSUME NEW x \in AuditEntry, NEW y \in AuditEntry
          PROVE  <<>> \in Seq(AuditEntry) /\ <<x>> \in Seq(AuditEntry) /\ <<x, y>> \in Seq(AuditEntry)
      OBVIOUS
    <2>2. E \subseteq Seq(AuditEntry)
      BY <1>2, <2>1, Zenon
    <2> QED BY <2>2
  <1>4. audit' \in Seq(AuditEntry) /\ LogKept
    BY <1>1, <1>3, AppendExtends DEF IInv, TypeOK
  <1>5. /\ pc = "thinking" /\ pc' = "idle"
        /\ UNCHANGED <<now, published, bundle_dir, mode, seq, pending, reply, tasks, sent, told>>
    BY DEF NoActionReply, environment, session
  <1>6. NewsSound
    BY <1>5 DEF NewsSound
  <1> QED BY <1>4, <1>5, <1>6, BackToIdle DEF IInv, TypeOK

(* invoke refuses an unverified bundle or arguments it does not take. *)
LEMMA DenyInvokeIInv ==
  ASSUME IInv, NEW exec \in Exec, NEW args \in Args, DenyInvoke(exec, args)
  PROVE  IInv'
PROOF
  <1> DEFINE entries == <<Entry("LlmResponse", NoAction), Entry("Deny", tasks)>>
  <1>0. PICK n \in 0 .. 2 :
          /\ AppendEntries(entries, n)
          /\ Tell(tasks, IF n = 2 THEN "bundle" ELSE "daemon")
    BY DEF DenyInvoke
  <1>1. /\ pc = "thinking" /\ pc' = "idle"
        /\ UNCHANGED <<now, published, bundle_dir, mode, seq, pending, reply, tasks, sent>>
    BY DEF DenyInvoke, environment, session
  <1>2. tasks \in Action /\ tasks \in 0 .. MaxTask
    BY <1>1, ActionIds DEF IInv, HeldAreUndecided
  <1>3. entries \in Seq(AuditEntry) /\ Len(entries) = 2
    <2>1. Entry("LlmResponse", NoAction) \in AuditEntry /\ Entry("Deny", tasks) \in AuditEntry
      BY <1>2, EntryOK, BoundAssumption DEF IInv, Event, NoAction
    <2> QED BY <2>1
  <1>4. audit' \in Seq(AuditEntry) /\ LogKept
    <2> HIDE DEF entries
    <2> QED BY <1>0, <1>3, AppendExtends DEF IInv, TypeOK
  <1>5. NewsSound
    BY <1>0, <1>1, <1>2, ActionIds DEF NewsSound, Tell, IInv, HeldAreUndecided, Undecided, HeldOnce
  <1> QED BY <1>1, <1>4, <1>5, BackToIdle DEF IInv, TypeOK

(* The table after pruning, and after an entry is taken out. *)
LEMMA TableShrinks ==
  prune_pending \subseteq pending /\ \A p : Taken(p) \subseteq pending /\ p \notin Taken(p)
  BY DEF prune_pending, Taken

(* approve of an id that does not wait, or whose wait has expired. *)
LEMMA ApproveUnknownIInv ==
  ASSUME IInv, NEW id \in 1 .. MaxTask, ApproveUnknown(id)
  PROVE  IInv'
PROOF
  <1>1. /\ pc = "idle" /\ pc' = "idle" /\ pending' \subseteq pending
        /\ UNCHANGED <<now, published, bundle_dir, mode, seq, reply, tasks, audit, sent, told>>
    BY TableShrinks DEF ApproveUnknown, environment, history
  <1>2. NewsSound /\ LogKept
    BY <1>1 DEF NewsSound, LogKept
  <1> QED BY <1>1, <1>2, BackToIdle DEF IInv, TypeOK

(* What a single entry appended, or not, does to the log. *)
LEMMA OneEntry ==
  ASSUME IInv, NEW event \in Event, NEW a \in 0 .. MaxTask, NEW n \in 0 .. 1,
         AppendEntries(<<Entry(event, a)>>, n)
  PROVE  audit' \in Seq(AuditEntry) /\ LogKept
PROOF
  <1>1. <<Entry(event, a)>> \in Seq(AuditEntry) /\ Len(<<Entry(event, a)>>) = 1
    <2>1. Entry(event, a) \in AuditEntry
      BY EntryOK DEF IInv
    <2> QED BY <2>1
  <1> QED BY <1>1, AppendExtends DEF IInv, TypeOK

(* approve refuses: the entry is gone, so the refusal is final. *)
LEMMA ApproveRefusedIInv ==
  ASSUME IInv, NEW p \in pending, NEW digest, ApproveRefused(p, digest)
  PROVE  IInv'
PROOF
  <1>1. /\ pc = "idle" /\ pc' = "idle"
        /\ pending' = Taken(p) /\ pending' \subseteq pending /\ p \notin pending'
        /\ UNCHANGED <<now, published, bundle_dir, mode, seq, reply, tasks, sent>>
    BY TableShrinks DEF ApproveRefused, environment
  <1>2. \E o : Tell(p.action, o)
    BY DEF ApproveRefused
  <1>3. audit' \in Seq(AuditEntry) /\ LogKept
    <2>1. CASE UNCHANGED audit
      BY <2>1 DEF IInv, TypeOK, LogKept
    <2>2. CASE \E n \in 0 .. 1 : AppendEntries(<<Entry("Note", NoAction)>>, n)
      BY <2>2, OneEntry, BoundAssumption DEF Event, NoAction
    <2> QED BY <2>1, <2>2 DEF ApproveRefused
  <1>4. NewsSound
    <2>1. p.action \in Action /\ p.action <= tasks /\ Undecided(p.action)
      BY DEF IInv, TypeOK, PendingSound, SignedHere, HeldAreUndecided
    <2>2. \A q \in pending' : q.action # p.action
      BY <1>1 DEF IInv, HeldOnce
    <2> QED BY <1>2, <2>1, <2>2 DEF NewsSound, Tell, Undecided
  <1> QED BY <1>1, <1>3, <1>4, BackToIdle DEF IInv, TypeOK

(* reject takes the entry out, so the rejection is final. *)
LEMMA RejectIInv ==
  ASSUME IInv, NEW p \in pending, Reject(p)
  PROVE  IInv'
PROOF
  <1>1. /\ pc = "idle" /\ pc' = "idle" /\ pending' \subseteq pending /\ p \notin pending'
        /\ Tell(p.action, "rejected")
        /\ UNCHANGED <<now, published, bundle_dir, mode, seq, reply, tasks, audit, sent>>
    BY DEF Reject, environment
  <1>2. NewsSound
    <2>1. p.action \in Action /\ p.action <= tasks /\ Undecided(p.action)
      BY DEF IInv, TypeOK, PendingSound, SignedHere, HeldAreUndecided
    <2>2. \A q \in pending' : q.action # p.action
      BY <1>1 DEF IInv, HeldOnce
    <2> QED BY <1>1, <2>1, <2>2 DEF NewsSound, Tell, Undecided
  <1>3. LogKept
    BY <1>1 DEF LogKept
  <1> QED BY <1>1, <1>2, <1>3, BackToIdle DEF IInv, TypeOK

(* The executor could not be reached: the operator is told an error. *)
LEMMA SendFailsIInv == IInv /\ SendFails => IInv'
PROOF
  <1> SUFFICES ASSUME IInv, SendFails PROVE IInv'
    OBVIOUS
  <1>1. /\ pc = "sending" /\ pc' = "idle" /\ Tell(current.action, "daemon")
        /\ UNCHANGED <<now, published, bundle_dir, mode, seq, pending, reply, tasks, audit, sent>>
    BY DEF SendFails, environment, session
  <1>2. current.action \in Action /\ current.action <= tasks
    BY <1>1 DEF IInv, TypeOK, CurrentSound, SignedHere
  <1>3. NewsSound /\ LogKept
    BY <1>1, <1>2 DEF NewsSound, Tell, GateRefusal, LogKept
  <1> QED BY <1>1, <1>3, BackToIdle DEF IInv, TypeOK

(* An answer is a stage that refused, a completion, or lost. *)
LEMMA ReplyOutcome ==
  ASSUME reply \in Reply, Arrived
  PROVE  reply.outcome \in ExecdStage \union {"lost", "Completed"}
PROOF
  <1> DEFINE lost == [outcome |-> "lost", snapshot |-> FALSE]
  <1>1. \/ reply = lost
        \/ reply \in [outcome : {"Completed"}, snapshot : BOOLEAN]
        \/ reply \in [outcome : ExecdStage, snapshot : {FALSE}]
    BY Zenon DEF Reply, Arrived
  <1>2. lost.outcome = "lost"
    OBVIOUS
  <1>3. \A r \in [outcome : {"Completed"}, snapshot : BOOLEAN] : r.outcome = "Completed"
    OBVIOUS
  <1>4. \A r \in [outcome : ExecdStage, snapshot : {FALSE}] : r.outcome \in ExecdStage
    OBVIOUS
  <1> HIDE DEF lost
  <1> QED BY <1>1, <1>2, <1>3, <1>4

(* record_outcome logs at most two well-formed entries. *)
LEMMA OutcomeEntriesOK ==
  ASSUME IInv, pc = "waiting", Arrived
  PROVE  OutcomeEntries(current.action) \in Seq(AuditEntry)
PROOF
  <1>1. current.action \in 0 .. MaxTask
    BY ActionIds DEF IInv, TypeOK
  <1>2. /\ Entry("Note", NoAction) \in AuditEntry
        /\ Entry("SnapshotTaken", current.action) \in AuditEntry
        /\ Entry("ExecCompleted", current.action) \in AuditEntry
    BY <1>1, EntryOK, BoundAssumption DEF IInv, Event, NoAction
  <1>3. ASSUME NEW x \in AuditEntry, NEW y \in AuditEntry
        PROVE  /\ <<>> \in Seq(AuditEntry) /\ <<x>> \in Seq(AuditEntry)
               /\ <<y>> \o <<x>> \in Seq(AuditEntry) /\ <<>> \o <<x>> \in Seq(AuditEntry)
    OBVIOUS
  <1>4. reply.outcome \in ExecdStage \union {"lost", "Completed"}
    BY ReplyOutcome DEF IInv, TypeOK
  <1>5. CASE reply.outcome \in ExecdStage
    <2>1. OutcomeEntries(current.action) = <<Entry("Note", NoAction)>>
      BY <1>5, StageAssumption DEF OutcomeEntries
    <2> QED BY <1>2, <1>3, <2>1
  <1>6. CASE reply.outcome = "lost"
    <2>1. OutcomeEntries(current.action) = <<>>
      BY <1>6, StageAssumption DEF OutcomeEntries
    <2> QED BY <2>1
  <1>7. CASE reply.outcome = "Completed"
    <2>1. OutcomeEntries(current.action) =
            (IF reply.snapshot THEN <<Entry("SnapshotTaken", current.action)>> ELSE <<>>)
              \o <<Entry("ExecCompleted", current.action)>>
      BY <1>7, StageAssumption DEF OutcomeEntries
    <2> QED BY <1>2, <1>3, <2>1
  <1> QED BY <1>4, <1>5, <1>6, <1>7

(* The executor's answer is logged and told; no stage of the executor is   *)
(* one of the daemon's own refusals.                                       *)
LEMMA ReceiveIInv == IInv /\ Receive => IInv'
PROOF
  <1> SUFFICES ASSUME IInv, Receive PROVE IInv'
    OBVIOUS
  <1> DEFINE entries == OutcomeEntries(current.action)
  <1>1. /\ pc = "waiting" /\ pc' = "idle" /\ Arrived /\ reply' = NoReply
        /\ UNCHANGED <<now, published, bundle_dir, mode, seq, pending, tasks, sent>>
    BY DEF Receive, environment, session
  <1>2. PICK n \in 0 .. Len(entries) :
          LET complete == n = Len(OutcomeEntries(current.action)) /\ reply.outcome # "lost"
          IN  /\ AppendEntries(entries, n)
              /\ Tell(current.action, IF ~complete THEN "daemon"
                                      ELSE IF reply.outcome = "Completed" THEN "Executed"
                                      ELSE reply.outcome)
    BY DEF Receive
  <1>3. audit' \in Seq(AuditEntry) /\ LogKept
    <2>1. entries \in Seq(AuditEntry)
      BY <1>1, OutcomeEntriesOK
    <2> HIDE DEF entries
    <2> QED BY <1>2, <2>1, AppendExtends DEF IInv, TypeOK
  <1>4. reply.outcome \in ExecdStage \union {"lost", "Completed"}
    BY <1>1, ReplyOutcome DEF IInv, TypeOK
  <1>5. PICK o : Tell(current.action, o) /\ o \in ExecdStage \union {"daemon", "Executed"}
    <2> HIDE DEF entries
    <2> QED BY <1>2, <1>4
  <1>6. o \notin GateRefusal
    BY <1>5, StageAssumption DEF GateRefusal
  <1>7. current.action \in Action /\ current.action <= tasks
    BY <1>1 DEF IInv, TypeOK, CurrentSound, SignedHere
  <1>8. NewsSound
    BY <1>5, <1>6, <1>7 DEF NewsSound, Tell
  <1> QED BY <1>1, <1>3, <1>8, BackToIdle DEF IInv, TypeOK, Reply

-----------------------------------------------------------------------------
(* The frame is written: it is this action's first, it is on record and it *)
(* is licensed.                                                            *)
LEMMA SendIInv == IInv /\ Send => IInv'
PROOF
  <1> SUFFICES ASSUME IInv, Send PROVE IInv'
    OBVIOUS
  <1> DEFINE f == current.frame
  <1>1. /\ pc = "sending" /\ pc' = "waiting" /\ sent' = Append(sent, f)
        /\ UNCHANGED <<now, published, bundle_dir, mode, seq, pending, current, reply, tasks,
                       audit, told>>
    BY DEF Send, environment, session
  <1>2. /\ f \in Frame /\ current.action \in Action /\ current.action \in Nat
        /\ f.nonce = current.action /\ SignedHere(current)
        /\ Undecided(current.action)
        /\ Logged("ExecRequested", f) # {} /\ Licensed(f)
    BY <1>1, ActionIds DEF IInv, TypeOK, CurrentSound, SignedHere, HeldAreUndecided
  <1>3. /\ sent \in Seq(Frame) /\ sent' \in Seq(Frame) /\ Len(sent) \in Nat
        /\ DOMAIN sent = 1 .. Len(sent) /\ DOMAIN sent' = 1 .. Len(sent) + 1
        /\ sent'[Len(sent) + 1] = f
        /\ \A k \in 1 .. Len(sent) : sent'[k] = sent[k]
    <2>1. sent \in Seq(Frame)
      BY DEF IInv, TypeOK
    <2> HIDE DEF f
    <2> QED BY <1>1, <1>2, <2>1
  <1> HIDE DEF f
  <1>3a. \A k \in DOMAIN sent' : sent'[k] = f \/ (k \in DOMAIN sent /\ sent'[k] = sent[k])
    BY <1>3
  <1>4. TypeOK'
    <2>1. current'.frame \in Frame /\ current'.action \in Action
      BY <1>1, <1>2 DEF f
    <2> QED BY <1>1, <1>3, <2>1 DEF IInv, TypeOK
  <1>5. SentOnce'
    <2> SUFFICES ASSUME NEW i \in DOMAIN sent', NEW j \in DOMAIN sent',
                        sent'[i].nonce = sent'[j].nonce
                 PROVE  i = j
      BY DEF SentOnce
    <2>1. \A k \in 1 .. Len(sent) : sent[k].nonce # f.nonce
      BY <1>2, <1>3 DEF Undecided
    <2> QED BY <1>3, <2>1 DEF IInv, SentOnce
  <1>6. SentAreAudited'
    <2>1. ASSUME NEW k \in DOMAIN sent' PROVE Logged("ExecRequested", sent'[k]) # {}
      BY <1>2, <1>3a DEF IInv, SentAreAudited
    <2> QED BY <1>1, <2>1 DEF SentAreAudited, Logged
  <1>7. SentAreLicensed'
    <2>1. ASSUME NEW k \in DOMAIN sent' PROVE Licensed(sent'[k])
      BY <1>2, <1>3a DEF IInv, SentAreLicensed
    <2> QED BY <1>1, <2>1 DEF SentAreLicensed, Licensed, Logged
  <1>8. RefusedNeverSent'
    BY <1>1, <1>2, <1>3a DEF IInv, RefusedNeverSent, Undecided
  <1>9. HeldAreUndecided'
    <2> SUFFICES ASSUME NEW p \in pending PROVE Undecided(p.action)'
      BY <1>1 DEF HeldAreUndecided
    <2>1. Undecided(p.action) /\ p.action # f.nonce
      BY <1>1, <1>2 DEF IInv, HeldAreUndecided, HeldOnce
    <2> QED BY <1>1, <1>3a, <2>1 DEF Undecided
  <1>10. DecidedAreOld'
    BY <1>1, <1>2, <1>3a DEF IInv, DecidedAreOld, SignedHere
  <1>11. HeldOnce' /\ UpIsPublished' /\ ToldActions'
    BY <1>1 DEF IInv, HeldOnce, UpIsPublished, ToldActions
  <1>12. PendingSound'
    BY <1>1, ActionIds, PendingStays DEF LogKept
  <1>13. CurrentSound'
    <2>1. SignedHere(current)'
      BY <1>1, <1>2 DEF SignedHere
    <2>2. Len(sent) + 1 \in DOMAIN sent' /\ sent'[Len(sent) + 1] = current'.frame
      BY <1>1, <1>3 DEF f
    <2> QED BY <1>1, <2>1, <2>2 DEF CurrentSound
  <1> QED BY <1>4, <1>5, <1>6, <1>7, <1>8, <1>9, <1>10, <1>11, <1>12, <1>13 DEF IInv

(* A crash forgets what was held; the log, the frames sent and what was    *)
(* told remain.                                                            *)
LEMMA CrashIInv == IInv /\ Crash => IInv'
PROOF
  <1> SUFFICES ASSUME IInv, Crash PROVE IInv'
    OBVIOUS
  <1>1. /\ pc' = "down" /\ pending' = {} /\ seq' = 0 /\ reply' = NoReply
        /\ UNCHANGED <<now, published, bundle_dir, mode, tasks, audit, sent, told>>
    BY DEF Crash, environment, history
  <1>2. IsFiniteSet(pending') /\ Cardinality(pending') = 0
    BY <1>1, FS_EmptySet
  <1>3. TypeOK'
    BY <1>1, <1>2, ApprovalAssumption DEF IInv, TypeOK, Reply
  <1>4. UpIsPublished' /\ HeldAreUndecided' /\ HeldOnce' /\ CurrentSound' /\ PendingSound'
    BY <1>1, <1>2 DEF UpIsPublished, HeldAreUndecided, HeldOnce, CurrentSound, PendingSound
  <1>5. LogKept /\ NewsSound
    BY <1>1 DEF LogKept, NewsSound
  <1>6. RefusedNeverSent' /\ ToldActions' /\ DecidedAreOld'
    BY <1>1, <1>5, NewsKeeps, ActionIds
  <1>7. SentOnce' /\ SentAreAudited' /\ SentAreLicensed'
    BY <1>1, <1>5, SentStays
  <1> QED BY <1>3, <1>4, <1>6, <1>7 DEF IInv

(* The next incarnation starts with an empty table and a key of its own. *)
LEMMA StartIInv == IInv /\ Start => IInv'
PROOF
  <1> SUFFICES ASSUME IInv, Start PROVE IInv'
    OBVIOUS
  <1> DEFINE e == [Entry("SessionStarted", NoAction) EXCEPT !.session = published + 1]
  <1>1. /\ pc = "down" /\ pc' = "idle" /\ published < MaxKey /\ published' = published + 1
        /\ mode' \in HostMode /\ audit' = Append(audit, e)
        /\ UNCHANGED <<now, bundle_dir, seq, pending, current, reply, tasks, sent, told>>
    BY DEF Start
  <1>2. published' \in 1 .. MaxKey /\ pending = {}
    BY <1>1, BoundAssumption DEF IInv, TypeOK, PendingSound
  <1>3. e \in AuditEntry
    <2>1. Entry("SessionStarted", NoAction) \in AuditEntry
      BY EntryOK, BoundAssumption DEF IInv, Event, NoAction
    <2>2. \A r \in AuditEntry, s \in 0 .. MaxKey : [r EXCEPT !.session = s] \in AuditEntry
      BY DEF AuditEntry
    <2>3. published + 1 \in 0 .. MaxKey
      BY <1>1, <1>2, BoundAssumption DEF IInv, TypeOK
    <2> QED BY <2>1, <2>2, <2>3
  <1>4. audit' \in Seq(AuditEntry) /\ LogKept
    <2>1. audit \in Seq(AuditEntry)
      BY DEF IInv, TypeOK
    <2> HIDE DEF e
    <2> QED BY <1>1, <1>3, <2>1 DEF LogKept
  <1>5. NewsSound
    BY <1>1 DEF NewsSound
  <1>6. RefusedNeverSent' /\ ToldActions' /\ DecidedAreOld'
    BY <1>1, <1>5, NewsKeeps, ActionIds
  <1>7. SentOnce' /\ SentAreAudited' /\ SentAreLicensed'
    BY <1>1, <1>4, SentStays
  <1>8. TypeOK'
    BY <1>1, <1>2, <1>4 DEF IInv, TypeOK
  <1>9. UpIsPublished' /\ HeldAreUndecided' /\ HeldOnce' /\ CurrentSound' /\ PendingSound'
    BY <1>1, <1>2
    DEF IInv, UpIsPublished, HeldAreUndecided, HeldOnce, CurrentSound, PendingSound
  <1> QED BY <1>6, <1>7, <1>8, <1>9 DEF IInv

(* What happens around the daemon: a bundle is installed, time passes, the *)
(* executor answers.                                                       *)
LEMMA EnvironmentIInv ==
  ASSUME IInv, now' \in 0 .. MaxTime, now' >= now, bundle_dir' \in [Exec -> Bundle],
         reply' \in Reply,
         UNCHANGED <<published, mode, seq, pending, pc, current, tasks, audit, sent, told>>
  PROVE  IInv'
PROOF
  <1>1. TypeOK'
    <2>1. \A p \in pending : p.created \in 0 .. now'
      BY BoundAssumption DEF IInv, TypeOK
    <2> QED BY <2>1 DEF IInv, TypeOK
  <1>2. LogKept /\ NewsSound
    BY DEF LogKept, NewsSound
  <1>3. RefusedNeverSent' /\ ToldActions' /\ DecidedAreOld' /\ SentOnce'
    BY DEF IInv, RefusedNeverSent, ToldActions, DecidedAreOld, SentOnce
  <1>4. SentAreAudited' /\ SentAreLicensed'
    BY <1>2, SentStays
  <1>5. UpIsPublished' /\ HeldOnce'
    BY DEF IInv, UpIsPublished, HeldOnce
  <1>6. HeldAreUndecided'
    BY DEF IInv, HeldAreUndecided, Undecided
  <1>7. PendingSound'
    BY DEF IInv, PendingSound, SignedHere, Logged
  <1>8. CurrentSound'
    BY DEF IInv, CurrentSound, SignedHere, Licensed, Logged
  <1> QED BY <1>1, <1>3, <1>4, <1>5, <1>6, <1>7, <1>8 DEF IInv

-----------------------------------------------------------------------------
(* An action goes to the executor: it was held once, undecided, it is no   *)
(* longer in the table, and the log now holds its request and its licence. *)
LEMMA DispatchKeeps ==
  ASSUME IInv, LogKept, audit' \in Seq(AuditEntry),
         pc # "down", pc' = "sending", pending' \subseteq pending, seq' \in Nat,
         UNCHANGED <<now, published, bundle_dir, mode, reply, tasks, sent, told>>,
         NEW c, current' = c, c.action \in Action, c.frame \in Frame, SignedHere(c),
         Undecided(c.action), \A p \in pending' : p.action # c.action,
         Logged("ExecRequested", c.frame)' # {}, Licensed(c.frame)'
  PROVE  IInv'
PROOF
  <1>1. TypeOK'
    <2>1. Cardinality(pending') <= MAX_PENDING
      BY FewerPending
    <2> QED BY <2>1 DEF IInv, TypeOK
  <1>2. NewsSound
    BY DEF NewsSound
  <1>3. RefusedNeverSent' /\ ToldActions' /\ DecidedAreOld'
    BY <1>2, NewsKeeps, ActionIds
  <1>4. SentOnce' /\ SentAreAudited' /\ SentAreLicensed'
    BY SentStays
  <1>5. PendingSound'
    BY PendingStays, ActionIds
  <1>6. HeldAreUndecided'
    BY DEF IInv, HeldAreUndecided, Undecided
  <1>7. HeldOnce' /\ UpIsPublished'
    BY DEF IInv, HeldOnce, UpIsPublished
  <1>8. CurrentSound'
    BY DEF CurrentSound, SignedHere, Logged, Licensed
  <1> QED BY <1>1, <1>3, <1>4, <1>5, <1>6, <1>7, <1>8 DEF IInv

(* approve grants: the licence is the RequireApproval entry of the         *)
(* proposal and the grant, at most APPROVAL_TTL later.                     *)
LEMMA ApproveIInv ==
  ASSUME IInv, NEW p \in pending, NEW digest, Approve(p, digest)
  PROVE  IInv'
PROOF
  <1> DEFINE entries == <<Entry("ApprovalGranted", p.action), Entry("ExecRequested", p.action)>>
  <1>1. /\ pc = "idle" /\ p \in prune_pending
        /\ pending' \subseteq pending /\ p \notin pending'
        /\ UNCHANGED <<now, published, bundle_dir, mode, seq, reply, tasks, sent>>
    BY TableShrinks DEF Approve, environment
  <1>2. PICK n \in 0 .. 2 :
          /\ AppendEntries(entries, n)
          /\ \/ n = 2 /\ pc' = "sending" /\ current' = p /\ UNCHANGED told
             \/ n < 2 /\ Tell(p.action, "daemon") /\ UNCHANGED <<pc, current>>
    BY DEF Approve
  <1>3. /\ p.action \in Action /\ p.action \in 0 .. MaxTask /\ p.frame \in Frame
        /\ p.created \in Nat /\ now \in Nat /\ SignedHere(p) /\ Undecided(p.action)
    BY ActionIds, BoundAssumption DEF IInv, TypeOK, PendingSound, HeldAreUndecided
  <1>4. entries \in Seq(AuditEntry) /\ Len(entries) = 2
    <2>1. /\ Entry("ApprovalGranted", p.action) \in AuditEntry
          /\ Entry("ExecRequested", p.action) \in AuditEntry
      BY <1>3, EntryOK DEF IInv, Event
    <2> QED BY <2>1
  <1>5. /\ audit' \in Seq(AuditEntry) /\ LogKept /\ Len(audit') = Len(audit) + n
        /\ \A k \in 1 .. n : audit'[Len(audit) + k] = entries[k]
    <2> HIDE DEF entries
    <2> QED BY <1>2, <1>4, AppendExtends DEF IInv, TypeOK
  <1>6. CASE n < 2
    <2>1. NewsSound
      BY <1>2, <1>3, <1>6 DEF NewsSound, Tell, GateRefusal, SignedHere
    <2> QED BY <1>1, <1>2, <1>5, <1>6, <2>1, BackToIdle DEF IInv, TypeOK
  <1>7. CASE n = 2
    <2>0. Len(audit) \in Nat /\ DOMAIN audit = 1 .. Len(audit)
          /\ DOMAIN audit' = 1 .. Len(audit) + 2
      BY <1>5, <1>7 DEF IInv, TypeOK
    <2>1. /\ audit'[Len(audit) + 1] = Entry("ApprovalGranted", p.action)
          /\ audit'[Len(audit) + 2] = Entry("ExecRequested", p.action)
      BY <1>5, <1>7
    <2>2. p.frame.nonce = p.action /\ p.frame.session = published
      BY <1>3 DEF SignedHere
    <2>3. Len(audit) + 2 \in Logged("ExecRequested", p.frame)'
      BY <2>0, <2>1, <2>2 DEF Logged, Entry
    <2>4. Len(audit) + 1 \in Logged("ApprovalGranted", p.frame)'
          /\ audit'[Len(audit) + 1].at = now
      BY <2>0, <2>1, <2>2 DEF Logged, Entry
    <2>5. PICK i \in Logged("RequireApproval", p.frame) : audit[i].at = p.created
      BY DEF IInv, PendingSound
    <2>6. /\ i \in Logged("RequireApproval", p.frame)' /\ audit'[i].at = p.created
          /\ i \in 1 .. Len(audit)
      BY <2>0, <2>5, <1>5, LoggedStays DEF Logged, LogKept
    <2>7. now - p.created <= APPROVAL_TTL
      BY <1>1, <1>3, ApprovalAssumption DEF prune_pending
    <2>8. Licensed(p.frame)'
      BY <2>0, <2>4, <2>6, <2>7 DEF Licensed
    <2>9. \A q \in pending' : q.action # p.action
      BY <1>1 DEF IInv, HeldOnce
    <2>10. seq' \in Nat
      BY <1>1 DEF IInv, TypeOK
    <2> HIDE DEF entries
    <2> QED BY <1>1, <1>2, <1>3, <1>5, <1>7, <2>3, <2>8, <2>9, <2>10, DispatchKeeps
  <1> QED BY <1>6, <1>7

(* What invoke signs is a well-formed action of this incarnation. *)
LEMMA NewPendingOK ==
  ASSUME IInv, pc = "thinking", NEW exec \in Exec, NEW args \in Args, NEW b
  PROVE  LET action == NewPending(exec, args, b)
         IN  /\ action.action = tasks /\ action.action \in Action
             /\ action.frame \in Frame /\ action.created = now
             /\ action.frame.nonce = tasks /\ action.frame.session = published
             /\ SignedHere(action) /\ Undecided(action.action)
PROOF
  <1> DEFINE f == sign_exec_request(exec, args)
             action == NewPending(exec, args, b)
  <1>1. published \in 1 .. MaxKey /\ seq + 1 \in Nat /\ mode \in OperationMode
        /\ tasks \in Action /\ tasks \in Nat /\ Undecided(tasks)
    BY BoundAssumption, ModeAssumption, ActionIds
    DEF IInv, TypeOK, UpIsPublished, HeldAreUndecided
  <1>2. f \in Frame /\ f.nonce = tasks /\ f.session = published
    BY <1>1 DEF sign_exec_request, Frame
  <1> HIDE DEF f
  <1>3. action.action = tasks /\ action.frame = f /\ action.created = now
    BY DEF NewPending, f
  <1> HIDE DEF action
  <1>4. SignedHere(action)
    BY <1>1, <1>2, <1>3 DEF SignedHere
  <1>5. Undecided(action.action)
    BY <1>1, <1>3
  <1> QED BY <1>1, <1>2, <1>3, <1>4, <1>5 DEF action

(* An action that needs approval joins the table, which has room. *)
LEMMA StashKeeps ==
  ASSUME IInv, LogKept, audit' \in Seq(AuditEntry), pc = "thinking", pc' = "idle",
         NEW c, pending' = prune_pending \union {c}, ~TooManyPending,
         seq' \in Nat,
         UNCHANGED <<now, published, bundle_dir, mode, reply, tasks, sent, told>>,
         c.action = tasks, c.action \in Action, c.frame \in Frame, c.created = now,
         SignedHere(c), Undecided(c.action),
         \E i \in Logged("RequireApproval", c.frame)' : audit'[i].at = c.created
  PROVE  IInv'
PROOF
  <1>0. prune_pending \subseteq pending
    BY TableShrinks
  <1>1. IsFiniteSet(pending') /\ Cardinality(pending') <= MAX_PENDING
    <2>1. IsFiniteSet(prune_pending) /\ Cardinality(prune_pending) \in Nat
      BY <1>0, FewerPending
    <2>2. IsFiniteSet(prune_pending \union {c})
          /\ (Cardinality(prune_pending \union {c}) = Cardinality(prune_pending)
              \/ Cardinality(prune_pending \union {c}) = Cardinality(prune_pending) + 1)
      BY <2>1, FS_AddElement
    <2> QED BY <2>1, <2>2, ApprovalAssumption DEF TooManyPending
  <1>2. TypeOK'
    <2>1. now \in 0 .. now
      BY DEF IInv, TypeOK
    <2> QED BY <1>0, <1>1, <2>1 DEF IInv, TypeOK
  <1>3. NewsSound
    BY DEF NewsSound
  <1>4. RefusedNeverSent' /\ ToldActions' /\ DecidedAreOld'
    BY <1>3, NewsKeeps, ActionIds
  <1>5. SentOnce' /\ SentAreAudited' /\ SentAreLicensed'
    BY SentStays
  <1>6. HeldAreUndecided'
    BY <1>0 DEF IInv, HeldAreUndecided, Undecided
  <1>7. HeldOnce'
    BY <1>0 DEF IInv, HeldOnce
  <1>8. UpIsPublished' /\ CurrentSound'
    BY DEF IInv, UpIsPublished, CurrentSound
  <1>9. PendingSound'
    <2>1. ASSUME NEW p \in prune_pending
          PROVE  /\ SignedHere(p)'
                 /\ \E i \in Logged("RequireApproval", p.frame)' : audit'[i].at = p.created
      <3>1. SignedHere(p)'
        BY <1>0 DEF IInv, PendingSound, SignedHere
      <3>2. PICK i \in Logged("RequireApproval", p.frame) : audit[i].at = p.created
        BY <1>0 DEF IInv, PendingSound
      <3>3. i \in Logged("RequireApproval", p.frame)' /\ audit'[i] = audit[i]
        BY <3>2, LoggedStays DEF Logged, LogKept
      <3> QED BY <3>1, <3>2, <3>3
    <2>2. SignedHere(c)'
      BY DEF SignedHere
    <2>3. \A p \in pending' :
            /\ SignedHere(p)'
            /\ \E i \in Logged("RequireApproval", p.frame)' : audit'[i].at = p.created
      BY <2>1, <2>2
    <2> QED BY <1>1, <2>3 DEF PendingSound
  <1> QED BY <1>1, <1>2, <1>4, <1>5, <1>6, <1>7, <1>8, <1>9 DEF IInv

(* invoke on a verified bundle: whatever the policy decides and whichever  *)
(* append fails.                                                           *)
LEMMA InvokeIInv ==
  ASSUME IInv, NEW exec \in Exec, NEW args \in Args, Invoke(exec, args)
  PROVE  IInv'
PROOF
  <1> DEFINE b == bundle_dir[exec]
             decision == evaluate("default", mode, exec, b)
             logged == IF decision = "NotAllowed" THEN "Deny" ELSE decision
             rest == IF decision = "Allow" THEN <<Entry("ExecRequested", tasks)>> ELSE <<>>
             entries == <<Entry("LlmResponse", NoAction), Entry(logged, tasks)>> \o rest
             action == NewPending(exec, args, b)
  <1>1. /\ pc = "thinking"
        /\ UNCHANGED <<now, published, bundle_dir, mode, reply, tasks, sent>>
    BY DEF Invoke, environment
  <1>2. PICK n \in 0 .. Len(entries) :
       /\ AppendEntries(entries, n)
       /\ seq' = IF n >= 2 THEN seq + 1 ELSE seq
       /\ \/ /\ n < Len(entries)
             /\ pc' = "idle"
             /\ Tell(tasks, "daemon")
             /\ UNCHANGED <<pending, current>>
          \/ /\ n = Len(entries)
             /\ decision = "Allow"
             /\ pc' = "sending"
             /\ current' = action
             /\ UNCHANGED <<pending, told>>
          \/ /\ n = Len(entries)
             /\ decision = "RequireApproval"
             /\ TooManyPending
             /\ pc' = "idle"
             /\ pending' = prune_pending
             /\ Tell(tasks, "approval")
             /\ UNCHANGED current
          \/ /\ n = Len(entries)
             /\ decision = "RequireApproval"
             /\ ~TooManyPending
             /\ pc' = "idle"
             /\ pending' = prune_pending \union {action}
             /\ UNCHANGED <<current, told>>
          \/ /\ n = Len(entries)
             /\ decision \in {"Deny", "NotAllowed"}
             /\ pc' = "idle"
             /\ Tell(tasks, "policy")
             /\ UNCHANGED <<pending, current>>
    BY DEF Invoke
  <1>3. /\ action.action = tasks /\ action.action \in Action
        /\ action.frame \in Frame /\ action.created = now
        /\ action.frame.nonce = tasks /\ action.frame.session = published
        /\ SignedHere(action) /\ Undecided(action.action)
    BY <1>1, NewPendingOK
  <1>4. decision \in {"Allow", "RequireApproval", "Deny", "NotAllowed"}
    BY EvaluateDecides DEF PolicyDecision
  <1> HIDE DEF decision, action, b
  <1>5. /\ rest \in Seq(AuditEntry) /\ entries \in Seq(AuditEntry)
        /\ Len(entries) = IF decision = "Allow" THEN 3 ELSE 2
        /\ entries[2] = Entry(logged, tasks)
        /\ decision = "Allow" => entries[3] = Entry("ExecRequested", tasks)
    <2>1. /\ Entry("LlmResponse", NoAction) \in AuditEntry
          /\ Entry(logged, tasks) \in AuditEntry
          /\ Entry("ExecRequested", tasks) \in AuditEntry
      BY <1>3, <1>4, ActionIds, EntryOK, BoundAssumption DEF IInv, Event, NoAction
    <2>2. ASSUME NEW x \in AuditEntry, NEW y \in AuditEntry, NEW z \in AuditEntry
          PROVE  /\ <<>> \in Seq(AuditEntry) /\ <<z>> \in Seq(AuditEntry)
                 /\ <<x, y>> \o <<>> \in Seq(AuditEntry) /\ <<x, y>> \o <<z>> \in Seq(AuditEntry)
                 /\ Len(<<x, y>> \o <<>>) = 2 /\ Len(<<x, y>> \o <<z>>) = 3
                 /\ (<<x, y>> \o <<>>)[2] = y /\ (<<x, y>> \o <<z>>)[2] = y
                 /\ (<<x, y>> \o <<z>>)[3] = z
      OBVIOUS
    <2> HIDE DEF logged
    <2>3. CASE decision = "Allow"
      <3>1. rest = <<Entry("ExecRequested", tasks)>>
        BY <2>3
      <3> QED BY <2>1, <2>2, <2>3, <3>1
    <2>4. CASE decision # "Allow"
      <3>1. rest = <<>>
        BY <2>4
      <3> QED BY <2>1, <2>2, <2>4, <3>1
    <2> QED BY <2>3, <2>4
  <1> HIDE DEF entries, rest
  <1>6. /\ audit' \in Seq(AuditEntry) /\ LogKept /\ Len(audit') = Len(audit) + n
        /\ \A k \in 1 .. n : audit'[Len(audit) + k] = entries[k]
    BY <1>2, <1>5, AppendExtends DEF IInv, TypeOK
  <1>7. seq' \in Nat
    BY <1>2, <1>5 DEF IInv, TypeOK
  <1>8. \A p \in pending : p.action # tasks
    BY <1>1 DEF IInv, HeldOnce
  <1>9. ASSUME NEW o, Tell(tasks, o), pending' \subseteq pending, pc' = "idle" PROVE IInv'
    <2>1. tasks \in Action /\ tasks <= tasks /\ Undecided(tasks)
      BY <1>3, ActionIds
    <2>2. NewsSound
      BY <1>8, <1>9, <2>1 DEF NewsSound, Tell, Undecided
    <2> QED BY <1>1, <1>6, <1>7, <1>9, <2>2, BackToIdle DEF IInv, TypeOK
  <1>10. /\ Len(audit) \in Nat /\ DOMAIN audit' = 1 .. Len(audit) + n
    BY <1>6 DEF IInv, TypeOK
  <1>11. n = Len(entries) => audit'[Len(audit) + 2] = Entry(logged, tasks)
    BY <1>5, <1>6
  <1>12. CASE decision = "Allow" /\ n = Len(entries) /\ pc' = "sending"
              /\ current' = action /\ UNCHANGED <<pending, told>>
    <2>1. audit'[Len(audit) + 3] = Entry("ExecRequested", tasks)
          /\ Len(audit) + 3 \in DOMAIN audit' /\ Len(audit) + 2 \in DOMAIN audit'
      BY <1>5, <1>6, <1>10, <1>12
    <2>2. PICK c : c = action
      OBVIOUS
    <2>3. Len(audit) + 3 \in Logged("ExecRequested", c.frame)'
      BY <1>3, <2>1, <2>2 DEF Logged, Entry
    <2>4. Len(audit) + 2 \in Logged("Allow", c.frame)'
      BY <1>3, <1>11, <1>12, <2>1, <2>2 DEF Logged, Entry
    <2>5. Licensed(c.frame)' /\ Logged("ExecRequested", c.frame)' # {}
      BY <2>3, <2>4 DEF Licensed
    <2>6. /\ c.action \in Action /\ c.frame \in Frame /\ SignedHere(c) /\ Undecided(c.action)
          /\ current' = c /\ \A p \in pending' : p.action # c.action
      BY <1>3, <1>8, <1>12, <2>2
    <2> QED BY <1>1, <1>6, <1>7, <1>12, <2>5, <2>6, DispatchKeeps
  <1>13. CASE decision = "RequireApproval" /\ n = Len(entries) /\ ~TooManyPending /\ pc' = "idle"
              /\ pending' = prune_pending \union {action} /\ UNCHANGED told
    <2>1. PICK c : c = action
      OBVIOUS
    <2>2. Len(audit) + 2 \in DOMAIN audit' /\ logged = "RequireApproval"
      BY <1>5, <1>10, <1>13
    <2>3. Len(audit) + 2 \in Logged("RequireApproval", c.frame)'
          /\ audit'[Len(audit) + 2].at = c.created
      BY <1>3, <1>11, <1>13, <2>1, <2>2 DEF Logged, Entry
    <2>4. /\ c.action = tasks /\ c.action \in Action /\ c.frame \in Frame /\ c.created = now
          /\ SignedHere(c) /\ Undecided(c.action) /\ pending' = prune_pending \union {c}
      BY <1>3, <1>13, <2>1
    <2> QED BY <1>1, <1>6, <1>7, <1>13, <2>3, <2>4, StashKeeps
  <1> QED BY <1>2, <1>9, <1>12, <1>13, TableShrinks

-----------------------------------------------------------------------------
(* Every step of the daemon keeps the invariant, whatever its executor is. *)
LEMMA DaemonIInv == IInv /\ Daemon => IInv'
PROOF
  <1> SUFFICES ASSUME IInv, Daemon PROVE IInv'
    OBVIOUS
  <1>1. CASE RunTask BY <1>1, RunTaskIInv
  <1>2. CASE NoActionReply BY <1>2, NoActionReplyIInv
  <1>3. CASE \E exec \in Exec, args \in Args : DenyInvoke(exec, args) \/ Invoke(exec, args)
    BY <1>3, DenyInvokeIInv, InvokeIInv
  <1>4. CASE \E id \in 1 .. MaxTask : ApproveUnknown(id)
    BY <1>4, ApproveUnknownIInv
  <1>5. CASE \E p \in pending, digest \in {q.digest : q \in pending} \union {OtherDigest} :
               ApproveRefused(p, digest) \/ Approve(p, digest)
    BY <1>5, ApproveRefusedIInv, ApproveIInv
  <1>6. CASE \E p \in pending : Reject(p)
    BY <1>6, RejectIInv
  <1>7. CASE SendFails BY <1>7, SendFailsIInv
  <1>8. CASE Send BY <1>8, SendIInv
  <1>9. CASE Receive BY <1>9, ReceiveIInv
  <1>10. CASE Crash BY <1>10, CrashIInv
  <1>11. CASE Start BY <1>11, StartIInv
  <1> QED BY <1>1, <1>2, <1>3, <1>4, <1>5, <1>6, <1>7, <1>8, <1>9, <1>10, <1>11 DEF Daemon

(* So does the operator's and the clock's. *)
LEMMA OperatorIInv == IInv /\ Operator => IInv'
PROOF
  <1> SUFFICES ASSUME IInv, Operator PROVE IInv'
    OBVIOUS
  <1>1. CASE Tick
    BY <1>1, EnvironmentIInv, BoundAssumption DEF Tick, session, history, IInv, TypeOK
  <1>2. CASE \E exec \in Exec, b \in Bundle : Install(exec, b)
    <2>1. PICK exec \in Exec, b \in Bundle : Install(exec, b)
      BY <1>2
    <2>2. /\ bundle_dir' \in [Exec -> Bundle] /\ now' \in 0 .. MaxTime /\ now' >= now
          /\ UNCHANGED <<published, mode, seq, pending, pc, current, reply, tasks, audit, sent, told>>
      BY <2>1, BoundAssumption DEF Install, session, history, IInv, TypeOK
    <2> QED BY <2>2, EnvironmentIInv DEF IInv, TypeOK
  <1> QED BY <1>1, <1>2 DEF Operator

(* And every answer an executor may give. *)
LEMMA ExecdAnswersIInv == IInv /\ ExecdAnswers => IInv'
  BY EnvironmentIInv, BoundAssumption
  DEF ExecdAnswers, environment, session, history, IInv, TypeOK

(* The invariant is inductive: no step of daemon, executor, operator or    *)
(* clock breaks it, for any number of tasks, approvals and restarts.       *)
THEOREM Invariance == Spec => []IInv
PROOF
  <1>1. Init => IInv
    BY InitIInv
  <1>2. IInv /\ [Next]_vars => IInv'
    <2> SUFFICES ASSUME IInv, [Next]_vars PROVE IInv'
      OBVIOUS
    <2>1. CASE Next
      BY <2>1, DaemonIInv, OperatorIInv, ExecdAnswersIInv DEF Next
    <2>2. CASE UNCHANGED vars
      BY <2>2, EnvironmentIInv, BoundAssumption
      DEF vars, environment, session, history, IInv, TypeOK
    <2> QED BY <2>1, <2>2
  <1> QED BY <1>1, <1>2, PTL DEF Spec

(* The daemon's state is well formed, every frame it signs and every entry *)
(* it logs is, and no more than MAX_PENDING approvals ever wait.           *)
THEOREM DaemonTypeCorrect == Spec => []TypeOK
PROOF
  <1>1. IInv => TypeOK
    BY DEF IInv
  <1> QED BY <1>1, Invariance, PTL

(* No action is handed to the executor twice, over any number of errors,   *)
(* approvals and incarnations of the daemon.                               *)
THEOREM NothingSentTwice == Spec => []SentOnce
PROOF
  <1>1. IInv => SentOnce
    BY DEF IInv
  <1> QED BY <1>1, Invariance, PTL

(* No log, no execution: every frame on the wire was logged by its session *)
(* before, although any append may fail and the process may die anywhere.  *)
THEOREM NothingSentUnlogged == Spec => []SentAreAudited
PROOF
  <1>1. IInv => SentAreAudited
    BY DEF IInv
  <1> QED BY <1>1, Invariance, PTL

(* Every frame sent was allowed outright, or approved by the operator no   *)
(* later than APPROVAL_TTL after it was proposed.                          *)
THEOREM NothingSentUnlicensed == Spec => []SentAreLicensed
PROOF
  <1>1. IInv => SentAreLicensed
    BY DEF IInv
  <1> QED BY <1>1, Invariance, PTL

(* What a gate, the cap on approvals or the operator refused never leaves  *)
(* the daemon, although its frame is signed and valid.                     *)
THEOREM RefusalsAreFinal == Spec => []RefusedNeverSent
PROOF
  <1>1. IInv => RefusedNeverSent
    BY DEF IInv
  <1> QED BY <1>1, Invariance, PTL
-----------------------------------------------------------------------------
(* The shapes of the daemon's steps, as far as what it holds is concerned: *)
(* a new task, a return to the request loop, a dispatch, a new approval.   *)
Quiet == UNCHANGED <<published, sent>>
StartsTask ==
  /\ Quiet /\ pc = "idle" /\ pc' \in {"idle", "thinking"}
  /\ tasks' = tasks + 1
  /\ UNCHANGED <<seq, pending, current, reply>>
EndsTask ==
  /\ Quiet /\ pc \in {"idle", "thinking", "sending", "waiting"} /\ pc' = "idle"
  /\ pending' \subseteq pending
  /\ seq' \in {seq, seq + 1}
  /\ pc = "waiting" => Arrived /\ reply' = NoReply
  /\ pc # "waiting" => reply' = reply
  /\ UNCHANGED tasks
SignsNow(c) == c.action = tasks /\ c.frame.seq = seq + 1 /\ seq' = seq + 1 /\ pc = "thinking"
Dispatches ==
  /\ Quiet /\ pc' = "sending" /\ UNCHANGED <<tasks, reply>>
  /\ \/ SignsNow(current') /\ UNCHANGED pending
     \/ /\ pc = "idle" /\ UNCHANGED seq
        /\ current' \in pending /\ pending' \subseteq pending \ {current'}
Stashes ==
  /\ Quiet /\ pc' = "idle" /\ UNCHANGED <<tasks, reply>>
  /\ \E c : SignsNow(c) /\ pending' \subseteq pending \union {c} /\ c \in pending'

(* invoke: it ends the task, dispatches what it signed or stashes it. *)
LEMMA InvokeShape ==
  ASSUME IInv, NEW exec \in Exec, NEW args \in Args, Invoke(exec, args)
  PROVE  EndsTask \/ Dispatches \/ Stashes
PROOF
  <1> DEFINE b == bundle_dir[exec]
             action == NewPending(exec, args, b)
  <1>1. /\ pc = "thinking"
        /\ UNCHANGED <<published, reply, tasks, sent>>
        /\ seq' \in {seq, seq + 1}
    BY DEF Invoke, environment
  <1>2. action.action = tasks /\ action.frame.seq = seq + 1
    BY DEF NewPending, sign_exec_request
  <1>3. \/ pc' = "idle" /\ (pending' = pending \/ pending' = prune_pending)
        \/ pc' = "sending" /\ current' = action /\ UNCHANGED pending /\ seq' = seq + 1
        \/ pc' = "idle" /\ pending' = prune_pending \union {action} /\ seq' = seq + 1
    <2> DEFINE decision == evaluate("default", mode, exec, b)
               logged == IF decision = "NotAllowed" THEN "Deny" ELSE decision
               rest == IF decision = "Allow" THEN <<Entry("ExecRequested", tasks)>> ELSE <<>>
               entries == <<Entry("LlmResponse", NoAction), Entry(logged, tasks)>> \o rest
    <2>1. Len(entries) \in {2, 3}
      <3>1. ASSUME NEW x, NEW y, NEW z
            PROVE  Len(<<x, y>> \o <<>>) = 2 /\ Len(<<x, y>> \o <<z>>) = 3
        OBVIOUS
      <3>2. rest = <<Entry("ExecRequested", tasks)>> \/ rest = <<>>
        OBVIOUS
      <3> HIDE DEF logged, rest
      <3> QED BY <3>1, <3>2
    <2> HIDE DEF decision, entries, action
    <2>2. PICK n \in 0 .. Len(entries) :
            /\ seq' = IF n >= 2 THEN seq + 1 ELSE seq
            /\ \/ pc' = "idle" /\ pending' = pending
               \/ pc' = "idle" /\ pending' = prune_pending
               \/ /\ n = Len(entries) /\ pc' = "sending" /\ current' = action
                  /\ UNCHANGED pending
               \/ n = Len(entries) /\ pc' = "idle" /\ pending' = prune_pending \union {action}
      BY DEF Invoke, decision, entries, action
    <2>3. n = Len(entries) => seq' = seq + 1
      BY <2>1, <2>2
    <2> QED BY <2>2, <2>3, Zenon
  <1> HIDE DEF action
  <1>4. CASE pc' = "idle" /\ (pending' = pending \/ pending' = prune_pending)
    BY <1>1, <1>4, TableShrinks DEF EndsTask, Quiet
  <1>5. CASE pc' = "sending" /\ current' = action /\ UNCHANGED pending /\ seq' = seq + 1
    BY <1>1, <1>2, <1>5 DEF Dispatches, SignsNow, Quiet
  <1>6. CASE pc' = "idle" /\ pending' = prune_pending \union {action} /\ seq' = seq + 1
    BY <1>1, <1>2, <1>6, TableShrinks DEF Stashes, SignsNow, Quiet
  <1> QED BY <1>3, <1>4, <1>5, <1>6

(* Every step of the daemon has one of these shapes. *)
LEMMA DaemonShape ==
  ASSUME IInv, Daemon
  PROVE  StartsTask \/ EndsTask \/ Dispatches \/ Stashes \/ Send \/ Crash \/ Start
PROOF
  <1> USE TableShrinks DEF environment, session, history, Quiet
  <1>1. CASE RunTask
    BY <1>1 DEF RunTask, StartsTask
  <1>2. CASE NoActionReply
    BY <1>2 DEF NoActionReply, EndsTask
  <1>3. CASE \E exec \in Exec, args \in Args : DenyInvoke(exec, args) \/ Invoke(exec, args)
    <2>1. CASE \E exec \in Exec, args \in Args : DenyInvoke(exec, args)
      BY <2>1 DEF DenyInvoke, EndsTask
    <2>2. CASE \E exec \in Exec, args \in Args : Invoke(exec, args)
      BY <2>2, InvokeShape
    <2> QED BY <1>3, <2>1, <2>2
  <1>4. CASE \E id \in 1 .. MaxTask : ApproveUnknown(id)
    BY <1>4 DEF ApproveUnknown, EndsTask
  <1>5. CASE \E p \in pending, digest \in {q.digest : q \in pending} \union {OtherDigest} :
               ApproveRefused(p, digest) \/ Approve(p, digest)
    <2>0. PICK p \in pending : \E digest : ApproveRefused(p, digest) \/ Approve(p, digest)
      BY <1>5
    <2>1. PICK digest : ApproveRefused(p, digest) \/ Approve(p, digest)
      BY <2>0
    <2>2. CASE ApproveRefused(p, digest)
      BY <2>2 DEF ApproveRefused, EndsTask
    <2>3. CASE Approve(p, digest)
      <3>1. /\ pc = "idle" /\ pending' \subseteq pending \ {p}
            /\ UNCHANGED <<published, seq, reply, tasks, sent>>
        BY <2>3 DEF Approve
      <3>2. (pc' = "sending" /\ current' = p) \/ UNCHANGED pc
        BY <2>3 DEF Approve
      <3> QED BY <3>1, <3>2 DEF Dispatches, EndsTask
    <2> QED BY <2>1, <2>2, <2>3
  <1>6. CASE \E p \in pending : Reject(p)
    BY <1>6 DEF Reject, EndsTask
  <1>7. CASE SendFails
    BY <1>7 DEF SendFails, EndsTask
  <1>8. CASE Receive
    BY <1>8 DEF Receive, EndsTask
  <1> QED BY <1>1, <1>2, <1>3, <1>4, <1>5, <1>6, <1>7, <1>8 DEF Daemon

(* Seqs and sessions are numbers, wherever a frame is. *)
LEMMA SeqNumbers ==
  ASSUME IInv
  PROVE  /\ seq \in Nat /\ published \in Nat
         /\ \A k \in DOMAIN sent : sent[k].seq \in Nat /\ sent[k].session \in Nat
         /\ \A p \in pending : p.frame.seq \in Nat
         /\ pc = "sending" => current.frame.seq \in Nat
PROOF
  <1>1. \A f \in Frame : f.seq \in Nat /\ f.session \in Nat
    BY BoundAssumption DEF Frame
  <1>2. seq \in Nat /\ published \in Nat
    BY BoundAssumption DEF IInv, TypeOK
  <1>3. \A k \in DOMAIN sent : sent[k].seq \in Nat /\ sent[k].session \in Nat
    BY <1>1, ActionIds
  <1>4. \A p \in pending : p.frame.seq \in Nat
    BY <1>1 DEF IInv, TypeOK
  <1>5. pc = "sending" => current.frame.seq \in Nat
    BY <1>1 DEF IInv, TypeOK
  <1> QED BY <1>2, <1>3, <1>4, <1>5

(* A step that signs nothing it keeps and sends nothing. *)
LEMMA NothingHeldAnew ==
  ASSUME IInv, SeqInv, Quiet, seq' \in Nat, seq' >= seq, pc # "down",
         pending' \subseteq pending, pc' # "sending"
  PROVE  SeqInv'
PROOF
  <1>1. SeqBounded'
    BY SeqNumbers DEF SeqInv, SeqBounded, Quiet
  <1>2. SeqHeldOnce' /\ SeqSentOnce'
    BY DEF SeqInv, SeqHeldOnce, SeqSentOnce, SeqUnsent, Quiet
  <1> QED BY <1>1, <1>2 DEF SeqInv

(* What is dispatched left the table, or was signed in this very step. *)
LEMMA DispatchesSeq ==
  ASSUME IInv, SeqInv, Dispatches
  PROVE  SeqInv'
PROOF
  <1> USE SeqNumbers DEF Quiet
  <1>0. pc # "down" /\ seq' \in Nat /\ seq' >= seq /\ pending' \subseteq pending
    BY DEF Dispatches, SignsNow
  <1>1. SeqBounded'
    BY <1>0 DEF SeqInv, SeqBounded, Dispatches
  <1>2. /\ current'.frame.seq <= seq' /\ SeqUnsent(current'.frame.seq)
        /\ \A p \in pending' : p.frame.seq # current'.frame.seq
    <2>1. CASE SignsNow(current')
      BY <1>0, <2>1 DEF SignsNow, SeqInv, SeqBounded, SeqUnsent
    <2>2. CASE current' \in pending /\ pending' \subseteq pending \ {current'} /\ seq' = seq
      BY <2>2 DEF SeqInv, SeqBounded, SeqHeldOnce
    <2> QED BY <2>1, <2>2 DEF Dispatches
  <1>3. SeqHeldOnce'
    BY <1>0, <1>2 DEF SeqInv, SeqHeldOnce, SeqUnsent, Dispatches
  <1>4. SeqSentOnce'
    BY DEF SeqInv, SeqSentOnce, Dispatches
  <1> QED BY <1>1, <1>3, <1>4 DEF SeqInv

(* What joins the table was signed in this very step. *)
LEMMA StashesSeq ==
  ASSUME IInv, SeqInv, Stashes
  PROVE  SeqInv'
PROOF
  <1> USE SeqNumbers DEF Quiet
  <1>0. PICK c : SignsNow(c) /\ pending' \subseteq pending \union {c} /\ c \in pending'
    BY DEF Stashes
  <1>1. /\ pc # "down" /\ pc' = "idle" /\ seq' = seq + 1 /\ c.frame.seq = seq + 1
        /\ UNCHANGED <<published, sent>>
    BY <1>0 DEF Stashes, SignsNow
  <1>2. SeqUnsent(seq + 1) /\ \A p \in pending : p.frame.seq # seq + 1
    BY <1>1 DEF SeqInv, SeqBounded, SeqUnsent
  <1>3. SeqBounded'
    BY <1>0, <1>1 DEF SeqInv, SeqBounded
  <1>4. SeqHeldOnce'
    <2>1. \A p, q \in pending' : p.frame.seq = q.frame.seq => p = q
      BY <1>0, <1>1, <1>2 DEF SeqInv, SeqHeldOnce
    <2>2. \A p \in pending' : SeqUnsent(p.frame.seq)
      BY <1>0, <1>1, <1>2 DEF SeqInv, SeqHeldOnce
    <2> QED BY <1>1, <2>1, <2>2 DEF SeqHeldOnce, SeqUnsent
  <1>5. SeqSentOnce'
    BY <1>1 DEF SeqInv, SeqSentOnce
  <1> QED BY <1>3, <1>4, <1>5 DEF SeqInv

(* The frame sent is the one that was held. *)
LEMMA SendSeq ==
  ASSUME IInv, SeqInv, Send
  PROVE  SeqInv'
PROOF
  <1> DEFINE f == current.frame
  <1>1. /\ pc = "sending" /\ pc' = "waiting" /\ sent' = Append(sent, f)
        /\ UNCHANGED <<published, seq, pending, current>>
    BY DEF Send, environment, session
  <1>2. f \in Frame /\ f.session = published /\ f.seq <= seq /\ SeqUnsent(f.seq)
        /\ \A p \in pending : p.frame.seq # f.seq
    BY <1>1 DEF IInv, TypeOK, CurrentSound, SignedHere, SeqInv, SeqHeldOnce
  <1>3. /\ DOMAIN sent = 1 .. Len(sent) /\ DOMAIN sent' = 1 .. Len(sent) + 1 /\ Len(sent) \in Nat
        /\ sent'[Len(sent) + 1] = f
        /\ \A k \in 1 .. Len(sent) : sent'[k] = sent[k]
    <2>1. sent \in Seq(Frame)
      BY DEF IInv, TypeOK
    <2> HIDE DEF f
    <2> QED BY <1>1, <1>2, <2>1
  <1> HIDE DEF f
  <1>4. \A k \in DOMAIN sent' :
          (k = Len(sent) + 1 /\ sent'[k] = f) \/ (k \in DOMAIN sent /\ sent'[k] = sent[k])
    BY <1>3
  <1>5. SeqBounded'
    BY <1>1, <1>2, <1>4, SeqNumbers DEF SeqInv, SeqBounded
  <1>6. SeqHeldOnce'
    <2>1. ASSUME NEW p \in pending' PROVE SeqUnsent(p.frame.seq)'
      BY <1>1, <1>2, <1>4 DEF SeqInv, SeqHeldOnce, SeqUnsent
    <2> QED BY <1>1, <2>1 DEF SeqInv, SeqHeldOnce
  <1>7. SeqSentOnce'
    <2>1. \A k \in DOMAIN sent : ~(sent[k].session = f.session /\ sent[k].seq = f.seq)
      BY <1>2 DEF SeqUnsent
    <2> QED BY <1>4, <2>1 DEF SeqInv, SeqSentOnce
  <1> QED BY <1>5, <1>6, <1>7 DEF SeqInv

(* No step of the daemon signs a seq twice. *)
LEMMA DaemonSeqInv == IInv /\ SeqInv /\ Daemon => SeqInv'
PROOF
  <1> SUFFICES ASSUME IInv, SeqInv, Daemon PROVE SeqInv'
    OBVIOUS
  <1>1. CASE StartsTask \/ EndsTask
    <2>1. /\ Quiet /\ pc # "down" /\ pc' # "sending"
          /\ seq' \in {seq, seq + 1} /\ pending' \subseteq pending
      BY <1>1 DEF StartsTask, EndsTask
    <2> QED BY <2>1, SeqNumbers, NothingHeldAnew
  <1>2. CASE Dispatches BY <1>2, DispatchesSeq
  <1>3. CASE Stashes BY <1>3, StashesSeq
  <1>4. CASE Send BY <1>4, SendSeq
  <1>5. CASE Crash
    BY <1>5 DEF Crash, environment, history, SeqInv, SeqBounded, SeqHeldOnce, SeqSentOnce
  <1>6. CASE Start
    <2>1. /\ pending' = {} /\ pc' = "idle" /\ published' = published + 1 /\ UNCHANGED <<seq, sent>>
      BY <1>6 DEF Start, IInv, PendingSound
    <2>2. \A k \in DOMAIN sent : sent[k].session # published'
      BY <2>1, SeqNumbers DEF SeqInv, SeqBounded
    <2> QED BY <2>1, <2>2, SeqNumbers DEF SeqInv, SeqBounded, SeqHeldOnce, SeqSentOnce
  <1> QED BY <1>1, <1>2, <1>3, <1>4, <1>5, <1>6, DaemonShape

(* A session signs every seq once: no two frames sent share one, although  *)
(* a frame may be held for approval while later ones are sent, and every   *)
(* incarnation counts from 0 again.                                        *)
THEOREM SeqNeverReused == Spec => []SeqSentOnce
PROOF
  <1>1. Init => SeqInv
    BY DEF Init, SeqInv, SeqBounded, SeqHeldOnce, SeqSentOnce
  <1>2. IInv /\ SeqInv /\ [Next]_vars => SeqInv'
    <2> SUFFICES ASSUME IInv, SeqInv, [Next]_vars PROVE SeqInv'
      OBVIOUS
    <2>1. CASE Daemon
      BY <2>1, DaemonSeqInv
    <2>2. CASE Operator \/ ExecdAnswers \/ UNCHANGED vars
      <3>1. UNCHANGED <<published, seq, pending, pc, current, sent>>
        BY <2>2 DEF Operator, Tick, Install, ExecdAnswers, vars, environment, session, history
      <3> QED BY <3>1 DEF SeqInv, SeqBounded, SeqHeldOnce, SeqSentOnce, SeqUnsent
    <2> QED BY <2>1, <2>2 DEF Next
  <1>3. SeqInv => SeqSentOnce
    BY DEF SeqInv
  <1> QED BY <1>1, <1>2, <1>3, Invariance, PTL DEF Spec

-----------------------------------------------------------------------------
(* The executor's handler, as far as the daemon can tell.                  *)

(* A non-empty set of naturals has a least element: what Min chooses. *)
LEMMA LeastStop ==
  ASSUME NEW S \in SUBSET Nat, S # {}
  PROVE  Execd!Min(S) \in S
PROOF
  <1>1. PICK m \in S : \A j \in S : ~(<<j, m>> \in OpToRel(<, Nat))
    BY WFMin, NatLessThanWellFounded
  <1>2. \A j \in S : ~(j < m)
    BY <1>1 DEF OpToRel
  <1>3. \A j \in S : m <= j
    BY <1>2
  <1> QED BY <1>3 DEF Execd!Min

(* A stage is the name of the gate at its position. *)
LEMMA GateAt ==
  /\ \A g \in Execd!Gate :
       Execd!Position[g] \in 1 .. 8 /\ Execd!Pipeline[Execd!Position[g]] = g
  /\ \A i \in 1 .. 8 : Execd!Pipeline[i] \in Execd!RejectStage
  /\ Execd!Admitted = 9
PROOF
  <1>1. DOMAIN Execd!Pipeline = 1 .. 8 /\ Len(Execd!Pipeline) = 8
    BY DEF Execd!Pipeline
  <1>2. ASSUME NEW g \in Execd!Gate
        PROVE  Execd!Position[g] \in 1 .. 8 /\ Execd!Pipeline[Execd!Position[g]] = g
    <2>1. Execd!Position[g] = CHOOSE i \in DOMAIN Execd!Pipeline : Execd!Pipeline[i] = g
      BY DEF Execd!Position
    <2>2. \E i \in 1 .. 8 : Execd!Pipeline[i] = g
      BY <1>1 DEF Execd!Gate
    <2> QED BY <1>1, <2>1, <2>2
  <1>3. Execd!Admitted = 9
    BY <1>1 DEF Execd!Admitted
  <1>4. \A i \in 1 .. 8 : Execd!Pipeline[i] \in Execd!RejectStage
    BY <1>1 DEF Execd!RejectStage, Execd!Gate
  <1> QED BY <1>2, <1>3, <1>4

(* A stage is neither the daemon's own error nor a success. *)
LEMMA StageNames ==
  /\ "daemon" \notin ExecdStage /\ "Executed" \notin ExecdStage /\ "Replay" \in ExecdStage
  /\ \A o \in GateRefusal \union {"daemon"} : o # "Executed" /\ o \notin ExecdStage
PROOF
  <1>1. DOMAIN Execd!Pipeline = 1 .. 8
    BY DEF Execd!Pipeline
  <1>2. \A i \in 1 .. 8 : Execd!Pipeline[i] \notin {"daemon", "Executed"}
    BY DEF Execd!Pipeline
  <1>3. "Replay" = Execd!Pipeline[2]
    BY DEF Execd!Pipeline
  <1>4. \A g \in Execd!Gate : g \notin {"daemon", "Executed"}
    BY <1>1, <1>2 DEF Execd!Gate
  <1>5. "Replay" \in Execd!Gate
    BY <1>1, <1>3 DEF Execd!Gate
  <1>6. "daemon" \notin ExecdStage /\ "Executed" \notin ExecdStage /\ "Replay" \in ExecdStage
    BY <1>4, <1>5, SharedStages DEF Execd!RejectStage
  <1> QED BY <1>6, StageAssumption DEF GateRefusal

(* Dispatch stops at a gate that refuses, or it admits. *)
LEMMA WhyStopped ==
  ASSUME NEW f, NEW b, NEW stop, stop = Execd!first_refusal(f, b)
  PROVE  \/ stop = 9
         \/ /\ stop \in 1 .. 8 /\ Execd!Pipeline[stop] \in Execd!RejectStage
            /\ Execd!Pipeline[stop] = "Replay" => ~Execd!Replay!Fresh(f)
PROOF
  <1> DEFINE gates == Execd!refuses(f, b)
             S == {Execd!Position[g] : g \in {g \in Execd!Gate : gates[g]}}
                    \union {Execd!Admitted}
  <1>1. stop = Execd!Min(S)
    BY DEF Execd!first_refusal
  <1>2. gates["Replay"] = ~Execd!Replay!Fresh(f)
    BY DEF Execd!refuses
  <1> HIDE DEF gates
  <1>3. S \in SUBSET Nat /\ S # {}
    BY GateAt
  <1>4. stop \in S
    <2> HIDE DEF S
    <2> QED BY <1>1, <1>3, LeastStop
  <1>5. stop = 9 \/ \E g \in Execd!Gate : gates[g] /\ stop = Execd!Position[g]
    BY <1>4, GateAt
  <1> HIDE DEF S
  <1> QED BY <1>2, <1>5, GateAt

(* What the executor does with a frame: it may note the frame in its       *)
(* replay guard, and it refuses the frame, holds it or starts to run it.   *)
Notes(f) ==
  \/ UNCHANGED <<last_seq, seen_nonces>>
  \/ /\ last_seq' = [last_seq EXCEPT ![f.session] = f.seq]
     /\ seen_nonces' \subseteq seen_nonces \union {f.nonce}
Refuses(f) ==
  /\ conn' = "idle" /\ UNCHANGED runs
  /\ response' \in Execd!RejectStage
  /\ response' = "Replay" => conn = "open" /\ ~Execd!Replay!Fresh(f)
Holds(f) ==
  /\ conn' \in {"snapshot", "sandbox"} /\ UNCHANGED runs
  /\ job' \in HostJob /\ job'.frame = f
  /\ conn' = "sandbox" /\ job'.bundle.persistent => job'.snapshot # Execd!NoSnapshot
RunsNow(f) ==
  /\ conn' = "running"
  /\ \E r \in HostRun : /\ runs' = Append(runs, r) /\ r.frame = f
                        /\ r.bundle.persistent => r.snapshot # Execd!NoSnapshot
Around ==
  /\ UNCHANGED <<now, published, bundle_dir, mode_ceiling, boot, accepted>>
  /\ points' \in Seq(HostPoint)

(* Every way Handle may go. *)
LEMMA HandleEffect ==
  ASSUME NEW f \in Frame, Execd!Handle(f), points \in Seq(HostPoint),
         bundle_dir[f.exec] \in Bundle, now \in 0 .. MaxTime
  PROVE  conn = "open" /\ Around /\ Notes(f) /\ (Refuses(f) \/ Holds(f))
PROOF
  <1> DEFINE b == bundle_dir[f.exec]
  <1>1. /\ conn = "open" /\ UNCHANGED runs
        /\ UNCHANGED <<now, published, bundle_dir, session_key, mode_ceiling, boot, points,
                       accepted>>
    BY DEF Execd!Handle, Execd!environment, Execd!process
  <1>2. PICK stop :
          /\ stop = Execd!first_refusal(f, b)
          /\ IF Execd!Passed("Replay", stop) THEN Execd!Replay!Commit(f)
                                             ELSE UNCHANGED Execd!replay
          /\ \/ /\ stop < Execd!Admitted
                /\ conn' = "idle"
                /\ response' = Execd!Pipeline[stop]
             \/ /\ stop = Execd!Admitted
                /\ conn' = "snapshot"
                /\ job' = [frame |-> f, bundle |-> b, at |-> now,
                           snapshot |-> Execd!NoSnapshot]
    BY DEF Execd!Handle, Execd!Refuse
  <1> HIDE DEF b
  <1>3. \/ stop = 9
        \/ /\ stop \in 1 .. 8 /\ Execd!Pipeline[stop] \in Execd!RejectStage
           /\ Execd!Pipeline[stop] = "Replay" => ~Execd!Replay!Fresh(f)
    BY <1>2, WhyStopped
  <1>4. Notes(f)
    <2>1. CASE Execd!Replay!Commit(f)
      <3>1. seen_nonces' \subseteq seen_nonces \union {f.nonce}
        BY <2>1 DEF Execd!Replay!Commit, Execd!Replay!Remember
      <3> QED BY <2>1, <3>1 DEF Notes, Execd!Replay!Commit
    <2>2. CASE UNCHANGED Execd!replay
      BY <2>2 DEF Notes, Execd!replay
    <2> QED BY <1>2, <2>1, <2>2
  <1>5. ASSUME stop < Execd!Admitted, conn' = "idle", response' = Execd!Pipeline[stop]
        PROVE  Refuses(f)
    <2>1. stop \in 1 .. 8
      BY <1>2, <1>3, <1>5, GateAt
    <2>2. /\ response' \in Execd!RejectStage
          /\ response' = "Replay" => ~Execd!Replay!Fresh(f)
      BY <1>3, <1>5, <2>1
    <2> QED BY <1>1, <1>5, <2>2, Zenon DEF Refuses
  <1>6. ASSUME conn' = "snapshot",
               job' = [frame |-> f, bundle |-> b, at |-> now, snapshot |-> Execd!NoSnapshot]
        PROVE  Holds(f)
    <2>1. job' \in HostJob /\ job'.frame = f
      BY <1>6 DEF HostJob, Execd!NoSnapshot, b
    <2>2. conn' # "sandbox"
      BY <1>6
    <2> QED BY <1>1, <1>6, <2>1, <2>2, Zenon DEF Holds
  <1>7. Around
    BY <1>1 DEF Around
  <1> QED BY <1>1, <1>2, <1>4, <1>5, <1>6, <1>7

(* The snapshot gate goes on only with the point it needs.                 *)
LEMMA SnapshotEffect ==
  ASSUME SystemInv, Execd!TakeSnapshot
  PROVE  /\ conn = "snapshot" /\ Around /\ UNCHANGED <<last_seq, seen_nonces>>
         /\ Refuses(job.frame) \/ Holds(job.frame)
PROOF
  <1>1. /\ conn = "snapshot" /\ job \in HostJob /\ points \in Seq(HostPoint) /\ boot \in Nat
        /\ UNCHANGED <<now, published, bundle_dir, last_seq, seen_nonces, session_key,
                       mode_ceiling, boot, accepted, runs>>
    BY DEF Execd!TakeSnapshot, Execd!environment, Execd!replay, Execd!process, Execd!Busy,
           SystemInv, HostTypeOK
  <1> DEFINE b == job.bundle
             next == Len(points) + 1
             point == [frame |-> job.frame, boot |-> boot, before |-> Len(runs) + 1]
  <1>2. PICK id \in {Execd!NoSnapshot} \union (IF b.persistent /\ b.rw THEN {next} ELSE {}) :
          /\ points' = IF id = Execd!NoSnapshot THEN points ELSE Append(points, point)
          /\ \/ /\ Execd!snapshot_gate(b, id)
                /\ conn' = "sandbox"
                /\ job' = [job EXCEPT !.snapshot = id]
             \/ conn' = "idle" /\ response' = "SnapshotUnavailable"
    BY DEF Execd!TakeSnapshot, Execd!Refuse
  <1>3. next \in Nat /\ point \in HostPoint
    <2>1. Len(points) \in Nat /\ Len(runs) \in Nat
      BY <1>1 DEF SystemInv, HostTypeOK
    <2>2. job.frame \in Frame
      BY <1>1 DEF HostJob
    <2> QED BY <1>1, <2>1, <2>2 DEF HostPoint
  <1> HIDE DEF next, point
  <1>4. id \in Nat
    <2>1. id = Execd!NoSnapshot \/ id = next
      BY <1>2
    <2> QED BY <1>3, <2>1 DEF Execd!NoSnapshot
  <1>5. points' \in Seq(HostPoint)
    <2>1. Append(points, point) \in Seq(HostPoint)
      BY <1>1, <1>3
    <2> QED BY <1>1, <1>2, <2>1
  <1>6. Around
    BY <1>1, <1>5 DEF Around
  <1>7. ASSUME conn' = "idle", response' = "SnapshotUnavailable"
        PROVE  Refuses(job.frame)
    <2>1. "SnapshotUnavailable" # "Replay"
      OBVIOUS
    <2>2. response' \in Execd!RejectStage
      BY <1>7 DEF Execd!RejectStage
    <2> QED BY <1>1, <1>7, <2>1, <2>2, Zenon DEF Refuses
  <1>8. ASSUME Execd!snapshot_gate(b, id), conn' = "sandbox",
               job' = [job EXCEPT !.snapshot = id]
        PROVE  Holds(job.frame)
    <2>1. /\ job' \in HostJob /\ job'.frame = job.frame /\ job'.bundle = b
          /\ job'.snapshot = id
      BY <1>1, <1>4, <1>8 DEF HostJob
    <2>2. b.persistent => id # Execd!NoSnapshot
      BY <1>8, Zenon DEF Execd!snapshot_gate
    <2> HIDE DEF b
    <2>3. job'.bundle.persistent => job'.snapshot # Execd!NoSnapshot
      BY <2>1, <2>2, Zenon
    <2> QED BY <1>1, <1>8, <2>1, <2>3, Zenon DEF Holds
  <1> QED BY <1>1, <1>2, <1>6, <1>7, <1>8

(* The sandbox gates refuse, or what is held is started. *)
LEMMA ExecuteEffect ==
  ASSUME SystemInv, Execd!Execute
  PROVE  /\ conn = "sandbox" /\ Around /\ UNCHANGED <<last_seq, seen_nonces>>
         /\ Refuses(job.frame) \/ RunsNow(job.frame)
PROOF
  <1>1. /\ conn = "sandbox" /\ job \in HostJob
        /\ UNCHANGED <<now, published, bundle_dir, last_seq, seen_nonces, session_key,
                       mode_ceiling, boot, points, accepted>>
    BY DEF Execd!Execute, Execd!environment, Execd!replay, Execd!process, Execd!Busy,
           SystemInv, HostTypeOK
  <1>2. Around
    BY <1>1 DEF Around, SystemInv, HostTypeOK
  <1>3. \/ conn' = "running" /\ runs' = Append(runs, Execd!RunRecord)
        \/ conn' = "idle" /\ response' = "SandboxRejected" /\ UNCHANGED runs
    BY DEF Execd!Execute, Execd!Refuse
  <1>4. ASSUME conn' = "idle", response' = "SandboxRejected", UNCHANGED runs
        PROVE  Refuses(job.frame)
    <2>1. "SandboxRejected" # "Replay"
      OBVIOUS
    <2>2. response' \in Execd!RejectStage
      BY <1>4 DEF Execd!RejectStage
    <2> QED BY <1>1, <1>4, <2>1, <2>2, Zenon DEF Refuses
  <1>5. ASSUME conn' = "running", runs' = Append(runs, Execd!RunRecord)
        PROVE  RunsNow(job.frame)
    <2>1. PICK r : r = Execd!RunRecord
      OBVIOUS
    <2>2. /\ job.frame \in Frame /\ job.bundle \in Bundle /\ job.at \in 0 .. MaxTime
          /\ job.snapshot \in Nat
      BY <1>1 DEF HostJob
    <2>3. boot \in Nat /\ mode_ceiling \in HostMode /\ accepted \in 0 .. MaxKey
      BY DEF SystemInv, HostTypeOK
    <2>4. r \in HostRun /\ r.frame = job.frame /\ r.bundle = job.bundle
          /\ r.snapshot = job.snapshot
      BY <2>1, <2>2, <2>3 DEF Execd!RunRecord, HostRun
    <2>5. job.bundle.persistent => job.snapshot # Execd!NoSnapshot
      BY <1>1, Zenon DEF SystemInv, SnapshotWhenPersistent
    <2>6. r.bundle.persistent => r.snapshot # Execd!NoSnapshot
      BY <2>4, <2>5, Zenon
    <2>7. runs' = Append(runs, r)
      BY <1>5, <2>1
    <2> QED BY <1>5, <2>4, <2>6, <2>7, Zenon DEF RunsNow
  <1> QED BY <1>1, <1>2, <1>3, <1>4, <1>5

-----------------------------------------------------------------------------
(* Frames on their way.                                                    *)

(* Positions in what was sent. *)
LEMMA Counts ==
  ASSUME SystemInv
  PROVE  /\ sent \in Seq(Frame) /\ wire \in Seq(Frame)
         /\ Len(sent) \in Nat /\ Len(wire) \in Nat /\ DOMAIN sent = 1 .. Len(sent)
         /\ Consumed \in Nat /\ Started \in Nat /\ Handed \in Nat
         /\ Consumed <= Started /\ Started <= Handed /\ Handed <= Consumed + 1
         /\ Handed <= Len(sent)
         /\ conn # "running" => Started = Consumed
         /\ conn = "running" => Started = Consumed + 1
         /\ conn \in {"snapshot", "sandbox", "running"} => Handed = Consumed + 1
         /\ conn \notin {"snapshot", "sandbox", "running"} => Handed = Consumed
PROOF
  <1>1. /\ sent \in Seq(Frame) /\ wire \in Seq(Frame) /\ Len(wire) <= Len(sent)
        /\ conn \in {"snapshot", "sandbox", "running"} => wire # <<>>
    BY DEF SystemInv, IInv, TypeOK, WireIsRest, RunIsHead, JobIsHead, Execd!Busy
  <1>2. /\ Len(sent) \in Nat /\ Len(wire) \in Nat /\ DOMAIN sent = 1 .. Len(sent)
        /\ conn \in {"snapshot", "sandbox", "running"} => Len(wire) > 0
    BY <1>1
  <1>3. Consumed \in Nat /\ Consumed = Len(sent) - Len(wire)
    BY <1>1, <1>2 DEF Consumed
  <1>4. CASE conn \in {"snapshot", "sandbox", "running"}
    <2>1. Handed = Consumed + 1 /\ Handed <= Len(sent)
      BY <1>2, <1>3, <1>4 DEF Handed
    <2>2. /\ conn # "running" => Started = Consumed
          /\ conn = "running" => Started = Consumed + 1
      BY <1>3 DEF Started
    <2>3. /\ Started \in Nat /\ Handed \in Nat /\ Consumed <= Started /\ Started <= Handed
          /\ Handed <= Consumed + 1
      BY <1>3, <2>1, <2>2, SMTT(40)
    <2> QED BY <1>1, <1>2, <1>3, <1>4, <2>1, <2>2, <2>3, Zenon
  <1>5. CASE conn \notin {"snapshot", "sandbox", "running"}
    <2>1. Handed = Consumed
      BY <1>3, <1>5 DEF Handed
    <2>2. conn # "running"
      BY <1>5
    <2>3. Started = Consumed
      BY <1>3, <2>2 DEF Started
    <2>4. Consumed <= Len(sent) /\ Consumed <= Consumed /\ Consumed <= Consumed + 1
      BY <1>2, <1>3
    <2> HIDE DEF Consumed
    <2> QED BY <1>1, <1>2, <1>3, <1>5, <2>1, <2>2, <2>3, <2>4, Zenon
  <1> QED BY <1>4, <1>5

(* The frame the executor meets next is the next one sent, and it has met  *)
(* no other frame of that action.                                          *)
LEMMA HeadIsNext ==
  ASSUME SystemInv, wire # <<>>
  PROVE  /\ Consumed + 1 \in DOMAIN sent
         /\ Head(wire) = sent[Consumed + 1] /\ Head(wire) \in Frame
         /\ \A i \in 1 .. Consumed : sent[i].nonce # Head(wire).nonce
PROOF
  <1>1. Head(wire) = wire[1] /\ Len(wire) >= 1 /\ Head(wire) \in Frame
    BY Counts
  <1>2. wire[1] = sent[Consumed + 1]
    BY <1>1, Counts DEF SystemInv, WireIsRest
  <1>3. Consumed + 1 \in DOMAIN sent /\ 1 .. Consumed \subseteq DOMAIN sent
    BY <1>1, Counts DEF Consumed
  <1>4. \A i \in 1 .. Consumed : i # Consumed + 1
    BY Counts
  <1> QED BY <1>1, <1>2, <1>3, <1>4 DEF SystemInv, IInv, SentOnce

(* The runs of the host, and one more. *)
LEMMA RunsExtend ==
  ASSUME runs \in Seq(HostRun), NEW r \in HostRun, runs' = Append(runs, r)
  PROVE  /\ runs' \in Seq(HostRun) /\ Len(runs) \in Nat /\ Len(runs') = Len(runs) + 1
         /\ DOMAIN runs = 1 .. Len(runs) /\ DOMAIN runs' = 1 .. Len(runs) + 1
         /\ runs'[Len(runs) + 1] = r
         /\ \A k \in DOMAIN runs : k \in DOMAIN runs' /\ k # Len(runs) + 1 /\ runs'[k] = runs[k]
         /\ \A k \in DOMAIN runs' : k = Len(runs) + 1 \/ k \in DOMAIN runs
  OBVIOUS

(* In one step the host starts nothing, or it starts the next frame. *)
Starts(r) ==
  /\ r \in HostRun /\ runs' = Append(runs, r)
  /\ wire # <<>> /\ conn # "running" /\ r.frame = Head(wire)
StartsAtMostOne == UNCHANGED runs \/ \E r : Starts(r)

(* What is run is kept, and an action the executor is done with does not   *)
(* run any more.                                                           *)
LEMMA RanStays ==
  ASSUME SystemInv, StartsAtMostOne
  PROVE  /\ \A k \in DOMAIN runs : k \in DOMAIN runs' /\ runs'[k] = runs[k]
         /\ \A a : Ran(a) \subseteq Ran(a)'
         /\ \A a : DoneWith(a) => Ran(a)' = Ran(a)
PROOF
  <1>1. CASE UNCHANGED runs
    BY <1>1 DEF Ran
  <1>2. ASSUME NEW r, Starts(r)
        PROVE  /\ \A k \in DOMAIN runs : k \in DOMAIN runs' /\ runs'[k] = runs[k]
               /\ \A a : Ran(a) \subseteq Ran(a)'
               /\ \A a : DoneWith(a) => Ran(a)' = Ran(a)
    <2>1. /\ \A k \in DOMAIN runs : k \in DOMAIN runs' /\ runs'[k] = runs[k]
          /\ \A k \in DOMAIN runs' : k = Len(runs) + 1 \/ k \in DOMAIN runs
          /\ runs'[Len(runs) + 1] = r
      BY <1>2, RunsExtend DEF Starts, SystemInv, HostTypeOK
    <2>2. \A a : DoneWith(a) => r.frame.nonce # a
      BY <1>2, HeadIsNext DEF Starts, DoneWith
    <2>3. \A a : Ran(a) \subseteq Ran(a)'
      BY <2>1 DEF Ran
    <2>4. ASSUME NEW a, DoneWith(a) PROVE Ran(a)' = Ran(a)
      <3>1. r.frame.nonce # a
        BY <2>2, <2>4
      <3> QED BY <2>1, <3>1 DEF Ran
    <2>5. \A a : DoneWith(a) => Ran(a)' = Ran(a)
      BY <2>4, Zenon
    <2> QED BY <2>1, <2>3, <2>5, Zenon
  <1> QED BY <1>1, <1>2 DEF StartsAtMostOne

(* Every run is of a frame the daemon sent. *)
LEMMA RunsAreSent ==
  ASSUME SystemInv, NEW k \in DOMAIN runs
  PROVE  \E i \in DOMAIN sent : sent[i] = runs[k].frame
PROOF
  <1>1. PICK i \in 1 .. Started : sent[i] = runs[k].frame
    BY DEF SystemInv, RunsWereHanded
  <1>2. i \in DOMAIN sent
    BY Counts
  <1> QED BY <1>1, <1>2

-----------------------------------------------------------------------------
(* A step of the executor: the daemon's state stays, but for its socket.   *)
DaemonStays ==
  UNCHANGED <<now, published, bundle_dir, mode, seq, pending, pc, current, tasks,
              audit, sent, told>>

(* What the executor is done with it stays done with. *)
LEMMA DoneStays ==
  ASSUME SystemInv, UNCHANGED sent, Consumed' \in Nat, Consumed' >= Consumed
  PROVE  \A a : DoneWith(a) => DoneWith(a)'
PROOF
  <1>1. 1 .. Consumed \subseteq 1 .. Consumed'
    BY Counts
  <1> QED BY <1>1 DEF DoneWith

(* The invariant of the daemon is none of the executor's business. *)
LEMMA DaemonInvStays ==
  ASSUME SystemInv, DaemonStays, reply' \in Reply
  PROVE  IInv' /\ SeqInv'
PROOF
  <1>1. now' \in 0 .. MaxTime /\ now' >= now /\ bundle_dir' \in [Exec -> Bundle]
    BY BoundAssumption DEF DaemonStays, SystemInv, IInv, TypeOK
  <1>2. IInv'
    BY <1>1, EnvironmentIInv DEF DaemonStays, SystemInv
  <1>3. SeqInv'
    BY DEF DaemonStays, SystemInv, SeqInv, SeqBounded, SeqHeldOnce, SeqSentOnce, SeqUnsent
  <1> QED BY <1>2, <1>3

(* Whatever the executor starts, the log and what the operator was told    *)
(* stay true: they speak of frames the executor is done with.              *)
LEMMA StoryStays ==
  ASSUME SystemInv, DaemonStays, StartsAtMostOne, Consumed' \in Nat, Consumed' >= Consumed
  PROVE  AuditMatchesHost' /\ ReplayOnlyIfOvertaken' /\ ToldIsDone'
PROOF
  <1>1. ASSUME NEW k \in DOMAIN runs' PROVE \E i \in DOMAIN sent : sent[i] = runs'[k].frame
    <2>1. CASE UNCHANGED runs
      BY <2>1, RunsAreSent
    <2>2. ASSUME NEW r, Starts(r) PROVE \E i \in DOMAIN sent : sent[i] = runs'[k].frame
      <3>1. /\ k = Len(runs) + 1 \/ k \in DOMAIN runs
            /\ runs'[Len(runs) + 1] = r
            /\ \A j \in DOMAIN runs : runs'[j] = runs[j]
        BY <2>2, RunsExtend DEF Starts, SystemInv, HostTypeOK
      <3>2. r.frame = sent[Consumed + 1] /\ Consumed + 1 \in DOMAIN sent
        BY <2>2, HeadIsNext DEF Starts
      <3> QED BY <3>1, <3>2, RunsAreSent
    <2> QED BY <2>1, <2>2 DEF StartsAtMostOne
  <1>2. \A a : DoneWith(a) => DoneWith(a)'
    BY DoneStays DEF DaemonStays
  <1>3. ToldIsDone'
    BY <1>2 DEF DaemonStays, SystemInv, ToldIsDone
  <1>4. /\ \A k \in DOMAIN runs : k \in DOMAIN runs' /\ runs'[k] = runs[k]
        /\ \A a : Ran(a) \subseteq Ran(a)'
        /\ \A t \in told : t.outcome \in ExecdStage \union {"Executed"}
             => Ran(t.action)' = Ran(t.action)
    <2>1. \A a : DoneWith(a) => Ran(a)' = Ran(a)
      BY RanStays
    <2>2. ASSUME NEW t \in told, t.outcome \in ExecdStage \union {"Executed"}
          PROVE  Ran(t.action)' = Ran(t.action)
      <3>1. PICK a : a = t.action
        OBVIOUS
      <3>2. DoneWith(a)
        BY <2>2, <3>1 DEF SystemInv, ToldIsDone
      <3>3. Ran(a)' = Ran(a)
        BY <2>1, <3>2
      <3> QED BY <3>1, <3>3
    <2> QED BY <2>2, RanStays
  <1>5. AuditIsTruthful'
    <2>1. \A i \in DOMAIN audit : audit[i].event = "ExecCompleted" => Ran(audit[i].action)' # {}
      <3>1. ASSUME NEW i \in DOMAIN audit, audit[i].event = "ExecCompleted"
            PROVE  Ran(audit[i].action)' # {}
        <4>1. PICK k : k \in Ran(audit[i].action)
          BY <3>1 DEF SystemInv, AuditMatchesHost, AuditIsTruthful
        <4>2. k \in DOMAIN runs' /\ runs'[k].frame.nonce = audit'[i].action
          BY <1>4, <4>1 DEF Ran, DaemonStays
        <4> QED BY <4>2 DEF Ran
      <3> QED BY <3>1
    <2>2. \A i \in DOMAIN audit : audit[i].event = "SnapshotTaken" =>
            \E k \in Ran(audit[i].action)' : runs'[k].snapshot # Execd!NoSnapshot
      <3>1. ASSUME NEW i \in DOMAIN audit, audit[i].event = "SnapshotTaken"
            PROVE  \E k \in Ran(audit[i].action)' : runs'[k].snapshot # Execd!NoSnapshot
        <4>1. PICK k \in Ran(audit[i].action) : runs[k].snapshot # Execd!NoSnapshot
          BY <3>1 DEF SystemInv, AuditMatchesHost, AuditIsTruthful
        <4>2. /\ k \in DOMAIN runs' /\ runs'[k].frame.nonce = audit'[i].action
              /\ runs'[k] = runs[k]
          BY <1>4, <4>1 DEF Ran, DaemonStays
        <4> QED BY <4>1, <4>2 DEF Ran
      <3> QED BY <3>1
    <2>3. ASSUME NEW t \in told, t.outcome = "Executed", NEW k \in Ran(t.action)'
          PROVE  /\ Logged("ExecCompleted", runs'[k].frame) # {}
                 /\ runs'[k].bundle.persistent => Logged("SnapshotTaken", runs'[k].frame) # {}
      <3>1. k \in Ran(t.action) /\ k \in DOMAIN runs
        BY <1>4, <2>3 DEF Ran
      <3>2. runs'[k] = runs[k]
        BY <1>4, <3>1
      <3> QED BY <2>3, <3>1, <3>2 DEF SystemInv, AuditMatchesHost, AuditIsTruthful
    <2> QED BY <2>1, <2>2, <2>3 DEF AuditIsTruthful, DaemonStays, Logged
  <1>6. RunsAreAudited'
    <2>1. ASSUME NEW k \in DOMAIN runs' PROVE Logged("ExecRequested", runs'[k].frame) # {}
      BY <1>1 DEF SystemInv, IInv, SentAreAudited
    <2>2. ASSUME NEW t \in told, t.outcome \in GateRefusal PROVE Ran(t.action)' = {}
      <3>1. \A k \in DOMAIN sent : sent[k].nonce # t.action
        BY <2>2 DEF SystemInv, IInv, RefusedNeverSent
      <3>2. \A k \in DOMAIN runs' : runs'[k].frame.nonce # t.action
        BY <1>1, <3>1
      <3> QED BY <3>2 DEF Ran
    <2>3. ASSUME NEW t \in told, t.outcome \in ExecdStage PROVE Ran(t.action)' = {}
      BY <1>4, <2>3 DEF SystemInv, AuditMatchesHost, RunsAreAudited
    <2>4. \A t \in told : t.outcome \in GateRefusal \union ExecdStage => Ran(t.action)' = {}
      BY <2>2, <2>3
    <2> QED BY <2>1, <2>4 DEF RunsAreAudited, DaemonStays, Logged, Ran
  <1>7. ReplayOnlyIfOvertaken'
    BY DEF DaemonStays, SystemInv, ReplayOnlyIfOvertaken
  <1> QED BY <1>3, <1>5, <1>6, <1>7 DEF AuditMatchesHost

(* An answer that has arrived stays true while the daemon has not read it. *)
LEMMA ReplyStays ==
  ASSUME SystemInv, DaemonStays, StartsAtMostOne, Consumed' \in Nat, Consumed' >= Consumed,
         UNCHANGED reply
  PROVE  ReplyIsTrue'
PROOF
  <1>1. pc' # "waiting" => reply' = NoReply
    BY DEF DaemonStays, SystemInv, ReplyIsTrue
  <1>2. ASSUME pc = "waiting", reply # NoReply
        PROVE  /\ DoneWith(current.action)'
               /\ reply.outcome \in ExecdStage => Ran(current.action)' = {}
               /\ reply.outcome = "Replay" => Overtaken(current.action)'
               /\ reply.outcome = "Completed" =>
                    \E k \in DOMAIN runs' :
                      /\ runs'[k].frame = current.frame
                      /\ reply.snapshot = (runs'[k].snapshot # Execd!NoSnapshot)
    <2>1. PICK a : a = current.action /\ a = current.action'
      BY DEF DaemonStays
    <2>2. /\ DoneWith(a)
          /\ reply.outcome \in ExecdStage => Ran(a) = {}
          /\ reply.outcome = "Replay" => Overtaken(a)
          /\ reply.outcome = "Completed" =>
               \E k \in DOMAIN runs : /\ runs[k].frame = current.frame
                                      /\ reply.snapshot = (runs[k].snapshot # Execd!NoSnapshot)
      BY <1>2, <2>1 DEF SystemInv, ReplyIsTrue
    <2>3. DoneWith(a)' /\ Ran(a)' = Ran(a)
      BY <2>2, DoneStays, RanStays DEF DaemonStays
    <2>4. Overtaken(a) => Overtaken(a)'
      BY DEF Overtaken, DaemonStays
    <2>5. \A k \in DOMAIN runs : k \in DOMAIN runs' /\ runs'[k] = runs[k]
      BY RanStays
    <2>6. /\ DoneWith(current.action)' /\ Ran(current.action)' = Ran(a)
          /\ Overtaken(a) => Overtaken(current.action)'
      BY <2>1, <2>3, <2>4 DEF DoneWith, Ran, Overtaken
    <2>7. reply.outcome = "Completed" =>
            \E k \in DOMAIN runs' : /\ runs'[k].frame = current.frame
                                    /\ reply.snapshot = (runs'[k].snapshot # Execd!NoSnapshot)
      BY <2>2, <2>5
    <2> QED BY <2>2, <2>6, <2>7
  <1> QED BY <1>1, <1>2 DEF ReplyIsTrue, DaemonStays

(* The host's history stays as it is when the executor is handed more. *)
LEMMA HistoryStays ==
  ASSUME SystemInv, UNCHANGED <<sent, runs>>,
         Started' \in Nat, Started' >= Started, Handed' \in Nat, Handed' >= Handed
  PROVE  /\ RunsWereHanded' /\ NoActionRunsTwice'
         /\ UNCHANGED <<last_seq, seen_nonces>> => GuardWasHanded'
PROOF
  <1>1. 1 .. Handed \subseteq 1 .. Handed' /\ 1 .. Started \subseteq 1 .. Started'
    BY Counts
  <1>2. RunsWereHanded'
    BY <1>1 DEF SystemInv, RunsWereHanded
  <1>3. NoActionRunsTwice'
    BY DEF SystemInv, NoActionRunsTwice
  <1>4. UNCHANGED <<last_seq, seen_nonces>> => GuardWasHanded'
    BY <1>1 DEF SystemInv, GuardWasHanded
  <1> QED BY <1>2, <1>3, <1>4

(* With no frame in hand, everything about the host stays. *)
LEMMA HostStays ==
  ASSUME SystemInv, UNCHANGED <<sent, runs>>, conn' \in {"idle", "open"},
         Consumed' \in Nat, Consumed' >= Consumed, conn \in {"idle", "open"} \/ Consumed' > Consumed
  PROVE  /\ Started' = Consumed' /\ Handed' = Consumed'
         /\ RunIsHead' /\ JobIsHead' /\ RunsWereHanded' /\ SnapshotWhenPersistent'
         /\ NoActionRunsTwice'
         /\ UNCHANGED <<last_seq, seen_nonces>> => GuardWasHanded'
PROOF
  <1>1. Started' = Consumed' /\ Handed' = Consumed'
    <2>1. conn' # "running" /\ conn' \notin {"snapshot", "sandbox", "running"}
      OBVIOUS
    <2>2. Started' = Consumed' + 0
      BY <2>1 DEF Started
    <2>3. Handed' = Consumed' + 0
      BY <2>1 DEF Handed
    <2>4. \A n \in Nat : n + 0 = n
      OBVIOUS
    <2> QED BY <2>2, <2>3, <2>4, Zenon
  <1>2. Started' >= Started /\ Handed' >= Handed
    BY <1>1, Counts
  <1>3. /\ RunsWereHanded' /\ NoActionRunsTwice'
        /\ UNCHANGED <<last_seq, seen_nonces>> => GuardWasHanded'
    BY <1>1, <1>2, HistoryStays
  <1>4. RunIsHead' /\ JobIsHead' /\ SnapshotWhenPersistent'
    BY DEF SystemInv, RunIsHead, JobIsHead, SnapshotWhenPersistent, Execd!Busy
  <1> QED BY <1>1, <1>3, <1>4

(* The replay guard notes the frame it is handed. *)
LEMMA GuardNotes ==
  ASSUME SystemInv, wire # <<>>, Notes(Head(wire)), UNCHANGED sent, Handed' = Consumed + 1
  PROVE  GuardWasHanded' /\ last_seq' \in [1 .. MaxKey -> Int]
PROOF
  <1> DEFINE f == Head(wire)
  <1>1. /\ f \in Frame /\ f = sent[Consumed + 1]
        /\ Handed \in Nat /\ Handed <= Consumed + 1 /\ Consumed \in Nat
    BY HeadIsNext, Counts
  <1>2. 1 .. Handed \subseteq 1 .. Handed' /\ Consumed + 1 \in 1 .. Handed'
    BY <1>1
  <1>3. f.session \in 1 .. MaxKey /\ f.seq \in Int
    BY <1>1 DEF Frame
  <1> HIDE DEF f
  <1>4. CASE UNCHANGED <<last_seq, seen_nonces>>
    BY <1>2, <1>4 DEF SystemInv, GuardWasHanded, HostTypeOK
  <1>5. CASE /\ last_seq' = [last_seq EXCEPT ![f.session] = f.seq]
             /\ seen_nonces' \subseteq seen_nonces \union {f.nonce}
    <2>1. last_seq \in [1 .. MaxKey -> Int]
      BY DEF SystemInv, HostTypeOK
    <2>2. last_seq' \in [1 .. MaxKey -> Int]
          /\ \A s \in 1 .. MaxKey : last_seq'[s] = IF s = f.session THEN f.seq ELSE last_seq[s]
      BY <1>3, <1>5, <2>1
    <2>3. ASSUME NEW s \in 1 .. MaxKey, last_seq'[s] # -1
          PROVE  \E i \in 1 .. Handed' : sent[i].session = s /\ sent[i].seq = last_seq'[s]
      <3>1. CASE s = f.session
        BY <1>1, <1>2, <2>2, <3>1
      <3>2. CASE s # f.session
        BY <1>2, <2>2, <2>3, <3>2 DEF SystemInv, GuardWasHanded
      <3> QED BY <3>1, <3>2
    <2>4. ASSUME NEW n \in seen_nonces' PROVE \E i \in 1 .. Handed' : sent[i].nonce = n
      BY <1>1, <1>2, <1>5 DEF SystemInv, GuardWasHanded
    <2> QED BY <2>2, <2>3, <2>4 DEF GuardWasHanded
  <1> QED BY <1>4, <1>5 DEF Notes, f

(* A frame refused as a replay was overtaken: the guard has met a later    *)
(* seq of its session, since neither its nonce nor its seq was sent twice. *)
LEMMA ReplayMeansOvertaken ==
  ASSUME SystemInv, wire # <<>>, conn = "open", ~Execd!Replay!Fresh(Head(wire))
  PROVE  Overtaken(Head(wire).nonce)
PROOF
  <1> DEFINE f == Head(wire)
             j == Consumed + 1
  <1>1. /\ f \in Frame /\ f = sent[j] /\ j \in DOMAIN sent
        /\ Handed = Consumed /\ Consumed \in Nat
        /\ \A i \in 1 .. Consumed : i \in DOMAIN sent /\ i < j /\ sent[i].nonce # f.nonce
    BY HeadIsNext, Counts
  <1> HIDE DEF f, j
  <1>2. f.nonce \notin seen_nonces
    BY <1>1 DEF SystemInv, GuardWasHanded
  <1>3. f.seq <= last_seq[f.session]
    BY <1>2 DEF Execd!Replay!Fresh, Execd!Replay!NonMonotonicSeq, Execd!Replay!DuplicateNonce, f
  <1>4. f.session \in 1 .. MaxKey /\ f.seq \in Nat
    BY <1>1 DEF Frame
  <1>5. last_seq[f.session] \in Int
    BY <1>4 DEF SystemInv, HostTypeOK
  <1>6. last_seq[f.session] # -1
    BY <1>3, <1>4, <1>5
  <1>7. PICK i \in 1 .. Consumed : sent[i].session = f.session /\ sent[i].seq = last_seq[f.session]
    BY <1>1, <1>4, <1>6 DEF SystemInv, GuardWasHanded
  <1>8. i \in DOMAIN sent /\ i < j /\ i # j
    BY <1>1
  <1>9. sent[i].seq # f.seq
    BY <1>1, <1>7, <1>8 DEF SystemInv, SeqInv, SeqSentOnce
  <1>10. sent[i].seq > f.seq
    BY <1>3, <1>4, <1>5, <1>7, <1>9
  <1> QED BY <1>1, <1>7, <1>8, <1>10 DEF Overtaken, f

(* One frame has left the wire. *)
LEMMA WireAdvances ==
  ASSUME SystemInv, wire # <<>>, wire' = Tail(wire), UNCHANGED sent
  PROVE  WireIsRest' /\ Consumed' = Consumed + 1
PROOF
  <1>1. /\ wire' \in Seq(Frame) /\ Len(wire') = Len(wire) - 1 /\ Len(wire) >= 1
        /\ \A k \in 1 .. Len(wire') : wire'[k] = wire[k + 1] /\ k + 1 \in 1 .. Len(wire)
    BY Counts
  <1>2. Consumed' = Consumed + 1
    BY <1>1, Counts DEF Consumed
  <1>3. Len(wire') <= Len(sent')
    BY <1>1, Counts DEF SystemInv, WireIsRest
  <1>4. ASSUME NEW k \in 1 .. Len(wire') PROVE wire'[k] = sent'[Consumed' + k]
    <2>1. wire[k + 1] = sent[Consumed + (k + 1)]
      BY <1>1 DEF SystemInv, WireIsRest
    <2>2. Consumed + (k + 1) = Consumed' + k
      BY <1>1, <1>2, Counts
    <2> QED BY <1>1, <2>1, <2>2
  <1> QED BY <1>1, <1>2, <1>3, <1>4 DEF WireIsRest

(* The answer to the frame at the head of the wire is true of its action,  *)
(* and the daemon gets it if it is still waiting for it.                   *)
LEMMA AnswerIsTrue ==
  ASSUME SystemInv, DaemonStays, UNCHANGED runs, wire # <<>>,
         NEW outcome \in Reply, Answer(outcome),
         outcome.outcome \in ExecdStage => Ran(Head(wire).nonce) = {},
         outcome.outcome = "Replay" => Overtaken(Head(wire).nonce),
         outcome.outcome = "Completed" =>
           \E k \in DOMAIN runs : /\ runs[k].frame = Head(wire)
                                  /\ outcome.snapshot = (runs[k].snapshot # Execd!NoSnapshot)
  PROVE  ReplyIsTrue' /\ reply' \in Reply
PROOF
  <1> DEFINE f == Head(wire)
  <1>1. wire' = Tail(wire) /\ reply' = IF Served(f) THEN outcome ELSE reply
    BY DEF Answer
  <1>2. Consumed' = Consumed + 1 /\ Consumed' \in Nat /\ Consumed' >= Consumed
    BY <1>1, WireAdvances, Counts DEF DaemonStays
  <1>3. CASE Served(f)
    <2>1. pc = "waiting" /\ current.frame = f /\ reply' = outcome
      BY <1>1, <1>3 DEF Served
    <2>2. f.nonce = current.action
      BY <2>1 DEF SystemInv, IInv, CurrentSound, SignedHere
    <2>3. f = sent[Consumed + 1]
      BY HeadIsNext
    <2>4. Consumed + 1 \in 1 .. Consumed'
      BY <1>2, Counts
    <2>5. PICK a : a = f.nonce
      OBVIOUS
    <2> HIDE DEF f
    <2>6. DoneWith(a)'
      BY <2>3, <2>4, <2>5 DEF DoneWith, DaemonStays
    <2>7. /\ Ran(a)' = Ran(a)
          /\ Overtaken(a)' = Overtaken(a)
      BY DEF Ran, Overtaken, DaemonStays
    <2>8. current.action' = a /\ current'.frame = f /\ pc' = "waiting"
      BY <2>1, <2>2, <2>5 DEF DaemonStays
    <2>9. /\ DoneWith(current.action)'
          /\ Ran(current.action)' = Ran(a)
          /\ Overtaken(a) => Overtaken(current.action)'
      BY <2>6, <2>7, <2>8 DEF DoneWith, Ran, Overtaken
    <2>10. ReplyIsTrue'
      BY <2>1, <2>5, <2>8, <2>9 DEF ReplyIsTrue, f
    <2> QED BY <2>1, <2>10
  <1>4. CASE ~Served(f)
    <2>1. UNCHANGED reply
      BY <1>1, <1>4
    <2>2. StartsAtMostOne
      BY DEF StartsAtMostOne
    <2>3. ReplyIsTrue'
      BY <1>2, <2>1, <2>2, ReplyStays
    <2> QED BY <2>1, <2>3 DEF SystemInv, IInv, TypeOK
  <1> QED BY <1>3, <1>4

(* accept: nothing but the connection and its key. *)
LEMMA AcceptInv == SystemInv /\ ExecdAccept => SystemInv'
PROOF
  <1> SUFFICES ASSUME SystemInv, ExecdAccept PROVE SystemInv'
    OBVIOUS
  <1>1. /\ DaemonStays /\ conn = "idle" /\ conn' = "open" /\ accepted' = published
        /\ UNCHANGED <<last_seq, seen_nonces, mode_ceiling, boot, points, runs, reply, wire>>
    BY DEF ExecdAccept, Execd!Accept, Execd!environment, Execd!replay, DaemonStays, daemon,
           session, history
  <1>2. Consumed' = Consumed /\ UNCHANGED sent
    BY <1>1 DEF Consumed, DaemonStays
  <1>3. HostTypeOK'
    BY <1>1 DEF SystemInv, IInv, TypeOK, HostTypeOK, Execd!Busy
  <1>4. WireIsRest'
    BY <1>1, <1>2 DEF SystemInv, WireIsRest
  <1>5. /\ RunIsHead' /\ JobIsHead' /\ RunsWereHanded' /\ SnapshotWhenPersistent'
        /\ NoActionRunsTwice' /\ GuardWasHanded'
    BY <1>1, <1>2, Counts, HostStays
  <1>6. IInv' /\ SeqInv'
    BY <1>1, DaemonInvStays DEF SystemInv, IInv, TypeOK
  <1>7. StartsAtMostOne
    BY <1>1 DEF StartsAtMostOne
  <1>8. AuditMatchesHost' /\ ReplayOnlyIfOvertaken' /\ ToldIsDone' /\ ReplyIsTrue'
    BY <1>1, <1>2, <1>7, Counts, StoryStays, ReplyStays
  <1> QED BY <1>3, <1>4, <1>5, <1>6, <1>8 DEF SystemInv

(* The executor dies: the wire goes with it, and with it the replay guard; *)
(* but a frame that was on the wire is gone for good.                      *)
LEMMA RestartInv == SystemInv /\ ExecdRestart => SystemInv'
PROOF
  <1> SUFFICES ASSUME SystemInv, ExecdRestart PROVE SystemInv'
    OBVIOUS
  <1>1. /\ DaemonStays /\ conn' = "idle" /\ accepted' = 0 /\ boot' = boot + 1
        /\ last_seq' = [s \in 1 .. MaxKey |-> -1] /\ seen_nonces' = {}
        /\ mode_ceiling' \in HostMode /\ wire' = <<>>
        /\ UNCHANGED <<points, runs>>
        /\ reply' = IF pc = "waiting" /\ reply = NoReply THEN Lost ELSE reply
    BY DEF ExecdRestart, Execd!Restart, Execd!environment, Execd!NoKey, Execd!Replay!NoSeq,
           DaemonStays, daemon, session, history
  <1>2. Consumed' = Len(sent) /\ Handed' = Len(sent) /\ Started' = Len(sent) /\ UNCHANGED sent
    <2>1. UNCHANGED sent /\ Len(wire') = 0 /\ Len(sent) \in Nat
      BY <1>1, Counts DEF DaemonStays
    <2> QED BY <1>1, <2>1 DEF Consumed, Handed, Started
  <1>3. HostTypeOK'
    BY <1>1, BoundAssumption DEF SystemInv, HostTypeOK, Execd!Busy
  <1>4. WireIsRest'
    BY <1>1, Counts DEF WireIsRest
  <1>5. /\ RunIsHead' /\ JobIsHead' /\ RunsWereHanded' /\ SnapshotWhenPersistent'
        /\ NoActionRunsTwice'
    <2>1. RunsWereHanded' /\ NoActionRunsTwice'
      BY <1>1, <1>2, Counts, HistoryStays
    <2>2. RunIsHead' /\ JobIsHead' /\ SnapshotWhenPersistent'
      BY <1>1 DEF SystemInv, RunIsHead, JobIsHead, SnapshotWhenPersistent, Execd!Busy
    <2> QED BY <2>1, <2>2
  <1>6. GuardWasHanded'
    BY <1>1 DEF GuardWasHanded
  <1>7. StartsAtMostOne /\ Consumed' \in Nat /\ Consumed' >= Consumed
    BY <1>1, <1>2, Counts DEF StartsAtMostOne
  <1>8. AuditMatchesHost' /\ ReplayOnlyIfOvertaken' /\ ToldIsDone'
    BY <1>1, <1>7, StoryStays
  <1>9. ReplyIsTrue' /\ reply' \in Reply
    <2>1. CASE pc = "waiting" /\ reply = NoReply
      <3>1. reply' = Lost /\ Lost \in Reply /\ Lost.outcome = "lost"
        BY <1>1, <2>1 DEF Lost, Reply
      <3>2. "lost" \notin ExecdStage
        BY StageAssumption
      <3>3. PICK k \in DOMAIN sent : sent[k] = current.frame
        BY <2>1 DEF SystemInv, IInv, CurrentSound
      <3>4. current.frame.nonce = current.action
        BY <2>1 DEF SystemInv, IInv, CurrentSound, SignedHere
      <3>5. DoneWith(current.action)'
        BY <1>1, <1>2, <3>3, <3>4, Counts DEF DoneWith, DaemonStays
      <3> QED BY <1>1, <2>1, <3>1, <3>2, <3>5 DEF ReplyIsTrue, DaemonStays
    <2>2. CASE ~(pc = "waiting" /\ reply = NoReply)
      <3>1. UNCHANGED reply
        BY <1>1, <2>2
      <3>2. ReplyIsTrue'
        BY <1>1, <1>7, <3>1, ReplyStays
      <3> QED BY <3>1, <3>2 DEF SystemInv, IInv, TypeOK
    <2> QED BY <2>1, <2>2
  <1>10. IInv' /\ SeqInv'
    BY <1>1, <1>9, DaemonInvStays
  <1> QED BY <1>3, <1>4, <1>5, <1>6, <1>8, <1>9, <1>10 DEF SystemInv

(* No frame of an action was met before the one at the head of the wire,   *)
(* so the action has not run.                                              *)
LEMMA HeadHasNotRun ==
  ASSUME SystemInv, wire # <<>>, conn # "running"
  PROVE  Ran(Head(wire).nonce) = {}
PROOF
  <1>1. ASSUME NEW k \in DOMAIN runs PROVE runs[k].frame.nonce # Head(wire).nonce
    <2>1. PICK i \in 1 .. Consumed : sent[i] = runs[k].frame
      BY Counts DEF SystemInv, RunsWereHanded
    <2> QED BY <2>1, HeadIsNext
  <1> QED BY <1>1 DEF Ran

(* execute returns: the run that the head of the wire asked for is over. *)
LEMMA FinishInv == SystemInv /\ ExecdFinish => SystemInv'
PROOF
  <1> SUFFICES ASSUME SystemInv, ExecdFinish PROVE SystemInv'
    OBVIOUS
  <1> DEFINE done == [outcome |-> "Completed",
                      snapshot |-> runs[Len(runs)].snapshot # Execd!NoSnapshot]
  <1>1. PICK answer \in {Lost, done} : Answer(answer)
    BY DEF ExecdFinish
  <1>2. /\ DaemonStays /\ conn = "running" /\ conn' = "idle"
        /\ UNCHANGED <<last_seq, seen_nonces, mode_ceiling, boot, points, accepted, runs>>
    BY DEF ExecdFinish, Execd!Finish, Execd!environment, Execd!replay, Execd!process,
           DaemonStays, daemon, session, history
  <1>3. wire # <<>> /\ runs # <<>> /\ runs[Len(runs)].frame = Head(wire)
    BY <1>2 DEF SystemInv, RunIsHead
  <1>4. WireIsRest' /\ Consumed' = Consumed + 1
    BY <1>1, <1>2, <1>3, WireAdvances DEF Answer, DaemonStays
  <1>6. HostTypeOK'
    BY <1>2 DEF SystemInv, HostTypeOK, Execd!Busy
  <1>7. /\ RunIsHead' /\ JobIsHead' /\ RunsWereHanded' /\ SnapshotWhenPersistent'
        /\ NoActionRunsTwice' /\ GuardWasHanded'
    BY <1>2, <1>4, Counts, HostStays DEF DaemonStays
  <1>8. ReplyIsTrue' /\ reply' \in Reply
    <2>1. Len(runs) \in DOMAIN runs
      <3>1. runs \in Seq(HostRun)
        BY DEF SystemInv, HostTypeOK
      <3> QED BY <1>3, <3>1
    <2>2. "Completed" \notin ExecdStage /\ "lost" \notin ExecdStage
      BY StageAssumption
    <2>3. "Replay" \in ExecdStage
      BY StageNames
    <2>4. CASE answer = Lost
      <3>1. Lost \in Reply /\ Lost.outcome = "lost"
        BY DEF Lost, Reply
      <3> QED BY <1>1, <1>2, <1>3, <2>2, <2>4, <3>1, AnswerIsTrue
    <2>5. CASE answer = done
      <3>1. done \in Reply
        <4>1. (runs[Len(runs)].snapshot # Execd!NoSnapshot) \in BOOLEAN
          OBVIOUS
        <4>2. \A x \in BOOLEAN : [outcome |-> "Completed", snapshot |-> x]
                                   \in [outcome : {"Completed"}, snapshot : BOOLEAN]
          OBVIOUS
        <4> QED BY <4>1, <4>2 DEF Reply
      <3>2. /\ done.outcome = "Completed"
            /\ done.snapshot = (runs[Len(runs)].snapshot # Execd!NoSnapshot)
        OBVIOUS
      <3> HIDE DEF done
      <3> QED BY <1>1, <1>2, <1>3, <2>1, <2>2, <2>3, <2>5, <3>1, <3>2, AnswerIsTrue
    <2> QED BY <2>4, <2>5
  <1>9. IInv' /\ SeqInv'
    BY <1>2, <1>8, DaemonInvStays
  <1>10. AuditMatchesHost' /\ ReplayOnlyIfOvertaken' /\ ToldIsDone'
    <2>1. StartsAtMostOne /\ Consumed' \in Nat /\ Consumed' >= Consumed
      BY <1>2, <1>4, Counts DEF StartsAtMostOne
    <2> QED BY <1>2, <2>1, StoryStays
  <1> QED BY <1>4, <1>6, <1>7, <1>8, <1>9, <1>10 DEF SystemInv

(* What a step of dispatch does with the frame at the head of the wire.    *)
Serves(f) ==
  /\ wire # <<>> /\ DaemonStays /\ Around
  /\ conn \in {"open", "snapshot", "sandbox"} /\ Notes(f)
  /\ \/ Refuses(f) /\ Answer([outcome |-> response', snapshot |-> FALSE])
     \/ Holds(f) /\ UNCHANGED <<wire, reply>>
     \/ RunsNow(f) /\ UNCHANGED <<wire, reply>>

(* Each of the three steps of dispatch serves the head of the wire. *)
LEMMA ServesHead ==
  ASSUME SystemInv, ExecdHandle \/ ExecdTakeSnapshot \/ ExecdExecute
  PROVE  Serves(Head(wire))
PROOF
  <1> DEFINE f == Head(wire)
  <1>0. points \in Seq(HostPoint) /\ now \in 0 .. MaxTime /\ bundle_dir \in [Exec -> Bundle]
    BY DEF SystemInv, HostTypeOK, IInv, TypeOK
  <1>1. AnswerIfRefused /\ UNCHANGED daemon
    BY DEF ExecdHandle, ExecdTakeSnapshot, ExecdExecute
  <1>2. /\ wire # <<>> /\ conn \in {"open", "snapshot", "sandbox"} /\ Around /\ Notes(f)
        /\ Refuses(f) \/ Holds(f) \/ RunsNow(f)
    <2>1. CASE ExecdHandle
      <3>1. wire # <<>> /\ f \in Frame /\ Execd!Handle(f)
        BY <2>1, HeadIsNext DEF ExecdHandle
      <3>2. bundle_dir[f.exec] \in Bundle
        BY <1>0, <3>1 DEF Frame
      <3> HIDE DEF f
      <3> QED BY <1>0, <3>1, <3>2, HandleEffect DEF f
    <2>2. CASE ExecdTakeSnapshot
      <3>1. Execd!TakeSnapshot
        BY <2>2 DEF ExecdTakeSnapshot
      <3>2. wire # <<>> /\ job.frame = f
        BY <3>1, SnapshotEffect DEF SystemInv, JobIsHead, Execd!Busy
      <3> HIDE DEF f
      <3> QED BY <3>1, <3>2, SnapshotEffect DEF Notes
    <2>3. CASE ExecdExecute
      <3>1. Execd!Execute
        BY <2>3 DEF ExecdExecute
      <3>2. wire # <<>> /\ job.frame = f
        BY <3>1, ExecuteEffect DEF SystemInv, JobIsHead, Execd!Busy
      <3> HIDE DEF f
      <3> QED BY <3>1, <3>2, ExecuteEffect DEF Notes
    <2> QED BY <2>1, <2>2, <2>3
  <1>3. DaemonStays
    BY <1>1, <1>2 DEF Around, DaemonStays, daemon, session, history
  <1> HIDE DEF f
  <1>4. ASSUME Refuses(f) PROVE Serves(f)
    <2>1. conn' = "idle"
      BY <1>4 DEF Refuses
    <2>2. Answer([outcome |-> response', snapshot |-> FALSE])
      BY <1>1, <2>1, Zenon DEF AnswerIfRefused
    <2> QED BY <1>2, <1>3, <1>4, <2>2, Zenon DEF Serves
  <1>5. ASSUME Holds(f) PROVE Serves(f)
    <2>1. conn' # "idle"
      BY <1>5 DEF Holds
    <2>2. UNCHANGED <<wire, reply>>
      BY <1>1, <2>1, Zenon DEF AnswerIfRefused
    <2> QED BY <1>2, <1>3, <1>5, <2>2, Zenon DEF Serves
  <1>6. ASSUME RunsNow(f) PROVE Serves(f)
    <2>1. conn' # "idle"
      BY <1>6 DEF RunsNow
    <2>2. UNCHANGED <<wire, reply>>
      BY <1>1, <2>1, Zenon DEF AnswerIfRefused
    <2> QED BY <1>2, <1>3, <1>6, <2>2, Zenon DEF Serves
  <1> QED BY <1>2, <1>4, <1>5, <1>6 DEF f

(* A gate refuses the frame at the head of the wire. *)
LEMMA RefuseInv ==
  ASSUME SystemInv, Serves(Head(wire)), Refuses(Head(wire)),
         Answer([outcome |-> response', snapshot |-> FALSE])
  PROVE  SystemInv'
PROOF
  <1> DEFINE f == Head(wire)
  <1>1. wire # <<>>
    BY DEF Serves
  <1>2. /\ DaemonStays /\ conn' = "idle" /\ points' \in Seq(HostPoint) /\ Notes(f)
        /\ conn \in {"open", "snapshot", "sandbox"}
        /\ UNCHANGED <<mode_ceiling, boot, accepted, runs>>
    BY DEF Serves, Around, Refuses
  <1>3. WireIsRest' /\ Consumed' = Consumed + 1
    BY <1>1, <1>2, WireAdvances DEF Answer, DaemonStays
  <1>4. /\ Started' = Consumed' /\ Handed' = Consumed'
        /\ RunIsHead' /\ JobIsHead' /\ RunsWereHanded' /\ SnapshotWhenPersistent'
        /\ NoActionRunsTwice'
    BY <1>2, <1>3, Counts, HostStays DEF DaemonStays
  <1>5. GuardWasHanded' /\ last_seq' \in [1 .. MaxKey -> Int]
    BY <1>1, <1>2, <1>3, <1>4, GuardNotes DEF DaemonStays
  <1>6. HostTypeOK'
    BY <1>2, <1>5 DEF SystemInv, HostTypeOK, Execd!Busy
  <1>8. ReplyIsTrue' /\ reply' \in Reply
    <2>1. PICK o : o = [outcome |-> response', snapshot |-> FALSE]
      OBVIOUS
    <2>2. o \in Reply /\ o.outcome = response' /\ response' \in ExecdStage
      BY <2>1, SharedStages DEF Refuses, Reply
    <2>3. Ran(f.nonce) = {}
      BY <1>1, <1>2, HeadHasNotRun
    <2>4. o.outcome = "Replay" => Overtaken(f.nonce)
      BY <1>1, <2>2, ReplayMeansOvertaken DEF Refuses
    <2>5. o.outcome # "Completed"
      BY <2>2, StageAssumption
    <2>6. Answer(o)
      BY <2>1
    <2> QED BY <1>1, <1>2, <2>2, <2>3, <2>4, <2>5, <2>6, AnswerIsTrue
  <1>9. IInv' /\ SeqInv'
    BY <1>2, <1>8, DaemonInvStays
  <1>10. AuditMatchesHost' /\ ReplayOnlyIfOvertaken' /\ ToldIsDone'
    <2>1. StartsAtMostOne /\ Consumed' \in Nat /\ Consumed' >= Consumed
      BY <1>2, <1>3, Counts DEF StartsAtMostOne
    <2> QED BY <1>2, <2>1, StoryStays
  <1> QED BY <1>3, <1>4, <1>5, <1>6, <1>8, <1>9, <1>10 DEF SystemInv

(* The frame at the head of the wire has passed the gates so far. *)
LEMMA HoldInv ==
  ASSUME SystemInv, Serves(Head(wire)), Holds(Head(wire)), UNCHANGED <<wire, reply>>
  PROVE  SystemInv'
PROOF
  <1> DEFINE f == Head(wire)
  <1>1. /\ wire # <<>> /\ DaemonStays /\ points' \in Seq(HostPoint) /\ Notes(f)
        /\ conn \in {"open", "snapshot", "sandbox"} /\ conn' \in {"snapshot", "sandbox"}
        /\ job' \in HostJob /\ job'.frame = f
        /\ conn' = "sandbox" /\ job'.bundle.persistent => job'.snapshot # Execd!NoSnapshot
        /\ UNCHANGED <<mode_ceiling, boot, accepted, runs, wire, reply>>
    BY DEF Serves, Around, Holds
  <1>2. Consumed' = Consumed /\ UNCHANGED sent
    BY <1>1 DEF Consumed, DaemonStays
  <1>3. Started' = Consumed /\ Handed' = Consumed + 1
    BY <1>1, <1>2, Counts DEF Started, Handed
  <1>4. Started' \in Nat /\ Started' >= Started /\ Handed' \in Nat /\ Handed' >= Handed
    BY <1>1, <1>3, Counts
  <1>5. RunsWereHanded' /\ NoActionRunsTwice'
    BY <1>1, <1>2, <1>4, HistoryStays
  <1>6. GuardWasHanded' /\ last_seq' \in [1 .. MaxKey -> Int]
    BY <1>1, <1>2, <1>3, GuardNotes
  <1>7. HostTypeOK'
    BY <1>1, <1>6 DEF SystemInv, HostTypeOK
  <1>8. WireIsRest' /\ RunIsHead' /\ JobIsHead'
    BY <1>1, <1>2 DEF SystemInv, WireIsRest, RunIsHead, JobIsHead
  <1>9. SnapshotWhenPersistent'
    BY <1>1 DEF SystemInv, SnapshotWhenPersistent
  <1>10. StartsAtMostOne
    BY <1>1 DEF StartsAtMostOne
  <1>11. AuditMatchesHost' /\ ReplayOnlyIfOvertaken' /\ ToldIsDone' /\ ReplyIsTrue'
    BY <1>1, <1>2, <1>10, Counts, StoryStays, ReplyStays
  <1>12. IInv' /\ SeqInv'
    BY <1>1, DaemonInvStays DEF SystemInv, IInv, TypeOK
  <1> QED BY <1>5, <1>6, <1>7, <1>8, <1>9, <1>11, <1>12 DEF SystemInv

(* Every gate has passed: the frame at the head of the wire is run. *)
LEMMA RunInv ==
  ASSUME SystemInv, Serves(Head(wire)), RunsNow(Head(wire)), UNCHANGED <<wire, reply>>
  PROVE  SystemInv'
PROOF
  <1> DEFINE f == Head(wire)
  <1>1. wire # <<>>
    BY DEF Serves
  <1>2. /\ DaemonStays /\ conn' = "running" /\ points' \in Seq(HostPoint) /\ Notes(f)
        /\ conn \in {"open", "snapshot", "sandbox"}
        /\ UNCHANGED <<mode_ceiling, boot, accepted, wire, reply>>
    BY DEF Serves, Around, RunsNow
  <1>4. PICK r \in HostRun : /\ runs' = Append(runs, r) /\ r.frame = f
                             /\ r.bundle.persistent => r.snapshot # Execd!NoSnapshot
    BY DEF RunsNow
  <1>5. /\ runs' \in Seq(HostRun) /\ Len(runs) \in Nat /\ Len(runs') = Len(runs) + 1
        /\ DOMAIN runs' = 1 .. Len(runs) + 1
        /\ runs'[Len(runs) + 1] = r
        /\ \A k \in DOMAIN runs : k \in DOMAIN runs' /\ k # Len(runs) + 1 /\ runs'[k] = runs[k]
        /\ \A k \in DOMAIN runs' : k = Len(runs) + 1 \/ k \in DOMAIN runs
    BY <1>4, RunsExtend, SMTT(40) DEF SystemInv, HostTypeOK
  <1>6. /\ Consumed' = Consumed /\ Handed' = Consumed + 1 /\ Started' = Consumed + 1
        /\ Started = Consumed /\ UNCHANGED sent
    BY <1>2, Counts, Zenon DEF Consumed, Handed, Started, DaemonStays
  <1>7. GuardWasHanded' /\ last_seq' \in [1 .. MaxKey -> Int]
    BY <1>1, <1>2, <1>6, GuardNotes
  <1>8. HostTypeOK'
    BY <1>2, <1>5, <1>7 DEF SystemInv, HostTypeOK, Execd!Busy
  <1>9. WireIsRest' /\ JobIsHead'
    BY <1>2, <1>6 DEF SystemInv, WireIsRest, JobIsHead, Execd!Busy
  <1>10. RunIsHead'
    <2>1. Len(runs') \in DOMAIN runs' /\ runs' # <<>>
      BY <1>5
    <2> QED BY <1>1, <1>2, <1>4, <1>5, <2>1 DEF RunIsHead
  <1>11. RunsWereHanded'
    <2>1. 1 .. Started \subseteq 1 .. Started' /\ Consumed + 1 \in 1 .. Started'
      BY <1>6, Counts
    <2>2. r.frame = sent[Consumed + 1]
      BY <1>1, <1>4, HeadIsNext
    <2>3. ASSUME NEW k \in DOMAIN runs' PROVE \E i \in 1 .. Started' : sent[i] = runs'[k].frame
      BY <1>5, <2>1, <2>2 DEF SystemInv, RunsWereHanded
    <2> QED BY <1>6, <2>3 DEF RunsWereHanded
  <1>12. SnapshotWhenPersistent'
    BY <1>2, <1>4, <1>5 DEF SystemInv, SnapshotWhenPersistent
  <1>13. NoActionRunsTwice'
    <2>1. \A k \in DOMAIN runs : runs[k].frame.nonce # r.frame.nonce
      BY <1>1, <1>2, <1>4, HeadHasNotRun DEF Ran
    <2> QED BY <1>5, <2>1 DEF SystemInv, NoActionRunsTwice
  <1>14. StartsAtMostOne
    BY <1>1, <1>2, <1>4 DEF StartsAtMostOne, Starts
  <1>15. AuditMatchesHost' /\ ReplayOnlyIfOvertaken' /\ ToldIsDone' /\ ReplyIsTrue'
    BY <1>2, <1>6, <1>14, Counts, StoryStays, ReplyStays
  <1>16. IInv' /\ SeqInv'
    BY <1>2, DaemonInvStays DEF SystemInv, IInv, TypeOK
  <1> QED BY <1>7, <1>8, <1>9, <1>10, <1>11, <1>12, <1>13, <1>15, <1>16 DEF SystemInv

ExecutorStep ==
  \/ ExecdAccept \/ ExecdHandle \/ ExecdTakeSnapshot \/ ExecdExecute \/ ExecdFinish
  \/ ExecdRestart

(* Every step of the executor keeps the invariant. *)
LEMMA ExecutorInv == SystemInv /\ ExecutorStep => SystemInv'
PROOF
  <1>1. ASSUME SystemInv, ExecdHandle \/ ExecdTakeSnapshot \/ ExecdExecute PROVE SystemInv'
    <2>1. Serves(Head(wire))
      BY <1>1, ServesHead
    <2>2. \/ Refuses(Head(wire)) /\ Answer([outcome |-> response', snapshot |-> FALSE])
          \/ Holds(Head(wire)) /\ UNCHANGED <<wire, reply>>
          \/ RunsNow(Head(wire)) /\ UNCHANGED <<wire, reply>>
      BY <2>1 DEF Serves
    <2> QED BY <1>1, <2>1, <2>2, RefuseInv, HoldInv, RunInv
  <1> QED BY <1>1, AcceptInv, FinishInv, RestartInv DEF ExecutorStep

-----------------------------------------------------------------------------
(* A step of the daemon: the executor stays, but for its socket.           *)

(* Sending puts the frame at the end of the wire; other steps do not touch *)
(* it.  The executor is handed nothing.                                    *)
LEMMA DaemonHost ==
  ASSUME SystemInv, DaemonStep
  PROVE  /\ HostTypeOK' /\ WireIsRest' /\ RunIsHead' /\ RunsWereHanded' /\ GuardWasHanded'
         /\ JobIsHead' /\ SnapshotWhenPersistent' /\ NoActionRunsTwice'
         /\ Consumed' = Consumed
         /\ \A i \in DOMAIN sent : i \in DOMAIN sent' /\ sent'[i] = sent[i]
         /\ \A k \in DOMAIN wire : k \in DOMAIN wire' /\ wire'[k] = wire[k]
         /\ \A k \in DOMAIN wire' : k \in DOMAIN wire \/ (Send /\ wire'[k] = current.frame)
PROOF
  <1>0. /\ UNCHANGED <<last_seq, seen_nonces, mode_ceiling, conn, job, points, boot, accepted,
                       runs>>
        /\ wire' = wire \o SubSeq(sent', Len(sent) + 1, Len(sent'))
    BY DEF DaemonStep, executor
  <1>1. \/ sent' = sent /\ wire' = wire
        \/ Send /\ sent' = Append(sent, current.frame) /\ wire' = Append(wire, current.frame)
           /\ current.frame \in Frame
    <2>1. CASE sent' = sent
      <3>1. SubSeq(sent, Len(sent) + 1, Len(sent)) = <<>>
        BY Counts
      <3>2. wire' = wire
        BY <1>0, <2>1, <3>1, Counts
      <3> QED BY <2>1, <3>2
    <2>2. CASE Send
      <3>1. sent' = Append(sent, current.frame) /\ current.frame \in Frame
        BY <2>2 DEF Send, SystemInv, IInv, TypeOK
      <3>2. SubSeq(sent', Len(sent) + 1, Len(sent')) = <<current.frame>>
        <4>1. ASSUME NEW s \in Seq(Frame), NEW f \in Frame
              PROVE  SubSeq(Append(s, f), Len(s) + 1, Len(Append(s, f))) = <<f>>
          <5>1. PICK x : x = SubSeq(Append(s, f), Len(s) + 1, Len(s) + 1)
            OBVIOUS
          <5>2. Append(s, f)[Len(s) + 1] = f /\ Len(s) + 1 \in Nat /\ Len(Append(s, f)) = Len(s) + 1
            OBVIOUS
          <5>3. x \in Seq(Frame) /\ Len(x) = 1 /\ x[1] = f
            BY <5>1, <5>2, SubSeqProperties
          <5>4. <<f>> \in Seq(Frame) /\ Len(<<f>>) = 1 /\ <<f>>[1] = f
            OBVIOUS
          <5>5. x = <<f>>
            BY <5>3, <5>4, SeqEqual
          <5> QED BY <5>1, <5>2, <5>5
        <4> QED BY <3>1, <4>1, Counts
      <3>3. wire' = Append(wire, current.frame)
        BY <1>0, <3>1, <3>2, Counts
      <3> QED BY <2>2, <3>1, <3>3
    <2>3. sent' = sent \/ Send
      <3>1. StartsTask \/ EndsTask \/ Dispatches \/ Stashes \/ Send \/ Crash \/ Start
        BY DaemonShape DEF DaemonStep, SystemInv
      <3> QED BY <3>1 DEF StartsTask, EndsTask, Dispatches, Stashes, Quiet, Crash, history, Start
    <2> QED BY <2>1, <2>2, <2>3
  <1>2. /\ Len(sent') \in Nat /\ Len(wire') \in Nat
        /\ Len(sent') - Len(wire') = Len(sent) - Len(wire) /\ Len(wire') <= Len(sent')
        /\ wire' \in Seq(Frame)
        /\ \A i \in DOMAIN sent : i \in DOMAIN sent' /\ sent'[i] = sent[i]
        /\ \A k \in DOMAIN wire : k \in DOMAIN wire' /\ wire'[k] = wire[k]
        /\ \A k \in DOMAIN wire' : k \in DOMAIN wire \/ (Send /\ wire'[k] = current.frame)
        /\ \A k \in 1 .. Len(wire') : k \in 1 .. Len(wire) \/
             (k = Len(wire) + 1 /\ wire'[k] = sent'[Len(sent) + 1])
    <2>1. CASE sent' = sent /\ wire' = wire
      BY <2>1, Counts DEF SystemInv, WireIsRest
    <2>2. CASE Send /\ sent' = Append(sent, current.frame) /\ wire' = Append(wire, current.frame)
               /\ current.frame \in Frame
      <3>1. PICK f \in Frame : f = current.frame
        BY <2>2
      <3>2. sent' = Append(sent, f) /\ wire' = Append(wire, f) /\ Send
        BY <2>2, <3>1
      <3>3. Len(wire) <= Len(sent)
        BY DEF SystemInv, WireIsRest
      <3> QED BY <3>1, <3>2, <3>3, Counts
    <2> QED BY <1>1, <2>1, <2>2
  <1>3. Consumed' = Consumed /\ Handed' = Handed /\ Started' = Started
    BY <1>0, <1>2 DEF Consumed, Handed, Started
  <1>4. WireIsRest'
    <2>1. ASSUME NEW k \in 1 .. Len(wire') PROVE wire'[k] = sent'[Consumed' + k]
      <3>1. CASE k \in 1 .. Len(wire)
        <4>1. wire[k] = sent[Consumed + k] /\ Consumed + k \in DOMAIN sent /\ k \in DOMAIN wire
          BY <3>1, Counts DEF SystemInv, WireIsRest, Consumed
        <4> QED BY <1>2, <1>3, <4>1
      <3>2. CASE k = Len(wire) + 1 /\ wire'[k] = sent'[Len(sent) + 1]
        <4>1. Consumed + k = Len(sent) + 1
          BY <3>2, Counts DEF Consumed
        <4> QED BY <1>3, <3>2, <4>1
      <3> QED BY <1>2, <3>1, <3>2
    <2> QED BY <1>2, <2>1 DEF WireIsRest
  <1>5. HostTypeOK' /\ SnapshotWhenPersistent' /\ NoActionRunsTwice'
    BY <1>0 DEF SystemInv, HostTypeOK, SnapshotWhenPersistent, NoActionRunsTwice, Execd!Busy
  <1>6. RunIsHead' /\ JobIsHead'
    <2>1. wire # <<>> => wire' # <<>> /\ Head(wire') = Head(wire)
      <3> SUFFICES ASSUME wire # <<>> PROVE wire' # <<>> /\ Head(wire') = Head(wire)
        OBVIOUS
      <3>1. 1 \in DOMAIN wire /\ Head(wire) = wire[1]
        BY Counts
      <3>2. 1 \in DOMAIN wire' /\ wire'[1] = wire[1]
        BY <1>2, <3>1
      <3>3. wire' # <<>> /\ Head(wire') = wire'[1]
        BY <1>2, <3>2
      <3> QED BY <3>1, <3>2, <3>3
    <2> QED BY <1>0, <2>1 DEF SystemInv, RunIsHead, JobIsHead, Execd!Busy
  <1>7. /\ \A i \in 1 .. Handed : sent'[i] = sent[i]
        /\ \A i \in 1 .. Started : sent'[i] = sent[i]
    <2>1. 1 .. Handed \subseteq DOMAIN sent /\ 1 .. Started \subseteq DOMAIN sent
      BY Counts
    <2> QED BY <1>2, <2>1
  <1>8. RunsWereHanded'
    BY <1>0, <1>3, <1>7 DEF SystemInv, RunsWereHanded
  <1>9. GuardWasHanded'
    <2>1. ASSUME NEW s \in 1 .. MaxKey, last_seq[s] # -1
          PROVE  \E i \in 1 .. Handed : sent'[i].session = s /\ sent'[i].seq = last_seq[s]
      BY <1>7, <2>1 DEF SystemInv, GuardWasHanded
    <2>2. ASSUME NEW n \in seen_nonces PROVE \E i \in 1 .. Handed : sent'[i].nonce = n
      BY <1>7 DEF SystemInv, GuardWasHanded
    <2> QED BY <1>0, <1>3, <2>1, <2>2 DEF GuardWasHanded
  <1> QED BY <1>2, <1>3, <1>4, <1>5, <1>6, <1>8, <1>9

(* The events that speak of what the executor did, and the entries of the  *)
(* log that do not.                                                        *)
HostEvent == {"ExecCompleted", "SnapshotTaken"}
QuietEntry == {e \in AuditEntry : e.event \notin HostEvent}
SaysNothingOfHost ==
  /\ LogKept
  /\ \A i \in DOMAIN audit' : i \in DOMAIN audit \/ audit'[i].event \notin HostEvent
  /\ told \subseteq told'
  /\ \A t \in told' \ told : t.outcome \in GateRefusal \union {"daemon"}

(* Appends of entries that say nothing of the host. *)
LEMMA AppendQuiet ==
  ASSUME IInv, NEW entries \in Seq(QuietEntry), NEW n \in 0 .. Len(entries),
         AppendEntries(entries, n)
  PROVE  /\ LogKept
         /\ \A i \in DOMAIN audit' : i \in DOMAIN audit \/ audit'[i].event \notin HostEvent
PROOF
  <1>1. entries \in Seq(AuditEntry) /\ \A k \in 1 .. Len(entries) : entries[k].event \notin HostEvent
    BY DEF QuietEntry
  <1>2. /\ audit' \in Seq(AuditEntry) /\ LogKept /\ Len(audit') = Len(audit) + n
        /\ \A k \in 1 .. n : audit'[Len(audit) + k] = entries[k]
    BY <1>1, AppendExtends DEF IInv, TypeOK
  <1>3. audit \in Seq(AuditEntry)
    BY DEF IInv, TypeOK
  <1>4. ASSUME NEW i \in DOMAIN audit', i \notin DOMAIN audit
        PROVE  audit'[i].event \notin HostEvent
    <2>1. i \in Len(audit) + 1 .. Len(audit) + n /\ Len(audit) \in Nat
      BY <1>2, <1>3, <1>4
    <2>2. PICK k \in 1 .. n : i = Len(audit) + k
      <3>1. i - Len(audit) \in 1 .. n /\ i = Len(audit) + (i - Len(audit))
        BY <2>1
      <3> QED BY <3>1
    <2> QED BY <1>1, <1>2, <2>2
  <1> QED BY <1>2, <1>4

(* One entry, two entries, or none. *)
LEMMA QuietEntries ==
  ASSUME IInv, NEW a \in 0 .. MaxTask
  PROVE  /\ \A e \in Event \ HostEvent : Entry(e, a) \in QuietEntry /\ Entry(e, NoAction) \in QuietEntry
         /\ \A x, y, z \in QuietEntry :
              /\ <<>> \in Seq(QuietEntry) /\ <<x>> \in Seq(QuietEntry)
              /\ <<x, y>> \in Seq(QuietEntry)
              /\ <<x, y>> \o <<z>> \in Seq(QuietEntry) /\ <<x, y>> \o <<>> \in Seq(QuietEntry)
              /\ Len(<<x>>) = 1 /\ Len(<<x, y>>) = 2
PROOF
  <1>1. \A e \in Event : Entry(e, a) \in AuditEntry /\ Entry(e, NoAction) \in AuditEntry
    BY EntryOK, BoundAssumption DEF IInv, NoAction
  <1>2. \A e \in Event : Entry(e, a).event = e /\ Entry(e, NoAction).event = e
    BY DEF Entry
  <1>3. \A e \in Event \ HostEvent :
          Entry(e, a) \in QuietEntry /\ Entry(e, NoAction) \in QuietEntry
    BY <1>1, <1>2 DEF QuietEntry
  <1>4. ASSUME NEW x \in QuietEntry, NEW y \in QuietEntry, NEW z \in QuietEntry
        PROVE  /\ <<>> \in Seq(QuietEntry) /\ <<x>> \in Seq(QuietEntry)
               /\ <<x, y>> \in Seq(QuietEntry)
               /\ <<x, y>> \o <<z>> \in Seq(QuietEntry) /\ <<x, y>> \o <<>> \in Seq(QuietEntry)
               /\ Len(<<x>>) = 1 /\ Len(<<x, y>>) = 2
    OBVIOUS
  <1> QED BY <1>3, <1>4

(* A handler that appends quiet entries and tells the operator of a gate,  *)
(* an error or nothing.                                                    *)
LEMMA QuietHandler ==
  ASSUME IInv, NEW entries \in Seq(QuietEntry), NEW n \in 0 .. Len(entries),
         AppendEntries(entries, n),
         \/ UNCHANGED told
         \/ \E a, o : Tell(a, o) /\ o \in GateRefusal \union {"daemon"}
  PROVE  SaysNothingOfHost
  BY AppendQuiet DEF SaysNothingOfHost, Tell

(* A handler that appends nothing. *)
LEMMA SilentHandler ==
  ASSUME UNCHANGED audit,
         \/ UNCHANGED told
         \/ \E a, o : Tell(a, o) /\ o \in GateRefusal \union {"daemon"}
  PROVE  SaysNothingOfHost
  BY DEF SaysNothingOfHost, LogKept, Tell

(* What invoke logs is its decision. *)
LEMMA InvokeSays ==
  ASSUME IInv, NEW exec \in Exec, NEW args \in Args, Invoke(exec, args)
  PROVE  SaysNothingOfHost
PROOF
  <1> DEFINE b == bundle_dir[exec]
             decision == evaluate("default", mode, exec, b)
             logged == IF decision = "NotAllowed" THEN "Deny" ELSE decision
             rest == IF decision = "Allow" THEN <<Entry("ExecRequested", tasks)>> ELSE <<>>
             entries == <<Entry("LlmResponse", NoAction), Entry(logged, tasks)>> \o rest
  <1>1. decision \in {"Allow", "RequireApproval", "Deny", "NotAllowed"}
    BY EvaluateDecides DEF PolicyDecision
  <1>2. PICK n \in 0 .. Len(entries) : AppendEntries(entries, n)
    BY DEF Invoke
  <1>3. UNCHANGED told \/ \E a, o : Tell(a, o) /\ o \in GateRefusal \union {"daemon"}
    <2>1. UNCHANGED told \/ Tell(tasks, "daemon") \/ Tell(tasks, "approval") \/ Tell(tasks, "policy")
      BY DEF Invoke
    <2> QED BY <2>1 DEF GateRefusal
  <1> HIDE DEF decision
  <1>4. tasks \in 0 .. MaxTask /\ logged \in Event \ HostEvent
        /\ "LlmResponse" \in Event \ HostEvent /\ "ExecRequested" \in Event \ HostEvent
    BY <1>1 DEF IInv, TypeOK, Event, HostEvent
  <1>5. /\ Entry("LlmResponse", NoAction) \in QuietEntry
        /\ Entry(logged, tasks) \in QuietEntry /\ Entry("ExecRequested", tasks) \in QuietEntry
    <2> HIDE DEF logged
    <2> QED BY <1>4, QuietEntries
  <1>6. rest = <<Entry("ExecRequested", tasks)>> \/ rest = <<>>
    OBVIOUS
  <1>7. entries \in Seq(QuietEntry)
    <2> HIDE DEF logged, rest
    <2> QED BY <1>4, <1>5, <1>6, QuietEntries
  <1> HIDE DEF entries
  <1> QED BY <1>2, <1>3, <1>7, QuietHandler

(* Only the executor's answer makes the daemon speak of the host. *)
LEMMA DaemonSays ==
  ASSUME IInv, Daemon
  PROVE  Receive \/ SaysNothingOfHost
PROOF
  <1> DEFINE said == UNCHANGED told \/ \E a, o : Tell(a, o) /\ o \in GateRefusal \union {"daemon"}
  <1>0. /\ 0 \in 0 .. MaxTask /\ tasks \in 0 .. MaxTask
        /\ {"LlmRequest", "LlmResponse", "Note", "SessionEnded", "Deny", "ApprovalGranted",
            "ExecRequested"} \subseteq Event \ HostEvent
    BY BoundAssumption DEF IInv, TypeOK, Event, HostEvent
  <1>1. CASE RunTask
    <2>1. PICK n \in 0 .. 1 : AppendEntries(<<Entry("LlmRequest", NoAction)>>, n)
      BY <1>1 DEF RunTask
    <2>2. Entry("LlmRequest", NoAction) \in QuietEntry
      BY <1>0, QuietEntries
    <2>3. /\ <<Entry("LlmRequest", NoAction)>> \in Seq(QuietEntry)
          /\ Len(<<Entry("LlmRequest", NoAction)>>) = 1
      BY <1>0, <2>2, QuietEntries
    <2>4. UNCHANGED told
      BY <1>1 DEF RunTask
    <2> QED BY <2>1, <2>3, <2>4, QuietHandler
  <1>2. CASE NoActionReply
    <2> DEFINE E == {<<>>,
                     <<Entry("LlmResponse", NoAction)>>,
                     <<Entry("LlmResponse", NoAction), Entry("Note", NoAction)>>,
                     <<Entry("LlmResponse", NoAction), Entry("SessionEnded", NoAction)>>}
    <2>1. PICK entries \in E : \E n \in 0 .. Len(entries) : AppendEntries(entries, n)
      BY <1>2 DEF NoActionReply
    <2>2. /\ Entry("LlmResponse", NoAction) \in QuietEntry
          /\ Entry("Note", NoAction) \in QuietEntry
          /\ Entry("SessionEnded", NoAction) \in QuietEntry
      BY <1>0, QuietEntries
    <2>3. \A x, y \in QuietEntry : /\ <<>> \in Seq(QuietEntry) /\ <<x>> \in Seq(QuietEntry)
                                   /\ <<x, y>> \in Seq(QuietEntry)
      BY <1>0, QuietEntries
    <2>4. E \subseteq Seq(QuietEntry)
      BY <2>2, <2>3, Zenon
    <2>5. UNCHANGED told
      BY <1>2 DEF NoActionReply
    <2> HIDE DEF E
    <2> QED BY <2>1, <2>4, <2>5, QuietHandler
  <1>3. CASE \E exec \in Exec, args \in Args : DenyInvoke(exec, args) \/ Invoke(exec, args)
    <2>1. CASE \E exec \in Exec, args \in Args : DenyInvoke(exec, args)
      <3> DEFINE entries == <<Entry("LlmResponse", NoAction), Entry("Deny", tasks)>>
      <3>1. PICK n \in 0 .. 2 : /\ AppendEntries(entries, n)
                                /\ Tell(tasks, IF n = 2 THEN "bundle" ELSE "daemon")
        BY <2>1 DEF DenyInvoke
      <3>2. Entry("LlmResponse", NoAction) \in QuietEntry /\ Entry("Deny", tasks) \in QuietEntry
        BY <1>0, QuietEntries
      <3>3. entries \in Seq(QuietEntry) /\ Len(entries) = 2
        BY <1>0, <3>2, QuietEntries
      <3>4. said
        BY <3>1 DEF GateRefusal
      <3> HIDE DEF entries
      <3> QED BY <3>1, <3>3, <3>4, QuietHandler
    <2> QED BY <1>3, <2>1, InvokeSays
  <1>4. CASE \E id \in 1 .. MaxTask : ApproveUnknown(id)
    BY <1>4, SilentHandler DEF ApproveUnknown, history
  <1>5. CASE \E p \in pending, digest \in {q.digest : q \in pending} \union {OtherDigest} :
               ApproveRefused(p, digest) \/ Approve(p, digest)
    <2>0. PICK p \in pending : \E digest : ApproveRefused(p, digest) \/ Approve(p, digest)
      BY <1>5
    <2>1. PICK digest : ApproveRefused(p, digest) \/ Approve(p, digest)
      BY <2>0
    <2>2. p.action \in 0 .. MaxTask
      BY ActionIds DEF IInv, TypeOK
    <2>3. CASE ApproveRefused(p, digest)
      <3>1. said
        BY <2>3 DEF ApproveRefused, GateRefusal
      <3>2. CASE UNCHANGED audit
        BY <3>1, <3>2, SilentHandler
      <3>3. CASE \E n \in 0 .. 1 : AppendEntries(<<Entry("Note", NoAction)>>, n)
        <4>1. PICK n \in 0 .. 1 : AppendEntries(<<Entry("Note", NoAction)>>, n)
          BY <3>3
        <4>2. Entry("Note", NoAction) \in QuietEntry
          BY <1>0, QuietEntries
        <4>3. <<Entry("Note", NoAction)>> \in Seq(QuietEntry) /\ Len(<<Entry("Note", NoAction)>>) = 1
          BY <1>0, <4>2, QuietEntries
        <4> QED BY <3>1, <4>1, <4>3, QuietHandler
      <3> QED BY <2>3, <3>2, <3>3 DEF ApproveRefused
    <2>4. CASE Approve(p, digest)
      <3> DEFINE entries == <<Entry("ApprovalGranted", p.action), Entry("ExecRequested", p.action)>>
      <3>1. PICK n \in 0 .. 2 : AppendEntries(entries, n)
        BY <2>4 DEF Approve
      <3>2. /\ Entry("ApprovalGranted", p.action) \in QuietEntry
            /\ Entry("ExecRequested", p.action) \in QuietEntry
        BY <1>0, <2>2, QuietEntries
      <3>3. entries \in Seq(QuietEntry) /\ Len(entries) = 2
        BY <1>0, <3>2, QuietEntries
      <3>4. said
        BY <2>4 DEF Approve
      <3> HIDE DEF entries
      <3> QED BY <3>1, <3>3, <3>4, QuietHandler
    <2> QED BY <2>1, <2>3, <2>4
  <1>6. CASE \E p \in pending : Reject(p)
    BY <1>6, SilentHandler DEF Reject, GateRefusal
  <1>7. CASE SendFails
    BY <1>7, SilentHandler DEF SendFails
  <1>8. CASE Send
    BY <1>8, SilentHandler DEF Send
  <1>9. CASE Crash
    BY <1>9, SilentHandler DEF Crash, history
  <1>10. CASE Start
    <2>1. PICK e : e = [Entry("SessionStarted", NoAction) EXCEPT !.session = published + 1]
      OBVIOUS
    <2>2. e.event = "SessionStarted" /\ audit' = Append(audit, e) /\ UNCHANGED told
      BY <1>10, <2>1 DEF Start, Entry
    <2>3. audit \in Seq(AuditEntry)
      BY DEF IInv, TypeOK
    <2>4. /\ LogKept
          /\ \A i \in DOMAIN audit' : i \in DOMAIN audit \/ audit'[i] = e
      BY <2>2, <2>3 DEF LogKept
    <2> QED BY <2>2, <2>4 DEF SaysNothingOfHost, HostEvent
  <1> QED BY <1>1, <1>2, <1>3, <1>4, <1>5, <1>6, <1>7, <1>8, <1>9, <1>10 DEF Daemon

(* What the executor is done with, and who was overtaken, survives a step  *)
(* of the daemon; what ran has run.                                        *)
LEMMA DaemonKeeps ==
  ASSUME SystemInv, DaemonStep
  PROVE  /\ UNCHANGED runs
         /\ \A a : Ran(a)' = Ran(a)
         /\ \A a : DoneWith(a) => DoneWith(a)'
         /\ \A a : Overtaken(a) => Overtaken(a)'
PROOF
  <1>1. UNCHANGED runs
    BY DEF DaemonStep, executor
  <1>2. \A a : Ran(a)' = Ran(a)
    BY <1>1 DEF Ran
  <1>3. \A i \in DOMAIN sent : i \in DOMAIN sent' /\ sent'[i] = sent[i]
    BY DaemonHost
  <1>4. \A a : DoneWith(a) => DoneWith(a)'
    <2>1. \A i \in 1 .. Consumed : sent'[i] = sent[i]
      <3>1. 1 .. Consumed \subseteq DOMAIN sent
        BY Counts
      <3> QED BY <1>3, <3>1
    <2>2. Consumed' = Consumed
      BY DaemonHost
    <2> QED BY <2>1, <2>2 DEF DoneWith
  <1>5. ASSUME NEW a, Overtaken(a) PROVE Overtaken(a)'
    <2>1. PICK i, j \in DOMAIN sent :
            /\ i < j /\ sent[j].nonce = a
            /\ sent[i].session = sent[j].session /\ sent[i].seq > sent[j].seq
      BY <1>5 DEF Overtaken
    <2> QED BY <1>3, <2>1 DEF Overtaken
  <1> QED BY <1>1, <1>2, <1>4, <1>5

(* What holds of the runs by the daemon's own invariant: each was logged,  *)
(* and none was refused by a gate.                                         *)
LEMMA RunsSound ==
  ASSUME SystemInv, DaemonStep, IInv'
  PROVE  /\ \A k \in DOMAIN runs' : Logged("ExecRequested", runs[k].frame)' # {}
         /\ \A t \in told' : t.outcome \in GateRefusal => Ran(t.action)' = {}
PROOF
  <1>1. ASSUME NEW k \in DOMAIN runs' PROVE \E i \in DOMAIN sent' : sent'[i] = runs'[k].frame
    BY RunsAreSent, DaemonKeeps, DaemonHost
  <1>2. ASSUME NEW k \in DOMAIN runs' PROVE Logged("ExecRequested", runs[k].frame)' # {}
    <2>1. PICK i \in DOMAIN sent' : sent'[i] = runs'[k].frame
      BY <1>1
    <2>2. Logged("ExecRequested", sent[i])' # {}
      BY DEF IInv, SentAreAudited
    <2> QED BY <2>1, <2>2 DEF Logged
  <1>3. ASSUME NEW t \in told', t.outcome \in GateRefusal PROVE Ran(t.action)' = {}
    <2>1. \A i \in DOMAIN sent' : sent'[i].nonce # t.action
      BY <1>3 DEF IInv, RefusedNeverSent
    <2>2. \A k \in DOMAIN runs' : runs'[k].frame.nonce # t.action
      BY <1>1, <2>1
    <2> QED BY <2>2 DEF Ran
  <1> QED BY <1>2, <1>3

(* Log and host still agree when the daemon says nothing of the host. *)
LEMMA QuietStory ==
  ASSUME SystemInv, DaemonStep, IInv', SaysNothingOfHost
  PROVE  AuditMatchesHost' /\ ReplayOnlyIfOvertaken' /\ ToldIsDone'
PROOF
  <1>1. ASSUME NEW t \in told', t.outcome \in ExecdStage \union {"Executed"} PROVE t \in told
    BY <1>1, StageNames DEF SaysNothingOfHost
  <1>2. ASSUME NEW i \in DOMAIN audit', audit'[i].event \in HostEvent
        PROVE  i \in DOMAIN audit /\ audit'[i] = audit[i]
    BY <1>2 DEF SaysNothingOfHost, LogKept
  <1>3. /\ UNCHANGED runs /\ \A a : Ran(a)' = Ran(a)
        /\ \A a : DoneWith(a) => DoneWith(a)'
        /\ \A a : Overtaken(a) => Overtaken(a)'
    BY DaemonKeeps
  <1>4. AuditIsTruthful'
    <2>1. ASSUME NEW i \in DOMAIN audit', audit'[i].event = "ExecCompleted"
          PROVE  Ran(audit[i].action)' # {}
      <3>1. PICK a : a = audit[i].action /\ a = audit'[i].action
        BY <1>2, <2>1 DEF HostEvent
      <3>2. Ran(a) # {}
        BY <1>2, <2>1, <3>1 DEF HostEvent, SystemInv, AuditMatchesHost, AuditIsTruthful
      <3> QED BY <1>3, <3>1, <3>2 DEF Ran
    <2>2. ASSUME NEW i \in DOMAIN audit', audit'[i].event = "SnapshotTaken"
          PROVE  \E k \in Ran(audit[i].action)' : runs'[k].snapshot # Execd!NoSnapshot
      <3>1. PICK a : a = audit[i].action /\ a = audit'[i].action
        BY <1>2, <2>2 DEF HostEvent
      <3>2. \E k \in Ran(a) : runs[k].snapshot # Execd!NoSnapshot
        BY <1>2, <2>2, <3>1 DEF HostEvent, SystemInv, AuditMatchesHost, AuditIsTruthful
      <3> QED BY <1>3, <3>1, <3>2 DEF Ran
    <2>3. ASSUME NEW t \in told', t.outcome = "Executed", NEW k \in Ran(t.action)'
          PROVE  /\ Logged("ExecCompleted", runs[k].frame)' # {}
                 /\ runs'[k].bundle.persistent => Logged("SnapshotTaken", runs[k].frame)' # {}
      <3>1. t \in told /\ k \in Ran(t.action)
        BY <1>1, <1>3, <2>3
      <3>2. PICK f : f = runs[k].frame /\ f = runs'[k].frame
        BY <1>3
      <3>3. /\ Logged("ExecCompleted", f) # {}
            /\ runs[k].bundle.persistent => Logged("SnapshotTaken", f) # {}
        BY <2>3, <3>1, <3>2 DEF SystemInv, AuditMatchesHost, AuditIsTruthful
      <3>4. /\ Logged("ExecCompleted", f)' # {}
            /\ runs[k].bundle.persistent => Logged("SnapshotTaken", f)' # {}
        BY <3>3, LoggedStays DEF SaysNothingOfHost
      <3> QED BY <1>3, <3>2, <3>4 DEF Logged
    <2> QED BY <2>1, <2>2, <2>3 DEF AuditIsTruthful
  <1>5. RunsAreAudited'
    <2>1. ASSUME NEW t \in told', t.outcome \in ExecdStage PROVE Ran(t.action)' = {}
      BY <1>1, <1>3, <2>1 DEF SystemInv, AuditMatchesHost, RunsAreAudited
    <2> QED BY <2>1, RunsSound DEF RunsAreAudited
  <1>6. ReplayOnlyIfOvertaken'
    <2>1. ASSUME NEW t \in told', t.outcome = "Replay" PROVE Overtaken(t.action)'
      <3>1. t \in told
        BY <1>1, <2>1, StageNames
      <3>2. Overtaken(t.action)
        BY <2>1, <3>1 DEF SystemInv, ReplayOnlyIfOvertaken, Overtaken
      <3> QED BY <1>3, <3>2
    <2> QED BY <2>1 DEF ReplayOnlyIfOvertaken, Overtaken
  <1>7. ToldIsDone'
    BY <1>1, <1>3 DEF SystemInv, ToldIsDone
  <1> QED BY <1>4, <1>5, <1>6, <1>7 DEF AuditMatchesHost

(* An entry of the log after the step. *)
Recorded(event, a) == \E i \in DOMAIN audit' : audit'[i] = Entry(event, a)

(* What the executor's answer adds to the log is about the current action  *)
(* and says what the answer says; so does what the operator is told.       *)
LEMMA ReceiveSays ==
  ASSUME IInv, Receive
  PROVE  /\ LogKept
         /\ \A i \in DOMAIN audit' :
              \/ i \in DOMAIN audit /\ audit'[i] = audit[i]
              \/ audit'[i].event \notin HostEvent
              \/ /\ reply.outcome = "Completed" /\ audit'[i].action = current.action
                 /\ audit'[i].event = "SnapshotTaken" => reply.snapshot
         /\ told \subseteq told'
         /\ \A t \in told' \ told :
              /\ t.action = current.action
              /\ \/ t.outcome = "daemon"
                 \/ t.outcome \in ExecdStage /\ t.outcome = reply.outcome
                 \/ /\ t.outcome = "Executed" /\ reply.outcome = "Completed"
                    /\ Recorded("ExecCompleted", current.action)
                    /\ reply.snapshot => Recorded("SnapshotTaken", current.action)
PROOF
  <1> DEFINE a == current.action
             entries == OutcomeEntries(a)
  <1>1. pc = "waiting" /\ Arrived
    BY DEF Receive
  <1>2. PICK n \in 0 .. Len(entries) :
          LET complete == n = Len(OutcomeEntries(current.action)) /\ reply.outcome # "lost"
          IN  /\ AppendEntries(entries, n)
              /\ Tell(current.action, IF ~complete THEN "daemon"
                                      ELSE IF reply.outcome = "Completed" THEN "Executed"
                                      ELSE reply.outcome)
    BY DEF Receive
  <1>3. entries \in Seq(AuditEntry)
    BY <1>1, OutcomeEntriesOK
  <1>4. reply.outcome \in ExecdStage \union {"lost", "Completed"}
    BY <1>1, ReplyOutcome DEF IInv, TypeOK
  <1>5. /\ \A k \in 1 .. Len(entries) :
             \/ entries[k].event \notin HostEvent
             \/ /\ reply.outcome = "Completed" /\ entries[k].action = a
                /\ entries[k].event = "SnapshotTaken" => reply.snapshot
        /\ reply.outcome = "Completed" =>
             /\ \E k \in 1 .. Len(entries) : entries[k] = Entry("ExecCompleted", a)
             /\ reply.snapshot => \E k \in 1 .. Len(entries) : entries[k] = Entry("SnapshotTaken", a)
    <2>1. CASE reply.outcome \in ExecdStage
      <3>1. entries = <<Entry("Note", NoAction)>> /\ reply.outcome # "Completed"
        BY <2>1, StageAssumption DEF OutcomeEntries
      <3>2. Entry("Note", NoAction).event = "Note"
        BY DEF Entry
      <3>3. Len(entries) = 1 /\ entries[1] = Entry("Note", NoAction)
        BY <3>1
      <3> HIDE DEF entries
      <3> QED BY <3>1, <3>2, <3>3 DEF HostEvent
    <2>2. CASE reply.outcome = "lost"
      <3>1. entries = <<>>
        BY <2>2, StageAssumption DEF OutcomeEntries
      <3>2. Len(entries) = 0
        BY <3>1
      <3> HIDE DEF entries
      <3> QED BY <2>2, <3>2
    <2>3. CASE reply.outcome = "Completed"
      <3>1. entries = (IF reply.snapshot THEN <<Entry("SnapshotTaken", a)>> ELSE <<>>)
                         \o <<Entry("ExecCompleted", a)>>
        BY <2>3, StageAssumption DEF OutcomeEntries
      <3>2. ASSUME NEW x, NEW y
            PROVE  /\ Len(<<x>> \o <<y>>) = 2 /\ (<<x>> \o <<y>>)[1] = x /\ (<<x>> \o <<y>>)[2] = y
                   /\ Len(<<>> \o <<y>>) = 1 /\ (<<>> \o <<y>>)[1] = y
        OBVIOUS
      <3>3. PICK x, y : x = Entry("SnapshotTaken", a) /\ y = Entry("ExecCompleted", a)
        OBVIOUS
      <3>4. /\ x.event = "SnapshotTaken" /\ x.action = a
            /\ y.event = "ExecCompleted" /\ y.action = a
        BY <3>3 DEF Entry
      <3> HIDE DEF entries, a
      <3>5. CASE reply.snapshot
        <4>1. Len(entries) = 2 /\ entries[1] = x /\ entries[2] = y
          BY <3>1, <3>2, <3>3, <3>5
        <4> QED BY <2>3, <3>3, <3>4, <3>5, <4>1
      <3>6. CASE ~reply.snapshot
        <4>1. Len(entries) = 1 /\ entries[1] = y
          BY <3>1, <3>2, <3>3, <3>6
        <4> QED BY <2>3, <3>3, <3>4, <3>6, <4>1
      <3> QED BY <3>5, <3>6
    <2> QED BY <1>4, <2>1, <2>2, <2>3
  <1> HIDE DEF entries
  <1>6. /\ audit' \in Seq(AuditEntry) /\ LogKept /\ Len(audit') = Len(audit) + n
        /\ \A k \in 1 .. n : audit'[Len(audit) + k] = entries[k]
    BY <1>2, <1>3, AppendExtends DEF IInv, TypeOK
  <1>7. /\ Len(entries) \in Nat /\ Len(audit) \in Nat
        /\ DOMAIN audit = 1 .. Len(audit) /\ DOMAIN audit' = 1 .. Len(audit) + n
    BY <1>3, <1>6 DEF IInv, TypeOK
  <1>8. ASSUME NEW i \in DOMAIN audit', i \notin DOMAIN audit
        PROVE  \E k \in 1 .. Len(entries) : audit'[i] = entries[k]
    <2>1. i - Len(audit) \in 1 .. n /\ i = Len(audit) + (i - Len(audit))
      BY <1>7, <1>8
    <2> QED BY <1>6, <1>7, <2>1
  <1>9. ASSUME NEW i \in DOMAIN audit'
        PROVE  \/ i \in DOMAIN audit /\ audit'[i] = audit[i]
               \/ audit'[i].event \notin HostEvent
               \/ /\ reply.outcome = "Completed" /\ audit'[i].action = a
                  /\ audit'[i].event = "SnapshotTaken" => reply.snapshot
    BY <1>5, <1>6, <1>8 DEF LogKept
  <1>10. ASSUME n = Len(entries), NEW k \in 1 .. Len(entries)
         PROVE  \E i \in DOMAIN audit' : audit'[i] = entries[k]
    BY <1>6, <1>7, <1>10
  <1>11. PICK o : /\ Tell(a, o)
                  /\ \/ o = "daemon"
                     \/ o \in ExecdStage /\ o = reply.outcome
                     \/ o = "Executed" /\ reply.outcome = "Completed" /\ n = Len(entries)
    BY <1>2, <1>4 DEF entries
  <1>12. o = "Executed" /\ reply.outcome = "Completed" /\ n = Len(entries) =>
           /\ Recorded("ExecCompleted", a)
           /\ reply.snapshot => Recorded("SnapshotTaken", a)
    BY <1>5, <1>10 DEF Recorded
  <1>13. told' = told \union {[action |-> a, outcome |-> o]}
    BY <1>11 DEF Tell
  <1> QED BY <1>6, <1>9, <1>11, <1>12, <1>13

(* The answer was true, so log and host agree after it is recorded. *)
LEMMA ReceiveStory ==
  ASSUME SystemInv, DaemonStep, IInv', Receive
  PROVE  AuditMatchesHost' /\ ReplayOnlyIfOvertaken' /\ ToldIsDone'
PROOF
  <1> DEFINE a == current.action
  <1>1. IInv /\ pc = "waiting" /\ reply # NoReply
    BY DEF SystemInv, Receive, Arrived
  <1>2. /\ DoneWith(a)
        /\ reply.outcome \in ExecdStage => Ran(a) = {}
        /\ reply.outcome = "Replay" => Overtaken(a)
        /\ reply.outcome = "Completed" =>
             \E k \in DOMAIN runs : /\ runs[k].frame = current.frame
                                    /\ reply.snapshot = (runs[k].snapshot # Execd!NoSnapshot)
    BY <1>1 DEF SystemInv, ReplyIsTrue
  <1>3. current.frame.nonce = a /\ current.frame.session = published
    BY <1>1 DEF IInv, CurrentSound, SignedHere
  <1>4. LogKept /\ told \subseteq told'
    BY <1>1, ReceiveSays
  <1>5. \A i \in DOMAIN audit' :
          \/ i \in DOMAIN audit /\ audit'[i] = audit[i]
          \/ audit'[i].event \notin HostEvent
          \/ /\ reply.outcome = "Completed" /\ audit'[i].action = a
             /\ audit'[i].event = "SnapshotTaken" => reply.snapshot
    BY <1>1, ReceiveSays
  <1>6. \A t \in told' \ told :
          /\ t.action = a
          /\ \/ t.outcome = "daemon"
             \/ t.outcome \in ExecdStage /\ t.outcome = reply.outcome
             \/ /\ t.outcome = "Executed" /\ reply.outcome = "Completed"
                /\ Recorded("ExecCompleted", a)
                /\ reply.snapshot => Recorded("SnapshotTaken", a)
    BY <1>1, ReceiveSays
  <1>7. /\ UNCHANGED runs /\ \A b : Ran(b)' = Ran(b)
        /\ \A b : DoneWith(b) => DoneWith(b)'
        /\ \A b : Overtaken(b) => Overtaken(b)'
    BY DaemonKeeps
  <1> HIDE DEF a
  <1>8. AuditIsTruthful'
    <2>1. ASSUME NEW i \in DOMAIN audit', audit'[i].event = "ExecCompleted"
          PROVE  Ran(audit[i].action)' # {}
      <3>1. PICK b : b = audit'[i].action
        OBVIOUS
      <3>2. CASE i \in DOMAIN audit /\ audit'[i] = audit[i]
        <4>1. Ran(b) # {}
          BY <2>1, <3>1, <3>2 DEF SystemInv, AuditMatchesHost, AuditIsTruthful
        <4> QED BY <1>7, <3>1, <4>1 DEF Ran
      <3>3. CASE reply.outcome = "Completed" /\ b = a
        <4>1. Ran(b) # {}
          BY <1>2, <1>3, <3>3 DEF Ran
        <4> QED BY <1>7, <3>1, <4>1 DEF Ran
      <3> QED BY <1>5, <2>1, <3>1, <3>2, <3>3 DEF HostEvent
    <2>2. ASSUME NEW i \in DOMAIN audit', audit'[i].event = "SnapshotTaken"
          PROVE  \E k \in Ran(audit[i].action)' : runs'[k].snapshot # Execd!NoSnapshot
      <3>1. PICK b : b = audit'[i].action
        OBVIOUS
      <3>2. CASE i \in DOMAIN audit /\ audit'[i] = audit[i]
        <4>1. \E k \in Ran(b) : runs[k].snapshot # Execd!NoSnapshot
          BY <2>2, <3>1, <3>2 DEF SystemInv, AuditMatchesHost, AuditIsTruthful
        <4> QED BY <1>7, <3>1, <4>1 DEF Ran
      <3>3. CASE reply.outcome = "Completed" /\ b = a /\ reply.snapshot
        <4>1. \E k \in Ran(b) : runs[k].snapshot # Execd!NoSnapshot
          BY <1>2, <1>3, <3>3 DEF Ran
        <4> QED BY <1>7, <3>1, <4>1 DEF Ran
      <3> QED BY <1>5, <2>2, <3>1, <3>2, <3>3 DEF HostEvent
    <2>3. ASSUME NEW t \in told', t.outcome = "Executed", NEW k \in Ran(t.action)'
          PROVE  /\ Logged("ExecCompleted", runs[k].frame)' # {}
                 /\ runs'[k].bundle.persistent => Logged("SnapshotTaken", runs[k].frame)' # {}
      <3>1. PICK f : f = runs[k].frame /\ f = runs'[k].frame
        BY <1>7
      <3>2. k \in Ran(t.action) /\ k \in DOMAIN runs
        BY <1>7, <2>3 DEF Ran
      <3>3. CASE t \in told
        <4>1. /\ Logged("ExecCompleted", f) # {}
              /\ runs[k].bundle.persistent => Logged("SnapshotTaken", f) # {}
          BY <2>3, <3>1, <3>2, <3>3 DEF SystemInv, AuditMatchesHost, AuditIsTruthful
        <4>2. /\ Logged("ExecCompleted", f)' # {}
              /\ runs[k].bundle.persistent => Logged("SnapshotTaken", f)' # {}
          BY <1>4, <4>1, LoggedStays
        <4> QED BY <1>7, <3>1, <4>2 DEF Logged
      <3>4. CASE t \notin told
        <4>1. /\ t.action = a /\ reply.outcome = "Completed"
              /\ Recorded("ExecCompleted", a)
              /\ reply.snapshot => Recorded("SnapshotTaken", a)
          BY <1>6, <2>3, <3>4, StageNames
        <4>2. PICK j \in DOMAIN runs : /\ runs[j].frame = current.frame
                                       /\ reply.snapshot = (runs[j].snapshot # Execd!NoSnapshot)
          BY <1>2, <4>1
        <4>3. j = k
          BY <1>3, <3>2, <4>1, <4>2 DEF SystemInv, NoActionRunsTwice, Ran
        <4>4. f = current.frame /\ f.nonce = a /\ f.session = published
          BY <1>3, <3>1, <4>2, <4>3
        <4>5. ASSUME NEW e, Recorded(e, a) PROVE Logged(e, f)' # {}
          <5>1. PICK i \in DOMAIN audit' : audit'[i] = Entry(e, a)
            BY <4>5 DEF Recorded
          <5>2. i \in Logged(e, f)'
            BY <4>4, <5>1 DEF Logged, Entry
          <5> QED BY <5>2
        <4>6. runs[k].bundle.persistent => reply.snapshot
          BY <3>2, <4>2, <4>3 DEF SystemInv, SnapshotWhenPersistent
        <4>7. /\ Logged("ExecCompleted", f)' # {}
              /\ runs[k].bundle.persistent => Logged("SnapshotTaken", f)' # {}
          BY <4>1, <4>5, <4>6
        <4> QED BY <1>7, <3>1, <4>7 DEF Logged
      <3> QED BY <3>3, <3>4
    <2> QED BY <2>1, <2>2, <2>3 DEF AuditIsTruthful
  <1>9. RunsAreAudited'
    <2>1. ASSUME NEW t \in told', t.outcome \in ExecdStage PROVE Ran(t.action)' = {}
      <3>1. CASE t \in told
        BY <1>7, <2>1, <3>1 DEF SystemInv, AuditMatchesHost, RunsAreAudited
      <3>2. CASE t \notin told
        BY <1>2, <1>6, <1>7, <2>1, <3>2, StageNames
      <3> QED BY <3>1, <3>2
    <2> QED BY <2>1, RunsSound DEF RunsAreAudited
  <1>10. ReplayOnlyIfOvertaken'
    <2>1. ASSUME NEW t \in told', t.outcome = "Replay" PROVE Overtaken(t.action)'
      <3>1. CASE t \in told
        <4>1. Overtaken(t.action)
          BY <2>1, <3>1 DEF SystemInv, ReplayOnlyIfOvertaken, Overtaken
        <4> QED BY <1>7, <4>1
      <3>2. CASE t \notin told
        BY <1>2, <1>6, <1>7, <2>1, <3>2
      <3> QED BY <3>1, <3>2
    <2> QED BY <2>1 DEF ReplayOnlyIfOvertaken, Overtaken
  <1>11. ToldIsDone'
    BY <1>2, <1>6, <1>7, StageNames DEF SystemInv, ToldIsDone
  <1> QED BY <1>8, <1>9, <1>10, <1>11 DEF AuditMatchesHost

(* Outside a wait there is no answer, and a wait begins without one. *)
LEMMA DaemonReply ==
  ASSUME SystemInv, DaemonStep
  PROVE  reply' = NoReply
PROOF
  <1>0. pc # "waiting" => reply = NoReply
    BY DEF SystemInv, ReplyIsTrue
  <1>1. StartsTask \/ EndsTask \/ Dispatches \/ Stashes \/ Send \/ Crash \/ Start
    BY DaemonShape DEF DaemonStep, SystemInv
  <1>2. CASE StartsTask \/ EndsTask BY <1>0, <1>2 DEF StartsTask, EndsTask
  <1>3. CASE Dispatches \/ Stashes BY <1>0, <1>3 DEF Dispatches, Stashes, SignsNow
  <1>4. CASE Send \/ Crash \/ Start BY <1>0, <1>4 DEF Send, Crash, Start
  <1> QED BY <1>1, <1>2, <1>3, <1>4

(* Every step of the daemon keeps the invariant of the two. *)
LEMMA DaemonInv == SystemInv /\ DaemonStep => SystemInv'
PROOF
  <1> SUFFICES ASSUME SystemInv, DaemonStep PROVE SystemInv'
    OBVIOUS
  <1>1. IInv' /\ SeqInv'
    BY DaemonIInv, DaemonSeqInv DEF SystemInv, DaemonStep
  <1>2. Receive \/ SaysNothingOfHost
    BY DaemonSays DEF SystemInv, DaemonStep
  <1>3. AuditMatchesHost' /\ ReplayOnlyIfOvertaken' /\ ToldIsDone'
    BY <1>1, <1>2, ReceiveStory, QuietStory
  <1>4. ReplyIsTrue'
    BY DaemonReply DEF ReplyIsTrue
  <1>5. /\ HostTypeOK' /\ WireIsRest' /\ RunIsHead' /\ RunsWereHanded' /\ GuardWasHanded'
        /\ JobIsHead' /\ SnapshotWhenPersistent' /\ NoActionRunsTwice'
    BY DaemonHost
  <1> QED BY <1>1, <1>3, <1>4, <1>5 DEF SystemInv

(* Steps that leave both processes alone. *)
LEMMA AroundInv ==
  ASSUME SystemInv, IInv',
         UNCHANGED <<published, mode, seq, pending, pc, current, reply, tasks, audit, sent, told,
                     last_seq, seen_nonces, mode_ceiling, conn, job, points, boot, accepted,
                     runs, wire>>
  PROVE  SystemInv'
PROOF
  <1>1. SeqInv'
    BY DEF SystemInv, SeqInv, SeqBounded, SeqHeldOnce, SeqSentOnce, SeqUnsent
  <1>2. Consumed' = Consumed /\ Handed' = Handed /\ Started' = Started
    BY DEF Consumed, Handed, Started
  <1>3. /\ HostTypeOK' /\ WireIsRest' /\ RunIsHead' /\ RunsWereHanded' /\ GuardWasHanded'
        /\ JobIsHead' /\ SnapshotWhenPersistent' /\ NoActionRunsTwice'
    BY <1>2 DEF SystemInv, HostTypeOK, WireIsRest, RunIsHead, RunsWereHanded, GuardWasHanded,
                JobIsHead, SnapshotWhenPersistent, NoActionRunsTwice, Execd!Busy
  <1>4. ReplyIsTrue' /\ ToldIsDone'
    BY <1>2 DEF SystemInv, ReplyIsTrue, ToldIsDone, DoneWith, Ran, Overtaken
  <1>5. AuditMatchesHost' /\ ReplayOnlyIfOvertaken'
    BY DEF SystemInv, AuditMatchesHost, AuditIsTruthful, RunsAreAudited, Ran, Logged,
           ReplayOnlyIfOvertaken
  <1> QED BY <1>1, <1>3, <1>4, <1>5 DEF SystemInv

(* The first state: neither process has done anything. *)
LEMMA InitSystemInv == SystemInit => SystemInv
PROOF
  <1> SUFFICES ASSUME SystemInit PROVE SystemInv
    OBVIOUS
  <1>0. /\ Init /\ sent = <<>> /\ wire = <<>> /\ runs = <<>> /\ told = {} /\ audit = <<>>
        /\ reply = NoReply /\ conn = "idle" /\ points = <<>> /\ boot = 1 /\ accepted = 0
        /\ last_seq = [s \in 1 .. MaxKey |-> -1] /\ seen_nonces = {} /\ mode_ceiling \in HostMode
    BY DEF SystemInit, Init, Execd!Init, Execd!NoKey, Execd!Replay!NoSeq
  <1>1. IInv
    BY <1>0, InitIInv
  <1>2. SeqInv
    BY <1>0 DEF Init, SeqInv, SeqBounded, SeqHeldOnce, SeqSentOnce
  <1>3. Consumed = 0 /\ Handed = 0 /\ Started = 0
    BY <1>0 DEF Consumed, Handed, Started
  <1>4. /\ HostTypeOK /\ WireIsRest /\ RunIsHead /\ RunsWereHanded /\ GuardWasHanded
        /\ JobIsHead /\ SnapshotWhenPersistent /\ NoActionRunsTwice
    BY <1>0, <1>3, BoundAssumption
    DEF HostTypeOK, WireIsRest, RunIsHead, RunsWereHanded, GuardWasHanded,
        JobIsHead, SnapshotWhenPersistent, NoActionRunsTwice, Execd!Busy
  <1>5. ReplyIsTrue /\ ToldIsDone /\ AuditMatchesHost /\ ReplayOnlyIfOvertaken
    BY <1>0 DEF ReplyIsTrue, ToldIsDone, AuditMatchesHost, AuditIsTruthful, RunsAreAudited,
                ReplayOnlyIfOvertaken
  <1> QED BY <1>1, <1>2, <1>4, <1>5 DEF SystemInv

(* The invariant of the two processes and the socket between them. *)
THEOREM SystemInvariance == SystemSpec => []SystemInv
PROOF
  <1>1. SystemInit => SystemInv
    BY InitSystemInv
  <1>2. SystemInv /\ [SystemNext]_SystemVars => SystemInv'
    <2> SUFFICES ASSUME SystemInv, [SystemNext]_SystemVars PROVE SystemInv'
      OBVIOUS
    <2>1. CASE DaemonStep BY <2>1, DaemonInv
    <2>2. CASE ExecutorStep
      BY <2>2, ExecutorInv
    <2>3. CASE OperatorStep
      <3>1. IInv'
        BY <2>3, OperatorIInv DEF OperatorStep, SystemInv
      <3>2. UNCHANGED <<published, mode, seq, pending, pc, current, reply, tasks, audit, sent, told,
                        last_seq, seen_nonces, mode_ceiling, conn, job, points, boot,
                        accepted, runs, wire>>
        BY <2>3 DEF OperatorStep, Operator, Tick, Install, session, history, executor
      <3> QED BY <3>1, <3>2, AroundInv
    <2>4. CASE UNCHANGED SystemVars
      <3>1. UNCHANGED <<now, published, bundle_dir, mode, seq, pending, pc, current, reply, tasks,
                        audit, sent, told, last_seq, seen_nonces, mode_ceiling, conn, job,
                        points, boot, accepted, runs, wire>>
        BY <2>4 DEF SystemVars, vars, executor, environment, session, history
      <3>2. IInv'
        BY <3>1, DaemonInvStays DEF DaemonStays, SystemInv, IInv, TypeOK
      <3> QED BY <3>1, <3>2, AroundInv
    <2> QED BY <2>1, <2>2, <2>3, <2>4 DEF SystemNext, ExecutorStep
  <1> QED BY <1>1, <1>2, PTL DEF SystemSpec

(* End to end no action runs twice, over any number of restarts of either  *)
(* process, although the executor's replay guard restarts empty.           *)
THEOREM NothingRunsTwice == SystemSpec => []NoActionRunsTwice
PROOF
  <1>1. SystemInv => NoActionRunsTwice
    BY DEF SystemInv
  <1> QED BY <1>1, SystemInvariance, PTL

(* The log claims nothing that did not happen, and nothing happens that it *)
(* does not hold: every run was requested in it, every completion and      *)
(* recovery point in it is real, and what was refused did not run.         *)
THEOREM LogMatchesHost == SystemSpec => []AuditMatchesHost
PROOF
  <1>1. SystemInv => AuditMatchesHost
    BY DEF SystemInv
  <1> QED BY <1>1, SystemInvariance, PTL

(* An approved action is refused as a replay in one case only: a later     *)
(* action of its session was sent before it.                               *)
THEOREM ApprovalsLostOnlyToOvertaking == SystemSpec => []ReplayOnlyIfOvertaken
PROOF
  <1>1. SystemInv => ReplayOnlyIfOvertaken
    BY DEF SystemInv
  <1> QED BY <1>1, SystemInvariance, PTL

-----------------------------------------------------------------------------
(* The refinement.  The phase of an action is decided by four facts, each  *)
(* of which a step may change in one way only.                             *)
HasRun(a) == Ran(a) # {}
OnWire(a) == \E i \in DOMAIN wire : wire[i].nonce = a
Dispatching(a) ==
  /\ pc = "sending" \/ (pc = "waiting" /\ reply = NoReply)
  /\ a = current.action
IsPending(a) == \E p \in pending : p.action = a
IsNew(a) == a > tasks \/ (a = tasks /\ pc = "thinking")
PhaseTable ==
  \A a \in 1 .. MaxTask :
    /\ a \in InFlight <=> OnWire(a) \/ Dispatching(a)
    /\ IsPending(a) => ~HasRun(a) /\ a \notin InFlight
    /\ IsNew(a) => ~HasRun(a) /\ a \notin InFlight /\ ~IsPending(a)
    /\ HasRun(a) => LifecyclePhase(a) = "ran"
    /\ ~HasRun(a) /\ a \in InFlight => LifecyclePhase(a) = "requested"
    /\ IsPending(a) => LifecyclePhase(a) = "pending"
    /\ IsNew(a) => LifecyclePhase(a) = "new"
    /\ ~HasRun(a) /\ a \notin InFlight /\ ~IsPending(a) /\ ~IsNew(a)
         => LifecyclePhase(a) = "closed"

(* What was sent, or ran, is neither waiting nor new. *)
LEMMA SentIsOld ==
  ASSUME SystemInv, NEW a \in 1 .. MaxTask, \E i \in DOMAIN sent : sent[i].nonce = a
  PROVE  ~IsPending(a) /\ ~IsNew(a)
PROOF
  <1>0. PICK i \in DOMAIN sent : sent[i].nonce = a
    OBVIOUS
  <1>1. ~IsPending(a)
    BY <1>0 DEF IsPending, SystemInv, IInv, HeldAreUndecided, Undecided
  <1>2. a <= tasks /\ a \in Nat /\ tasks \in Nat
    BY <1>0, ActionIds DEF SystemInv, IInv, DecidedAreOld
  <1>3. ~(a = tasks /\ pc = "thinking")
    BY <1>0 DEF SystemInv, IInv, HeldAreUndecided, Undecided
  <1> QED BY <1>1, <1>2, <1>3 DEF IsNew

(* The five phases exclude each other, so the order in which the mapping   *)
(* asks for them is immaterial.                                            *)
LEMMA Phases == SystemInv => PhaseTable
PROOF
  <1> SUFFICES ASSUME SystemInv, NEW a \in 1 .. MaxTask
               PROVE  /\ a \in InFlight <=> OnWire(a) \/ Dispatching(a)
                      /\ IsPending(a) => ~HasRun(a) /\ a \notin InFlight
                      /\ IsNew(a) => ~HasRun(a) /\ a \notin InFlight /\ ~IsPending(a)
                      /\ HasRun(a) => LifecyclePhase(a) = "ran"
                      /\ ~HasRun(a) /\ a \in InFlight => LifecyclePhase(a) = "requested"
                      /\ IsPending(a) => LifecyclePhase(a) = "pending"
                      /\ IsNew(a) => LifecyclePhase(a) = "new"
                      /\ ~HasRun(a) /\ a \notin InFlight /\ ~IsPending(a) /\ ~IsNew(a)
                           => LifecyclePhase(a) = "closed"
    BY DEF PhaseTable
  <1>1. a \in InFlight <=> OnWire(a) \/ Dispatching(a)
    BY DEF InFlight, OnWire, Dispatching
  <1>2. HasRun(a) => \E i \in DOMAIN sent : sent[i].nonce = a
    BY RunsAreSent DEF HasRun, Ran
  <1>3. OnWire(a) => \E i \in DOMAIN sent : sent[i].nonce = a
    <2> SUFFICES ASSUME NEW k \in DOMAIN wire, wire[k].nonce = a
                 PROVE  \E i \in DOMAIN sent : sent[i].nonce = a
      BY DEF OnWire
    <2>1. k \in 1 .. Len(wire) /\ Consumed + k \in DOMAIN sent
      BY Counts DEF Consumed
    <2> QED BY <2>1 DEF SystemInv, WireIsRest
  <1>4. Dispatching(a) => ~IsPending(a) /\ ~IsNew(a)
    <2> SUFFICES ASSUME Dispatching(a) PROVE ~IsPending(a) /\ ~IsNew(a)
      OBVIOUS
    <2>1. pc \in {"sending", "waiting"} /\ a = current.action
      BY DEF Dispatching
    <2>2. ~IsPending(a)
      BY <2>1 DEF IsPending, SystemInv, IInv, HeldOnce
    <2>3. a <= tasks /\ a \in Nat /\ tasks \in Nat
      BY <2>1, ActionIds DEF SystemInv, IInv, CurrentSound, SignedHere
    <2> QED BY <2>1, <2>2, <2>3 DEF IsNew
  <1>5. IsNew(a) => ~IsPending(a)
    <2> SUFFICES ASSUME IsNew(a), NEW p \in pending, p.action = a PROVE FALSE
      BY DEF IsPending
    <2>1. a <= tasks /\ a \in Nat /\ tasks \in Nat
      BY ActionIds DEF SystemInv, IInv, PendingSound, SignedHere
    <2>2. pc = "thinking" => a # tasks
      BY DEF SystemInv, IInv, HeldOnce
    <2> QED BY <2>1, <2>2 DEF IsNew
  <1>6. /\ IsPending(a) => ~HasRun(a) /\ a \notin InFlight
        /\ IsNew(a) => ~HasRun(a) /\ a \notin InFlight /\ ~IsPending(a)
    BY <1>1, <1>2, <1>3, <1>4, <1>5, SentIsOld
  <1>7. IsPending(a) <=> a \in {p.action : p \in pending}
    BY DEF IsPending
  <1>8. HasRun(a) => LifecyclePhase(a) = "ran"
    BY <1>6, <1>7 DEF LifecyclePhase, HasRun, IsNew
  <1>9. ~HasRun(a) /\ a \in InFlight => LifecyclePhase(a) = "requested"
    BY <1>6, <1>7 DEF LifecyclePhase, HasRun, IsNew
  <1>10. IsPending(a) => LifecyclePhase(a) = "pending"
    BY <1>6, <1>7 DEF LifecyclePhase, HasRun, IsNew
  <1>11. IsNew(a) => LifecyclePhase(a) = "new"
    BY <1>6, <1>7 DEF LifecyclePhase, HasRun, IsNew
  <1>12. ~HasRun(a) /\ a \notin InFlight /\ ~IsPending(a) /\ ~IsNew(a)
           => LifecyclePhase(a) = "closed"
    BY <1>7 DEF LifecyclePhase, HasRun, IsNew
  <1> QED BY <1>1, <1>6, <1>8, <1>9, <1>10, <1>11, <1>12

(* The ways a step may change them. *)
StepTable ==
  /\ \A a \in 1 .. MaxTask :
       /\ HasRun(a) => HasRun(a)'
       /\ ~HasRun(a) /\ HasRun(a)' => OnWire(a)
       /\ OnWire(a)' \/ Dispatching(a)' =>
            OnWire(a) \/ Dispatching(a) \/ IsPending(a) \/ IsNew(a)
       /\ IsPending(a)' => IsPending(a) \/ IsNew(a)
       /\ IsNew(a)' => IsNew(a)
  /\ \A a, b \in 1 .. MaxTask :
       ~HasRun(a) /\ HasRun(a)' /\ ~HasRun(b) /\ HasRun(b)' => a = b

(* What the host starts is on the wire, and one thing at a time. *)
LEMMA RunTable ==
  ASSUME SystemInv, StartsAtMostOne
  PROVE  /\ \A a \in 1 .. MaxTask :
              /\ HasRun(a) => HasRun(a)'
              /\ ~HasRun(a) /\ HasRun(a)' => OnWire(a)
         /\ \A a, b \in 1 .. MaxTask :
              ~HasRun(a) /\ HasRun(a)' /\ ~HasRun(b) /\ HasRun(b)' => a = b
PROOF
  <1>1. \A a \in 1 .. MaxTask : HasRun(a) => HasRun(a)'
    BY RanStays DEF HasRun
  <1>2. CASE UNCHANGED runs
    <2>1. \A a \in 1 .. MaxTask : HasRun(a)' => HasRun(a)
      BY <1>2 DEF HasRun, Ran
    <2> QED BY <1>1, <2>1
  <1>3. ASSUME NEW r, Starts(r)
        PROVE  \A a \in 1 .. MaxTask :
                 ~HasRun(a) /\ HasRun(a)' => OnWire(a) /\ a = r.frame.nonce
    <2> SUFFICES ASSUME NEW a \in 1 .. MaxTask, ~HasRun(a), HasRun(a)'
                 PROVE  OnWire(a) /\ a = r.frame.nonce
      OBVIOUS
    <2>1. /\ \A k \in DOMAIN runs' : k = Len(runs) + 1 \/ k \in DOMAIN runs
          /\ runs'[Len(runs) + 1] = r
          /\ \A k \in DOMAIN runs : runs'[k] = runs[k]
      BY <1>3, RunsExtend DEF Starts, SystemInv, HostTypeOK
    <2>2. PICK k \in DOMAIN runs' : runs'[k].frame.nonce = a
      BY DEF HasRun, Ran
    <2>3. k \notin DOMAIN runs
      BY <2>1, <2>2 DEF HasRun, Ran
    <2>4. a = r.frame.nonce
      BY <2>1, <2>2, <2>3
    <2>5. 1 \in DOMAIN wire /\ Head(wire) = wire[1]
      BY <1>3, Counts DEF Starts
    <2> QED BY <1>3, <2>4, <2>5 DEF OnWire, Starts
  <1> QED BY <1>1, <1>2, <1>3 DEF StartsAtMostOne

(* A step of the daemon requests what waited or what it was thinking of.   *)
LEMMA DaemonTable ==
  ASSUME SystemInv, DaemonStep
  PROVE  StepTable
PROOF
  <1>0. Daemon /\ UNCHANGED runs /\ IInv
    BY DEF DaemonStep, executor, SystemInv
  <1>1. StartsTask \/ EndsTask \/ Dispatches \/ Stashes \/ Send \/ Crash \/ Start
    BY <1>0, DaemonShape
  <1>2. ASSUME NEW a \in 1 .. MaxTask, OnWire(a)' PROVE OnWire(a) \/ Dispatching(a)
    <2>1. PICK k \in DOMAIN wire' : wire'[k].nonce = a
      BY <1>2 DEF OnWire
    <2>2. CASE k \in DOMAIN wire
      <3>1. wire'[k] = wire[k]
        BY <2>2, DaemonHost
      <3> QED BY <2>1, <2>2, <3>1 DEF OnWire
    <2>3. CASE Send /\ wire'[k] = current.frame
      <3>1. pc = "sending" /\ current.frame.nonce = current.action
        BY <2>3 DEF Send, SystemInv, IInv, CurrentSound, SignedHere
      <3> QED BY <2>1, <2>3, <3>1 DEF Dispatching
    <2> QED BY <2>2, <2>3, DaemonHost
  <1>3. ASSUME NEW a \in 1 .. MaxTask, Dispatching(a)'
        PROVE  Dispatching(a) \/ IsPending(a) \/ IsNew(a)
    <2>0. pc' \in {"sending", "waiting"} /\ a = current'.action
      BY <1>3 DEF Dispatching
    <2>1. CASE Dispatches
      <3>1. CASE SignsNow(current')
        BY <2>0, <3>1 DEF SignsNow, IsNew
      <3>2. CASE current' \in pending
        BY <2>0, <3>2 DEF IsPending
      <3> QED BY <2>1, <3>1, <3>2 DEF Dispatches
    <2>2. CASE Send
      BY <2>0, <2>2 DEF Send, Dispatching
    <2> QED BY <1>1, <2>0, <2>1, <2>2 DEF StartsTask, EndsTask, Stashes, Crash, Start
  <1>4. ASSUME NEW a \in 1 .. MaxTask, IsPending(a)' PROVE IsPending(a) \/ IsNew(a)
    <2>1. PICK p \in pending' : p.action = a
      BY <1>4 DEF IsPending
    <2>2. CASE Stashes
      <3>1. PICK c : SignsNow(c) /\ pending' \subseteq pending \union {c}
        BY <2>2 DEF Stashes
      <3> QED BY <2>1, <3>1 DEF SignsNow, IsNew, IsPending
    <2>3. CASE StartsTask \/ EndsTask \/ Dispatches \/ Send \/ Crash \/ Start
      <3>1. pending' \subseteq pending
        BY <2>3 DEF StartsTask, EndsTask, Dispatches, Send, Crash, Start, session
      <3> QED BY <2>1, <3>1 DEF IsPending
    <2> QED BY <1>1, <2>2, <2>3
  <1>5. ASSUME NEW a \in 1 .. MaxTask, IsNew(a)' PROVE IsNew(a)
    <2>1. tasks \in Nat /\ a \in Nat
      BY <1>0, ActionIds
    <2>2. CASE StartsTask
      BY <1>5, <2>1, <2>2 DEF StartsTask, IsNew
    <2>3. CASE EndsTask \/ Dispatches \/ Stashes \/ Send \/ Crash \/ Start
      <3>1. tasks' = tasks /\ pc' # "thinking"
        BY <2>3 DEF EndsTask, Dispatches, Stashes, Send, Crash, Start
      <3> QED BY <1>5, <3>1 DEF IsNew
    <2> QED BY <1>1, <2>2, <2>3
  <1>6. StartsAtMostOne
    BY <1>0 DEF StartsAtMostOne
  <1> QED BY <1>2, <1>3, <1>4, <1>5, <1>6, RunTable DEF StepTable

(* A step of the executor, or none: frames leave the wire, and the daemon  *)
(* is answered about the frame at its head or because it is gone.          *)
HostMoves ==
  /\ StartsAtMostOne
  /\ UNCHANGED <<pc, current, tasks, pending>>
  /\ wire' \in {wire, <<>>} \/ (wire # <<>> /\ wire' = Tail(wire))
  /\ \/ UNCHANGED reply
     \/ wire # <<>> /\ Served(Head(wire))
     \/ reply = NoReply

(* Every other step of the system is of that shape. *)
LEMMA OthersMoveHost ==
  ASSUME SystemInv,
         ExecutorStep \/ OperatorStep \/ UNCHANGED SystemVars
  PROVE  HostMoves
PROOF
  <1> USE DEF HostMoves, StartsAtMostOne, daemon, session
  <1>1. CASE ExecdAccept
    BY <1>1 DEF ExecdAccept, Execd!Accept, Execd!environment
  <1>2. CASE ExecdHandle \/ ExecdTakeSnapshot \/ ExecdExecute
    <2>1. Serves(Head(wire))
      BY <1>2, ServesHead
    <2>2. wire # <<>> /\ DaemonStays /\ conn # "running"
      BY <2>1 DEF Serves
    <2>3. CASE Refuses(Head(wire)) /\ Answer([outcome |-> response', snapshot |-> FALSE])
      BY <2>2, <2>3 DEF Refuses, Answer, DaemonStays
    <2>4. CASE Holds(Head(wire)) /\ UNCHANGED <<wire, reply>>
      BY <2>2, <2>4 DEF Holds, DaemonStays
    <2>5. CASE RunsNow(Head(wire)) /\ UNCHANGED <<wire, reply>>
      <3>1. PICK r : Starts(r)
        BY <2>2, <2>5 DEF RunsNow, Starts
      <3> QED BY <2>2, <2>5, <3>1 DEF DaemonStays
    <2> QED BY <2>1, <2>3, <2>4, <2>5 DEF Serves
  <1>3. CASE ExecdFinish
    <2>1. conn = "running" /\ UNCHANGED runs
      BY <1>3 DEF ExecdFinish, Execd!Finish
    <2>2. wire # <<>>
      BY <2>1 DEF SystemInv, RunIsHead
    <2> QED BY <1>3, <2>1, <2>2 DEF ExecdFinish, Answer
  <1>4. CASE ExecdRestart
    BY <1>4 DEF ExecdRestart, Execd!Restart
  <1>5. CASE OperatorStep
    BY <1>5 DEF OperatorStep, Operator, Tick, Install, executor
  <1>6. CASE UNCHANGED SystemVars
    BY <1>6 DEF SystemVars, vars, executor
  <1> QED BY <1>1, <1>2, <1>3, <1>4, <1>5, <1>6 DEF ExecutorStep

(* Such a step requests nothing and stashes nothing. *)
LEMMA HostTable ==
  ASSUME SystemInv, HostMoves
  PROVE  StepTable
PROOF
  <1>1. ASSUME NEW a \in 1 .. MaxTask, OnWire(a)' PROVE OnWire(a)
    <2>1. PICK k \in DOMAIN wire' : wire'[k].nonce = a
      BY <1>1 DEF OnWire
    <2>2. CASE wire' = wire
      BY <2>1, <2>2 DEF OnWire
    <2>3. CASE wire' = <<>>
      BY <2>1, <2>3
    <2>4. CASE wire # <<>> /\ wire' = Tail(wire)
      <3>1. k + 1 \in DOMAIN wire /\ wire'[k] = wire[k + 1]
        BY <2>1, <2>4, Counts
      <3> QED BY <2>1, <3>1 DEF OnWire
    <2> QED BY <2>2, <2>3, <2>4 DEF HostMoves
  <1>2. ASSUME NEW a \in 1 .. MaxTask, Dispatching(a)' PROVE OnWire(a) \/ Dispatching(a)
    <2>1. CASE UNCHANGED reply \/ reply = NoReply
      BY <1>2, <2>1 DEF HostMoves, Dispatching
    <2>2. CASE wire # <<>> /\ Served(Head(wire))
      <3>1. current.frame = Head(wire) /\ current.frame.nonce = current.action
        BY <2>2 DEF Served, SystemInv, IInv, CurrentSound, SignedHere
      <3>2. 1 \in DOMAIN wire /\ Head(wire) = wire[1]
        BY <2>2, Counts
      <3>3. a = current.action
        BY <1>2 DEF HostMoves, Dispatching
      <3> QED BY <3>1, <3>2, <3>3 DEF OnWire
    <2> QED BY <2>1, <2>2 DEF HostMoves
  <1>3. ASSUME NEW a \in 1 .. MaxTask
        PROVE  (IsPending(a)' => IsPending(a)) /\ (IsNew(a)' => IsNew(a))
    BY DEF HostMoves, IsPending, IsNew
  <1>4. StartsAtMostOne
    BY DEF HostMoves
  <1> QED BY <1>1, <1>2, <1>3, <1>4, RunTable DEF StepTable

(* An action moves along the edges of the abstract machine and no other,   *)
(* and of those that start to run in a step there is at most one.          *)
LEMMA LifecycleStep ==
  ASSUME PhaseTable, PhaseTable', StepTable
  PROVE  Lifecycle!Next
PROOF
  <1> USE DEF Lifecycle!Phase, Lifecycle!Edge
  <1>1. \A a \in 1 .. MaxTask : /\ LifecyclePhase(a) \in Lifecycle!Phase
                                /\ LifecyclePhase(a)' \in Lifecycle!Phase
    BY DEF PhaseTable
  <1>2. /\ \A a \in 1 .. MaxTask : LifecyclePhases[a] = LifecyclePhase(a)
        /\ \A a \in 1 .. MaxTask : LifecyclePhases'[a] = LifecyclePhase(a)'
        /\ LifecyclePhases' \in [1 .. MaxTask -> Lifecycle!Phase]
    BY <1>1 DEF LifecyclePhases
  <1>3. ASSUME NEW a \in 1 .. MaxTask, LifecyclePhase(a)' # LifecyclePhase(a)
        PROVE  <<LifecyclePhase(a), LifecyclePhase(a)'>> \in Lifecycle!Edge
    <2> HIDE DEF LifecyclePhase
    <2>1. CASE HasRun(a)
      BY <1>3, <2>1 DEF PhaseTable, StepTable
    <2>2. CASE ~HasRun(a) /\ a \in InFlight
      BY <1>3, <2>2 DEF PhaseTable, StepTable
    <2>3. CASE IsPending(a)
      BY <1>3, <2>3 DEF PhaseTable, StepTable
    <2>4. CASE IsNew(a)
      BY <1>3, <2>4 DEF PhaseTable, StepTable
    <2>5. CASE ~HasRun(a) /\ a \notin InFlight /\ ~IsPending(a) /\ ~IsNew(a)
      BY <1>3, <2>5 DEF PhaseTable, StepTable
    <2> QED BY <2>1, <2>2, <2>3, <2>4, <2>5
  <1>4. ASSUME NEW a \in 1 .. MaxTask
        PROVE  /\ LifecyclePhase(a)' = "ran" => HasRun(a)'
               /\ LifecyclePhase(a) # "ran" => ~HasRun(a)
    BY DEF PhaseTable
  <1>5. ASSUME NEW a \in 1 .. MaxTask, NEW b \in 1 .. MaxTask,
               LifecyclePhase(a)' = "ran", LifecyclePhase(a) # "ran",
               LifecyclePhase(b)' = "ran", LifecyclePhase(b) # "ran"
        PROVE  a = b
    BY <1>4, <1>5 DEF StepTable
  <1> HIDE DEF LifecyclePhases
  <1> QED BY <1>2, <1>3, <1>5 DEF Lifecycle!Next

(* The daemon, the executor and the socket between them implement the life *)
(* of an action: requested once, run at most once, and closed for good     *)
(* whichever process dies with it.                                         *)
THEOREM SystemRefinesLifecycle == SystemSpec => ImplementsLifecycle
PROOF
  <1>1. SystemInit => Lifecycle!Init
    <2> SUFFICES ASSUME SystemInit PROVE LifecyclePhases = [a \in 1 .. MaxTask |-> "new"]
      BY DEF Lifecycle!Init
    <2>1. PhaseTable
      BY InitSystemInv, Phases
    <2>2. tasks = 0
      BY DEF SystemInit, Init
    <2>3. \A a \in 1 .. MaxTask : IsNew(a)
      BY <2>2, BoundAssumption DEF IsNew
    <2>4. \A a \in 1 .. MaxTask : LifecyclePhase(a) = "new"
      BY <2>1, <2>3 DEF PhaseTable
    <2> QED BY <2>4 DEF LifecyclePhases
  <1>2. SystemInv => PhaseTable
    BY Phases
  <1>3. SystemInv /\ PhaseTable /\ PhaseTable' /\ [SystemNext]_SystemVars
          => [Lifecycle!Next]_LifecyclePhases
    <2> SUFFICES ASSUME SystemInv, PhaseTable, PhaseTable', [SystemNext]_SystemVars
                 PROVE  Lifecycle!Next
      OBVIOUS
    <2>1. StepTable
      BY DaemonTable, OthersMoveHost, HostTable DEF SystemNext, ExecutorStep
    <2> QED BY <2>1, LifecycleStep
  <1> QED BY <1>1, <1>2, <1>3, SystemInvariance, PTL DEF SystemSpec, ImplementsLifecycle, Lifecycle!Spec
=============================================================================
