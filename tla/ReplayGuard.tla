------------------------------ MODULE ReplayGuard ------------------------------
(***************************************************************************)
(* The executor's replay / reorder guard                                   *)
(* (crates/archangel-execd/src/replay.rs).  A request is admitted when its *)
(* seq exceeds the highest one admitted for its session and its nonce is   *)
(* not among the last NONCE_WINDOW admitted ones; a rejected request leaves*)
(* the guard untouched.                                                    *)
(***************************************************************************)
EXTENDS Integers, Sequences

CONSTANTS
  Session,       \* session ids
  Nonce,         \* request nonces (128-bit random values in the code)
  MaxSeq,        \* bound of the model on the u64 request counter
  NONCE_WINDOW   \* nonces remembered (4096 in the code)

ASSUME MaxSeqAssumption == MaxSeq \in Nat
ASSUME NonceWindowAssumption == NONCE_WINDOW \in Nat \ {0}

VARIABLES
  last_seq,      \* HashMap<SessionId, u64>; NoSeq where the map has no entry
  seen_nonces,   \* HashSet of remembered nonces
  nonce_order,   \* VecDeque of the same nonces, oldest first
  admitted       \* history: every request admitted so far, in order

guard == <<last_seq, seen_nonces, nonce_order>>
GuardVars == <<last_seq, seen_nonces, nonce_order, admitted>>

NoSeq == -1
Request == [session : Session, seq : 0 .. MaxSeq, nonce : Nonce]

GuardInit ==
  /\ last_seq = [s \in Session |-> NoSeq]
  /\ seen_nonces = {}
  /\ nonce_order = <<>>
  /\ admitted = <<>>

-----------------------------------------------------------------------------
(* Guards of admit, in the order it evaluates them. *)

NonMonotonicSeqAllowsEqual(r) == r.seq < last_seq[r.session]
NonMonotonicSeq(r) == r.seq <= last_seq[r.session]

DuplicateNonce(r) == r.nonce \in seen_nonces

Fresh(r) == ~NonMonotonicSeq(r) /\ ~DuplicateNonce(r)

(* The commit of an admitted request: the oldest nonce leaves the window   *)
(* once it holds more than NONCE_WINDOW of them.                           *)

RememberPopBack(n) ==
  IF Len(nonce_order) + 1 > NONCE_WINDOW
    THEN UNCHANGED <<nonce_order, seen_nonces>>
    ELSE /\ nonce_order' = Append(nonce_order, n)
         /\ seen_nonces' = seen_nonces \union {n}
RememberLeaksEvicted(n) ==
  /\ nonce_order' = IF Len(nonce_order) + 1 > NONCE_WINDOW
                      THEN Tail(Append(nonce_order, n))
                      ELSE Append(nonce_order, n)
  /\ seen_nonces' = seen_nonces \union {n}
RememberNeverEvicts(n) ==
  /\ nonce_order' = Append(nonce_order, n)
  /\ seen_nonces' = seen_nonces \union {n}
Remember(n) ==
  LET order == Append(nonce_order, n)
      seen  == seen_nonces \union {n}
  IN  IF Len(order) > NONCE_WINDOW
        THEN /\ nonce_order' = Tail(order)
             /\ seen_nonces' = seen \ {Head(order)}
        ELSE /\ nonce_order' = order
             /\ seen_nonces' = seen

Commit(r) ==
  /\ last_seq' = [last_seq EXCEPT ![r.session] = r.seq]
  /\ Remember(r.nonce)

(* One call of admit.  A refusal changes nothing, so it is a stutter here; *)
(* Executor.tla turns it into the Replay rejection.                        *)
admit(r) ==
  /\ Fresh(r)
  /\ Commit(r)
  /\ admitted' = Append(admitted, r)

GuardNext == \E r \in Request : admit(r)

GuardSpec == GuardInit /\ [][GuardNext]_GuardVars

-----------------------------------------------------------------------------
(* The guard's state has the shape of the Rust struct, and the nonce queue *)
(* is the bounded one its doc comment promises.                            *)
GuardTypeOK ==
  /\ last_seq \in [Session -> NoSeq .. MaxSeq]
  /\ seen_nonces \subseteq Nonce
  /\ nonce_order \in Seq(Nonce)
  /\ Len(nonce_order) <= NONCE_WINDOW
  /\ admitted \in Seq(Request)

(* No reordering, no duplicate: of two requests of one session admitted by *)
(* the same guard the later one carries the larger seq (replay.rs, "replay *)
(* of a previously-valid request, reordering, duplicate delivery").        *)
AdmittedInOrder ==
  \A i, j \in DOMAIN admitted :
    (i < j /\ admitted[i].session = admitted[j].session)
      => admitted[i].seq < admitted[j].seq

(* Nonce dedupe across all sessions: two admitted requests with the same   *)
(* nonce are more than NONCE_WINDOW admissions apart, so eviction never    *)
(* forgets a nonce early.                                                  *)
NonceWindowHolds ==
  \A i, j \in DOMAIN admitted :
    (i < j /\ admitted[i].nonce = admitted[j].nonce) => j - i > NONCE_WINDOW

(* The HashSet and the VecDeque never drift apart: a nonce left in the set *)
(* but not in the queue would be refused for ever, one left only in the    *)
(* queue would evict a newer copy of itself.                               *)
WindowCoherent ==
  /\ seen_nonces = {nonce_order[k] : k \in DOMAIN nonce_order}
  /\ \A k, l \in DOMAIN nonce_order : nonce_order[k] = nonce_order[l] => k = l

(* What makes the three properties inductive: the queue is the tail of the *)
(* admission history, and last_seq bounds the history of its session.      *)
Evicted == Len(admitted) - Len(nonce_order)
OrderIsRecentHistory ==
  /\ Evicted >= 0
  /\ Evicted > 0 => Len(nonce_order) = NONCE_WINDOW
  /\ \A k \in DOMAIN nonce_order : nonce_order[k] = admitted[Evicted + k].nonce
LastSeqBoundsHistory ==
  \A i \in DOMAIN admitted : admitted[i].seq <= last_seq[admitted[i].session]

GuardIInv ==
  /\ GuardTypeOK
  /\ WindowCoherent
  /\ OrderIsRecentHistory
  /\ LastSeqBoundsHistory
  /\ AdmittedInOrder
  /\ NonceWindowHolds
=============================================================================
