----------------------------- MODULE ExecutorProofs -----------------------------
(***************************************************************************)
(* Proofs about the executor for every set of frames, bundles and keys and *)
(* every configuration: whatever is delivered, in whatever order and over  *)
(* any number of restarts, it runs requests in order, within the ceilings, *)
(* under the current key and with a recovery point; the inductive          *)
(* invariant is IInv of Executor.                                          *)
(***************************************************************************)
EXTENDS Executor, FiniteSetTheorems, SequenceTheorems, WellFoundedInduction, TLAPS

(* A non-empty set of naturals has a least element: what Min chooses. *)
LEMMA MinIsLeast ==
  ASSUME NEW S \in SUBSET Nat, S # {}
  PROVE  Min(S) \in S /\ \A j \in S : Min(S) <= j
PROOF
  <1>1. PICK m \in S : \A j \in S : ~(<<j, m>> \in OpToRel(<, Nat))
    BY WFMin, NatLessThanWellFounded
  <1>2. \A j \in S : ~(j < m)
    BY <1>1 DEF OpToRel
  <1>3. \A j \in S : m <= j
    BY <1>2
  <1> QED BY <1>3 DEF Min

(* The gates and the order dispatch runs them in. *)
LEMMA Positions ==
  /\ Position["SignatureInvalid"] = 1 /\ Position["Replay"] = 2
  /\ Position["BundleUnverified"] = 3 /\ Position["ArgRejected"] = 4
  /\ Position["NotReadOnly"] = 5 /\ Position["DenylistHit"] = 6
  /\ Position["NotAllowlisted"] = 7 /\ Position["RateLimited"] = 8
  /\ Position \in [Gate -> 1 .. 8]
  /\ Admitted = 9
  /\ \A i \in 1 .. 8 : Pipeline[i] \in Gate
  /\ {"SignatureInvalid", "Replay", "BundleUnverified", "ArgRejected", "NotReadOnly",
      "DenylistHit", "NotAllowlisted", "RateLimited"} \subseteq Gate
PROOF
  <1>1. DOMAIN Pipeline = 1 .. 8 /\ Len(Pipeline) = 8
    BY DEF Pipeline
  <1>2. \A i \in 1 .. 8 : Pipeline[i] \in Gate
    BY <1>1 DEF Gate
  <1>3. ASSUME NEW i \in 1 .. 8 PROVE Position[Pipeline[i]] = i
    <2>1. \A j \in 1 .. 8 : Pipeline[j] = Pipeline[i] => j = i
      BY DEF Pipeline
    <2>2. Position[Pipeline[i]] = CHOOSE k \in DOMAIN Pipeline : Pipeline[k] = Pipeline[i]
      BY <1>2 DEF Position
    <2> HIDE DEF Pipeline
    <2> QED BY <1>1, <2>1, <2>2
  <1>4. /\ Pipeline[1] = "SignatureInvalid" /\ Pipeline[2] = "Replay"
        /\ Pipeline[3] = "BundleUnverified" /\ Pipeline[4] = "ArgRejected"
        /\ Pipeline[5] = "NotReadOnly" /\ Pipeline[6] = "DenylistHit"
        /\ Pipeline[7] = "NotAllowlisted" /\ Pipeline[8] = "RateLimited"
    BY DEF Pipeline
  <1>5. Position \in [Gate -> 1 .. 8]
    BY <1>1, <1>3 DEF Position, Gate
  <1>6. Admitted = 9
    BY <1>1 DEF Admitted
  <1> QED BY <1>2, <1>3, <1>4, <1>5, <1>6

(* prune(w) drops k admissions from the front, all of them a horizon old,  *)
(* and the oldest one it keeps is younger.                                 *)
LEMMA WindowPrune ==
  ASSUME NEW w \in Rate!Window, hits[w] \in Seq(0 .. MaxTime), now \in 0 .. MaxTime
  PROVE  \E k \in 0 .. Len(hits[w]) :
           /\ Rate!prune(w) \in Seq(0 .. MaxTime)
           /\ Len(Rate!prune(w)) = Len(hits[w]) - k
           /\ \A j \in 1 .. (Len(hits[w]) - k) : Rate!prune(w)[j] = hits[w][k + j]
           /\ \A j \in 1 .. k : now - hits[w][j] >= Rate!Horizon[w]
           /\ k < Len(hits[w]) => now - hits[w][k + 1] < Rate!Horizon[w]
PROOF
  <1> DEFINE q == hits[w]
             young == {i \in DOMAIN q : now - q[i] < Rate!Horizon[w]}
  <1>0. /\ q \in Seq(0 .. MaxTime) /\ Len(q) \in Nat /\ DOMAIN q = 1 .. Len(q)
        /\ now \in Nat /\ Rate!Horizon[w] \in Nat /\ MaxTime \in Nat
        /\ \A i \in 1 .. Len(q) : q[i] \in Nat
    BY RateAssumption DEF Rate!Horizon
  <1>0a. \A j \in 1 .. Len(q) : j \in young \/ now - q[j] >= Rate!Horizon[w]
    <2> SUFFICES ASSUME NEW j \in 1 .. Len(q), ~(now - q[j] >= Rate!Horizon[w])
                 PROVE  j \in young
      OBVIOUS
    <2>1. q[j] \in Nat /\ j \in DOMAIN q
      BY <1>0
    <2>2. now - q[j] < Rate!Horizon[w]
      BY <2>1, <1>0
    <2> QED BY <2>1, <2>2
  <1>1. CASE young = {}
    <2>1. Rate!prune(w) = <<>>
      BY <1>1 DEF Rate!prune
    <2>2. \A j \in 1 .. Len(q) : now - q[j] >= Rate!Horizon[w]
      BY <1>0a, <1>1
    <2> QED BY <1>0, <2>1, <2>2
  <1>2. CASE young # {}
    <2> DEFINE m == CHOOSE i \in young : \A j \in young : i <= j
    <2>1. Rate!prune(w) = SubSeq(q, m, Len(q))
      BY <1>2 DEF Rate!prune
    <2>2. \E i \in young : \A j \in young : i <= j
      <3>1. young \in SUBSET Nat
        BY <1>0
      <3> HIDE DEF young
      <3> QED BY <3>1, <1>2, MinIsLeast
    <2>3. m \in young /\ \A j \in young : m <= j
      BY <2>2
    <2> HIDE DEF m
    <2>4. m \in 1 .. Len(q) /\ now - q[m] < Rate!Horizon[w]
      BY <2>3, <1>0
    <2>5. \A j \in 1 .. (m - 1) : now - q[j] >= Rate!Horizon[w]
      <3> SUFFICES ASSUME NEW j \in 1 .. (m - 1)
                   PROVE  now - q[j] >= Rate!Horizon[w]
        OBVIOUS
      <3>1. j \in 1 .. Len(q) /\ ~(m <= j)
        BY <2>4, <1>0
      <3> HIDE DEF young
      <3> QED BY <3>1, <2>3, <1>0a
    <2>6. /\ SubSeq(q, m, Len(q)) \in Seq(0 .. MaxTime)
          /\ Len(SubSeq(q, m, Len(q))) = Len(q) - (m - 1)
          /\ \A j \in 1 .. (Len(q) - (m - 1)) : SubSeq(q, m, Len(q))[j] = q[(m - 1) + j]
      BY <1>0, <2>4, SMTT(30)
    <2>7. m - 1 \in 0 .. Len(q) /\ (m - 1) + 1 = m
      BY <2>4, <1>0
    <2>8. Rate!prune(w) \in Seq(0 .. MaxTime) /\ Len(Rate!prune(w)) = Len(q) - (m - 1)
      BY <2>1, <2>6
    <2>9. \A j \in 1 .. (Len(q) - (m - 1)) : Rate!prune(w)[j] = q[(m - 1) + j]
      BY <2>1, <2>6
    <2>10. now - q[(m - 1) + 1] < Rate!Horizon[w]
      BY <2>4, <2>7
    <2> HIDE DEF q
    <2>11. \E k \in 0 .. Len(q) :
             /\ Rate!prune(w) \in Seq(0 .. MaxTime)
             /\ Len(Rate!prune(w)) = Len(q) - k
             /\ \A j \in 1 .. (Len(q) - k) : Rate!prune(w)[j] = q[k + j]
             /\ \A j \in 1 .. k : now - q[j] >= Rate!Horizon[w]
             /\ k < Len(q) => now - q[k + 1] < Rate!Horizon[w]
      BY <2>7, <2>8, <2>9, <2>10, <2>5
    <2> QED BY <2>11 DEF q
  <1> QED BY <1>1, <1>2

(* prune of a window drops a prefix of it, all of it a horizon old. *)
LEMMA PruneDropsAged ==
  ASSUME TypeOK, NEW w \in Rate!Window
  PROVE  \E k \in 0 .. Len(hits[w]) :
           /\ Rate!prune(w) \in Seq(0 .. MaxTime)
           /\ Len(Rate!prune(w)) = Len(hits[w]) - k
           /\ \A j \in 1 .. (Len(hits[w]) - k) : Rate!prune(w)[j] = hits[w][k + j]
           /\ \A j \in 1 .. k : now - hits[w][j] >= Rate!Horizon[w]
PROOF
  <1>1. hits[w] \in Seq(0 .. MaxTime) /\ now \in 0 .. MaxTime
    BY DEF TypeOK, Rate!Window
  <1> QED BY <1>1, WindowPrune

-----------------------------------------------------------------------------
(* What a window counts since t. *)
Young(q, t) == {k \in DOMAIN q : q[k] >= t}

(* Counting a window is counting positions of a finite queue. *)
LEMMA YoungFinite ==
  ASSUME NEW q \in Seq(0 .. MaxTime), NEW t
  PROVE  /\ IsFiniteSet(Young(q, t)) /\ Cardinality(Young(q, t)) \in Nat
         /\ Cardinality(Young(q, t)) <= Len(q)
PROOF
  <1>0. Len(q) \in Nat
    OBVIOUS
  <1>1. IsFiniteSet(1 .. Len(q)) /\ Cardinality(1 .. Len(q)) = Len(q)
    <2>1. /\ IsFiniteSet(1 .. Len(q))
          /\ Cardinality(1 .. Len(q)) = IF 1 > Len(q) THEN 0 ELSE Len(q) - 1 + 1
      BY <1>0, FS_Interval
    <2> QED BY <1>0, <2>1
  <1>2. Young(q, t) \in SUBSET (1 .. Len(q))
    <2>1. DOMAIN q = 1 .. Len(q)
      OBVIOUS
    <2>2. Young(q, t) \subseteq DOMAIN q
      BY DEF Young
    <2> QED BY <2>1, <2>2
  <1>3. IsFiniteSet(Young(q, t)) /\ Cardinality(Young(q, t)) <= Len(q)
    BY <1>1, <1>2, FS_Subset
  <1> QED BY <1>3, FS_CardinalityType

(* Pruning loses nothing younger than a horizon. *)
LEMMA PruneKeepsYoung ==
  ASSUME TypeOK, NEW w \in Rate!Window, NEW t \in 0 .. MaxTime, now - t < Rate!Horizon[w]
  PROVE  Cardinality(Young(hits[w], t)) <= Cardinality(Young(Rate!prune(w), t))
PROOF
  <1> DEFINE q == hits[w]
             p == Rate!prune(w)
  <1>1. PICK k \in 0 .. Len(q) :
          /\ p \in Seq(0 .. MaxTime)
          /\ Len(p) = Len(q) - k
          /\ \A j \in 1 .. (Len(q) - k) : p[j] = q[k + j]
          /\ \A j \in 1 .. k : now - q[j] >= Rate!Horizon[w]
    BY PruneDropsAged
  <1>2. /\ q \in Seq(0 .. MaxTime) /\ MaxTime \in Nat /\ now \in Nat /\ t \in Nat
        /\ Rate!Horizon[w] \in Nat
    BY RateAssumption DEF TypeOK, Rate!Horizon, Rate!Window
  <1> DEFINE S == Young(q, t)
             T == Young(p, t)
             g == [i \in S |-> i - k]
  <1> HIDE DEF p, q
  <1>2a. \A i \in 1 .. Len(q) : q[i] \in Nat
    BY <1>2
  <1>3. ASSUME NEW i \in S PROVE i \in 1 .. Len(q) /\ i > k /\ i - k \in T
    <2>1. i \in 1 .. Len(q) /\ q[i] >= t /\ q[i] \in Nat
      BY <1>2, <1>2a DEF Young
    <2>2. i > k
      <3>1. CASE i <= k
        <4>1. i \in 1 .. k
          BY <1>1, <2>1, <3>1
        <4>2. now - q[i] >= Rate!Horizon[w]
          BY <1>1, <4>1
        <4> QED BY <1>2, <2>1, <4>2
      <3> QED BY <1>1, <2>1, <3>1
    <2>3. i - k \in 1 .. Len(p) /\ k + (i - k) = i
      BY <1>1, <1>2, <2>1, <2>2
    <2>4. p[i - k] = q[i]
      BY <1>1, <2>3
    <2> QED BY <1>1, <2>1, <2>2, <2>3, <2>4 DEF Young
  <1>4. g \in Injection(S, T)
    BY <1>1, <1>3 DEF Injection, IsInjective
  <1>5. IsFiniteSet(T)
    BY <1>1, YoungFinite
  <1> QED BY <1>4, <1>5, FS_Injection DEF p, q

(* An entry appended now is counted from every t up to now. *)
LEMMA AppendCounts ==
  ASSUME NEW q \in Seq(0 .. MaxTime), NEW x \in 0 .. MaxTime, NEW t \in 0 .. MaxTime
  PROVE  Cardinality(Young(Append(q, x), t)) =
           Cardinality(Young(q, t)) + (IF x >= t THEN 1 ELSE 0)
PROOF
  <1>1. /\ DOMAIN Append(q, x) = 1 .. Len(q) + 1 /\ Append(q, x)[Len(q) + 1] = x
        /\ \A k \in 1 .. Len(q) : Append(q, x)[k] = q[k]
        /\ Len(q) \in Nat /\ DOMAIN q = 1 .. Len(q)
    <2>1. Len(q) \in Nat /\ DOMAIN q = 1 .. Len(q)
      OBVIOUS
    <2>2. /\ Append(q, x) \in Seq(0 .. MaxTime) /\ Len(Append(q, x)) = Len(q) + 1
          /\ Append(q, x)[Len(q) + 1] = x
          /\ \A k \in 1 .. Len(q) : Append(q, x)[k] = q[k]
      BY AppendProperties
    <2>3. DOMAIN Append(q, x) = 1 .. Len(Append(q, x))
      BY <2>2, LenProperties
    <2> QED BY <2>1, <2>2, <2>3
  <1>2. IsFiniteSet(Young(q, t)) /\ Len(q) + 1 \notin Young(q, t) /\ Cardinality(Young(q, t)) \in Nat
    <2>1. IsFiniteSet(Young(q, t)) /\ Cardinality(Young(q, t)) \in Nat
      BY YoungFinite
    <2>2. Len(q) + 1 \notin Young(q, t)
      BY <1>1 DEF Young
    <2> QED BY <2>1, <2>2
  <1>3. CASE x >= t
    <2>1. Young(Append(q, x), t) = Young(q, t) \union {Len(q) + 1}
      BY <1>1, <1>3 DEF Young
    <2> QED BY <1>2, <1>3, <2>1, FS_AddElement
  <1>4. CASE ~(x >= t)
    <2>1. Young(Append(q, x), t) = Young(q, t)
      BY <1>1, <1>4 DEF Young
    <2> QED BY <1>2, <1>4, <2>1
  <1> QED BY <1>3, <1>4

-----------------------------------------------------------------------------
(* dispatch stops at the first gate that refuses: every gate before the    *)
(* stop has let the frame pass.                                            *)
LEMMA StopIsFirst ==
  ASSUME NEW f, NEW b
  PROVE  LET stop == first_refusal(f, b)
         IN  /\ stop \in 1 .. 9
             /\ \A g \in Gate : Position[g] < stop => ~refuses(f, b)[g]
PROOF
  <1> DEFINE gates == refuses(f, b)
             S == {Position[g] : g \in {g \in Gate : gates[g]}} \union {Admitted}
             stop == first_refusal(f, b)
  <1>1. stop = Min(S)
    BY DEF first_refusal
  <1> HIDE DEF gates, stop
  <1>2. S \in SUBSET (1 .. 9) /\ S \in SUBSET Nat /\ S # {}
    BY Positions
  <1>3. stop \in S /\ \A j \in S : stop <= j
    <2> HIDE DEF S
    <2> QED BY <1>1, <1>2, MinIsLeast
  <1>4. ASSUME NEW g \in Gate, Position[g] < stop PROVE ~gates[g]
    <2>1. Position[g] \in 1 .. 8
      BY Positions
    <2>2. gates[g] => Position[g] \in S
      OBVIOUS
    <2> HIDE DEF S
    <2> QED BY <1>2, <1>3, <1>4, <2>1, <2>2
  <1> HIDE DEF S
  <1> QED BY <1>2, <1>3, <1>4 DEF stop, gates

(* What it means to have passed the gates with an effect, and all of them. *)
LEMMA PassedGates ==
  ASSUME NEW f, NEW b, NEW stop, stop = first_refusal(f, b)
  PROVE  /\ stop \in 1 .. 9
         /\ stop > 2 => Replay!Fresh(f)
         /\ stop > 8 => Rate!Admissible(ActionClass(b))
         /\ stop = 9 => f.key = session_key /\ Judged(f, b, mode_ceiling)
PROOF
  <1> DEFINE gates == refuses(f, b)
  <1>1. /\ stop \in 1 .. 9
        /\ \A g \in Gate : Position[g] < stop => ~gates[g]
    BY StopIsFirst
  <1>2. /\ "SignatureInvalid" \in Gate /\ "Replay" \in Gate /\ "BundleUnverified" \in Gate
        /\ "ArgRejected" \in Gate /\ "NotReadOnly" \in Gate /\ "DenylistHit" \in Gate
        /\ "NotAllowlisted" \in Gate /\ "RateLimited" \in Gate
    BY Positions
  <1>3. /\ gates["SignatureInvalid"] = (f.key # session_key)
        /\ gates["Replay"] = ~Replay!Fresh(f)
        /\ gates["BundleUnverified"] = ~b.signed
        /\ gates["ArgRejected"] = (f.args \notin b.args)
        /\ gates["NotReadOnly"] = ~check_mutation(f, b)
        /\ gates["DenylistHit"] = (Policy!evaluate(f.profile, f.mode, f.exec, b) = "Deny")
        /\ gates["NotAllowlisted"]
             = (Policy!evaluate(f.profile, f.mode, f.exec, b) = "NotAllowed")
        /\ gates["RateLimited"] = ~Rate!Admissible(ActionClass(b))
    BY DEF refuses
  <1> HIDE DEF gates
  <1>4. /\ stop > 2 => ~gates["Replay"]
        /\ stop > 8 => ~gates["RateLimited"]
        /\ stop = 9 => /\ ~gates["SignatureInvalid"] /\ ~gates["BundleUnverified"]
                       /\ ~gates["ArgRejected"] /\ ~gates["NotReadOnly"]
                       /\ ~gates["DenylistHit"] /\ ~gates["NotAllowlisted"]
    BY <1>1, <1>2, Positions
  <1>5. stop = 9 => f.key = session_key /\ Judged(f, b, mode_ceiling)
    <2> SUFFICES ASSUME stop = 9 PROVE f.key = session_key /\ Judged(f, b, mode_ceiling)
      OBVIOUS
    <2>1. /\ ~(f.key # session_key) /\ ~(~b.signed) /\ ~(f.args \notin b.args)
          /\ ~(~check_mutation(f, b))
          /\ Policy!evaluate(f.profile, f.mode, f.exec, b) # "Deny"
          /\ Policy!evaluate(f.profile, f.mode, f.exec, b) # "NotAllowed"
      BY <1>3, <1>4, Zenon
    <2> QED BY <2>1, Zenon DEF Judged, check_mutation
  <1> QED BY <1>1, <1>3, <1>4, <1>5

-----------------------------------------------------------------------------
(* The replay guard after a request, refused or not: it keeps its shape    *)
(* and its last_seq never goes back; what it admitted was above last_seq.  *)
LEMMA GuardStep ==
  ASSUME TypeOK, NEW f \in Frame, NEW passed \in BOOLEAN, passed => Replay!Fresh(f),
         IF passed THEN Replay!Commit(f) ELSE UNCHANGED replay
  PROVE  /\ last_seq' \in [Session -> Replay!NoSeq .. MaxSeq]
         /\ seen_nonces' \subseteq Nonce /\ nonce_order' \in Seq(Nonce)
         /\ Len(nonce_order') <= NONCE_WINDOW
         /\ \A s \in Session : last_seq[s] <= last_seq'[s]
         /\ passed => last_seq[f.session] < f.seq /\ last_seq'[f.session] = f.seq
PROOF
  <1>0. /\ last_seq \in [Session -> Replay!NoSeq .. MaxSeq]
        /\ seen_nonces \subseteq Nonce /\ nonce_order \in Seq(Nonce)
        /\ Len(nonce_order) <= NONCE_WINDOW /\ MaxSeq \in Nat /\ Replay!NoSeq = -1
        /\ f.session \in Session /\ f.seq \in 0 .. MaxSeq /\ f.nonce \in Nonce
        /\ NONCE_WINDOW \in Nat \ {0}
    BY FrameAssumption, GuardAssumption DEF TypeOK, Replay!NoSeq
  <1>1. CASE ~passed
    BY <1>0, <1>1 DEF replay
  <1>2. CASE passed
    <2>1. last_seq' = [last_seq EXCEPT ![f.session] = f.seq]
      BY <1>2 DEF Replay!Commit
    <2>2. last_seq[f.session] < f.seq
      BY <1>0, <1>2 DEF Replay!Fresh, Replay!NonMonotonicSeq
    <2>3. last_seq' \in [Session -> Replay!NoSeq .. MaxSeq] /\ last_seq'[f.session] = f.seq
          /\ \A s \in Session : last_seq[s] <= last_seq'[s]
      BY <1>0, <2>1, <2>2
    <2> DEFINE order == Append(nonce_order, f.nonce)
    <2>4. order \in Seq(Nonce) /\ Len(order) = Len(nonce_order) + 1 /\ Head(order) \in Nonce
          /\ Tail(order) \in Seq(Nonce) /\ Len(Tail(order)) = Len(nonce_order)
      BY <1>0
    <2> HIDE DEF order
    <2>5. /\ seen_nonces' \subseteq Nonce /\ nonce_order' \in Seq(Nonce)
          /\ Len(nonce_order') <= NONCE_WINDOW
      <3>1. CASE Len(order) > NONCE_WINDOW
        <4>1. nonce_order' = Tail(order) /\ seen_nonces' \subseteq seen_nonces \union {f.nonce}
          BY <1>2, <3>1 DEF Replay!Commit, Replay!Remember, order
        <4> QED BY <1>0, <2>4, <4>1
      <3>2. CASE ~(Len(order) > NONCE_WINDOW)
        <4>1. nonce_order' = order /\ seen_nonces' = seen_nonces \union {f.nonce}
          BY <1>2, <3>2 DEF Replay!Commit, Replay!Remember, order
        <4> QED BY <1>0, <2>4, <3>2, <4>1
      <3> QED BY <3>1, <3>2
    <2> QED BY <2>2, <2>3, <2>5
  <1> QED BY <1>1, <1>2

(* The rate windows after a request that stopped at stop: none exceeds its *)
(* ceiling or loses anything young, an admitted action is charged to every *)
(* window of its class, and each of those had room for it.                 *)
LEMMA ChargeStep ==
  ASSUME TypeOK, NEW b, NEW stop \in 1 .. 9, Charge(b, stop),
         stop > 8 => Rate!Admissible(ActionClass(b))
  PROVE  /\ hits' \in [Rate!Window -> Seq(0 .. MaxTime)]
         /\ \A w \in Rate!Window : Len(hits'[w]) <= Limit[w]
         /\ \A w \in Rate!Window, t \in 0 .. MaxTime :
              now - t < Rate!Horizon[w] =>
                /\ Cardinality(Young(hits[w], t)) <= Cardinality(Young(hits'[w], t))
                /\ (stop > 8 /\ w \in Rate!Applies(ActionClass(b))) =>
                     /\ Cardinality(Young(hits[w], t)) < Limit[w]
                     /\ Cardinality(Young(hits[w], t)) + (IF now >= t THEN 1 ELSE 0)
                          <= Cardinality(Young(hits'[w], t))
PROOF
  <1> DEFINE class == ActionClass(b)
  <1>0. /\ Passed("RateLimited", stop) <=> stop > 8
        /\ stop = Position["RateLimited"] <=> stop = 8
    BY Positions DEF Passed
  <1>1. /\ DOMAIN hits' = Rate!Window
        /\ \A w \in Rate!Window :
             \/ hits'[w] = hits[w] /\ ~(stop > 8 /\ w \in Rate!Applies(class))
             \/ hits'[w] = Rate!prune(w) /\ ~(stop > 8 /\ w \in Rate!Applies(class))
             \/ /\ hits'[w] = Append(Rate!prune(w), now)
                /\ stop > 8 /\ w \in Rate!Applies(class)
    <2> HIDE DEF class
    <2>1. CASE stop > 8
      <3>1. hits' = Rate!Recorded(class)
        BY <1>0, <2>1 DEF Charge, class
      <3> QED BY <2>1, <3>1 DEF Rate!Recorded
    <2>2. CASE stop = 8
      <3>1. hits' = Rate!Pruned(class)
        BY <1>0, <2>2 DEF Charge, class
      <3> QED BY <2>2, <3>1 DEF Rate!Pruned
    <2>3. CASE stop < 8
      <3>1. hits' = hits
        BY <1>0, <2>3 DEF Charge
      <3> QED BY <2>3, <3>1 DEF TypeOK
    <2> QED BY <2>1, <2>2, <2>3
  <1>2. \A w \in Rate!Window : hits[w] \in Seq(0 .. MaxTime) /\ Len(hits[w]) <= Limit[w]
                               /\ Limit[w] \in Nat /\ Len(hits[w]) \in Nat
    BY RateAssumption DEF TypeOK, Rate!Window
  <1>3. \A w \in Rate!Window : Rate!prune(w) \in Seq(0 .. MaxTime)
                               /\ Len(Rate!prune(w)) <= Len(hits[w])
                               /\ Len(Rate!prune(w)) \in Nat
    BY PruneDropsAged, <1>2
  <1>4. now \in 0 .. MaxTime
    BY DEF TypeOK
  <1> HIDE DEF class
  <1>5. ASSUME NEW w \in Rate!Window, stop > 8, w \in Rate!Applies(class)
        PROVE  Len(Rate!prune(w)) < Limit[w]
    BY <1>2, <1>3, <1>5 DEF Rate!Admissible, Rate!is_full, class
  <1>6. ASSUME NEW w \in Rate!Window
        PROVE  hits'[w] \in Seq(0 .. MaxTime) /\ Len(hits'[w]) <= Limit[w]
    <2>1. CASE hits'[w] = hits[w] \/ hits'[w] = Rate!prune(w)
      BY <1>2, <1>3, <2>1
    <2>2. CASE hits'[w] = Append(Rate!prune(w), now) /\ stop > 8 /\ w \in Rate!Applies(class)
      <3>1. Append(Rate!prune(w), now) \in Seq(0 .. MaxTime)
            /\ Len(Append(Rate!prune(w), now)) = Len(Rate!prune(w)) + 1
        BY <1>3, <1>4, AppendProperties
      <3> QED BY <1>2, <1>3, <1>5, <2>2, <3>1
    <2> QED BY <1>1, <2>1, <2>2
  <1>7. ASSUME NEW w \in Rate!Window, NEW t \in 0 .. MaxTime, now - t < Rate!Horizon[w]
        PROVE  /\ Cardinality(Young(hits[w], t)) <= Cardinality(Young(hits'[w], t))
               /\ (stop > 8 /\ w \in Rate!Applies(class)) =>
                     /\ Cardinality(Young(hits[w], t)) < Limit[w]
                     /\ Cardinality(Young(hits[w], t)) + (IF now >= t THEN 1 ELSE 0)
                          <= Cardinality(Young(hits'[w], t))
    <2>1. Cardinality(Young(hits[w], t)) <= Cardinality(Young(Rate!prune(w), t))
      BY <1>7, PruneKeepsYoung
    <2>2. /\ Cardinality(Young(Rate!prune(w), t)) <= Len(Rate!prune(w))
          /\ Cardinality(Young(Rate!prune(w), t)) \in Nat
          /\ Cardinality(Young(hits[w], t)) \in Nat
      BY <1>2, <1>3, YoungFinite
    <2>3. Cardinality(Young(Append(Rate!prune(w), now), t)) =
            Cardinality(Young(Rate!prune(w), t)) + (IF now >= t THEN 1 ELSE 0)
      BY <1>3, <1>4, AppendCounts
    <2>4. CASE hits'[w] = hits[w] /\ ~(stop > 8 /\ w \in Rate!Applies(class))
      BY <2>2, <2>4
    <2>5. CASE hits'[w] = Rate!prune(w) /\ ~(stop > 8 /\ w \in Rate!Applies(class))
      BY <2>1, <2>5
    <2>6. CASE /\ hits'[w] = Append(Rate!prune(w), now)
               /\ stop > 8 /\ w \in Rate!Applies(class)
      <3>1. Len(Rate!prune(w)) < Limit[w]
        BY <1>5, <2>6
      <3> QED BY <1>2, <1>3, <2>1, <2>2, <2>3, <2>6, <3>1
    <2> QED BY <1>1, <2>4, <2>5, <2>6
  <1>8. hits' \in [Rate!Window -> Seq(0 .. MaxTime)]
    <2>1. hits' = [w \in Rate!Window |-> hits'[w]]
      <3>1. CASE stop > 8
        <4>1. hits' = Rate!Recorded(class)
          BY <1>0, <3>1 DEF Charge, class
        <4> QED BY <4>1 DEF Rate!Recorded
      <3>2. CASE stop = 8
        BY <1>0, <3>2 DEF Charge, Rate!Pruned
      <3>3. CASE stop < 8
        BY <1>0, <3>3, SMTT(30) DEF Charge, TypeOK
      <3> QED BY <3>1, <3>2, <3>3
    <2> QED BY <1>6, <2>1
  <1> QED BY <1>6, <1>7, <1>8 DEF class

-----------------------------------------------------------------------------
(* Histories of work.  Two records of the same request agree in everything *)
(* the order, the ceilings and the keys are about.                         *)
Alike(r, s) ==
  /\ r.frame = s.frame /\ r.bundle = s.bundle /\ r.at = s.at
  /\ r.boot = s.boot /\ r.accepted = s.accepted

(* What the fields of a run are. *)
LEMMA RunFields ==
  ASSUME NEW r \in Run
  PROVE  /\ r.frame \in Frame /\ r.frame.session \in Session /\ r.frame.seq \in Int
         /\ r.bundle \in Bundle /\ r.at \in 0 .. MaxTime /\ r.at \in Nat /\ r.boot \in Nat
PROOF
  <1>1. r.frame \in Frame /\ r.bundle \in Bundle /\ r.at \in 0 .. MaxTime /\ r.boot \in 1 .. MaxBoot
    BY DEF Run
  <1>2. r.frame.session \in Session /\ r.frame.seq \in Int
    BY <1>1, FrameAssumption, GuardAssumption
  <1> QED BY <1>1, <1>2, RateAssumption, ExecutorBounds

(* The work is the runs, and the request that was admitted last. *)
WorkShape ==
  /\ work \in Seq(Run) /\ Len(work) \in Nat /\ DOMAIN work = 1 .. Len(work)
  /\ Len(runs) \in Nat /\ DOMAIN runs = 1 .. Len(runs)
  /\ \A i \in DOMAIN runs : i \in DOMAIN work /\ work[i] = runs[i]
  /\ ~Busy => work = runs
  /\ Busy => /\ RunRecord \in Run /\ Len(work) = Len(runs) + 1
             /\ work[Len(runs) + 1] = RunRecord
LEMMA WorkIsRuns == TypeOK => WorkShape
PROOF
  <1> SUFFICES ASSUME TypeOK PROVE WorkShape
    OBVIOUS
  <1>1. runs \in Seq(Run) /\ Len(runs) \in Nat /\ DOMAIN runs = 1 .. Len(runs)
    BY DEF TypeOK
  <1>2. CASE ~Busy
    <2>1. work = runs
      BY <1>2 DEF work
    <2> QED BY <1>1, <1>2, <2>1 DEF WorkShape
  <1>3. CASE Busy
    <2>1. RunRecord \in Run
      <3>1. /\ job \in Job /\ boot \in 1 .. MaxBoot /\ mode_ceiling \in HostMode
            /\ accepted \in NoKey .. MaxKey
        BY <1>3 DEF TypeOK
      <3> QED BY <3>1 DEF RunRecord, Job, Run
    <2>2. work = Append(runs, RunRecord)
      BY <1>3 DEF work
    <2>3. /\ work \in Seq(Run) /\ Len(work) = Len(runs) + 1 /\ work[Len(runs) + 1] = RunRecord
          /\ \A i \in 1 .. Len(runs) : work[i] = runs[i]
      BY <1>1, <2>1, <2>2, AppendProperties
    <2>4. DOMAIN work = 1 .. Len(work)
      BY <2>3, LenProperties
    <2>5. \A i \in DOMAIN runs : i \in DOMAIN work /\ work[i] = runs[i]
      BY <1>1, <2>3, <2>4
    <2> QED BY <1>1, <1>3, <2>1, <2>3, <2>4, <2>5 DEF WorkShape
  <1> QED BY <1>2, <1>3
LEMMA WorkIsRunsNext == TypeOK' => WorkShape'
  BY WorkIsRuns, PTL

(* Dropping work from the end keeps the order, the ceilings and the keys.  *)
LEMMA Shorter ==
  ASSUME NEW h \in Seq(Run), NEW g \in Seq(Run), Len(g) <= Len(h),
         \A i \in DOMAIN g : Alike(g[i], h[i]),
         InOrder(h), WithinCeilings(h), UnderCurrentKey(h)
  PROVE  InOrder(g) /\ WithinCeilings(g) /\ UnderCurrentKey(g)
PROOF
  <1>1. /\ DOMAIN g = 1 .. Len(g) /\ DOMAIN h = 1 .. Len(h) /\ Len(g) \in Nat /\ Len(h) \in Nat
    BY LenProperties
  <1>2. \A i \in DOMAIN g : /\ i \in DOMAIN h /\ i \in Nat
                            /\ g[i].frame = h[i].frame /\ g[i].bundle = h[i].bundle
                            /\ g[i].at = h[i].at /\ g[i].boot = h[i].boot
                            /\ g[i].accepted = h[i].accepted
    BY <1>1 DEF Alike
  <1>3. InOrder(g)
    BY <1>2 DEF InOrder
  <1>4. UnderCurrentKey(g)
    BY <1>2 DEF UnderCurrentKey
  <1>5. WithinCeilings(g)
    <2> SUFFICES ASSUME NEW w \in Rate!Window, NEW j \in DOMAIN g, Counted(w, g[j], g[j].boot)
                 PROVE  Cardinality({i \in 1 .. j : /\ Counted(w, g[i], g[j].boot)
                                       /\ g[j].at - g[i].at < Rate!Horizon[w]}) <= Limit[w]
      BY DEF WithinCeilings
    <2>1. Counted(w, h[j], h[j].boot) /\ j \in DOMAIN h
      BY <1>2 DEF Counted
    <2>2. \A i \in 1 .. j : i \in DOMAIN g
      BY <1>1
    <2>3. \A i \in 1 .. j : /\ Counted(w, g[i], g[j].boot) <=> Counted(w, h[i], h[j].boot)
                            /\ g[j].at - g[i].at = h[j].at - h[i].at
      BY <1>2, <2>2 DEF Counted
    <2>4. {i \in 1 .. j : /\ Counted(w, g[i], g[j].boot)
                          /\ g[j].at - g[i].at < Rate!Horizon[w]}
            = {i \in 1 .. j : /\ Counted(w, h[i], h[j].boot)
                              /\ h[j].at - h[i].at < Rate!Horizon[w]}
      BY <2>3
    <2> QED BY <2>1, <2>4 DEF WithinCeilings
  <1> QED BY <1>3, <1>4, <1>5

(* So what holds of the work holds of the runs. *)
LEMMA RunsAreWork ==
  ASSUME TypeOK, InOrder(work), WithinCeilings(work), UnderCurrentKey(work)
  PROVE  InOrder(runs) /\ WithinCeilings(runs) /\ UnderCurrentKey(runs)
PROOF
  <1>1. /\ work \in Seq(Run) /\ runs \in Seq(Run) /\ Len(runs) <= Len(work)
    BY WorkIsRuns DEF WorkShape, TypeOK
  <1>2. \A i \in DOMAIN runs : Alike(runs[i], work[i])
    BY WorkIsRuns DEF WorkShape, Alike
  <1> QED BY <1>1, <1>2, Shorter

(* The work a window counts is finite. *)
LEMMA WorkSinceFinite ==
  ASSUME TypeOK, NEW w, NEW t
  PROVE  IsFiniteSet(WorkSince(w, t)) /\ Cardinality(WorkSince(w, t)) \in Nat
PROOF
  <1>1. Len(work) \in Nat /\ DOMAIN work = 1 .. Len(work)
    BY WorkIsRuns DEF WorkShape
  <1>2. IsFiniteSet(DOMAIN work)
    BY <1>1, FS_Interval
  <1>3. WorkSince(w, t) \in SUBSET DOMAIN work
    BY DEF WorkSince
  <1>4. IsFiniteSet(WorkSince(w, t))
    BY <1>2, <1>3, FS_Subset
  <1> QED BY <1>4, FS_CardinalityType

-----------------------------------------------------------------------------
(* Steps of one process that admit nothing: what it has admitted stays as  *)
(* it was or loses its last request, the guard only moves forward and the  *)
(* windows lose nothing young.                                             *)
LEMMA NothingAdmitted ==
  ASSUME IInv, TypeOK', now' >= now, boot' = boot,
         Len(work') <= Len(work), \A i \in DOMAIN work' : Alike(work'[i], work[i]),
         \A s \in Session : last_seq[s] <= last_seq'[s],
         \A w \in Rate!Window, t \in 0 .. MaxTime :
           now - t < Rate!Horizon[w] =>
             Cardinality(Young(hits[w], t)) <= Cardinality(Young(hits'[w], t))
  PROVE  /\ LastSeqBoundsWork' /\ HistoryIsPast' /\ WorkIsCharged'
         /\ InOrder(work') /\ WithinCeilings(work') /\ UnderCurrentKey(work')
PROOF
  <1>1. /\ work \in Seq(Run) /\ DOMAIN work = 1 .. Len(work) /\ Len(work) \in Nat
    BY WorkIsRuns DEF IInv, WorkShape
  <1>2. /\ work' \in Seq(Run) /\ DOMAIN work' = 1 .. Len(work') /\ Len(work') \in Nat
    BY WorkIsRunsNext DEF WorkShape
  <1>3. \A i \in DOMAIN work' :
          /\ i \in DOMAIN work /\ work[i] \in Run
          /\ work'[i].frame = work[i].frame /\ work'[i].bundle = work[i].bundle
          /\ work'[i].at = work[i].at /\ work'[i].boot = work[i].boot
    BY <1>1, <1>2 DEF Alike
  <1>4. /\ now \in Nat /\ now' \in Nat /\ MaxTime \in Nat
        /\ \A w \in Rate!Window : Rate!Horizon[w] \in Nat
    BY RateAssumption DEF IInv, TypeOK, Rate!Horizon, Rate!Window
  <1>5. InOrder(work') /\ WithinCeilings(work') /\ UnderCurrentKey(work')
    BY <1>1, <1>2, Shorter DEF IInv
  <1>6. LastSeqBoundsWork'
    <2> SUFFICES ASSUME NEW i \in DOMAIN work', work'[i].boot = boot
                 PROVE  work'[i].frame.seq <= last_seq'[work'[i].frame.session]
      BY DEF LastSeqBoundsWork
    <2>1. work[i].frame.seq <= last_seq[work[i].frame.session]
      BY <1>3 DEF IInv, LastSeqBoundsWork
    <2>2. work[i].frame.session \in Session /\ work[i].frame.seq \in Int
      BY <1>3, RunFields
    <2>3. \A s \in Session : last_seq[s] \in Int /\ last_seq'[s] \in Int
      BY GuardAssumption DEF IInv, TypeOK, Replay!NoSeq
    <2> QED BY <1>3, <2>1, <2>2, <2>3
  <1>7. HistoryIsPast'
    <2> SUFFICES ASSUME NEW i \in DOMAIN work'
                 PROVE  work'[i].boot <= boot /\ work'[i].at <= now'
      BY DEF HistoryIsPast
    <2>1. work[i].boot <= boot /\ work[i].at <= now /\ work[i].at \in Nat
      BY <1>3, RunFields DEF IInv, HistoryIsPast
    <2> QED BY <1>3, <1>4, <2>1
  <1>8. WorkIsCharged'
    <2> SUFFICES ASSUME NEW w \in Rate!Window, NEW t \in 0 .. MaxTime,
                        now' - t < Rate!Horizon[w]
                 PROVE  Cardinality(WorkSince(w, t)') <= Cardinality(HitsSince(w, t)')
      BY DEF WorkIsCharged, Rate!Window, Rate!Horizon
    <2>1. now - t < Rate!Horizon[w]
      BY <1>4
    <2>2. WorkSince(w, t)' \subseteq WorkSince(w, t)
      BY <1>3 DEF WorkSince, Counted
    <2>3. /\ IsFiniteSet(WorkSince(w, t)) /\ Cardinality(WorkSince(w, t)) \in Nat
      BY WorkSinceFinite DEF IInv
    <2>4. Cardinality(WorkSince(w, t)') <= Cardinality(WorkSince(w, t))
          /\ Cardinality(WorkSince(w, t)') \in Nat
      BY <2>2, <2>3, FS_Subset, FS_CardinalityType
    <2>5. Cardinality(WorkSince(w, t)) <= Cardinality(HitsSince(w, t))
      BY <2>1 DEF IInv, WorkIsCharged
    <2>6. HitsSince(w, t) = Young(hits[w], t) /\ HitsSince(w, t)' = Young(hits'[w], t)
      BY DEF HitsSince, Young
    <2>7. Cardinality(Young(hits[w], t)) \in Nat /\ Cardinality(Young(hits'[w], t)) \in Nat
      <3>1. hits[w] \in Seq(0 .. MaxTime) /\ hits'[w] \in Seq(0 .. MaxTime)
        BY DEF IInv, TypeOK
      <3> QED BY <3>1, YoungFinite
    <2>8. Cardinality(Young(hits[w], t)) <= Cardinality(Young(hits'[w], t))
      BY <2>1
    <2> QED BY <2>3, <2>4, <2>5, <2>6, <2>7, <2>8
  <1> QED BY <1>5, <1>6, <1>7, <1>8

(* Such a step, when it leaves the guard and the windows alone. *)
LEMMA QuietWork ==
  ASSUME IInv, TypeOK', now' >= now, UNCHANGED <<boot, last_seq, hits>>,
         Len(work') <= Len(work), \A i \in DOMAIN work' : Alike(work'[i], work[i])
  PROVE  /\ LastSeqBoundsWork' /\ HistoryIsPast' /\ WorkIsCharged'
         /\ InOrder(work') /\ WithinCeilings(work') /\ UnderCurrentKey(work')
PROOF
  <1>1. \A s \in Session : last_seq[s] <= last_seq'[s]
    <2>1. \A s \in Session : last_seq[s] \in Int /\ last_seq'[s] = last_seq[s]
      BY GuardAssumption, SMTT(30) DEF IInv, TypeOK, Replay!NoSeq
    <2> QED BY <2>1
  <1>2. \A w \in Rate!Window, t \in 0 .. MaxTime :
          Cardinality(Young(hits[w], t)) <= Cardinality(Young(hits'[w], t))
    <2> SUFFICES ASSUME NEW w \in Rate!Window, NEW t \in 0 .. MaxTime
                 PROVE  Cardinality(Young(hits[w], t)) <= Cardinality(Young(hits'[w], t))
      OBVIOUS
    <2>1. hits[w] \in Seq(0 .. MaxTime) /\ hits'[w] = hits[w]
      BY DEF IInv, TypeOK
    <2>2. Cardinality(Young(hits[w], t)) \in Nat
      BY <2>1, YoungFinite
    <2> QED BY <2>1, <2>2
  <1> QED BY <1>1, <1>2, NothingAdmitted

(* Every judged run stays judged, and keeps the point it was given. *)
LEMMA RunsStay ==
  ASSUME IInv, UNCHANGED runs, \A k \in DOMAIN points : k \in DOMAIN points' /\ points'[k] = points[k]
  PROVE  OwnRecoveryPoint' /\ RunsAsJudged'
PROOF
  <1>1. OwnRecoveryPoint'
    <2> SUFFICES ASSUME NEW j \in DOMAIN runs PROVE OwnPoint(runs[j], j)'
      BY DEF OwnRecoveryPoint, OwnPoint
    <2>1. OwnPoint(runs[j], j)
      BY DEF IInv, OwnRecoveryPoint
    <2> QED BY <2>1 DEF OwnPoint
  <1>2. RunsAsJudged'
    BY DEF IInv, RunsAsJudged, Judged, Policy!allows_mutation
  <1> QED BY <1>1, <1>2

(* Steps that leave what dispatch holds alone, or begin or end a           *)
(* connection on which nothing has been admitted.                          *)
LEMMA QuietStep ==
  ASSUME IInv, TypeOK', KeyIsAccepted', now' >= now,
         UNCHANGED <<runs, last_seq, hits, boot, points>>,
         \/ UNCHANGED <<conn, job, mode_ceiling, accepted>>
         \/ conn \notin {"snapshot", "sandbox"} /\ conn' \notin {"snapshot", "sandbox"}
  PROVE  IInv'
PROOF
  <1>1. work' = work
    BY DEF work, Busy, RunRecord
  <1>2. /\ LastSeqBoundsWork' /\ HistoryIsPast' /\ WorkIsCharged'
        /\ InOrder(work') /\ WithinCeilings(work') /\ UnderCurrentKey(work')
    <2>1. \A i \in DOMAIN work' : Alike(work'[i], work[i])
      BY <1>1 DEF Alike
    <2>2. Len(work') <= Len(work)
      BY <1>1, WorkIsRuns DEF IInv
    <2> QED BY <2>1, <2>2, QuietWork
  <1>3. JobIsJudged'
    <2>1. CASE UNCHANGED <<conn, job, mode_ceiling, accepted>>
      <3>1. RunRecord' = RunRecord /\ Busy' = Busy
        BY <2>1 DEF RunRecord, Busy
      <3> QED BY <2>1, <3>1
            DEF IInv, JobIsJudged, OwnPoint, Judged, Policy!allows_mutation
    <2>2. CASE conn' \notin {"snapshot", "sandbox"}
      BY <2>2 DEF JobIsJudged, Busy
    <2> QED BY <2>1, <2>2
  <1>4. OwnRecoveryPoint' /\ RunsAsJudged'
    BY RunsStay
  <1> QED BY <1>2, <1>3, <1>4 DEF IInv

(* accept: the connection is verified against the published key. *)
LEMMA AcceptIInv == IInv /\ Accept => IInv'
PROOF
  <1> SUFFICES ASSUME IInv, Accept PROVE IInv'
    OBVIOUS
  <1>1. /\ TypeOK' /\ KeyIsAccepted' /\ now' >= now
        /\ conn \notin {"snapshot", "sandbox"} /\ conn' \notin {"snapshot", "sandbox"}
    BY RateAssumption
       DEF IInv, TypeOK, Accept, KeyIsAccepted, Busy, environment, replay
  <1> QED BY <1>1, QuietStep DEF Accept, environment, replay

(* A connection ends, with or without a run. *)
LEMMA CloseIInv == IInv /\ (PeerGone \/ Finish) => IInv'
PROOF
  <1> SUFFICES ASSUME IInv, PeerGone \/ Finish PROVE IInv'
    OBVIOUS
  <1>1. /\ conn \notin {"snapshot", "sandbox"} /\ conn' = "idle"
        /\ response' \in {response, "Completed"}
        /\ UNCHANGED <<environment, replay, hits, process, job, points, accepted, runs>>
    BY DEF PeerGone, Finish
  <1>2. TypeOK' /\ KeyIsAccepted' /\ now' >= now
    BY <1>1, RateAssumption
       DEF IInv, TypeOK, KeyIsAccepted, Busy, environment, replay, process
  <1> QED BY <1>1, <1>2, QuietStep DEF environment, replay, process

(* A new key, a new bundle, or a tick of the clock. *)
LEMMA AroundIInv ==
  ASSUME IInv, published' \in NoKey .. MaxKey, now' \in 0 .. MaxTime, now' >= now,
         bundle_dir' \in [Exec -> Bundle],
         UNCHANGED <<replay, hits, process, serving, points, accepted, runs>>
  PROVE  IInv'
PROOF
  <1>1. TypeOK' /\ KeyIsAccepted'
    BY DEF IInv, TypeOK, KeyIsAccepted, Busy, replay, process, serving
  <1> QED BY <1>1, QuietStep DEF replay, process, serving

(* A restart: the new process has admitted nothing, so its empty guard and *)
(* its empty windows are right for it; a job of the old one is gone.       *)
LEMMA RestartIInv == IInv /\ Restart => IInv'
PROOF
  <1> SUFFICES ASSUME IInv, Restart PROVE IInv'
    OBVIOUS
  <1>1. TypeOK'
    <2>1. Replay!NoSeq \in Replay!NoSeq .. MaxSeq
      BY GuardAssumption DEF Replay!NoSeq
    <2>2. hits' \in [Rate!Window -> Seq(0 .. MaxTime)] /\ \A w \in Rate!Window : Len(hits'[w]) <= Limit[w]
      BY RateAssumption DEF Restart, Rate!Window
    <2>3. nonce_order' \in Seq(Nonce) /\ Len(nonce_order') <= NONCE_WINDOW
      BY GuardAssumption DEF Restart
    <2>4. boot' \in 1 .. MaxBoot
      BY ExecutorBounds DEF Restart, IInv, TypeOK
    <2>5. last_seq' \in [Session -> Replay!NoSeq .. MaxSeq] /\ seen_nonces' \subseteq Nonce
      BY <2>1 DEF Restart
    <2>6. /\ session_key' \in NoKey .. MaxKey /\ accepted' \in NoKey .. MaxKey
          /\ mode_ceiling' \in HostMode /\ conn' = "idle" /\ response' = "none"
          /\ UNCHANGED <<now, published, bundle_dir, points, runs>>
      BY ExecutorBounds DEF Restart, environment, IInv, TypeOK, NoKey
    <2>7. ~Busy'
      BY <2>6 DEF Busy
    <2> QED BY <2>2, <2>3, <2>4, <2>5, <2>6, <2>7 DEF IInv, TypeOK
  <1>2. /\ boot' = boot + 1 /\ boot \in Nat /\ conn' = "idle" /\ now' = now /\ now \in Nat
        /\ UNCHANGED <<points, runs>>
    BY RateAssumption DEF Restart, environment, IInv, TypeOK
  <1>3. work' = runs /\ runs \in Seq(Run) /\ DOMAIN runs = 1 .. Len(runs)
    BY <1>2, WorkIsRuns DEF work, Busy, WorkShape, IInv, TypeOK
  <1>4. \A i \in DOMAIN runs : /\ runs[i].boot <= boot /\ runs[i].boot \in Nat
                               /\ runs[i].at <= now
    <2> SUFFICES ASSUME NEW i \in DOMAIN runs
                 PROVE  runs[i].boot <= boot /\ runs[i].boot \in Nat /\ runs[i].at <= now
      OBVIOUS
    <2>1. runs[i] \in Run
      BY DEF IInv, TypeOK
    <2>2. i \in DOMAIN work /\ work[i] = runs[i]
      BY WorkIsRuns DEF IInv, WorkShape
    <2> QED BY <2>1, <2>2, RunFields DEF IInv, HistoryIsPast
  <1>5. \A i \in DOMAIN runs : runs[i].boot # boot' /\ runs[i].boot <= boot'
    BY <1>2, <1>4
  <1>6. LastSeqBoundsWork'
    BY <1>3, <1>5 DEF LastSeqBoundsWork
  <1>7. HistoryIsPast'
    BY <1>2, <1>3, <1>4, <1>5 DEF HistoryIsPast
  <1>8. WorkIsCharged'
    <2> SUFFICES ASSUME NEW w \in Rate!Window, NEW t \in 0 .. MaxTime
                 PROVE  Cardinality(WorkSince(w, t)') <= Cardinality(HitsSince(w, t)')
      BY DEF WorkIsCharged, Rate!Window
    <2>1. WorkSince(w, t)' = {}
      BY <1>3, <1>5 DEF WorkSince, Counted
    <2>2. HitsSince(w, t)' = {}
      BY DEF Restart, HitsSince
    <2> QED BY <2>1, <2>2, FS_EmptySet
  <1>9. InOrder(work') /\ WithinCeilings(work') /\ UnderCurrentKey(work')
    BY <1>3, RunsAreWork DEF IInv
  <1>10. KeyIsAccepted' /\ JobIsJudged'
    BY <1>2 DEF KeyIsAccepted, JobIsJudged, Busy
  <1>11. OwnRecoveryPoint' /\ RunsAsJudged'
    BY <1>2, RunsStay
  <1> QED BY <1>1, <1>6, <1>7, <1>8, <1>9, <1>10, <1>11 DEF IInv

-----------------------------------------------------------------------------
(* Ending work on which dispatch stops: the request is dropped, refused by *)
(* a gate that moved nothing but recovery points.                          *)
LEMMA DroppedIInv ==
  ASSUME IInv, TypeOK', conn' = "idle",
         UNCHANGED <<now, boot, last_seq, hits, runs>>,
         \A k \in DOMAIN points : k \in DOMAIN points' /\ points'[k] = points[k]
  PROVE  IInv'
PROOF
  <1>1. work' = runs /\ Len(runs) \in Nat /\ Len(work) \in Nat /\ Len(runs) <= Len(work)
    <2>1. work' = runs
      BY DEF work, Busy
    <2>2. WorkShape
      BY WorkIsRuns DEF IInv
    <2>3. CASE Busy
      BY <2>1, <2>2, <2>3 DEF WorkShape
    <2>4. CASE ~Busy
      <3>1. work = runs /\ Len(runs) \in Nat
        BY <2>2, <2>4 DEF WorkShape
      <3> QED BY <2>1, <3>1
    <2> QED BY <2>3, <2>4
  <1>2. \A i \in DOMAIN work' : Alike(work'[i], work[i])
    BY <1>1, WorkIsRuns DEF IInv, WorkShape, Alike
  <1>3. now \in Nat
    BY RateAssumption DEF IInv, TypeOK
  <1>4. /\ LastSeqBoundsWork' /\ HistoryIsPast' /\ WorkIsCharged'
        /\ InOrder(work') /\ WithinCeilings(work') /\ UnderCurrentKey(work')
    BY <1>1, <1>2, <1>3, QuietWork
  <1>5. KeyIsAccepted' /\ JobIsJudged'
    BY DEF KeyIsAccepted, JobIsJudged, Busy
  <1>6. OwnRecoveryPoint' /\ RunsAsJudged'
    BY RunsStay
  <1> QED BY <1>4, <1>5, <1>6 DEF IInv

(* The snapshot gate: a persistent mutation goes on only with the point    *)
(* taken for it.                                                           *)
LEMMA TakeSnapshotIInv == IInv /\ TakeSnapshot => IInv'
PROOF
  <1> SUFFICES ASSUME IInv, TakeSnapshot PROVE IInv'
    OBVIOUS
  <1> DEFINE b == job.bundle
             next == Len(points) + 1
             point == [frame |-> job.frame, boot |-> boot, before |-> Len(runs) + 1]
  <1>1. PICK id \in {NoSnapshot} \union (IF b.persistent /\ b.rw THEN {next} ELSE {}) :
          /\ points' = IF id = NoSnapshot THEN points ELSE Append(points, point)
          /\ \/ /\ snapshot_gate(b, id)
                /\ conn' = "sandbox"
                /\ job' = [job EXCEPT !.snapshot = id]
                /\ UNCHANGED response
             \/ ~snapshot_gate(b, id) /\ Refuse("SnapshotUnavailable")
    BY DEF TakeSnapshot
  <1>2. /\ conn = "snapshot" /\ Busy /\ job \in Job
        /\ UNCHANGED <<now, published, bundle_dir, last_seq, seen_nonces, nonce_order, hits,
                       session_key, mode_ceiling, boot, accepted, runs>>
    BY DEF TakeSnapshot, Busy, IInv, TypeOK, environment, replay, process
  <1>3. /\ points \in Seq(Point) /\ Len(points) \in Nat /\ point \in Point /\ next \in Nat
        /\ next # NoSnapshot
    <2>1. points \in Seq(Point) /\ boot \in 1 .. MaxBoot /\ runs \in Seq(Run)
      BY DEF IInv, TypeOK
    <2>2. job.frame \in Frame
      BY <1>2 DEF Job
    <2>3. Len(points) \in Nat /\ Len(runs) + 1 \in Nat
      BY <2>1
    <2> QED BY <2>1, <2>2, <2>3 DEF Point, NoSnapshot
  <1> HIDE DEF point, next
  <1>4. /\ id \in {NoSnapshot, next} /\ id \in Nat
        /\ ~b.persistent => id = NoSnapshot
    <2>1. CASE b.persistent /\ b.rw
      <3>1. id = NoSnapshot \/ id = next
        BY <1>1, <2>1
      <3> QED BY <1>3, <2>1, <3>1 DEF NoSnapshot
    <2>2. CASE ~(b.persistent /\ b.rw)
      <3>1. id = NoSnapshot
        BY <1>1, <2>2
      <3> QED BY <3>1 DEF NoSnapshot
    <2> QED BY <2>1, <2>2
  <1>5. /\ points' \in Seq(Point)
        /\ \A k \in DOMAIN points : k \in DOMAIN points' /\ points'[k] = points[k]
        /\ id # NoSnapshot => id \in DOMAIN points' /\ points'[id] = point
    <2>1. CASE id = NoSnapshot
      <3>1. points' = points
        BY <1>1, <2>1
      <3> QED BY <1>3, <2>1, <3>1
    <2>2. CASE id # NoSnapshot
      <3>1. points' = Append(points, point) /\ id = next
        BY <1>1, <1>4, <2>2
      <3>2. /\ points' \in Seq(Point) /\ Len(points') = Len(points) + 1
            /\ points'[Len(points) + 1] = point
            /\ \A k \in 1 .. Len(points) : points'[k] = points[k]
        BY <1>3, <3>1, AppendProperties
      <3>3. DOMAIN points' = 1 .. Len(points) + 1 /\ DOMAIN points = 1 .. Len(points)
        BY <1>3, <3>2, LenProperties
      <3> QED BY <1>3, <3>1, <3>2, <3>3 DEF next
    <2> QED BY <2>1, <2>2
  <1>6. CASE ~snapshot_gate(b, id) /\ Refuse("SnapshotUnavailable")
    <2>1. conn' = "idle" /\ response' = "SnapshotUnavailable" /\ ~Busy'
      BY <1>6 DEF Refuse, Busy
    <2>2. TypeOK'
      BY <1>2, <1>5, <2>1 DEF IInv, TypeOK, RejectStage
    <2> QED BY <1>2, <1>5, <2>1, <2>2, DroppedIInv
  <1>7. CASE /\ snapshot_gate(b, id) /\ conn' = "sandbox"
             /\ job' = [job EXCEPT !.snapshot = id] /\ UNCHANGED response
    <2>1. /\ job' \in Job /\ job'.frame = job.frame /\ job'.bundle = job.bundle
          /\ job'.at = job.at /\ job'.snapshot = id /\ Busy'
      BY <1>2, <1>4, <1>7 DEF Job, Busy
    <2>2. TypeOK'
      BY <1>2, <1>5, <1>7, <2>1 DEF IInv, TypeOK
    <2>3. WorkShape /\ WorkShape'
      BY <2>2, WorkIsRuns, WorkIsRunsNext DEF IInv
    <2>4. Alike(RunRecord', RunRecord)
      BY <1>2, <2>1 DEF Alike, RunRecord
    <2>5. Len(work') <= Len(work) /\ \A i \in DOMAIN work' : Alike(work'[i], work[i])
      <3>1. /\ Len(runs) \in Nat /\ Len(work) = Len(runs) + 1 /\ Len(work') = Len(runs) + 1
            /\ work[Len(runs) + 1] = RunRecord /\ work'[Len(runs) + 1] = RunRecord'
            /\ DOMAIN work' = 1 .. Len(runs) + 1 /\ DOMAIN runs = 1 .. Len(runs)
            /\ \A i \in DOMAIN runs : work'[i] = runs[i] /\ work[i] = runs[i]
        BY <1>2, <2>1, <2>3 DEF WorkShape
      <3>2. Len(work') <= Len(work)
        BY <3>1
      <3>3. \A i \in DOMAIN runs : Alike(work'[i], work[i])
        BY <3>1 DEF Alike
      <3>4. \A i \in DOMAIN work' : i \in DOMAIN runs \/ i = Len(runs) + 1
        BY <3>1
      <3> QED BY <2>4, <3>1, <3>2, <3>3, <3>4
    <2>6. now \in Nat
      BY RateAssumption DEF IInv, TypeOK
    <2>7. /\ LastSeqBoundsWork' /\ HistoryIsPast' /\ WorkIsCharged'
          /\ InOrder(work') /\ WithinCeilings(work') /\ UnderCurrentKey(work')
      BY <1>2, <2>2, <2>5, <2>6, QuietWork
    <2>8. OwnPoint(RunRecord, Len(runs) + 1)'
      <3>1. /\ RunRecord'.bundle = b /\ RunRecord'.snapshot = id
            /\ RunRecord'.frame = job.frame /\ RunRecord'.boot = boot
        BY <1>2, <2>1 DEF RunRecord
      <3>2. b.persistent => id \in DOMAIN points' /\ points'[id] = point
        BY <1>5, <1>7, Zenon DEF snapshot_gate
      <3>3. ~b.persistent => id = NoSnapshot
        BY <1>4, Zenon
      <3> HIDE DEF b
      <3>4. CASE b.persistent
        <4>1. RunRecord'.bundle.persistent
          BY <3>1, <3>4
        <4>2. /\ RunRecord'.snapshot \in DOMAIN points'
              /\ points'[RunRecord'.snapshot] = [frame |-> RunRecord'.frame,
                   boot |-> RunRecord'.boot, before |-> Len(runs) + 1]
          BY <3>1, <3>2, <3>4 DEF point
        <4> QED BY <1>2, <4>1, <4>2 DEF OwnPoint
      <3>5. CASE ~b.persistent
        <4>1. ~RunRecord'.bundle.persistent /\ RunRecord'.snapshot = NoSnapshot
          BY <3>1, <3>3, <3>5
        <4> QED BY <4>1 DEF OwnPoint
      <3> QED BY <3>4, <3>5
    <2>9. JobIsJudged'
      <3>1. Judged(job.frame, job.bundle, mode_ceiling)
        BY <1>2 DEF IInv, JobIsJudged
      <3>2. Judged(job.frame, job.bundle, mode_ceiling)'
        BY <1>2, <2>1, <3>1 DEF Judged, Policy!allows_mutation
      <3> QED BY <2>8, <3>2 DEF JobIsJudged
    <2>10. KeyIsAccepted'
      BY <1>7 DEF KeyIsAccepted
    <2>11. OwnRecoveryPoint' /\ RunsAsJudged'
      BY <1>2, <1>5, RunsStay
    <2> QED BY <2>2, <2>7, <2>9, <2>10, <2>11 DEF IInv
  <1> QED BY <1>1, <1>6, <1>7

(* The sandbox gates, and the run itself: the admitted request becomes a   *)
(* run and the work is what it was.                                        *)
LEMMA ExecuteIInv == IInv /\ Execute => IInv'
PROOF
  <1> SUFFICES ASSUME IInv, Execute PROVE IInv'
    OBVIOUS
  <1>1. /\ conn = "sandbox" /\ Busy /\ job \in Job
        /\ UNCHANGED <<now, published, bundle_dir, last_seq, seen_nonces, nonce_order, hits,
                       session_key, mode_ceiling, boot, accepted, points>>
    BY DEF Execute, Busy, IInv, TypeOK, environment, replay, process
  <1>2. CASE Refuse("SandboxRejected") /\ UNCHANGED runs
    <2>1. conn' = "idle" /\ response' = "SandboxRejected" /\ ~Busy'
      BY <1>2 DEF Refuse, Busy
    <2>2. TypeOK'
      BY <1>1, <1>2, <2>1 DEF IInv, TypeOK, RejectStage
    <2> QED BY <1>1, <1>2, <2>1, <2>2, DroppedIInv
  <1>3. CASE /\ Contained(job.bundle, TRUE) /\ Len(runs) < MaxRuns /\ conn' = "running"
             /\ UNCHANGED response /\ runs' = Append(runs, RunRecord)
    <2>1. WorkShape
      BY WorkIsRuns DEF IInv
    <2>2. /\ RunRecord \in Run /\ runs \in Seq(Run) /\ Len(runs) \in Nat
          /\ work = Append(runs, RunRecord)
      BY <1>1, <2>1 DEF WorkShape, work, IInv, TypeOK
    <2>3. /\ runs' \in Seq(Run) /\ Len(runs') = Len(runs) + 1 /\ runs'[Len(runs) + 1] = RunRecord
          /\ \A i \in 1 .. Len(runs) : runs'[i] = runs[i]
      BY <1>3, <2>2, AppendProperties
    <2>4. \A j \in DOMAIN runs' : \/ j \in DOMAIN runs /\ runs'[j] = runs[j]
                                  \/ j = Len(runs) + 1 /\ runs'[j] = RunRecord
      <3>1. DOMAIN runs' = 1 .. Len(runs) + 1 /\ DOMAIN runs = 1 .. Len(runs)
        BY <2>2, <2>3, LenProperties
      <3>2. \A j \in 1 .. Len(runs) + 1 : j = Len(runs) + 1 \/ j \in 1 .. Len(runs)
        BY <2>2
      <3> QED BY <2>3, <3>1, <3>2
    <2>5. Len(runs') <= MaxRuns /\ conn' = "running" /\ ~Busy'
      BY <1>3, <2>2, <2>3, ExecutorBounds DEF Busy
    <2>6. TypeOK'
      BY <1>1, <1>3, <2>3, <2>5 DEF IInv, TypeOK
    <2>7. work' = work
      BY <1>3, <2>2, <2>5 DEF work
    <2>8. Len(work') <= Len(work) /\ \A i \in DOMAIN work' : Alike(work'[i], work[i])
      <3>1. Len(work) \in Nat
        BY <2>1 DEF WorkShape
      <3> QED BY <2>7, <3>1 DEF Alike
    <2>9. now \in Nat
      BY RateAssumption DEF IInv, TypeOK
    <2>10. /\ LastSeqBoundsWork' /\ HistoryIsPast' /\ WorkIsCharged'
           /\ InOrder(work') /\ WithinCeilings(work') /\ UnderCurrentKey(work')
      BY <1>1, <2>6, <2>8, <2>9, QuietWork
    <2>11. OwnRecoveryPoint'
      <3> SUFFICES ASSUME NEW j \in DOMAIN runs' PROVE OwnPoint(runs[j], j)'
        BY DEF OwnRecoveryPoint
      <3>1. CASE j \in DOMAIN runs /\ runs'[j] = runs[j]
        <4>1. OwnPoint(runs[j], j)
          BY <3>1 DEF IInv, OwnRecoveryPoint
        <4> QED BY <1>1, <3>1, <4>1 DEF OwnPoint
      <3>2. CASE j = Len(runs) + 1 /\ runs'[j] = RunRecord
        <4>1. OwnPoint(RunRecord, Len(runs) + 1)
          BY <1>1 DEF IInv, JobIsJudged
        <4> QED BY <1>1, <3>2, <4>1 DEF OwnPoint
      <3> QED BY <2>4, <3>1, <3>2
    <2>12. RunsAsJudged'
      <3>1. Judged(job.frame, job.bundle, mode_ceiling) /\ job.bundle.plan
        BY <1>1, <1>3, Zenon DEF IInv, JobIsJudged, Contained
      <3>2. /\ RunRecord.frame = job.frame /\ RunRecord.bundle = job.bundle
            /\ RunRecord.ceiling = mode_ceiling
        BY DEF RunRecord
      <3>3. Judged(RunRecord.frame, RunRecord.bundle, RunRecord.ceiling)
            /\ RunRecord.bundle.plan
        BY <3>1, <3>2, Zenon
      <3>4. \A j \in DOMAIN runs :
              Judged(runs[j].frame, runs[j].bundle, runs[j].ceiling) /\ runs[j].bundle.plan
        BY DEF IInv, RunsAsJudged
      <3>5. \A j \in DOMAIN runs' :
              Judged(runs'[j].frame, runs'[j].bundle, runs'[j].ceiling) /\ runs'[j].bundle.plan
        BY <2>4, <3>3, <3>4, Zenon
      <3> QED BY <3>5 DEF RunsAsJudged, Judged, Policy!allows_mutation
    <2>13. KeyIsAccepted' /\ JobIsJudged'
      BY <2>5 DEF KeyIsAccepted, JobIsJudged, Busy
    <2> QED BY <2>6, <2>10, <2>11, <2>12, <2>13 DEF IInv
  <1> QED BY <1>2, <1>3 DEF Execute

-----------------------------------------------------------------------------
(* The ceilings hold with the newly admitted request r: the windows had    *)
(* room for it, and they hold all work of the horizon that ends with it.   *)
LEMMA NewWorkWithinCeilings ==
  ASSUME IInv, ~Busy, NEW r \in Run, work' = Append(runs, r), r.at = now, r.boot = boot,
         \A w \in Rate!Window, t \in 0 .. MaxTime :
           (now - t < Rate!Horizon[w] /\ w \in Rate!Applies(ActionClass(r.bundle)))
             => Cardinality(Young(hits[w], t)) < Limit[w]
  PROVE  WithinCeilings(work')
PROOF
  <1> DEFINE n == Len(runs) + 1
             h == work'
  <1>0. /\ n \in Nat /\ DOMAIN runs = 1 .. Len(runs) /\ DOMAIN h = 1 .. n
        /\ h[n] = r /\ Len(runs) \in Nat /\ work = runs
        /\ \A i \in 1 .. Len(runs) : h[i] = runs[i] /\ runs[i] \in Run
    <2>1. runs \in Seq(Run) /\ work = runs
      BY WorkIsRuns DEF IInv, TypeOK, WorkShape
    <2>2. /\ h \in Seq(Run) /\ Len(h) = Len(runs) + 1 /\ h[Len(runs) + 1] = r
          /\ \A i \in 1 .. Len(runs) : h[i] = runs[i]
      BY <2>1, AppendProperties
    <2>3. DOMAIN h = 1 .. Len(h)
      BY <2>2, LenProperties
    <2> QED BY <2>1, <2>2, <2>3
  <1> HIDE DEF n, h
  <1> SUFFICES WithinCeilings(h)
    BY DEF h
  <1> SUFFICES ASSUME NEW w \in Rate!Window, NEW j \in 1 .. n, Counted(w, h[j], h[j].boot)
               PROVE  Cardinality({i \in 1 .. j : /\ Counted(w, h[i], h[j].boot)
                                     /\ h[j].at - h[i].at < Rate!Horizon[w]}) <= Limit[w]
    BY <1>0 DEF WithinCeilings
  <1> DEFINE recent == {i \in 1 .. j : /\ Counted(w, h[i], h[j].boot)
                                       /\ h[j].at - h[i].at < Rate!Horizon[w]}
  <1>1. CASE j # n
    <2>1. j \in 1 .. Len(runs) /\ \A i \in 1 .. j : i \in 1 .. Len(runs)
      BY <1>0, <1>1 DEF n
    <2>2. \A i \in 1 .. j : h[i] = runs[i]
      BY <1>0, <2>1
    <2>3. h[j] = runs[j]
      BY <1>0, <2>1
    <2>4. recent = {i \in 1 .. j : /\ Counted(w, runs[i], runs[j].boot)
                                   /\ runs[j].at - runs[i].at < Rate!Horizon[w]}
      BY <2>2, <2>3
    <2>5. Counted(w, runs[j], runs[j].boot)
      BY <2>3
    <2> HIDE DEF recent
    <2>6. WithinCeilings(runs)
      BY <1>0 DEF IInv
    <2>7. Cardinality(recent) <= Limit[w]
      BY <1>0, <2>1, <2>4, <2>5, <2>6 DEF WithinCeilings
    <2> QED BY <2>7 DEF recent
  <1>2. CASE j = n
    <2>0. /\ now \in Nat /\ Rate!Horizon[w] \in Nat \ {0} /\ MaxTime \in Nat /\ now <= MaxTime
          /\ Limit[w] \in Nat
      BY RateAssumption, SMTT(30) DEF IInv, TypeOK, Rate!Horizon, Rate!Window
    <2> DEFINE z == Rate!Horizon[w]
               t == IF now - z + 1 < 0 THEN 0 ELSE now - z + 1
    <2> HIDE DEF z
    <2>1. t \in 0 .. MaxTime /\ now - t < z
      BY <2>0, SMTT(30) DEF z
    <2>2. \A x \in Nat : now - x < z <=> x >= t
      BY <2>0 DEF z
    <2> HIDE DEF t
    <2>3. recent \subseteq WorkSince(w, t) \union {n}
      <3> SUFFICES ASSUME NEW i \in recent, i # n PROVE i \in WorkSince(w, t)
        OBVIOUS
      <3>1. i \in 1 .. Len(runs) /\ Counted(w, h[i], boot) /\ now - h[i].at < z
        BY <1>0, <1>2 DEF n, z
      <3>2. h[i] = runs[i] /\ runs[i].at \in Nat
        BY <1>0, <2>0, <3>1 DEF Run
      <3> QED BY <1>0, <2>2, <3>1, <3>2 DEF WorkSince
    <2>4. w \in Rate!Applies(ActionClass(r.bundle))
      BY <1>0, <1>2 DEF Counted
    <2>5. Cardinality(Young(hits[w], t)) < Limit[w]
      BY <2>1, <2>4 DEF z
    <2>6. Cardinality(WorkSince(w, t)) <= Cardinality(Young(hits[w], t))
      BY <2>1 DEF IInv, WorkIsCharged, HitsSince, Young, z
    <2>7. /\ IsFiniteSet(WorkSince(w, t)) /\ Cardinality(WorkSince(w, t)) \in Nat
          /\ Cardinality(Young(hits[w], t)) \in Nat
      <3>1. hits[w] \in Seq(0 .. MaxTime)
        BY DEF IInv, TypeOK
      <3> QED BY <3>1, YoungFinite, WorkSinceFinite DEF IInv
    <2>8. /\ IsFiniteSet(WorkSince(w, t) \union {n})
          /\ Cardinality(WorkSince(w, t) \union {n}) <= Cardinality(WorkSince(w, t)) + 1
          /\ Cardinality(WorkSince(w, t) \union {n}) \in Nat
      <3>1. /\ IsFiniteSet(WorkSince(w, t) \union {n})
            /\ Cardinality(WorkSince(w, t) \union {n}) =
                 IF n \in WorkSince(w, t) THEN Cardinality(WorkSince(w, t))
                                          ELSE Cardinality(WorkSince(w, t)) + 1
        BY <2>7, FS_AddElement
      <3> QED BY <2>7, <3>1
    <2> HIDE DEF recent
    <2>9. Cardinality(recent) <= Cardinality(WorkSince(w, t) \union {n}) /\ Cardinality(recent) \in Nat
      BY <2>3, <2>8, FS_Subset, FS_CardinalityType
    <2>10. Cardinality(recent) <= Limit[w]
      BY <2>0, <2>5, <2>6, <2>7, <2>8, <2>9
    <2> QED BY <2>10 DEF recent
  <1> QED BY <1>1, <1>2

(* The newly admitted request is charged to every window of its class.     *)
LEMMA NewWorkIsCharged ==
  ASSUME IInv, TypeOK', ~Busy, NEW r \in Run, work' = Append(runs, r), r.at = now, r.boot = boot,
         UNCHANGED <<now, boot>>,
         \A w \in Rate!Window, t \in 0 .. MaxTime :
           now - t < Rate!Horizon[w] =>
             /\ Cardinality(Young(hits[w], t)) <= Cardinality(Young(hits'[w], t))
             /\ w \in Rate!Applies(ActionClass(r.bundle)) =>
                  Cardinality(Young(hits[w], t)) + (IF now >= t THEN 1 ELSE 0)
                    <= Cardinality(Young(hits'[w], t))
  PROVE  WorkIsCharged'
PROOF
  <1> DEFINE n == Len(runs) + 1
  <1>0. /\ n \in Nat /\ DOMAIN work = 1 .. Len(runs) /\ DOMAIN work' = 1 .. n
        /\ work'[n] = r /\ Len(runs) \in Nat /\ n \notin 1 .. Len(runs)
        /\ \A i \in 1 .. Len(runs) : work'[i] = work[i]
        /\ \A i \in 1 .. n : i = n \/ i \in 1 .. Len(runs)
        /\ \A i \in 1 .. Len(runs) : i \in 1 .. n
    <2>1. runs \in Seq(Run) /\ work = runs /\ Len(runs) \in Nat /\ DOMAIN runs = 1 .. Len(runs)
      BY WorkIsRuns DEF IInv, TypeOK, WorkShape
    <2>2. /\ work' \in Seq(Run) /\ Len(work') = Len(runs) + 1 /\ work'[Len(runs) + 1] = r
          /\ \A i \in 1 .. Len(runs) : work'[i] = runs[i]
      BY <2>1, AppendProperties
    <2>3. DOMAIN work' = 1 .. Len(runs) + 1
      BY <2>2, LenProperties
    <2> QED BY <2>1, <2>2, <2>3
  <1> HIDE DEF n
  <1> SUFFICES ASSUME NEW w \in Rate!Window, NEW t \in 0 .. MaxTime, now - t < Rate!Horizon[w]
               PROVE  Cardinality(WorkSince(w, t)') <= Cardinality(HitsSince(w, t)')
    BY DEF WorkIsCharged, Rate!Window, Rate!Horizon
  <1>1. HitsSince(w, t) = Young(hits[w], t) /\ HitsSince(w, t)' = Young(hits'[w], t)
    BY DEF HitsSince, Young
  <1>2. /\ IsFiniteSet(WorkSince(w, t)) /\ Cardinality(WorkSince(w, t)) \in Nat
        /\ Cardinality(Young(hits[w], t)) \in Nat /\ Cardinality(Young(hits'[w], t)) \in Nat
    <2>1. hits[w] \in Seq(0 .. MaxTime) /\ hits'[w] \in Seq(0 .. MaxTime)
      BY DEF IInv, TypeOK
    <2> QED BY <2>1, YoungFinite, WorkSinceFinite DEF IInv
  <1>3. Cardinality(WorkSince(w, t)) <= Cardinality(Young(hits[w], t))
    BY <1>1 DEF IInv, WorkIsCharged
  <1>4. CASE w \in Rate!Applies(ActionClass(r.bundle)) /\ now >= t
    <2>1. WorkSince(w, t)' = WorkSince(w, t) \union {n} /\ n \notin WorkSince(w, t)
      BY <1>0, <1>4 DEF WorkSince, Counted
    <2>2. Cardinality(WorkSince(w, t)') = Cardinality(WorkSince(w, t)) + 1
      BY <1>2, <2>1, FS_AddElement
    <2> QED BY <1>1, <1>2, <1>3, <1>4, <2>2
  <1>5. CASE ~(w \in Rate!Applies(ActionClass(r.bundle)) /\ now >= t)
    <2>1. WorkSince(w, t)' = WorkSince(w, t)
      BY <1>0, <1>5 DEF WorkSince, Counted
    <2> QED BY <1>1, <1>2, <1>3, <2>1
  <1> QED BY <1>4, <1>5

(* A frame that passes every gate of memory: it is newer than all work of  *)
(* its session in this process, its key is the accepted one, and it and    *)
(* its bundle are judged.                                                  *)
LEMMA AdmittedIInv ==
  ASSUME IInv, TypeOK', conn = "open", conn' = "snapshot",
         NEW f \in Frame, NEW b \in Bundle,
         job' = [frame |-> f, bundle |-> b, at |-> now, snapshot |-> NoSnapshot],
         UNCHANGED <<now, boot, mode_ceiling, accepted, points, runs>>,
         f.key = session_key, Judged(f, b, mode_ceiling),
         last_seq[f.session] < f.seq, last_seq'[f.session] = f.seq,
         \A s \in Session : last_seq[s] <= last_seq'[s],
         \A w \in Rate!Window, t \in 0 .. MaxTime :
           now - t < Rate!Horizon[w] =>
             /\ Cardinality(Young(hits[w], t)) <= Cardinality(Young(hits'[w], t))
             /\ w \in Rate!Applies(ActionClass(b)) =>
                  /\ Cardinality(Young(hits[w], t)) < Limit[w]
                  /\ Cardinality(Young(hits[w], t)) + (IF now >= t THEN 1 ELSE 0)
                       <= Cardinality(Young(hits'[w], t))
  PROVE  IInv'
PROOF
  <1>1. ~Busy /\ Busy' /\ WorkShape /\ WorkShape'
    BY WorkIsRuns, WorkIsRunsNext DEF IInv, Busy
  <1>2. PICK r \in Run : r = RunRecord'
    BY <1>1 DEF WorkShape
  <1>3. /\ r.frame = f /\ r.bundle = b /\ r.at = now /\ r.boot = boot /\ r.accepted = accepted
    BY <1>2 DEF RunRecord
  <1>4. work' = Append(runs, r) /\ work = runs
    BY <1>1, <1>2 DEF work
  <1>5. \A i \in DOMAIN work' :
          \/ i = Len(runs) + 1 /\ work'[i] = r
          \/ i \in DOMAIN runs /\ i < Len(runs) + 1 /\ work'[i] = runs[i] /\ runs[i] \in Run
    <2>1. runs \in Seq(Run) /\ Len(runs) \in Nat /\ DOMAIN runs = 1 .. Len(runs)
      BY <1>1 DEF IInv, TypeOK, WorkShape
    <2>2. /\ Len(work') = Len(runs) + 1 /\ work'[Len(runs) + 1] = r
          /\ \A i \in 1 .. Len(runs) : work'[i] = runs[i]
      BY <1>4, <2>1, AppendProperties
    <2>3. DOMAIN work' = 1 .. Len(runs) + 1
      BY <1>1, <2>2 DEF WorkShape
    <2>4. \A i \in 1 .. Len(runs) + 1 : i = Len(runs) + 1 \/ (i \in 1 .. Len(runs) /\ i < Len(runs) + 1)
      BY <2>1
    <2> QED BY <2>1, <2>2, <2>3, <2>4
  <1>6. Len(runs) \in Nat /\ \A i \in DOMAIN work' : i \in Nat
    <2>1. Len(runs) \in Nat /\ DOMAIN work' = 1 .. Len(work')
      BY <1>1 DEF WorkShape
    <2> QED BY <2>1
  <1>7. f.session \in Session /\ f.seq \in Int /\ now \in Nat /\ boot \in Nat
    <2>1. f.session \in Session /\ f.seq \in Int
      BY FrameAssumption, GuardAssumption
    <2>2. now \in 0 .. MaxTime /\ boot \in 1 .. MaxBoot
      BY DEF IInv, TypeOK
    <2> QED BY <2>1, <2>2, RateAssumption, ExecutorBounds
  <1>8. \A s \in Session : last_seq[s] \in Int /\ last_seq'[s] \in Int
    BY GuardAssumption DEF IInv, TypeOK, Replay!NoSeq
  <1>9. WithinCeilings(work')
    BY <1>1, <1>3, <1>4, NewWorkWithinCeilings
  <1>10. WorkIsCharged'
    BY <1>1, <1>3, <1>4, NewWorkIsCharged
  <1>11. \A i \in DOMAIN runs :
           runs[i].boot = boot => runs[i].frame.seq <= last_seq[runs[i].frame.session]
    BY <1>4 DEF IInv, LastSeqBoundsWork
  <1>12. LastSeqBoundsWork'
    <2> SUFFICES ASSUME NEW i \in DOMAIN work', work'[i].boot = boot
                 PROVE  work'[i].frame.seq <= last_seq'[work'[i].frame.session]
      BY DEF LastSeqBoundsWork
    <2>1. CASE work'[i] = r
      BY <1>3, <1>7, <2>1
    <2>2. CASE i \in DOMAIN runs /\ work'[i] = runs[i] /\ runs[i] \in Run
      <3>1. runs[i].frame.seq <= last_seq[runs[i].frame.session]
        BY <1>11, <2>2
      <3>2. runs[i].frame.session \in Session /\ runs[i].frame.seq \in Int
        BY <2>2, RunFields
      <3> QED BY <1>8, <2>2, <3>1, <3>2
    <2> QED BY <1>5, <2>1, <2>2
  <1>13. InOrder(work')
    <2> DEFINE h == work'
    <2> SUFFICES InOrder(h)
      OBVIOUS
    <2>0. \A i \in DOMAIN h : i \in Nat /\
              (\/ i = Len(runs) + 1 /\ h[i] = r
               \/ i \in DOMAIN runs /\ i < Len(runs) + 1 /\ h[i] = runs[i] /\ runs[i] \in Run)
      BY <1>5, <1>6
    <2> HIDE DEF h
    <2> SUFFICES ASSUME NEW i \in DOMAIN h, NEW j \in DOMAIN h, i < j, h[i].boot = h[j].boot,
                        h[i].frame.session = h[j].frame.session
                 PROVE  h[i].frame.seq < h[j].frame.seq
      BY DEF InOrder
    <2>1. i \in DOMAIN runs /\ h[i] = runs[i] /\ runs[i] \in Run
      BY <1>6, <2>0
    <2>2. CASE j \in DOMAIN runs /\ h[j] = runs[j]
      <3>1. InOrder(runs)
        BY <1>4 DEF IInv
      <3> QED BY <2>1, <2>2, <3>1 DEF InOrder
    <2>3. CASE h[j] = r
      <3>1. runs[i].frame.seq <= last_seq[f.session]
        BY <1>3, <1>11, <2>1, <2>3
      <3>2. runs[i].frame.seq \in Int
        BY <2>1, RunFields
      <3> QED BY <1>3, <1>7, <1>8, <2>1, <2>3, <3>1, <3>2
    <2> QED BY <2>0, <2>2, <2>3
  <1>14. HistoryIsPast'
    <2> SUFFICES ASSUME NEW i \in DOMAIN work'
                 PROVE  work'[i].boot <= boot /\ work'[i].at <= now
      BY DEF HistoryIsPast
    <2>1. CASE work'[i] = r
      BY <1>3, <1>7, <2>1
    <2>2. CASE i \in DOMAIN runs /\ work'[i] = runs[i]
      BY <1>4, <2>2 DEF IInv, HistoryIsPast
    <2> QED BY <1>5, <2>1, <2>2
  <1>15. UnderCurrentKey(work')
    <2>1. r.frame.key = r.accepted
      BY <1>3 DEF IInv, KeyIsAccepted
    <2>2. UnderCurrentKey(runs)
      BY <1>4 DEF IInv
    <2>3. \A i \in DOMAIN work' : work'[i].frame.key = work'[i].accepted
      BY <1>5, <2>1, <2>2 DEF UnderCurrentKey
    <2> QED BY <2>3 DEF UnderCurrentKey
  <1>16. KeyIsAccepted'
    BY DEF KeyIsAccepted
  <1>17. JobIsJudged'
    <2>1. job'.frame = f /\ job'.bundle = b
      OBVIOUS
    <2>2. Judged(job.frame, job.bundle, mode_ceiling)'
      BY <2>1 DEF Judged, Policy!allows_mutation
    <2> QED BY <2>2 DEF JobIsJudged
  <1>18. OwnRecoveryPoint' /\ RunsAsJudged'
    BY RunsStay
  <1> QED BY <1>9, <1>10, <1>12, <1>13, <1>14, <1>15, <1>16, <1>17, <1>18 DEF IInv

(* A frame that some gate of memory refuses: guard and windows may have    *)
(* moved, but nothing is admitted.                                         *)
LEMMA RefusedIInv ==
  ASSUME IInv, TypeOK', conn = "open", conn' = "idle",
         UNCHANGED <<now, boot, points, runs>>,
         \A s \in Session : last_seq[s] <= last_seq'[s],
         \A w \in Rate!Window, t \in 0 .. MaxTime :
           now - t < Rate!Horizon[w] =>
             Cardinality(Young(hits[w], t)) <= Cardinality(Young(hits'[w], t))
  PROVE  IInv'
PROOF
  <1>1. work' = work /\ Len(work) \in Nat
    <2>1. work' = runs /\ work = runs
      BY DEF work, Busy
    <2> QED BY <2>1, WorkIsRuns DEF IInv, WorkShape
  <1>2. Len(work') <= Len(work) /\ \A i \in DOMAIN work' : Alike(work'[i], work[i])
    BY <1>1 DEF Alike
  <1>3. now' >= now
    BY RateAssumption DEF IInv, TypeOK
  <1>4. /\ LastSeqBoundsWork' /\ HistoryIsPast' /\ WorkIsCharged'
        /\ InOrder(work') /\ WithinCeilings(work') /\ UnderCurrentKey(work')
    BY <1>2, <1>3, NothingAdmitted
  <1>5. KeyIsAccepted' /\ JobIsJudged'
    BY DEF KeyIsAccepted, JobIsJudged, Busy
  <1>6. OwnRecoveryPoint' /\ RunsAsJudged'
    BY RunsStay
  <1> QED BY <1>4, <1>5, <1>6 DEF IInv

(* handle, whichever gate refuses. *)
LEMMA HandleIInv ==
  ASSUME IInv, NEW f \in Frame, Handle(f)
  PROVE  IInv'
PROOF
  <1> DEFINE b == bundle_dir[f.exec]
             stop == first_refusal(f, b)
  <1>1. /\ conn = "open"
        /\ IF Passed("Replay", stop) THEN Replay!Commit(f) ELSE UNCHANGED replay
        /\ Charge(b, stop)
        /\ \/ stop < Admitted /\ Refuse(Pipeline[stop])
           \/ /\ stop = Admitted
              /\ conn' = "snapshot"
              /\ job' = [frame |-> f, bundle |-> b, at |-> now, snapshot |-> NoSnapshot]
              /\ UNCHANGED response
    BY DEF Handle
  <1>2. UNCHANGED <<now, published, bundle_dir, session_key, mode_ceiling, boot, points,
                    accepted, runs>>
    BY DEF Handle, environment, process
  <1>3. b \in Bundle
    BY FrameAssumption DEF IInv, TypeOK
  <1>4. /\ stop \in 1 .. 9
        /\ stop > 2 => Replay!Fresh(f)
        /\ stop > 8 => Rate!Admissible(ActionClass(b))
        /\ stop = 9 => f.key = session_key /\ Judged(f, b, mode_ceiling)
    BY PassedGates
  <1> HIDE DEF b, stop
  <1>5. Admitted = 9 /\ (Passed("Replay", stop) <=> stop > 2)
    BY <1>4, Positions DEF Passed
  <1>6. /\ last_seq' \in [Session -> Replay!NoSeq .. MaxSeq]
        /\ seen_nonces' \subseteq Nonce /\ nonce_order' \in Seq(Nonce)
        /\ Len(nonce_order') <= NONCE_WINDOW
        /\ \A s \in Session : last_seq[s] <= last_seq'[s]
        /\ stop > 2 => last_seq[f.session] < f.seq /\ last_seq'[f.session] = f.seq
    BY <1>1, <1>4, <1>5, GuardStep DEF IInv
  <1>7. /\ hits' \in [Rate!Window -> Seq(0 .. MaxTime)]
        /\ \A w \in Rate!Window : Len(hits'[w]) <= Limit[w]
        /\ \A w \in Rate!Window, t \in 0 .. MaxTime :
              now - t < Rate!Horizon[w] =>
                /\ Cardinality(Young(hits[w], t)) <= Cardinality(Young(hits'[w], t))
                /\ (stop > 8 /\ w \in Rate!Applies(ActionClass(b))) =>
                     /\ Cardinality(Young(hits[w], t)) < Limit[w]
                     /\ Cardinality(Young(hits[w], t)) + (IF now >= t THEN 1 ELSE 0)
                          <= Cardinality(Young(hits'[w], t))
    BY <1>1, <1>4, ChargeStep DEF IInv
  <1>8. CASE stop < Admitted /\ Refuse(Pipeline[stop])
    <2>1. conn' = "idle" /\ response' \in RejectStage /\ ~Busy'
      BY <1>4, <1>5, <1>8, Positions DEF Refuse, RejectStage, Busy
    <2>2. TypeOK'
      BY <1>2, <1>6, <1>7, <2>1 DEF IInv, TypeOK
    <2> QED BY <1>1, <1>2, <1>6, <1>7, <2>1, <2>2, RefusedIInv
  <1>9. CASE /\ stop = Admitted /\ conn' = "snapshot"
             /\ job' = [frame |-> f, bundle |-> b, at |-> now, snapshot |-> NoSnapshot]
             /\ UNCHANGED response
    <2>1. stop = 9 /\ job' \in Job
      BY <1>3, <1>5, <1>9 DEF Job, NoSnapshot, IInv, TypeOK
    <2>2. TypeOK'
      BY <1>2, <1>6, <1>7, <1>9, <2>1 DEF IInv, TypeOK
    <2> QED BY <1>1, <1>2, <1>3, <1>4, <1>6, <1>7, <1>9, <2>1, <2>2, AdmittedIInv
  <1> QED BY <1>1, <1>8, <1>9

-----------------------------------------------------------------------------
(* The first state: no connection, no run. *)
LEMMA InitIInv == Init => IInv
PROOF
  <1> SUFFICES ASSUME Init PROVE IInv
    OBVIOUS
  <1>0. ~Busy /\ work = <<>> /\ runs = <<>>
    BY DEF Init, Busy, work
  <1>1. TypeOK
    <2>1. Replay!NoSeq \in Replay!NoSeq .. MaxSeq
      BY GuardAssumption DEF Replay!NoSeq
    <2>2. hits \in [Rate!Window -> Seq(0 .. MaxTime)] /\ \A w \in Rate!Window : Len(hits[w]) <= Limit[w]
      BY RateAssumption DEF Init, Rate!Window
    <2>3. nonce_order \in Seq(Nonce) /\ Len(nonce_order) <= NONCE_WINDOW
          /\ runs \in Seq(Run) /\ Len(runs) <= MaxRuns /\ points \in Seq(Point)
      BY GuardAssumption, ExecutorBounds DEF Init
    <2> QED BY <1>0, <2>1, <2>2, <2>3, RateAssumption, ExecutorBounds DEF Init, TypeOK, NoKey
  <1>2. WorkIsCharged
    <2> SUFFICES ASSUME NEW w \in Rate!Window, NEW t \in 0 .. MaxTime
                 PROVE  Cardinality(WorkSince(w, t)) <= Cardinality(HitsSince(w, t))
      BY DEF WorkIsCharged
    <2>1. WorkSince(w, t) = {} /\ HitsSince(w, t) = {}
      BY <1>0 DEF Init, WorkSince, HitsSince
    <2> QED BY <2>1, FS_EmptySet
  <1>3. KeyIsAccepted /\ LastSeqBoundsWork /\ HistoryIsPast /\ JobIsJudged
    BY <1>0 DEF Init, KeyIsAccepted, LastSeqBoundsWork, HistoryIsPast, JobIsJudged
  <1>4. InOrder(work) /\ WithinCeilings(work) /\ UnderCurrentKey(work)
    BY <1>0 DEF InOrder, WithinCeilings, UnderCurrentKey
  <1>5. OwnRecoveryPoint /\ RunsAsJudged
    BY <1>0 DEF OwnRecoveryPoint, RunsAsJudged
  <1> QED BY <1>1, <1>2, <1>3, <1>4, <1>5 DEF IInv

(* The invariant is inductive: no delivery, no restart and nothing that    *)
(* happens around the executor breaks it.                                  *)
THEOREM Invariance == Spec => []IInv
PROOF
  <1>1. Init => IInv
    BY InitIInv
  <1>2. IInv /\ [Next]_vars => IInv'
    <2> SUFFICES ASSUME IInv, [Next]_vars PROVE IInv'
      OBVIOUS
    <2>0. /\ published \in NoKey .. MaxKey /\ now \in 0 .. MaxTime /\ now >= now
          /\ bundle_dir \in [Exec -> Bundle] /\ MaxTime \in Nat /\ MaxKey \in Nat
      BY RateAssumption, ExecutorBounds DEF IInv, TypeOK
    <2>1. CASE Accept
      BY <2>1, AcceptIInv
    <2>2. CASE PeerGone \/ Finish
      BY <2>2, CloseIInv
    <2>3. CASE \E f \in Frame : Handle(f)
      BY <2>3, HandleIInv
    <2>4. CASE TakeSnapshot
      BY <2>4, TakeSnapshotIInv
    <2>5. CASE Execute
      BY <2>5, ExecuteIInv
    <2>6. CASE Restart
      BY <2>6, RestartIInv
    <2>7. CASE Publish
      <3>1. published' \in NoKey .. MaxKey
        BY <2>0, <2>7 DEF Publish, NoKey
      <3> QED BY <2>0, <2>7, <3>1, AroundIInv DEF Publish
    <2>8. CASE \E e \in Exec, b \in Bundle : Install(e, b)
      <3>1. bundle_dir' \in [Exec -> Bundle]
        BY <2>0, <2>8 DEF Install
      <3> QED BY <2>0, <2>8, <3>1, AroundIInv DEF Install
    <2>9. CASE Tick
      <3>1. now' \in 0 .. MaxTime /\ now' >= now
        BY <2>0, <2>9 DEF Tick
      <3> QED BY <2>0, <2>9, <3>1, AroundIInv DEF Tick
    <2>10. CASE UNCHANGED vars
      BY <2>0, <2>10, AroundIInv DEF vars, environment, process, serving
    <2> QED BY <2>1, <2>2, <2>3, <2>4, <2>5, <2>6, <2>7, <2>8, <2>9, <2>10 DEF Next
  <1> QED BY <1>1, <1>2, PTL DEF Spec

(* The executor's state is well formed; neither the nonce window nor a     *)
(* rate window ever exceeds its limit.                                     *)
THEOREM ExecutorTypeCorrect == Spec => []TypeOK
PROOF
  <1>1. IInv => TypeOK
    BY DEF IInv
  <1> QED BY <1>1, Invariance, PTL

(* One process runs a session's requests in the order they were signed and *)
(* none twice, whatever is delivered and however often.                    *)
THEOREM ExecutorRunsInOrder == Spec => []RunsInOrder
PROOF
  <1>1. IInv => RunsInOrder
    BY RunsAreWork DEF IInv, RunsInOrder
  <1> QED BY <1>1, Invariance, PTL

(* The blast-rate ceilings bound what one executor process runs, although  *)
(* actions refused after the rate gate have used budget too.  The windows  *)
(* die with the process: a restart begins a new quota (ratelimit.rs keeps  *)
(* them in memory), so this is no bound over the host's restarts.          *)
THEOREM ExecutorWithinCeilings == Spec => []RunsWithinCeilings
PROOF
  <1>1. IInv => RunsWithinCeilings
    BY RunsAreWork DEF IInv, RunsWithinCeilings
  <1> QED BY <1>1, Invariance, PTL

(* Every persistent mutation that runs was given a recovery point, and it  *)
(* is one that this process took for this request after the run before it, *)
(* over any number of restarts and refused requests in between.            *)
THEOREM ExecutorRecoveryPoints == Spec => []OwnRecoveryPoint
PROOF
  <1>1. IInv => OwnRecoveryPoint
    BY DEF IInv
  <1> QED BY <1>1, Invariance, PTL

(* What a process starts is the very bundle its gates have judged with the *)
(* frame, although another may have been installed under the name since    *)
(* and although other gates and a btrfs command lie between.               *)
THEOREM ExecutorRunsAsJudged == Spec => []RunsAsJudged
PROOF
  <1>1. IInv => RunsAsJudged
    BY DEF IInv
  <1> QED BY <1>1, Invariance, PTL

(* An action runs only under the key published when its connection was     *)
(* accepted.                                                               *)
THEOREM ExecutorKeyRotation == Spec => []RunsUnderCurrentKey
PROOF
  <1>1. IInv => RunsUnderCurrentKey
    BY RunsAreWork DEF IInv, RunsUnderCurrentKey
  <1> QED BY <1>1, Invariance, PTL

=============================================================================
