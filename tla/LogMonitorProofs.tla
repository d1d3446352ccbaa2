--------------------------- MODULE LogMonitorProofs ---------------------------
(***************************************************************************)
(* Proofs about the autonomous loop's senses, for every number of sources, *)
(* every limit, every cooldown window and any number of writes, rotations  *)
(* and polls.                                                              *)
(*                                                                         *)
(* The loops of the code are recursive functions of the round.  What they  *)
(* compute is proved by induction over a set of rounds (Induction), after  *)
(* showing that the loop has a trace at all (LoopTrace).                   *)
(***************************************************************************)
EXTENDS LogMonitor, SequenceTheorems, WellFoundedInduction, TLAPS

(* A non-empty set of naturals has a least element, which is what Min      *)
(* chooses: the next newline of LogTailer::poll, and the round it stops    *)
(* in.                                                                     *)
LEMMA MinIsLeast ==
  ASSUME NEW S \in SUBSET Nat, S # {}
  PROVE  Min(S) \in S /\ \A j \in S : Min(S) <= j
PROOF
  <1>1. PICK m \in S : \A j \in S : ~(<<j, m>> \in OpToRel(<, Nat))
    BY WFMin, NatLessThanWellFounded
  <1>2. \A j \in S : ~(j < m)
    BY <1>1 DEF OpToRel
  <1>3. \A j \in S : m <= j
    BY <1>2
  <1> QED BY <1>3 DEF Min

(* Induction up to a bound, over the set of the numbers for which a claim  *)
(* holds: what is missing from it would have a least element.              *)
LEMMA Induction ==
  ASSUME NEW n \in Nat, NEW Good, 0 \in Good,
         \A k \in 1 .. n : k - 1 \in Good => k \in Good
  PROVE  n \in Good /\ \A k \in 0 .. n : k \in Good
PROOF
  <1> SUFFICES ASSUME NEW k \in 0 .. n, k \notin Good PROVE FALSE
    OBVIOUS
  <1>1. PICK Bad \in SUBSET Nat : \A j : j \in Bad <=> j \in 0 .. n /\ j \notin Good
    <2>1. {j \in 0 .. n : j \notin Good} \in SUBSET Nat
      OBVIOUS
    <2> QED BY <2>1
  <1>2. PICK m \in Bad : \A j \in Bad : m <= j
    BY <1>1, MinIsLeast
  <1>3. m \in 1 .. n /\ m - 1 \notin Bad /\ m - 1 \in 0 .. n
    BY <1>1, <1>2
  <1> QED BY <1>1, <1>2, <1>3

(* The trace of a loop of n rounds that starts from a and stays within D:  *)
(* f[k] is its state after round k.                                        *)
Trace(f, n, D, a, step) ==
  f \in [0 .. n -> D] /\ f[0] = a /\ \A k \in 1 .. n : f[k] = step[<<k, f[k - 1]>>]
(* Every loop of n rounds has a trace. *)
LEMMA LoopTrace ==
  ASSUME NEW n \in Nat, NEW D, NEW a \in D, NEW step \in [(1 .. n) \X D -> D]
  PROVE  \E f : Trace(f, n, D, a, step)
PROOF
  <1>1. PICK Good : \A m : m \in Good <=> m \in 0 .. n /\ \E f : Trace(f, m, D, a, step)
    <2>1. \A m : m \in {j \in 0 .. n : \E f : Trace(f, j, D, a, step)}
                  <=> m \in 0 .. n /\ \E f : Trace(f, m, D, a, step)
      OBVIOUS
    <2> QED BY <2>1
  <1>2. 0 \in Good
    <2>1. Trace([k \in 0 .. 0 |-> a], 0, D, a, step)
      BY DEF Trace
    <2> QED BY <1>1, <2>1
  <1>3. ASSUME NEW m \in 1 .. n, m - 1 \in Good PROVE m \in Good
    <2>1. PICK f : Trace(f, m - 1, D, a, step)
      BY <1>1, <1>3
    <2>2. f \in [0 .. m - 1 -> D] /\ f[0] = a /\ \A k \in 1 .. m - 1 : f[k] = step[<<k, f[k - 1]>>]
      BY <2>1 DEF Trace
    <2>3. PICK v : v = step[<<m, f[m - 1]>>]
      OBVIOUS
    <2>4. v \in D
      <3>1. <<m, f[m - 1]>> \in (1 .. n) \X D
        BY <2>2
      <3> QED BY <2>3, <3>1
    <2>5. PICK g : g = [k \in 0 .. m |-> IF k = m THEN v ELSE f[k]]
      OBVIOUS
    <2>6. g \in [0 .. m -> D] /\ g[0] = a /\ g[m] = v /\ \A k \in 0 .. m - 1 : g[k] = f[k]
      BY <2>2, <2>4, <2>5
    <2>7. ASSUME NEW k \in 1 .. m PROVE g[k] = step[<<k, g[k - 1]>>]
      <3>1. CASE k = m
        BY <2>3, <2>6, <3>1
      <3>2. CASE k # m
        <4>1. k \in 1 .. m - 1 /\ k - 1 \in 0 .. m - 1 /\ k \in 0 .. m - 1
          BY <3>2
        <4> QED BY <2>2, <2>6, <4>1
      <3> QED BY <3>1, <3>2
    <2> QED BY <1>1, <2>6, <2>7 DEF Trace
  <1>4. n \in Good
    BY <1>2, <1>3, Induction
  <1> QED BY <1>1, <1>4

N == max_lines_per_poll

(* The cursor of LogTailer::poll after each round: it starts where the     *)
(* poll starts and moves to the next newline, or stays when there is none. *)
LEMMA CursorSteps ==
  ASSUME NEW s \in Source, content[s] \in Seq(Cell), offset[s] \in Nat
  PROVE  /\ Cursor(s) \in [0 .. N -> Nat] /\ Cursor(s)[0] = Start(s)
         /\ \A k \in 1 .. N :
              Cursor(s)[k] = IF Ends(s, Cursor(s)[k - 1]) = {} THEN Cursor(s)[k - 1]
                             ELSE Min(Ends(s, Cursor(s)[k - 1]))
PROOF
  <1> DEFINE After(x) == IF Ends(s, x) = {} THEN x ELSE Min(Ends(s, x))
             Traced(f) == f = [k \in 0 .. N |-> IF k = 0 THEN Start(s) ELSE After(f[k - 1])]
  <1>1. N \in Nat /\ Start(s) \in Nat
    BY MonitorAssumption DEF N, Start
  <1>2. ASSUME NEW x \in Nat PROVE After(x) \in Nat
    <2>1. Ends(s, x) \in SUBSET Nat
      BY DEF Ends
    <2> QED BY <2>1, MinIsLeast
  <1> HIDE DEF After
  <1>3. PICK step : step = [p \in (1 .. N) \X Nat |-> After(p[2])]
    OBVIOUS
  <1>4. step \in [(1 .. N) \X Nat -> Nat] /\ \A k \in 1 .. N, x \in Nat : step[<<k, x>>] = After(x)
    BY <1>2, <1>3
  <1>5. PICK f : Trace(f, N, Nat, Start(s), step)
    BY <1>1, <1>4, LoopTrace
  <1>6. f \in [0 .. N -> Nat] /\ f[0] = Start(s) /\ \A k \in 1 .. N : f[k] = After(f[k - 1])
    <2>1. /\ f \in [0 .. N -> Nat] /\ f[0] = Start(s)
          /\ \A k \in 1 .. N : f[k] = step[<<k, f[k - 1]>>]
      BY <1>5 DEF Trace
    <2>2. \A k \in 1 .. N : f[k - 1] \in Nat
      BY <1>1, <2>1
    <2> QED BY <1>4, <2>1, <2>2
  <1>7. Traced(f)
    BY <1>1, <1>6
  <1>8. Cursor(s) = CHOOSE g : Traced(g)
    BY DEF Cursor, After, N
  <1>9. Traced(Cursor(s))
    BY <1>7, <1>8
  <1>10. PICK c : c = Cursor(s)
    OBVIOUS
  <1>11. c = [k \in 0 .. N |-> IF k = 0 THEN Start(s) ELSE After(c[k - 1])]
    BY <1>9, <1>10
  <1>12. c[0] = Start(s) /\ \A k \in 1 .. N : c[k] = After(c[k - 1])
    BY <1>1, <1>11
  <1>13. \A k \in 0 .. N : c[k] \in Nat
    <2> DEFINE Good == {k \in 0 .. N : c[k] \in Nat}
    <2>1. 0 \in Good
      BY <1>1, <1>12
    <2>2. ASSUME NEW k \in 1 .. N, k - 1 \in Good PROVE k \in Good
      <3>1. c[k - 1] \in Nat
        BY <2>2
      <3>2. After(c[k - 1]) \in Nat
        BY <1>2, <3>1
      <3> QED BY <1>1, <1>12, <3>2
    <2> HIDE DEF Good
    <2>3. \A k \in 0 .. N : k \in Good
      BY <1>1, <2>1, <2>2, Induction
    <2> QED BY <2>3 DEF Good
  <1>14. c \in [0 .. N -> Nat]
    BY <1>11, <1>13
  <1> QED BY <1>10, <1>12, <1>14 DEF After

(* Every round that counts ends on a newline with none in between, inside  *)
(* the file: a poll never reads past the end, and never ends in the middle *)
(* of a line.                                                              *)
LEMMA RoundsRead ==
  ASSUME NEW s \in Source, content[s] \in Seq(Cell), offset[s] \in Nat
  PROVE  /\ Rounds(s) \in 0 .. N /\ Cursor(s)[0] = Start(s)
         /\ \A k \in 0 .. Rounds(s) : Cursor(s)[k] \in Nat /\ Cursor(s)[k] <= Len(content[s])
         /\ \A k \in 1 .. Rounds(s) :
              /\ Cursor(s)[k - 1] < Cursor(s)[k]
              /\ content[s][Cursor(s)[k]].eol
              /\ \A i \in Cursor(s)[k - 1] + 1 .. Cursor(s)[k] - 1 : ~content[s][i].eol
PROOF
  <1>1. PICK c : c = Cursor(s)
    OBVIOUS
  <1>2. /\ c \in [0 .. N -> Nat] /\ c[0] = Start(s)
        /\ \A k \in 1 .. N : c[k] = IF Ends(s, c[k - 1]) = {} THEN c[k - 1] ELSE Min(Ends(s, c[k - 1]))
    BY <1>1, CursorSteps
  <1>3. N \in Nat /\ Len(content[s]) \in Nat /\ Start(s) \in Nat /\ Start(s) <= Len(content[s])
    BY MonitorAssumption DEF N, Start
  <1>4. PICK stops : stops = {n \in 0 .. N : n < N => Ends(s, c[n]) = {}}
    OBVIOUS
  <1>5. stops \in SUBSET Nat /\ N \in stops
    BY <1>3, <1>4
  <1>6. Rounds(s) = Min(stops)
    BY <1>1, <1>4 DEF Rounds, N
  <1>7. PICK r : r = Rounds(s)
    OBVIOUS
  <1>8. r \in 0 .. N /\ \A j \in stops : r <= j
    BY <1>4, <1>5, <1>6, <1>7, MinIsLeast
  <1>9. ASSUME NEW k \in 1 .. r
        PROVE  /\ c[k - 1] \in Nat /\ c[k] \in Nat /\ c[k - 1] < c[k] /\ c[k] <= Len(content[s])
               /\ content[s][c[k]].eol
               /\ \A i \in c[k - 1] + 1 .. c[k] - 1 : ~content[s][i].eol
    <2>1. k - 1 \in 0 .. N /\ k \in 0 .. N /\ k \in 1 .. N /\ k - 1 < r
      BY <1>3, <1>8
    <2>2. k - 1 \notin stops
      BY <1>8, <2>1
    <2>3. PICK from \in Nat : from = c[k - 1]
      BY <1>2, <2>1
    <2>4. Ends(s, from) # {}
      BY <1>4, <2>1, <2>2, <2>3
    <2>5. c[k] = Min(Ends(s, from))
      BY <1>2, <2>1, <2>3, <2>4
    <2>6. Ends(s, from) \in SUBSET Nat
      BY <1>3 DEF Ends
    <2>7. c[k] \in Ends(s, from) /\ \A j \in Ends(s, from) : c[k] <= j
      BY <2>4, <2>5, <2>6, MinIsLeast
    <2>8. c[k] \in from + 1 .. Len(content[s]) /\ content[s][c[k]].eol
      BY <2>7 DEF Ends
    <2>9. ASSUME NEW i \in from + 1 .. c[k] - 1 PROVE ~content[s][i].eol
      <3>1. i \in from + 1 .. Len(content[s]) /\ ~(c[k] <= i)
        BY <1>3, <2>3, <2>8
      <3> QED BY <2>7, <3>1 DEF Ends
    <2> QED BY <1>3, <2>3, <2>8, <2>9
  <1>10. ASSUME NEW k \in 0 .. r PROVE c[k] \in Nat /\ c[k] <= Len(content[s])
    <2>1. CASE k = 0
      BY <1>2, <1>3, <2>1
    <2>2. CASE k # 0
      <3>1. k \in 1 .. r
        BY <1>8, <2>2
      <3> QED BY <1>9, <3>1
    <2> QED BY <2>1, <2>2
  <1> QED BY <1>1, <1>2, <1>7, <1>8, <1>9, <1>10

(* What a poll returns: one whole line per round, its newline the last     *)
(* cell and no other.                                                      *)
LEMMA ReadLines ==
  ASSUME NEW s \in Source, content[s] \in Seq(Cell), offset[s] \in Nat
  PROVE  /\ Read(s) \in Seq(Seq(Cell)) /\ Len(Read(s)) = Rounds(s) /\ Rounds(s) \in Nat
         /\ \A k \in 1 .. Rounds(s) : \A i \in DOMAIN Read(s)[k] :
              Read(s)[k][i].eol <=> i = Len(Read(s)[k])
PROOF
  <1>1. PICK c, r, f : c = Cursor(s) /\ r = Rounds(s) /\ f = content[s]
    OBVIOUS
  <1>2. /\ r \in Nat /\ f \in Seq(Cell)
        /\ \A k \in 0 .. r : c[k] \in Nat /\ c[k] <= Len(f)
        /\ \A k \in 1 .. r : /\ c[k - 1] < c[k] /\ f[c[k]].eol
                             /\ \A i \in c[k - 1] + 1 .. c[k] - 1 : ~f[i].eol
    BY <1>1, RoundsRead
  <1>3. Read(s) = [k \in 1 .. r |-> SubSeq(f, c[k - 1] + 1, c[k])]
    BY <1>1 DEF Read
  <1>4. ASSUME NEW k \in 1 .. r
        PROVE  /\ SubSeq(f, c[k - 1] + 1, c[k]) \in Seq(Cell)
               /\ \A i \in DOMAIN SubSeq(f, c[k - 1] + 1, c[k]) :
                    SubSeq(f, c[k - 1] + 1, c[k])[i].eol <=> i = Len(SubSeq(f, c[k - 1] + 1, c[k]))
    <2>1. PICK a, b : a = c[k - 1] /\ b = c[k]
      OBVIOUS
    <2>2. k - 1 \in 0 .. r /\ k \in 0 .. r
      BY <1>2
    <2>3. /\ a \in Nat /\ b \in Nat /\ a < b /\ b <= Len(f) /\ f[b].eol
          /\ \A i \in a + 1 .. b - 1 : ~f[i].eol
      BY <1>2, <2>1, <2>2
    <2>4. PICK line : line = SubSeq(f, a + 1, b)
      OBVIOUS
    <2>5. /\ line \in Seq(Cell) /\ Len(line) = b - a
          /\ \A i \in 1 .. b - a : line[i] = f[a + i]
      <3>1. \A i \in a + 1 .. b : f[i] \in Cell
        BY <1>2, <2>3, ElementOfSeq
      <3>2. /\ line \in Seq(Cell) /\ Len(line) = b - (a + 1) + 1
            /\ \A i \in 1 .. b - (a + 1) + 1 : line[i] = f[(a + 1) + i - 1]
        BY <2>3, <2>4, <3>1, SubSeqProperties
      <3> QED BY <2>3, <3>2, SMTT(30)
    <2>6. ASSUME NEW i \in 1 .. b - a PROVE line[i].eol <=> i = b - a
      <3>1. CASE i = b - a
        BY <2>3, <2>5, <3>1
      <3>2. CASE i # b - a
        <4>1. a + i \in a + 1 .. b - 1
          BY <2>3, <3>2
        <4> QED BY <2>3, <2>5, <3>2, <4>1
      <3> QED BY <3>1, <3>2
    <2>7. DOMAIN line = 1 .. b - a
      BY <2>5, LenProperties
    <2> QED BY <2>1, <2>4, <2>5, <2>6, <2>7
  <1>5. /\ Read(s) \in Seq(Seq(Cell)) /\ Len(Read(s)) = r
        /\ \A k \in 1 .. r : Read(s)[k] = SubSeq(f, c[k - 1] + 1, c[k])
    <2>1. \A k \in 1 .. r : SubSeq(f, c[k - 1] + 1, c[k]) \in Seq(Cell)
      BY <1>4
    <2>2. Read(s) \in Seq(Seq(Cell))
      <3> DEFINE e(k) == SubSeq(f, c[k - 1] + 1, c[k])
      <3>1. \A k \in 1 .. r : e(k) \in Seq(Cell)
        BY <2>1
      <3>2. Read(s) = [k \in 1 .. r |-> e(k)]
        BY <1>3
      <3> HIDE DEF e
      <3>3. Read(s) \in [1 .. r -> Seq(Cell)]
        BY <3>1, <3>2
      <3> QED BY <1>2, <3>3, SeqDef
    <2>3. DOMAIN Read(s) = 1 .. r
      BY <1>3
    <2>4. Len(Read(s)) = r
      BY <1>2, <2>2, <2>3, LenProperties
    <2> QED BY <1>3, <2>2, <2>4
  <1>6. ASSUME NEW k \in 1 .. r, NEW i \in DOMAIN Read(s)[k]
        PROVE  Read(s)[k][i].eol <=> i = Len(Read(s)[k])
    BY <1>4, <1>5, ZenonT(60)
  <1> QED BY <1>1, <1>2, <1>5, <1>6

(* FlattenSeq joins a sequence of sequences from the left.                 *)
LEMMA FlattenSteps ==
  ASSUME NEW S, NEW ss \in Seq(Seq(S))
  PROVE  \E f : /\ f \in [0 .. Len(ss) -> Seq(S)] /\ f[0] = <<>>
                /\ \A k \in 1 .. Len(ss) : f[k] = f[k - 1] \o ss[k]
                /\ FlattenSeq(ss) = f[Len(ss)]
PROOF
  <1>1. PICK n \in Nat : n = Len(ss)
    OBVIOUS
  <1>2. \A k \in 1 .. n : ss[k] \in Seq(S)
    BY <1>1, ElementOfSeq
  <1>3. <<>> \in Seq(S)
    BY EmptySeq
  <1>4. PICK step : step = [p \in (1 .. n) \X Seq(S) |-> p[2] \o ss[p[1]]]
    OBVIOUS
  <1>5. \A k \in 1 .. n : \A t \in Seq(S) : t \o ss[k] \in Seq(S)
    BY <1>2, ConcatProperties
  <1>6. /\ step \in [(1 .. n) \X Seq(S) -> Seq(S)]
        /\ \A k \in 1 .. n : \A t \in Seq(S) : step[<<k, t>>] = t \o ss[k]
    BY <1>4, <1>5
  <1>7. PICK f : Trace(f, n, Seq(S), <<>>, step)
    BY <1>3, <1>6, LoopTrace
  <1>8. /\ f \in [0 .. n -> Seq(S)] /\ f[0] = <<>>
        /\ \A k \in 1 .. n : f[k] = step[<<k, f[k - 1]>>]
    BY <1>7 DEF Trace
  <1>9. \A k \in 1 .. n : f[k - 1] \in Seq(S)
    BY <1>8
  <1>10. \A k \in 1 .. n : f[k] = f[k - 1] \o ss[k]
    BY <1>6, <1>8, <1>9
  <1>11. CASE n = 0
    <2>1. ss = <<>>
      BY <1>1, <1>11, EmptySeq
    <2>2. FlattenSeq(ss) = <<>>
      BY <1>1, <1>11, <2>1 DEF FlattenSeq
    <2> QED BY <1>1, <1>8, <1>10, <1>11, <2>2
  <1>12. CASE n # 0
    <2> DEFINE Flattens(g) == g = [i \in 1 .. n |-> IF i = 1 THEN ss[i] ELSE g[i - 1] \o ss[i]]
    <2>1. FlattenSeq(ss) = (CHOOSE g : Flattens(g))[n]
      BY <1>1, <1>12 DEF FlattenSeq
    <2>2. PICK h : h = [i \in 1 .. n |-> f[i]]
      OBVIOUS
    <2>3. f[1] = ss[1]
      <3>1. 1 \in 1 .. n /\ 1 - 1 = 0
        BY <1>12
      <3>2. f[1] = <<>> \o ss[1] /\ ss[1] \in Seq(S)
        BY <1>2, <1>8, <1>10, <3>1
      <3> QED BY <3>2, ConcatEmptySeq
    <2>4. ASSUME NEW i \in 1 .. n PROVE h[i] = IF i = 1 THEN ss[i] ELSE h[i - 1] \o ss[i]
      <3>1. CASE i = 1
        BY <2>2, <2>3, <3>1
      <3>2. CASE i # 1
        <4>1. i - 1 \in 1 .. n
          BY <3>2
        <4> QED BY <1>10, <2>2, <3>2, <4>1
      <3> QED BY <3>1, <3>2
    <2>5. Flattens(h)
      BY <2>2, <2>4
    <2>6. PICK g : g = CHOOSE x : Flattens(x)
      OBVIOUS
    <2>7. Flattens(g)
      BY <2>5, <2>6
    <2>8. \A i \in 1 .. n : g[i] = IF i = 1 THEN ss[i] ELSE g[i - 1] \o ss[i]
      BY <2>7
    <2>9. PICK Good : \A k : k \in Good <=> (k \in 0 .. n /\ (k # 0 => g[k] = f[k]))
      <3>1. \A k : k \in {j \in 0 .. n : j # 0 => g[j] = f[j]}
                     <=> (k \in 0 .. n /\ (k # 0 => g[k] = f[k]))
        OBVIOUS
      <3> QED BY <3>1
    <2>10. 0 \in Good
      BY <2>9
    <2>11. ASSUME NEW k \in 1 .. n, k - 1 \in Good PROVE k \in Good
      <3>1. CASE k = 1
        BY <2>3, <2>8, <2>9, <3>1
      <3>2. CASE k # 1
        <4>1. g[k - 1] = f[k - 1]
          BY <2>9, <2>11, <3>2
        <4>2. g[k] = f[k]
          BY <1>10, <2>8, <3>2, <4>1
        <4> QED BY <2>9, <4>2
      <3> QED BY <3>1, <3>2
    <2>12. n \in Good
      BY <2>10, <2>11, Induction, Zenon
    <2>13. g[n] = f[n]
      BY <1>12, <2>9, <2>12
    <2> HIDE DEF Flattens
    <2>14. FlattenSeq(ss) = f[n]
      BY <2>1, <2>6, <2>13
    <2> QED BY <1>1, <1>8, <1>10, <2>14
  <1> QED BY <1>11, <1>12

(* What is joined of sequences over S is a sequence over S.                *)
LEMMA FlattenType ==
  ASSUME NEW S, NEW ss \in Seq(Seq(S))
  PROVE  FlattenSeq(ss) \in Seq(S)
PROOF
  <1>1. PICK f : f \in [0 .. Len(ss) -> Seq(S)] /\ FlattenSeq(ss) = f[Len(ss)]
    BY FlattenSteps
  <1>2. Len(ss) \in 0 .. Len(ss)
    OBVIOUS
  <1> QED BY <1>1, <1>2

(* The cells of f after the first b are read already, as ss; read cuts     *)
(* what follows at c[0], c[1], ..., c[r].                                  *)
Cuts(S, f, b, c, r, ss, read) ==
  /\ f \in Seq(S) /\ b \in Nat /\ r \in Nat /\ ss \in Seq(Seq(S))
  /\ read \in Seq(Seq(S)) /\ Len(read) = r
  /\ \A k \in 0 .. r : c[k] \in Nat /\ c[k] <= Len(f) /\ b <= c[k]
  /\ \A k \in 1 .. r : c[k - 1] <= c[k] /\ read[k] = SubSeq(f, c[k - 1] + 1, c[k])
  /\ FlattenSeq(ss) = SubSeq(f, b + 1, c[0])
(* Lines read earlier and the lines of this poll join to the stretch of    *)
(* the file up to the new cursor: no cell twice, none left out.            *)
LEMMA LinesJoin ==
  ASSUME NEW S, NEW f, NEW b, NEW c, NEW r, NEW ss, NEW read, Cuts(S, f, b, c, r, ss, read)
  PROVE  FlattenSeq(ss \o read) = SubSeq(f, b + 1, c[r])
PROOF
  <1> USE DEF Cuts
  <1>a. /\ \A k \in 0 .. r : c[k] \in Nat /\ c[k] <= Len(f) /\ b <= c[k]
        /\ \A k \in 1 .. r : c[k - 1] <= c[k] /\ read[k] = SubSeq(f, c[k - 1] + 1, c[k])
    OBVIOUS
  <1>b. /\ f \in Seq(S) /\ b \in Nat /\ r \in Nat /\ ss \in Seq(Seq(S))
         /\ read \in Seq(Seq(S)) /\ Len(read) = r
         /\ FlattenSeq(ss) = SubSeq(f, b + 1, c[0])
    OBVIOUS
  <1> HIDE DEF Cuts
  <1> USE <1>b
  <1>1. PICK n \in Nat : n = Len(ss)
    OBVIOUS
  <1>2. PICK t : t = ss \o read
    OBVIOUS
  <1>3. /\ t \in Seq(Seq(S)) /\ Len(t) = n + r
        /\ \A i \in 1 .. n + r : t[i] = IF i <= n THEN ss[i] ELSE read[i - n]
    <2>1. /\ ss \o read \in Seq(Seq(S)) /\ Len(ss \o read) = Len(ss) + Len(read)
          /\ \A i \in 1 .. Len(ss) + Len(read) :
               (ss \o read)[i] = IF i <= Len(ss) THEN ss[i] ELSE read[i - Len(ss)]
      <3>1. PICK D : D = Seq(S)
        OBVIOUS
      <3>2. ss \in Seq(D) /\ read \in Seq(D)
        BY <3>1
      <3>3. /\ ss \o read \in Seq(D) /\ Len(ss \o read) = Len(ss) + Len(read)
            /\ \A i \in 1 .. Len(ss) + Len(read) :
                 (ss \o read)[i] = IF i <= Len(ss) THEN ss[i] ELSE read[i - Len(ss)]
        <4>1. /\ ss \o read \in Seq(D) /\ Len(ss \o read) = Len(ss) + Len(read)
          <5>1. ss \o read \in Seq(D)
            BY ONLY <3>2, ConcatProperties
          <5>2. Len(ss \o read) = Len(ss) + Len(read)
            BY ONLY <3>2, ConcatProperties
          <5> QED BY <5>1, <5>2
        <4>2. \A i \in 1 .. Len(ss) + Len(read) :
                 (ss \o read)[i] = IF i <= Len(ss) THEN ss[i] ELSE read[i - Len(ss)]
          BY <3>2
        <4> QED BY <4>1, <4>2, Zenon
      <3> QED BY <3>1, <3>3, Zenon
    <2> QED BY <1>1, <1>2, <2>1, Zenon
  <1>4. PICK h : /\ h \in [0 .. n -> Seq(S)] /\ h[0] = <<>>
                 /\ \A k \in 1 .. n : h[k] = h[k - 1] \o ss[k]
                 /\ FlattenSeq(ss) = h[n]
    BY <1>1, FlattenSteps
  <1>5. PICK g : /\ g \in [0 .. n + r -> Seq(S)] /\ g[0] = <<>>
                 /\ \A k \in 1 .. n + r : g[k] = g[k - 1] \o t[k]
                 /\ FlattenSeq(t) = g[n + r]
    <2>1. \E g : /\ g \in [0 .. Len(t) -> Seq(S)] /\ g[0] = <<>>
                 /\ \A k \in 1 .. Len(t) : g[k] = g[k - 1] \o t[k]
                 /\ FlattenSeq(t) = g[Len(t)]
      BY <1>3, FlattenSteps, Zenon
    <2> QED BY <1>3, <2>1, Zenon
  <1>6. g[n] = h[n]
    <2>1. PICK Good : \A k : k \in Good <=> (k \in 0 .. n /\ g[k] = h[k])
      <3>1. \A k : k \in {j \in 0 .. n : g[j] = h[j]} <=> (k \in 0 .. n /\ g[k] = h[k])
        OBVIOUS
      <3> QED BY <3>1
    <2>2. 0 \in Good
      <3>1. g[0] = h[0]
        BY <1>4, <1>5, Zenon
      <3>2. 0 \in 0 .. n
        OBVIOUS
      <3> QED BY <2>1, <3>1, <3>2, Zenon
    <2>3. ASSUME NEW k \in 1 .. n, k - 1 \in Good PROVE k \in Good
      <3>1. g[k - 1] = h[k - 1]
        BY <2>1, <2>3
      <3>2. k \in 1 .. n + r /\ t[k] = ss[k]
        BY <1>3
      <3>3. g[k] = h[k]
        BY <1>4, <1>5, <3>1, <3>2
      <3> QED BY <2>1, <3>3
    <2>4. n \in Good
      BY <2>2, <2>3, Induction, Zenon
    <2> QED BY <2>1, <2>4
  <1>7. g[n + r] = SubSeq(f, b + 1, c[r])
    <2>1. PICK Good : \A k : k \in Good <=> (k \in 0 .. r /\ g[n + k] = SubSeq(f, b + 1, c[k]))
      <3>1. \A k : k \in {j \in 0 .. r : g[n + j] = SubSeq(f, b + 1, c[j])}
                     <=> (k \in 0 .. r /\ g[n + k] = SubSeq(f, b + 1, c[k]))
        OBVIOUS
      <3> QED BY <3>1
    <2>2. 0 \in Good
      <3>1. 0 \in 0 .. r /\ n + 0 = n
        OBVIOUS
      <3>2. g[n + 0] = SubSeq(f, b + 1, c[0])
        BY <1>4, <1>6, <3>1, Zenon
      <3> QED BY <2>1, <3>1, <3>2, Zenon
    <2>3. ASSUME NEW k \in 1 .. r, k - 1 \in Good PROVE k \in Good
      <3>1. g[n + (k - 1)] = SubSeq(f, b + 1, c[k - 1])
        BY <2>1, <2>3
      <3>2. n + k \in 1 .. n + r /\ t[n + k] = read[k] /\ (n + k) - 1 = n + (k - 1)
        <4>1. n + k \in 1 .. n + r /\ ~(n + k <= n) /\ (n + k) - n = k /\ (n + k) - 1 = n + (k - 1)
          OBVIOUS
        <4> QED BY <1>3, <4>1
      <3>3. g[n + k] = SubSeq(f, b + 1, c[k - 1]) \o SubSeq(f, c[k - 1] + 1, c[k])
        BY <1>a, <1>5, <3>1, <3>2
      <3>4. PICK u, v : u = c[k - 1] /\ v = c[k]
        OBVIOUS
      <3>5. u \in Nat /\ v \in Nat /\ b <= u /\ u <= v /\ v <= Len(f)
        <4>1. k \in 0 .. r /\ k - 1 \in 0 .. r
          OBVIOUS
        <4> QED BY <1>a, <3>4, <4>1
      <3>6. Len(f) \in Nat
        OBVIOUS
      <3>7. b + 1 \in 1 .. Len(f) + 1 /\ u \in (b + 1) - 1 .. Len(f) /\ v \in u .. Len(f)
        BY <3>5, <3>6
      <3>8. SubSeq(f, b + 1, u) \o SubSeq(f, u + 1, v) = SubSeq(f, b + 1, v)
        BY <3>7, ConcatAdjacentSubSeq
      <3>9. g[n + k] = SubSeq(f, b + 1, c[k])
        BY <3>3, <3>4, <3>8, Zenon
      <3>10. k \in 0 .. r
        OBVIOUS
      <3> QED BY <2>1, <3>9, <3>10, Zenon
    <2>4. r \in Good
      BY <2>2, <2>3, Induction, Zenon
    <2> QED BY <2>1, <2>4
  <1> QED BY <1>2, <1>5, <1>7

-----------------------------------------------------------------------------
(* The alerts of one source name that source and labels of patterns.       *)
LEMMA AlertsTyped ==
  ASSUME NEW s \in Source, content[s] \in Seq(Cell), offset[s] \in Nat
  PROVE  Alerts(s) \in Seq(Alert)
PROOF
  <1>1. PICK r, read : r = Rounds(s) /\ read = Read(s)
    OBVIOUS
  <1>2. r \in Nat /\ read \in Seq(Seq(Cell)) /\ Len(read) = r
    BY <1>1, ReadLines
  <1>3. \A k \in 1 .. r : read[k] \in Seq(Cell)
    BY <1>2, ElementOfSeq
  <1>4. ASSUME NEW k \in 1 .. r
        PROVE  [source |-> s, matched |-> matches(read[k])] \in Alert
    <2>1. PICK line \in Seq(Cell) : line = read[k]
      BY <1>3
    <2>2. matches(line) \subseteq Label
      <3>1. \A i \in DOMAIN line : line[i].word \in Label \union {NoWord}
        <4>1. \A i \in DOMAIN line : line[i] \in Cell
          BY LenProperties
        <4> QED BY <4>1 DEF Cell
      <3> QED BY <3>1 DEF matches
    <2> QED BY <2>1, <2>2 DEF Alert
  <1> DEFINE After(t, k) == IF matches(read[k]) = {} THEN t
                            ELSE Append(t, [source |-> s, matched |-> matches(read[k])])
             Traced(g) == g = [k \in 0 .. r |-> IF k = 0 THEN <<>> ELSE After(g[k - 1], k)]
  <1>5. \A k \in 1 .. r : \A t \in Seq(Alert) : After(t, k) \in Seq(Alert)
    BY <1>4, AppendProperties
  <1>6. Alerts(s) = (CHOOSE g : Traced(g))[r]
    BY <1>1 DEF Alerts
  <1> HIDE DEF After
  <1>7. <<>> \in Seq(Alert)
    BY EmptySeq
  <1>8. PICK step : step = [p \in (1 .. r) \X Seq(Alert) |-> After(p[2], p[1])]
    OBVIOUS
  <1>9. /\ step \in [(1 .. r) \X Seq(Alert) -> Seq(Alert)]
        /\ \A k \in 1 .. r : \A t \in Seq(Alert) : step[<<k, t>>] = After(t, k)
    BY <1>5, <1>8
  <1>10. PICK f : Trace(f, r, Seq(Alert), <<>>, step)
    BY <1>2, <1>7, <1>9, LoopTrace
  <1>11. /\ f \in [0 .. r -> Seq(Alert)] /\ f[0] = <<>>
         /\ \A k \in 1 .. r : f[k] = step[<<k, f[k - 1]>>]
    BY <1>10 DEF Trace
  <1>12. \A k \in 1 .. r : f[k - 1] \in Seq(Alert)
    BY <1>2, <1>11
  <1>13. \A k \in 1 .. r : f[k] = After(f[k - 1], k)
    BY <1>9, <1>11, <1>12
  <1>14. Traced(f)
    BY <1>2, <1>11, <1>13
  <1>15. PICK g : g = CHOOSE x : Traced(x)
    OBVIOUS
  <1>16. Traced(g)
    BY <1>14, <1>15
  <1>17. g[0] = <<>> /\ \A k \in 1 .. r : g[k] = After(g[k - 1], k)
    BY <1>2, <1>16
  <1>18. PICK Good : \A k : k \in Good <=> k \in 0 .. r /\ g[k] \in Seq(Alert)
    <2>1. \A k : k \in {j \in 0 .. r : g[j] \in Seq(Alert)} <=> k \in 0 .. r /\ g[k] \in Seq(Alert)
      OBVIOUS
    <2> QED BY <2>1
  <1>19. 0 \in Good
    <2>1. 0 \in 0 .. r /\ g[0] \in Seq(Alert)
      BY <1>2, <1>7, <1>17
    <2> QED BY <1>18, <2>1
  <1>20. ASSUME NEW k \in 1 .. r, k - 1 \in Good PROVE k \in Good
    <2>1. g[k - 1] \in Seq(Alert)
      BY <1>18, <1>20
    <2>2. g[k] \in Seq(Alert) /\ k \in 0 .. r
      BY <1>2, <1>5, <1>17, <2>1
    <2> QED BY <1>18, <2>2
  <1>21. r \in Good
    BY <1>2, <1>19, <1>20, Induction, Zenon
  <1>22. g[r] \in Seq(Alert)
    BY <1>18, <1>21
  <1> HIDE DEF Traced
  <1> QED BY <1>6, <1>15, <1>22

(* So do the alerts of a whole poll, whichever sources fail in it.         *)
LEMMA PollTyped ==
  ASSUME TypeOK, NEW outcome
  PROVE  poll(outcome) \in Seq(Alert)
PROOF
  <1>1. PICK n \in Nat : n = Len(Sources)
    BY MonitorAssumption
  <1>2. DOMAIN Sources = 1 .. n /\ \A i \in 1 .. n : Sources[i] \in Source
    BY <1>1, MonitorAssumption, LenProperties
  <1> DEFINE e(i) == IF Readable(Sources[i], outcome) THEN Alerts(Sources[i]) ELSE <<>>
  <1>3. ASSUME NEW i \in 1 .. n PROVE e(i) \in Seq(Alert)
    <2>1. PICK s \in Source : s = Sources[i]
      BY <1>2
    <2>2. content[s] \in Seq(Cell) /\ offset[s] \in Nat
      BY DEF TypeOK
    <2>3. Alerts(s) \in Seq(Alert)
      BY <2>2, AlertsTyped
    <2>4. <<>> \in Seq(Alert)
      BY EmptySeq
    <2> QED BY <2>1, <2>3, <2>4
  <1>4. poll(outcome) = FlattenSeq([i \in 1 .. n |-> e(i)])
    BY <1>2 DEF poll
  <1> HIDE DEF e
  <1>5. PICK D : D = Seq(Alert)
    OBVIOUS
  <1>6. [i \in 1 .. n |-> e(i)] \in Seq(D)
    BY <1>3, <1>5
  <1> QED BY <1>4, <1>5, <1>6, FlattenType

-----------------------------------------------------------------------------
(* The gate in the middle of a poll: l is its table, p what it let pass in *)
(* this poll and h what it held back.                                      *)
Fired(k, at, p) == (\E i \in DOMAIN fired : fired[i] = [key |-> k, at |-> at])
                  \/ (at = now /\ \E j \in DOMAIN p : p[j] = k)
TableTyped(l) == DOMAIN l \subseteq Alert /\ l \in [DOMAIN l -> 0 .. now]
TableOfFirings(l, p) == \A k \in DOMAIN l : Fired(k, l[k], p)
TableHolds(l) ==
  \A i \in DOMAIN fired :
    now - fired[i].at < window => fired[i].key \in DOMAIN l /\ fired[i].at <= l[fired[i].key]
PassedHeld(l, p) ==
  window > 0 => \A j \in DOMAIN p : p[j] \in DOMAIN l /\ l[p[j]] = now
PassedAfter(p) ==
  \A j \in DOMAIN p : \A i \in DOMAIN fired : fired[i].key = p[j] => now - fired[i].at >= window
PassedOnce(p) ==
  window > 0 => \A i, j \in DOMAIN p : i # j => p[i] # p[j]
HeldAfter(p, h) ==
  \A j \in DOMAIN h : \E at \in Nat : Fired(h[j], at, p) /\ at <= now /\ now - at < window
Screens(l, p, h) ==
  /\ TableTyped(l) /\ p \in Seq(Alert) /\ h \in Seq(Alert)
  /\ TableOfFirings(l, p) /\ TableHolds(l)
  /\ PassedHeld(l, p) /\ PassedAfter(p) /\ PassedOnce(p)
  /\ HeldAfter(p, h)

(* A firing is of an alert, at a time that has been.                       *)
LEMMA FiringTyped ==
  ASSUME TypeOK, NEW i \in DOMAIN fired
  PROVE  fired[i] \in [key : Alert, at : 0 .. now] /\ fired[i].key \in Alert /\ fired[i].at \in 0 .. now
PROOF
  <1>1. PICK F : F = [key : Alert, at : 0 .. now]
    OBVIOUS
  <1>2. fired \in Seq(F)
    BY <1>1 DEF TypeOK
  <1>3. fired[i] \in F
    BY <1>2, LenProperties
  <1> QED BY <1>1, <1>3

(* prune forgets nothing that still matters: what is left of the table is  *)
(* of this window, and every firing of this window is still in it.         *)
LEMMA PruneKeeps ==
  ASSUME TypeOK, NEW l, NEW p, NEW h, Screens(l, p, h)
  PROVE  Screens(prune(l), p, h) /\ \A k \in DOMAIN prune(l) : now - prune(l)[k] < window
PROOF
  <1>1. PICK q : q = prune(l)
    OBVIOUS
  <1>2. /\ \A k : k \in DOMAIN q <=> k \in DOMAIN l /\ now - l[k] < window
        /\ \A k \in DOMAIN q : q[k] = l[k]
        /\ q = [k \in DOMAIN q |-> q[k]]
    BY <1>1 DEF prune
  <1>3. now \in Nat /\ window \in Nat /\ \A i \in DOMAIN fired : fired[i].at \in 0 .. now
    <2>1. \A i \in DOMAIN fired : fired[i].at \in 0 .. now
      BY FiringTyped
    <2> QED BY <2>1, MonitorAssumption DEF TypeOK
  <1>4. \A k \in DOMAIN l : l[k] \in 0 .. now
    BY DEF Screens, TableTyped
  <1>5. TableTyped(q)
    BY <1>2, <1>4 DEF Screens, TableTyped
  <1>6. TableOfFirings(q, p)
    BY <1>2 DEF Screens, TableOfFirings
  <1>7. TableHolds(q)
    <2> SUFFICES ASSUME NEW i \in DOMAIN fired, now - fired[i].at < window
                 PROVE  fired[i].key \in DOMAIN q /\ fired[i].at <= q[fired[i].key]
      BY DEF TableHolds
    <2>1. fired[i].key \in DOMAIN l /\ fired[i].at <= l[fired[i].key]
      BY DEF Screens, TableHolds
    <2>2. now - l[fired[i].key] < window
      BY <1>3, <1>4, <2>1
    <2> QED BY <1>2, <2>1, <2>2
  <1>8. PassedHeld(q, p)
    <2> SUFFICES ASSUME window > 0, NEW j \in DOMAIN p PROVE p[j] \in DOMAIN q /\ q[p[j]] = now
      BY DEF PassedHeld
    <2>1. p[j] \in DOMAIN l /\ l[p[j]] = now
      BY DEF Screens, PassedHeld
    <2>2. now - l[p[j]] < window
      BY <1>3, <2>1
    <2> QED BY <1>2, <2>1, <2>2
  <1>9. Screens(q, p, h)
    BY <1>5, <1>6, <1>7, <1>8 DEF Screens
  <1> QED BY <1>1, <1>2, <1>9

(* An alert that is held back has one of its kind in the table, so one     *)
(* that fired less than a window ago.                                      *)
LEMMA HoldKeeps ==
  ASSUME TypeOK, NEW l, NEW p, NEW h, Screens(l, p, h),
         NEW a \in DOMAIN l, now - l[a] < window
  PROVE  Screens(l, p, Append(h, a))
PROOF
  <1>1. PICK g : g = Append(h, a)
    OBVIOUS
  <1>2. h \in Seq(Alert) /\ a \in Alert /\ l[a] \in 0 .. now /\ now \in Nat
    BY DEF Screens, TableTyped, TypeOK
  <1>3. g \in Seq(Alert) /\ Len(g) = Len(h) + 1 /\ g[Len(h) + 1] = a
        /\ \A j \in 1 .. Len(h) : g[j] = h[j]
    BY <1>1, <1>2, AppendProperties
  <1>4. DOMAIN g = 1 .. Len(h) + 1 /\ DOMAIN h = 1 .. Len(h) /\ Len(h) \in Nat
    BY <1>2, <1>3, LenProperties
  <1>5. HeldAfter(p, g)
    <2> SUFFICES ASSUME NEW j \in DOMAIN g
                 PROVE  \E at \in Nat : Fired(g[j], at, p) /\ at <= now /\ now - at < window
      BY DEF HeldAfter
    <2>1. CASE j = Len(h) + 1
      <3>1. Fired(a, l[a], p)
        BY DEF Screens, TableOfFirings
      <3> QED BY <1>2, <1>3, <2>1, <3>1
    <2>2. CASE j # Len(h) + 1
      <3>1. j \in DOMAIN h /\ g[j] = h[j]
        BY <1>3, <1>4, <2>2
      <3> QED BY <3>1 DEF Screens, HeldAfter
    <2> QED BY <2>1, <2>2
  <1>6. Screens(l, p, g)
    BY <1>3, <1>5 DEF Screens
  <1> QED BY <1>1, <1>6

(* An alert that passes had none of its kind in this window, neither       *)
(* earlier nor in this poll, and is in the table from now on.              *)
LEMMA PassKeeps ==
  ASSUME TypeOK, NEW l, NEW p, NEW h, Screens(l, p, h), NEW a \in Alert \ DOMAIN l
  PROVE  Screens(insert(l, a), Append(p, a), h)
PROOF
  <1>1. PICK q, r : q = insert(l, a) /\ r = Append(p, a)
    OBVIOUS
  <1>2. /\ DOMAIN q = DOMAIN l \union {a} /\ q[a] = now /\ \A k \in DOMAIN l : q[k] = l[k]
        /\ q = [k \in DOMAIN q |-> q[k]]
    BY <1>1 DEF insert
  <1>3. p \in Seq(Alert) /\ h \in Seq(Alert) /\ now \in Nat
    BY DEF Screens, TypeOK
  <1>4. r \in Seq(Alert) /\ Len(r) = Len(p) + 1 /\ r[Len(p) + 1] = a
        /\ \A j \in 1 .. Len(p) : r[j] = p[j]
    BY <1>1, <1>3, AppendProperties
  <1>5. DOMAIN r = 1 .. Len(p) + 1 /\ DOMAIN p = 1 .. Len(p) /\ Len(p) \in Nat
    BY <1>3, <1>4, LenProperties
  <1>6. ASSUME NEW k, NEW at, Fired(k, at, p) PROVE Fired(k, at, r)
    BY <1>4, <1>5, <1>6 DEF Fired
  <1>7. TableTyped(q)
    <2>1. \A k \in DOMAIN q : q[k] \in 0 .. now
      BY <1>2, <1>3 DEF Screens, TableTyped
    <2> QED BY <1>2, <2>1 DEF Screens, TableTyped
  <1>8. TableOfFirings(q, r)
    <2> SUFFICES ASSUME NEW k \in DOMAIN q PROVE Fired(k, q[k], r)
      BY DEF TableOfFirings
    <2>1. CASE k = a
      BY <1>2, <1>4, <1>5, <2>1 DEF Fired
    <2>2. CASE k # a
      BY <1>2, <1>6, <2>2 DEF Screens, TableOfFirings
    <2> QED BY <2>1, <2>2
  <1>9. TableHolds(q)
    BY <1>2 DEF Screens, TableHolds
  <1>10. PassedHeld(q, r)
    <2> SUFFICES ASSUME window > 0, NEW j \in DOMAIN r PROVE r[j] \in DOMAIN q /\ q[r[j]] = now
      BY DEF PassedHeld
    <2>1. CASE j = Len(p) + 1
      BY <1>2, <1>4, <2>1
    <2>2. CASE j # Len(p) + 1
      <3>1. j \in DOMAIN p /\ r[j] = p[j]
        BY <1>4, <1>5, <2>2
      <3>2. p[j] \in DOMAIN l /\ l[p[j]] = now
        BY <3>1 DEF Screens, PassedHeld
      <3> QED BY <1>2, <3>1, <3>2
    <2> QED BY <2>1, <2>2
  <1>11. PassedAfter(r)
    <2> SUFFICES ASSUME NEW j \in DOMAIN r, NEW i \in DOMAIN fired, fired[i].key = r[j]
                 PROVE  now - fired[i].at >= window
      BY DEF PassedAfter
    <2>1. CASE j = Len(p) + 1
      <3>1. fired[i].key \notin DOMAIN l
        BY <1>4, <2>1
      <3>2. ~(now - fired[i].at < window)
        BY <3>1 DEF Screens, TableHolds
      <3>3. fired[i].at \in Nat
        BY <1>3, FiringTyped
      <3> QED BY <1>3, <3>2, <3>3, MonitorAssumption
    <2>2. CASE j # Len(p) + 1
      <3>1. j \in DOMAIN p /\ r[j] = p[j]
        BY <1>4, <1>5, <2>2
      <3> QED BY <3>1 DEF Screens, PassedAfter
    <2> QED BY <2>1, <2>2
  <1>12. PassedOnce(r)
    <2> SUFFICES ASSUME window > 0, NEW i \in DOMAIN r, NEW j \in DOMAIN r, i # j
                 PROVE  r[i] # r[j]
      BY DEF PassedOnce
    <2>1. \A m \in DOMAIN p : r[m] = p[m] /\ p[m] \in DOMAIN l
      BY <1>4, <1>5 DEF Screens, PassedHeld
    <2>2. \A m \in DOMAIN r : m \in DOMAIN p \/ (m = Len(p) + 1 /\ r[m] = a)
      BY <1>4, <1>5
    <2>3. CASE i \in DOMAIN p /\ j \in DOMAIN p
      BY <2>1, <2>3 DEF Screens, PassedOnce
    <2>4. CASE ~(i \in DOMAIN p /\ j \in DOMAIN p)
      BY <2>1, <2>2, <2>4
    <2> QED BY <2>3, <2>4
  <1>13. HeldAfter(r, h)
    BY <1>6 DEF Screens, HeldAfter
  <1>14. Screens(q, r, h)
    BY <1>3, <1>4, <1>7, <1>8, <1>9, <1>10, <1>11, <1>12, <1>13 DEF Screens
  <1> QED BY <1>1, <1>14

(* The states CooldownGate::admit goes through in the course of a poll.    *)
GateState ==
  {st \in [last : UNION {[K -> 0 .. now] : K \in SUBSET Alert}, pass : Seq(Alert), held : Seq(Alert)] :
     Screens(st.last, st.pass, st.held)}

(* A table, what passed and what was held make such a state.               *)
LEMMA GateStateRecord ==
  ASSUME NEW l, NEW p, NEW h, Screens(l, p, h)
  PROVE  [last |-> l, pass |-> p, held |-> h] \in GateState
PROOF
  <1>1. PICK st : st = [last |-> l, pass |-> p, held |-> h]
    OBVIOUS
  <1>2. st.last = l /\ st.pass = p /\ st.held = h
    BY <1>1
  <1>3. p \in Seq(Alert) /\ h \in Seq(Alert) /\ DOMAIN l \in SUBSET Alert /\ l \in [DOMAIN l -> 0 .. now]
    BY DEF Screens, TableTyped
  <1>4. PICK tables : tables = UNION {[K -> 0 .. now] : K \in SUBSET Alert}
    OBVIOUS
  <1>5. l \in tables
    BY <1>3, <1>4
  <1>6. st \in [last : tables, pass : Seq(Alert), held : Seq(Alert)]
    BY <1>1, <1>3, <1>5
  <1>7. Screens(st.last, st.pass, st.held)
    BY <1>2, Zenon
  <1> QED BY <1>1, <1>4, <1>6, <1>7, Zenon DEF GateState

(* CooldownGate::admit, one alert: pruned, then held or passed.            *)
LEMMA AdmitKeeps ==
  ASSUME TypeOK, NEW st \in GateState, NEW a \in Alert
  PROVE  admit(st, a) \in GateState
PROOF
  <1>1. PICK l, p, h, q : l = st.last /\ p = st.pass /\ h = st.held /\ q = prune(l)
    OBVIOUS
  <1>2. PICK tables : tables = UNION {[K -> 0 .. now] : K \in SUBSET Alert}
    OBVIOUS
  <1>3. st \in [last : tables, pass : Seq(Alert), held : Seq(Alert)] /\ Screens(l, p, h)
    BY <1>1, <1>2, Zenon DEF GateState
  <1>4. Screens(q, p, h) /\ \A k \in DOMAIN q : now - q[k] < window
    BY <1>1, <1>3, PruneKeeps
  <1>5. admit(st, a) = IF a \in DOMAIN q THEN [st EXCEPT !.last = q, !.held = Append(@, a)]
                       ELSE [st EXCEPT !.last = insert(q, a), !.pass = Append(@, a)]
    BY <1>1 DEF admit, fingerprint
  <1>6. CASE a \in DOMAIN q
    <2>1. admit(st, a) = [last |-> q, pass |-> p, held |-> Append(h, a)]
      BY <1>1, <1>3, <1>5, <1>6
    <2>2. Screens(q, p, Append(h, a))
      BY <1>4, <1>6, HoldKeeps
    <2> QED BY <2>1, <2>2, GateStateRecord
  <1>7. CASE a \notin DOMAIN q
    <2>1. admit(st, a) = [last |-> insert(q, a), pass |-> Append(p, a), held |-> h]
      BY <1>1, <1>3, <1>5, <1>7
    <2>2. Screens(insert(q, a), Append(p, a), h)
      BY <1>4, <1>7, PassKeeps
    <2> QED BY <2>1, <2>2, GateStateRecord
  <1> QED BY <1>6, <1>7

(* CooldownGate::admit over all alerts of a poll, in their order.          *)
LEMMA ScreenedKeeps ==
  ASSUME TypeOK, Remembered, NEW found \in Seq(Alert)
  PROVE  Screened(found) \in GateState
PROOF
  <1>1. PICK n \in Nat : n = Len(found)
    OBVIOUS
  <1>2. \A k \in 1 .. n : found[k] \in Alert
    BY <1>1, ElementOfSeq
  <1>3. PICK start : start = [last |-> last, pass |-> <<>>, held |-> <<>>]
    OBVIOUS
  <1>4. start \in GateState
    <2>1. <<>> \in Seq(Alert) /\ DOMAIN <<>> = {}
      BY EmptySeq
    <2>2. TableTyped(last) /\ TableHolds(last)
      BY DEF TypeOK, Remembered, TableTyped, TableHolds
    <2>3. TableOfFirings(last, <<>>)
      BY DEF Remembered, TableOfFirings, Fired
    <2>4. PassedHeld(last, <<>>) /\ PassedAfter(<<>>) /\ PassedOnce(<<>>) /\ HeldAfter(<<>>, <<>>)
      BY <2>1 DEF PassedHeld, PassedAfter, PassedOnce, HeldAfter
    <2>5. Screens(last, <<>>, <<>>)
      BY <2>1, <2>2, <2>3, <2>4 DEF Screens
    <2> QED BY <1>3, <2>5, GateStateRecord
  <1> DEFINE Traced(g) == g = [k \in 0 .. n |-> IF k = 0 THEN start ELSE admit(g[k - 1], found[k])]
  <1>5. Screened(found) = (CHOOSE g : Traced(g))[n]
    BY <1>1, <1>3 DEF Screened
  <1>6. \A k \in 1 .. n : \A st \in GateState : admit(st, found[k]) \in GateState
    BY <1>2, AdmitKeeps
  <1>7. PICK step : step = [p \in (1 .. n) \X GateState |-> admit(p[2], found[p[1]])]
    OBVIOUS
  <1>8. /\ step \in [(1 .. n) \X GateState -> GateState]
        /\ \A k \in 1 .. n : \A st \in GateState : step[<<k, st>>] = admit(st, found[k])
    BY <1>6, <1>7
  <1>9. PICK f : Trace(f, n, GateState, start, step)
    BY <1>4, <1>8, LoopTrace
  <1>10. /\ f \in [0 .. n -> GateState] /\ f[0] = start
         /\ \A k \in 1 .. n : f[k] = step[<<k, f[k - 1]>>]
    BY <1>9 DEF Trace
  <1>11. \A k \in 1 .. n : f[k - 1] \in GateState
    BY <1>10
  <1>12. \A k \in 1 .. n : f[k] = admit(f[k - 1], found[k])
    BY <1>8, <1>10, <1>11
  <1>13. Traced(f)
    BY <1>10, <1>12
  <1>14. PICK g : g = CHOOSE x : Traced(x)
    OBVIOUS
  <1>15. Traced(g)
    BY <1>13, <1>14
  <1>16. g[0] = start /\ \A k \in 1 .. n : g[k] = admit(g[k - 1], found[k])
    BY <1>15
  <1>17. PICK Good : \A k : k \in Good <=> k \in 0 .. n /\ g[k] \in GateState
    <2>1. \A k : k \in {j \in 0 .. n : g[j] \in GateState} <=> k \in 0 .. n /\ g[k] \in GateState
      OBVIOUS
    <2> QED BY <2>1
  <1>18. 0 \in Good
    <2>1. 0 \in 0 .. n /\ g[0] \in GateState
      BY <1>4, <1>16
    <2> QED BY <1>17, <2>1
  <1>19. ASSUME NEW k \in 1 .. n, k - 1 \in Good PROVE k \in Good
    <2>1. g[k - 1] \in GateState
      BY <1>17, <1>19
    <2>2. g[k] \in GateState /\ k \in 0 .. n
      BY <1>6, <1>16, <2>1
    <2> QED BY <1>17, <2>2
  <1>20. n \in Good
    BY <1>18, <1>19, Induction, Zenon
  <1>21. g[n] \in GateState
    BY <1>17, <1>20
  <1> HIDE DEF Traced
  <1> QED BY <1>5, <1>14, <1>21

-----------------------------------------------------------------------------
(* One poll of one source continues what was read before it: joined to     *)
(* what was read, its lines are the file up to the new offset, and whole.  *)
LEMMA SourcePolled ==
  ASSUME NEW s \in Source, content[s] \in Seq(Cell), offset[s] \in Nat,
         NEW b \in Nat, NEW ss \in Seq(Seq(Cell)), b <= Start(s),
         FlattenSeq(ss) = SubSeq(content[s], b + 1, Start(s)), Whole(ss)
  PROVE  /\ b <= Consumed(s) /\ Consumed(s) <= Len(content[s])
         /\ FlattenSeq(ss \o Read(s)) = SubSeq(content[s], b + 1, Consumed(s))
         /\ Whole(ss \o Read(s))
PROOF
  <1>1. PICK c, r, read, f, n, D : /\ c = Cursor(s) /\ r = Rounds(s) /\ read = Read(s)
                                   /\ f = content[s] /\ n = Len(ss) /\ D = Seq(Cell)
    OBVIOUS
  <1>2. /\ r \in Nat /\ f \in Seq(Cell) /\ c[0] = Start(s) /\ Len(f) \in Nat
        /\ \A k \in 0 .. r : c[k] \in Nat /\ c[k] <= Len(f)
        /\ \A k \in 1 .. r : c[k - 1] < c[k]
    BY <1>1, RoundsRead
  <1>3. read \in Seq(D) /\ Len(read) = r
    BY <1>1, ReadLines
  <1>4. \A k \in 1 .. r : read[k] = SubSeq(f, c[k - 1] + 1, c[k])
    BY <1>1 DEF Read
  <1>5. Whole(read)
    <2>1. DOMAIN read = 1 .. r
      BY <1>3, LenProperties
    <2> QED BY <1>1, <2>1, ReadLines DEF Whole
  <1>6. \A k \in 0 .. r : b <= c[k]
    <2>1. PICK Good : \A k : k \in Good <=> k \in 0 .. r /\ b <= c[k]
      <3>1. \A k : k \in {j \in 0 .. r : b <= c[j]} <=> k \in 0 .. r /\ b <= c[k]
        OBVIOUS
      <3> QED BY <3>1
    <2>2. 0 \in Good
      <3>1. 0 \in 0 .. r /\ b <= c[0]
        BY <1>2
      <3> QED BY <2>1, <3>1
    <2>3. ASSUME NEW k \in 1 .. r, k - 1 \in Good PROVE k \in Good
      <3>1. b <= c[k - 1] /\ k - 1 \in 0 .. r /\ k \in 0 .. r
        BY <1>2, <2>1, <2>3
      <3>2. b <= c[k]
        BY <1>2, <3>1
      <3> QED BY <2>1, <3>1, <3>2
    <2>4. \A k \in 0 .. r : k \in Good
      BY <1>2, <2>2, <2>3, Induction, Zenon
    <2> QED BY <2>1, <2>4
  <1>7. FlattenSeq(ss \o read) = SubSeq(f, b + 1, c[r])
    <2>1. FlattenSeq(ss) = SubSeq(f, b + 1, c[0])
      BY <1>1, <1>2, Zenon
    <2>2. \A k \in 0 .. r : c[k] \in Nat /\ c[k] <= Len(f) /\ b <= c[k]
      BY <1>2, <1>6
    <2>3. \A k \in 1 .. r : c[k - 1] <= c[k] /\ read[k] = SubSeq(f, c[k - 1] + 1, c[k])
      <3>1. ASSUME NEW k \in 1 .. r PROVE c[k - 1] <= c[k]
        <4>1. k - 1 \in 0 .. r /\ k \in 0 .. r
          BY <1>2
        <4> QED BY <1>2, <4>1
      <3> QED BY <1>4, <3>1, Zenon
    <2>4. read \in Seq(Seq(Cell))
      BY <1>1, <1>3
    <2>5. Cuts(Cell, f, b, c, r, ss, read)
      BY <1>2, <1>3, <2>1, <2>2, <2>3, <2>4, Zenon DEF Cuts
    <2> QED BY <2>5, LinesJoin
  <1>8. Consumed(s) = c[r] /\ r \in 0 .. r
    BY <1>1, <1>2 DEF Consumed
  <1>9. Whole(ss \o read)
    <2>1. PICK t : t = ss \o read
      OBVIOUS
    <2>2. ss \in Seq(D) /\ n \in Nat /\ DOMAIN ss = 1 .. n /\ DOMAIN read = 1 .. r
      BY <1>1, <1>3, LenProperties
    <2>3. t \in Seq(D) /\ Len(t) = n + r
      BY <1>1, <1>3, <2>1, <2>2, ConcatProperties
    <2>4. \A k \in 1 .. n + r : t[k] = IF k <= n THEN ss[k] ELSE read[k - n]
      BY <1>1, <1>3, <2>1, <2>2
    <2>5. DOMAIN t = 1 .. n + r
      BY <2>3, LenProperties
    <2>6. ASSUME NEW k \in DOMAIN t, NEW i \in DOMAIN t[k] PROVE t[k][i].eol <=> i = Len(t[k])
      <3>1. CASE k <= n
        <4>1. k \in DOMAIN ss /\ t[k] = ss[k]
          BY <2>2, <2>4, <2>5, <3>1
        <4> QED BY <2>6, <4>1, Zenon DEF Whole
      <3>2. CASE ~(k <= n)
        <4>0. k - n \in DOMAIN read /\ t[k] = read[k - n]
          BY <1>2, <2>2, <2>4, <2>5, <3>2
        <4>1. PICK m \in DOMAIN read : t[k] = read[m]
          BY <4>0
        <4> QED BY <1>5, <2>6, <4>1, Zenon DEF Whole
      <3> QED BY <3>1, <3>2
    <2> QED BY <2>1, <2>6, Zenon DEF Whole
  <1> QED BY <1>1, <1>2, <1>6, <1>7, <1>8, <1>9

(* poll_actionable keeps the files' side of the invariant: a source that   *)
(* is read, one that fails before or after its offset was reset, one that  *)
(* is missing and one that was replaced unseen.                            *)
LEMMA PollReads ==
  ASSUME TypeOK, Tailed, ExactlyOnce, poll_actionable
  PROVE  /\ offset' \in [Source -> Nat] /\ base' \in [Source -> Nat]
         /\ seen' \in [Source -> Seq(Seq(Cell))] /\ unnoticed' \subseteq Source
         /\ Tailed' /\ ExactlyOnce'
PROOF
  <1>1. PICK tried \in SUBSET Source, read \in SUBSET Source, reset \in SUBSET Source :
          /\ read \subseteq tried /\ reset \subseteq tried
          /\ \A s \in tried : s \in reset <=> Len(content[s]) < offset[s]
          /\ offset' = [s \in Source |-> CASE s \in read -> Consumed(s)
                                           [] s \in tried \ read -> Start(s)
                                           [] OTHER -> offset[s]]
          /\ base' = [s \in Source |-> IF s \in reset THEN 0 ELSE base[s]]
          /\ seen' = [s \in Source |-> (IF s \in reset THEN <<>> ELSE seen[s])
                                       \o (IF s \in read THEN Read(s) ELSE <<>>)]
          /\ unnoticed' = unnoticed \ reset
    <2>1. PICK outcome \in Outcome :
       LET tried == {s \in Source : present[s] /\ outcome[s] # "open_error"}
           read  == {s \in tried : outcome[s] = "read"}
           reset == {s \in tried : Len(content[s]) < offset[s]}
       IN  /\ offset' = [s \in Source |-> CASE s \in read -> Consumed(s)
                                            [] s \in tried \ read -> Start(s)
                                            [] OTHER -> offset[s]]
           /\ base' = [s \in Source |-> IF s \in reset THEN 0 ELSE base[s]]
           /\ seen' = [s \in Source |-> (IF s \in reset THEN <<>> ELSE seen[s])
                                        \o (IF s \in read THEN Read(s) ELSE <<>>)]
           /\ unnoticed' = unnoticed \ reset
      BY Zenon DEF poll_actionable
    <2>2. PICK tried, read, reset :
          /\ tried = {s \in Source : present[s] /\ outcome[s] # "open_error"}
          /\ read = {s \in tried : outcome[s] = "read"}
          /\ reset = {s \in tried : Len(content[s]) < offset[s]}
      OBVIOUS
    <2>3. /\ offset' = [s \in Source |-> CASE s \in read -> Consumed(s)
                                           [] s \in tried \ read -> Start(s)
                                           [] OTHER -> offset[s]]
          /\ base' = [s \in Source |-> IF s \in reset THEN 0 ELSE base[s]]
          /\ seen' = [s \in Source |-> (IF s \in reset THEN <<>> ELSE seen[s])
                                       \o (IF s \in read THEN Read(s) ELSE <<>>)]
          /\ unnoticed' = unnoticed \ reset
      BY <2>1, <2>2, Zenon
    <2>4. /\ tried \in SUBSET Source /\ read \in SUBSET Source /\ reset \in SUBSET Source
          /\ read \subseteq tried /\ reset \subseteq tried
          /\ \A s \in tried : s \in reset <=> Len(content[s]) < offset[s]
      BY <2>2
    <2> QED BY <2>3, <2>4, Zenon
  <1>2. content' = content
    BY DEF poll_actionable, files
  <1>3. ASSUME NEW s \in Source
        PROVE  /\ content[s] \in Seq(Cell) /\ offset[s] \in Nat /\ base[s] \in Nat
               /\ Read(s) \in Seq(Seq(Cell)) /\ Consumed(s) \in Nat /\ Start(s) \in Nat
               /\ seen[s] \in Seq(Seq(Cell)) /\ <<>> \in Seq(Seq(Cell)) /\ Len(content[s]) \in Nat
    <2>1. /\ content[s] \in Seq(Cell) /\ offset[s] \in Nat /\ base[s] \in Nat
          /\ seen[s] \in Seq(Seq(Cell))
      BY DEF TypeOK
    <2>2. Read(s) \in Seq(Seq(Cell))
      BY <2>1, ReadLines
    <2>3. Rounds(s) \in 0 .. Rounds(s) /\ Start(s) \in Nat
      BY <2>1, RoundsRead DEF Start
    <2>4. Consumed(s) \in Nat
      BY <2>1, <2>3, RoundsRead DEF Consumed
    <2>5. <<>> \in Seq(Seq(Cell))
      BY EmptySeq
    <2> QED BY <2>1, <2>2, <2>3, <2>4, <2>5
  <1>4. ASSUME NEW s \in Source
        PROVE  /\ offset'[s] \in Nat /\ base'[s] \in Nat /\ seen'[s] \in Seq(Seq(Cell))
               /\ (s \notin unnoticed' =>
                     /\ base'[s] <= offset'[s] /\ offset'[s] <= Len(content[s])
                     /\ FlattenSeq(seen'[s]) = SubSeq(content[s], base'[s] + 1, offset'[s])
                     /\ Whole(seen'[s]))
    <2>1. PICK b, ss, rd, D : /\ b = (IF s \in reset THEN 0 ELSE base[s])
                              /\ ss = (IF s \in reset THEN <<>> ELSE seen[s])
                              /\ rd = (IF s \in read THEN Read(s) ELSE <<>>)
                              /\ D = Seq(Cell)
      OBVIOUS
    <2>2. b \in Nat /\ ss \in Seq(D) /\ rd \in Seq(D)
      BY <1>3, <2>1
    <2>3. base'[s] = b /\ seen'[s] = ss \o rd
      BY <1>1, <2>1
    <2>4. offset'[s] = CASE s \in read -> Consumed(s)
                         [] s \in tried \ read -> Start(s)
                         [] OTHER -> offset[s]
      BY <1>1
    <2>5. ss \o rd \in Seq(Seq(Cell))
      BY <2>1, <2>2, ConcatProperties
    <2>6. offset'[s] \in Nat
      BY <1>3, <2>4
    <2>7. ASSUME s \notin unnoticed'
          PROVE  /\ b <= Start(s) /\ FlattenSeq(ss) = SubSeq(content[s], b + 1, Start(s))
                 /\ Whole(ss) /\ (s \notin tried => Start(s) = offset[s])
                 /\ Start(s) <= Len(content[s])
      <3>1. CASE s \in reset
        <4>1. Start(s) = 0 /\ b = 0 /\ ss = <<>>
          BY <1>1, <2>1, <3>1 DEF Start
        <4>2. FlattenSeq(<<>>) = <<>> /\ SubSeq(content[s], 0 + 1, 0) = <<>>
          <5>1. FlattenSeq(<<>>) = <<>>
            BY EmptySeq DEF FlattenSeq
          <5>2. SubSeq(content[s], 0 + 1, 0) = <<>>
            BY SubSeqEmpty
          <5> QED BY <5>1, <5>2
        <4>3. Whole(<<>>)
          BY DEF Whole
        <4>4. s \in tried
          BY <1>1, <3>1
        <4>5. b <= Start(s) /\ Start(s) <= Len(content[s])
          BY <1>3, <4>1
        <4>6. FlattenSeq(ss) = SubSeq(content[s], b + 1, Start(s))
          BY <4>1, <4>2, Zenon
        <4> QED BY <4>1, <4>3, <4>4, <4>5, <4>6, Zenon
      <3>2. CASE s \notin reset
        <4>1. s \in Source \ unnoticed /\ b = base[s] /\ ss = seen[s]
          BY <1>1, <2>1, <2>7, <3>2
        <4>2. base[s] <= offset[s] /\ offset[s] <= Len(content[s])
          BY <4>1 DEF Tailed
        <4>3. Start(s) = offset[s]
          BY <1>3, <4>2 DEF Start
        <4>4. FlattenSeq(seen[s]) = SubSeq(content[s], base[s] + 1, offset[s]) /\ Whole(seen[s])
          BY <4>1 DEF ExactlyOnce
        <4> QED BY <4>1, <4>2, <4>3, <4>4
      <3> QED BY <3>1, <3>2
    <2>8. ASSUME s \notin unnoticed'
          PROVE  /\ b <= offset'[s] /\ offset'[s] <= Len(content[s])
                 /\ FlattenSeq(ss \o rd) = SubSeq(content[s], b + 1, offset'[s])
                 /\ Whole(ss \o rd)
      <3>1. CASE s \in read
        <4>1. offset'[s] = Consumed(s) /\ rd = Read(s)
          BY <2>1, <2>4, <3>1
        <4>2. ss \in Seq(Seq(Cell))
          BY <2>1, <2>2
        <4>3. /\ b <= Consumed(s) /\ Consumed(s) <= Len(content[s])
              /\ FlattenSeq(ss \o Read(s)) = SubSeq(content[s], b + 1, Consumed(s))
              /\ Whole(ss \o Read(s))
          BY <1>3, <2>2, <2>7, <2>8, <4>2, SourcePolled
        <4> QED BY <4>1, <4>3
      <3>2. CASE s \notin read
        <4>1. offset'[s] = Start(s) /\ rd = <<>>
          BY <2>1, <2>4, <2>7, <2>8, <3>2
        <4>2. ss \o rd = ss
          BY <2>2, <4>1, ConcatEmptySeq
        <4> QED BY <2>7, <2>8, <4>1, <4>2
      <3> QED BY <3>1, <3>2
    <2> QED BY <2>2, <2>3, <2>5, <2>6, <2>8
  <1>5. offset' \in [Source -> Nat] /\ base' \in [Source -> Nat] /\ seen' \in [Source -> Seq(Seq(Cell))]
    <2>1. offset' = [s \in Source |-> offset'[s]] /\ base' = [s \in Source |-> base'[s]]
          /\ seen' = [s \in Source |-> seen'[s]]
      BY <1>1
    <2> QED BY <1>4, <2>1
  <1>6. unnoticed' \subseteq Source
    BY <1>1 DEF TypeOK
  <1>7. Tailed'
    BY <1>2, <1>4 DEF Tailed
  <1>8. ExactlyOnce'
    BY <1>2, <1>4, Zenon DEF ExactlyOnce, Whole
  <1> QED BY <1>5, <1>6, <1>7, <1>8

(* poll_actionable keeps the gate's side: what passes is appended to the   *)
(* history, what is held is recorded with the firing that held it.         *)
LEMMA PollFires ==
  ASSUME TypeOK, Remembered, CooldownExact, poll_actionable
  PROVE  /\ DOMAIN last' \subseteq Alert /\ last' \in [DOMAIN last' -> 0 .. now']
         /\ alerts' \in Seq(Alert) /\ fired' \in Seq([key : Alert, at : 0 .. now'])
         /\ Remembered' /\ CooldownExact'
PROOF
  <1>1. PICK l, p, h :
          /\ Screens(l, p, h) /\ last' = l /\ alerts' = p
          /\ fired' = fired \o [k \in DOMAIN p |-> [key |-> p[k], at |-> now]]
          /\ suppressed' = suppressed \union {[key |-> a, at |-> now] : a \in Range(h)}
    <2>1. PICK outcome \in Outcome : \E gated \in {Screened(poll(outcome))} :
           /\ last' = gated.last
           /\ alerts' = gated.pass
           /\ fired' = fired \o [k \in DOMAIN gated.pass |-> [key |-> fingerprint(gated.pass[k]), at |-> now]]
           /\ suppressed' = suppressed \union {[key |-> fingerprint(a), at |-> now] : a \in Range(gated.held)}
      BY Zenon DEF poll_actionable
    <2>2. PICK gated : gated = Screened(poll(outcome))
      OBVIOUS
    <2>3. /\ last' = gated.last
          /\ alerts' = gated.pass
          /\ fired' = fired \o [k \in DOMAIN gated.pass |-> [key |-> gated.pass[k], at |-> now]]
          /\ suppressed' = suppressed \union {[key |-> a, at |-> now] : a \in Range(gated.held)}
      BY <2>1, <2>2, Zenon DEF fingerprint
    <2>4. gated \in GateState
      BY <2>2, PollTyped, ScreenedKeeps, Zenon
    <2>5. Screens(gated.last, gated.pass, gated.held)
      BY <2>4, Zenon DEF GateState
    <2> QED BY <2>3, <2>5, Zenon
  <1>2. now' = now /\ now \in Nat /\ window \in Nat
    BY MonitorAssumption DEF poll_actionable, TypeOK
  <1>3. PICK F, m, q, new : /\ F = [key : Alert, at : 0 .. now] /\ m = Len(fired) /\ q = Len(p)
                            /\ new = [k \in DOMAIN p |-> [key |-> p[k], at |-> now]]
    OBVIOUS
  <1>4. /\ p \in Seq(Alert) /\ h \in Seq(Alert) /\ q \in Nat /\ DOMAIN p = 1 .. q
        /\ \A j \in DOMAIN p : p[j] \in Alert
    BY <1>1, <1>3, LenProperties DEF Screens
  <1>5. fired \in Seq(F) /\ m \in Nat /\ DOMAIN fired = 1 .. m
    BY <1>3, LenProperties DEF TypeOK
  <1>6. /\ new \in Seq(F) /\ Len(new) = q
        /\ \A j \in DOMAIN p : new[j] = [key |-> p[j], at |-> now]
    <2> DEFINE e(j) == [key |-> p[j], at |-> now]
    <2>1. \A j \in 1 .. q : e(j) \in F
      BY <1>2, <1>3, <1>4
    <2>2. new = [j \in 1 .. q |-> e(j)]
      BY <1>3, <1>4
    <2>3. \A j \in DOMAIN p : new[j] = e(j)
      BY <1>4, <2>2
    <2> HIDE DEF e
    <2>4. new \in Seq(F) /\ Len(new) = q
      BY <1>4, <2>1, <2>2
    <2> QED BY <2>3, <2>4 DEF e
  <1>7. /\ fired' \in Seq(F) /\ Len(fired') = m + q
        /\ \A i \in 1 .. m + q : fired'[i] = IF i <= m THEN fired[i] ELSE new[i - m]
    <2>1. fired' = fired \o new
      BY <1>1, <1>3
    <2>2. /\ fired \o new \in Seq(F) /\ Len(fired \o new) = Len(fired) + Len(new)
          /\ \A i \in 1 .. Len(fired) + Len(new) :
               (fired \o new)[i] = IF i <= Len(fired) THEN fired[i] ELSE new[i - Len(fired)]
      BY ONLY <1>5, <1>6, ConcatProperties
    <2> QED BY <1>3, <1>6, <2>1, <2>2, Zenon
  <1>8. DOMAIN fired' = 1 .. m + q
    BY <1>7, LenProperties
  <1>9. \A i \in DOMAIN fired : i \in DOMAIN fired' /\ fired'[i] = fired[i]
    BY <1>4, <1>5, <1>7, <1>8
  <1>10. ASSUME NEW j \in DOMAIN p
         PROVE  m + j \in DOMAIN fired' /\ fired'[m + j] = [key |-> p[j], at |-> now]
    <2>1. m + j \in 1 .. m + q /\ ~(m + j <= m) /\ (m + j) - m = j
      BY <1>4, <1>5
    <2> QED BY <1>6, <1>7, <1>8, <2>1
  <1>11. ASSUME NEW i \in DOMAIN fired', i \notin DOMAIN fired
         PROVE  i > m /\ \E j \in DOMAIN p : i = m + j /\ fired'[i] = [key |-> p[j], at |-> now]
    <2>1. i - m \in DOMAIN p /\ i = m + (i - m) /\ i > m
      BY <1>4, <1>5, <1>8, <1>11
    <2> QED BY <1>10, <2>1
  <1>12. ASSUME NEW k, NEW at, Fired(k, at, p)
         PROVE  \E i \in DOMAIN fired' : fired'[i] = [key |-> k, at |-> at]
    <2>1. CASE \E i \in DOMAIN fired : fired[i] = [key |-> k, at |-> at]
      BY <1>9, <2>1, Zenon
    <2>2. CASE at = now /\ \E j \in DOMAIN p : p[j] = k
      BY <1>10, <2>2, Zenon
    <2> QED BY <1>12, <2>1, <2>2, Zenon DEF Fired
  <1>13. \A i \in DOMAIN fired : fired[i].at \in 0 .. now
    BY FiringTyped
  <1>14. Remembered'
    <2>1. ASSUME NEW k \in DOMAIN l PROVE \E i \in DOMAIN fired' : fired'[i] = [key |-> k, at |-> l[k]]
      BY <1>1, <1>12 DEF Screens, TableOfFirings
    <2>2. ASSUME NEW i \in DOMAIN fired', now - fired'[i].at < window
          PROVE  fired'[i].key \in DOMAIN l /\ fired'[i].at <= l[fired'[i].key]
      <3>1. CASE i \in DOMAIN fired
        BY <1>1, <1>9, <2>2, <3>1 DEF Screens, TableHolds
      <3>2. CASE i \notin DOMAIN fired
        <4>1. PICK j \in DOMAIN p : fired'[i] = [key |-> p[j], at |-> now]
          BY <1>11, <3>2
        <4>2. fired'[i].key = p[j] /\ fired'[i].at = now
          BY <4>1
        <4>3. window > 0
          BY <1>2, <2>2, <4>2
        <4>4. p[j] \in DOMAIN l /\ l[p[j]] = now
          BY <1>1, <4>3 DEF Screens, PassedHeld
        <4> QED BY <1>2, <4>2, <4>4
      <3> QED BY <3>1, <3>2
    <2> QED BY <1>1, <1>2, <2>1, <2>2 DEF Remembered
  <1>15. NoStorm'
    <2> SUFFICES ASSUME NEW i \in DOMAIN fired', NEW j \in DOMAIN fired',
                        i < j, fired'[i].key = fired'[j].key
                 PROVE  fired'[j].at - fired'[i].at >= window
      BY DEF NoStorm
    <2>1. CASE j \in DOMAIN fired
      <3>1. i \in DOMAIN fired
        BY <1>5, <1>8, <2>1
      <3> QED BY <1>9, <2>1, <3>1 DEF CooldownExact, NoStorm
    <2>2. CASE j \notin DOMAIN fired
      <3>1. PICK v \in DOMAIN p : j = m + v /\ fired'[j] = [key |-> p[v], at |-> now]
        BY <1>11, <2>2
      <3>2. fired'[j].key = p[v] /\ fired'[j].at = now
        BY <3>1
      <3>3. CASE i \in DOMAIN fired
        <4>1. fired[i].key = p[v] /\ fired'[i].at = fired[i].at
          BY <1>9, <3>2, <3>3
        <4> QED BY <1>1, <3>2, <3>3, <4>1 DEF Screens, PassedAfter
      <3>4. CASE i \notin DOMAIN fired
        <4>1. PICK u \in DOMAIN p : i = m + u /\ fired'[i] = [key |-> p[u], at |-> now]
          BY <1>11, <3>4
        <4>2. p[u] = p[v] /\ u # v /\ fired'[i].at = now
          <5>1. fired'[i].key = p[u] /\ fired'[i].at = now
            BY <4>1
          <5>2. u # v
            BY <1>4, <1>5, <3>1, <4>1
          <5> QED BY <3>2, <5>1, <5>2
        <4>3. ~(window > 0)
          BY <1>1, <4>2 DEF Screens, PassedOnce
        <4> QED BY <1>2, <3>2, <4>2, <4>3
      <3> QED BY <3>3, <3>4
    <2> QED BY <2>1, <2>2
  <1>16. SuppressedAfterFiring'
    <2> SUFFICES ASSUME NEW x \in suppressed'
                 PROVE  \E i \in DOMAIN fired' : /\ fired'[i].key = x.key
                                                 /\ fired'[i].at <= x.at /\ x.at - fired'[i].at < window
      BY DEF SuppressedAfterFiring
    <2>1. CASE x \in suppressed
      BY <1>9, <2>1 DEF CooldownExact, SuppressedAfterFiring
    <2>2. CASE x \notin suppressed
      <3>1. PICK a \in Range(h) : x = [key |-> a, at |-> now]
        BY <1>1, <2>2
      <3>2. PICK j \in DOMAIN h : a = h[j]
        BY <3>1 DEF Range
      <3>3. PICK at \in Nat : Fired(a, at, p) /\ at <= now /\ now - at < window
        BY <1>1, <3>2 DEF Screens, HeldAfter
      <3>4. PICK i \in DOMAIN fired' : fired'[i] = [key |-> a, at |-> at]
        BY <1>12, <3>3
      <3>5. fired'[i].key = x.key /\ fired'[i].at = at /\ x.at = now
        BY <3>1, <3>4
      <3> QED BY <3>3, <3>5
    <2> QED BY <2>1, <2>2
  <1>17. DOMAIN l \subseteq Alert /\ l \in [DOMAIN l -> 0 .. now]
    BY <1>1 DEF Screens, TableTyped
  <1> QED BY <1>1, <1>2, <1>3, <1>4, <1>7, <1>14, <1>15, <1>16, <1>17 DEF CooldownExact

(* poll_actionable preserves the invariant.                                *)
LEMMA PollInv ==
  ASSUME IInv, poll_actionable
  PROVE  IInv'
PROOF
  <1>1. TypeOK /\ Tailed /\ ExactlyOnce /\ Remembered /\ CooldownExact
    BY DEF IInv
  <1>2. /\ offset' \in [Source -> Nat] /\ base' \in [Source -> Nat]
        /\ seen' \in [Source -> Seq(Seq(Cell))] /\ unnoticed' \subseteq Source
        /\ Tailed' /\ ExactlyOnce'
    BY <1>1, PollReads
  <1>3. /\ DOMAIN last' \subseteq Alert /\ last' \in [DOMAIN last' -> 0 .. now']
        /\ alerts' \in Seq(Alert) /\ fired' \in Seq([key : Alert, at : 0 .. now'])
        /\ Remembered' /\ CooldownExact'
    BY <1>1, PollFires
  <1>4. content' = content /\ present' = present /\ now' = now
    BY DEF poll_actionable, files
  <1>5. content' \in [Source -> Seq(Cell)] /\ present' \in [Source -> BOOLEAN] /\ now' \in Nat
    BY <1>1, <1>4 DEF TypeOK
  <1>6. TypeOK'
    BY <1>2, <1>3, <1>5 DEF TypeOK, Source, Alert, Cell
  <1> QED BY <1>2, <1>3, <1>6 DEF IInv

(* assess only takes an alert off the queue.                               *)
LEMMA AssessInv ==
  ASSUME IInv, assess
  PROVE  IInv'
PROOF
  <1>1. UNCHANGED <<content, present, offset, base, seen, unnoticed, last, fired, suppressed, now>>
    BY DEF assess, files, tailer, gate
  <1>2. alerts' \in Seq(Alert)
    BY DEF assess, IInv, TypeOK
  <1>3. TypeOK'
    BY <1>1, <1>2 DEF IInv, TypeOK
  <1>4. Tailed' /\ ExactlyOnce' /\ Remembered' /\ CooldownExact'
    BY <1>1 DEF IInv, Tailed, ExactlyOnce, Remembered, CooldownExact, NoStorm, SuppressedAfterFiring
  <1> QED BY <1>3, <1>4 DEF IInv

(* As time passes, firings leave the window and none enters it.            *)
LEMMA TickInv ==
  ASSUME IInv, Tick
  PROVE  IInv'
PROOF
  <1>1. /\ UNCHANGED <<content, present, offset, base, seen, unnoticed, last, fired, suppressed, alerts>>
        /\ now' = now + 1 /\ now \in Nat /\ TypeOK
    BY DEF Tick, files, tailer, gate, IInv, TypeOK
  <1>2. fired' \in Seq([key : Alert, at : 0 .. now'])
    <2>1. PICK F : F = [key : Alert, at : 0 .. now']
      OBVIOUS
    <2>2. \A i \in DOMAIN fired : fired[i] \in F
      <3>1. \A i \in DOMAIN fired : /\ fired[i] \in [key : Alert, at : 0 .. now]
                                    /\ fired[i].key \in Alert /\ fired[i].at \in 0 .. now
        BY <1>1, FiringTyped
      <3> QED BY <1>1, <2>1, <3>1
    <2>3. PICK m \in Nat : fired = [i \in 1 .. m |-> fired[i]] /\ DOMAIN fired = 1 .. m
      <3>1. PICK G : G = [key : Alert, at : 0 .. now]
        OBVIOUS
      <3>2. fired \in Seq(G)
        BY <1>1, <3>1 DEF TypeOK
      <3> QED BY <3>2, LenProperties
    <2>4. fired \in Seq(F)
      BY <2>2, <2>3
    <2> QED BY <1>1, <2>1, <2>4
  <1>3. last' \in [DOMAIN last' -> 0 .. now']
    <2>1. last \in [DOMAIN last -> 0 .. now] /\ 0 .. now \subseteq 0 .. now'
      BY <1>1 DEF TypeOK
    <2> QED BY <1>1, <2>1
  <1>4. TypeOK'
    BY <1>1, <1>2, <1>3 DEF TypeOK
  <1>5. Remembered'
    <2>1. \A i \in DOMAIN fired : fired[i].at \in 0 .. now
      BY <1>1, FiringTyped
    <2>2. \A i \in DOMAIN fired : now' - fired[i].at < window => now - fired[i].at < window
      BY <1>1, <2>1, MonitorAssumption
    <2>3. \A k \in DOMAIN last : \E i \in DOMAIN fired : fired[i] = [key |-> k, at |-> last[k]]
      BY DEF IInv, Remembered
    <2>4. \A i \in DOMAIN fired :
            now' - fired[i].at < window => /\ fired[i].key \in DOMAIN last
                                           /\ fired[i].at <= last[fired[i].key]
      BY <2>2 DEF IInv, Remembered
    <2> QED BY <1>1, <2>3, <2>4 DEF Remembered
  <1>6. Tailed' /\ ExactlyOnce' /\ CooldownExact'
    BY <1>1 DEF IInv, Tailed, ExactlyOnce, CooldownExact, NoStorm, SuppressedAfterFiring
  <1> QED BY <1>4, <1>5, <1>6 DEF IInv

(* Appending to a file changes nothing in front of its old end.            *)
LEMMA PrefixKept ==
  ASSUME NEW S, NEW f \in Seq(S), NEW g \in Seq(S), NEW b \in Nat, NEW o \in Nat, o <= Len(f)
  PROVE  SubSeq(f \o g, b + 1, o) = SubSeq(f, b + 1, o)
PROOF
  <1>1. PICK t : t = f \o g
    OBVIOUS
  <1>2. t \in Seq(S) /\ \A i \in b + 1 .. o : t[i] = f[i] /\ f[i] \in S
    <2>1. t \in Seq(S)
      BY <1>1, ConcatProperties
    <2>2. \A i \in b + 1 .. o : f[i] \in S /\ i \in 1 .. Len(f) /\ i \in 1 .. Len(f) + Len(g)
      BY ElementOfSeq
    <2>3. \A i \in b + 1 .. o : t[i] = f[i]
      BY <1>1, <2>2
    <2> QED BY <2>1, <2>2, <2>3
  <1>3. PICK u, v : u = SubSeq(t, b + 1, o) /\ v = SubSeq(f, b + 1, o)
    OBVIOUS
  <1>4. /\ u \in Seq(S) /\ Len(u) = (IF b + 1 <= o THEN o - (b + 1) + 1 ELSE 0)
        /\ \A i \in 1 .. o - (b + 1) + 1 : u[i] = t[(b + 1) + i - 1]
    <2>1. \A i \in b + 1 .. o : t[i] \in S
      BY <1>2
    <2> QED BY <1>3, <2>1, SubSeqProperties
  <1>5. /\ v \in Seq(S) /\ Len(v) = (IF b + 1 <= o THEN o - (b + 1) + 1 ELSE 0)
        /\ \A i \in 1 .. o - (b + 1) + 1 : v[i] = f[(b + 1) + i - 1]
    BY <1>2, <1>3, SubSeqProperties
  <1>6. ASSUME NEW i \in 1 .. Len(u) PROVE u[i] = v[i]
    <2>1. i \in 1 .. o - (b + 1) + 1 /\ (b + 1) + i - 1 \in b + 1 .. o
      BY <1>4
    <2> QED BY <1>2, <1>4, <1>5, <2>1
  <1>7. u = v
    BY <1>4, <1>5, <1>6, SeqEqual
  <1> QED BY <1>1, <1>3, <1>7

(* A writer appends behind every offset: what was read stays what it was.  *)
LEMMA GrowInv ==
  ASSUME IInv, NEW s \in Source, NEW cells \in Seq(Cell), Grow(s, cells)
  PROVE  IInv'
PROOF
  <1>1. /\ UNCHANGED <<offset, base, seen, unnoticed, last, fired, suppressed, alerts, now>>
        /\ content' = [content EXCEPT ![s] = content[s] \o cells]
        /\ present' = [present EXCEPT ![s] = TRUE] /\ TypeOK
    BY DEF Grow, tailer, gate, IInv
  <1>2. content[s] \in Seq(Cell)
    BY <1>1 DEF TypeOK
  <1>3. PICK f : f = content[s] \o cells
    OBVIOUS
  <1>4. f \in Seq(Cell) /\ Len(f) = Len(content[s]) + Len(cells) /\ Len(cells) \in Nat
        /\ Len(content[s]) \in Nat
    BY <1>2, <1>3, ConcatProperties
  <1>5. content' \in [Source -> Seq(Cell)] /\ content'[s] = f
        /\ \A x \in Source : x # s => content'[x] = content[x]
    BY <1>1, <1>3, <1>4 DEF TypeOK
  <1>6. present' \in [Source -> BOOLEAN]
    BY <1>1 DEF TypeOK
  <1>7. TypeOK'
    BY <1>1, <1>5, <1>6 DEF TypeOK
  <1>8. ASSUME NEW x \in Source \ unnoticed
        PROVE  /\ base[x] <= offset[x] /\ offset[x] <= Len(content'[x])
               /\ FlattenSeq(seen[x]) = SubSeq(content'[x], base[x] + 1, offset[x])
               /\ Whole(seen[x])
    <2>1. /\ base[x] <= offset[x] /\ offset[x] <= Len(content[x])
          /\ FlattenSeq(seen[x]) = SubSeq(content[x], base[x] + 1, offset[x])
          /\ Whole(seen[x]) /\ base[x] \in Nat /\ offset[x] \in Nat
      BY <1>1 DEF IInv, Tailed, ExactlyOnce, TypeOK
    <2>2. CASE x # s
      BY <1>5, <2>1, <2>2
    <2>3. CASE x = s
      <3>1. SubSeq(content[s] \o cells, base[x] + 1, offset[x]) = SubSeq(content[s], base[x] + 1, offset[x])
        <4>1. PICK f0, b, o : f0 = content[s] /\ b = base[x] /\ o = offset[x]
          OBVIOUS
        <4>2. f0 \in Seq(Cell) /\ b \in Nat /\ o \in Nat /\ o <= Len(f0)
          BY <1>2, <2>1, <2>3, <4>1
        <4>3. SubSeq(f0 \o cells, b + 1, o) = SubSeq(f0, b + 1, o)
          BY <4>2, PrefixKept
        <4> QED BY <4>1, <4>3, Zenon
      <3>2. offset[x] <= Len(content'[x])
        BY <1>4, <1>5, <2>1, <2>3
      <3>3. SubSeq(content'[x], base[x] + 1, offset[x]) = SubSeq(content[x], base[x] + 1, offset[x])
        BY <1>3, <1>5, <2>3, <3>1, Zenon
      <3> QED BY <2>1, <3>2, <3>3, Zenon
    <2> QED BY <2>2, <2>3
  <1>9. Tailed' /\ ExactlyOnce'
    BY <1>1, <1>8 DEF Tailed, ExactlyOnce
  <1>10. Remembered' /\ CooldownExact'
    BY <1>1 DEF IInv, Remembered, CooldownExact, NoStorm, SuppressedAfterFiring
  <1> QED BY <1>7, <1>9, <1>10 DEF IInv

(* A file replaced under a tailer that had read of it is unnoticed from    *)
(* then on; under one that had not, reading begins at its start.           *)
LEMMA ReplaceInv ==
  ASSUME IInv, NEW s \in Source, Replace(s)
  PROVE  IInv'
PROOF
  <1>1. /\ UNCHANGED <<offset, last, fired, suppressed, alerts, now>>
        /\ content' = [content EXCEPT ![s] = <<>>]
        /\ present' \in {present, [present EXCEPT ![s] = FALSE]} /\ TypeOK
    BY DEF Replace, tailer, gate, IInv
  <1>2. <<>> \in Seq(Cell) /\ <<>> \in Seq(Seq(Cell)) /\ Len(<<>>) = 0
    BY EmptySeq
  <1>3. content' \in [Source -> Seq(Cell)] /\ content'[s] = <<>>
        /\ \A x \in Source : x # s => content'[x] = content[x]
    BY <1>1, <1>2 DEF TypeOK
  <1>4. present' \in [Source -> BOOLEAN]
    BY <1>1 DEF TypeOK
  <1>5. \A x \in Source \ unnoticed :
          /\ base[x] <= offset[x] /\ offset[x] <= Len(content[x])
          /\ FlattenSeq(seen[x]) = SubSeq(content[x], base[x] + 1, offset[x])
          /\ Whole(seen[x])
    BY DEF IInv, Tailed, ExactlyOnce
  <1>6. offset[s] \in Nat
    BY <1>1 DEF TypeOK
  <1>7. Remembered' /\ CooldownExact'
    BY <1>1 DEF IInv, Remembered, CooldownExact, NoStorm, SuppressedAfterFiring
  <1>8. CASE offset[s] > 0
    <2>1. unnoticed' = unnoticed \union {s} /\ base' = base /\ seen' = seen
      BY <1>8 DEF Replace, tailer
    <2>2. TypeOK'
      BY <1>1, <1>3, <1>4, <2>1 DEF TypeOK
    <2>3. \A x \in Source \ unnoticed' : x \in Source \ unnoticed /\ content'[x] = content[x]
      BY <1>3, <2>1
    <2>4. Tailed'
      BY <1>1, <1>5, <2>1, <2>3 DEF Tailed
    <2>5. ExactlyOnce'
      BY <1>1, <1>5, <2>1, <2>3 DEF ExactlyOnce
    <2> QED BY <1>7, <2>2, <2>4, <2>5 DEF IInv
  <1>9. CASE ~(offset[s] > 0)
    <2>1. /\ unnoticed' = unnoticed
          /\ base' = [base EXCEPT ![s] = 0] /\ seen' = [seen EXCEPT ![s] = <<>>]
      BY <1>9 DEF Replace
    <2>2. /\ base' \in [Source -> Nat] /\ seen' \in [Source -> Seq(Seq(Cell))]
          /\ base'[s] = 0 /\ seen'[s] = <<>>
          /\ \A x \in Source : x # s => base'[x] = base[x] /\ seen'[x] = seen[x]
      BY <1>1, <1>2, <2>1 DEF TypeOK
    <2>3. TypeOK'
      BY <1>1, <1>3, <1>4, <2>1, <2>2 DEF TypeOK
    <2>4. offset[s] = 0 /\ offset' = offset
      BY <1>1, <1>6, <1>9
    <2>5. FlattenSeq(<<>>) = SubSeq(<<>>, 0 + 1, 0)
      <3>1. FlattenSeq(<<>>) = <<>>
        BY EmptySeq DEF FlattenSeq
      <3>2. SubSeq(<<>>, 0 + 1, 0) = <<>>
        BY SubSeqEmpty
      <3> QED BY <3>1, <3>2
    <2>6. Whole(<<>>)
      BY DEF Whole
    <2>7. ASSUME NEW x \in Source \ unnoticed
          PROVE  /\ base'[x] <= offset'[x] /\ offset'[x] <= Len(content'[x])
                 /\ FlattenSeq(seen'[x]) = SubSeq(content'[x], base'[x] + 1, offset'[x])
                 /\ Whole(seen'[x])
      <3>1. CASE x # s
        BY <1>3, <1>5, <2>2, <2>4, <3>1
      <3>2. CASE x = s
        <4>1. base'[x] <= offset'[x] /\ offset'[x] <= Len(content'[x])
          BY <1>2, <1>3, <2>2, <2>4, <3>2
        <4>2. FlattenSeq(seen'[x]) = SubSeq(content'[x], base'[x] + 1, offset'[x])
          BY <1>3, <2>2, <2>4, <2>5, <3>2, Zenon
        <4> QED BY <2>2, <2>6, <3>2, <4>1, <4>2, Zenon
      <3> QED BY <3>1, <3>2
    <2>8. Tailed' /\ ExactlyOnce'
      BY <2>1, <2>7 DEF Tailed, ExactlyOnce
    <2> QED BY <1>7, <2>3, <2>8 DEF IInv
  <1> QED BY <1>8, <1>9

(* LogTailer::new starts at the end of each file, having read nothing.     *)
LEMMA InitInv ==
  ASSUME Init
  PROVE  IInv
PROOF
  <1>1. PICK line : line = <<[word |-> NoWord, eol |-> TRUE]>>
    OBVIOUS
  <1>2. line \in Seq(Cell) /\ <<>> \in Seq(Cell) /\ <<>> \in Seq(Seq(Cell)) /\ <<>> \in Seq(Alert)
        /\ DOMAIN <<>> = {}
    <2>1. [word |-> NoWord, eol |-> TRUE] \in Cell
      BY DEF Cell
    <2> QED BY <1>1, <2>1, EmptySeq
  <1>3. content \in [Source -> Seq(Cell)]
    <2>1. content \in [Source -> {<<>>, line}]
      BY <1>1 DEF Init
    <2> QED BY <1>2, <2>1
  <1>4. /\ offset = [s \in Source |-> Len(content[s])] /\ base = offset /\ offset \in [Source -> Nat]
        /\ seen = [s \in Source |-> <<>>] /\ seen \in [Source -> Seq(Seq(Cell))]
    BY <1>2, <1>3 DEF Init
  <1>5. last = <<>> /\ fired = <<>> /\ suppressed = {} /\ alerts = <<>> /\ now = 0 /\ unnoticed = {}
    BY DEF Init
  <1>6. present \in [Source -> BOOLEAN]
    BY DEF Init
  <1>7. fired \in Seq([key : Alert, at : 0 .. now])
    BY <1>5, EmptySeq
  <1>8. DOMAIN last \subseteq Alert /\ last \in [DOMAIN last -> 0 .. now]
    BY <1>2, <1>5
  <1>9. TypeOK
    BY <1>2, <1>3, <1>4, <1>5, <1>6, <1>7, <1>8 DEF TypeOK
  <1>10. ASSUME NEW s \in Source
         PROVE  /\ base[s] <= offset[s] /\ offset[s] <= Len(content[s])
                /\ FlattenSeq(seen[s]) = SubSeq(content[s], base[s] + 1, offset[s]) /\ Whole(seen[s])
    <2>1. base[s] = offset[s] /\ offset[s] = Len(content[s]) /\ offset[s] \in Nat /\ seen[s] = <<>>
      BY <1>3, <1>4
    <2>2. FlattenSeq(<<>>) = <<>>
      BY EmptySeq DEF FlattenSeq
    <2>3. SubSeq(content[s], base[s] + 1, offset[s]) = <<>>
      BY <2>1, SubSeqEmpty
    <2>4. Whole(<<>>)
      BY DEF Whole
    <2>5. base[s] <= offset[s] /\ offset[s] <= Len(content[s])
      BY <2>1
    <2> QED BY <2>1, <2>2, <2>3, <2>4, <2>5, Zenon
  <1>11. Tailed /\ ExactlyOnce
    BY <1>10 DEF Tailed, ExactlyOnce
  <1>12. Remembered /\ CooldownExact
    BY <1>2, <1>5 DEF Remembered, CooldownExact, NoStorm, SuppressedAfterFiring
  <1> QED BY <1>9, <1>11, <1>12 DEF IInv

(* The writers: a line, the beginning of one, the rest of one.             *)
LEMMA WriteInv ==
  ASSUME IInv, NEW s \in Source, NEW word \in Label \union {NoWord}, WriteLine(s, word) \/ FinishLine(s)
  PROVE  IInv'
PROOF
  <1>1. PICK one, part, plain, rest :
          /\ one = [word |-> word, eol |-> TRUE] /\ part = [word |-> word, eol |-> FALSE]
          /\ plain = [word |-> NoWord, eol |-> FALSE] /\ rest = [word |-> NoWord, eol |-> TRUE]
    OBVIOUS
  <1>2. one \in Cell /\ part \in Cell /\ plain \in Cell /\ rest \in Cell
    BY <1>1 DEF Cell
  <1>3. \/ Grow(s, <<one>>) \/ Grow(s, <<plain, one>>) \/ Grow(s, <<part>>) \/ Grow(s, <<rest>>)
    BY <1>1 DEF WriteLine, FinishLine
  <1>4. <<one>> \in Seq(Cell) /\ <<plain, one>> \in Seq(Cell) /\ <<part>> \in Seq(Cell)
        /\ <<rest>> \in Seq(Cell)
    BY <1>2
  <1> QED BY <1>3, <1>4, GrowInv

(* Every step preserves the invariant.                                     *)
LEMMA NextInv ==
  ASSUME IInv, [Next]_vars
  PROVE  IInv'
PROOF
  <1>1. CASE poll_actionable
    BY <1>1, PollInv
  <1>2. CASE assess
    BY <1>2, AssessInv
  <1>3. CASE \E s \in Source : \/ \E word \in Label \union {NoWord} : WriteLine(s, word)
                               \/ FinishLine(s)
    <2>1. NoWord \in Label \union {NoWord}
      OBVIOUS
    <2> QED BY <1>3, <2>1, WriteInv
  <1>4. CASE \E s \in Source : Replace(s)
    BY <1>4, ReplaceInv
  <1>5. CASE Tick
    BY <1>5, TickInv
  <1>6. CASE UNCHANGED vars
    <2>1. UNCHANGED <<content, present, offset, base, seen, unnoticed, last, fired, suppressed, alerts, now>>
      BY <1>6 DEF vars, files, tailer, gate
    <2>2. TypeOK'
      BY <2>1 DEF IInv, TypeOK
    <2>3. Tailed' /\ ExactlyOnce' /\ Remembered' /\ CooldownExact'
      BY <2>1 DEF IInv, Tailed, ExactlyOnce, Remembered, CooldownExact, NoStorm, SuppressedAfterFiring
    <2> QED BY <2>2, <2>3 DEF IInv
  <1> QED BY <1>1, <1>2, <1>3, <1>4, <1>5, <1>6 DEF Next

(* The inductive invariant holds throughout: tailers are inside the files  *)
(* they know, and the gate's table holds firings, all those of the last    *)
(* window (monitor.rs LogTailer, CooldownGate).                            *)
THEOREM Invariance == Spec => []IInv
PROOF
  <1>1. Init => IInv
    BY InitInv
  <1>2. IInv /\ [Next]_vars => IInv'
    BY NextInv
  <1> QED BY <1>1, <1>2, PTL DEF Spec

(* Every line of a watched file is read exactly once, whole and in order,  *)
(* for any limits, failures and interleaving with its writers, as long as  *)
(* no replacement of the file went unnoticed (monitor.rs LogTailer::poll). *)
THEOREM LinesReadOnce == Spec => []ExactlyOnce
PROOF
  <1>1. IInv => ExactlyOnce
    BY DEF IInv
  <1> QED BY <1>1, Invariance, PTL

(* For any window, the same kind of event passes once per window and is    *)
(* held back only within a window of one that passed (monitor.rs           *)
(* CooldownGate::admit).                                                   *)
THEOREM OncePerWindow == Spec => []CooldownExact
PROOF
  <1>1. IInv => CooldownExact
    BY DEF IInv
  <1> QED BY <1>1, Invariance, PTL
=============================================================================
