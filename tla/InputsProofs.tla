------------------------------ MODULE InputsProofs ------------------------------
(***************************************************************************)
(* Proofs about the text functions of archangel: for paths, limits, names, *)
(* hex texts, allowlists, replies and configurations of any length, not    *)
(* only those TLC enumerates.  A loop of the code is a recursive function  *)
(* of the model; LoopTrace says that it has a value, Induction what the    *)
(* value is.                                                               *)
(***************************************************************************)
EXTENDS Inputs, SequenceTheorems, WellFoundedInduction, TLAPS

(* A non-empty set of naturals has a least element, which is what Min      *)
(* chooses: the first failing check of SandboxPolicy::plan, the first rule *)
(* that matches, the first inked position of a text.                       *)
LEMMA MinIsLeast ==
  ASSUME NEW S \in SUBSET Nat, S # {}
  PROVE  Min(S) \in S /\ \A j \in S : Min(S) <= j
PROOF
  <1>1. PICK m \in S : \A j \in S : ~(<<j, m>> \in OpToRel(<, Nat))
    BY WFMin, NatLessThanWellFounded
  <1>2. \A j \in S : ~(j < m)
    BY <1>1 DEF OpToRel
  <1>3. \A j \in S : m <= j
    BY <1>2
  <1> QED BY <1>3 DEF Min

(* Induction up to a bound, over the set of the numbers for which a claim  *)
(* holds: what is missing from it would have a least element.              *)
LEMMA Induction ==
  ASSUME NEW n \in Nat, NEW Good, 0 \in Good,
         \A k \in 1 .. n : k - 1 \in Good => k \in Good
  PROVE  n \in Good /\ \A k \in 0 .. n : k \in Good
PROOF
  <1> SUFFICES ASSUME NEW k \in 0 .. n, k \notin Good PROVE FALSE
    OBVIOUS
  <1>1. PICK Bad \in SUBSET Nat : \A j : j \in Bad <=> j \in 0 .. n /\ j \notin Good
    <2>1. {j \in 0 .. n : j \notin Good} \in SUBSET Nat
      OBVIOUS
    <2> QED BY <2>1
  <1>2. PICK m \in Bad : \A j \in Bad : m <= j
    BY <1>1, MinIsLeast
  <1>3. m \in 1 .. n /\ m - 1 \notin Bad /\ m - 1 \in 0 .. n
    BY <1>1, <1>2
  <1> QED BY <1>1, <1>2, <1>3

(* The trace of a loop of n rounds that starts from a and stays within D:  *)
(* f[k] is its state after round k.                                        *)
Trace(f, n, D, a, step) ==
  f \in [0 .. n -> D] /\ f[0] = a /\ \A k \in 1 .. n : f[k] = step[<<k, f[k - 1]>>]
(* Every loop of n rounds has a trace.                                     *)
LEMMA LoopTrace ==
  ASSUME NEW n \in Nat, NEW D, NEW a \in D, NEW step \in [(1 .. n) \X D -> D]
  PROVE  \E f : Trace(f, n, D, a, step)
PROOF
  <1>1. PICK Good : \A m : m \in Good <=> m \in 0 .. n /\ \E f : Trace(f, m, D, a, step)
    <2>1. \A m : m \in {j \in 0 .. n : \E f : Trace(f, j, D, a, step)}
                  <=> m \in 0 .. n /\ \E f : Trace(f, m, D, a, step)
      OBVIOUS
    <2> QED BY <2>1
  <1>2. 0 \in Good
    <2>1. Trace([k \in 0 .. 0 |-> a], 0, D, a, step)
      BY DEF Trace
    <2> QED BY <1>1, <2>1
  <1>3. ASSUME NEW m \in 1 .. n, m - 1 \in Good PROVE m \in Good
    <2>1. PICK f : Trace(f, m - 1, D, a, step)
      BY <1>1, <1>3
    <2>2. f \in [0 .. m - 1 -> D] /\ f[0] = a /\ \A k \in 1 .. m - 1 : f[k] = step[<<k, f[k - 1]>>]
      BY <2>1 DEF Trace
    <2>3. PICK v : v = step[<<m, f[m - 1]>>]
      OBVIOUS
    <2>4. v \in D
      <3>1. <<m, f[m - 1]>> \in (1 .. n) \X D
        BY <2>2
      <3> QED BY <2>3, <3>1
    <2>5. PICK g : g = [k \in 0 .. m |-> IF k = m THEN v ELSE f[k]]
      OBVIOUS
    <2>6. g \in [0 .. m -> D] /\ g[0] = a /\ g[m] = v /\ \A k \in 0 .. m - 1 : g[k] = f[k]
      BY <2>2, <2>4, <2>5
    <2>7. ASSUME NEW k \in 1 .. m PROVE g[k] = step[<<k, g[k - 1]>>]
      <3>1. CASE k = m
        BY <2>3, <2>6, <3>1
      <3>2. CASE k # m
        <4>1. k \in 1 .. m - 1 /\ k - 1 \in 0 .. m - 1 /\ k \in 0 .. m - 1
          BY <3>2
        <4> QED BY <2>2, <2>6, <4>1
      <3> QED BY <3>1, <3>2
    <2> QED BY <1>1, <2>6, <2>7 DEF Trace
  <1>4. n \in Good
    BY <1>2, <1>3, Induction
  <1> QED BY <1>1, <1>4

-----------------------------------------------------------------------------
(* One round of the loop of normalize_absolute: an empty or "." component  *)
(* leaves the stack, ".." pops it, a name is pushed.                       *)
LEMMA PushSteps ==
  ASSUME NEW st \in Seq(Name)
  PROVE  /\ push(st, "") = st /\ push(st, ".") = st
         /\ push(st, "..") = IF st = <<>> THEN st ELSE Front(st)
         /\ \A n \in Name : push(st, n) = Append(st, n)
         /\ \A c \in Component : push(st, c) \in Seq(Name)
PROOF
  <1>1. push(st, "") = st /\ push(st, ".") = st
    BY DEF push
  <1>2. push(st, "..") = IF st = <<>> THEN st ELSE Front(st)
    BY DEF push
  <1>3. \A n \in Name : push(st, n) = Append(st, n)
    BY PathRulesAssumption DEF push
  <1>4. (IF st = <<>> THEN st ELSE Front(st)) \in Seq(Name)
    <2>1. CASE st = <<>>
      BY <2>1
    <2>2. CASE st # <<>>
      <3>1. Len(st) - 1 \in Nat
        BY <2>2
      <3>2. \A i \in 1 .. Len(st) - 1 : st[i] \in Name
        BY <3>1, ElementOfSeq
      <3>3. SubSeq(st, 1, Len(st) - 1) \in Seq(Name)
        BY <3>1, <3>2, SubSeqProperties
      <3> QED BY <2>2, <3>3 DEF Front
    <2> QED BY <2>1, <2>2
  <1>5. ASSUME NEW c \in Component PROVE push(st, c) \in Seq(Name)
    <2>1. CASE c \in Name
      BY <1>3, <2>1, AppendProperties
    <2>2. CASE c \in {"", "."}
      BY <1>1, <2>2
    <2>3. CASE c = ".."
      BY <1>2, <1>4, <2>3
    <2> QED BY <2>1, <2>2, <2>3 DEF Component
  <1> QED BY <1>1, <1>2, <1>3, <1>5

(* A name and the ".." after it cancel.                                    *)
LEMMA ParentUndoes ==
  ASSUME NEW st \in Seq(Name), NEW n \in Name
  PROVE  push(Append(st, n), "..") = st
PROOF
  <1>1. PICK t : t = Append(st, n)
    OBVIOUS
  <1>2. t \in Seq(Name) /\ t # <<>> /\ Len(t) = Len(st) + 1 /\ Len(st) \in Nat
        /\ \A i \in 1 .. Len(st) : t[i] = st[i]
    BY <1>1, AppendProperties
  <1>3. push(t, "..") = SubSeq(t, 1, Len(st))
    <2>1. push(t, "..") = Front(t)
      BY <1>2, PushSteps
    <2>2. Front(t) = SubSeq(t, 1, Len(t) - 1)
      BY <1>2 DEF Front
    <2>3. Len(t) - 1 = Len(st)
      BY <1>2
    <2> QED BY <2>1, <2>2, <2>3
  <1>4. SubSeq(t, 1, Len(st)) = st
    <2>1. \A i \in 1 .. Len(st) : t[i] \in Name
      BY <1>2, ElementOfSeq
    <2>2. PICK u : u = SubSeq(t, 1, Len(st))
      OBVIOUS
    <2>3. u \in Seq(Name) /\ Len(u) = Len(st) /\ \A i \in 1 .. Len(st) : u[i] = t[i]
      <3>1. /\ u \in Seq(Name) /\ Len(u) = (IF 1 <= Len(st) THEN Len(st) - 1 + 1 ELSE 0)
            /\ \A i \in 1 .. Len(st) - 1 + 1 : u[i] = t[1 + i - 1]
        BY <1>2, <2>1, <2>2, SubSeqProperties
      <3> QED BY <1>2, <3>1
    <2>4. u = st
      BY <1>2, <2>3, SeqEqual
    <2> QED BY <2>2, <2>4
  <1> QED BY <1>1, <1>3, <1>4

(* The stacks the loop of normalize_absolute goes through.                 *)
Stacks(f, parts) ==
  /\ f \in [0 .. Len(parts) -> Seq(Name)] /\ f[0] = <<>>
  /\ \A k \in 1 .. Len(parts) : f[k] = push(f[k - 1], parts[k])
(* normalize_absolute is the last of these stacks, all of them stacks of   *)
(* names.                                                                  *)
LEMMA NormalSteps ==
  ASSUME NEW parts \in Seq(Component)
  PROVE  \E f : Stacks(f, parts) /\ normalize(parts) = f[Len(parts)]
PROOF
  <1>1. PICK n \in Nat : n = Len(parts)
    OBVIOUS
  <1>2. \A k \in 1 .. n : parts[k] \in Component
    BY <1>1, ElementOfSeq
  <1>3. <<>> \in Seq(Name)
    BY EmptySeq
  <1> DEFINE Traced(g) == g = [k \in 0 .. n |-> IF k = 0 THEN <<>> ELSE push(g[k - 1], parts[k])]
  <1>4. normalize(parts) = (CHOOSE g : Traced(g))[n]
    BY <1>1 DEF normalize
  <1>5. PICK step : step = [p \in (1 .. n) \X Seq(Name) |-> push(p[2], parts[p[1]])]
    OBVIOUS
  <1>6. \A k \in 1 .. n : \A st \in Seq(Name) : push(st, parts[k]) \in Seq(Name)
    BY <1>2, PushSteps
  <1>7. /\ step \in [(1 .. n) \X Seq(Name) -> Seq(Name)]
        /\ \A k \in 1 .. n : \A st \in Seq(Name) : step[<<k, st>>] = push(st, parts[k])
    BY <1>5, <1>6
  <1>8. PICK f : Trace(f, n, Seq(Name), <<>>, step)
    BY <1>3, <1>7, LoopTrace
  <1>9. /\ f \in [0 .. n -> Seq(Name)] /\ f[0] = <<>>
        /\ \A k \in 1 .. n : f[k] = step[<<k, f[k - 1]>>]
    BY <1>8 DEF Trace
  <1>10. \A k \in 1 .. n : f[k - 1] \in Seq(Name)
    BY <1>9
  <1>11. \A k \in 1 .. n : f[k] = push(f[k - 1], parts[k])
    BY <1>7, <1>9, <1>10
  <1>12. Traced(f)
    BY <1>9, <1>11
  <1>13. PICK g : g = CHOOSE x : Traced(x)
    OBVIOUS
  <1>14. Traced(g)
    BY <1>12, <1>13
  <1>15. g[0] = <<>> /\ \A k \in 1 .. n : g[k] = push(g[k - 1], parts[k])
    BY <1>14
  <1>16. PICK Good : \A k : k \in Good <=> k \in 0 .. n /\ g[k] \in Seq(Name)
    <2>1. \A k : k \in {j \in 0 .. n : g[j] \in Seq(Name)} <=> k \in 0 .. n /\ g[k] \in Seq(Name)
      OBVIOUS
    <2> QED BY <2>1
  <1>17. 0 \in Good
    <2>1. 0 \in 0 .. n /\ g[0] \in Seq(Name)
      BY <1>3, <1>15
    <2> QED BY <1>16, <2>1
  <1>18. ASSUME NEW k \in 1 .. n, k - 1 \in Good PROVE k \in Good
    <2>1. g[k - 1] \in Seq(Name)
      BY <1>16, <1>18
    <2>2. g[k] \in Seq(Name) /\ k \in 0 .. n
      BY <1>6, <1>15, <2>1
    <2> QED BY <1>16, <2>2
  <1>19. \A k \in 0 .. n : k \in Good
    BY <1>17, <1>18, Induction, Zenon
  <1>20. \A k \in 0 .. n : g[k] \in Seq(Name)
    BY <1>16, <1>19
  <1>21. g \in [0 .. n -> Seq(Name)]
    BY <1>14, <1>20
  <1> HIDE DEF Traced
  <1>22. normalize(parts) = g[n]
    BY <1>4, <1>13
  <1> QED BY <1>1, <1>15, <1>21, <1>22 DEF Stacks

(* After a detour the stack is what it was before.                         *)
LEMMA DetourCancels ==
  ASSUME NEW d \in Detour, NEW i \in Nat, NEW g, g[i] \in Seq(Name),
         \A k \in 1 .. Len(d) : g[i + k] = push(g[i + k - 1], d[k])
  PROVE  g[i + Len(d)] = g[i]
PROOF
  <1>1. PICK st \in Seq(Name) : st = g[i]
    OBVIOUS
  <1>2. i + 1 - 1 = i /\ i + 2 - 1 = i + 1 /\ i + 3 - 1 = i + 2 /\ i + 4 - 1 = i + 3
    OBVIOUS
  <1>3. /\ 1 \in 1 .. Len(d) => g[i + 1] = push(st, d[1])
        /\ 2 \in 1 .. Len(d) => g[i + 2] = push(g[i + 1], d[2])
        /\ 3 \in 1 .. Len(d) => g[i + 3] = push(g[i + 2], d[3])
        /\ 4 \in 1 .. Len(d) => g[i + 4] = push(g[i + 3], d[4])
    BY <1>1, <1>2, Zenon
  <1>4. 1 \in 1 .. 1 /\ 1 \in 1 .. 2 /\ 2 \in 1 .. 2 /\ \A k \in {1, 2, 3, 4} : k \in 1 .. 4
    OBVIOUS
  <1>5. ASSUME NEW c \in {"", "."}, d = <<c>> PROVE g[i + Len(d)] = g[i]
    <2>1. Len(d) = 1 /\ d[1] = c
      BY <1>5
    <2>2. g[i + 1] = push(st, c)
      BY <1>3, <1>4, <2>1, Zenon
    <2>3. push(st, c) = st
      BY PushSteps
    <2> QED BY <1>1, <2>1, <2>2, <2>3, Zenon
  <1>6. ASSUME NEW n \in Name, d = <<n, "..">> PROVE g[i + Len(d)] = g[i]
    <2>1. Len(d) = 2 /\ d[1] = n /\ d[2] = ".."
      BY <1>6
    <2>2. g[i + 1] = push(st, n) /\ g[i + 2] = push(g[i + 1], "..")
      BY <1>3, <1>4, <2>1, Zenon
    <2>3. g[i + 1] = Append(st, n)
      BY <2>2, PushSteps
    <2>4. g[i + 2] = st
      BY <2>2, <2>3, ParentUndoes
    <2> QED BY <1>1, <2>1, <2>4
  <1>7. ASSUME NEW n \in Name, d = <<n, ".", "", "..">> PROVE g[i + Len(d)] = g[i]
    <2>1. Len(d) = 4 /\ d[1] = n /\ d[2] = "." /\ d[3] = "" /\ d[4] = ".."
      BY <1>7
    <2>2. /\ g[i + 1] = push(st, n) /\ g[i + 2] = push(g[i + 1], ".")
          /\ g[i + 3] = push(g[i + 2], "") /\ g[i + 4] = push(g[i + 3], "..")
      BY <1>3, <1>4, <2>1, Zenon
    <2>3. g[i + 1] = Append(st, n) /\ Append(st, n) \in Seq(Name)
      BY <2>2, PushSteps, AppendProperties
    <2>4. g[i + 2] = Append(st, n)
      BY <2>2, <2>3, PushSteps
    <2>5. g[i + 3] = Append(st, n)
      BY <2>2, <2>3, <2>4, PushSteps
    <2>6. g[i + 4] = st
      BY <2>2, <2>5, ParentUndoes
    <2> QED BY <1>1, <2>1, <2>6
  <1>8. \/ \E c \in {"", "."} : d = <<c>>
        \/ \E n \in Name : d = <<n, "..">>
        \/ \E n \in Name : d = <<n, ".", "", "..">>
    BY DEF Detour
  <1> QED BY <1>5, <1>6, <1>7, <1>8

(* A detour is written with components.                                    *)
LEMMA DetourTyped ==
  ASSUME NEW d \in Detour
  PROVE  d \in Seq(Component) /\ Len(d) \in Nat
PROOF
  <1>1. /\ "" \in Component /\ "." \in Component /\ ".." \in Component
        /\ \A n \in Name : n \in Component
    BY DEF Component
  <1>2. PICK C : C = Component
    OBVIOUS
  <1>3. \A a \in C : <<a>> \in Seq(C)
    OBVIOUS
  <1>4. \A a, b \in C : <<a, b>> \in Seq(C)
    OBVIOUS
  <1>5. \A a, b, c, e \in C : <<a, b, c, e>> \in Seq(C)
    OBVIOUS
  <1>6. \/ \E c \in {"", "."} : d = <<c>>
        \/ \E n \in Name : d = <<n, "..">>
        \/ \E n \in Name : d = <<n, ".", "", "..">>
    BY DEF Detour
  <1>7. d \in Seq(Component)
    BY <1>1, <1>2, <1>3, <1>4, <1>5, <1>6
  <1> QED BY <1>7, LenProperties

(* Where the components of a path come from once a detour d is written     *)
(* into it after its first i components.                                   *)
Spliced(t, S, p, i, d) ==
  /\ t \in Seq(S) /\ Len(t) = Len(p) + Len(d)
  /\ \A k \in 1 .. i : t[k] = p[k]
  /\ \A k \in 1 .. Len(d) : t[i + k] = d[k]
  /\ \A k \in 1 .. Len(p) - i : t[i + Len(d) + k] = p[i + k]
(* The concatenation With makes has these parts.                           *)
LEMMA SplicedParts ==
  ASSUME NEW S, NEW p \in Seq(S), NEW d \in Seq(S), NEW i \in 0 .. Len(p), NEW t,
         t = SubSeq(p, 1, i) \o d \o SubSeq(p, i + 1, Len(p))
  PROVE  Spliced(t, S, p, i, d)
PROOF
  <1>1. PICK n, m, u, v, w : /\ n = Len(p) /\ m = Len(d) /\ u = SubSeq(p, 1, i)
                             /\ v = SubSeq(p, i + 1, n) /\ w = u \o d
    OBVIOUS
  <1>2. n \in Nat /\ m \in Nat /\ i \in Nat /\ i <= n /\ \A k \in 1 .. n : p[k] \in S
    BY <1>1, ElementOfSeq
  <1>3. u \in Seq(S) /\ Len(u) = i /\ \A k \in 1 .. i : u[k] = p[k]
    <2>1. \A k \in 1 .. i : p[k] \in S
      BY <1>2
    <2>2. /\ u \in Seq(S) /\ Len(u) = (IF 1 <= i THEN i - 1 + 1 ELSE 0)
          /\ \A k \in 1 .. i - 1 + 1 : u[k] = p[1 + k - 1]
      BY <1>1, <1>2, <2>1, SubSeqProperties
    <2> QED BY <1>2, <2>2
  <1>4. v \in Seq(S) /\ Len(v) = n - i /\ \A k \in 1 .. n - i : v[k] = p[i + k]
    <2>1. \A k \in i + 1 .. n : p[k] \in S
      BY <1>2
    <2>2. /\ v \in Seq(S) /\ Len(v) = (IF i + 1 <= n THEN n - (i + 1) + 1 ELSE 0)
          /\ \A k \in 1 .. n - (i + 1) + 1 : v[k] = p[(i + 1) + k - 1]
      BY <1>1, <1>2, <2>1, SubSeqProperties
    <2> QED BY <1>2, <2>2
  <1>5. /\ w \in Seq(S) /\ Len(w) = i + m
        /\ \A k \in 1 .. i + m : w[k] = IF k <= i THEN u[k] ELSE d[k - i]
    BY <1>1, <1>3, ConcatProperties
  <1>6. t = w \o v
    BY <1>1
  <1>7. /\ t \in Seq(S) /\ Len(t) = (i + m) + (n - i)
        /\ \A k \in 1 .. (i + m) + (n - i) : t[k] = IF k <= i + m THEN w[k] ELSE v[k - (i + m)]
    <2>1. w \in Seq(S) /\ v \in Seq(S) /\ Len(w) = i + m /\ Len(v) = n - i
      BY <1>4, <1>5
    <2>2. t \in Seq(S)
      BY ONLY <1>6, <2>1, ConcatProperties
    <2>3. Len(t) = (i + m) + (n - i)
      BY ONLY <1>6, <2>1, ConcatProperties
    <2>4. \A k \in 1 .. (i + m) + (n - i) : t[k] = IF k <= i + m THEN w[k] ELSE v[k - (i + m)]
      BY ONLY <1>6, <2>1, ConcatProperties
    <2> QED BY <2>2, <2>3, <2>4
  <1>8. Len(t) = n + m
    <2>1. (i + m) + (n - i) = n + m
      BY <1>2
    <2> QED BY <1>7, <2>1
  <1>9. ASSUME NEW k \in 1 .. i PROVE t[k] = p[k]
    <2>1. k \in 1 .. (i + m) + (n - i) /\ k <= i + m /\ k \in 1 .. i + m /\ k <= i
      BY <1>2
    <2>2. t[k] = w[k]
      BY <1>7, <2>1
    <2>3. w[k] = u[k]
      BY <1>5, <2>1
    <2> QED BY <1>3, <2>2, <2>3
  <1>10. ASSUME NEW k \in 1 .. m PROVE t[i + k] = d[k]
    <2>1. i + k \in 1 .. (i + m) + (n - i) /\ i + k \in 1 .. i + m /\ i + k <= i + m
          /\ ~(i + k <= i) /\ (i + k) - i = k
      BY <1>2
    <2> QED BY <1>5, <1>7, <2>1
  <1>11. ASSUME NEW k \in 1 .. n - i PROVE t[i + m + k] = p[i + k]
    <2>1. i + m + k \in 1 .. (i + m) + (n - i) /\ ~(i + m + k <= i + m) /\ (i + m + k) - (i + m) = k
      BY <1>2
    <2> QED BY <1>4, <1>7, <2>1
  <1> QED BY <1>1, <1>7, <1>8, <1>9, <1>10, <1>11 DEF Spliced

(* A path and its respelling go through the same stacks: before the detour *)
(* the same rounds, over it none that counts, after it the same rounds     *)
(* again.                                                                  *)
LEMMA Respelled ==
  ASSUME NEW parts \in Seq(Component), NEW i \in 0 .. Len(parts), NEW d \in Detour, NEW t,
         t = SubSeq(parts, 1, i) \o d \o SubSeq(parts, i + 1, Len(parts))
  PROVE  normalize(t) = normalize(parts)
PROOF
  <1>1. PICK n, m : n = Len(parts) /\ m = Len(d)
    OBVIOUS
  <1>2. n \in Nat /\ m \in Nat /\ d \in Seq(Component) /\ i \in 0 .. n
    BY <1>1, DetourTyped
  <1>3. /\ t \in Seq(Component) /\ Len(t) = n + m
        /\ \A k \in 1 .. i : t[k] = parts[k]
        /\ \A k \in 1 .. m : t[i + k] = d[k]
        /\ \A k \in 1 .. n - i : t[i + m + k] = parts[i + k]
    <2>1. Spliced(t, Component, parts, i, d)
      BY <1>2, SplicedParts
    <2> QED BY <1>1, <2>1 DEF Spliced
  <1>4. PICK f : Stacks(f, parts) /\ normalize(parts) = f[Len(parts)]
    BY NormalSteps
  <1>5. PICK g : Stacks(g, t) /\ normalize(t) = g[Len(t)]
    BY <1>3, NormalSteps
  <1>6. /\ f \in [0 .. n -> Seq(Name)] /\ f[0] = <<>>
        /\ \A k \in 1 .. n : f[k] = push(f[k - 1], parts[k])
    BY <1>1, <1>4 DEF Stacks
  <1>7. /\ g \in [0 .. n + m -> Seq(Name)] /\ g[0] = <<>>
        /\ \A k \in 1 .. n + m : g[k] = push(g[k - 1], t[k])
    BY <1>3, <1>5 DEF Stacks
  <1>8. g[i] = f[i]
    <2>1. PICK Good : \A k : k \in Good <=> k \in 0 .. i /\ g[k] = f[k]
      <3>1. \A k : k \in {j \in 0 .. i : g[j] = f[j]} <=> k \in 0 .. i /\ g[k] = f[k]
        OBVIOUS
      <3> QED BY <3>1
    <2>2. 0 \in Good
      <3>1. 0 \in 0 .. i /\ g[0] = f[0]
        BY <1>2, <1>6, <1>7
      <3> QED BY <2>1, <3>1
    <2>3. ASSUME NEW k \in 1 .. i, k - 1 \in Good PROVE k \in Good
      <3>1. g[k - 1] = f[k - 1]
        BY <2>1, <2>3
      <3>2. k \in 1 .. n /\ k \in 1 .. n + m /\ k \in 0 .. i
        BY <1>2
      <3>3. g[k] = f[k]
        BY <1>3, <1>6, <1>7, <3>1, <3>2
      <3> QED BY <2>1, <3>2, <3>3
    <2>4. i \in Nat
      BY <1>2
    <2>5. i \in Good
      BY <2>2, <2>3, <2>4, Induction, Zenon
    <2> QED BY <2>1, <2>5
  <1>9. g[i + m] = g[i]
    <2>1. i \in Nat /\ g[i] \in Seq(Name)
      BY <1>2, <1>7
    <2>2. ASSUME NEW k \in 1 .. m PROVE g[i + k] = push(g[i + k - 1], d[k])
      <3>1. i + k \in 1 .. n + m /\ (i + k) - 1 = i + k - 1
        BY <1>2
      <3>2. g[i + k] = push(g[(i + k) - 1], t[i + k])
        BY <1>7, <3>1
      <3>3. t[i + k] = d[k]
        BY <1>3
      <3> QED BY <3>1, <3>2, <3>3
    <2> QED BY <1>1, <2>1, <2>2, DetourCancels
  <1>10. g[i + m + (n - i)] = f[i + (n - i)]
    <2>1. PICK Good : \A k : k \in Good <=> k \in 0 .. n - i /\ g[i + m + k] = f[i + k]
      <3>1. \A k : k \in {j \in 0 .. n - i : g[i + m + j] = f[i + j]}
                    <=> k \in 0 .. n - i /\ g[i + m + k] = f[i + k]
        OBVIOUS
      <3> QED BY <3>1
    <2>2. 0 \in Good
      <3>1. 0 \in 0 .. n - i /\ i + m + 0 = i + m /\ i + 0 = i
        BY <1>2
      <3>2. g[i + m + 0] = f[i + 0]
        BY <1>8, <1>9, <3>1
      <3> QED BY <2>1, <3>1, <3>2
    <2>3. ASSUME NEW k \in 1 .. n - i, k - 1 \in Good PROVE k \in Good
      <3>1. g[i + m + (k - 1)] = f[i + (k - 1)]
        BY <2>1, <2>3
      <3>2. /\ i + m + k \in 1 .. n + m /\ i + k \in 1 .. n /\ k \in 0 .. n - i
            /\ (i + m + k) - 1 = i + m + (k - 1) /\ (i + k) - 1 = i + (k - 1)
        BY <1>2
      <3>3. g[i + m + k] = push(g[i + m + (k - 1)], t[i + m + k])
        BY <1>7, <3>2
      <3>4. f[i + k] = push(f[i + (k - 1)], parts[i + k])
        BY <1>6, <3>2
      <3>5. g[i + m + k] = f[i + k]
        BY <1>3, <3>1, <3>3, <3>4
      <3> QED BY <2>1, <3>2, <3>5
    <2>4. n - i \in Nat
      BY <1>2
    <2>5. n - i \in Good
      BY <2>2, <2>3, <2>4, Induction, Zenon
    <2> QED BY <2>1, <2>5
  <1>11. i + m + (n - i) = n + m /\ i + (n - i) = n
    BY <1>2
  <1> QED BY <1>1, <1>3, <1>4, <1>5, <1>10, <1>11

(* Hence check_path, which looks only at the normal form, gives the same   *)
(* verdict (pathnorm.rs, denylist.rs).                                     *)
LEMMA SpellingKept ==
  ASSUME NEW p \in PathText, NEW i \in 0 .. Len(p.parts), NEW d \in Detour, NEW access
  PROVE  check_path(With(p, i, d), access) = check_path(p, access)
PROOF
  <1>1. PICK q : q = With(p, i, d)
    OBVIOUS
  <1>2. PICK parts : parts = p.parts
    OBVIOUS
  <1>3. PICK t : t = SubSeq(parts, 1, i) \o d \o SubSeq(parts, i + 1, Len(parts))
    OBVIOUS
  <1>4. q = [p EXCEPT !.parts = t]
    BY <1>1, <1>2, <1>3 DEF With
  <1>5. q.absolute = p.absolute /\ q.nul = p.nul /\ q.parts = t
    BY <1>4 DEF PathText
  <1>6. parts \in Seq(Component) /\ i \in 0 .. Len(parts)
    BY <1>2 DEF PathText
  <1>7. normalize(t) = normalize(parts)
    BY <1>3, <1>6, Respelled
  <1>8. BadPath(q) <=> BadPath(p)
    BY <1>5 DEF BadPath
  <1>9. normalize_absolute(q) = normalize_absolute(p)
    BY <1>2, <1>5, <1>7 DEF normalize_absolute
  <1>10. check_path(q, access) = check_path(p, access)
    BY <1>8, <1>9 DEF check_path
  <1> QED BY <1>1, <1>10

(* A pattern is a finite list of components.                               *)
Pattern(t) == Len(t) \in Nat /\ DOMAIN t = 1 .. Len(t)
(* A pattern that ends in "/**", with the directory's own node, covers a   *)
(* place iff it names one of the directories on the way to it              *)
(* (denylist.rs, expand_dir_glob).                                         *)
LEMMA TreeCovers ==
  ASSUME NEW t, Pattern(t), NEW place \in Seq(Name)
  PROVE  MatchesFile(t, place) \/ MatchesTree(t, place)
           <=> \E k \in 0 .. Len(place) : MatchesFile(t, SubSeq(place, 1, k))
PROOF
  <1>1. PICK n, m : n = Len(place) /\ m = Len(t)
    OBVIOUS
  <1>2. n \in Nat /\ m \in Nat /\ DOMAIN t = 1 .. m
    BY <1>1 DEF Pattern
  <1>3. ASSUME NEW k \in 0 .. n
        PROVE  Len(SubSeq(place, 1, k)) = k /\ \A i \in 1 .. k : SubSeq(place, 1, k)[i] = place[i]
    BY <1>1, <1>2
  <1>4. MatchesFile(t, place) \/ MatchesTree(t, place)
          <=> n >= m /\ \A i \in 1 .. m : place[i] \in t[i]
    BY <1>1, <1>2 DEF MatchesFile, MatchesTree
  <1>5. ASSUME NEW k \in 0 .. n
        PROVE  MatchesFile(t, SubSeq(place, 1, k)) <=> k = m /\ \A i \in 1 .. m : place[i] \in t[i]
    BY <1>1, <1>2, <1>3 DEF MatchesFile
  <1>6. n >= m <=> m \in 0 .. n
    BY <1>2
  <1> QED BY <1>1, <1>4, <1>5, <1>6

(* The patterns of the rule table are finite lists of components.          *)
LEMMA ExactPattern ==
  ASSUME NEW names, Pattern(names)
  PROVE  Pattern(Exact(names)) /\ \A S : Pattern(Append(Exact(names), S))
PROOF
  <1>1. PICK n \in Nat : n = Len(names) /\ DOMAIN names = 1 .. n
    BY DEF Pattern
  <1>2. PICK e : e = Exact(names)
    OBVIOUS
  <1>3. PICK T : T = {{names[i]} : i \in 1 .. n}
    OBVIOUS
  <1>4. e = [i \in 1 .. n |-> {names[i]}]
    BY <1>1, <1>2 DEF Exact
  <1>5. e \in Seq(T)
    BY <1>3, <1>4
  <1>6. Len(e) = n
    BY <1>4, <1>5
  <1>7. Pattern(e)
    BY <1>4, <1>6 DEF Pattern
  <1>8. ASSUME NEW S PROVE Pattern(Append(e, S))
    <2>1. PICK U : U = T \union {S}
      OBVIOUS
    <2>2. e \in Seq(U) /\ S \in U
      BY <1>3, <1>4, <2>1
    <2>3. Append(e, S) \in Seq(U)
      BY <2>2, AppendProperties
    <2> QED BY <2>3 DEF Pattern
  <1> QED BY <1>2, <1>7, <1>8, SMTT(40)

(* What the proofs need of the rule table: eight rules with an id, whose   *)
(* patterns are patterns.                                                  *)
LEMMA RuleTable ==
  /\ DOMAIN RULES = 1 .. 8
  /\ \A i \in 1 .. 8 : RULES[i].id # NoMatch
  /\ \A i \in 1 .. 8 : \A f \in RULES[i].files \union RULES[i].trees : Pattern(f)
PROOF
  <1>1. DOMAIN RULES = 1 .. 8
    BY DEF RULES
  <1>2. \A i \in 1 .. 8 : RULES[i].id # NoMatch
    BY DEF RULES, NoMatch
  <1>3. \A a, b : Pattern(<<a, b>>)
    BY DEF Pattern
  <1>4. \A a, b, c : Pattern(<<a, b, c>>)
    BY DEF Pattern
  <1>5. \A a : Pattern(<<a>>)
    BY DEF Pattern
  <1>6. \A a, b, c, d : Pattern(<<a, b, c, d>>)
    BY DEF Pattern
  <1>7. \A names : Pattern(names) => Pattern(Exact(names)) /\ \A S : Pattern(Below(names, S))
    BY ExactPattern DEF Below
  <1>8. ASSUME NEW f \in RULES[1].files \union RULES[1].trees PROVE Pattern(f)
    BY <1>3, <1>4, <1>6, <1>7 DEF RULES
  <1>9. ASSUME NEW f \in RULES[2].files \union RULES[2].trees PROVE Pattern(f)
    BY <1>3, <1>4, <1>6, <1>7 DEF RULES
  <1>10. ASSUME NEW f \in RULES[6].files \union RULES[6].trees PROVE Pattern(f)
    BY <1>3, <1>4, <1>6, <1>7 DEF RULES
  <1>11. ASSUME NEW f \in RULES[7].files \union RULES[7].trees PROVE Pattern(f)
    BY <1>3, <1>4, <1>5, <1>7 DEF RULES
  <1>12. \A i \in {3, 4, 5, 8} : RULES[i].files \union RULES[i].trees = {}
    BY DEF RULES
  <1>13. \A i \in 1 .. 8 : i \in {1, 2, 6, 7} \/ i \in {3, 4, 5, 8}
    OBVIOUS
  <1> QED BY <1>1, <1>2, <1>8, <1>9, <1>10, <1>11, <1>12, <1>13

(* first_glob_owner names a rule iff some rule of the scope matches.       *)
LEMMA OwnerFound ==
  ASSUME NEW scope, NEW place
  PROVE  first_glob_owner(scope, place) # NoMatch
           <=> \E i \in DOMAIN RULES : RULES[i].path_scope = scope /\ MatchesRule(RULES[i], place)
PROOF
  <1>1. PICK hits : hits = {i \in DOMAIN RULES : RULES[i].path_scope = scope /\ MatchesRule(RULES[i], place)}
    OBVIOUS
  <1>2. first_glob_owner(scope, place) = IF hits = {} THEN NoMatch ELSE RULES[Min(hits)].id
    BY <1>1 DEF first_glob_owner
  <1>3. hits \in SUBSET (1 .. 8)
    BY <1>1, RuleTable
  <1>4. hits # {} => Min(hits) \in 1 .. 8
    <2>1. hits \in SUBSET Nat
      BY <1>3
    <2>2. hits # {} => Min(hits) \in hits
      BY <2>1, MinIsLeast
    <2> QED BY <1>3, <2>2
  <1>5. hits # {} => RULES[Min(hits)].id # NoMatch
    BY <1>4, RuleTable
  <1>6. hits # {} <=> \E i \in DOMAIN RULES : RULES[i].path_scope = scope /\ MatchesRule(RULES[i], place)
    BY <1>1
  <1> QED BY <1>2, <1>5, <1>6

(* A rule matches a place iff it names it, or names a directory it is or   *)
(* lies in.                                                                *)
LEMMA RuleCovers ==
  ASSUME NEW i \in DOMAIN RULES, NEW place \in Seq(Name)
  PROVE  MatchesRule(RULES[i], place) <=>
           \/ \E f \in RULES[i].files : MatchesFile(f, place)
           \/ \E t \in RULES[i].trees, k \in 0 .. Len(place) : MatchesFile(t, SubSeq(place, 1, k))
PROOF
  <1>1. PICK files, trees : files = RULES[i].files /\ trees = RULES[i].trees
    OBVIOUS
  <1>2. MatchesRule(RULES[i], place) <=>
          \/ \E f \in files : MatchesFile(f, place)
          \/ \E t \in trees : MatchesFile(t, place) \/ MatchesTree(t, place)
    BY <1>1 DEF MatchesRule, expand_dir_glob
  <1>3. \A t \in trees : Pattern(t)
    BY <1>1, RuleTable
  <1>4. \A t \in trees : MatchesFile(t, place) \/ MatchesTree(t, place)
          <=> \E k \in 0 .. Len(place) : MatchesFile(t, SubSeq(place, 1, k))
    BY <1>3, TreeCovers
  <1> QED BY <1>1, <1>2, <1>4

(* DenyCovers: the denylist denies what its rules protect, both ways and   *)
(* in both scopes.                                                         *)
LEMMA Covered ==
  ASSUME NEW p \in PathText, ~BadPath(p)
  PROVE  /\ check_path(p, "Write") # NoMatch <=> Protected({"Any", "Modify"}, normalize_absolute(p))
         /\ check_path(p, "Read") # NoMatch <=> Protected({"Any"}, normalize_absolute(p))
PROOF
  <1>1. PICK place : place = normalize_absolute(p)
    OBVIOUS
  <1>2. place \in Seq(Name)
    <2>1. PICK parts \in Seq(Component) : parts = p.parts
      BY DEF PathText
    <2>2. PICK f : Stacks(f, parts) /\ normalize(parts) = f[Len(parts)]
      BY NormalSteps
    <2>3. Len(parts) \in 0 .. Len(parts)
      BY LenProperties
    <2>4. f[Len(parts)] \in Seq(Name)
      BY <2>2, <2>3 DEF Stacks
    <2> QED BY <1>1, <2>1, <2>2, <2>4 DEF normalize_absolute
  <1>3. PICK any, modify : any = first_glob_owner("Any", place) /\ modify = first_glob_owner("Modify", place)
    OBVIOUS
  <1>4. \A scope : first_glob_owner(scope, place) # NoMatch <=> Protected({scope}, place)
    BY <1>2, OwnerFound, RuleCovers DEF Protected
  <1>5. Protected({"Any", "Modify"}, place) <=> Protected({"Any"}, place) \/ Protected({"Modify"}, place)
    BY DEF Protected
  <1>6. check_path(p, "Write") = IF any # NoMatch THEN any ELSE modify
    BY <1>1, <1>3 DEF check_path
  <1>7. check_path(p, "Read") = any
    BY <1>1, <1>3 DEF check_path
  <1> QED BY <1>1, <1>3, <1>4, <1>5, <1>6, <1>7

(* CagedAsJudged: a path that validate_path takes has no "..", so its      *)
(* normal form keeps every component of it (plan.rs).                      *)
LEMMA CagedPath ==
  ASSUME NEW p \in PathText, validate_path(p)
  PROVE  ~BadPath(p) /\ normalize_absolute(p) = Written(p.parts)
PROOF
  <1>1. PICK parts \in Seq(Component) : parts = p.parts
    BY DEF PathText
  <1>2. PICK n \in Nat : n = Len(parts)
    OBVIOUS
  <1>3. \A k \in 1 .. n : parts[k] \in Component /\ parts[k] # ".."
    <2>1. ".." \notin Range(parts)
      BY <1>1 DEF validate_path
    <2>2. \A k \in 1 .. n : parts[k] \in Range(parts)
      BY <1>2 DEF Range
    <2> QED BY <1>2, <2>1, <2>2, ElementOfSeq
  <1>4. PICK f : Stacks(f, parts) /\ normalize(parts) = f[n]
    BY <1>2, NormalSteps
  <1>5. f \in [0 .. n -> Seq(Name)] /\ f[0] = <<>> /\ \A k \in 1 .. n : f[k] = push(f[k - 1], parts[k])
    BY <1>2, <1>4 DEF Stacks
  <1> DEFINE Kept(g) == g = [k \in 0 .. n |-> IF k = 0 THEN <<>> ELSE Keep(g[k - 1], parts[k])]
  <1>6. Written(parts) = (CHOOSE g : Kept(g))[n]
    BY <1>2 DEF Written
  <1>7. \A st \in Seq(Name) : \A c \in Component : c # ".." =>
          push(st, c) = Keep(st, c)
    BY DEF push, Keep
  <1>8. \A k \in 1 .. n : f[k - 1] \in Seq(Name)
    BY <1>5
  <1>9. \A k \in 1 .. n : f[k] = Keep(f[k - 1], parts[k])
    BY <1>3, <1>5, <1>7, <1>8
  <1>10. Kept(f)
    BY <1>5, <1>9
  <1>11. PICK g : g = CHOOSE x : Kept(x)
    OBVIOUS
  <1>12. Kept(g)
    BY <1>10, <1>11
  <1>13. g[0] = <<>> /\ \A k \in 1 .. n : g[k] = Keep(g[k - 1], parts[k])
    BY <1>12
  <1> HIDE DEF Kept
  <1>14. PICK Good : \A k : k \in Good <=> k \in 0 .. n /\ g[k] = f[k]
    <2>1. \A k : k \in {j \in 0 .. n : g[j] = f[j]} <=> k \in 0 .. n /\ g[k] = f[k]
      OBVIOUS
    <2> QED BY <2>1
  <1>15. 0 \in Good
    <2>1. 0 \in 0 .. n /\ g[0] = f[0]
      BY <1>5, <1>13
    <2> QED BY <1>14, <2>1
  <1>16. ASSUME NEW k \in 1 .. n, k - 1 \in Good PROVE k \in Good
    <2>1. g[k - 1] = f[k - 1]
      BY <1>14, <1>16
    <2>2. g[k] = f[k]
      BY <1>9, <1>13, <2>1
    <2>3. k \in 0 .. n
      OBVIOUS
    <2> QED BY <1>14, <2>2, <2>3
  <1>17. n \in Good
    BY <1>15, <1>16, Induction, Zenon
  <1>18. Written(parts) = normalize(parts)
    <2>1. g[n] = f[n]
      BY <1>14, <1>17
    <2> QED BY <1>4, <1>6, <1>11, <2>1
  <1>19. ~BadPath(p)
    BY DEF validate_path, BadPath
  <1> QED BY <1>1, <1>18, <1>19 DEF normalize_absolute

(* What SandboxPolicy::plan has checked when it returns a plan, and what   *)
(* the plan holds.                                                         *)
Planned(r, made, cpu, memory) ==
  /\ resolvable(r.capabilities) /\ <<Refused>> \notin {cpu, memory}
  /\ \A q \in Range(r.paths_ro \o r.paths_rw) : validate_path(q)
  /\ made.cpu_max = cpu /\ made.memory_max = memory
  /\ made.capabilities = resolve(r.capabilities)
(* A plan without an error passed each check, for plan reports the first   *)
(* that fails.                                                             *)
LEMMA PlanChecks ==
  ASSUME NEW r, NEW made, made = plan(r), made.error = "none",
         NEW cpu, cpu = [i \in DOMAIN r.cpu_max |-> parse_cpu(r.cpu_max[i])],
         NEW memory, memory = [i \in DOMAIN r.memory_max |-> parse_memory(r.memory_max[i])]
  PROVE  Planned(r, made, cpu, memory)
PROOF
  <1> DEFINE a1 == r.syscall_profile \notin KNOWN_PROFILES
             a2 == ~resolvable(r.capabilities)
             a3 == <<Refused>> \in {cpu, memory}
             a4 == \E q \in Range(r.paths_ro \o r.paths_rw) : ~validate_path(q)
             failed == <<a1, a2, a3, a4>>
             failing == {i \in DOMAIN failed : failed[i]}
             full == [error |-> "none", cpu_max |-> cpu, memory_max |-> memory,
                      capabilities |-> resolve(r.capabilities), net |-> r.network # "Egress"]
  <1>1. plan(r) = IF failing # {} THEN [error |-> SandboxError[Min(failing)]] ELSE full
    BY DEF plan
  <1>2. DOMAIN failed = 1 .. 4
    OBVIOUS
  <1>3. (failed[2] <=> a2) /\ (failed[3] <=> a3) /\ (failed[4] <=> a4)
    OBVIOUS
  <1>4. full.cpu_max = cpu /\ full.memory_max = memory /\ full.capabilities = resolve(r.capabilities)
    OBVIOUS
  <1>5. \A i : i \in failing <=> i \in 1 .. 4 /\ failed[i]
    BY <1>2, Zenon
  <1> HIDE DEF failing, failed, full, a1, a2, a3, a4
  <1>6. failing \in SUBSET Nat /\ failing \in SUBSET (1 .. 4)
    BY <1>5
  <1>7. failing # {} => Min(failing) \in 1 .. 4
    BY <1>6, MinIsLeast
  <1>8. \A i \in 1 .. 4 : SandboxError[i] # "none"
    BY DEF SandboxError
  <1>9. failing = {}
    <2> SUFFICES ASSUME failing # {} PROVE FALSE
      OBVIOUS
    <2>1. made.error = SandboxError[Min(failing)]
      BY <1>1
    <2> QED BY <1>7, <1>8, <2>1
  <1>10. 2 \in 1 .. 4 /\ 3 \in 1 .. 4 /\ 4 \in 1 .. 4
    OBVIOUS
  <1>11. ~a2 /\ ~a3 /\ ~a4
    BY <1>3, <1>5, <1>9, <1>10, Zenon
  <1>12. made = full
    BY <1>1, <1>9
  <1> QED BY <1>4, <1>11, <1>12 DEF a2, a3, a4, Planned

(* The policy gate asks about the command and about every declared path,   *)
(* each with its own access (handler.rs, policy_gate).                     *)
LEMMA DenialSees ==
  ASSUME NEW command, NEW r, r.paths_ro \in Seq(PathText), r.paths_rw \in Seq(PathText),
         ~denied(<<command>>, intents(r))
  PROVE  /\ check_command(command) = NoMatch
         /\ \A q \in Range(r.paths_ro) : check_path(q, "Read") = NoMatch
         /\ \A q \in Range(r.paths_rw) : check_path(q, "Write") = NoMatch
PROOF
  <1>1. PICK ro \in Seq(PathText), rw \in Seq(PathText) : ro = r.paths_ro /\ rw = r.paths_rw
    OBVIOUS
  <1>2. PICK n \in Nat, m \in Nat : n = Len(ro) /\ m = Len(rw) /\ DOMAIN ro = 1 .. n /\ DOMAIN rw = 1 .. m
    BY LenProperties
  <1>3. PICK A, B : /\ A = [i \in 1 .. n |-> [path |-> ro[i], access |-> "Read"]]
                    /\ B = [i \in 1 .. m |-> [path |-> rw[i], access |-> "Write"]]
    OBVIOUS
  <1>4. PICK I : I = A \o B
    OBVIOUS
  <1>5. intents(r) = I
    BY <1>1, <1>2, <1>3, <1>4 DEF intents
  <1>6. PICK T : T = [path : PathText, access : PathAccess]
    OBVIOUS
  <1>7. A \in Seq(T) /\ Len(A) = n
    <2>1. \A i \in 1 .. n : [path |-> ro[i], access |-> "Read"] \in T
      BY <1>2, <1>6, ElementOfSeq DEF PathAccess
    <2> QED BY <1>3, <2>1
  <1>8. B \in Seq(T) /\ Len(B) = m
    <2>1. \A i \in 1 .. m : [path |-> rw[i], access |-> "Write"] \in T
      BY <1>2, <1>6, ElementOfSeq DEF PathAccess
    <2> QED BY <1>3, <2>1
  <1>9. /\ I \in Seq(T) /\ Len(I) = n + m
        /\ \A k \in 1 .. n + m : I[k] = IF k <= n THEN A[k] ELSE B[k - n]
    <2>1. I \in Seq(T)
      BY ONLY <1>4, <1>7, <1>8, ConcatProperties
    <2>2. Len(I) = n + m
      BY ONLY <1>4, <1>7, <1>8, ConcatProperties
    <2>3. \A k \in 1 .. n + m : I[k] = IF k <= n THEN A[k] ELSE B[k - n]
      BY ONLY <1>4, <1>7, <1>8, ConcatProperties
    <2> QED BY <2>1, <2>2, <2>3
  <1>10. /\ \A i \in DOMAIN <<command>> : check_command(<<command>>[i]) = NoMatch
         /\ \A i \in DOMAIN I : check_path(I[i].path, I[i].access) = NoMatch
    BY <1>5 DEF denied
  <1>11. DOMAIN I = 1 .. n + m
    BY <1>9
  <1>12. ASSUME NEW i \in 1 .. n PROVE check_path(ro[i], "Read") = NoMatch
    <2>1. i \in 1 .. n + m /\ i <= n
      BY <1>2
    <2>2. I[i] = [path |-> ro[i], access |-> "Read"]
      BY <1>3, <1>9, <2>1
    <2>3. I[i].path = ro[i] /\ I[i].access = "Read"
      BY <2>2
    <2> QED BY <1>10, <1>11, <2>1, <2>3
  <1>13. ASSUME NEW i \in 1 .. m PROVE check_path(rw[i], "Write") = NoMatch
    <2>1. n + i \in 1 .. n + m /\ ~(n + i <= n) /\ (n + i) - n = i
      BY <1>2
    <2>2. I[n + i] = [path |-> rw[i], access |-> "Write"]
      BY <1>3, <1>9, <2>1
    <2>3. I[n + i].path = rw[i] /\ I[n + i].access = "Write"
      BY <2>2
    <2> QED BY <1>10, <1>11, <2>1, <2>3
  <1>14. check_command(command) = NoMatch
    BY <1>10
  <1> QED BY <1>1, <1>2, <1>12, <1>13, <1>14 DEF Range

(* A command no rule of the table answers for hits none of them.           *)
LEMMA CommandSeen ==
  ASSUME NEW command \in DOMAIN CommandHits, check_command(command) = NoMatch
  PROVE  CommandHits[command] = {}
PROOF
  <1>1. PICK hits : hits = {i \in DOMAIN RULES : RULES[i].id \in CommandHits[command]}
    OBVIOUS
  <1>2. check_command(command) = IF hits = {} THEN NoMatch ELSE RULES[Min(hits)].id
    BY <1>1 DEF check_command
  <1>3. hits \in SUBSET (1 .. 8) /\ hits \in SUBSET Nat
    BY <1>1, RuleTable
  <1>4. hits # {} => Min(hits) \in 1 .. 8
    BY <1>3, MinIsLeast
  <1>5. hits = {}
    BY <1>2, <1>4, RuleTable
  <1>6. CommandHits[command] \subseteq {RULES[i].id : i \in DOMAIN RULES}
    BY CommandHitsAssumption
  <1> QED BY <1>1, <1>5, <1>6

(* PlannedIsUnprotected: the policy gate judged the normal form, the       *)
(* sandbox mounts the path as written, and for a planned path they are the *)
(* same place.                                                             *)
LEMMA PlannedUnprotected ==
  ASSUME NEW r, r.paths_ro \in Seq(PathText), r.paths_rw \in Seq(PathText),
         r.payload \in DOMAIN CommandHits,
         ~denied(<<r.payload>>, intents(r)), plan(r).error = "none"
  PROVE  /\ \A p \in Range(r.paths_rw) : ~Protected({"Any", "Modify"}, Written(p.parts))
         /\ \A p \in Range(r.paths_ro) : ~Protected({"Any"}, Written(p.parts))
         /\ CommandHits[r.payload] = {}
PROOF
  <1>1. PICK ro \in Seq(PathText), rw \in Seq(PathText) : ro = r.paths_ro /\ rw = r.paths_rw
    OBVIOUS
  <1>2. /\ check_command(r.payload) = NoMatch
        /\ \A q \in Range(ro) : check_path(q, "Read") = NoMatch
        /\ \A q \in Range(rw) : check_path(q, "Write") = NoMatch
    BY <1>1, DenialSees
  <1>3. \A q \in Range(ro \o rw) : validate_path(q)
    <2>1. PICK made, cpu, memory :
            /\ made = plan(r)
            /\ cpu = [i \in DOMAIN r.cpu_max |-> parse_cpu(r.cpu_max[i])]
            /\ memory = [i \in DOMAIN r.memory_max |-> parse_memory(r.memory_max[i])]
      OBVIOUS
    <2>2. Planned(r, made, cpu, memory)
      BY <2>1, PlanChecks
    <2> QED BY <1>1, <2>2 DEF Planned
  <1>4. Range(ro) \subseteq Range(ro \o rw) /\ Range(rw) \subseteq Range(ro \o rw)
    <2>1. PICK n \in Nat, m \in Nat : n = Len(ro) /\ m = Len(rw) /\ DOMAIN ro = 1 .. n /\ DOMAIN rw = 1 .. m
      BY LenProperties
    <2>2. PICK t : t = ro \o rw
      OBVIOUS
    <2>3. t \in Seq(PathText) /\ Len(t) = n + m
      BY ONLY <1>1, <2>1, <2>2, ConcatProperties
    <2>4. \A k \in 1 .. n + m : t[k] = IF k <= n THEN ro[k] ELSE rw[k - n]
      BY ONLY <1>1, <2>1, <2>2, ConcatProperties
    <2>5. DOMAIN t = 1 .. n + m
      BY <2>3
    <2>6. ASSUME NEW i \in 1 .. n PROVE i \in DOMAIN t /\ t[i] = ro[i]
      <3>1. i \in 1 .. n + m /\ i <= n
        BY <2>1
      <3> QED BY <2>4, <2>5, <3>1
    <2>7. ASSUME NEW i \in 1 .. m PROVE n + i \in DOMAIN t /\ t[n + i] = rw[i]
      <3>1. n + i \in 1 .. n + m /\ ~(n + i <= n) /\ (n + i) - n = i
        BY <2>1
      <3> QED BY <2>4, <2>5, <3>1
    <2>8. Range(ro) \subseteq Range(t)
      BY <2>1, <2>6 DEF Range
    <2>9. Range(rw) \subseteq Range(t)
      BY <2>1, <2>7 DEF Range
    <2> QED BY <2>2, <2>8, <2>9
  <1>5. \A q \in Range(ro) \union Range(rw) : q \in PathText /\ validate_path(q)
    <2>1. \A q \in Range(ro) \union Range(rw) : q \in PathText
      BY DEF Range
    <2> QED BY <1>3, <1>4, <2>1
  <1>6. \A q \in Range(ro) \union Range(rw) :
          ~BadPath(q) /\ normalize_absolute(q) = Written(q.parts)
    BY <1>5, CagedPath
  <1>7. ASSUME NEW q \in Range(rw) PROVE ~Protected({"Any", "Modify"}, Written(q.parts))
    <2>1. check_path(q, "Write") # NoMatch <=> Protected({"Any", "Modify"}, normalize_absolute(q))
      BY <1>5, <1>6, Covered
    <2> QED BY <1>2, <1>6, <2>1
  <1>8. ASSUME NEW q \in Range(ro) PROVE ~Protected({"Any"}, Written(q.parts))
    <2>1. check_path(q, "Read") # NoMatch <=> Protected({"Any"}, normalize_absolute(q))
      BY <1>5, <1>6, Covered
    <2> QED BY <1>2, <1>6, <2>1
  <1>9. CommandHits[r.payload] = {}
    BY <1>2, CommandSeen
  <1> QED BY <1>1, <1>7, <1>8, <1>9

-----------------------------------------------------------------------------
(* parse_rule keeps the host, in lower case, and the port or the absence   *)
(* of one.                                                                 *)
LEMMA EntryMeans ==
  ASSUME NEW e \in Seq(DOMAIN lower), NEW r, r = parse_rule(e), r # Malformed
  PROVE  /\ r.host = lower[e[1]]
         /\ \A port \in Port : r.port \in {AnyPort, port} <=> Len(e) = 1 \/ port_of[e[2]] = port
PROOF
  <1>1. PICK n \in Nat : n = Len(e)
    OBVIOUS
  <1>2. \A port \in Port : port # AnyPort
    BY EgressAssumption DEF AnyPort
  <1>3. CASE n > 1
    <2>1. PICK host : host = Front(e)
      OBVIOUS
    <2>2. PICK port : port = port_of[Last(e)]
      OBVIOUS
    <2>3. port \notin {NotAPort, 0} /\ valid_host(host) /\ r = [host |-> host_of(host), port |-> port]
      BY <1>1, <1>3, <2>1, <2>2 DEF parse_rule
    <2>4. Len(host) = n - 1 /\ host[1] = e[1]
      <3>1. host = SubSeq(e, 1, n - 1)
        BY <1>1, <2>1 DEF Front
      <3>2. n - 1 \in 1 .. n
        BY <1>3
      <3> QED BY <1>1, <3>1, <3>2
    <2>5. n = 2
      <3>1. Len(host) = 1
        BY <2>3 DEF valid_host
      <3>2. n - 1 = 1
        BY <2>4, <3>1, Zenon
      <3>3. \A k \in Nat : k - 1 = 1 => k = 2
        OBVIOUS
      <3> QED BY <1>1, <3>2, <3>3, Zenon
    <2>6. Last(e) = e[2]
      BY <1>1, <2>5 DEF Last
    <2>7. e[2] \in DOMAIN lower
      <3>1. 2 \in 1 .. Len(e)
        BY <1>1, <2>5
      <3> QED BY <3>1, ElementOfSeq
    <2>8. port # AnyPort
      BY <2>2, <2>6, <2>7, EgressAssumption DEF AnyPort, NotAPort
    <2>9. r.host = lower[e[1]] /\ r.port = port_of[e[2]] /\ r.port # AnyPort
      BY <2>2, <2>3, <2>4, <2>6, <2>8 DEF host_of
    <2> QED BY <1>1, <2>5, <2>9
  <1>4. CASE ~(n > 1)
    <2>1. valid_host(e) /\ r = [host |-> host_of(e), port |-> AnyPort]
      BY <1>1, <1>4 DEF parse_rule
    <2>2. n = 1 /\ r.host = lower[e[1]] /\ r.port = AnyPort
      BY <1>1, <2>1 DEF valid_host, host_of
    <2> QED BY <1>1, <2>2
  <1> QED BY <1>3, <1>4

(* EgressExact for one host and port: a policy that loads allows them iff  *)
(* an entry names them, and then egress-sync resolves the host (archangel- *)
(* egress).                                                                *)
LEMMA PolicyExact ==
  ASSUME NEW d, NEW allow \in Seq(Seq(DOMAIN lower)), NEW policy, policy = new(d, allow), policy.ok,
         NEW host \in HostName, NEW port \in Port
  PROVE  /\ is_allowed(policy, host, port) <=>
              \/ policy.allow_all
              \/ \E i \in DOMAIN allow :
                   /\ lower[allow[i][1]] = lower[host]
                   /\ Len(allow[i]) = 1 \/ port_of[allow[i][2]] = port
         /\ ~policy.allow_all /\ is_allowed(policy, host, port) => lower[host] \in hosts(policy)
PROOF
  <1>1. PICK rules : rules = {parse_rule(allow[i]) : i \in DOMAIN allow}
    OBVIOUS
  <1>2. policy.rules = rules /\ Malformed \notin rules
    BY <1>1 DEF new
  <1>3. ASSUME NEW i \in DOMAIN allow
        PROVE  LET r == parse_rule(allow[i])
               IN  r.host = lower[host] /\ r.port \in {AnyPort, port}
                     <=> /\ lower[allow[i][1]] = lower[host]
                         /\ Len(allow[i]) = 1 \/ port_of[allow[i][2]] = port
    <2>1. PICK r : r = parse_rule(allow[i])
      OBVIOUS
    <2>2. r # Malformed
      BY <1>1, <1>2, <2>1
    <2>3. allow[i] \in Seq(DOMAIN lower)
      BY ElementOfSeq
    <2>4. /\ r.host = lower[allow[i][1]]
          /\ r.port \in {AnyPort, port} <=> Len(allow[i]) = 1 \/ port_of[allow[i][2]] = port
      BY <2>1, <2>2, <2>3, EntryMeans
    <2> QED BY <2>1, <2>4
  <1>4. is_allowed(policy, host, port) <=>
          \/ policy.allow_all
          \/ \E r \in rules : r.host = lower[host] /\ r.port \in {AnyPort, port}
    BY <1>2 DEF is_allowed
  <1>5. (\E r \in rules : r.host = lower[host] /\ r.port \in {AnyPort, port})
          <=> \E i \in DOMAIN allow : LET r == parse_rule(allow[i])
                                     IN  r.host = lower[host] /\ r.port \in {AnyPort, port}
    BY <1>1
  <1>6. ~policy.allow_all /\ is_allowed(policy, host, port) => lower[host] \in hosts(policy)
    BY <1>2, <1>4 DEF hosts
  <1> QED BY <1>3, <1>4, <1>5, <1>6

(* The hosts egress-sync resolves are the entries' own.                    *)
LEMMA HostsListed ==
  ASSUME NEW d, NEW allow \in Seq(Seq(DOMAIN lower)), NEW policy, policy = new(d, allow), policy.ok
  PROVE  \A h \in hosts(policy) : \E i \in DOMAIN allow : h = lower[allow[i][1]]
PROOF
  <1> SUFFICES ASSUME NEW h \in hosts(policy) PROVE \E i \in DOMAIN allow : h = lower[allow[i][1]]
    OBVIOUS
  <1>1. PICK rules : rules = {parse_rule(allow[i]) : i \in DOMAIN allow}
    OBVIOUS
  <1>2. policy.rules = rules /\ Malformed \notin rules
    BY <1>1 DEF new
  <1>3. PICK r \in rules : h = r.host
    BY <1>2 DEF hosts
  <1>4. PICK i \in DOMAIN allow : r = parse_rule(allow[i])
    BY <1>1, <1>3
  <1>5. r # Malformed /\ allow[i] \in Seq(DOMAIN lower)
    BY <1>2, ElementOfSeq
  <1>6. r.host = lower[allow[i][1]]
    BY <1>4, <1>5, EntryMeans
  <1> QED BY <1>3, <1>6

(* SyncHonest for one call of do_egress_sync: the filter is written from   *)
(* the answers for its own hosts, exit code 0 with --write means that each *)
(* had one, and code 1 that the file may be cut.                           *)
LEMMA SyncIsHonest ==
  ASSUME NEW d, NEW allow \in Seq(Seq(DOMAIN lower)), NEW policy, policy = new(d, allow),
         NEW resolver, NEW write \in BOOLEAN, NEW fails, NEW done,
         done = egress_sync(policy, resolver, write, fails)
  PROVE  Honest(policy, allow, resolver, write, done)
PROOF
  <1>1. PICK ok \in BOOLEAN, all \in BOOLEAN : ok = policy.ok /\ all = policy.allow_all
    BY DEF new
  <1>2. PICK unresolved : unresolved = {h \in hosts(policy) : resolver[h] = {}}
    OBVIOUS
  <1>3. PICK found : found = UNION {resolver[h] : h \in hosts(policy)}
    OBVIOUS
  <1>4. done = CASE ~ok \/ all \/ (write /\ fails = "before") -> Refusal("unchanged")
                 [] ok /\ ~all /\ write /\ fails = "midway" -> Refusal("cut")
                 [] OTHER -> [code |-> exit_code(write, unresolved),
                              file |-> IF write THEN "whole" ELSE "unchanged",
                              allow |-> render_systemd_dropin(found)]
    BY <1>1, <1>2, <1>3 DEF egress_sync
  <1>5. CASE ~ok \/ all \/ (write /\ fails = "before")
    <2>1. done = Refusal("unchanged")
      BY <1>4, <1>5
    <2>2. done.code = 1 /\ done.file = "unchanged"
      BY <2>1 DEF Refusal
    <2>3. done.code # 0 /\ done.file # "whole" /\ done.file # "cut"
      BY <2>2
    <2> QED BY <2>2, <2>3, Zenon DEF Honest
  <1>6. CASE ok /\ ~all /\ write /\ fails = "midway"
    <2>1. done = Refusal("cut")
      BY <1>4, <1>6
    <2>2. done.code = 1 /\ done.file = "cut"
      BY <2>1 DEF Refusal
    <2>3. done.code # 0 /\ done.file # "whole"
      BY <2>2
    <2> QED BY <1>6, <2>2, <2>3, Zenon DEF Honest
  <1>7. CASE /\ ~(~ok \/ all \/ (write /\ fails = "before"))
             /\ ~(ok /\ ~all /\ write /\ fails = "midway")
    <2>1. done = [code |-> exit_code(write, unresolved),
                  file |-> IF write THEN "whole" ELSE "unchanged",
                  allow |-> render_systemd_dropin(found)]
      BY <1>4, <1>7
    <2>2. /\ done.code = exit_code(write, unresolved) /\ done.allow = {"localhost"} \union found
          /\ done.file = IF write THEN "whole" ELSE "unchanged"
      BY <2>1 DEF render_systemd_dropin
    <2>3. policy.ok /\ ~policy.allow_all
      BY <1>1, <1>7
    <2>4. ASSUME write, done.code = 0 PROVE unresolved = {}
      <3>1. PICK code : code = done.code
        OBVIOUS
      <3>2. code = IF write /\ unresolved # {} THEN 2 ELSE 0
        BY ONLY <2>2, <3>1, Zenon DEF exit_code
      <3>3. ASSUME unresolved # {} PROVE code = 2
        BY ONLY <2>4, <3>2, <3>3, Zenon
      <3>4. code = 0
        BY <2>4, <3>1
      <3> QED BY ONLY <3>3, <3>4
    <2>5. ASSUME NEW host \in HostName, NEW port \in Port \ {0}, is_allowed(policy, host, port)
          PROVE  lower[host] \in hosts(policy)
      BY <2>3, <2>5, PolicyExact
    <2>6. ASSUME write, done.code = 0, NEW host \in HostName, NEW port \in Port \ {0},
                 is_allowed(policy, host, port)
          PROVE  resolver[lower[host]] # {} /\ resolver[lower[host]] \subseteq done.allow
      <3>1. PICK h : h = lower[host]
        OBVIOUS
      <3>2. h \in hosts(policy)
        BY <2>5, <2>6, <3>1
      <3>3. h \notin unresolved
        BY <2>4, <2>6
      <3>4. resolver[h] # {} /\ resolver[h] \subseteq found
        BY <1>2, <1>3, <3>2, <3>3
      <3> QED BY <2>2, <3>1, <3>4
    <2>7. ASSUME NEW a \in done.allow \ {"localhost"}
          PROVE  \E i \in DOMAIN allow : a \in resolver[lower[allow[i][1]]]
      <3>1. PICK h \in hosts(policy) : a \in resolver[h]
        BY <1>3, <2>2, <2>7
      <3>2. PICK i \in DOMAIN allow : h = lower[allow[i][1]]
        BY <2>3, HostsListed
      <3> QED BY <3>1, <3>2
    <2>8. write => done.file = "whole"
      BY <2>2
    <2>9. done.file # "cut" /\ (done.file # "unchanged" => write)
      BY <2>2
    <2> QED BY <2>3, <2>6, <2>7, <2>8, <2>9, Zenon DEF Honest
  <1> QED BY <1>5, <1>6, <1>7

-----------------------------------------------------------------------------
(* serde(default): a field that is given keeps its value, any other gets   *)
(* the default.                                                            *)
LEMMA FieldFilled ==
  ASSUME NEW given, NEW default, NEW field, NEW value, value = Filled(given, default)[field]
  PROVE  /\ field \in DOMAIN given => value = given[field]
         /\ field \notin DOMAIN given /\ field \in DOMAIN default => value = default[field]
  BY DEF Filled

(* OptInOnly: each dangerous setting of a configuration that loads was     *)
(* written in it, for the defaults are the safe ones and validate refuses  *)
(* the rest (config lib.rs).                                               *)
LEMMA OptedIn ==
  ASSUME NEW text, loads(text), NEW cfg, cfg = filled(text)
  PROVE  /\ cfg.modes.default # "ReadOnly" =>
              "default" \in DOMAIN text.modes /\ text.modes.default = cfg.modes.default
         /\ cfg.modes.default = "Autonomous" =>
              "autonomous_allowed" \in DOMAIN text.modes /\ text.modes.autonomous_allowed
         /\ cfg.monitor.enabled => "enabled" \in DOMAIN text.monitor
         /\ \A h \in HostName, p \in Port : is_allowed(to_policy(cfg), h, p) =>
              \/ "allow" \in DOMAIN text.egress /\ text.egress.allow # <<>>
              \/ "default_policy" \in DOMAIN text.egress /\ lower[text.egress.default_policy] = "allow"
         /\ cfg.sockets.control_mode % 8 = 0
PROOF
  <1>1. valid(cfg)
    BY DEF loads
  <1>2. PICK modes, monitor, egress : /\ modes = Filled(text.modes, ModesDefault)
                                      /\ monitor = Filled(text.monitor, MonitorDefault)
                                      /\ egress = Filled(text.egress, EgressDefault)
    OBVIOUS
  <1>3. cfg.modes = modes /\ cfg.monitor = monitor /\ cfg.egress = egress
    BY <1>2 DEF filled
  <1>4. /\ "default" \in DOMAIN text.modes => modes["default"] = text.modes["default"]
        /\ "default" \notin DOMAIN text.modes => modes["default"] = "ReadOnly"
    <2>1. "default" \in DOMAIN ModesDefault /\ ModesDefault["default"] = "ReadOnly"
      BY DEF ModesDefault
    <2> QED BY <1>2, <2>1, FieldFilled
  <1>5. /\ "autonomous_allowed" \in DOMAIN text.modes =>
              modes["autonomous_allowed"] = text.modes["autonomous_allowed"]
        /\ "autonomous_allowed" \notin DOMAIN text.modes => modes["autonomous_allowed"] = FALSE
    <2>1. "autonomous_allowed" \in DOMAIN ModesDefault /\ ModesDefault["autonomous_allowed"] = FALSE
      BY DEF ModesDefault
    <2> QED BY <1>2, <2>1, FieldFilled
  <1>6. "enabled" \notin DOMAIN text.monitor => monitor["enabled"] = FALSE
    <2>1. "enabled" \in DOMAIN MonitorDefault /\ MonitorDefault["enabled"] = FALSE
      BY DEF MonitorDefault
    <2> QED BY <1>2, <2>1, FieldFilled
  <1>7. /\ "allow" \in DOMAIN text.egress => egress["allow"] = text.egress["allow"]
        /\ "allow" \notin DOMAIN text.egress => egress["allow"] = <<>>
    <2>1. "allow" \in DOMAIN EgressDefault /\ EgressDefault["allow"] = <<>>
      BY DEF EgressDefault
    <2> QED BY <1>2, <2>1, FieldFilled
  <1>8. /\ "default_policy" \in DOMAIN text.egress =>
              egress["default_policy"] = text.egress["default_policy"]
        /\ "default_policy" \notin DOMAIN text.egress => egress["default_policy"] = "deny"
    <2>1. "default_policy" \in DOMAIN EgressDefault /\ EgressDefault["default_policy"] = "deny"
      BY DEF EgressDefault
    <2> QED BY <1>2, <2>1, FieldFilled
  <1>9. modes.default = "Autonomous" => modes.autonomous_allowed
    BY <1>1, <1>3 DEF valid, valid_mode
  <1>10. modes.default = "Autonomous" =>
           "autonomous_allowed" \in DOMAIN text.modes /\ text.modes.autonomous_allowed
    BY <1>5, <1>9
  <1>11. monitor.enabled => "enabled" \in DOMAIN text.monitor
    BY <1>6
  <1>12. ASSUME NEW h \in HostName, NEW p \in Port, is_allowed(to_policy(cfg), h, p)
         PROVE  \/ "allow" \in DOMAIN text.egress /\ text.egress.allow # <<>>
                \/ "default_policy" \in DOMAIN text.egress /\ lower[text.egress.default_policy] = "allow"
    <2>1. PICK rules : rules = {parse_rule(egress.allow[i]) : i \in DOMAIN egress.allow}
      OBVIOUS
    <2>2. lower[egress.default_policy] = "allow" \/ rules # {}
      BY <1>3, <1>12, <2>1 DEF is_allowed, to_policy, new
    <2>3. rules # {} => egress.allow # <<>>
      BY <2>1
    <2>4. lower["deny"] # "allow"
      BY EgressAssumption
    <2> QED BY <1>7, <1>8, <2>2, <2>3, <2>4
  <1>13. cfg.sockets.control_mode % 8 = 0
    BY <1>1 DEF valid, grants_other
  <1> QED BY <1>3, <1>4, <1>10, <1>11, <1>12, <1>13

(* SetupLoads: what setup renders passes the daemon's own validation iff   *)
(* the two things it takes from the operator are sound (setup.rs           *)
(* render_config).                                                         *)
LEMMA RenderedLoads ==
  ASSUME NEW opts, NEW text, text = render_config(opts), NEW cfg, cfg = filled(text)
  PROVE  /\ loads(text) <=> opts.etc = "absolute" /\ opts.backend \in {"anthropic", "ollama"}
         /\ cfg.modes.default = "ReadOnly"
PROOF
  <1>1. /\ text.daemon = [trust_store |-> opts.etc, audit_log |-> "absolute", audit_key |-> opts.etc,
                          operator_pubkey |-> opts.etc, allowlist |-> opts.etc,
                          bundle_dir |-> opts.etc, session_pub |-> "absolute"]
        /\ text.sockets = [control |-> "absolute", control_mode |-> 6 * 64 + 6 * 8, exec |-> "absolute",
                           operator_uid |-> opts.operator_uid, daemon_uid |-> opts.daemon_uid]
        /\ text.modes = [default |-> "ReadOnly", autonomous_allowed |-> FALSE]
        /\ text.llm = [default_backend |-> opts.backend, max_tokens |-> 1024]
        /\ text.monitor = <<>> /\ text.egress = <<>>
    BY DEF render_config
  <1>2. parses(text)
    BY <1>1 DEF parses, RequiredDaemon, RequiredSockets
  <1>3. /\ cfg.daemon = Filled(text.daemon, DaemonDefault)
        /\ cfg.sockets = Filled(text.sockets, SocketsDefault)
        /\ cfg.modes = Filled(text.modes, ModesDefault)
        /\ cfg.llm = Filled(text.llm, LlmDefault)
        /\ cfg.monitor = Filled(text.monitor, MonitorDefault)
        /\ cfg.egress = Filled(text.egress, EgressDefault)
    BY DEF filled
  <1>4. cfg.modes.default = "ReadOnly"
    BY <1>1, <1>3 DEF Filled
  <1>5. cfg.llm.default_backend = opts.backend
    BY <1>1, <1>3 DEF Filled
  <1>6. cfg.monitor.enabled = FALSE
    BY <1>1, <1>3 DEF Filled, MonitorDefault
  <1>7. /\ cfg.sockets.control_mode % 8 = 0
        /\ cfg.sockets.control = "absolute" /\ cfg.sockets.exec = "absolute"
    BY <1>1, <1>3 DEF Filled
  <1>8. cfg.egress.default_policy = "deny" /\ cfg.egress.allow = <<>>
    BY <1>1, <1>3 DEF Filled, EgressDefault
  <1>9. to_policy(cfg).ok
    <2>1. PICK d, allow : d = cfg.egress.default_policy /\ allow = cfg.egress.allow
      OBVIOUS
    <2>2. PICK rules : rules = {parse_rule(allow[i]) : i \in DOMAIN allow}
      OBVIOUS
    <2>3. DOMAIN allow = {}
      BY <1>8, <2>1
    <2>4. Malformed \notin rules
      BY <2>2, <2>3
    <2>5. lower[d] \in {"deny", "allow"}
      BY <1>8, <2>1, EgressAssumption
    <2> QED BY <2>1, <2>2, <2>4, <2>5 DEF to_policy, new
  <1>10. Paths(cfg) = {"absolute", opts.etc}
    <2>1. DOMAIN DaemonDefault = {"audit_key", "operator_pubkey", "allowlist", "bundle_dir", "session_pub"}
      BY DEF DaemonDefault
    <2>2. \A f \in RequiredDaemon \union DOMAIN DaemonDefault : cfg.daemon[f] = text.daemon[f]
      BY <1>1, <1>3, <2>1 DEF Filled, RequiredDaemon
    <2>3. /\ text.daemon["trust_store"] = opts.etc /\ text.daemon["audit_log"] = "absolute"
          /\ text.daemon["audit_key"] = opts.etc /\ text.daemon["operator_pubkey"] = opts.etc
          /\ text.daemon["allowlist"] = opts.etc /\ text.daemon["bundle_dir"] = opts.etc
          /\ text.daemon["session_pub"] = "absolute"
      BY <1>1
    <2>4. {cfg.daemon[f] : f \in RequiredDaemon \union DOMAIN DaemonDefault} = {"absolute", opts.etc}
      BY <2>1, <2>2, <2>3 DEF RequiredDaemon
    <2> QED BY <1>7, <2>4 DEF Paths
  <1>11. Paths(cfg) = {"absolute"} <=> opts.etc = "absolute"
    BY <1>10
  <1>12. valid(cfg) <=> opts.etc = "absolute" /\ opts.backend \in {"anthropic", "ollama"}
    BY <1>4, <1>5, <1>6, <1>7, <1>9, <1>11 DEF valid, valid_mode, grants_other
  <1> QED BY <1>2, <1>4, <1>12 DEF loads

-----------------------------------------------------------------------------
(* A digit is a number below ten.                                          *)
LEMMA DigitIsNumber == \A c \in DOMAIN Digit : Digit[c] \in 0 .. 9
PROOF
  <1> SUFFICES ASSUME NEW c \in Range(Numeral) PROVE Digit[c] \in 0 .. 9
    BY DEF Digit
  <1>1. DOMAIN Numeral = 1 .. 10
    BY DEF Numeral
  <1>2. PICK i \in 1 .. 10 : Numeral[i] = c
    BY <1>1 DEF Range
  <1>3. PICK j : j = CHOOSE k \in 1 .. 10 : Numeral[k] = c
    OBVIOUS
  <1>4. j \in 1 .. 10
    BY <1>2, <1>3
  <1>5. Digit[c] = j - 1
    BY <1>3 DEF Digit
  <1> QED BY <1>4, <1>5

(* The value of a run of digits is a natural number, whatever its length.  *)
LEMMA ValueIsNumber ==
  ASSUME NEW s \in Seq(STRING), AllDigits(s)
  PROVE  Value(s) \in Nat
PROOF
  <1>1. PICK n \in Nat : n = Len(s)
    OBVIOUS
  <1>2. \A k \in 1 .. n : Digit[s[k]] \in Nat
    <2>1. \A k \in 1 .. n : s[k] \in Range(s)
      BY <1>1 DEF Range
    <2>2. \A k \in 1 .. n : s[k] \in DOMAIN Digit
      BY <2>1 DEF AllDigits
    <2> QED BY <2>2, DigitIsNumber
  <1> DEFINE Summed(g) == g = [k \in 0 .. n |-> IF k = 0 THEN 0 ELSE 10 * g[k - 1] + Digit[s[k]]]
  <1>3. Value(s) = (CHOOSE g : Summed(g))[n]
    BY <1>1 DEF Value
  <1>4. PICK step : step = [p \in (1 .. n) \X Nat |-> 10 * p[2] + Digit[s[p[1]]]]
    OBVIOUS
  <1>5. \A k \in 1 .. n : \A v \in Nat : 10 * v + Digit[s[k]] \in Nat
    BY <1>2
  <1>6. /\ step \in [(1 .. n) \X Nat -> Nat]
        /\ \A k \in 1 .. n : \A v \in Nat : step[<<k, v>>] = 10 * v + Digit[s[k]]
    BY <1>4, <1>5
  <1>7. PICK f : Trace(f, n, Nat, 0, step)
    BY <1>6, LoopTrace
  <1>8. f \in [0 .. n -> Nat] /\ f[0] = 0 /\ \A k \in 1 .. n : f[k] = step[<<k, f[k - 1]>>]
    BY <1>7 DEF Trace
  <1>9. \A k \in 1 .. n : f[k - 1] \in Nat
    BY <1>8
  <1>10. \A k \in 1 .. n : f[k] = 10 * f[k - 1] + Digit[s[k]]
    BY <1>6, <1>8, <1>9
  <1>11. Summed(f)
    BY <1>8, <1>10
  <1>12. PICK g : g = CHOOSE x : Summed(x)
    OBVIOUS
  <1>13. Summed(g)
    BY <1>11, <1>12
  <1>14. g[0] = 0 /\ \A k \in 1 .. n : g[k] = 10 * g[k - 1] + Digit[s[k]]
    BY <1>13
  <1> HIDE DEF Summed
  <1>15. PICK Good : \A k : k \in Good <=> k \in 0 .. n /\ g[k] \in Nat
    <2>1. \A k : k \in {j \in 0 .. n : g[j] \in Nat} <=> k \in 0 .. n /\ g[k] \in Nat
      OBVIOUS
    <2> QED BY <2>1
  <1>16. 0 \in Good
    <2>1. 0 \in 0 .. n /\ g[0] \in Nat
      BY <1>14
    <2> QED BY <1>15, <2>1
  <1>17. ASSUME NEW k \in 1 .. n, k - 1 \in Good PROVE k \in Good
    <2>1. g[k - 1] \in Nat
      BY <1>15, <1>17
    <2>2. g[k] \in Nat /\ k \in 0 .. n
      BY <1>5, <1>14, <2>1
    <2> QED BY <1>15, <2>2
  <1>18. n \in Good
    BY <1>16, <1>17, Induction, Zenon
  <1> QED BY <1>3, <1>12, <1>15, <1>18

(* Each suffix of a memory limit multiplies by a positive number.          *)
LEMMA MultiplierPositive ==
  /\ \A c \in DOMAIN Multiplier : Multiplier[c] \in Nat /\ Multiplier[c] >= 1
  /\ MAX_MEMORY_BYTES \in Nat
PROOF
  <1>1. \A a, b \in Nat : a * b \in Nat /\ (a >= 1 /\ b >= 1 => a * b >= 1)
    OBVIOUS
  <1>2. KIBI \in Nat /\ KIBI >= 1
    BY SandboxPlanAssumption
  <1>3. PICK k2 \in Nat : k2 = KIBI * KIBI /\ k2 >= 1
    BY <1>1, <1>2
  <1>4. PICK k3 \in Nat : k3 = KIBI * KIBI * KIBI /\ k3 >= 1
    BY <1>1, <1>2, <1>3
  <1>5. MAX_MEMORY_BYTES = k3 * KIBI
    BY <1>4 DEF MAX_MEMORY_BYTES
  <1>6. Multiplier = [K |-> KIBI, k |-> KIBI, M |-> k2, m |-> k2, G |-> k3, g |-> k3]
    BY <1>3, <1>4 DEF Multiplier
  <1> QED BY <1>1, <1>2, <1>3, <1>4, <1>5, <1>6

(* A non-empty set of positions has a greatest element, which is what Max  *)
(* chooses.                                                                *)
LEMMA MaxIsGreatest ==
  ASSUME NEW n \in Nat, NEW S \in SUBSET (1 .. n), S # {}
  PROVE  Max(S) \in S /\ \A j \in S : j <= Max(S)
PROOF
  <1>1. PICK U : U = {u \in 1 .. n : \A j \in S : j <= u}
    OBVIOUS
  <1>2. U \in SUBSET Nat /\ n \in U
    <2>1. PICK j \in S : j \in 1 .. n
      OBVIOUS
    <2>2. n \in 1 .. n /\ \A k \in S : k <= n
      BY <2>1
    <2> QED BY <1>1, <2>2
  <1>3. PICK m \in U : \A u \in U : m <= u
    BY <1>2, MinIsLeast
  <1>4. m \in 1 .. n /\ \A j \in S : j <= m
    BY <1>1, <1>3
  <1>5. m \in S
    <2> SUFFICES ASSUME m \notin S PROVE FALSE
      OBVIOUS
    <2>1. PICK j \in S : j \in 1 .. n /\ j <= m /\ j # m
      BY <1>4
    <2>2. m - 1 \in 1 .. n
      BY <1>4, <2>1
    <2>3. \A k \in S : k \in 1 .. n /\ k <= m - 1
      BY <1>4
    <2>4. m - 1 \in U
      BY <1>1, <2>2, <2>3
    <2>5. m <= m - 1
      BY <1>3, <2>4
    <2> QED BY <1>4, <2>5
  <1>6. \E x \in S : \A y \in S : x >= y
    BY <1>4, <1>5
  <1> QED BY <1>6 DEF Max

(* str::trim yields a text again.                                          *)
LEMMA TrimTyped ==
  ASSUME NEW S, NEW s \in Seq(S)
  PROVE  trim(s) \in Seq(S)
PROOF
  <1>1. PICK ink : ink = {i \in DOMAIN s : s[i] # " "}
    OBVIOUS
  <1>2. trim(s) = IF ink = {} THEN <<>> ELSE SubSeq(s, Min(ink), Max(ink))
    BY <1>1 DEF trim
  <1>3. PICK n \in Nat : n = Len(s) /\ DOMAIN s = 1 .. n
    BY LenProperties
  <1>4. ink \in SUBSET (1 .. n) /\ ink \in SUBSET Nat
    <2>1. \A i \in ink : i \in 1 .. n
      BY <1>1, <1>3, Zenon
    <2>2. \A i \in ink : i \in Nat
      BY <2>1
    <2> QED BY <2>1, <2>2, Zenon
  <1>5. CASE ink # {}
    <2>1. PICK a, b : a = Min(ink) /\ b = Max(ink)
      OBVIOUS
    <2>2. a \in 1 .. n /\ b \in 1 .. n
      BY <1>4, <1>5, <2>1, MinIsLeast, MaxIsGreatest
    <2>3. \A i \in a .. b : s[i] \in S
      BY <1>3, <2>2, ElementOfSeq
    <2>4. SubSeq(s, a, b) \in Seq(S)
      BY <2>2, <2>3, SubSeqProperties
    <2> QED BY <1>2, <1>5, <2>1, <2>4
  <1>6. CASE ink = {}
    BY <1>2, <1>6
  <1> QED BY <1>5, <1>6

(* A text without its last character is a text again.                      *)
LEMMA FrontTyped ==
  ASSUME NEW S, NEW s \in Seq(S), s # <<>>
  PROVE  Front(s) \in Seq(S)
PROOF
  <1>1. PICK n \in Nat : n = Len(s)
    OBVIOUS
  <1>2. n - 1 \in Nat
    BY <1>1
  <1>3. \A i \in 1 .. n - 1 : s[i] \in S
    BY <1>1, ElementOfSeq
  <1>4. SubSeq(s, 1, n - 1) \in Seq(S)
    BY <1>1, <1>2, <1>3, SubSeqProperties
  <1> QED BY <1>1, <1>4 DEF Front

(* MemoryMax::parse returns the number written times its suffix, or        *)
(* refuses: checked_mul refuses exactly what does not fit, and all that    *)
(* does not fit is over the ceiling as well (cgroup.rs).                   *)
LEMMA MemoryExact ==
  ASSUME NEW text \in Seq(STRING)
  PROVE  parse_memory(text) =
           IF Meaning(text) \in 1 .. MAX_MEMORY_BYTES THEN Meaning(text) ELSE Refused
PROOF
  <1>1. PICK s \in Seq(STRING) : s = trim(text)
    BY TrimTyped
  <1>2. PICK scaled \in BOOLEAN : scaled <=> s # <<>> /\ Last(s) \in DOMAIN Multiplier
    OBVIOUS
  <1>3. PICK number : number = IF scaled THEN Front(s) ELSE s
    OBVIOUS
  <1>4. PICK m : m = IF scaled THEN Multiplier[Last(s)] ELSE 1
    OBVIOUS
  <1>5. m \in Nat /\ m >= 1
    BY <1>2, <1>4, MultiplierPositive
  <1>6. number \in Seq(STRING)
    BY <1>2, <1>3, FrontTyped
  <1>7. Meaning(text) = IF AllDigits(number) THEN Value(number) * m ELSE 0
    BY <1>1, <1>2, <1>3, <1>4 DEF Meaning
  <1>8. PICK max \in Nat : max = MAX_MEMORY_BYTES /\ max <= U64_MAX
    BY MultiplierPositive, SandboxPlanAssumption
  <1>9. CASE ~AllDigits(number)
    <2>1. parse_memory(text) = Refused
      BY <1>1, <1>2, <1>3, <1>9 DEF parse_memory
    <2>2. Meaning(text) = 0
      BY <1>7, <1>9
    <2> QED BY <2>1, <2>2
  <1>10. CASE AllDigits(number)
    <2>1. PICK v \in Nat : v = Value(number)
      BY <1>6, <1>10, ValueIsNumber
    <2>2. PICK w \in Nat : w = v * m /\ w >= v
      BY <1>5
    <2>3. Meaning(text) = w
      BY <1>7, <1>10, <2>1, <2>2
    <2>4. parse_memory(text) =
            IF v > U64_MAX THEN Refused
            ELSE LET bytes == checked_mul(v, m) IN IF bytes \in 1 .. max THEN bytes ELSE Refused
      BY <1>1, <1>2, <1>3, <1>4, <1>8, <1>10, <2>1 DEF parse_memory
    <2>5. checked_mul(v, m) = IF w > U64_MAX THEN Refused ELSE w
      BY <2>2 DEF checked_mul
    <2>6. U64_MAX \in Nat
      BY SandboxPlanAssumption
    <2>7. CASE v > U64_MAX
      <3>1. ~(w \in 1 .. max)
        BY <1>8, <2>2, <2>6, <2>7
      <3> QED BY <1>8, <2>3, <2>4, <2>7, <3>1
    <2>8. CASE ~(v > U64_MAX) /\ w > U64_MAX
      <3>1. ~(w \in 1 .. max) /\ ~(Refused \in 1 .. max)
        BY <1>8, <2>2, <2>6, <2>8 DEF Refused
      <3> QED BY <1>8, <2>3, <2>4, <2>5, <2>8, <3>1
    <2>9. CASE ~(v > U64_MAX) /\ ~(w > U64_MAX)
      BY <1>8, <2>3, <2>4, <2>5, <2>9
    <2> QED BY <2>7, <2>8, <2>9
  <1> QED BY <1>9, <1>10

(* CpuMax::parse returns 1 to 100, which divides the period without a      *)
(* remainder (cgroup.rs).                                                  *)
LEMMA CpuExact ==
  ASSUME NEW text, parse_cpu(text) # Refused
  PROVE  /\ cpu_quota(parse_cpu(text)) * 100 = parse_cpu(text) * CPU_PERIOD_US
         /\ cpu_quota(parse_cpu(text)) \in 1 .. CPU_PERIOD_US
PROOF
  <1>1. PICK p : p = parse_cpu(text)
    OBVIOUS
  <1>2. p \in 1 .. 100
    BY <1>1 DEF parse_cpu, MAX_CPU_PERCENT
  <1>3. cpu_quota(p) = p * 1000
    <2>1. p * 100000 = 100 * (p * 1000) /\ p * 1000 \in Nat
      BY <1>2
    <2>2. \A q \in Nat : (100 * q) \div 100 = q
      OBVIOUS
    <2> QED BY <2>1, <2>2 DEF cpu_quota, CPU_PERIOD_US
  <1>4. cpu_quota(p) * 100 = p * CPU_PERIOD_US /\ cpu_quota(p) \in 1 .. CPU_PERIOD_US
    <2>1. PICK q : q = cpu_quota(p)
      OBVIOUS
    <2>2. q = p * 1000
      BY <1>3, <2>1
    <2>3. PICK period : period = CPU_PERIOD_US
      OBVIOUS
    <2>4. period = 100000
      BY <2>3 DEF CPU_PERIOD_US
    <2>5. q * 100 = p * period
      BY <1>2, <2>2, <2>4
    <2>6. q \in Int /\ 1 <= q /\ q <= period
      BY <1>2, <2>2, <2>4
    <2>7. q \in 1 .. period
      <3>1. period \in Int
        BY <2>4
      <3> QED BY <2>6, <3>1
    <2> QED BY <2>1, <2>3, <2>5, <2>7
  <1> QED BY <1>1, <1>4

(* The seccomp filter allows no call that leaves the cage and no network   *)
(* socket, on both architectures (seccomp.rs).                             *)
LEMMA FilterCloses ==
  ASSUME NEW arch \in DOMAIN arch_extra_allow
  PROVE  /\ \A f \in NetworkFamilies : ~permits(arch, [number |-> "socket", arg0 |-> f])
         /\ \A n \in Escapes : ~permits(arch, [number |-> n, arg0 |-> "any"])
PROOF
  <1>1. arch \in {"x86_64", "aarch64"}
    BY DEF arch_extra_allow
  <1>2. PICK allowed : allowed = common_allow \union arch_extra_allow[arch]
    OBVIOUS
  <1>3. "socket" \notin allowed
    <2>1. "socket" \notin common_allow
      BY DEF common_allow
    <2>2. "socket" \notin arch_extra_allow[arch]
      BY <1>1 DEF arch_extra_allow
    <2> QED BY <1>2, <2>1, <2>2
  <1>4. \A n \in Escapes : n \notin allowed /\ n # "socket"
    <2>1. \A n \in Escapes : n \notin common_allow
      BY DEF common_allow, Escapes
    <2>2. \A n \in Escapes : n \notin arch_extra_allow[arch]
      BY <1>1 DEF arch_extra_allow, Escapes
    <2>3. \A n \in Escapes : n # "socket"
      BY DEF Escapes
    <2> QED BY <1>2, <2>1, <2>2, <2>3
  <1>5. ASSUME NEW f \in NetworkFamilies PROVE ~permits(arch, [number |-> "socket", arg0 |-> f])
    <2>1. f \notin LocalFamilies
      BY DEF NetworkFamilies, LocalFamilies
    <2> QED BY <1>2, <1>3, <2>1 DEF permits, socket_rules
  <1>6. ASSUME NEW n \in Escapes PROVE ~permits(arch, [number |-> n, arg0 |-> "any"])
    BY <1>2, <1>4 DEF permits
  <1> QED BY <1>5, <1>6

(* A plan carries as many limits as were asked for, each parsed and none   *)
(* refused, and only capabilities the kernel knows (plan.rs).              *)
LEMMA PlanHolds ==
  ASSUME NEW r, DOMAIN r.cpu_max = 1 .. Len(r.cpu_max), DOMAIN r.memory_max = 1 .. Len(r.memory_max),
         Len(r.cpu_max) \in Nat, Len(r.memory_max) \in Nat, Len(r.memory_max) <= 1,
         NEW made, made = plan(r), made.error = "none"
  PROVE  /\ Len(made.cpu_max) = Len(r.cpu_max) /\ Len(made.memory_max) = Len(r.memory_max)
         /\ \A i \in DOMAIN made.memory_max : made.memory_max[i] \in 1 .. MAX_MEMORY_BYTES
         /\ made.capabilities \subseteq KnownCap
PROOF
  <1>1. PICK cpu : cpu = [i \in DOMAIN r.cpu_max |-> parse_cpu(r.cpu_max[i])]
    OBVIOUS
  <1>2. PICK memory : memory = [i \in DOMAIN r.memory_max |-> parse_memory(r.memory_max[i])]
    OBVIOUS
  <1>3. /\ resolvable(r.capabilities) /\ memory # <<Refused>>
        /\ made.cpu_max = cpu /\ made.memory_max = memory
        /\ made.capabilities = resolve(r.capabilities)
    <2>1. Planned(r, made, cpu, memory)
      BY <1>1, <1>2, PlanChecks
    <2> QED BY <2>1 DEF Planned
  <1>4. Len(cpu) = Len(r.cpu_max)
    BY <1>1
  <1>5. Len(memory) = Len(r.memory_max) /\ DOMAIN memory = 1 .. Len(r.memory_max)
    BY <1>2
  <1>6. ASSUME NEW i \in DOMAIN memory PROVE memory[i] \in 1 .. MAX_MEMORY_BYTES
    <2>1. PICK n \in Nat : n = Len(r.memory_max) /\ n <= 1
      OBVIOUS
    <2>2. i = 1 /\ n = 1
      <3>1. i \in 1 .. n
        BY <1>5, <2>1
      <3>2. n \in Int /\ n <= 1
        BY <2>1
      <3>3. i \in Int /\ 1 <= i /\ i <= n
        BY <3>1, <3>2
      <3> QED BY <3>2, <3>3
    <2>3. memory = [j \in 1 .. 1 |-> memory[j]]
      BY <1>2, <1>5, <2>1, <2>2
    <2>4. memory[1] # Refused
      <3> SUFFICES ASSUME memory[1] = Refused PROVE memory = <<Refused>>
        BY <1>3
      <3> QED BY <2>3
    <2>5. memory[1] = parse_memory(r.memory_max[1])
      BY <1>2, <1>5, <2>1, <2>2
    <2>6. \A text : parse_memory(text) = Refused \/ parse_memory(text) \in 1 .. MAX_MEMORY_BYTES
      BY DEF parse_memory
    <2> QED BY <2>2, <2>4, <2>5, <2>6
  <1>7. resolve(r.capabilities) \subseteq KnownCap
    BY <1>3 DEF resolvable, resolve
  <1> QED BY <1>3, <1>4, <1>5, <1>6, <1>7

(* The mounts above a path among the first k; the one of them the loop of  *)
(* fs_type_for should hold, the deepest and of two as deep the first; and  *)
(* a round of that loop.                                                   *)
Above(mounts, at, k) == {i \in 1 .. k : IsPrefix(mounts[i].at, at)}
Closest(mounts, at, k, i) ==
  /\ i \in Above(mounts, at, k)
  /\ \A j \in Above(mounts, at, k) :
       /\ Len(mounts[j].at) <= Len(mounts[i].at)
       /\ Len(mounts[j].at) = Len(mounts[i].at) => i <= j
Chosen(mounts, at, k, best) ==
  \/ best = <<>> /\ Above(mounts, at, k) = {}
  \/ \E i \in 1 .. k : Closest(mounts, at, k, i) /\ best = <<mounts[i]>>
Considered(best, mount, at) ==
  IF ~IsPrefix(mount.at, at) \/ closer(best, mount) THEN best ELSE <<mount>>

(* A round of the loop of fs_type_for keeps the deepest mount so far.      *)
LEMMA ChosenStep ==
  ASSUME NEW mounts \in Seq([at : Seq(Name), fstype : STRING]), NEW at,
         NEW k \in 1 .. Len(mounts), NEW best, Chosen(mounts, at, k - 1, best)
  PROVE  Chosen(mounts, at, k, Considered(best, mounts[k], at))
PROOF
  <1>1. PICK n \in Nat : n = Len(mounts) /\ k \in 1 .. n
    OBVIOUS
  <1>2. \A i \in 1 .. n : Len(mounts[i].at) \in Nat
    <2>1. \A i \in 1 .. n : mounts[i] \in [at : Seq(Name), fstype : STRING]
      BY <1>1, ElementOfSeq
    <2>2. \A i \in 1 .. n : mounts[i].at \in Seq(Name)
      BY <2>1
    <2> QED BY <2>2, LenProperties
  <1>3. PICK A, B : A = Above(mounts, at, k - 1) /\ B = Above(mounts, at, k)
    OBVIOUS
  <1>4. PICK hit \in BOOLEAN : hit <=> IsPrefix(mounts[k].at, at)
    OBVIOUS
  <1>5. A \in SUBSET (1 .. k - 1) /\ B = IF hit THEN A \union {k} ELSE A
    BY <1>1, <1>3, <1>4 DEF Above
  <1>6. PICK now : now = Considered(best, mounts[k], at)
    OBVIOUS
  <1>7. CASE ~hit
    <2>1. now = best /\ B = A
      BY <1>4, <1>5, <1>6, <1>7 DEF Considered
    <2> QED BY <1>1, <1>3, <1>6, <2>1 DEF Chosen, Closest
  <1>8. CASE hit /\ best = <<>>
    <2>1. now = <<mounts[k]>>
      BY <1>4, <1>6, <1>8 DEF Considered, closer
    <2>2. A = {}
      BY <1>3, <1>8 DEF Chosen
    <2>3. B = {k}
      BY <1>5, <1>8, <2>2
    <2>4. Closest(mounts, at, k, k)
      BY <1>1, <1>2, <1>3, <2>3 DEF Closest
    <2> QED BY <1>6, <2>1, <2>4 DEF Chosen
  <1>9. CASE hit /\ best # <<>>
    <2>1. PICK i \in 1 .. k - 1 : Closest(mounts, at, k - 1, i) /\ best = <<mounts[i]>>
      BY <1>9 DEF Chosen
    <2>2. PICK li \in Nat, lk \in Nat : li = Len(mounts[i].at) /\ lk = Len(mounts[k].at)
      <3>1. i \in 1 .. n /\ k \in 1 .. n
        BY <1>1
      <3>2. Len(mounts[i].at) \in Nat /\ Len(mounts[k].at) \in Nat
        BY <1>2, <3>1
      <3> QED BY <3>2
    <2>3. /\ i \in A /\ B = A \union {k}
          /\ \A j \in A : Len(mounts[j].at) <= li /\ (Len(mounts[j].at) = li => i <= j)
      BY <1>3, <1>5, <1>9, <2>1, <2>2 DEF Closest
    <2>4. best[1] = mounts[i]
      BY <2>1
    <2>5. closer(best, mounts[k]) <=> li >= lk
      BY <1>9, <2>2, <2>4 DEF closer
    <2>6. now = IF li >= lk THEN <<mounts[i]>> ELSE <<mounts[k]>>
      BY <1>4, <1>6, <1>9, <2>1, <2>5 DEF Considered
    <2>7. CASE li >= lk
      <3>1. ASSUME NEW j \in B PROVE Len(mounts[j].at) <= li /\ (Len(mounts[j].at) = li => i <= j)
        BY <1>1, <2>2, <2>3, <2>7
      <3>2. Closest(mounts, at, k, i)
        BY <1>3, <2>2, <2>3, <3>1 DEF Closest
      <3>3. i \in 1 .. k
        BY <1>1
      <3> QED BY <1>6, <2>6, <2>7, <3>2, <3>3 DEF Chosen
    <2>8. CASE ~(li >= lk)
      <3>1. ASSUME NEW j \in B PROVE Len(mounts[j].at) <= lk /\ (Len(mounts[j].at) = lk => k <= j)
        <4>1. CASE j = k
          BY <1>1, <2>2, <4>1
        <4>2. CASE j \in A
          <5>1. Len(mounts[j].at) \in Nat /\ Len(mounts[j].at) <= li
            BY <1>1, <1>2, <1>5, <2>3, <4>2
          <5>2. PICK lj \in Nat : lj = Len(mounts[j].at) /\ lj <= li
            BY <5>1
          <5>3. \A a, b, c \in Nat : a <= b /\ ~(b >= c) => a <= c /\ a # c
            OBVIOUS
          <5>4. lj <= lk /\ lj # lk
            BY <2>8, <5>2, <5>3, Zenon
          <5> QED BY <5>2, <5>4
        <4> QED BY <2>3, <4>1, <4>2
      <3>2. Closest(mounts, at, k, k)
        BY <1>3, <2>2, <2>3, <3>1 DEF Closest
      <3>3. k \in 1 .. k
        BY <1>1
      <3> QED BY <1>6, <2>6, <2>8, <3>2, <3>3 DEF Chosen
    <2> QED BY <2>7, <2>8
  <1> QED BY <1>7, <1>8, <1>9

(* At its end the loop holds the deepest mount of all.                     *)
LEMMA MountFound ==
  ASSUME NEW mounts \in Seq([at : Seq(Name), fstype : STRING]), NEW at
  PROVE  \E best : /\ Chosen(mounts, at, Len(mounts), best)
                   /\ fs_type_for(mounts, at) = IF best = <<>> THEN "none" ELSE best[1].fstype
PROOF
  <1>1. PICK n \in Nat : n = Len(mounts)
    OBVIOUS
  <1> DEFINE Walked(g) == g = [k \in 0 .. n |-> IF k = 0 THEN <<>> ELSE Considered(g[k - 1], mounts[k], at)]
  <1>2. fs_type_for(mounts, at) =
          IF (CHOOSE g : Walked(g))[n] = <<>> THEN "none" ELSE (CHOOSE g : Walked(g))[n][1].fstype
    BY <1>1 DEF fs_type_for, is_path_prefix, Considered
  <1>3. PICK M : M = [at : Seq(Name), fstype : STRING]
    OBVIOUS
  <1>4. \A k \in 1 .. n : mounts[k] \in M
    BY <1>1, <1>3, ElementOfSeq
  <1>5. <<>> \in Seq(M) /\ \A x \in M : <<x>> \in Seq(M)
    OBVIOUS
  <1>6. \A k \in 1 .. n : \A b \in Seq(M) : Considered(b, mounts[k], at) \in Seq(M)
    BY <1>4, <1>5 DEF Considered
  <1>7. PICK step : step = [p \in (1 .. n) \X Seq(M) |-> Considered(p[2], mounts[p[1]], at)]
    OBVIOUS
  <1>8. /\ step \in [(1 .. n) \X Seq(M) -> Seq(M)]
        /\ \A k \in 1 .. n : \A b \in Seq(M) : step[<<k, b>>] = Considered(b, mounts[k], at)
    BY <1>6, <1>7
  <1>9. PICK f : Trace(f, n, Seq(M), <<>>, step)
    BY <1>5, <1>8, LoopTrace
  <1>10. /\ f \in [0 .. n -> Seq(M)] /\ f[0] = <<>>
         /\ \A k \in 1 .. n : f[k] = step[<<k, f[k - 1]>>]
    BY <1>9 DEF Trace
  <1>11. \A k \in 1 .. n : f[k - 1] \in Seq(M)
    BY <1>10
  <1>12. \A k \in 1 .. n : f[k] = Considered(f[k - 1], mounts[k], at)
    BY <1>8, <1>10, <1>11
  <1>13. Walked(f)
    BY <1>10, <1>12
  <1>14. PICK g : g = CHOOSE x : Walked(x)
    OBVIOUS
  <1>15. Walked(g)
    BY <1>13, <1>14
  <1>16. g[0] = <<>> /\ \A k \in 1 .. n : g[k] = Considered(g[k - 1], mounts[k], at)
    BY <1>15
  <1> HIDE DEF Walked
  <1>17. PICK Good : \A k : k \in Good <=> k \in 0 .. n /\ Chosen(mounts, at, k, g[k])
    <2>1. \A k : k \in {j \in 0 .. n : Chosen(mounts, at, j, g[j])}
                  <=> k \in 0 .. n /\ Chosen(mounts, at, k, g[k])
      OBVIOUS
    <2> QED BY <2>1
  <1>18. 0 \in Good
    <2>1. Above(mounts, at, 0) = {}
      BY DEF Above
    <2>2. 0 \in 0 .. n /\ Chosen(mounts, at, 0, g[0])
      BY <1>16, <2>1 DEF Chosen
    <2> QED BY <1>17, <2>2
  <1>19. ASSUME NEW k \in 1 .. n, k - 1 \in Good PROVE k \in Good
    <2>1. Chosen(mounts, at, k - 1, g[k - 1])
      BY <1>17, <1>19
    <2>2. k \in 1 .. Len(mounts)
      BY <1>1
    <2>3. Chosen(mounts, at, k, Considered(g[k - 1], mounts[k], at))
      BY <2>1, <2>2, ChosenStep
    <2>4. k \in 0 .. n /\ Chosen(mounts, at, k, g[k])
      BY <1>16, <2>3
    <2> QED BY <1>17, <2>4
  <1>20. n \in Good
    BY <1>18, <1>19, Induction, Zenon
  <1>21. Chosen(mounts, at, n, g[n])
    BY <1>17, <1>20
  <1>22. fs_type_for(mounts, at) = IF g[n] = <<>> THEN "none" ELSE g[n][1].fstype
    BY <1>2, <1>14
  <1> QED BY <1>1, <1>21, <1>22

(* LongestMount for one directory: fs_type_for ends with one of the        *)
(* deepest mounts above it, or with none if there is none (snapshot        *)
(* lib.rs).                                                                *)
LEMMA DeepestMount ==
  ASSUME NEW mounts \in Seq([at : Seq(Name), fstype : STRING]), NEW at
  PROVE  ByDeepest(mounts, at)
PROOF
  <1>0. PICK above, deepest, btrfs :
          /\ above = {i \in DOMAIN mounts : IsPrefix(mounts[i].at, at)}
          /\ deepest = {i \in above : \A j \in above : Len(mounts[i].at) >= Len(mounts[j].at)}
          /\ btrfs = {i \in deepest : mounts[i].fstype = "btrfs"}
    OBVIOUS
  <1>1. PICK n \in Nat : n = Len(mounts) /\ DOMAIN mounts = 1 .. n
    BY LenProperties
  <1>2. PICK best : /\ Chosen(mounts, at, n, best)
                    /\ fs_type_for(mounts, at) = IF best = <<>> THEN "none" ELSE best[1].fstype
    BY <1>1, MountFound
  <1>3. detect_for(mounts, at) = "btrfs" <=> fs_type_for(mounts, at) = "btrfs"
    BY DEF detect_for
  <1>4. above = Above(mounts, at, n)
    BY <1>0, <1>1 DEF Above
  <1>8. SUFFICES /\ detect_for(mounts, at) = "btrfs" => btrfs # {}
                 /\ deepest # {} /\ btrfs = deepest => detect_for(mounts, at) = "btrfs"
    BY <1>0, Zenon DEF ByDeepest, Deepest
  <1>5. CASE best = <<>> /\ Above(mounts, at, n) = {}
    <2>1. fs_type_for(mounts, at) = "none" /\ deepest = {}
      BY <1>0, <1>2, <1>4, <1>5
    <2> QED BY <1>3, <2>1
  <1>6. ASSUME NEW i \in 1 .. n, Closest(mounts, at, n, i), best = <<mounts[i]>>
        PROVE  i \in deepest /\ fs_type_for(mounts, at) = mounts[i].fstype
    <2>1. fs_type_for(mounts, at) = mounts[i].fstype
      BY <1>2, <1>6
    <2>2. above \in SUBSET (1 .. n) /\ i \in above
      BY <1>1, <1>4, <1>6 DEF Closest, Above
    <2>3. \A j \in 1 .. n : Len(mounts[j].at) \in Nat
      <3>1. \A j \in 1 .. n : mounts[j] \in [at : Seq(Name), fstype : STRING]
        BY <1>1, ElementOfSeq
      <3>2. \A j \in 1 .. n : mounts[j].at \in Seq(Name)
        BY <3>1
      <3> QED BY <3>2, LenProperties
    <2>4. \A j \in above : Len(mounts[j].at) <= Len(mounts[i].at)
      BY <1>4, <1>6 DEF Closest
    <2>5. \A a, b \in Nat : a <= b => b >= a
      OBVIOUS
    <2>6. ASSUME NEW j \in above PROVE Len(mounts[i].at) >= Len(mounts[j].at)
      <3>1. i \in 1 .. n /\ j \in 1 .. n
        BY <2>2
      <3>2. Len(mounts[i].at) \in Nat /\ Len(mounts[j].at) \in Nat
        BY <2>3, <3>1
      <3>3. Len(mounts[j].at) <= Len(mounts[i].at)
        BY <2>4
      <3> QED BY ONLY <2>5, <3>2, <3>3
    <2>7. i \in deepest
      BY <1>0, <2>2, <2>6, Zenon
    <2> QED BY <2>1, <2>7
  <1>7. CASE \E i \in 1 .. n : Closest(mounts, at, n, i) /\ best = <<mounts[i]>>
    <2>1. PICK i \in 1 .. n : Closest(mounts, at, n, i) /\ best = <<mounts[i]>>
      BY <1>7
    <2>2. i \in deepest /\ fs_type_for(mounts, at) = mounts[i].fstype
      BY <1>6, <2>1
    <2> QED BY <1>0, <1>3, <2>2
  <1> QED BY <1>2, <1>5, <1>7 DEF Chosen

-----------------------------------------------------------------------------
(* ArgsExact for one call of validate (args.rs).                           *)
LEMMA ArgumentsMatch ==
  ASSUME NEW schema, NEW provided, validate(schema, provided) = "ok"
  PROVE  /\ \A name \in DOMAIN provided :
              /\ name \in DOMAIN schema
              /\ schema[name].regex # "bad"
              /\ schema[name].regex \in DOMAIN FullMatch
                   => provided[name] \in FullMatch[schema[name].regex]
         /\ \A name \in DOMAIN schema : schema[name].required => name \in DOMAIN provided
PROOF
  <1>1. PICK failing : failing = {name \in DOMAIN schema : \/ missing(schema, provided, name)
                                                            \/ uncompilable(schema, provided, name)
                                                            \/ mismatch(schema, provided, name)}
    OBVIOUS
  <1>2. undeclared(schema, provided) = {} /\ failing = {}
    <2>1. validate(schema, provided) =
            CASE undeclared(schema, provided) # {} -> "ArgRejected"
              [] undeclared(schema, provided) = {} /\ failing = {} -> "ok"
              [] OTHER -> IF uncompilable(schema, provided, Min(failing)) THEN "BadArgRegex"
                          ELSE "ArgRejected"
      BY <1>1 DEF validate
    <2> QED BY <2>1
  <1>3. \A name \in DOMAIN schema : /\ ~missing(schema, provided, name)
                                    /\ ~uncompilable(schema, provided, name)
                                    /\ ~mismatch(schema, provided, name)
    BY <1>1, <1>2
  <1>4. \A name \in DOMAIN provided : name \in DOMAIN schema
    BY <1>2 DEF undeclared
  <1>5. \A name \in DOMAIN schema : schema[name].required => name \in DOMAIN provided
    BY <1>3 DEF missing
  <1>6. ASSUME NEW name \in DOMAIN provided
        PROVE  /\ schema[name].regex # "bad"
               /\ schema[name].regex \in DOMAIN FullMatch
                    => provided[name] \in FullMatch[schema[name].regex]
    BY <1>3, <1>4 DEF uncompilable, mismatch
  <1> QED BY <1>4, <1>5, <1>6

-----------------------------------------------------------------------------
(* NamesStayInside for one name: safe_exec_name leaves no "/" in it        *)
(* (handler.rs, response.rs).                                              *)
LEMMA NameInside ==
  ASSUME NEW name \in Seq(STRING), safe_exec_name(name)
  PROVE  in_bundle_dir(name)
PROOF
  <1>1. Range(name) \subseteq SafeChar /\ Len(name) \in 1 .. MAX_NAME
    BY DEF safe_exec_name
  <1>2. "/" \notin SafeChar
    BY BundleFormatAssumption DEF SafeChar
  <1>3. name # <<>>
    BY <1>1
  <1> QED BY <1>1, <1>2, <1>3 DEF in_bundle_dir

-----------------------------------------------------------------------------
(* The inked positions of a text; and a part s of t, o places in, with all *)
(* the ink of t in it.                                                     *)
Ink(t) == {i \in DOMAIN t : t[i] \notin Blank}
Window(t, s, o) ==
  /\ s \in Seq(STRING) /\ o \in Nat
  /\ \A i \in 1 .. Len(s) : i + o \in 1 .. Len(t) /\ t[i + o] = s[i]
  /\ \A i \in Ink(t) : \E k \in 1 .. Len(s) : i = k + o

(* str::trim takes away no ink.                                            *)
LEMMA TrimmedWindow ==
  ASSUME NEW t \in Seq(STRING)
  PROVE  \E o : Window(t, trimmed(t), o)
PROOF
  <1>1. PICK n \in Nat : n = Len(t) /\ DOMAIN t = 1 .. n
    BY LenProperties
  <1>2. PICK ink : ink = Ink(t)
    OBVIOUS
  <1>3. trimmed(t) = IF ink = {} THEN <<>> ELSE SubSeq(t, Min(ink), Max(ink))
    BY <1>2 DEF trimmed, Ink
  <1>4. ink \in SUBSET (1 .. n) /\ ink \in SUBSET Nat
    <2>1. \A i \in ink : i \in 1 .. n
      BY <1>1, <1>2, Zenon DEF Ink
    <2>2. \A i \in ink : i \in Nat
      BY <2>1
    <2> QED BY <2>1, <2>2, Zenon
  <1>5. CASE ink = {}
    <2>1. PICK s : s = <<>>
      OBVIOUS
    <2>2. s \in Seq(STRING) /\ Len(s) = 0
      BY <2>1
    <2>3. Window(t, s, 0)
      BY <1>2, <1>5, <2>2 DEF Window
    <2> QED BY <1>3, <1>5, <2>1, <2>3
  <1>6. CASE ink # {}
    <2>1. PICK a, b : a = Min(ink) /\ b = Max(ink)
      OBVIOUS
    <2>2. a \in ink /\ b \in ink /\ \A i \in ink : a <= i /\ i <= b
      BY <1>4, <1>6, <2>1, MinIsLeast, MaxIsGreatest
    <2>3. a \in 1 .. n /\ b \in 1 .. n /\ a <= b
      BY <1>4, <2>2
    <2>4. \A i \in a .. b : t[i] \in STRING
      BY <1>1, <2>3, ElementOfSeq
    <2>5. PICK s : s = SubSeq(t, a, b)
      OBVIOUS
    <2>6. /\ s \in Seq(STRING) /\ Len(s) = (IF a <= b THEN b - a + 1 ELSE 0)
          /\ \A i \in 1 .. b - a + 1 : s[i] = t[a + i - 1]
      BY <2>3, <2>4, <2>5, SubSeqProperties
    <2>7. PICK m \in Nat, o \in Nat : m = Len(s) /\ m = b - a + 1 /\ o = a - 1
      <3>1. b - a + 1 \in Nat /\ a - 1 \in Nat
        BY <2>3
      <3> QED BY <2>3, <2>6, <3>1
    <2>8. ASSUME NEW i \in 1 .. m PROVE i + o \in 1 .. n /\ t[i + o] = s[i]
      <3>1. i + o \in 1 .. n /\ a + i - 1 = i + o /\ i \in 1 .. b - a + 1
        BY <2>3, <2>7
      <3> QED BY <2>6, <3>1
    <2>9. ASSUME NEW i \in ink PROVE \E k \in 1 .. m : i = k + o
      <3>1. i \in 1 .. n /\ a <= i /\ i <= b
        BY <1>4, <2>2
      <3>2. i - o \in 1 .. m /\ i = (i - o) + o
        BY <2>3, <2>7, <3>1
      <3> QED BY <3>2, Zenon
    <2>10. Window(t, s, o)
      BY <1>1, <1>2, <2>6, <2>7, <2>8, <2>9 DEF Window
    <2> QED BY <1>3, <1>6, <2>1, <2>5, <2>10
  <1> QED BY <1>5, <1>6

(* A text without blanks is trimmed already, and a newline after it goes.  *)
LEMMA InkedText ==
  ASSUME NEW S, NEW s \in Seq(S), \A i \in 1 .. Len(s) : s[i] \notin Blank,
         NEW t, t \in {s, Append(s, "\n")}
  PROVE  trimmed(t) = s
PROOF
  <1>1. PICK n \in Nat : n = Len(s) /\ DOMAIN s = 1 .. n
    BY LenProperties
  <1>10. PICK T : T = S \union {"\n"}
    OBVIOUS
  <1>11. s \in Seq(T)
    BY <1>1, <1>10, ElementOfSeq
  <1>2. /\ t \in Seq(T) /\ Len(t) \in {n, n + 1} /\ \A i \in 1 .. n : t[i] = s[i]
        /\ Len(t) = n + 1 => t[n + 1] \in Blank
    <2>1. CASE t = s
      BY <1>1, <1>11, <2>1
    <2>2. CASE t = Append(s, "\n")
      <3>1. /\ t \in Seq(T) /\ Len(t) = n + 1 /\ t[n + 1] = "\n"
            /\ \A i \in 1 .. n : t[i] = s[i]
        <4>1. PICK c \in T : c = "\n"
          BY <1>10
        <4>2. t = Append(s, c)
          BY <2>2, <4>1
        <4> QED BY <1>1, <1>11, <4>1, <4>2, AppendProperties
      <3> QED BY <3>1 DEF Blank
    <2> QED BY <2>1, <2>2
  <1>3. PICK m \in Nat : m = Len(t) /\ DOMAIN t = 1 .. m
    BY <1>2, LenProperties
  <1>4. PICK ink : ink = {i \in DOMAIN t : t[i] \notin Blank}
    OBVIOUS
  <1>5. ink = 1 .. n
    <2>1. ASSUME NEW i \in ink PROVE i \in 1 .. n
      <3>1. i \in 1 .. m /\ t[i] \notin Blank
        BY <1>3, <1>4
      <3>2. i # n + 1 \/ m # n + 1
        BY <1>2, <1>3, <3>1
      <3> QED BY <1>2, <1>3, <3>1, <3>2
    <2>2. ASSUME NEW i \in 1 .. n PROVE i \in ink
      <3>1. t[i] \notin Blank
        BY <1>1, <1>2
      <3>2. i \in 1 .. m
        BY <1>2, <1>3
      <3> QED BY <1>3, <1>4, <3>1, <3>2
    <2> QED BY <2>1, <2>2
  <1>6. trimmed(t) = IF ink = {} THEN <<>> ELSE SubSeq(t, Min(ink), Max(ink))
    BY <1>4 DEF trimmed
  <1>7. CASE n = 0
    <2>1. ink = {}
      BY <1>5, <1>7
    <2> QED BY <1>1, <1>6, <1>7, <2>1, EmptySeq
  <1>8. CASE n # 0
    <2>1. 1 \in ink /\ n \in ink /\ ink \in SUBSET Nat
      BY <1>5, <1>8
    <2>2. PICK lo, hi : lo = Min(ink) /\ hi = Max(ink)
      OBVIOUS
    <2>3. lo \in ink /\ lo <= 1
      BY <2>1, <2>2, MinIsLeast
    <2>4. ink # {} /\ \A i \in ink : i \in 1 .. n /\ i <= n
      <3>1. \A i \in 1 .. n : i <= n
        OBVIOUS
      <3> QED BY <1>5, <2>1, <3>1, Zenon
    <2>5. hi \in ink /\ n <= hi
      BY <1>5, <2>1, <2>2, <2>4, MaxIsGreatest
    <2>6. lo = 1 /\ hi = n
      BY <1>5, <2>3, <2>5
    <2>7. PICK u : u = SubSeq(t, 1, n)
      OBVIOUS
    <2>8. \A i \in 1 .. n : t[i] \in T
      BY <1>1, <1>2, <1>11, ElementOfSeq
    <2>9. /\ u \in Seq(T) /\ Len(u) = (IF 1 <= n THEN n - 1 + 1 ELSE 0)
          /\ \A i \in 1 .. n - 1 + 1 : u[i] = t[1 + i - 1]
      BY <1>2, <2>7, <2>8, SubSeqProperties
    <2>10. Len(u) = n /\ \A i \in 1 .. n : u[i] = s[i]
      BY <1>2, <1>8, <2>9
    <2>11. u = s
      BY <1>1, <1>11, <2>9, <2>10, SeqEqual
    <2> QED BY <1>6, <2>2, <2>4, <2>6, <2>7, <2>11
  <1> QED BY <1>7, <1>8

-----------------------------------------------------------------------------
(* The sixteen digits are distinct and in lower case.                      *)
LEMMA DigitText ==
  /\ DOMAIN HexDigit = 1 .. 16
  /\ \A i \in 1 .. 16 : /\ lowercase(HexDigit[i]) = HexDigit[i]
                         /\ HexDigit[i] \notin Blank
  /\ \A i, j \in 1 .. 16 : HexDigit[i] = HexDigit[j] => i = j
PROOF
  <1>1. DOMAIN HexDigit = 1 .. 16
    BY DEF HexDigit
  <1>2. \A i \in 1 .. 16 : i \in {1, 2, 3, 4, 5, 6, 7, 8, 9, 10, 11, 12, 13, 14, 15, 16}
    OBVIOUS
  <1>3. ASSUME NEW i \in 1 .. 16 PROVE lowercase(HexDigit[i]) = HexDigit[i]
    <2>1. HexDigit[i] \notin {"A", "B", "C", "D", "E", "F"}
      BY <1>2 DEF HexDigit
    <2>2. DOMAIN Upper = {"A", "B", "C", "D", "E", "F"}
      BY DEF Upper
    <2> QED BY <2>1, <2>2 DEF lowercase
  <1>4. ASSUME NEW i \in 1 .. 16, NEW j \in 1 .. 16, HexDigit[i] = HexDigit[j] PROVE i = j
    BY <1>2, <1>4 DEF HexDigit
  <1>5. ASSUME NEW i \in 1 .. 16 PROVE HexDigit[i] \notin Blank
    <2>1. HexDigit[i] \in {"0", "1", "2", "3", "4", "5", "6", "7", "8", "9", "a", "b", "c", "d", "e", "f"}
      BY <1>2 DEF HexDigit
    <2>2. PICK c : c = HexDigit[i]
      OBVIOUS
    <2>3. c \in {"0", "1", "2", "3", "4", "5", "6", "7", "8", "9", "a", "b", "c", "d", "e", "f"}
      BY <2>1, <2>2
    <2>4. c # " " /\ c # "\n"
      BY ONLY <2>3
    <2> QED BY ONLY <2>2, <2>4 DEF Blank
  <1> QED BY <1>1, <1>3, <1>4, <1>5

(* nibble inverts the digit table, in either letter case.                  *)
LEMMA NibbleValue ==
  /\ \A c : nibble(c) # BadNibble => nibble(c) \in 0 .. 15 /\ HexDigit[nibble(c) + 1] = lowercase(c)
  /\ \A v \in 0 .. 15 : nibble(HexDigit[v + 1]) = v
PROOF
  <1>1. ASSUME NEW c, lowercase(c) \in Range(HexDigit)
        PROVE  nibble(c) \in 0 .. 15 /\ HexDigit[nibble(c) + 1] = lowercase(c)
    <2>1. DOMAIN HexDigit = 1 .. 16
      BY DigitText
    <2>2. \E i \in 1 .. 16 : HexDigit[i] = lowercase(c)
      BY <1>1, <2>1 DEF Range
    <2>3. PICK i : i = CHOOSE k \in 1 .. 16 : HexDigit[k] = lowercase(c)
      OBVIOUS
    <2>4. i \in 1 .. 16 /\ HexDigit[i] = lowercase(c)
      BY <2>2, <2>3
    <2>5. nibble(c) = i - 1
      BY <1>1, <2>3 DEF nibble
    <2>6. i - 1 \in 0 .. 15 /\ (i - 1) + 1 = i
      BY <2>4
    <2> QED BY <2>4, <2>5, <2>6
  <1>2. ASSUME NEW c, nibble(c) # BadNibble PROVE lowercase(c) \in Range(HexDigit)
    BY <1>2 DEF nibble
  <1>3. ASSUME NEW v \in 0 .. 15 PROVE nibble(HexDigit[v + 1]) = v
    <2>1. PICK i \in 1 .. 16 : i = v + 1
      OBVIOUS
    <2>2. lowercase(HexDigit[i]) = HexDigit[i]
      BY DigitText
    <2>3. HexDigit[i] \in Range(HexDigit)
      <3>1. DOMAIN HexDigit = 1 .. 16
        BY DigitText
      <3> QED BY <3>1 DEF Range
    <2>4. PICK u \in 0 .. 15 : u = nibble(HexDigit[i]) /\ HexDigit[u + 1] = HexDigit[i]
      BY <1>1, <2>2, <2>3
    <2>5. u + 1 = i
      <3>1. u + 1 \in 1 .. 16
        OBVIOUS
      <3> QED BY <2>4, <3>1, DigitText
    <2>6. u = v
      BY <2>1, <2>5
    <2> QED BY <2>1, <2>4, <2>6
  <1> QED BY <1>1, <1>2, <1>3

(* What decodable and decode make of a text once it is trimmed.            *)
Digits(s) == Len(s) % 2 = 0 /\ \A i \in DOMAIN s : nibble(s[i]) # BadNibble
Pairs(s) == [i \in 1 .. Len(s) \div 2 |-> 16 * nibble(s[2 * i - 1]) + nibble(s[2 * i])]

(* A byte as its two halves.                                               *)
Nibbles(c, hi, lo) == hi \in Nat /\ lo \in Nat /\ lo <= 15 /\ c = 16 * hi + lo
(* The shift and the mask of encode take a byte apart into its two halves. *)
LEMMA NibblesOf ==
  ASSUME NEW b \in 0 .. 255
  PROVE  \E hi, lo \in 0 .. 15 : b \div 16 = hi /\ b % 16 = lo /\ 16 * hi + lo = b
PROOF
  <1>1. PICK Good : \A c : c \in Good <=> c \in Nat /\ \E hi, lo : Nibbles(c, hi, lo)
    <2>1. \A c : c \in {d \in Nat : \E hi, lo : Nibbles(d, hi, lo)}
                  <=> c \in Nat /\ \E hi, lo : Nibbles(c, hi, lo)
      OBVIOUS
    <2> QED BY <2>1
  <1>2. 0 \in Good
    <2>1. Nibbles(0, 0, 0)
      BY DEF Nibbles
    <2> QED BY <1>1, <2>1
  <1>3. ASSUME NEW c \in 1 .. b, c - 1 \in Good PROVE c \in Good
    <2>1. PICK hi, lo : Nibbles(c - 1, hi, lo)
      BY <1>1, <1>3
    <2>2. Nibbles(c, hi + 1, 0) \/ Nibbles(c, hi, lo + 1)
      BY <2>1 DEF Nibbles
    <2>3. c \in Nat /\ \E h, l : Nibbles(c, h, l)
      BY <2>2
    <2> QED BY <1>1, <2>3
  <1>4. b \in Good
    <2>1. b \in Nat
      OBVIOUS
    <2> QED BY <1>2, <1>3, <2>1, Induction, Zenon
  <1>5. PICK hi, lo : Nibbles(b, hi, lo)
    BY <1>1, <1>4
  <1>6. hi \in Nat /\ lo \in Nat /\ lo <= 15 /\ b = 16 * hi + lo /\ hi <= 15
    BY <1>5 DEF Nibbles
  <1>7. (16 * hi + lo) \div 16 = hi /\ (16 * hi + lo) % 16 = lo
    BY <1>6
  <1>8. b \div 16 = hi /\ b % 16 = lo
    BY <1>6, <1>7, Zenon
  <1>9. hi \in 0 .. 15 /\ lo \in 0 .. 15 /\ 16 * hi + lo = b
    BY <1>6
  <1> QED BY <1>8, <1>9

(* HexFaithful, from bytes: encode writes two digits per byte and decode   *)
(* reads the pair back (hex.rs, keys.rs).                                  *)
LEMMA BytesSurvive ==
  ASSUME NEW bytes \in Seq(0 .. 255)
  PROVE  /\ encode(bytes) \in Seq(Range(HexDigit))
         /\ \A i \in 1 .. Len(encode(bytes)) : encode(bytes)[i] \notin Blank
         /\ Digits(encode(bytes)) /\ Pairs(encode(bytes)) = bytes
PROOF
  <1>1. PICK n \in Nat : n = Len(bytes) /\ DOMAIN bytes = 1 .. n
    BY LenProperties
  <1>2. \A i \in 1 .. n : bytes[i] \in 0 .. 255
    BY <1>1, ElementOfSeq
  <1>11. ASSUME NEW i \in 1 .. n PROVE bytes[i] \div 16 \in 0 .. 15 /\ bytes[i] % 16 \in 0 .. 15
    <2>1. PICK b \in 0 .. 255 : b = bytes[i]
      BY <1>2
    <2>2. PICK hi, lo \in 0 .. 15 : b \div 16 = hi /\ b % 16 = lo
      BY NibblesOf
    <2>3. bytes[i] \div 16 = hi /\ bytes[i] % 16 = lo
      BY <2>1, <2>2
    <2> QED BY <2>3
  <1>3. PICK s : s = encode(bytes)
    OBVIOUS
  <1>4. PICK m \in Nat : m = 2 * n
    OBVIOUS
  <1>5. s = [i \in 1 .. m |-> IF i % 2 = 1 THEN HexDigit[(bytes[(i + 1) \div 2] \div 16) + 1]
                              ELSE HexDigit[(bytes[i \div 2] % 16) + 1]]
    BY <1>1, <1>3, <1>4 DEF encode
  <1>6. DOMAIN s = 1 .. m /\ Len(s) = m
    BY <1>5
  <1>7. ASSUME NEW i \in 1 .. n
        PROVE  /\ 2 * i \in 1 .. m /\ 2 * i - 1 \in 1 .. m
               /\ nibble(s[2 * i - 1]) = bytes[i] \div 16 /\ nibble(s[2 * i]) = bytes[i] % 16
    <2>1. 2 * i \in 1 .. m /\ 2 * i - 1 \in 1 .. m
      BY <1>4
    <2>2. (2 * i) % 2 # 1 /\ (2 * i) \div 2 = i /\ (2 * i - 1) % 2 = 1 /\ ((2 * i - 1) + 1) \div 2 = i
      OBVIOUS
    <2>3. s[2 * i - 1] = HexDigit[(bytes[i] \div 16) + 1] /\ s[2 * i] = HexDigit[(bytes[i] % 16) + 1]
      BY <1>5, <2>1, <2>2
    <2> QED BY <1>11, <2>1, <2>3, NibbleValue
  <1>8. \A i \in 1 .. m : nibble(s[i]) # BadNibble
    <2> SUFFICES ASSUME NEW i \in 1 .. m PROVE nibble(s[i]) # BadNibble
      OBVIOUS
    <2>1. CASE i % 2 = 1
      <3>1. PICK k \in 1 .. n : k = (i + 1) \div 2 /\ i = 2 * k - 1
        BY <1>4, <2>1
      <3>2. nibble(s[i]) \in 0 .. 15
        BY <1>7, <1>11, <3>1
      <3> QED BY <3>2 DEF BadNibble
    <2>2. CASE i % 2 # 1
      <3>1. PICK k \in 1 .. n : k = i \div 2 /\ i = 2 * k
        BY <1>4, <2>2
      <3>2. nibble(s[i]) \in 0 .. 15
        BY <1>7, <1>11, <3>1
      <3> QED BY <3>2 DEF BadNibble
    <2> QED BY <2>1, <2>2
  <1>9. Digits(s)
    <2>1. m % 2 = 0
      BY <1>4
    <2> QED BY <1>6, <1>8, <2>1 DEF Digits
  <1>12. ASSUME NEW i \in 1 .. m PROVE s[i] \in Range(HexDigit) /\ s[i] \notin Blank
    <2>1. PICK v \in 0 .. 15 : s[i] = HexDigit[v + 1]
      <3>1. CASE i % 2 = 1
        <4>1. PICK k \in 1 .. n : k = (i + 1) \div 2
          BY <1>4, <3>1
        <4>2. s[i] = HexDigit[(bytes[k] \div 16) + 1]
          BY <1>5, <3>1, <4>1
        <4> QED BY <1>11, <4>2
      <3>2. CASE i % 2 # 1
        <4>1. PICK k \in 1 .. n : k = i \div 2
          BY <1>4, <3>2
        <4>2. s[i] = HexDigit[(bytes[k] % 16) + 1]
          BY <1>5, <3>2, <4>1
        <4> QED BY <1>11, <4>2
      <3> QED BY <3>1, <3>2
    <2>2. PICK j \in 1 .. 16 : s[i] = HexDigit[j]
      BY <2>1
    <2>3. s[i] \in Range(HexDigit)
      BY <2>2, DigitText DEF Range
    <2> QED BY <2>2, <2>3, DigitText
  <1>13. s \in Seq(Range(HexDigit))
    <2>1. s = [i \in 1 .. m |-> s[i]]
      BY <1>5
    <2> QED BY <1>12, <2>1
  <1>10. Pairs(s) = bytes
    <2>1. m \div 2 = n
      BY <1>4
    <2>2. Pairs(s) = [i \in 1 .. n |-> 16 * nibble(s[2 * i - 1]) + nibble(s[2 * i])]
      BY <1>6, <2>1 DEF Pairs
    <2>3. \A i \in 1 .. n : 16 * nibble(s[2 * i - 1]) + nibble(s[2 * i]) = bytes[i]
      <3> SUFFICES ASSUME NEW i \in 1 .. n PROVE 16 * nibble(s[2 * i - 1]) + nibble(s[2 * i]) = bytes[i]
        OBVIOUS
      <3>1. PICK b \in 0 .. 255 : b = bytes[i]
        BY <1>2
      <3>2. PICK hi, lo \in 0 .. 15 : b \div 16 = hi /\ b % 16 = lo /\ 16 * hi + lo = b
        BY NibblesOf
      <3>3. nibble(s[2 * i - 1]) = hi /\ nibble(s[2 * i]) = lo
        BY <1>7, <3>1, <3>2
      <3> QED BY ONLY <3>1, <3>2, <3>3
    <2>4. bytes = [i \in 1 .. n |-> bytes[i]]
      BY <1>1
    <2> QED BY <2>2, <2>3, <2>4
  <1> QED BY <1>3, <1>6, <1>9, <1>10, <1>12, <1>13

(* HexFaithful, from text: what decode takes, encode writes again in lower *)
(* case.                                                                   *)
LEMMA TextSurvives ==
  ASSUME NEW s \in Seq(STRING), Digits(s)
  PROVE  /\ \A i \in DOMAIN Pairs(s) : Pairs(s)[i] \in 0 .. 255
         /\ encode(Pairs(s)) = [i \in DOMAIN s |-> lowercase(s[i])]
PROOF
  <1>1. PICK m \in Nat : m = Len(s) /\ DOMAIN s = 1 .. m
    BY LenProperties
  <1>2. m % 2 = 0 /\ \A i \in 1 .. m : nibble(s[i]) # BadNibble
    BY <1>1 DEF Digits
  <1>3. PICK n \in Nat : n = m \div 2 /\ m = 2 * n
    BY <1>2
  <1>4. PICK d : d = Pairs(s)
    OBVIOUS
  <1>5. d = [i \in 1 .. n |-> 16 * nibble(s[2 * i - 1]) + nibble(s[2 * i])]
    BY <1>1, <1>3, <1>4 DEF Pairs
  <1>6. \A i \in 1 .. m : nibble(s[i]) \in 0 .. 15 /\ HexDigit[nibble(s[i]) + 1] = lowercase(s[i])
    BY <1>2, NibbleValue
  <1>7. ASSUME NEW i \in 1 .. n
        PROVE  /\ d[i] \in 0 .. 255
               /\ d[i] \div 16 = nibble(s[2 * i - 1]) /\ d[i] % 16 = nibble(s[2 * i])
    <2>1. 2 * i \in 1 .. m /\ 2 * i - 1 \in 1 .. m
      BY <1>3
    <2>2. PICK a, b \in 0 .. 15 : a = nibble(s[2 * i - 1]) /\ b = nibble(s[2 * i])
      BY <1>6, <2>1
    <2>3. d[i] = 16 * a + b
      BY <1>5, <2>2
    <2>4. 16 * a + b \in 0 .. 255 /\ (16 * a + b) \div 16 = a /\ (16 * a + b) % 16 = b
      OBVIOUS
    <2> QED BY <2>2, <2>3, <2>4
  <1>8. DOMAIN d = 1 .. n /\ Len(d) = n
    BY <1>5
  <1>9. PICK e : e = encode(d)
    OBVIOUS
  <1>10. e = [i \in 1 .. m |-> IF i % 2 = 1 THEN HexDigit[(d[(i + 1) \div 2] \div 16) + 1]
                               ELSE HexDigit[(d[i \div 2] % 16) + 1]]
    BY <1>3, <1>8, <1>9 DEF encode
  <1>11. ASSUME NEW i \in 1 .. m PROVE e[i] = lowercase(s[i])
    <2>1. CASE i % 2 = 1
      <3>1. PICK k \in 1 .. n : k = (i + 1) \div 2 /\ i = 2 * k - 1
        BY <1>3, <2>1
      <3>2. e[i] = HexDigit[(d[k] \div 16) + 1]
        BY <1>10, <2>1, <3>1
      <3> QED BY <1>6, <1>7, <3>1, <3>2
    <2>2. CASE i % 2 # 1
      <3>1. PICK k \in 1 .. n : k = i \div 2 /\ i = 2 * k
        BY <1>3, <2>2
      <3>2. e[i] = HexDigit[(d[k] % 16) + 1]
        BY <1>10, <2>2, <3>1
      <3> QED BY <1>6, <1>7, <3>1, <3>2
    <2> QED BY <2>1, <2>2
  <1>12. e = [i \in 1 .. m |-> lowercase(s[i])]
    <2>1. e = [i \in 1 .. m |-> e[i]]
      BY <1>10
    <2> QED BY <1>11, <2>1
  <1> QED BY <1>1, <1>4, <1>7, <1>8, <1>9, <1>12

-----------------------------------------------------------------------------
(* A text trimmed to one object has that object for its only ink.          *)
LEMMA OneToken ==
  ASSUME NEW t \in Seq(STRING), NEW s, s = <<"object">>, NEW o, Window(t, s, o)
  PROVE  o + 1 \in Ink(t) /\ t[o + 1] = "object" /\ Ink(t) = {o + 1}
PROOF
  <1>1. PICK n \in Nat : n = Len(t) /\ DOMAIN t = 1 .. n
    BY LenProperties
  <1>2. Len(s) = 1 /\ s[1] = "object"
    OBVIOUS
  <1>3. o \in Nat /\ \A i \in 1 .. 1 : i + o \in 1 .. n /\ t[i + o] = s[i]
    BY <1>1, <1>2 DEF Window
  <1>4. 1 + o \in 1 .. n /\ t[1 + o] = s[1] /\ 1 + o = o + 1
    BY <1>3
  <1>5. t[o + 1] = "object" /\ o + 1 \in DOMAIN t
    BY <1>1, <1>2, <1>4
  <1>6. "object" \notin Blank
    BY DEF Blank
  <1>7. o + 1 \in Ink(t)
    BY <1>5, <1>6 DEF Ink
  <1>8. ASSUME NEW i \in Ink(t) PROVE i = o + 1
    <2>1. PICK k \in 1 .. 1 : i = k + o
      BY <1>2 DEF Window
    <2>2. k = 1
      OBVIOUS
    <2> QED BY <1>4, <2>1, <2>2
  <1> QED BY <1>5, <1>7, <1>8

(* A text trimmed, freed of a closing fence and trimmed again to one       *)
(* object has ink in two places: the object, then the fence.               *)
LEMMA FencedObject ==
  ASSUME NEW rest \in Seq(STRING), NEW body, NEW o, Window(rest, body, o), body # <<>>, Last(body) = Fence,
         NEW s, s = <<"object">>, NEW p, Window(Front(body), s, p)
  PROVE  \E i, j \in Ink(rest) : i < j /\ Ink(rest) = {i, j} /\ rest[i] = "object" /\ rest[j] = Fence
PROOF
  <1>1. PICK n \in Nat : n = Len(rest) /\ DOMAIN rest = 1 .. n
    BY LenProperties
  <1>2. body \in Seq(STRING) /\ o \in Nat
    BY DEF Window
  <1>3. PICK m \in Nat : m = Len(body) /\ DOMAIN body = 1 .. m /\ m >= 1
    BY <1>2, LenProperties
  <1>4. PICK front : front = Front(body)
    OBVIOUS
  <1>5. \A i \in 1 .. m - 1 : body[i] \in STRING
    BY <1>2, <1>3, ElementOfSeq
  <1>6. front \in Seq(STRING) /\ Len(front) = m - 1 /\ \A i \in 1 .. m - 1 : front[i] = body[i]
    <2>1. front = SubSeq(body, 1, m - 1)
      BY <1>3, <1>4 DEF Front
    <2>2. m - 1 \in Nat
      BY <1>3
    <2>3. /\ front \in Seq(STRING) /\ Len(front) = (IF 1 <= m - 1 THEN m - 1 - 1 + 1 ELSE 0)
          /\ \A i \in 1 .. m - 1 - 1 + 1 : front[i] = body[1 + i - 1]
      BY <1>2, <1>5, <2>1, <2>2, SubSeqProperties
    <2> QED BY <2>2, <2>3
  <1>7. p + 1 \in Ink(front) /\ front[p + 1] = "object" /\ Ink(front) = {p + 1}
    BY <1>4, <1>6, OneToken
  <1>8. p \in Nat /\ p + 1 \in 1 .. m - 1 /\ body[p + 1] = "object"
    <2>1. p \in Nat
      BY DEF Window
    <2>2. DOMAIN front = 1 .. m - 1
      BY <1>3, <1>6, LenProperties
    <2>3. p + 1 \in 1 .. m - 1
      BY <1>7, <2>2 DEF Ink
    <2> QED BY <1>6, <1>7, <2>1, <2>3
  <1>9. \A i \in Ink(body) : i = p + 1 \/ i = m
    <2> SUFFICES ASSUME NEW i \in Ink(body), i # m PROVE i = p + 1
      OBVIOUS
    <2>1. i \in 1 .. m /\ body[i] \notin Blank
      BY <1>3 DEF Ink
    <2>2. i \in 1 .. m - 1
      BY <2>1
    <2>3. DOMAIN front = 1 .. m - 1
      BY <1>3, <1>6, LenProperties
    <2>4. i \in Ink(front)
      BY <1>6, <2>1, <2>2, <2>3 DEF Ink
    <2> QED BY <1>7, <2>4
  <1>10. body[m] = Fence
    BY <1>3 DEF Last
  <1>11. \A i \in 1 .. m : i + o \in 1 .. n /\ rest[i + o] = body[i]
    BY <1>1, <1>3 DEF Window
  <1>12. PICK i, j : i = p + 1 + o /\ j = m + o
    OBVIOUS
  <1>13. p + 1 \in 1 .. m /\ m \in 1 .. m
    BY <1>3, <1>8
  <1>14. i \in 1 .. n /\ j \in 1 .. n /\ rest[i] = "object" /\ rest[j] = Fence
    BY <1>8, <1>10, <1>11, <1>12, <1>13
  <1>15. i < j
    BY <1>2, <1>3, <1>8, <1>12
  <1>16. i \in Ink(rest) /\ j \in Ink(rest)
    <2>1. "object" \notin Blank /\ Fence \notin Blank
      BY DEF Blank, Fence
    <2> QED BY <1>1, <1>14, <2>1 DEF Ink
  <1>17. ASSUME NEW q \in Ink(rest) PROVE q = i \/ q = j
    <2>1. PICK k \in 1 .. m : q = k + o
      BY <1>3 DEF Window
    <2>2. rest[q] = body[k] /\ rest[q] \notin Blank
      BY <1>11, <2>1 DEF Ink
    <2>3. k \in Ink(body)
      BY <1>3, <2>2 DEF Ink
    <2>4. k = p + 1 \/ k = m
      BY <1>9, <2>3
    <2> QED BY <1>12, <2>1, <2>4
  <1>18. Ink(rest) = {i, j}
    BY <1>16, <1>17
  <1> QED BY <1>14, <1>15, <1>16, <1>18

-----------------------------------------------------------------------------
(* What follows the line of an opening fence is a text again.              *)
LEMMA RestTyped ==
  ASSUME NEW text \in Seq(STRING), NEW t, t = trimmed(text), t # <<>>
  PROVE  t \in Seq(STRING) /\ AfterFenceLine(text) \in Seq(STRING)
PROOF
  <1>1. PICK o : Window(text, t, o)
    BY TrimmedWindow
  <1>2. t \in Seq(STRING)
    BY <1>1 DEF Window
  <1>3. PICK newlines : newlines = {i \in DOMAIN t : t[i] = "\n"}
    OBVIOUS
  <1>4. AfterFenceLine(text) = IF Head(t) # Fence THEN t
                               ELSE IF newlines = {} THEN <<>> ELSE SubSeq(t, Min(newlines) + 1, Len(t))
    BY <1>3 DEF AfterFenceLine
  <1>5. CASE newlines # {}
    <2>1. PICK n \in Nat : n = Len(t) /\ DOMAIN t = 1 .. n
      BY <1>2, LenProperties
    <2>2. \A i \in newlines : i \in 1 .. n
      BY <1>3, <2>1, Zenon
    <2>3. \A i \in newlines : i \in Nat
      BY <2>2
    <2>4. newlines \in SUBSET Nat
      BY <2>3
    <2>5. PICK a : a = Min(newlines)
      OBVIOUS
    <2>6. a \in 1 .. n
      BY <1>5, <2>2, <2>4, <2>5, MinIsLeast
    <2>7. \A i \in a + 1 .. n : t[i] \in STRING
      BY <1>2, <2>1, <2>6, ElementOfSeq
    <2>8. SubSeq(t, a + 1, n) \in Seq(STRING)
      <3>1. a + 1 \in Int /\ n \in Int
        BY <2>6
      <3> QED BY <1>2, <2>6, <2>7, <3>1, SubSeqProperties
    <2> QED BY <1>2, <1>4, <1>5, <2>1, <2>5, <2>8
  <1>6. CASE newlines = {}
    <2>1. AfterFenceLine(text) = t \/ AfterFenceLine(text) = <<>>
      BY <1>4, <1>6, Zenon
    <2> QED BY <1>2, <2>1, EmptySeq
  <1> QED BY <1>2, <1>5, <1>6

(* One object and nothing else, but for a closing fence if one was opened. *)
Alone(rest, fenced) ==
  \E i \in Ink(rest) :
    /\ rest[i] = "object"
    /\ \/ Ink(rest) = {i}
       \/ fenced /\ \E j \in Ink(rest) : i < j /\ Ink(rest) = {i, j} /\ rest[j] = Fence

(* strip_one_fence takes away one pair of fences and no other ink          *)
(* (response.rs).                                                          *)
LEMMA ObjectAlone ==
  ASSUME NEW text \in Seq(STRING), trimmed(text) # <<>>, strip_one_fence(text) = <<"object">>
  PROVE  Alone(AfterFenceLine(text), Head(trimmed(text)) = Fence)
PROOF
  <1>1. PICK t : t = trimmed(text)
    OBVIOUS
  <1>2. PICK s : s = <<"object">>
    OBVIOUS
  <1>3. PICK rest : rest = AfterFenceLine(text)
    OBVIOUS
  <1>4. t \in Seq(STRING) /\ rest \in Seq(STRING)
    BY <1>1, <1>3, RestTyped
  <1>5. PICK newlines : newlines = {i \in DOMAIN t : t[i] = "\n"}
    OBVIOUS
  <1>6. rest = IF Head(t) # Fence THEN t
               ELSE IF newlines = {} THEN <<>> ELSE SubSeq(t, Min(newlines) + 1, Len(t))
    BY <1>1, <1>3, <1>5 DEF AfterFenceLine
  <1>7. PICK body : body = trimmed(IF newlines = {} THEN <<>> ELSE SubSeq(t, Min(newlines) + 1, Len(t)))
    OBVIOUS
  <1>8. s = CASE t = <<>> -> t
              [] t # <<>> /\ Head(t) # Fence -> t
              [] OTHER -> IF body # <<>> /\ Last(body) = Fence THEN trimmed(Front(body)) ELSE body
    BY <1>1, <1>2, <1>5, <1>7 DEF strip_one_fence
  <1>9. CASE Head(t) # Fence
    <2>1. s = t /\ rest = t
      BY <1>1, <1>6, <1>8, <1>9
    <2>2. Window(rest, s, 0)
      <3>1. s \in Seq(STRING) /\ Len(s) = 1 /\ DOMAIN s = 1 .. 1
        BY <1>2, <1>4, <2>1
      <3>2. \A i \in 1 .. Len(s) : i + 0 \in 1 .. Len(s) /\ s[i + 0] = s[i]
        OBVIOUS
      <3>3. \A i \in Ink(s) : i \in 1 .. Len(s) /\ i = i + 0
        BY <3>1 DEF Ink
      <3> QED BY <2>1, <3>1, <3>2, <3>3 DEF Window
    <2>3. 0 + 1 \in Ink(rest) /\ rest[0 + 1] = "object" /\ Ink(rest) = {0 + 1}
      BY <1>2, <1>4, <2>2, OneToken
    <2>4. Alone(rest, Head(t) = Fence)
      BY <2>3, Zenon DEF Alone
    <2> QED BY <1>1, <1>3, <2>4
  <1>10. CASE Head(t) = Fence
    <2>1. body = trimmed(rest)
      BY <1>6, <1>7, <1>10
    <2>2. PICK o : Window(rest, body, o)
      BY <1>4, <2>1, TrimmedWindow
    <2>3. body \in Seq(STRING)
      BY <2>2 DEF Window
    <2>4. s = IF body # <<>> /\ Last(body) = Fence THEN trimmed(Front(body)) ELSE body
      BY <1>1, <1>8, <1>10
    <2>5. CASE body # <<>> /\ Last(body) = Fence
      <3>1. Front(body) \in Seq(STRING)
        BY <2>3, <2>5, FrontTyped
      <3>2. s = trimmed(Front(body))
        BY <2>4, <2>5
      <3>3. PICK p : Window(Front(body), s, p)
        BY <3>1, <3>2, TrimmedWindow
      <3>4. \E i, j \in Ink(rest) : i < j /\ Ink(rest) = {i, j} /\ rest[i] = "object" /\ rest[j] = Fence
        BY <1>2, <1>4, <2>2, <2>5, <3>3, FencedObject
      <3>5. Alone(rest, Head(t) = Fence)
        BY <1>10, <3>4, Zenon DEF Alone
      <3> QED BY <1>1, <1>3, <3>5
    <2>6. CASE ~(body # <<>> /\ Last(body) = Fence)
      <3>1. Window(rest, s, o)
        BY <2>2, <2>4, <2>6
      <3>2. o + 1 \in Ink(rest) /\ rest[o + 1] = "object" /\ Ink(rest) = {o + 1}
        BY <1>2, <1>4, <3>1, OneToken
      <3>3. Alone(rest, Head(t) = Fence)
        BY <3>2, Zenon DEF Alone
      <3> QED BY <1>1, <1>3, <3>3
    <2> QED BY <2>5, <2>6
  <1> QED BY <1>9, <1>10

(* OneActionOrNothing for one reply: each earlier return of                *)
(* parse_model_response is one of its refusals.                            *)
LEMMA ReplyHolds ==
  ASSUME NEW reply, reply.text \in Seq(STRING), reply.canary \in BOOLEAN, reply.too_large \in BOOLEAN,
         NEW outcome, outcome = parse_model_response(reply), outcome \in {"Invoke", "Ask", "Refuse"}
  PROVE  /\ ~reply.canary /\ ~reply.too_large
         /\ Alone(AfterFenceLine(reply.text), Head(trimmed(reply.text)) = Fence)
         /\ outcome = "Invoke" => safe_exec_name(reply.object.action)
PROOF
  <1>1. PICK text \in Seq(STRING) : text = reply.text
    OBVIOUS
  <1>2. PICK verdict : verdict = ObjectOutcome(reply.object)
    OBVIOUS
  <1>3. PICK canary \in BOOLEAN, large \in BOOLEAN : canary = reply.canary /\ large = reply.too_large
    OBVIOUS
  <1>4. outcome = CASE canary -> "CanaryLeaked"
                    [] ~canary /\ trimmed(text) = <<>> -> "Empty"
                    [] ~canary /\ trimmed(text) # <<>> /\ large -> "TooLarge"
                    [] OTHER -> IF strip_one_fence(text) = <<"object">> /\ ~reply.object.unknown_fields
                                THEN verdict ELSE "NotContractJson"
    BY <1>1, <1>2, <1>3 DEF parse_model_response
  <1>5. ~canary
    BY <1>4
  <1>6. trimmed(text) # <<>>
    BY <1>4, <1>5
  <1>7. ~large
    BY <1>4, <1>5, <1>6
  <1>8. strip_one_fence(text) = <<"object">> /\ outcome = verdict
    BY <1>4, <1>5, <1>6, <1>7
  <1>9. Alone(AfterFenceLine(text), Head(trimmed(text)) = Fence)
    BY <1>6, <1>8, ObjectAlone
  <1>10. verdict = "Invoke" => safe_exec_name(reply.object.action)
    BY <1>2 DEF ObjectOutcome, response_safe_exec_name, safe_exec_name
  <1> QED BY <1>1, <1>3, <1>5, <1>7, <1>8, <1>9, <1>10

-----------------------------------------------------------------------------
(* What is put to the code is of its kind.  This is all the specification  *)
(* contributes; the theorems below hold of each input by itself.           *)
Asked ==
  /\ kind = "path" => input \in Path
  /\ kind = "request" => input \in Request
  /\ kind = "allow" => input.allow \in AllowList
  /\ kind = "sync" => input.allow \in AllowList /\ input.write \in BOOLEAN
  /\ kind = "mounts" => input.mounts \in Mounts
  /\ kind = "limit" => input \in Limit
  /\ kind = "name" => input \in ExecName
  /\ kind = "hex" => input \in HexText
  /\ kind = "bytes" => input \in Bytes
  /\ kind = "reply" => input \in Reply
(* In every reachable state the input is one the environment gives.        *)
THEOREM AskedInvariance == Spec => []Asked
PROOF
  <1>1. Init => Asked
    BY DEF Init, Asked
  <1>2. Asked /\ [Next]_vars => Asked'
    <2> SUFFICES ASSUME Asked, [Next]_vars PROVE Asked'
      OBVIOUS
    <2> USE DEF Given
    <2>1. CASE GivePath \/ GiveLimit \/ GiveRequest
      BY <2>1 DEF GivePath, GiveLimit, GiveRequest, Asked
    <2>6. CASE GiveMounts
      <3>1. kind' = "mounts" /\ input'.mounts \in Mounts
        BY <2>6 DEF GiveMounts
      <3> QED BY <3>1 DEF Asked
    <2>2. CASE GiveAllow
      <3>1. kind' = "allow" /\ input'.allow \in AllowList
        BY <2>2 DEF GiveAllow
      <3> QED BY <3>1 DEF Asked
    <2>3. CASE GiveSync
      <3>1. kind' = "sync" /\ input'.allow \in AllowList /\ input'.write \in BOOLEAN
        BY <2>3 DEF GiveSync
      <3> QED BY <3>1 DEF Asked
    <2>4. CASE GiveName \/ GiveHex \/ GiveBytes \/ GiveArgs \/ GiveReply \/ GiveConfig \/ GiveSetup
      BY <2>4 DEF GiveName, GiveHex, GiveBytes, GiveArgs, GiveReply, GiveConfig, GiveSetup, Asked
    <2>5. CASE Forget \/ UNCHANGED vars
      BY <2>5 DEF Forget, vars, Asked
    <2> QED BY <2>1, <2>2, <2>3, <2>4, <2>5, <2>6 DEF Next
  <1> QED BY <1>1, <1>2, PTL DEF Spec

(* PathsJudgedAsUsed, for every path and every sandbox request, of any     *)
(* length and any names: however a path is spelled the denylist judges the *)
(* place the sandbox is handed, and nothing protected passes both gates    *)
(* (pathnorm.rs, denylist.rs, plan.rs, handler.rs).                        *)
THEOREM PathsJudged == Spec => []PathsJudgedAsUsed
PROOF
  <1>1. ASSUME Asked PROVE PathsJudgedAsUsed
    <2>1. SpellingInvariant
      <3> SUFFICES ASSUME kind = "path", NEW i \in 0 .. Len(input.parts), NEW d \in Detour,
                          NEW access \in PathAccess
                   PROVE  check_path(With(input, i, d), access) = check_path(input, access)
        BY DEF SpellingInvariant
      <3> QED BY <1>1, InputsAssumption, SpellingKept DEF Asked
    <2>2. DenyCovers
      <3> SUFFICES ASSUME kind = "path", ~BadPath(input)
                   PROVE  /\ check_path(input, "Write") # NoMatch
                               <=> Protected({"Any", "Modify"}, normalize_absolute(input))
                          /\ check_path(input, "Read") # NoMatch
                               <=> Protected({"Any"}, normalize_absolute(input))
        BY DEF DenyCovers
      <3> QED BY <1>1, InputsAssumption, Covered DEF Asked
    <2>3. CagedAsJudged
      BY <1>1, InputsAssumption, CagedPath DEF Asked, CagedAsJudged
    <2>4. PlannedIsUnprotected
      <3> SUFFICES ASSUME kind = "request", ~denied(<<input.payload>>, intents(input)),
                          plan(input).error = "none"
                   PROVE  /\ \A p \in Range(input.paths_rw) :
                                 ~Protected({"Any", "Modify"}, Written(p.parts))
                          /\ \A p \in Range(input.paths_ro) : ~Protected({"Any"}, Written(p.parts))
                          /\ CommandHits[input.payload] = {}
        BY DEF PlannedIsUnprotected
      <3>1. /\ input.paths_ro \in Seq(PathText) /\ input.paths_rw \in Seq(PathText)
            /\ input.payload \in DOMAIN CommandHits
        BY <1>1, InputsAssumption DEF Asked
      <3> QED BY <3>1, PlannedUnprotected
    <2> QED BY <2>1, <2>2, <2>3, <2>4 DEF PathsJudgedAsUsed
  <1> QED BY <1>1, AskedInvariance, PTL

(* CageExact, for every limit, request and mount table: limits are exact   *)
(* or refused, a plan is a cage, and a recovery point is on the file       *)
(* system of its path (cgroup.rs, plan.rs, seccomp.rs, snapshot lib.rs).   *)
THEOREM CageHolds == Spec => []CageExact
PROOF
  <1>1. ASSUME Asked PROVE CageExact
    <2>1. LimitsExact
      <3> SUFFICES ASSUME kind = "limit"
                   PROVE  /\ parse_memory(input) =
                               IF Meaning(input) \in 1 .. MAX_MEMORY_BYTES THEN Meaning(input) ELSE Refused
                          /\ parse_cpu(input) # Refused =>
                               /\ cpu_quota(parse_cpu(input)) * 100 = parse_cpu(input) * CPU_PERIOD_US
                               /\ cpu_quota(parse_cpu(input)) \in 1 .. CPU_PERIOD_US
        BY DEF LimitsExact
      <3>1. input \in Seq(STRING)
        BY <1>1, InputsAssumption DEF Asked
      <3>2. parse_memory(input) =
              IF Meaning(input) \in 1 .. MAX_MEMORY_BYTES THEN Meaning(input) ELSE Refused
        BY <3>1, MemoryExact
      <3>3. parse_cpu(input) # Refused =>
              /\ cpu_quota(parse_cpu(input)) * 100 = parse_cpu(input) * CPU_PERIOD_US
              /\ cpu_quota(parse_cpu(input)) \in 1 .. CPU_PERIOD_US
        BY CpuExact
      <3> QED BY ONLY <3>2, <3>3
    <2>2. PlanIsCage
      <3> SUFFICES ASSUME kind = "request", NEW made, made = plan(input), made.error = "none"
                   PROVE  /\ Len(made.cpu_max) = Len(input.cpu_max)
                          /\ Len(made.memory_max) = Len(input.memory_max)
                          /\ \A i \in DOMAIN made.memory_max : made.memory_max[i] \in 1 .. MAX_MEMORY_BYTES
                          /\ made.capabilities \subseteq KnownCap
                          /\ \A arch \in DOMAIN arch_extra_allow :
                               /\ \A f \in NetworkFamilies : ~permits(arch, [number |-> "socket", arg0 |-> f])
                               /\ \A n \in Escapes : ~permits(arch, [number |-> n, arg0 |-> "any"])
        BY DEF PlanIsCage
      <3>1. input \in Request
        BY <1>1 DEF Asked
      <3>2. input.cpu_max \in Seq(Seq(STRING)) /\ input.memory_max \in Seq(Seq(STRING))
            /\ Len(input.memory_max) <= 1
        BY <3>1, InputsAssumption
      <3>3. /\ DOMAIN input.cpu_max = 1 .. Len(input.cpu_max) /\ Len(input.cpu_max) \in Nat
            /\ DOMAIN input.memory_max = 1 .. Len(input.memory_max) /\ Len(input.memory_max) \in Nat
        BY <3>2, LenProperties
      <3>4. /\ Len(made.cpu_max) = Len(input.cpu_max) /\ Len(made.memory_max) = Len(input.memory_max)
            /\ \A i \in DOMAIN made.memory_max : made.memory_max[i] \in 1 .. MAX_MEMORY_BYTES
            /\ made.capabilities \subseteq KnownCap
        BY <3>2, <3>3, PlanHolds
      <3> QED BY <3>4, FilterCloses
    <2>3. LongestMount
      <3> SUFFICES ASSUME kind = "mounts" PROVE ByDeepest(input.mounts, input.path.parts)
        BY DEF LongestMount
      <3>1. input.mounts \in Seq([at : Seq(Name), fstype : STRING])
        BY <1>1, InputsAssumption DEF Asked
      <3> QED BY <3>1, DeepestMount
    <2> QED BY <2>1, <2>2, <2>3 DEF CageExact
  <1> QED BY <1>1, AskedInvariance, PTL

(* EgressHonest, for every allowlist and every resolver: the decision, the *)
(* resolution and the installed filter agree (archangel-egress,            *)
(* archangelctl main.rs).                                                  *)
THEOREM EgressAgrees == Spec => []EgressHonest
PROOF
  <1>1. ASSUME Asked PROVE EgressHonest
    <2>1. EgressExact
      <3> SUFFICES ASSUME kind = "allow", NEW policy, policy = new(input.default_policy, input.allow),
                          policy.ok, NEW host \in HostName, NEW port \in Port \ {0}
                   PROVE  /\ is_allowed(policy, host, port) <=>
                               \/ policy.allow_all
                               \/ \E i \in DOMAIN input.allow :
                                    /\ lower[input.allow[i][1]] = lower[host]
                                    /\ Len(input.allow[i]) = 1 \/ port_of[input.allow[i][2]] = port
                          /\ ~policy.allow_all /\ is_allowed(policy, host, port)
                               => lower[host] \in hosts(policy)
        BY DEF EgressExact
      <3>0. PICK d : d = input.default_policy
        OBVIOUS
      <3>1. PICK allow \in Seq(Seq(DOMAIN lower)) : allow = input.allow
        BY <1>1, InputsAssumption DEF Asked
      <3>2. policy = new(d, allow) /\ port \in Port
        BY <3>0, <3>1
      <3>3. /\ is_allowed(policy, host, port) <=>
                 \/ policy.allow_all
                 \/ \E i \in DOMAIN allow :
                      /\ lower[allow[i][1]] = lower[host]
                      /\ Len(allow[i]) = 1 \/ port_of[allow[i][2]] = port
            /\ ~policy.allow_all /\ is_allowed(policy, host, port) => lower[host] \in hosts(policy)
        BY <3>2, PolicyExact
      <3> QED BY <3>1, <3>3
    <2>2. SyncHonest
      <3> SUFFICES ASSUME kind = "sync", NEW policy, policy = new(input.default_policy, input.allow),
                          NEW done,
                          done = egress_sync(policy, input.resolve, input.write, input.fails)
                   PROVE  Honest(policy, input.allow, input.resolve, input.write, done)
        BY DEF SyncHonest
      <3>1. PICK write \in BOOLEAN, allow \in Seq(Seq(DOMAIN lower)) :
              write = input.write /\ allow = input.allow
        BY <1>1, InputsAssumption DEF Asked
      <3>2. PICK d, resolver, fails :
              d = input.default_policy /\ resolver = input.resolve /\ fails = input.fails
        OBVIOUS
      <3>3. policy = new(d, allow) /\ done = egress_sync(policy, resolver, write, fails)
        BY <3>1, <3>2
      <3>4. Honest(policy, allow, resolver, write, done)
        BY <3>3, SyncIsHonest
      <3> QED BY <3>1, <3>2, <3>4
    <2> QED BY <2>1, <2>2 DEF EgressHonest
  <1> QED BY <1>1, AskedInvariance, PTL

(* FormatsExact, for names, hex texts, arguments and replies of any        *)
(* length: each means one thing or is refused (handler.rs, response.rs,    *)
(* hex.rs, args.rs).                                                       *)
THEOREM FormatsHold == Spec => []FormatsExact
PROOF
  <1>1. ASSUME Asked PROVE FormatsExact
    <2>1. NamesStayInside
      <3>1. safe_exec_name(input) = response_safe_exec_name(input)
        BY DEF safe_exec_name, response_safe_exec_name
      <3>2. ASSUME kind = "name", safe_exec_name(input) PROVE in_bundle_dir(input)
        <4>1. input \in Seq(STRING)
          BY <1>1, <3>2, InputsAssumption DEF Asked
        <4> QED BY <3>2, <4>1, NameInside
      <3> QED BY <3>1, <3>2 DEF NamesStayInside
    <2>2. HexFaithful
      <3>1. ASSUME kind = "bytes", NEW text \in {encode(input), Append(encode(input), "\n")}
            PROVE  decodable(text) /\ decode(text) = input
        <4>1. input \in Seq(0 .. 255)
          BY <1>1, <3>1, InputsAssumption DEF Asked
        <4>2. trimmed(text) = encode(input)
          BY <3>1, <4>1, BytesSurvive, InkedText
        <4>3. decodable(text) <=> Digits(encode(input))
          BY <4>2 DEF decodable, Digits
        <4>4. decode(text) = Pairs(encode(input))
          BY <4>2 DEF decode, Pairs
        <4> QED BY <4>1, <4>3, <4>4, BytesSurvive
      <3>2. ASSUME kind = "hex", decodable(input), NEW s, s = trimmed(input)
            PROVE  /\ \A i \in DOMAIN decode(input) : decode(input)[i] \in 0 .. 255
                   /\ encode(decode(input)) = [i \in DOMAIN s |-> lowercase(s[i])]
        <4>1. input \in Seq(STRING)
          BY <1>1, <3>2, InputsAssumption DEF Asked
        <4>2. s \in Seq(STRING)
          BY <3>2, <4>1, TrimmedWindow DEF Window
        <4>3. Digits(s) /\ decode(input) = Pairs(s)
          BY <3>2 DEF decodable, decode, Digits, Pairs
        <4> QED BY <4>2, <4>3, TextSurvives
      <3> QED BY <3>1, <3>2 DEF HexFaithful
    <2>3. ArgsExact
      BY ArgumentsMatch DEF ArgsExact
    <2>4. OneActionOrNothing
      <3> SUFFICES ASSUME kind = "reply", NEW outcome, outcome = parse_model_response(input),
                          outcome \in {"Invoke", "Ask", "Refuse"}
                   PROVE  /\ ~input.canary /\ ~input.too_large
                          /\ Alone(AfterFenceLine(input.text), Head(trimmed(input.text)) = Fence)
                          /\ outcome = "Invoke" => safe_exec_name(input.object.action)
        BY DEF OneActionOrNothing, Alone, Ink
      <3>1. /\ input.text \in Seq(STRING) /\ input.canary \in BOOLEAN
            /\ input.too_large \in BOOLEAN
        BY <1>1, InputsAssumption DEF Asked
      <3> QED BY <3>1, ReplyHolds
    <2> QED BY <2>1, <2>2, <2>3, <2>4 DEF FormatsExact
  <1> QED BY <1>1, AskedInvariance, PTL

(* ConfigSafe, for every configuration text and every answer to setup:     *)
(* nothing is on that was not switched on (config lib.rs, setup.rs).       *)
THEOREM NothingUnasked == Spec => []ConfigSafe
PROOF
  <1>1. OptInOnly
    BY OptedIn DEF OptInOnly
  <1>2. SetupLoads
    <2> SUFFICES ASSUME NEW op, op = operator_uid(input.given_operator, input.detected_operator),
                        op # NoUid, NEW opts, NEW rendered,
                        opts = [etc |-> input.etc, backend |-> input.backend, operator_uid |-> op,
                                daemon_uid |-> daemon_uid(input.given_daemon, input.detected_daemon, op)],
                        rendered = render_config(opts)
                 PROVE  /\ loads(rendered) <=> input.etc = "absolute" /\ input.backend \in {"anthropic", "ollama"}
                        /\ filled(rendered).modes.default = "ReadOnly"
                        /\ NoUid \notin {rendered.sockets.operator_uid, rendered.sockets.daemon_uid}
      BY DEF SetupLoads
    <2>1. opts.etc = input.etc /\ opts.backend = input.backend /\ opts.operator_uid # NoUid
          /\ opts.daemon_uid # NoUid
      BY DEF daemon_uid
    <2>2. rendered.sockets.operator_uid # NoUid /\ rendered.sockets.daemon_uid # NoUid
      BY <2>1 DEF render_config
    <2> QED BY <2>1, <2>2, RenderedLoads
  <1>3. ConfigSafe
    BY <1>1, <1>2 DEF ConfigSafe
  <1> QED BY <1>3, PTL
=============================================================================
