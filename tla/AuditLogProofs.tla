---------------------------- MODULE AuditLogProofs ----------------------------
(***************************************************************************)
(* The audit log for any number of runs, entries and faults: what was      *)
(* acknowledged is kept, a log without a failed append verifies, and what  *)
(* verifies is true, of a damaged log too.                                 *)
(***************************************************************************)
EXTENDS AuditLog, SequenceTheorems, FiniteSetTheorems, TLAPS

-----------------------------------------------------------------------------
(* Files as sequences.                                                     *)

(* A sequence is given by its length and its items. *)
LEMMA FileFacts ==
  ASSUME NEW f, IsSequence(f)
  PROVE  /\ Len(f) \in Nat /\ DOMAIN f = 1 .. Len(f)
         /\ (f = <<>>) <=> (Len(f) = 0)
         /\ \A i \in 1 .. Len(f) : f[i] \in Range(f)
PROOF
  <1>1. f \in Seq(Range(f))
    BY DEF IsSequence
  <1>2. Len(f) \in Nat /\ DOMAIN f = 1 .. Len(f)
    BY <1>1, LenProperties
  <1>3. (f = <<>>) <=> (Len(f) = 0)
    BY <1>1, EmptySeq
  <1> QED BY <1>2, <1>3 DEF Range

(* The empty file. *)
LEMMA EmptyFile == IsSequence(<<>>) /\ Len(<<>>) = 0 /\ DOMAIN <<>> = {} /\ Range(<<>>) = {}
PROOF
  <1>1. DOMAIN <<>> = {} /\ Len(<<>>) = 0
    OBVIOUS
  <1>2. Range(<<>>) = {}
    BY <1>1 DEF Range
  <1>3. <<>> \in Seq({})
    OBVIOUS
  <1> QED BY <1>1, <1>2, <1>3 DEF IsSequence

(* A sequence over any set is one over its items. *)
LEMMA AnySequence ==
  ASSUME NEW S, NEW f \in Seq(S)
  PROVE  IsSequence(f)
PROOF
  BY SeqOfRange DEF IsSequence

(* One item more. *)
LEMMA Longer ==
  ASSUME NEW f, IsSequence(f), NEW x
  PROVE  /\ IsSequence(Append(f, x)) /\ Append(f, x) # <<>>
         /\ Len(Append(f, x)) = Len(f) + 1 /\ DOMAIN Append(f, x) = 1 .. Len(f) + 1
         /\ \A i \in 1 .. Len(f) : Append(f, x)[i] = f[i]
         /\ Append(f, x)[Len(f) + 1] = x
         /\ Range(Append(f, x)) = Range(f) \union {x}
PROOF
  <1> DEFINE S == Range(f) \union {x}
  <1>1. f \in Seq(S) /\ x \in S
    BY SeqMonotonic DEF IsSequence
  <1>2. /\ Append(f, x) \in Seq(S) /\ Append(f, x) # <<>>
        /\ Len(Append(f, x)) = Len(f) + 1
        /\ \A i \in 1 .. Len(f) : Append(f, x)[i] = f[i]
        /\ Append(f, x)[Len(f) + 1] = x
    BY <1>1, AppendProperties
  <1>3. IsSequence(Append(f, x))
    BY <1>2, AnySequence
  <1>4. Len(f) \in Nat /\ DOMAIN f = 1 .. Len(f) /\ DOMAIN Append(f, x) = 1 .. Len(f) + 1
    BY <1>2, <1>3, FileFacts
  <1>5. Range(Append(f, x)) = Range(f) \union {x}
    <2> DEFINE g == Append(f, x)
    <2>1. \A i \in 1 .. Len(f) + 1 : i \in 1 .. Len(f) \/ i = Len(f) + 1
      BY <1>4
    <2>2. 1 .. Len(f) \subseteq 1 .. Len(f) + 1 /\ Len(f) + 1 \in 1 .. Len(f) + 1
      BY <1>4
    <2>3. ASSUME NEW y \in Range(g) PROVE y \in Range(f) \union {x}
      BY <1>2, <1>4, <2>1, <2>3 DEF Range
    <2>4. ASSUME NEW y \in Range(f) \union {x} PROVE y \in Range(g)
      BY <1>2, <1>4, <2>2, <2>4 DEF Range
    <2> QED BY <2>3, <2>4
  <1> QED BY <1>2, <1>3, <1>4, <1>5

(* The first items, and the items from some place on. *)
LEMMA Part ==
  ASSUME NEW f, IsSequence(f), NEW m \in Nat \ {0}, NEW n \in 0 .. Len(f)
  PROVE  /\ SubSeq(f, m, n) \in Seq(Range(f))
         /\ m = 1 => /\ Len(SubSeq(f, m, n)) = n
                     /\ \A i \in 1 .. n : SubSeq(f, m, n)[i] = f[i]
PROOF
  <1>1. Len(f) \in Nat /\ \A i \in 1 .. Len(f) : f[i] \in Range(f)
    BY FileFacts
  <1>2. m \in Int /\ n \in Int /\ \A i \in m .. n : f[i] \in Range(f)
    BY <1>1
  <1>3. /\ SubSeq(f, m, n) \in Seq(Range(f))
        /\ Len(SubSeq(f, m, n)) = IF m <= n THEN n - m + 1 ELSE 0
        /\ \A i \in 1 .. n - m + 1 : SubSeq(f, m, n)[i] = f[m + i - 1]
    BY <1>2, SubSeqProperties
  <1>4. m = 1 => n - m + 1 = n /\ \A i \in 1 .. n : m + i - 1 = i
    BY <1>1
  <1>5. m = 1 => Len(SubSeq(f, m, n)) = n
    BY <1>1, <1>3
  <1>6. m = 1 => \A i \in 1 .. n : SubSeq(f, m, n)[i] = f[i]
    BY <1>3, <1>4
  <1> QED BY <1>3, <1>5, <1>6

(* What a power failure leaves of a file: the synced items are untouched,  *)
(* and of the others some are there, with the entries they had.            *)
LEMMA Surviving ==
  ASSUME NEW f, IsSequence(f), \A i \in DOMAIN f : IsItem(f[i]),
         NEW s \in 0 .. Len(f), NEW g \in Survivors(f, s)
  PROVE  /\ IsSequence(g) /\ Len(g) \in s .. Len(f)
         /\ \A i \in DOMAIN g : IsItem(g[i]) /\ g[i].entry = f[i].entry
         /\ \A i \in 1 .. s : g[i] = f[i]
PROOF
  <1>1. Len(f) \in Nat /\ DOMAIN f = 1 .. Len(f)
    BY FileFacts
  <1>2. ASSUME NEW n \in s .. Len(f)
        PROVE  LET c == SubSeq(f, 1, n) IN
               /\ IsSequence(c) /\ Len(c) = n /\ DOMAIN c = 1 .. n
               /\ \A i \in 1 .. n : c[i] = f[i] /\ IsItem(c[i])
    <2> DEFINE c == SubSeq(f, 1, n)
    <2>1. n \in 0 .. Len(f) /\ 1 \in Nat \ {0}
      BY <1>1
    <2>2. c \in Seq(Range(f)) /\ Len(c) = n /\ \A i \in 1 .. n : c[i] = f[i]
      BY <2>1, Part
    <2>3. IsSequence(c)
      BY <2>2, AnySequence
    <2>4. DOMAIN c = 1 .. n
      BY <2>2, <2>3, FileFacts
    <2>5. \A i \in 1 .. n : i \in DOMAIN f
      BY <1>1, <2>1
    <2> HIDE DEF c
    <2>6. \A i \in 1 .. n : IsItem(c[i])
      BY <2>2, <2>5
    <2> QED BY <2>2, <2>3, <2>4, <2>6 DEF c
  <1>3. PICK n \in s .. Len(f) :
          \/ g = SubSeq(f, 1, n)
          \/ /\ Len(SubSeq(f, 1, n)) > s
             /\ g = [SubSeq(f, 1, n) EXCEPT ![Len(SubSeq(f, 1, n))].form = "part"]
    BY DEF Survivors
  <1> DEFINE c == SubSeq(f, 1, n)
  <1>4. /\ IsSequence(c) /\ Len(c) = n /\ DOMAIN c = 1 .. n
        /\ \A i \in 1 .. n : c[i] = f[i] /\ IsItem(c[i])
    BY <1>2
  <1> HIDE DEF c
  <1>5. n \in Nat /\ 1 .. s \subseteq 1 .. n
    BY <1>1
  <1>6. CASE g = c
    BY <1>4, <1>5, <1>6
  <1>7. CASE n > s /\ g = [c EXCEPT ![n].form = "part"]
    <2>1. n \in 1 .. n /\ \A i \in 1 .. s : i # n
      BY <1>1, <1>7
    <2>2. /\ DOMAIN g = 1 .. n /\ g[n] = [c[n] EXCEPT !.form = "part"]
          /\ \A i \in 1 .. n : i # n => g[i] = c[i]
      BY <1>4, <1>7, <2>1
    <2>3. g[n] = [entry |-> c[n].entry, form |-> "part"]
      <3>1. c[n] = [entry |-> c[n].entry, form |-> c[n].form]
        BY <1>4, <2>1 DEF IsItem
      <3> QED BY <2>2, <3>1
    <2>4. IsItem(g[n]) /\ g[n].entry = c[n].entry
      BY <2>3 DEF IsItem
    <2>5. \A i \in 1 .. n : IsItem(g[i]) /\ g[i].entry = f[i].entry
      BY <1>4, <2>2, <2>4, ZenonT(60)
    <2>6. IsSequence(g) /\ Len(g) = n
      <3>1. c \in Seq(Range(c) \union {g[n]})
        BY <1>4, SeqMonotonic DEF IsSequence
      <3>2. g = [c EXCEPT ![n] = g[n]]
        BY <1>7, <2>2
      <3>3. g \in Seq(Range(c) \union {g[n]}) /\ Len(g) = n
        BY <1>4, <2>1, <3>1, <3>2, ExceptSeq
      <3> QED BY <3>3, AnySequence
    <2>7. \A i \in 1 .. s : g[i] = f[i]
      BY <1>4, <1>5, <2>1, <2>2
    <2> QED BY <1>5, <2>2, <2>5, <2>6, <2>7
  <1> QED BY <1>3, <1>4, <1>6, <1>7 DEF c

(* What damage leaves of a file: items it had, or items of the files it is *)
(* mixed with.                                                             *)
LEMMA Mixed ==
  ASSUME NEW f, IsSequence(f), NEW S, Range(f) \subseteq S, NEW i \in DOMAIN f
  PROVE  /\ RemoveAt(f, i) \in Seq(S)
         /\ InsertAt(f, i, f[i]) \in Seq(S)
         /\ \A x \in S : [f EXCEPT ![i] = x] \in Seq(S)
         /\ \A j \in DOMAIN f : [f EXCEPT ![i] = f[j], ![j] = f[i]] \in Seq(S)
PROOF
  <1>1. Len(f) \in Nat /\ i \in 1 .. Len(f) /\ f[i] \in S /\ DOMAIN f = 1 .. Len(f)
    BY FileFacts
  <1>2. f \in Seq(S)
    BY SeqMonotonic DEF IsSequence
  <1>3. /\ 1 \in Nat \ {0} /\ i \in Nat \ {0} /\ i + 1 \in Nat \ {0}
        /\ i - 1 \in 0 .. Len(f) /\ Len(f) \in 0 .. Len(f)
    BY <1>1
  <1>4. /\ SubSeq(f, 1, i - 1) \in Seq(S) /\ SubSeq(f, i, Len(f)) \in Seq(S)
        /\ SubSeq(f, i + 1, Len(f)) \in Seq(S)
    BY <1>3, Part, SeqMonotonic
  <1>5. RemoveAt(f, i) \in Seq(S)
    BY <1>4, ConcatProperties DEF RemoveAt
  <1>6. InsertAt(f, i, f[i]) \in Seq(S)
    <2>1. <<f[i]>> \in Seq(S)
      BY <1>1
    <2> QED BY <1>4, <2>1, ConcatProperties DEF InsertAt
  <1>7. \A x \in S : [f EXCEPT ![i] = x] \in Seq(S) /\ Len([f EXCEPT ![i] = x]) = Len(f)
    BY <1>1, <1>2, ExceptSeq
  <1>8. ASSUME NEW j \in DOMAIN f PROVE [f EXCEPT ![i] = f[j], ![j] = f[i]] \in Seq(S)
    <2> DEFINE h == [f EXCEPT ![i] = f[j]]
    <2>1. f[j] \in S /\ j \in 1 .. Len(f)
      BY <1>1, FileFacts
    <2>2. h \in Seq(S) /\ Len(h) = Len(f)
      BY <1>7, <2>1
    <2> HIDE DEF h
    <2>3. [h EXCEPT ![j] = f[i]] \in Seq(S)
      BY <1>1, <2>1, <2>2, ExceptSeq
    <2> QED BY <2>3 DEF h
  <1> QED BY <1>5, <1>6, <1>7, <1>8

(* One item for another. *)
LEMMA Replaced ==
  ASSUME NEW f, IsSequence(f), NEW i \in DOMAIN f, NEW x
  PROVE  LET g == [f EXCEPT ![i] = x] IN
         /\ IsSequence(g) /\ x \in Range(g) /\ Range(g) \subseteq Range(f) \union {x}
         /\ \A y \in Range(f) : y \in Range(g) \/ y = f[i]
PROOF
  <1> DEFINE g == [f EXCEPT ![i] = x]
  <1>1. DOMAIN g = DOMAIN f /\ g[i] = x /\ \A j \in DOMAIN f : j # i => g[j] = f[j]
    OBVIOUS
  <1>2. IsSequence(g)
    <2>1. f \in Seq(Range(f) \union {x}) /\ i \in 1 .. Len(f)
      BY FileFacts, SeqMonotonic DEF IsSequence
    <2>2. g \in Seq(Range(f) \union {x})
      BY <2>1, ExceptSeq
    <2> QED BY <2>2, AnySequence
  <1> HIDE DEF g
  <1>3. x \in Range(g) /\ Range(g) \subseteq Range(f) \union {x}
    BY <1>1 DEF Range
  <1>4. \A y \in Range(f) : y \in Range(g) \/ y = f[i]
    BY <1>1 DEF Range
  <1> QED BY <1>2, <1>3, <1>4 DEF g

-----------------------------------------------------------------------------
(* The steps.                                                              *)

(* A step that leaves the directory alone leaves the files in it. *)
LEMMA SameFiles ==
  ASSUME UNCHANGED <<archive, earlier>>
  PROVE  OldFiles' = OldFiles /\ (log_file' = log_file => Files' = Files)
PROOF
  BY DEF OldFiles, Files, NamedIn

(* A log that is not empty is one run's. *)
LEMMA RunKnown ==
  ASSUME TypeOK, EntriesSound, NEW f \in Files, f # <<>>
  PROVE  1 \in DOMAIN f /\ RunOf(f) \in Keys
PROOF
  <1>1. IsSequence(f)
    BY DEF TypeOK
  <1>2. 1 \in DOMAIN f
    BY <1>1, FileFacts
  <1> QED BY <1>2 DEF EntriesSound, WellSealed, RunOf

(* A key is not one of the marks for a missing and a torn key file. *)
LEMMA Marks == Torn \notin Keys /\ NoFile \notin Keys /\ Torn # NoFile /\ Keys \subseteq Nat
PROOF
  BY RunsAssumption DEF Torn, NoFile, Keys

(* Reading or making the audit key touches no log. *)
LEMMA KeySteps ==
  ASSUME IInv, LoadKey \/ CreateKeyFile \/ WriteKey
  PROVE  IInv'
PROOF
  <1>1. /\ UNCHANGED <<exists, log_file, synced, archive, earlier, next_seq, prev_hash, writing,
                       boot, faults, acked, unsure, pinned, power_lost, lost, damaged>>
        /\ phase \in {"down", "keying"} /\ phase' \in {"keying", "keyed"}
    BY DEF LoadKey, CreateKeyFile, WriteKey, disk, head, history
  <1>2. TypeOK /\ EntriesSound /\ HeadSound /\ FilesPlaced /\ OneLogPerRun
        /\ AckedAreSynced /\ HealthyChained /\ KeyPinned
    BY DEF IInv
  <1>3. /\ key_file' \in Keys \union {NoFile, Torn} /\ key_synced' \in BOOLEAN
        /\ keypair' \in Keys
    BY <1>2 DEF TypeOK, LoadKey, CreateKeyFile, WriteKey, disk
  <1>0. Files' = Files /\ OldFiles' = OldFiles
    BY <1>1, SameFiles
  <1>4. TypeOK'
    BY <1>0, <1>1, <1>2, <1>3 DEF TypeOK
  <1>5. EntriesSound' /\ OneLogPerRun' /\ AckedAreSynced'
    <2>1. EntriesSound'
      BY <1>0, <1>1, <1>2 DEF EntriesSound, WellSealed
    <2>2. OneLogPerRun'
      BY <1>0, <1>1, <1>2 DEF OneLogPerRun, RunOf
    <2>3. AckedAreSynced'
      BY <1>0, <1>1, <1>2 DEF AckedAreSynced, RunOf, HoldsAll
    <2> QED BY <2>1, <2>2, <2>3
  <1>6. HeadSound' /\ FilesPlaced'
    BY <1>0, <1>1, <1>2 DEF HeadSound, FilesPlaced
  <1>7. HealthyChained'
    BY <1>0, <1>1, <1>2 DEF HealthyChained, Unharmed, RunOf, Chained, verify_entry
  <1>8. KeyPinned'
    BY <1>1, <1>2, Marks DEF KeyPinned, TypeOK, LoadKey, CreateKeyFile, WriteKey, disk
  <1> QED BY <1>4, <1>5, <1>6, <1>7, <1>8 DEF IInv

(* Opening the log starts a run's chain. *)
LEMMA OpenStep ==
  ASSUME IInv, open
  PROVE  IInv'
PROOF
  <1>1. /\ UNCHANGED <<key_file, key_synced, log_file, synced, archive, keypair, writing, boot,
                       faults, acked, unsure, power_lost, lost, damaged>>
        /\ earlier' = earlier \union {Here}
        /\ phase = "rotated" /\ phase' = "up" /\ exists' = TRUE
        /\ next_seq' = 0 /\ prev_hash' = GENESIS_PREV_HASH
        /\ pinned' = IF pinned = Torn THEN keypair ELSE pinned
    BY DEF open
  <1>2. TypeOK /\ EntriesSound /\ HeadSound /\ FilesPlaced /\ OneLogPerRun
        /\ AckedAreSynced /\ HealthyChained /\ KeyPinned
    BY DEF IInv
  <1>3. log_file = <<>> /\ writing = "idle" /\ acked[boot] = <<>> /\ keypair \in Keys
    BY <1>1, <1>2 DEF FilesPlaced, HeadSound, TypeOK
  <1>0. /\ Here.archive = archive /\ Here.log_file = <<>> /\ Here.exists = exists
        /\ Files' = Files /\ OldFiles' = OldFiles \union {<<>>} /\ IsDirectory(Here)
    <2>1. Here.archive = archive /\ Here.log_file = <<>> /\ Here.exists = exists
      BY <1>3 DEF Here
    <2>2. NamedIn(Here) = Range(archive) \union {<<>>} /\ \A dir : NamedIn(dir)' = NamedIn(dir)
      BY <2>1 DEF NamedIn
    <2>3. (UNION {NamedIn(dir) : dir \in earlier'})
            = NamedIn(Here) \union (UNION {NamedIn(dir) : dir \in earlier})
      BY <1>1
    <2>4. OldFiles' = OldFiles \union {<<>>}
      BY <1>1, <2>2, <2>3 DEF OldFiles
    <2>5. IsDirectory(Here)
      BY <1>2, <2>1, Zenon DEF TypeOK, IsDirectory
    <2> QED BY <1>1, <1>3, <2>1, <2>4, <2>5 DEF Files
  <1>4. TypeOK'
    BY <1>0, <1>1, <1>2 DEF TypeOK
  <1>5. EntriesSound' /\ AckedAreSynced'
    <2>1. EntriesSound'
      BY <1>0, <1>1, <1>2 DEF EntriesSound, WellSealed
    <2>2. AckedAreSynced'
      BY <1>0, <1>1, <1>2 DEF AckedAreSynced, RunOf, HoldsAll
    <2> QED BY <2>1, <2>2
  <1>10. OneLogPerRun'
    <2>1. \A dir \in earlier' : dir \in earlier \/ dir.log_file = <<>>
      BY <1>0, <1>1
    <2> QED BY <1>0, <1>1, <1>2, <1>3, <2>1 DEF OneLogPerRun, OtherRuns, RunOf
  <1>6. HeadSound'
    BY <1>1, <1>2, <1>3, EmptyFile DEF HeadSound
  <1>7. FilesPlaced'
    BY <1>0, <1>1, <1>2, <1>3, EmptyFile DEF FilesPlaced
  <1>8. KeyPinned'
    BY <1>1, <1>2 DEF KeyPinned
  <1>9. HealthyChained'
    <2>1. ASSUME NEW f \in Files, Unharmed(f), ~damaged
          PROVE  Chained(f) /\ (~power_lost => f[1].entry.signer = pinned')
      <3>1. Chained(f) /\ (~power_lost => f[1].entry.signer = pinned)
        BY <1>2, <2>1 DEF HealthyChained
      <3>2. f[1].entry.signer # Torn
        <4>1. IsSequence(f) /\ f # <<>>
          BY <1>2, <2>1 DEF TypeOK, Unharmed
        <4>2. 1 \in DOMAIN f
          BY <4>1, FileFacts
        <4> QED BY <1>2, <4>2, Marks DEF EntriesSound, WellSealed
      <3> QED BY <1>1, <3>1, <3>2
    <2>2. ASSUME NEW f \in Files', Unharmed(f)', ~damaged'
          PROVE  Chained(f)' /\ (~power_lost' => f[1].entry.signer = pinned')
      <3>1. f \in Files /\ Unharmed(f)
        BY <1>0, <1>1, <2>2 DEF Unharmed, RunOf
      <3>2. Chained(f)' <=> Chained(f)
        BY DEF Chained, verify_entry
      <3> QED BY <1>1, <2>1, <2>2, <3>1, <3>2
    <2>3. ~Unharmed(log_file)'
      BY <1>1, <1>3 DEF Unharmed
    <2>4. Len(log_file') = 0 /\ next_seq' = 0
      BY <1>1, <1>3, EmptyFile
    <2> QED BY <1>1, <1>3, <2>2, <2>3, <2>4 DEF HealthyChained
  <1> QED BY <1>4, <1>5, <1>6, <1>7, <1>8, <1>9, <1>10 DEF IInv

(* Rotation archives the log as it is, perhaps in the place of another. *)
LEMMA RotateStep ==
  ASSUME IInv, rotate_existing_log
  PROVE  IInv'
PROOF
  <1>1. /\ UNCHANGED <<key_file, key_synced, keypair, next_seq, prev_hash, writing, boot,
                       faults, acked, unsure, pinned, power_lost, damaged>>
        /\ earlier' = earlier \union {Here}
        /\ phase = "keyed" /\ phase' = "rotated" /\ exists' = FALSE
        /\ log_file' = <<>> /\ synced' = 0
        /\ \/ ~exists /\ UNCHANGED <<archive, lost>>
           \/ exists /\ archive' = Append(archive, log_file) /\ lost' = lost
           \/ exists /\ \E n \in DOMAIN archive :
                          /\ archive' = [archive EXCEPT ![n] = log_file]
                          /\ lost' = lost \union RunsOf({archive[n]})
    BY DEF rotate_existing_log, head, history
  <1>2. TypeOK /\ EntriesSound /\ HeadSound /\ FilesPlaced /\ OneLogPerRun
        /\ AckedAreSynced /\ HealthyChained /\ KeyPinned
    BY DEF IInv
  <1>3. /\ IsSequence(archive') /\ Range(archive') \subseteq Range(archive) \union {log_file}
        /\ log_file # <<>> => log_file \in Range(archive')
        /\ \A f \in Range(archive) : \/ f \in Range(archive')
                                     \/ f # <<>> => RunOf(f) \in lost'
        /\ lost \subseteq lost' /\ lost' \subseteq Keys /\ \A b \in lost' : b < boot
    <2>1. /\ IsSequence(archive) /\ (~exists => log_file = <<>>) /\ lost \subseteq Keys
          /\ \A n \in DOMAIN archive : archive[n] \in OldFiles /\ archive[n] \in Files
          /\ \A b \in lost : b < boot
      BY <1>2 DEF TypeOK, FilesPlaced, Files, OldFiles, Range
    <2>2. CASE ~exists /\ UNCHANGED <<archive, lost>>
      BY <2>1, <2>2
    <2>3. CASE exists /\ archive' = Append(archive, log_file) /\ lost' = lost
      BY <2>1, <2>3, Longer
    <2>4. ASSUME NEW n \in DOMAIN archive, archive' = [archive EXCEPT ![n] = log_file],
                 lost' = lost \union RunsOf({archive[n]})
          PROVE  /\ IsSequence(archive')
                 /\ Range(archive') \subseteq Range(archive) \union {log_file}
                 /\ log_file # <<>> => log_file \in Range(archive')
                 /\ \A f \in Range(archive) : \/ f \in Range(archive')
                                              \/ f # <<>> => RunOf(f) \in lost'
                 /\ lost \subseteq lost' /\ lost' \subseteq Keys /\ \A b \in lost' : b < boot
      <3>1. RunsOf({archive[n]}) = IF archive[n] = <<>> THEN {} ELSE {RunOf(archive[n])}
        BY DEF RunsOf
      <3>2. archive[n] # <<>> => RunOf(archive[n]) \in Keys /\ RunOf(archive[n]) < boot
        <4>1. archive[n] # <<>> => RunOf(archive[n]) \in Keys /\ 1 \in DOMAIN archive[n]
          BY <1>2, <2>1, RunKnown
        <4> QED BY <1>2, <2>1, <4>1 DEF FilesPlaced, RunOf
      <3>3. /\ IsSequence(archive') /\ log_file \in Range(archive')
            /\ Range(archive') \subseteq Range(archive) \union {log_file}
            /\ \A f \in Range(archive) : f \in Range(archive') \/ f = archive[n]
        BY <2>1, <2>4, Replaced
      <3> QED BY <2>1, <2>4, <3>1, <3>2, <3>3
    <2> QED BY <1>1, <2>2, <2>3, <2>4
  <1>4. /\ Here.archive = archive /\ Here.log_file = log_file /\ Here.exists = exists
        /\ OldFiles \subseteq OldFiles' /\ \A f \in OldFiles' : f \in OldFiles \/ f = log_file
        /\ \A f \in Files' : f = <<>> \/ f \in Files
    <2>1. Here.archive = archive /\ Here.log_file = log_file /\ Here.exists = exists
      BY DEF Here
    <2>2. OldFiles' = Range(archive') \union Range(archive) \union {log_file} \union OldFiles
      <3>1. (UNION {NamedIn(dir) : dir \in earlier'})
              = NamedIn(Here) \union (UNION {NamedIn(dir) : dir \in earlier})
        BY <1>1
      <3>2. NamedIn(Here) = Range(archive) \union {log_file}
        BY <2>1 DEF NamedIn
      <3>3. \A dir : NamedIn(dir)' = NamedIn(dir)
        BY DEF NamedIn
      <3> QED BY <3>1, <3>2, <3>3 DEF OldFiles
    <2>3. Range(archive) \subseteq OldFiles
      BY DEF OldFiles
    <2> QED BY <1>1, <1>3, <2>1, <2>2, <2>3 DEF Files
  <1>5. synced \in Nat /\ IsSequence(log_file) /\ boot \in Nat /\ writing = "idle"
    BY <1>1, <1>2, FileFacts, Marks DEF TypeOK, Files, HeadSound
  <1>6. TypeOK'
    <2>1. \A f \in Files' : IsSequence(f) /\ \A i \in DOMAIN f : IsItem(f[i])
      BY <1>2, <1>4, EmptyFile DEF TypeOK
    <2>2. synced' \in 0 .. Len(log_file')
      BY <1>1, EmptyFile
    <2>3. \A dir \in earlier' : IsDirectory(dir)
      <3>1. IsDirectory(Here)
        BY <1>2, <1>4, Zenon DEF TypeOK, IsDirectory
      <3> QED BY <1>1, <1>2, <3>1 DEF TypeOK
    <2> QED BY <1>1, <1>2, <1>3, <2>1, <2>2, <2>3 DEF TypeOK
  <1>7. EntriesSound'
    <2>1. \A f \in Files' : \A i \in DOMAIN f : WellSealed(f[i].entry)
      BY <1>2, <1>4, EmptyFile DEF EntriesSound
    <2> QED BY <1>1, <1>2, <2>1 DEF EntriesSound, WellSealed
  <1>8. HeadSound' /\ KeyPinned'
    BY <1>1, <1>2 DEF HeadSound, KeyPinned
  <1>9. FilesPlaced'
    BY <1>1, <1>2, <1>3, <1>4, EmptyFile DEF FilesPlaced
  <1>10. OneLogPerRun'
    <2> SUFFICES ASSUME ~damaged PROVE OneLogPerRun'
      BY <1>1 DEF OneLogPerRun
    <2>1. \A f, g \in OldFiles' : f # <<>> /\ g # <<>> /\ RunOf(f) = RunOf(g) => f = g
      BY <1>2, <1>4 DEF OneLogPerRun, OtherRuns
    <2>2. \A dir \in earlier' : OtherRuns(Range(dir.archive), dir.log_file)
      <3>1. OtherRuns(Range(archive), log_file)
        BY <1>2 DEF OneLogPerRun, OtherRuns, OldFiles
      <3> QED BY <1>1, <1>2, <1>4, <3>1 DEF OneLogPerRun
    <2> QED BY <1>1, <2>1, <2>2 DEF OneLogPerRun, OtherRuns, RunOf
  <1>11. AckedAreSynced'
    <2> SUFFICES ASSUME ~damaged
                 PROVE  /\ \A f \in OldFiles' : f # <<>> => HoldsAll(f, Len(f), RunOf(f))
                        /\ \A b \in Keys \ lost' : acked[b] # <<>> =>
                             \E f \in Range(archive') : f # <<>> /\ RunOf(f) = b
      BY <1>1 DEF AckedAreSynced, RunOf, HoldsAll
    <2>1. log_file # <<>> => HoldsAll(log_file, Len(log_file), RunOf(log_file))
      <3>1. 1 .. synced \subseteq 1 .. Len(log_file)
        BY <1>2, <1>5, FileFacts DEF TypeOK
      <3> QED BY <1>2, <3>1 DEF AckedAreSynced, HoldsAll
    <2>2. \A f \in OldFiles' : f # <<>> => HoldsAll(f, Len(f), RunOf(f))
      BY <1>2, <1>4, <2>1 DEF AckedAreSynced
    <2>3. \A b \in Keys \ lost' : acked[b] # <<>> =>
            \E f \in Range(archive') : f # <<>> /\ RunOf(f) = b
      BY <1>2, <1>3 DEF AckedAreSynced
    <2> QED BY <2>2, <2>3
  <1>12. HealthyChained'
    <2>1. \A f : Unharmed(f)' <=> Unharmed(f)
      BY <1>1 DEF Unharmed, RunOf
    <2>2. \A f \in Files' : Unharmed(f) => f \in Files
      BY <1>4 DEF Unharmed
    <2>3. ~Unharmed(log_file)'
      BY <1>1 DEF Unharmed
    <2>4. \A f : Chained(f)' <=> Chained(f)
      BY DEF Chained, verify_entry
    <2> QED BY <1>1, <1>2, <2>1, <2>2, <2>3, <2>4 DEF HealthyChained
  <1> QED BY <1>6, <1>7, <1>8, <1>9, <1>10, <1>11, <1>12 DEF IInv

(* A crash ends the run and leaves the files. *)
LEMMA CrashStep ==
  ASSUME IInv, Crash
  PROVE  IInv'
PROOF
  <1>1. /\ UNCHANGED <<key_file, key_synced, exists, log_file, synced, archive, earlier, keypair,
                       next_seq, prev_hash, faults, acked, pinned, power_lost, lost, damaged>>
        /\ boot < MaxBoot /\ phase' = "down" /\ writing' = "idle" /\ boot' = boot + 1
        /\ unsure' = IF writing = "written" THEN unsure \union {boot} ELSE unsure
    BY DEF Crash, disk, head
  <1>2. TypeOK /\ EntriesSound /\ HeadSound /\ FilesPlaced /\ OneLogPerRun
        /\ AckedAreSynced /\ HealthyChained /\ KeyPinned
    BY DEF IInv
  <1>3. /\ boot \in Keys /\ boot' \in Keys /\ boot \in Nat /\ unsure' \subseteq 1 .. boot'
        /\ \A b \in Keys : b > boot' \/ b = boot' => b > boot
    BY <1>1, <1>2, RunsAssumption DEF TypeOK, Keys
  <1>0. Files' = Files /\ OldFiles' = OldFiles
    BY <1>1, SameFiles
  <1>4. TypeOK'
    BY <1>0, <1>1, <1>2, <1>3 DEF TypeOK
  <1>5. EntriesSound' /\ OneLogPerRun' /\ AckedAreSynced'
    <2>1. EntriesSound'
      BY <1>0, <1>1, <1>2 DEF EntriesSound, WellSealed
    <2>2. OneLogPerRun'
      BY <1>0, <1>1, <1>2 DEF OneLogPerRun, RunOf
    <2>3. AckedAreSynced'
      BY <1>0, <1>1, <1>2 DEF AckedAreSynced, RunOf, HoldsAll
    <2> QED BY <2>1, <2>2, <2>3
  <1>6. HeadSound' /\ KeyPinned'
    BY <1>1, <1>2, <1>3 DEF HeadSound, KeyPinned
  <1>7. FilesPlaced'
    <2>1. \A f \in Files : \A i \in DOMAIN f : f[i].entry.time \in Nat
      BY <1>2, Marks DEF EntriesSound, WellSealed
    <2>2. \A f \in Files : \A i \in DOMAIN f : f[i].entry.time <= boot
      BY <1>2, <1>3, <2>1, EmptyFile DEF FilesPlaced, Files, TypeOK
    <2>3. \A f \in Files : \A i \in DOMAIN f : f[i].entry.time < boot + 1
      BY <1>3, <2>1, <2>2
    <2>4. \A b \in lost : b < boot + 1
      <3>1. \A b \in lost : b \in Nat /\ b < boot
        BY <1>2, Marks DEF TypeOK, FilesPlaced
      <3> QED BY <1>3, <3>1
    <2> QED BY <1>0, <1>1, <2>3, <2>4 DEF FilesPlaced, Files
  <1>8. HealthyChained'
    <2>1. \A f : Unharmed(f)' => Unharmed(f)
      BY <1>1 DEF Unharmed, RunOf
    <2>2. \A f : Chained(f)' <=> Chained(f)
      BY DEF Chained, verify_entry
    <2>3. CASE writing = "written"
      <3>1. log_file # <<>> /\ IsSequence(log_file) /\ phase = "up"
        BY <1>2, <2>3 DEF HeadSound, TypeOK, Files
      <3>2. 1 \in DOMAIN log_file
        BY <3>1, FileFacts
      <3>3. RunOf(log_file) = boot
        BY <1>2, <3>1, <3>2 DEF FilesPlaced, RunOf
      <3>4. ~Unharmed(log_file)'
        BY <1>1, <2>3, <3>3 DEF Unharmed, RunOf
      <3> QED BY <1>0, <1>1, <1>2, <2>1, <2>2, <3>4 DEF HealthyChained
    <2>4. CASE writing = "idle"
      BY <1>0, <1>1, <1>2, <2>1, <2>2, <2>4 DEF HealthyChained
    <2> QED BY <1>2, <2>3, <2>4 DEF TypeOK
  <1> QED BY <1>4, <1>5, <1>6, <1>7, <1>8 DEF IInv

(* A power failure leaves the log what was synced of it, or it brings back *)
(* an earlier directory: either way the log holds what was acknowledged of *)
(* its run, and each run that has no log any more is lost.                 *)
LEMMA PowerLossFiles ==
  ASSUME IInv, PowerLoss
  PROVE  /\ earlier' = {} /\ IsSequence(archive') /\ Range(archive') \subseteq OldFiles
         /\ exists' \in BOOLEAN /\ (~exists' => log_file' = <<>>)
         /\ lost' \subseteq Keys /\ (\A b \in lost' : b <= boot)
         /\ IsSequence(log_file')
         /\ \A i \in DOMAIN log_file' : /\ IsItem(log_file'[i]) /\ WellSealed(log_file'[i].entry)
                                        /\ log_file'[i].entry.time <= boot
         /\ ~damaged =>
              /\ OtherRuns(Range(archive'), log_file')
              /\ log_file' # <<>> => HoldsAll(log_file', Len(log_file'), RunOf(log_file'))
              /\ log_file' # <<>> /\ RunOf(log_file') \notin unsure \union {boot} =>
                   log_file' \in Files
              /\ \A b \in Keys \ lost' : acked[b] # <<>> =>
                   \E f \in Range(archive') \union {log_file'} : f # <<>> /\ RunOf(f) = b
PROOF
  <1>1. TypeOK /\ EntriesSound /\ HeadSound /\ FilesPlaced /\ OneLogPerRun
        /\ AckedAreSynced /\ HealthyChained
    BY DEF IInv
  <1>2. PICK dir \in earlier \union {Here} :
          /\ exists' = dir.exists /\ archive' = dir.archive
          /\ log_file' \in (IF dir = Here THEN Survivors(log_file, synced) ELSE {dir.log_file})
          /\ lost' = (lost \union RunsOf(NamedIn(Here))) \ RunsOf(NamedIn(dir))
    BY DEF PowerLoss
  <1>3. earlier' = {}
    BY DEF PowerLoss
  <1>4. /\ Here.archive = archive /\ Here.log_file = log_file /\ Here.exists = exists
        /\ NamedIn(Here) = Range(archive) \union {log_file} /\ NamedIn(Here) \subseteq Files
    BY DEF Here, NamedIn, OldFiles, Files
  <1>5. boot \in Nat /\ \A f \in Files : \A i \in DOMAIN f : f[i].entry.time <= boot
    <2>1. \A f \in Files : \A i \in DOMAIN f : f[i].entry.time \in Nat
      BY <1>1, Marks DEF EntriesSound, WellSealed
    <2>2. boot \in Nat
      BY <1>1, Marks DEF TypeOK
    <2> QED BY <1>1, <2>1, <2>2, EmptyFile DEF FilesPlaced, Files, TypeOK
  <1>6. lost' \subseteq Keys /\ \A b \in lost' : b <= boot
    <2>1. \A f \in NamedIn(Here) : f # <<>> => RunOf(f) \in Keys /\ RunOf(f) <= boot
      <3>1. \A f \in NamedIn(Here) : f # <<>> => RunOf(f) \in Keys /\ 1 \in DOMAIN f
        BY <1>1, <1>4, RunKnown
      <3> QED BY <1>4, <1>5, <3>1 DEF RunOf
    <2>2. \A b \in RunsOf(NamedIn(Here)) : b \in Keys /\ b <= boot
      BY <2>1 DEF RunsOf
    <2>3. \A b \in lost : b \in Keys /\ b \in Nat /\ b < boot
      BY <1>1, Marks DEF TypeOK, FilesPlaced
    <2>4. \A b \in lost : b <= boot
      BY <1>5, <2>3
    <2> QED BY <1>2, <2>2, <2>3, <2>4
  <1>7. CASE dir # Here
    <2>1. dir \in earlier /\ log_file' = dir.log_file
      BY <1>2, <1>7
    <2>2. NamedIn(dir) = Range(archive') \union {log_file'} /\ NamedIn(dir) \subseteq OldFiles
      BY <1>2, <2>1 DEF NamedIn, OldFiles
    <2>3. Range(archive') \subseteq OldFiles /\ log_file' \in OldFiles /\ log_file' \in Files
      BY <2>2 DEF Files
    <2>4. /\ IsSequence(archive') /\ exists' \in BOOLEAN /\ (~exists' => log_file' = <<>>)
      <3>1. IsDirectory(dir)
        BY <1>1, <2>1 DEF TypeOK
      <3> QED BY <1>2, <2>1, <3>1, Zenon DEF IsDirectory
    <2>5. /\ IsSequence(log_file')
          /\ \A i \in DOMAIN log_file' : /\ IsItem(log_file'[i]) /\ WellSealed(log_file'[i].entry)
                                         /\ log_file'[i].entry.time <= boot
      BY <1>1, <1>5, <2>3 DEF TypeOK, EntriesSound
    <2>6. ASSUME ~damaged
          PROVE  /\ OtherRuns(Range(archive'), log_file')
                 /\ log_file' # <<>> => HoldsAll(log_file', Len(log_file'), RunOf(log_file'))
                 /\ \A b \in Keys \ lost' : acked[b] # <<>> =>
                      \E f \in Range(archive') \union {log_file'} : f # <<>> /\ RunOf(f) = b
      <3>1. OtherRuns(Range(archive'), log_file')
        BY <1>1, <1>2, <2>1, <2>6 DEF OneLogPerRun
      <3>2. log_file' # <<>> => HoldsAll(log_file', Len(log_file'), RunOf(log_file'))
        BY <1>1, <2>3, <2>6 DEF AckedAreSynced
      <3>3. ASSUME NEW b \in Keys \ lost', acked[b] # <<>>
            PROVE  \E f \in NamedIn(dir) : f # <<>> /\ RunOf(f) = b
        <4>1. b \in lost \union RunsOf(NamedIn(Here))
          <5>1. b \notin lost => \E f \in NamedIn(Here) : f # <<>> /\ RunOf(f) = b
            BY <1>1, <1>4, <2>6, <3>3 DEF AckedAreSynced
          <5> QED BY <5>1 DEF RunsOf
        <4>2. b \in RunsOf(NamedIn(dir))
          BY <1>2, <3>3, <4>1
        <4> QED BY <4>2 DEF RunsOf
      <3> QED BY <2>2, <3>1, <3>2, <3>3
    <2> QED BY <1>3, <1>6, <2>3, <2>4, <2>5, <2>6
  <1>8. CASE dir = Here
    <2>1. archive' = archive /\ exists' = exists /\ log_file' \in Survivors(log_file, synced)
      BY <1>2, <1>4, <1>8
    <2>2. /\ IsSequence(log_file) /\ Len(log_file) \in Nat /\ DOMAIN log_file = 1 .. Len(log_file)
          /\ \A i \in DOMAIN log_file : IsItem(log_file[i])
          /\ synced \in 0 .. Len(log_file) /\ log_file \in Files
      BY <1>1, FileFacts DEF TypeOK, Files
    <2>3. /\ IsSequence(log_file') /\ Len(log_file') \in synced .. Len(log_file)
          /\ \A i \in DOMAIN log_file' :
               IsItem(log_file'[i]) /\ log_file'[i].entry = log_file[i].entry
          /\ \A i \in 1 .. synced : log_file'[i] = log_file[i]
      BY <2>1, <2>2, Surviving
    <2>4. /\ Len(log_file') \in Nat /\ DOMAIN log_file' = 1 .. Len(log_file')
          /\ DOMAIN log_file' \subseteq DOMAIN log_file
      BY <2>2, <2>3, FileFacts
    <2>5. log_file' # <<>> => log_file # <<>> /\ RunOf(log_file') = RunOf(log_file)
      <3> SUFFICES ASSUME log_file' # <<>>
                   PROVE  log_file # <<>> /\ RunOf(log_file') = RunOf(log_file)
        OBVIOUS
      <3>1. 1 \in DOMAIN log_file'
        BY <2>3, <2>4, FileFacts
      <3> QED BY <2>3, <2>4, <3>1, EmptyFile DEF RunOf
    <2>6. /\ IsSequence(archive') /\ exists' \in BOOLEAN /\ (~exists' => log_file' = <<>>)
          /\ Range(archive') \subseteq OldFiles
      BY <1>1, <2>1, <2>5 DEF TypeOK, OldFiles
    <2>7. \A i \in DOMAIN log_file' : /\ IsItem(log_file'[i]) /\ WellSealed(log_file'[i].entry)
                                      /\ log_file'[i].entry.time <= boot
      BY <1>1, <1>5, <2>2, <2>3, <2>4 DEF EntriesSound
    <2>8. ASSUME ~damaged, log_file # <<>>
          PROVE  HoldsAll(log_file', Len(log_file'), RunOf(log_file))
      <3>1. HoldsAll(log_file, synced, RunOf(log_file))
        BY <1>1, <2>8 DEF AckedAreSynced
      <3>2. \A i \in 1 .. synced : i \in 1 .. Len(log_file') /\ log_file'[i] = log_file[i]
        BY <2>2, <2>3
      <3> QED BY <3>1, <3>2 DEF HoldsAll
    <2>9. ~damaged => OtherRuns(Range(archive'), log_file')
      BY <1>1, <2>1, <2>5, <2>6 DEF OneLogPerRun, OtherRuns
    <2>10. ASSUME ~damaged, NEW b \in Keys \ lost', acked[b] # <<>>
           PROVE  \E f \in Range(archive') \union {log_file'} : f # <<>> /\ RunOf(f) = b
      <3>1. PICK f \in Range(archive) \union {log_file} : f # <<>> /\ RunOf(f) = b
        <4>1. b \in lost => b \in RunsOf(NamedIn(Here))
          BY <1>2, <1>8, <2>10
        <4>2. b \in RunsOf(NamedIn(Here)) =>
                \E f \in Range(archive) \union {log_file} : f # <<>> /\ RunOf(f) = b
          BY <1>4 DEF RunsOf
        <4> QED BY <1>1, <2>10, <4>1, <4>2 DEF AckedAreSynced
      <3>2. CASE f = log_file
        <4>1. HoldsAll(log_file', Len(log_file'), b)
          BY <2>8, <2>10, <3>1, <3>2
        <4>2. 1 \in DOMAIN acked[b]
          <5>1. IsSequence(acked[b])
            BY <1>1 DEF TypeOK
          <5> QED BY <2>10, <5>1, FileFacts
        <4>3. Len(log_file') # 0
          <5>1. \E i \in 1 .. Len(log_file') : TRUE
            BY <4>1, <4>2 DEF HoldsAll
          <5> QED BY <2>4, <5>1
        <4>4. log_file' # <<>>
          BY <4>3, EmptyFile
        <4> QED BY <2>5, <3>1, <3>2, <4>4
      <3> QED BY <2>1, <3>1, <3>2
    <2>11. ASSUME ~damaged, log_file' # <<>>, RunOf(log_file') \notin unsure \union {boot}
           PROVE  log_file' = log_file
      <3>1. log_file # <<>> /\ RunOf(log_file) \notin unsure /\ RunOf(log_file) # boot
        BY <2>5, <2>11
      <3>2. phase # "up"
        <4>1. 1 \in DOMAIN log_file
          BY <2>2, <3>1, FileFacts
        <4> QED BY <1>1, <3>1, <4>1 DEF FilesPlaced, RunOf
      <3>3. synced = Len(log_file)
        BY <1>1, <2>11, <3>1, <3>2 DEF HealthyChained, Unharmed, HeadSound, TypeOK
      <3>4. Len(log_file') = Len(log_file)
        <4>1. \A l, k \in Nat : \A m \in l .. k : l = k => m = k
          OBVIOUS
        <4>2. Len(log_file') \in Len(log_file) .. Len(log_file)
          BY <2>3, <3>3
        <4> QED BY <2>2, <4>1, <4>2
      <3> DEFINE S == Range(log_file) \union Range(log_file')
      <3>5. log_file \in Seq(S) /\ log_file' \in Seq(S)
        BY <2>2, <2>3, SeqMonotonic DEF IsSequence
      <3> HIDE DEF S
      <3>6. \A i \in 1 .. Len(log_file') : log_file'[i] = log_file[i]
        BY <2>3, <3>3, <3>4
      <3> QED BY <3>4, <3>5, <3>6, SeqEqual
    <2>12. ~damaged => (log_file' # <<>> => HoldsAll(log_file', Len(log_file'), RunOf(log_file')))
      BY <2>5, <2>8
    <2> QED BY <1>3, <1>6, <2>2, <2>3, <2>6, <2>7, <2>9, <2>10, <2>11, <2>12
  <1> QED BY <1>7, <1>8

(* So a power failure keeps the invariant. *)
LEMMA PowerLossStep ==
  ASSUME IInv, PowerLoss
  PROVE  IInv'
PROOF
  <1>1. /\ UNCHANGED <<keypair, next_seq, prev_hash, faults, acked, pinned, damaged>>
        /\ boot < MaxBoot /\ phase' = "down" /\ writing' = "idle" /\ boot' = boot + 1
        /\ synced' = Len(log_file')
        /\ key_file' \in {key_file, NoFile, Torn} /\ key_synced' = TRUE
        /\ unsure' = unsure \union {boot} /\ power_lost' = TRUE
    BY DEF PowerLoss, head
  <1>2. TypeOK /\ EntriesSound /\ HeadSound /\ FilesPlaced /\ OneLogPerRun
        /\ AckedAreSynced /\ HealthyChained /\ KeyPinned
    BY DEF IInv
  <1>3. /\ boot \in Keys /\ boot' \in Keys /\ boot \in Nat /\ unsure' \subseteq 1 .. boot'
        /\ \A b \in Keys : b > boot' \/ b = boot' => b > boot
    BY <1>1, <1>2, RunsAssumption, SMTT(30) DEF TypeOK, Keys
  <1>4. /\ earlier' = {} /\ IsSequence(archive') /\ Range(archive') \subseteq OldFiles
        /\ exists' \in BOOLEAN /\ (~exists' => log_file' = <<>>)
        /\ lost' \subseteq Keys /\ (\A b \in lost' : b <= boot)
        /\ IsSequence(log_file')
        /\ \A i \in DOMAIN log_file' : /\ IsItem(log_file'[i]) /\ WellSealed(log_file'[i].entry)
                                       /\ log_file'[i].entry.time <= boot
    BY PowerLossFiles
  <1>5. ~damaged =>
          /\ OtherRuns(Range(archive'), log_file')
          /\ log_file' # <<>> => HoldsAll(log_file', Len(log_file'), RunOf(log_file'))
          /\ log_file' # <<>> /\ RunOf(log_file') \notin unsure \union {boot} =>
               log_file' \in Files
          /\ \A b \in Keys \ lost' : acked[b] # <<>> =>
               \E f \in Range(archive') \union {log_file'} : f # <<>> /\ RunOf(f) = b
    BY PowerLossFiles
  <1>6. OldFiles' = Range(archive') /\ OldFiles' \subseteq OldFiles /\ OldFiles \subseteq Files
        /\ \A f \in Files' : f \in OldFiles \/ f = log_file'
    BY <1>4 DEF OldFiles, Files
  <1>7. Len(log_file') \in Nat
    BY <1>4, FileFacts
  <1>8. TypeOK'
    <2>1. \A f \in Files' : IsSequence(f) /\ \A i \in DOMAIN f : IsItem(f[i])
      BY <1>2, <1>4, <1>6 DEF TypeOK
    <2>2. synced' \in 0 .. Len(log_file')
      BY <1>1, <1>7
    <2>3. key_file' \in Keys \union {NoFile, Torn} /\ key_synced' \in BOOLEAN
      BY <1>1, <1>2 DEF TypeOK
    <2> QED BY <1>1, <1>2, <1>3, <1>4, <2>1, <2>2, <2>3 DEF TypeOK
  <1>9. EntriesSound'
    <2>1. \A f \in Files' : \A i \in DOMAIN f : WellSealed(f[i].entry)
      BY <1>2, <1>4, <1>6 DEF EntriesSound
    <2> QED BY <1>1, <1>2, <2>1 DEF EntriesSound, WellSealed
  <1>10. HeadSound' /\ KeyPinned'
    BY <1>1, <1>2, <1>3 DEF HeadSound, KeyPinned
  <1>11. FilesPlaced'
    <2>1. /\ \A f \in OldFiles : \A i \in DOMAIN f : f[i].entry.time \in Nat
          /\ \A i \in DOMAIN log_file' : log_file'[i].entry.time \in Nat
      BY <1>2, <1>4, <1>6, Marks DEF EntriesSound, WellSealed
    <2>2. /\ \A f \in OldFiles : \A i \in DOMAIN f : f[i].entry.time < boot + 1
          /\ \A i \in DOMAIN log_file' : log_file'[i].entry.time < boot + 1
      BY <1>2, <1>3, <1>4, <2>1 DEF FilesPlaced
    <2>3. \A b \in lost' : b < boot + 1
      <3>1. \A b \in lost' : b \in Nat
        BY <1>4, Marks
      <3> QED BY <1>3, <1>4, <3>1
    <2> QED BY <1>1, <1>6, <2>2, <2>3 DEF FilesPlaced
  <1>12. OneLogPerRun'
    BY <1>1, <1>2, <1>4, <1>5, <1>6 DEF OneLogPerRun, OtherRuns, RunOf
  <1>13. AckedAreSynced'
    BY <1>1, <1>2, <1>5, <1>6, ZenonT(60) DEF AckedAreSynced, RunOf, HoldsAll
  <1>14. HealthyChained'
    <2>1. \A f : Unharmed(f)' => Unharmed(f) /\ RunOf(f) # boot
      BY <1>1 DEF Unharmed, RunOf
    <2>2. \A f : Chained(f)' <=> Chained(f)
      BY DEF Chained, verify_entry
    <2>3. ~damaged /\ Unharmed(log_file)' => log_file' \in Files
      BY <1>1, <1>5 DEF Unharmed, RunOf
    <2>4. ~damaged' => \A f \in Files' : Unharmed(f)' => Chained(f)'
      BY <1>1, <1>2, <1>6, <2>1, <2>2, <2>3 DEF HealthyChained
    <2> QED BY <1>1, <2>4 DEF HealthyChained
  <1> QED BY <1>8, <1>9, <1>10, <1>11, <1>12, <1>13, <1>14 DEF IInv

(* Damage mixes sealed entries of older runs. *)
LEMMA DamageStep ==
  ASSUME IInv, Damage
  PROVE  IInv'
PROOF
  <1>1. /\ UNCHANGED <<key_file, key_synced, exists, archive, earlier, keypair, phase, next_seq,
                       prev_hash, writing, boot, faults, acked, unsure, pinned, power_lost,
                       lost>>
        /\ phase = "down" /\ exists /\ damaged' = TRUE
        /\ synced' = IF Len(log_file') < synced THEN Len(log_file') ELSE synced
    BY DEF Damage, head
  <1>2. TypeOK /\ EntriesSound /\ HeadSound /\ FilesPlaced /\ HealthyChained /\ KeyPinned
    BY DEF IInv
  <1> DEFINE S == UNION {Range(f) : f \in Files}
  <1>3. IsSequence(log_file) /\ Range(log_file) \subseteq S
    BY <1>2 DEF TypeOK, Files
  <1>4. \A old \in Range(archive) : \A k \in DOMAIN old : old[k] \in S
    BY DEF Files, OldFiles, Range
  <1>5. \A x \in S : \E f \in Files : \E j \in DOMAIN f : x = f[j]
    BY DEF Range
  <1> HIDE DEF S
  <1>6. log_file' \in Seq(S)
    <2>1. PICK i \in DOMAIN log_file :
            \/ log_file' = RemoveAt(log_file, i)
            \/ log_file' = InsertAt(log_file, i, log_file[i])
            \/ \E j \in DOMAIN log_file :
                 log_file' = [log_file EXCEPT ![i] = log_file[j], ![j] = log_file[i]]
            \/ \E x \in S : log_file' = [log_file EXCEPT ![i] = x]
      BY <1>4 DEF Damage
    <2>2. /\ RemoveAt(log_file, i) \in Seq(S)
          /\ InsertAt(log_file, i, log_file[i]) \in Seq(S)
          /\ \A x \in S : [log_file EXCEPT ![i] = x] \in Seq(S)
          /\ \A j \in DOMAIN log_file :
               [log_file EXCEPT ![i] = log_file[j], ![j] = log_file[i]] \in Seq(S)
      BY <1>3, Mixed
    <2> QED BY <2>1, <2>2, Zenon
  <1>7. IsSequence(log_file') /\ \A i \in DOMAIN log_file' : log_file'[i] \in S
    BY <1>6, AnySequence, LenProperties, ElementOfSeq
  <1>8. /\ \A x \in S : IsItem(x) /\ WellSealed(x.entry) /\ x.entry.time < boot
        /\ Len(log_file') \in Nat /\ synced \in Nat
    <2>1. \A f \in Files : \A j \in DOMAIN f :
            IsItem(f[j]) /\ WellSealed(f[j].entry) /\ f[j].entry.time < boot
      BY <1>1, <1>2 DEF TypeOK, EntriesSound, FilesPlaced, Files
    <2>2. Len(log_file') \in Nat /\ synced \in Nat
      BY <1>2, <1>3, <1>7, FileFacts DEF TypeOK
    <2> QED BY <1>5, <2>1, <2>2
  <1>0. OldFiles' = OldFiles /\ Files' = OldFiles \union {log_file'} /\ OldFiles \subseteq Files
    BY <1>1, SameFiles DEF Files
  <1>9. TypeOK'
    <2>1. \A f \in Files' : IsSequence(f) /\ \A i \in DOMAIN f : IsItem(f[i])
      BY <1>0, <1>1, <1>2, <1>7, <1>8 DEF TypeOK
    <2>2. synced' \in 0 .. Len(log_file')
      BY <1>1, <1>8
    <2> QED BY <1>1, <1>2, <2>1, <2>2 DEF TypeOK
  <1>10. EntriesSound'
    <2>1. \A f \in Files' : \A i \in DOMAIN f : WellSealed(f[i].entry)
      BY <1>0, <1>1, <1>2, <1>7, <1>8 DEF EntriesSound
    <2> QED BY <1>1, <1>2, <2>1 DEF EntriesSound, WellSealed
  <1>11. HeadSound' /\ KeyPinned' /\ FilesPlaced'
    BY <1>0, <1>1, <1>2, <1>7, <1>8 DEF HeadSound, KeyPinned, FilesPlaced
  <1>12. OneLogPerRun' /\ AckedAreSynced' /\ HealthyChained'
    BY <1>1 DEF OneLogPerRun, AckedAreSynced, HealthyChained
  <1> QED BY <1>9, <1>10, <1>11, <1>12 DEF IInv

(* What an append may leave of the log, whether it succeeds or fails. *)
Gains(g) ==
  \/ g = log_file
  \/ \E event : \E form \in {"whole", "bare", "part"} :
       g = Append(log_file, [entry |-> seal(event), form |-> form])

(* What a running daemon appends belongs to its run, whole or not. *)
LEMMA Grown ==
  ASSUME IInv, phase = "up", NEW g, Gains(g)
  PROVE  /\ IsSequence(g) /\ Len(g) \in Nat /\ Len(log_file) \in 0 .. Len(g)
         /\ \A i \in 1 .. Len(log_file) : g[i] = log_file[i]
         /\ \A i \in DOMAIN g : /\ IsItem(g[i]) /\ WellSealed(g[i].entry)
                                /\ g[i].entry.time = boot /\ g[i].entry.signer = keypair
         /\ g # <<>> => RunOf(g) = boot
         /\ log_file # <<>> => g # <<>>
PROOF
  <1>1. TypeOK /\ EntriesSound /\ HeadSound /\ FilesPlaced
    BY DEF IInv
  <1>2. /\ IsSequence(log_file) /\ Len(log_file) \in Nat /\ DOMAIN log_file = 1 .. Len(log_file)
        /\ \A i \in DOMAIN log_file :
             /\ IsItem(log_file[i]) /\ WellSealed(log_file[i].entry)
             /\ log_file[i].entry.time = boot /\ log_file[i].entry.signer = keypair
    BY <1>1, FileFacts DEF TypeOK, EntriesSound, FilesPlaced, Files
  <1> DEFINE Good ==
        /\ IsSequence(g) /\ Len(log_file) \in 0 .. Len(g)
        /\ \A i \in 1 .. Len(log_file) : g[i] = log_file[i]
        /\ \A i \in DOMAIN g : /\ IsItem(g[i]) /\ WellSealed(g[i].entry)
                               /\ g[i].entry.time = boot /\ g[i].entry.signer = keypair
  <1>3. Good
    <2>1. CASE g = log_file
      BY <1>2, <2>1
    <2>2. ASSUME NEW event, NEW form \in {"whole", "bare", "part"},
                 g = Append(log_file, [entry |-> seal(event), form |-> form])
          PROVE  Good
      <3>1. WellSealed(seal(event)) /\ seal(event).time = boot /\ seal(event).signer = keypair
        <4>1. /\ boot \in Keys /\ keypair \in Keys /\ next_seq = Len(acked[boot])
              /\ IsSequence(acked[boot])
              /\ prev_hash = IF next_seq = 0 THEN GENESIS_PREV_HASH ELSE acked[boot][next_seq]
          BY <1>1 DEF TypeOK, HeadSound
        <4>2. next_seq \in 0 .. Len(acked[boot])
          BY <4>1, FileFacts
        <4>3. /\ seal(event).time = boot /\ seal(event).signer = keypair
              /\ seal(event).seq = next_seq /\ seal(event).prev_hash = prev_hash
          BY DEF seal
        <4> QED BY <4>1, <4>2, <4>3 DEF WellSealed
      <3> DEFINE x == [entry |-> seal(event), form |-> form]
      <3>2. IsItem(x) /\ x.entry = seal(event)
        BY DEF IsItem
      <3> HIDE DEF x
      <3>3. /\ IsSequence(g) /\ Len(g) = Len(log_file) + 1 /\ DOMAIN g = 1 .. Len(log_file) + 1
            /\ \A i \in 1 .. Len(log_file) : g[i] = log_file[i]
            /\ g[Len(log_file) + 1] = x
        <4>1. g = Append(log_file, x)
          BY <2>2 DEF x
        <4> QED BY <1>2, <4>1, Longer
      <3>4. \A i \in DOMAIN g : i \in 1 .. Len(log_file) \/ i = Len(log_file) + 1
        BY <1>2, <3>3
      <3>5. \A i \in DOMAIN g : /\ IsItem(g[i]) /\ WellSealed(g[i].entry)
                                /\ g[i].entry.time = boot /\ g[i].entry.signer = keypair
        BY <1>2, <3>1, <3>2, <3>3, <3>4
      <3>6. Len(log_file) \in 0 .. Len(g)
        BY <1>2, <3>3
      <3> QED BY <3>3, <3>5, <3>6
    <2> QED BY <2>1, <2>2 DEF Gains
  <1>4. Len(g) \in Nat /\ DOMAIN g = 1 .. Len(g) /\ ((g = <<>>) <=> (Len(g) = 0))
    BY <1>3, FileFacts
  <1>5. log_file # <<>> => g # <<>>
    <2>1. (log_file = <<>>) <=> (Len(log_file) = 0)
      BY <1>2, FileFacts
    <2>2. Len(log_file) <= Len(g)
      BY <1>2, <1>3, <1>4
    <2> QED BY <1>2, <1>4, <2>1, <2>2
  <1>6. g # <<>> => RunOf(g) = boot
    <2>1. g # <<>> => 1 \in DOMAIN g
      BY <1>4
    <2> QED BY <1>3, <2>1 DEF RunOf
  <1> QED BY <1>3, <1>4, <1>5, <1>6

(* What the log gains leaves the other logs and the acknowledged entries   *)
(* alone.                                                                  *)
LEMMA LogGrows ==
  ASSUME IInv, phase = "up", UNCHANGED <<archive, earlier, acked, lost, damaged>>, synced' = synced,
         Gains(log_file')
  PROVE  /\ \A f \in Files' : IsSequence(f) /\ \A i \in DOMAIN f : IsItem(f[i])
         /\ synced' \in 0 .. Len(log_file')
         /\ EntriesSound' /\ OneLogPerRun' /\ AckedAreSynced'
PROOF
  <1>1. TypeOK /\ EntriesSound /\ FilesPlaced /\ OneLogPerRun /\ AckedAreSynced
    BY DEF IInv
  <1>2. /\ IsSequence(log_file') /\ Len(log_file') \in Nat
        /\ Len(log_file) \in 0 .. Len(log_file')
        /\ \A i \in 1 .. Len(log_file) : log_file'[i] = log_file[i]
        /\ \A i \in DOMAIN log_file' :
             /\ IsItem(log_file'[i]) /\ WellSealed(log_file'[i].entry)
             /\ log_file'[i].entry.time = boot /\ log_file'[i].entry.signer = keypair
        /\ log_file' # <<>> => RunOf(log_file') = boot
        /\ log_file # <<>> => log_file' # <<>>
    BY Grown
  <1>3. /\ OldFiles' = OldFiles /\ OldFiles \subseteq Files
        /\ \A f \in Files' : f \in OldFiles \/ f = log_file'
    BY SameFiles DEF Files
  <1>4. \A f \in Files' : /\ IsSequence(f)
                           /\ \A i \in DOMAIN f : IsItem(f[i]) /\ WellSealed(f[i].entry)
    BY <1>1, <1>2, <1>3 DEF TypeOK, EntriesSound, Files
  <1>5. /\ synced \in 0 .. Len(log_file) /\ IsSequence(log_file) /\ Len(log_file) \in Nat
        /\ log_file # <<>> => RunOf(log_file) = boot
    <2>1. Gains(log_file)
      BY DEF Gains
    <2>2. log_file # <<>> => RunOf(log_file) = boot
      BY <2>1, Grown
    <2> QED BY <1>1, <2>2, FileFacts DEF TypeOK, Files
  <1>6. synced' \in 0 .. Len(log_file') /\ 1 .. synced \subseteq 1 .. Len(log_file)
    BY <1>2, <1>5
  <1>7. EntriesSound'
    BY <1>1, <1>4 DEF EntriesSound, WellSealed
  <1>8. \A f \in OldFiles : f # <<>> => RunOf(f) # boot
    <2> TAKE f \in OldFiles
    <2> HAVE f # <<>>
    <2>1. IsSequence(f)
      BY <1>1, <1>3 DEF TypeOK
    <2>2. 1 \in DOMAIN f
      BY <2>1, FileFacts
    <2>3. RunOf(f) < boot /\ boot \in Nat
      BY <1>1, <2>2, Marks DEF FilesPlaced, RunOf, TypeOK
    <2>4. RunOf(f) \in Nat
      BY <1>1, <1>3, <2>2, Marks DEF EntriesSound, WellSealed, RunOf
    <2> QED BY <2>3, <2>4
  <1>9. OneLogPerRun'
    BY <1>1, <1>2, <1>3, <1>8 DEF OneLogPerRun, OtherRuns, RunOf
  <1>10. AckedAreSynced'
    <2> SUFFICES ASSUME ~damaged
                 PROVE  /\ log_file' # <<>> => HoldsAll(log_file', synced, RunOf(log_file'))
                        /\ \A b \in Keys \ lost : acked[b] # <<>> =>
                             \E f \in Range(archive) \union {log_file'} :
                               f # <<>> /\ RunOf(f) = b
      BY <1>1, <1>3, ZenonT(60) DEF AckedAreSynced, RunOf, HoldsAll
    <2>1. log_file' # <<>> => HoldsAll(log_file', synced, boot)
      <3>1. CASE log_file # <<>>
        <4>1. HoldsAll(log_file, synced, boot)
          BY <1>1, <1>5, <3>1 DEF AckedAreSynced
        <4> QED BY <1>2, <1>6, <4>1 DEF HoldsAll
      <3>2. CASE log_file = <<>>
        <4>1. acked[boot] = <<>>
          <5>1. \A f \in Range(archive) \union {log_file} : f # <<>> => RunOf(f) # boot
            BY <1>8, <3>2 DEF OldFiles
          <5>2. boot \in Keys \ lost
            <6>1. boot \in Keys /\ boot \in Nat /\ (boot \in lost => boot < boot)
              BY <1>1, Marks DEF TypeOK, FilesPlaced
            <6> QED BY <6>1
          <5> QED BY <1>1, <5>1, <5>2 DEF AckedAreSynced
        <4> QED BY <4>1, EmptyFile DEF HoldsAll
      <3> QED BY <3>1, <3>2
    <2>2. \A b \in Keys \ lost : acked[b] # <<>> =>
            \E f \in Range(archive) \union {log_file'} : f # <<>> /\ RunOf(f) = b
      BY <1>1, <1>2, <1>5 DEF AckedAreSynced
    <2> QED BY <1>2, <2>1, <2>2
  <1> QED BY <1>4, <1>6, <1>7, <1>9, <1>10

(* An append that fails makes its run unsure and keeps the head. *)
LEMMA FailStep ==
  ASSUME IInv, phase = "up", Gains(log_file'), Failed
  PROVE  IInv'
PROOF
  <1>1. /\ UNCHANGED <<key_file, key_synced, exists, synced, archive, earlier, keypair, next_seq,
                       prev_hash, acked, pinned, power_lost, lost, damaged>>
        /\ faults < MaxFault /\ faults' = faults + 1
        /\ unsure' = unsure \union {boot} /\ writing' = "idle"
        /\ \/ next_seq = 0 /\ phase' = "down" /\ boot' = boot + 1 /\ boot < MaxBoot
           \/ next_seq # 0 /\ phase' = phase /\ boot' = boot
    BY DEF Failed, head
  <1>2. TypeOK /\ EntriesSound /\ HeadSound /\ FilesPlaced /\ HealthyChained /\ KeyPinned
    BY DEF IInv
  <1>3. /\ \A f \in Files' : IsSequence(f) /\ \A i \in DOMAIN f : IsItem(f[i])
        /\ synced' \in 0 .. Len(log_file')
        /\ EntriesSound' /\ OneLogPerRun' /\ AckedAreSynced'
    BY <1>1, LogGrows
  <1>4. /\ \A i \in DOMAIN log_file' :
             log_file'[i].entry.time = boot /\ log_file'[i].entry.signer = keypair
        /\ log_file' # <<>> => RunOf(log_file') = boot
    BY Grown
  <1>5. /\ boot \in Nat /\ boot \in Keys /\ boot' \in Keys /\ unsure' \subseteq 1 .. boot'
        /\ faults' \in 0 .. MaxFault
    <2>1. boot \in Keys /\ faults \in 0 .. MaxFault /\ unsure \subseteq 1 .. boot
      BY <1>2 DEF TypeOK
    <2>2. boot \in Nat /\ boot' \in Keys /\ faults' \in 0 .. MaxFault
      BY <1>1, <2>1, RunsAssumption DEF Keys
    <2>3. boot \in 1 .. boot /\ boot' \in Nat /\ 1 .. boot \subseteq 1 .. boot'
      BY <1>1, <2>1, <2>2, RunsAssumption DEF Keys
    <2> QED BY <1>1, <2>1, <2>2, <2>3
  <1>0. OldFiles' = OldFiles /\ OldFiles \subseteq Files
        /\ \A f \in Files' : f \in OldFiles \/ f = log_file'
    BY <1>1, SameFiles DEF Files
  <1>6. TypeOK'
    <2>1. exists' /\ phase' \in {"up", "down"}
      BY <1>1, <1>2 DEF FilesPlaced
    <2> QED BY <1>1, <1>2, <1>3, <1>5, <2>1 DEF TypeOK
  <1>7. HeadSound'
    <2>1. \A b \in Keys : b \in Nat
      BY Marks
    <2>2. CASE next_seq = 0
      <3>1. \A b \in Keys : b > boot' \/ b = boot' => b > boot
        BY <1>1, <1>5, <2>1, <2>2
      <3> QED BY <1>1, <1>2, <2>2, <3>1 DEF HeadSound
    <2>3. CASE next_seq # 0
      BY <1>1, <1>2, <2>3 DEF HeadSound
    <2> QED BY <2>2, <2>3
  <1>8. FilesPlaced'
    <2>1. /\ \A f \in OldFiles : \A i \in DOMAIN f : f[i].entry.time \in Nat
          /\ lost \subseteq Nat
      BY <1>0, <1>2, Marks DEF EntriesSound, WellSealed, TypeOK
    <2>2. CASE next_seq = 0
      <3>1. /\ \A f \in OldFiles : \A i \in DOMAIN f : f[i].entry.time < boot'
            /\ \A b \in lost : b < boot'
        BY <1>1, <1>2, <1>5, <2>1, <2>2 DEF FilesPlaced
      <3>2. \A i \in DOMAIN log_file' : log_file'[i].entry.time < boot'
        BY <1>1, <1>4, <1>5, <2>2
      <3> QED BY <1>0, <1>1, <2>2, <3>1, <3>2 DEF FilesPlaced
    <2>3. CASE next_seq # 0
      BY <1>0, <1>1, <1>2, <1>4, <2>3 DEF FilesPlaced
    <2> QED BY <2>2, <2>3
  <1>9. HealthyChained'
    <2>1. \A f : Unharmed(f)' => Unharmed(f) /\ RunOf(f) # boot
      BY <1>1 DEF Unharmed, RunOf
    <2>2. \A f : Chained(f)' <=> Chained(f)
      BY DEF Chained, verify_entry
    <2>3. ~Unharmed(log_file)'
      BY <1>1, <1>4 DEF Unharmed, RunOf
    <2>4. \A f \in Files' : Unharmed(f)' => f \in Files
      BY <1>0, <1>1, <1>4, <2>1 DEF Unharmed
    <2>5. phase' = "up" => boot' \in unsure'
      BY <1>1
    <2> QED BY <1>1, <1>2, <2>1, <2>2, <2>3, <2>4, <2>5 DEF HealthyChained
  <1>10. KeyPinned'
    BY <1>1, <1>2 DEF KeyPinned
  <1> QED BY <1>3, <1>6, <1>7, <1>8, <1>9, <1>10 DEF IInv

(* A write or a sync that fails keeps the invariant. *)
LEMMA FailSteps ==
  ASSUME IInv, SyncFails \/ \E event : WriteFails(event)
  PROVE  IInv'
PROOF
  <1>1. Failed
    BY DEF SyncFails, WriteFails
  <1>2. phase = "up"
    BY DEF IInv, HeadSound, SyncFails, WriteFails
  <1>3. Gains(log_file')
    BY DEF Gains, SyncFails, WriteFails
  <1> QED BY <1>1, <1>2, <1>3, FailStep

(* A whole line is written: it goes on the chain. *)
LEMMA WriteStep ==
  ASSUME IInv, NEW event \in Appendable, Write(event)
  PROVE  IInv'
PROOF
  <1> DEFINE x == [entry |-> seal(event), form |-> "whole"]
  <1>1. /\ UNCHANGED <<key_file, key_synced, exists, synced, archive, earlier, keypair, phase,
                       next_seq, prev_hash, boot, faults, acked, unsure, pinned, power_lost,
                       lost, damaged>>
        /\ phase = "up" /\ writing = "idle" /\ writing' = "written"
        /\ log_file' = Append(log_file, x)
    BY DEF Write, head, history
  <1>2. TypeOK /\ EntriesSound /\ HeadSound /\ FilesPlaced /\ HealthyChained /\ KeyPinned
    BY DEF IInv
  <1>3. Gains(log_file')
    BY <1>1 DEF Gains
  <1>4. /\ \A f \in Files' : IsSequence(f) /\ \A i \in DOMAIN f : IsItem(f[i])
        /\ synced' \in 0 .. Len(log_file')
        /\ EntriesSound' /\ OneLogPerRun' /\ AckedAreSynced'
    BY <1>1, <1>3, LogGrows
  <1>5. /\ \A i \in DOMAIN log_file' :
             log_file'[i].entry.time = boot /\ log_file'[i].entry.signer = keypair
        /\ log_file' # <<>> => RunOf(log_file') = boot
    BY <1>1, <1>3, Grown
  <1>6. IsSequence(log_file) /\ Len(log_file) \in Nat /\ DOMAIN log_file = 1 .. Len(log_file)
    BY <1>2, FileFacts DEF TypeOK, Files
  <1>7. x.entry = seal(event) /\ x.form = "whole"
    OBVIOUS
  <1>8. /\ seal(event).seq = next_seq /\ seal(event).prev_hash = prev_hash
        /\ seal(event).signer = keypair /\ seal(event).event = event
    BY DEF seal
  <1> HIDE DEF x
  <1>9. /\ log_file' # <<>> /\ Len(log_file') = Len(log_file) + 1
        /\ DOMAIN log_file' = 1 .. Len(log_file) + 1
        /\ \A i \in 1 .. Len(log_file) : log_file'[i] = log_file[i]
        /\ log_file'[Len(log_file) + 1] = x
    BY <1>1, <1>6, Longer
  <1>10. TypeOK'
    BY <1>1, <1>2, <1>4 DEF TypeOK, FilesPlaced
  <1>11. HeadSound'
    BY <1>1, <1>2, <1>7, <1>8, <1>9 DEF HeadSound, Last
  <1>0. OldFiles' = OldFiles /\ OldFiles \subseteq Files
        /\ \A f \in Files' : f \in OldFiles \/ f = log_file'
    BY <1>1, SameFiles DEF Files
  <1>12. FilesPlaced'
    BY <1>0, <1>1, <1>2, <1>5 DEF FilesPlaced
  <1>13. KeyPinned'
    BY <1>1, <1>2 DEF KeyPinned
  <1>14. boot \notin unsure =>
           Len(log_file) = next_seq /\ (next_seq > 0 => prev_hash = log_file[next_seq].entry)
    BY <1>1, <1>2 DEF HealthyChained
  <1>15. ASSUME ~damaged, boot \notin unsure
         PROVE  Chained(log_file') /\ log_file'[1].entry.signer = keypair
    <2>1. 1 \in DOMAIN log_file' /\ log_file'[1].entry.signer = keypair
      BY <1>5, <1>6, <1>9
    <2>2. ASSUME NEW i \in 1 .. Len(log_file)
          PROVE  /\ log_file'[i].form = "whole"
                 /\ verify_entry(log_file'[i].entry, i - 1,
                                 IF i = 1 THEN GENESIS_PREV_HASH ELSE log_file'[i - 1].entry,
                                 keypair)
      <3>1. log_file # <<>> /\ 1 \in DOMAIN log_file
        BY <1>6, EmptyFile
      <3>2. RunOf(log_file) = boot /\ log_file[1].entry.signer = keypair
        BY <1>1, <1>2, <3>1 DEF FilesPlaced, RunOf
      <3>3. Chained(log_file)
        BY <1>2, <1>15, <3>1, <3>2 DEF HealthyChained, Unharmed, Files
      <3>4. i = 1 \/ i - 1 \in 1 .. Len(log_file)
        BY <1>6
      <3>5. log_file'[i] = log_file[i] /\ (i # 1 => log_file'[i - 1] = log_file[i - 1])
        BY <1>9, <3>4
      <3> QED BY <1>6, <3>2, <3>3, <3>5 DEF Chained
    <2>3. /\ x.form = "whole"
          /\ verify_entry(x.entry, Len(log_file),
                          IF Len(log_file) + 1 = 1 THEN GENESIS_PREV_HASH
                                                   ELSE log_file'[Len(log_file)].entry,
                          keypair)
      <3>1. Len(log_file) = next_seq
        BY <1>14, <1>15
      <3>2. next_seq = 0 => prev_hash = GENESIS_PREV_HASH /\ event = Genesis
        BY <1>1, <1>2 DEF HeadSound, Appendable
      <3>3. next_seq # 0 => prev_hash = log_file'[next_seq].entry
        BY <1>6, <1>9, <1>14, <1>15, <3>1
      <3> QED BY <1>6, <1>7, <1>8, <3>1, <3>2, <3>3 DEF verify_entry
    <2>4. \A i \in DOMAIN log_file' : i \in 1 .. Len(log_file) \/ i = Len(log_file) + 1
      BY <1>6, <1>9
    <2>5. (Len(log_file) + 1) - 1 = Len(log_file)
      BY <1>6
    <2>6. \A i \in DOMAIN log_file' :
            /\ log_file'[i].form = "whole"
            /\ verify_entry(log_file'[i].entry, i - 1,
                            IF i = 1 THEN GENESIS_PREV_HASH ELSE log_file'[i - 1].entry,
                            keypair)
      BY <1>9, <2>2, <2>3, <2>4, <2>5
    <2> QED BY <2>1, <2>6 DEF Chained
  <1>16. HealthyChained'
    <2>1. \A f : Unharmed(f)' <=> Unharmed(f)
      BY <1>1 DEF Unharmed, RunOf
    <2>2. \A f : Chained(f)' <=> Chained(f)
      BY DEF Chained, verify_entry
    <2>3. Unharmed(log_file') => boot \notin unsure
      BY <1>5 DEF Unharmed
    <2>4. ~power_lost => keypair = pinned
      BY <1>1, <1>2 DEF KeyPinned
    <2>5. ~damaged' => \A f \in Files' : Unharmed(f)' =>
                         Chained(f)' /\ (~power_lost' => f[1].entry.signer = pinned')
      BY <1>0, <1>1, <1>2, <1>15, <2>1, <2>2, <2>3, <2>4 DEF HealthyChained
    <2>6. boot \notin unsure =>
            /\ Len(log_file') = next_seq + 1
            /\ next_seq > 0 => prev_hash = log_file'[next_seq].entry
      BY <1>6, <1>9, <1>14
    <2>7. phase' = "up" /\ boot' \notin unsure' =>
            /\ Len(log_file') = IF writing' = "written" THEN next_seq' + 1 ELSE next_seq'
            /\ next_seq' > 0 => prev_hash' = log_file'[next_seq'].entry
      <3>1. UNCHANGED <<boot, unsure, next_seq, prev_hash>> /\ writing' = "written"
        BY <1>1
      <3> QED BY <2>6, <3>1
    <2>8. writing' # "idle"
      BY <1>1
    <2> QED BY <2>5, <2>7, <2>8, Zenon DEF HealthyChained
  <1> QED BY <1>4, <1>10, <1>11, <1>12, <1>13, <1>16 DEF IInv

(* The line is synced: its entry is acknowledged and becomes the head. *)
LEMMA SyncStep ==
  ASSUME IInv, Sync
  PROVE  IInv'
PROOF
  <1> DEFINE e == Last(log_file).entry
  <1>1. /\ UNCHANGED <<key_file, key_synced, exists, log_file, archive, earlier, keypair, phase,
                       boot, faults, unsure, pinned, power_lost, lost, damaged>>
        /\ writing = "written" /\ writing' = "idle" /\ synced' = Len(log_file)
        /\ next_seq' = next_seq + 1 /\ prev_hash' = e
        /\ acked' = [acked EXCEPT ![boot] = Append(@, e)]
    BY DEF Sync, Pending
  <1>2. TypeOK /\ EntriesSound /\ HeadSound /\ FilesPlaced /\ OneLogPerRun
        /\ AckedAreSynced /\ HealthyChained /\ KeyPinned
    BY DEF IInv
  <1> DEFINE m == Len(log_file)
             a == acked[boot]
  <1>3. /\ phase = "up" /\ log_file # <<>> /\ log_file[m].form = "whole"
        /\ e = log_file[m].entry /\ e.seq = next_seq
    BY <1>1, <1>2 DEF HeadSound, Last
  <1>4. /\ IsSequence(log_file) /\ m \in Nat \ {0} /\ DOMAIN log_file = 1 .. m
        /\ m \in DOMAIN log_file /\ 1 \in DOMAIN log_file
        /\ IsItem(log_file[m]) /\ synced \in 0 .. m
    <2>1. /\ IsSequence(log_file) /\ synced \in 0 .. m
          /\ \A i \in DOMAIN log_file : IsItem(log_file[i])
      BY <1>2 DEF TypeOK, Files
    <2>2. m \in Nat \ {0} /\ DOMAIN log_file = 1 .. m
      BY <1>3, <2>1, FileFacts
    <2> QED BY <2>1, <2>2
  <1>5. /\ boot \in Keys /\ IsSequence(a) /\ Len(a) = next_seq /\ next_seq \in Nat
        /\ DOMAIN a = 1 .. next_seq
    BY <1>2, <1>3, FileFacts DEF TypeOK, HeadSound
  <1>6. e.time = boot /\ RunOf(log_file) = boot
    BY <1>2, <1>3, <1>4 DEF FilesPlaced, RunOf
  <1>7. log_file[m] = [entry |-> e, form |-> "whole"]
    BY <1>3, <1>4 DEF IsItem
  <1> HIDE DEF e, m, a
  <1>8. /\ acked' = [b \in Keys |-> acked'[b]] /\ acked'[boot] = Append(a, e)
        /\ \A b \in Keys : b # boot => acked'[b] = acked[b]
    <2>1. acked = [b \in Keys |-> acked[b]]
      BY <1>2 DEF TypeOK
    <2>2. DOMAIN acked = Keys
      BY <2>1
    <2> QED BY <1>1, <1>5, <2>2 DEF a
  <1>9. /\ IsSequence(acked'[boot]) /\ Len(acked'[boot]) = next_seq + 1
        /\ DOMAIN acked'[boot] = 1 .. next_seq + 1
        /\ \A n \in 1 .. next_seq : acked'[boot][n] = acked[boot][n]
        /\ acked'[boot][next_seq + 1] = e
    BY <1>5, <1>8, Longer DEF a
  <1>10. \A b \in Keys : /\ IsSequence(acked'[b]) /\ Len(acked[b]) \in Nat
                         /\ Len(acked[b]) \in 0 .. Len(acked'[b])
                         /\ \A n \in 1 .. Len(acked[b]) : acked'[b][n] = acked[b][n]
    <2> TAKE b \in Keys
    <2>1. IsSequence(acked[b])
      BY <1>2 DEF TypeOK
    <2>2. Len(acked[b]) \in Nat
      BY <2>1, FileFacts
    <2>3. CASE b = boot
      BY <1>5, <1>9, <2>2, <2>3 DEF a
    <2>4. CASE b # boot
      BY <1>8, <2>1, <2>2, <2>4
    <2> QED BY <2>3, <2>4
  <1>11. \A b \in Keys : \A n \in DOMAIN acked'[b] :
           \/ n \in DOMAIN acked[b] /\ acked'[b][n] = acked[b][n]
           \/ b = boot /\ n = next_seq + 1 /\ acked'[b][n] = e
    <2> TAKE b \in Keys
    <2> TAKE n \in DOMAIN acked'[b]
    <2>1. CASE b = boot
      BY <1>5, <1>9, <2>1 DEF a
    <2>2. CASE b # boot
      BY <1>8, <2>2
    <2> QED BY <2>1, <2>2
  <1>0. Files' = Files /\ OldFiles' = OldFiles /\ OldFiles \subseteq Files
    BY <1>1, SameFiles DEF Files
  <1>12. TypeOK'
    <2>1. synced' \in 0 .. Len(log_file') /\ next_seq' \in Nat
      BY <1>1, <1>4, <1>5 DEF m
    <2> QED BY <1>1, <1>2, <1>0, <1>8, <1>10, <2>1 DEF TypeOK
  <1>13. EntriesSound'
    <2>1. ASSUME NEW x, WellSealed(x) PROVE WellSealed(x)'
      <3>1. /\ x.time \in Keys /\ x.signer \in Keys /\ x.seq \in 0 .. Len(acked[x.time])
            /\ x.prev_hash = IF x.seq = 0 THEN GENESIS_PREV_HASH ELSE acked[x.time][x.seq]
        BY <2>1 DEF WellSealed
      <3>2. x.seq \in 0 .. Len(acked'[x.time])
        BY <1>10, <3>1
      <3>3. x.seq # 0 => acked'[x.time][x.seq] = acked[x.time][x.seq]
        BY <1>10, <3>1
      <3> QED BY <3>1, <3>2, <3>3 DEF WellSealed
    <2>2. \A b \in Keys : \A n \in DOMAIN acked'[b] :
            acked'[b][n].time = b /\ acked'[b][n].seq = n - 1
      BY <1>2, <1>3, <1>5, <1>6, <1>11 DEF EntriesSound
    <2> QED BY <1>0, <1>1, <1>2, <2>1, <2>2 DEF EntriesSound
  <1>14. HeadSound'
    <2>1. \A b \in Keys : b > boot => acked'[b] = <<>>
      BY <1>2, <1>5, <1>8, Marks DEF HeadSound
    <2>2. /\ next_seq' = Len(acked'[boot]) /\ next_seq' # 0
          /\ prev_hash' = acked'[boot][next_seq']
      BY <1>1, <1>5, <1>9
    <2> QED BY <1>1, <1>3, <2>1, <2>2 DEF HeadSound
  <1>15. FilesPlaced' /\ OneLogPerRun' /\ KeyPinned'
    BY <1>0, <1>1, <1>2 DEF FilesPlaced, OneLogPerRun, OtherRuns, KeyPinned, RunOf
  <1>16. AckedAreSynced'
    <2> SUFFICES ASSUME ~damaged
                 PROVE  /\ \A f \in OldFiles : f # <<>> => HoldsAll(f, Len(f), RunOf(f))'
                        /\ HoldsAll(log_file, m, boot)'
                        /\ \A b \in Keys \ lost : acked'[b] # <<>> =>
                             \E f \in Range(archive) \union {log_file} : f # <<>> /\ RunOf(f) = b
      <3>1. UNCHANGED <<archive, log_file, boot, lost, damaged>> /\ synced' = m
        BY <1>1 DEF m
      <3>2. RunOf(log_file)' = boot' /\ m' = m
        BY <1>6, <3>1 DEF RunOf, m
      <3> QED BY <1>0, <3>1, <3>2 DEF AckedAreSynced, RunOf, HoldsAll
    <2>1. ASSUME NEW f \in OldFiles, f # <<>> PROVE HoldsAll(f, Len(f), RunOf(f))'
      <3>1. 1 \in DOMAIN f /\ RunOf(f) \in Keys
        BY <1>0, <1>2, <2>1, RunKnown
      <3>2. RunOf(f) # boot
        <4>1. RunOf(f) < boot /\ RunOf(f) \in Nat /\ boot \in Nat
          BY <1>2, <1>5, <3>1, Marks DEF FilesPlaced, RunOf
        <4> QED BY <4>1
      <3>3. acked'[RunOf(f)] = acked[RunOf(f)]
        BY <1>8, <3>1, <3>2
      <3>4. HoldsAll(f, Len(f), RunOf(f))
        BY <1>2, <2>1 DEF AckedAreSynced
      <3> QED BY <3>3, <3>4 DEF HoldsAll, RunOf
    <2>2. HoldsAll(log_file, m, boot)'
      <3> SUFFICES ASSUME NEW n \in DOMAIN acked'[boot]
                   PROVE  \E i \in 1 .. m : log_file[i] = [entry |-> acked'[boot][n], form |-> "whole"]
        BY <1>1 DEF HoldsAll, m
      <3>1. CASE n \in DOMAIN acked[boot] /\ acked'[boot][n] = acked[boot][n]
        <4>1. HoldsAll(log_file, synced, boot)
          BY <1>2, <1>3, <1>6 DEF AckedAreSynced
        <4>2. 1 .. synced \subseteq 1 .. m
          BY <1>4
        <4> QED BY <3>1, <4>1, <4>2 DEF HoldsAll
      <3>2. CASE acked'[boot][n] = e
        BY <1>4, <1>7, <3>2
      <3> QED BY <1>5, <1>11, <3>1, <3>2
    <2>3. \A b \in Keys \ lost : acked'[b] # <<>> =>
            \E f \in Range(archive) \union {log_file} : f # <<>> /\ RunOf(f) = b
      <3> TAKE b \in Keys \ lost
      <3>1. CASE b = boot
        BY <1>3, <1>6, <3>1
      <3>2. CASE b # boot
        BY <1>2, <1>8, <3>2 DEF AckedAreSynced
      <3> QED BY <3>1, <3>2
    <2> QED BY <2>1, <2>2, <2>3
  <1>17. HealthyChained'
    <2>1. \A f : Unharmed(f)' <=> Unharmed(f)
      BY <1>1 DEF Unharmed, RunOf
    <2>2. \A f : Chained(f)' <=> Chained(f)
      BY DEF Chained, verify_entry
    <2>3. ~damaged' => \A f \in Files' : Unharmed(f)' =>
                         Chained(f)' /\ (~power_lost' => f[1].entry.signer = pinned')
      BY <1>0, <1>1, <1>2, <2>1, <2>2 DEF HealthyChained
    <2>4. boot \notin unsure => m = next_seq + 1
      BY <1>1, <1>2, <1>3 DEF HealthyChained, m
    <2>5. phase' = "up" /\ boot' \notin unsure' =>
            /\ Len(log_file') = IF writing' = "written" THEN next_seq' + 1 ELSE next_seq'
            /\ next_seq' > 0 => prev_hash' = log_file'[next_seq'].entry
      BY <1>1, <1>3, <2>4 DEF m
    <2>6. synced' = Len(log_file')
      BY <1>1
    <2> QED BY <2>3, <2>5, <2>6, Zenon DEF HealthyChained
  <1> QED BY <1>12, <1>13, <1>14, <1>15, <1>16, <1>17 DEF IInv

(* Initially there is nothing, and every step keeps the invariant. *)
THEOREM Invariance == Spec => []IInv
PROOF
  <1>1. Init => IInv
    <2> SUFFICES ASSUME Init PROVE IInv
      OBVIOUS
    <2>1. Files = {<<>>} /\ OldFiles = {} /\ earlier = {} /\ lost = {}
      BY EmptyFile DEF Init, Files, OldFiles
    <2>2. 1 \in Keys /\ 0 \in 0 .. MaxFault /\ \A b \in Keys : acked[b] = <<>>
      BY RunsAssumption DEF Init, Keys
    <2>3. DOMAIN acked = Keys /\ acked = [b \in Keys |-> acked[b]]
      BY DEF Init, Keys
    <2>4. 0 \in 0 .. Len(log_file) /\ {} \subseteq 1 .. boot
      BY EmptyFile DEF Init
    <2>5. TypeOK
      BY <2>1, <2>2, <2>3, <2>4, EmptyFile DEF Init, TypeOK
    <2>6. EntriesSound /\ HeadSound /\ FilesPlaced /\ OneLogPerRun /\ AckedAreSynced /\ KeyPinned
      BY <2>1, <2>2, EmptyFile
      DEF Init, EntriesSound, HeadSound, FilesPlaced, OneLogPerRun, OtherRuns, AckedAreSynced,
          KeyPinned
    <2>7. HealthyChained
      BY <2>1, EmptyFile DEF Init, HealthyChained, Unharmed
    <2> QED BY <2>5, <2>6, <2>7 DEF IInv
  <1>2. ASSUME IInv, [Next]_vars PROVE IInv'
    <2>1. CASE LoadKey \/ CreateKeyFile \/ WriteKey
      BY <1>2, <2>1, KeySteps
    <2>2. CASE rotate_existing_log
      BY <1>2, <2>2, RotateStep
    <2>3. CASE open
      BY <1>2, <2>3, OpenStep
    <2>4. CASE \E event \in Appendable : Write(event)
      BY <1>2, <2>4, WriteStep
    <2>5. CASE SyncFails \/ \E event \in Appendable : WriteFails(event)
      BY <1>2, <2>5, FailSteps
    <2>6. CASE Sync
      BY <1>2, <2>6, SyncStep
    <2>7. CASE Crash
      BY <1>2, <2>7, CrashStep
    <2>8. CASE PowerLoss
      BY <1>2, <2>8, PowerLossStep
    <2>9. CASE Damage
      BY <1>2, <2>9, DamageStep
    <2>10. CASE UNCHANGED vars
      <3>1. UNCHANGED <<key_file, key_synced, exists, log_file, synced, archive, earlier, keypair,
                        phase, next_seq, prev_hash, writing, boot, faults, acked, unsure, pinned,
                        power_lost, lost, damaged>>
        BY <2>10 DEF vars, disk, head, history
      <3>5. Files' = Files /\ OldFiles' = OldFiles
        BY <3>1, SameFiles
      <3>2. TypeOK' /\ EntriesSound' /\ HeadSound' /\ FilesPlaced'
        BY <1>2, <3>1, <3>5 DEF IInv, TypeOK, EntriesSound, HeadSound, FilesPlaced, WellSealed
      <3>3. OneLogPerRun' /\ AckedAreSynced' /\ KeyPinned'
        BY <1>2, <3>1, <3>5
        DEF IInv, OneLogPerRun, OtherRuns, AckedAreSynced, KeyPinned, RunOf, HoldsAll
      <3>4. HealthyChained'
        BY <1>2, <3>1, <3>5 DEF IInv, HealthyChained, Unharmed, RunOf, Chained, verify_entry
      <3> QED BY <3>2, <3>3, <3>4 DEF IInv
    <2> QED BY <1>2, <2>1, <2>2, <2>3, <2>4, <2>5, <2>6, <2>7, <2>8, <2>9, <2>10 DEF Next
  <1> QED BY <1>1, <1>2, PTL DEF Spec

-----------------------------------------------------------------------------
(* What the invariant says of the verifier.                                *)

(* A chain that verifies, whoever assembled it, is that of one run, and    *)
(* each of its entries but the last was acknowledged at its place: its     *)
(* successor carries it as the hash its run acknowledged there.            *)
LEMMA Genuine ==
  ASSUME IInv, NEW b \in Keys, NEW k, NEW f \in LogsOf(b), verify_chain(f, k)
  PROVE  /\ IsSequence(f) /\ Len(f) \in Nat \ {0} /\ DOMAIN f = 1 .. Len(f)
         /\ \A i \in DOMAIN f : parses(f, i) /\ f[i].entry.seq = i - 1
         /\ \A i \in DOMAIN f : f[i].entry.time = b
         /\ \A i \in 1 .. Len(f) - 1 : i \in DOMAIN acked[b] /\ f[i].entry = acked[b][i]
PROOF
  <1>1. f \in Files /\ f # <<>> /\ f[1].entry.time = b
    BY DEF LogsOf, Logs, Files, OldFiles
  <1>2. IsSequence(f) /\ \A i \in DOMAIN f : WellSealed(f[i].entry)
    BY <1>1 DEF IInv, TypeOK, EntriesSound
  <1>3. Len(f) \in Nat \ {0} /\ DOMAIN f = 1 .. Len(f)
    BY <1>1, <1>2, FileFacts
  <1>4. \A i \in DOMAIN f : parses(f, i) /\ f[i].entry.seq = i - 1
    BY DEF verify_chain, verify_entry
  <1>5. ASSUME NEW i \in 1 .. Len(f) - 1
        PROVE  LET t == f[i + 1].entry.time IN
               /\ t \in Keys /\ i \in DOMAIN acked[t] /\ f[i].entry = acked[t][i]
               /\ f[i].entry.time = t
    <2> DEFINE x == f[i + 1].entry
               t == x.time
    <2>1. i + 1 \in DOMAIN f /\ i + 1 # 1 /\ (i + 1) - 1 = i /\ i # 0 /\ i \in Nat
      BY <1>3
    <2>2. x.seq = i /\ x.prev_hash = f[i].entry
      <3>1. verify_entry(x, (i + 1) - 1, IF i + 1 = 1 THEN GENESIS_PREV_HASH
                                                      ELSE f[(i + 1) - 1].entry, k)
        BY <2>1 DEF verify_chain
      <3> HIDE DEF x
      <3> QED BY <2>1, <3>1 DEF verify_entry
    <2>3. t \in Keys /\ i \in 0 .. Len(acked[t]) /\ f[i].entry = acked[t][i]
      <3>1. WellSealed(x)
        BY <1>2, <2>1
      <3> HIDE DEF x
      <3> QED BY <2>1, <2>2, <3>1 DEF WellSealed
    <2> HIDE DEF x
    <2>4. IsSequence(acked[t])
      BY <2>3 DEF IInv, TypeOK
    <2>5. i \in DOMAIN acked[t]
      BY <2>1, <2>3, <2>4, FileFacts
    <2>6. acked[t][i].time = t
      BY <2>3, <2>5 DEF IInv, EntriesSound
    <2> QED BY <2>3, <2>5, <2>6 DEF x
  <1>6. \A i \in DOMAIN f : f[i].entry.time = b
    <2> DEFINE Strange == {i \in DOMAIN f : f[i].entry.time # b}
    <2> SUFFICES ASSUME Strange # {} PROVE FALSE
      OBVIOUS
    <2>1. Strange \in SUBSET Nat
      BY <1>3
    <2>2. PICK i \in Strange : \A j \in Strange : ~(<<j, i>> \in OpToRel(<, Nat))
      <3> HIDE DEF Strange
      <3> QED BY <2>1, WFMin, NatLessThanWellFounded
    <2>3. \A j \in Strange : ~(j < i)
      BY <2>1, <2>2 DEF OpToRel
    <2>4. i \in DOMAIN f /\ f[i].entry.time # b /\ i # 1
      BY <1>1
    <2>5. i - 1 \in 1 .. Len(f) - 1 /\ i - 1 \in DOMAIN f /\ i - 1 < i /\ (i - 1) + 1 = i
      BY <1>3, <2>4
    <2>6. f[i - 1].entry.time = f[i].entry.time
      BY <1>5, <2>5
    <2>7. i - 1 \in Strange
      BY <2>4, <2>5, <2>6
    <2> QED BY <2>3, <2>5, <2>7
  <1>7. \A i \in 1 .. Len(f) - 1 : i \in DOMAIN acked[b] /\ f[i].entry = acked[b][i]
    <2> TAKE i \in 1 .. Len(f) - 1
    <2>1. i + 1 \in DOMAIN f
      BY <1>3
    <2> QED BY <1>5, <1>6, <2>1
  <1> QED BY <1>2, <1>3, <1>4, <1>6, <1>7

(* A sequence whose items are the first of another one's is its prefix. *)
LEMMA Prefix ==
  ASSUME NEW s, NEW t, IsSequence(s), IsSequence(t), Len(s) <= Len(t),
         \A i \in 1 .. Len(s) : s[i] = t[i]
  PROVE  IsPrefix(s, t)
PROOF
  <1>1. Len(s) \in Nat /\ Len(t) \in Nat /\ s \in Seq(Range(s))
    BY FileFacts DEF IsSequence
  <1>2. SubSeq(s, 1, Len(s)) = s
    BY <1>1, SubSeqFull
  <1>3. 1 \in Nat \ {0} /\ Len(s) \in 0 .. Len(t)
    BY <1>1
  <1> DEFINE p == SubSeq(t, 1, Len(s))
             S == Range(s) \union Range(t)
  <1>4. /\ p \in Seq(Range(t)) /\ Len(p) = Len(s)
        /\ \A i \in 1 .. Len(s) : p[i] = t[i]
    BY <1>3, Part
  <1> HIDE DEF p
  <1>5. s \in Seq(S) /\ p \in Seq(S)
    BY <1>1, <1>4, SeqMonotonic
  <1> HIDE DEF S
  <1>6. s = p
    BY <1>4, <1>5, SeqEqual
  <1> QED BY <1>2, <1>6 DEF IsPrefix, p

(* The entries of a file are as many as its items. *)
LEMMA EntriesOf ==
  ASSUME NEW f, IsSequence(f)
  PROVE  /\ IsSequence(Entries(f)) /\ Len(Entries(f)) = Len(f)
         /\ \A i \in 1 .. Len(f) : Entries(f)[i] = f[i].entry
PROOF
  <1>1. Len(f) \in Nat /\ DOMAIN f = 1 .. Len(f)
    BY FileFacts
  <1> DEFINE S == {f[i].entry : i \in 1 .. Len(f)}
  <1>2. /\ Entries(f) \in [1 .. Len(f) -> S] /\ DOMAIN Entries(f) = 1 .. Len(f)
        /\ \A i \in 1 .. Len(f) : Entries(f)[i] = f[i].entry
    BY <1>1 DEF Entries
  <1> HIDE DEF S
  <1>3. Entries(f) \in Seq(S)
    BY <1>1, <1>2, SeqDef
  <1>4. Len(Entries(f)) \in Nat /\ DOMAIN Entries(f) = 1 .. Len(Entries(f))
    BY <1>3, LenProperties
  <1>5. \A m, n \in Nat : 1 .. m = 1 .. n => m = n
    OBVIOUS
  <1>6. Len(Entries(f)) = Len(f)
    BY <1>1, <1>2, <1>4, <1>5
  <1> QED BY <1>2, <1>3, <1>6, AnySequence

(* The viewer shows a log of which every line parses as it is. *)
LEMMA ShownWhole ==
  ASSUME NEW f, IsSequence(f), NEW k, \A i \in DOMAIN f : parses(f, i)
  PROVE  verify_and_render(f, k).shown = Entries(f)
PROOF
  <1> DEFINE good == {i \in DOMAIN f : parses(f, i)}
             upto(i) == {j \in 1 .. i : parses(f, j)}
             at(n) == CHOOSE i \in DOMAIN f : parses(f, i) /\ n = Cardinality(upto(i))
  <1>1. Len(f) \in Nat /\ DOMAIN f = 1 .. Len(f)
    BY FileFacts
  <1>2. good = 1 .. Len(f)
    BY <1>1
  <1>3. ASSUME NEW i \in DOMAIN f PROVE upto(i) = 1 .. i /\ Cardinality(1 .. i) = i
    <2>1. i \in Nat \ {0} /\ 1 .. i \subseteq DOMAIN f
      BY <1>1
    <2>2. upto(i) = 1 .. i
      BY <2>1
    <2>3. Cardinality(1 .. i) = i
      BY <2>1, FS_Interval
    <2> QED BY <2>2, <2>3
  <1>4. Cardinality(good) = Len(f)
    <2>1. ASSUME NEW n \in Nat PROVE Cardinality(1 .. n) = n
      <3>1. Cardinality(1 .. n) = IF 1 > n THEN 0 ELSE n - 1 + 1
        BY FS_Interval
      <3> QED BY <3>1
    <2> HIDE DEF good
    <2> QED BY <1>1, <1>2, <2>1
  <1>5. \A n \in 1 .. Len(f) : at(n) = n
    <2> TAKE n \in 1 .. Len(f)
    <2>1. n \in DOMAIN f /\ parses(f, n) /\ n = Cardinality(upto(n))
      BY <1>1, <1>3
    <2>2. \A i \in DOMAIN f : n = Cardinality(upto(i)) => i = n
      BY <1>3
    <2> HIDE DEF upto
    <2> QED BY <2>1, <2>2
  <1>6. verify_and_render(f, k).shown = [n \in 1 .. Cardinality(good) |-> f[at(n)].entry]
    BY DEF verify_and_render
  <1> HIDE DEF good, at
  <1>7. [n \in 1 .. Cardinality(good) |-> f[at(n)].entry] = [n \in 1 .. Len(f) |-> f[n].entry]
    BY <1>4, <1>5
  <1> QED BY <1>1, <1>6, <1>7 DEF Entries

(* What is synced is kept. *)
LEMMA KeptNow == IInv => AckedAreKept
PROOF
  <1> SUFFICES ASSUME IInv, ~damaged, NEW b \in Keys
               PROVE  /\ \A f \in LogsOf(b) : \A n \in DOMAIN acked[b] :
                           \E i \in DOMAIN f : f[i] = [entry |-> acked[b][n], form |-> "whole"]
                      /\ acked[b] # <<>> /\ b \notin lost => LogsOf(b) # {}
    BY DEF AckedAreKept
  <1>1. \A f \in Files : IsSequence(f)
    BY DEF IInv, TypeOK
  <1>2. ASSUME NEW f \in LogsOf(b)
        PROVE  /\ DOMAIN f = 1 .. Len(f) /\ Len(f) \in Nat
               /\ \E m \in 0 .. Len(f) : HoldsAll(f, m, b)
    <2>1. f \in Files /\ f # <<>> /\ RunOf(f) = b /\ (f \in OldFiles \/ f = log_file)
      BY DEF LogsOf, Logs, RunOf, Files, OldFiles
    <2>2. Len(f) \in Nat /\ DOMAIN f = 1 .. Len(f) /\ Len(f) \in 0 .. Len(f)
      BY <1>1, <2>1, FileFacts
    <2>3. f \in OldFiles => HoldsAll(f, Len(f), b)
      BY <2>1 DEF IInv, AckedAreSynced
    <2>4. f = log_file => HoldsAll(f, synced, b) /\ synced \in 0 .. Len(f)
      BY <2>1 DEF IInv, AckedAreSynced, TypeOK
    <2> QED BY <2>1, <2>2, <2>3, <2>4
  <1>3. \A f \in LogsOf(b) : \A n \in DOMAIN acked[b] :
          \E i \in DOMAIN f : f[i] = [entry |-> acked[b][n], form |-> "whole"]
    <2> TAKE f \in LogsOf(b)
    <2>1. PICK m \in 0 .. Len(f) : HoldsAll(f, m, b)
      BY <1>2
    <2>2. 1 .. m \subseteq DOMAIN f
      BY <1>2, <2>1
    <2> QED BY <2>1, <2>2 DEF HoldsAll
  <1>4. acked[b] # <<>> /\ b \notin lost => LogsOf(b) # {}
    <2>1. \A f \in Range(archive) \union {log_file} :
            f # <<>> /\ RunOf(f) = b => f \in LogsOf(b)
      BY DEF IInv, TypeOK, LogsOf, Logs, RunOf
    <2> QED BY <2>1 DEF IInv, AckedAreSynced
  <1> QED BY <1>3, <1>4

-----------------------------------------------------------------------------
(* The theorems.                                                           *)

(* An entry whose append returned Ok (AuditLog::append, commit_line) is in *)
(* its run's log, whole, through any number of crashes, power failures,    *)
(* failed appends and rotations.  A log is missing only if a rotation to   *)
(* its name replaced it (rotate_existing_log) or a power failure took its  *)
(* name from the directory, which nobody syncs.                            *)
THEOREM AcknowledgedIsDurable == Spec => []AckedAreKept
PROOF
  BY KeptNow, Invariance, PTL

(* The verifier (verify_chain) raises no false alarm: the log of a run no  *)
(* append of which failed is accepted at every moment.                     *)
THEOREM NoFalseAlarm == Spec => []HealthyLogVerifies
PROOF
  <1>1. ASSUME IInv PROVE HealthyLogVerifies
    <2> SUFFICES ASSUME ~damaged, NEW b \in Keys \ unsure, NEW f \in LogsOf(b)
                 PROVE  verify_chain(f, IF power_lost THEN f[1].entry.signer ELSE pinned)
      BY DEF HealthyLogVerifies
    <2>1. f \in Files /\ Unharmed(f)
      BY DEF LogsOf, Logs, Files, OldFiles, Unharmed, RunOf
    <2>2. Chained(f) /\ (~power_lost => f[1].entry.signer = pinned)
      BY <1>1, <2>1 DEF IInv, HealthyChained
    <2>3. IsSequence(f) /\ f # <<>>
      BY <1>1, <2>1 DEF IInv, TypeOK, Unharmed
    <2>4. Len(f) \in Nat /\ DOMAIN f = 1 .. Len(f)
      BY <2>3, FileFacts
    <2>5. \A i \in DOMAIN f : parses(f, i)
      <3> TAKE i \in DOMAIN f
      <3>1. i > 1 => i - 1 \in DOMAIN f
        BY <2>4
      <3> QED BY <2>2, <3>1 DEF Chained, parses
    <2>6. verify_chain(f, f[1].entry.signer)
      BY <2>2, <2>3, <2>5 DEF Chained, verify_chain
    <2>7. (IF power_lost THEN f[1].entry.signer ELSE pinned) = f[1].entry.signer
      BY <2>2
    <2> QED BY <2>6, <2>7
  <1> QED BY <1>1, Invariance, PTL

(* Of any log, damaged or not, the verifier accepts only the chain that    *)
(* one run wrote; of an undamaged one, nothing acknowledged is missing and *)
(* at most one entry more is there, and the viewer shows all of it         *)
(* (verify_chain, verify_and_render).                                      *)
THEOREM VerdictIsTrue == Spec => []VerifiedIsTrue
PROOF
  <1>1. ASSUME IInv PROVE AcceptedIsGenuine
    <2> SUFFICES ASSUME NEW b \in Keys, NEW k \in Keys, NEW f \in LogsOf(b), verify_chain(f, k)
                 PROVE  /\ \A i \in DOMAIN f : f[i].entry.time = b
                        /\ IsPrefix(Front(Entries(f)), acked[b])
      BY DEF AcceptedIsGenuine
    <2>1. /\ IsSequence(f) /\ Len(f) \in Nat \ {0}
          /\ \A i \in DOMAIN f : f[i].entry.time = b
          /\ \A i \in 1 .. Len(f) - 1 : i \in DOMAIN acked[b] /\ f[i].entry = acked[b][i]
      BY <1>1, Genuine
    <2>2. IsSequence(acked[b])
      BY <1>1 DEF IInv, TypeOK
    <2>3. Len(acked[b]) \in Nat /\ DOMAIN acked[b] = 1 .. Len(acked[b])
      BY <2>2, FileFacts
    <2>4. /\ IsSequence(Entries(f)) /\ Len(Entries(f)) = Len(f)
          /\ \A i \in 1 .. Len(f) : Entries(f)[i] = f[i].entry
      BY <2>1, EntriesOf
    <2> DEFINE p == SubSeq(Entries(f), 1, Len(f) - 1)
    <2>5. 1 \in Nat \ {0} /\ Len(f) - 1 \in 0 .. Len(f)
      BY <2>1
    <2>6. /\ p \in Seq(Range(Entries(f))) /\ Len(p) = Len(f) - 1
          /\ \A i \in 1 .. Len(f) - 1 : p[i] = Entries(f)[i]
      BY <2>4, <2>5, Part
    <2> HIDE DEF p
    <2>7. IsSequence(p)
      BY <2>6, AnySequence
    <2>8. Len(f) - 1 <= Len(acked[b])
      <3>1. CASE Len(f) = 1
        BY <2>3, <3>1
      <3>2. CASE Len(f) # 1
        <4>1. Len(f) - 1 \in 1 .. Len(f) - 1
          <5>1. \A n \in Nat \ {0} : n # 1 => n - 1 \in 1 .. n - 1
            OBVIOUS
          <5>2. Len(f) \in Nat \ {0}
            BY <2>1
          <5> QED BY <3>2, <5>1, <5>2
        <4>2. Len(f) - 1 \in DOMAIN acked[b]
          BY <2>1, <4>1
        <4> QED BY <2>3, <4>2
      <3> QED BY <3>1, <3>2
    <2>9. \A i \in 1 .. Len(p) : p[i] = acked[b][i]
      <3> TAKE i \in 1 .. Len(p)
      <3>1. i \in 1 .. Len(f) - 1 /\ i \in 1 .. Len(f)
        BY <2>1, <2>6
      <3> QED BY <2>1, <2>4, <2>6, <3>1
    <2>10. IsPrefix(p, acked[b])
      BY <2>2, <2>6, <2>7, <2>8, <2>9, Prefix
    <2> QED BY <2>1, <2>4, <2>10 DEF Front, p
  <1>2. ASSUME IInv PROVE NoShorterChain
    <2> SUFFICES ASSUME ~damaged, NEW b \in Keys, NEW k \in Keys, NEW f \in LogsOf(b),
                        verify_chain(f, k)
                 PROVE  LET shown == verify_and_render(f, k).shown IN
                        IsPrefix(acked[b], shown) /\ Len(shown) <= Len(acked[b]) + 1
      BY DEF NoShorterChain, verify_and_render
    <2>1. /\ IsSequence(f) /\ Len(f) \in Nat \ {0} /\ DOMAIN f = 1 .. Len(f)
          /\ \A i \in DOMAIN f : parses(f, i) /\ f[i].entry.seq = i - 1
          /\ \A i \in 1 .. Len(f) - 1 : i \in DOMAIN acked[b]
      BY <1>2, Genuine
    <2>2. verify_and_render(f, k).shown = Entries(f)
      BY <2>1, ShownWhole
    <2>3. /\ IsSequence(Entries(f)) /\ Len(Entries(f)) = Len(f)
          /\ \A i \in 1 .. Len(f) : Entries(f)[i] = f[i].entry
      BY <2>1, EntriesOf
    <2>4. IsSequence(acked[b])
      BY <1>2 DEF IInv, TypeOK
    <2>5. Len(acked[b]) \in Nat /\ DOMAIN acked[b] = 1 .. Len(acked[b])
      BY <2>4, FileFacts
    <2>7. ASSUME NEW n \in DOMAIN acked[b] PROVE n \in DOMAIN f /\ f[n].entry = acked[b][n]
      <3>1. AckedAreKept
        BY <1>2, KeptNow
      <3>2. PICK i \in DOMAIN f : f[i] = [entry |-> acked[b][n], form |-> "whole"]
        BY <1>2, <3>1 DEF AckedAreKept
      <3>3. f[i].entry = acked[b][n]
        BY <3>2
      <3>4. acked[b][n].seq = n - 1
        BY <1>2 DEF IInv, EntriesSound
      <3>5. i - 1 = n - 1 /\ i \in Nat /\ n \in Nat
        BY <2>1, <2>5, <3>3, <3>4
      <3>6. i = n
        BY <3>5
      <3> QED BY <3>3, <3>6
    <2>8. Len(acked[b]) <= Len(f)
      <3>1. CASE Len(acked[b]) = 0
        BY <2>1, <3>1
      <3>2. CASE Len(acked[b]) # 0
        <4>1. Len(acked[b]) \in DOMAIN acked[b]
          BY <2>5, <3>2
        <4>2. Len(acked[b]) \in DOMAIN f
          BY <2>7, <4>1
        <4> QED BY <2>1, <4>2
      <3> QED BY <3>1, <3>2
    <2>9. \A i \in 1 .. Len(acked[b]) : acked[b][i] = Entries(f)[i]
      BY <2>1, <2>3, <2>5, <2>7
    <2>10. IsPrefix(acked[b], Entries(f))
      BY <2>3, <2>4, <2>8, <2>9, Prefix
    <2>11. Len(f) <= Len(acked[b]) + 1
      <3>1. CASE Len(f) = 1
        BY <2>5, <3>1
      <3>2. CASE Len(f) # 1
        <4>1. Len(f) - 1 \in 1 .. Len(f) - 1
          <5>1. \A n \in Nat \ {0} : n # 1 => n - 1 \in 1 .. n - 1
            OBVIOUS
          <5>2. Len(f) \in Nat \ {0}
            BY <2>1
          <5> QED BY <3>2, <5>1, <5>2
        <4>2. Len(f) - 1 \in DOMAIN acked[b]
          BY <2>1, <4>1
        <4> QED BY <2>1, <2>5, <4>2
      <3> QED BY <3>1, <3>2
    <2> QED BY <2>2, <2>3, <2>10, <2>11
  <1> QED BY <1>1, <1>2, Invariance, PTL DEF VerifiedIsTrue
=============================================================================
