--------------------------- MODULE ProvisioningProofs ---------------------------
(***************************************************************************)
(* Proofs about setup, the operators' files and the daemon's start: the    *)
(* inductive invariant IInv of Provisioning is preserved by every step of  *)
(* setup, of the daemon and of the operators, and by an interruption at    *)
(* any of setup's stages.  A step of setup leaves the daemon's part alone  *)
(* (DaemonFrame) and a step of the daemon setup's (SetupFrame).            *)
(***************************************************************************)
EXTENDS Provisioning, SequenceTheorems, TLAPS

USE DEF files, loader, locals, daemon, history, bounds, Goto, At, Actor

(* A key is a positive number, so no marker is one. *)
LEMMA KeysArePositive ==
  /\ \A k \in Key : k \in Nat /\ k > 0
  /\ Absent \notin Key /\ Empty \notin Key /\ Torn \notin Key
  BY ProvisioningAssumption DEF Key, Absent, Empty, Torn

(* A step that is not the daemon's: keys and endorsements only grow. *)
DaemonSame ==
  /\ UNCHANGED daemon /\ keys <= keys' /\ keys' \in Nat /\ endorsed \subseteq endorsed'
  /\ pc'["daemon"] = pc["daemon"] /\ cur'["daemon"] = cur["daemon"]
  /\ found'["daemon"] = found["daemon"]
(* A step of the daemon. *)
SetupSame ==
  /\ UNCHANGED <<files, locals, history, bounds>>
  /\ pc'["setup"] = pc["setup"] /\ todo'["setup"] = todo["setup"]
  /\ cur'["setup"] = cur["setup"] /\ found'["setup"] = found["setup"]

(* Appending a line adds exactly that line to the lines of a file. *)
LEMMA RangeOfAppend ==
  ASSUME NEW S, NEW s \in Seq(S), NEW x
  PROVE  Range(Append(s, x)) = Range(s) \union {x}
  BY DEF Range

(* A step that leaves the daemon where it is keeps what its stages rely    *)
(* on: an endorsement or a generated key is never withdrawn.               *)
LEMMA DaemonFrame ==
  IInv /\ DaemonSame => DaemonHolds' /\ LoadedIsSigned'
PROOF
  <1> SUFFICES ASSUME IInv, DaemonSame PROVE DaemonHolds' /\ LoadedIsSigned'
    OBVIOUS
  <1>1. DaemonHolds'
    BY DEF IInv, TypeOK, KeysTyped, DaemonSame, DaemonHolds, PublishedWhole
  <1>2. LoadedIsSigned'
    BY DEF IInv, DaemonSame, LoadedIsSigned
  <1> QED BY <1>1, <1>2

(* A step of the daemon keeps what setup's stages rely on: the daemon      *)
(* writes none of setup's files (archangeld main.rs only reads them).      *)
LEMMA SetupFrame ==
  IInv /\ SetupSame =>
    /\ SetupHolds' /\ NothingDropped' /\ CalmProgress' /\ (interrupts = 0 => Progress)'
    /\ (settled => AllInPlace)' /\ AllowlistEndorsed'
PROOF
  <1> SUFFICES ASSUME IInv, SetupSame
               PROVE  /\ SetupHolds' /\ NothingDropped' /\ CalmProgress' /\ (interrupts = 0 => Progress)'
                      /\ (settled => AllInPlace)' /\ AllowlistEndorsed'
    OBVIOUS
  <1>1. SetupHolds'
    BY DEF IInv, SetupSame, SetupHolds, Present
  <1>2. NothingDropped'
    BY DEF IInv, SetupSame, NothingDropped
  <1>3. (interrupts = 0 => Progress)'
    BY DEF IInv, SetupSame, Progress, Present
  <1>4. (settled => AllInPlace)'
    BY DEF IInv, SetupSame, AllInPlace, Present
  <1>5. AllowlistEndorsed'
    BY DEF IInv, SetupSame, AllowlistEndorsed
  <1>6. CalmProgress'
    BY DEF IInv, SetupSame, CalmProgress, Present
  <1> QED BY <1>1, <1>2, <1>3, <1>4, <1>5, <1>6

(* A run of setup may begin in any state an earlier one left: its locals   *)
(* are fresh and the keys to preserve are those trusted now.               *)
LEMMA StartIInv == IInv /\ Start => IInv'
PROOF
  <1> SUFFICES ASSUME IInv, Start PROVE IInv'
    OBVIOUS
  <1>1. TypeOK'
    <2>1. KeysTyped'
      <3>1. misread' \in BOOLEAN
        BY Zenon DEF Start
      <3>2. content' \in Seq(Line)
        BY DEF Start
      <3> QED BY <3>1, <3>2 DEF IInv, TypeOK, KeysTyped, Mine, Line, Start
    <2>2. FilesTyped'
      BY DEF IInv, TypeOK, FilesTyped, Start
    <2>3. StepsTyped'
      BY DEF IInv, TypeOK, StepsTyped, SetupStage, Start
    <2>4. DaemonTyped'
      BY DEF IInv, TypeOK, DaemonTyped, Start
    <2> QED BY <2>1, <2>2, <2>3, <2>4 DEF TypeOK
  <1>2. SetupHolds'
    BY DEF IInv, TypeOK, FilesTyped, SetupHolds, Absent, Present, Start
  <1>3. DaemonSame
    BY DEF IInv, TypeOK, KeysTyped, DaemonSame, Start
  <1>4. NothingDropped'
    BY DEF IInv, TypeOK, NothingDropped, Start
  <1>5. (interrupts = 0 => Progress)'
    BY DEF IInv, TypeOK, Progress, KeyPending, Trusted, Start
  <1>6. (settled => AllInPlace)'
    BY DEF IInv, TypeOK, AllInPlace, Present, Start
  <1>7. AllowlistEndorsed'
    BY DEF IInv, TypeOK, AllowlistEndorsed, Start
  <1>8. CalmProgress'
    BY DEF IInv, TypeOK, StepsTyped, CalmProgress, KeyPending, Trusted, SetupStage, Signing,
       Present, Start
  <1> QED BY <1>1, <1>2, <1>3, <1>4, <1>5, <1>6, <1>7, <1>8, DaemonFrame DEF IInv

(* Setup that finds operator.key goes on to operator.pub (setup.rs, step   *)
(* 1); without an interruption that is the other half of the pair.         *)
LEMMA KeepKeyIInv == IInv /\ KeepKey => IInv'
PROOF
  <1> SUFFICES ASSUME IInv, KeepKey PROVE IInv'
    OBVIOUS
  <1>1. TypeOK'
    <2>1. KeysTyped'
      BY DEF IInv, TypeOK, KeysTyped, Mine, Line, KeepKey
    <2>2. FilesTyped'
      BY DEF IInv, TypeOK, FilesTyped, KeepKey
    <2>3. StepsTyped'
      BY DEF IInv, TypeOK, StepsTyped, SetupStage, KeepKey
    <2>4. DaemonTyped'
      BY DEF IInv, TypeOK, DaemonTyped, KeepKey
    <2> QED BY <2>1, <2>2, <2>3, <2>4 DEF TypeOK
  <1>2. SetupHolds'
    BY DEF IInv, TypeOK, SetupHolds, Present, KeepKey
  <1>3. DaemonSame
    BY DEF IInv, TypeOK, KeysTyped, DaemonSame, KeepKey
  <1>4. NothingDropped'
    BY DEF IInv, TypeOK, NothingDropped, KeepKey
  <1>5. (interrupts = 0 => Progress)'
    BY DEF IInv, TypeOK, Progress, Trusted, Present, KeepKey
  <1>6. (settled => AllInPlace)'
    BY DEF IInv, TypeOK, AllInPlace, Present, KeepKey
  <1>7. AllowlistEndorsed'
    BY DEF IInv, TypeOK, AllowlistEndorsed, KeepKey
  <1>8. CalmProgress'
    BY DEF IInv, TypeOK, StepsTyped, CalmProgress, KeyPending, Trusted, SetupStage, Signing,
       Present, KeepKey
  <1> QED BY <1>1, <1>2, <1>3, <1>4, <1>5, <1>6, <1>7, <1>8, DaemonFrame DEF IInv

(* init_operator_key starts a fresh key in an empty file, or fails where   *)
(* either file exists (keys.rs).                                           *)
LEMMA init_operator_keyIInv == IInv /\ init_operator_key => IInv'
PROOF
  <1> SUFFICES ASSUME IInv, init_operator_key PROVE IInv'
    OBVIOUS
  <1>1. TypeOK'
    <2>1. KeysTyped'
      BY ProvisioningAssumption DEF IInv, TypeOK, KeysTyped, Mine, Line, init_operator_key
    <2>2. FilesTyped'
      BY DEF IInv, TypeOK, FilesTyped, init_operator_key
    <2>3. StepsTyped'
      BY DEF IInv, TypeOK, StepsTyped, SetupStage, init_operator_key, Fail
    <2>4. DaemonTyped'
      BY DEF IInv, TypeOK, DaemonTyped, KeysTyped, init_operator_key
    <2> QED BY <2>1, <2>2, <2>3, <2>4 DEF TypeOK
  <1>2. SetupHolds'
    <2>1. CASE pk # Absent
      BY <2>1 DEF IInv, TypeOK, StepsTyped, SetupHolds, Present, init_operator_key, Fail
    <2>2. CASE pk = Absent
      <3>1. new_key' # Absent /\ sk' = Empty /\ pc' = [pc EXCEPT !["setup"] = "key_w"]
        BY <2>2 DEF IInv, TypeOK, KeysTyped, init_operator_key, Absent
      <3> QED BY <3>1 DEF IInv, TypeOK, StepsTyped, SetupHolds, Present, init_operator_key
    <2> QED BY <2>1, <2>2
  <1>3. DaemonSame
    BY DEF IInv, TypeOK, KeysTyped, StepsTyped, DaemonSame, init_operator_key, Fail
  <1>4. NothingDropped'
    BY DEF IInv, TypeOK, StepsTyped, NothingDropped, init_operator_key, Fail
  <1>5. (interrupts = 0 => Progress)'
    BY DEF IInv, TypeOK, StepsTyped, Progress, KeyPending, Trusted, init_operator_key
  <1>6. (settled => AllInPlace)'
    BY KeysArePositive DEF IInv, TypeOK, AllInPlace, init_operator_key
  <1>7. AllowlistEndorsed'
    BY DEF IInv, TypeOK, AllowlistEndorsed, init_operator_key
  <1>8. CalmProgress'
    BY DEF IInv, TypeOK, StepsTyped, CalmProgress, KeyPending, Trusted, SetupStage, Signing,
       Present, init_operator_key, Fail
  <1> QED BY <1>1, <1>2, <1>3, <1>4, <1>5, <1>6, <1>7, <1>8, DaemonFrame DEF IInv

(* The secret key is written into the file that was created for it. *)
LEMMA WriteSecretIInv == IInv /\ WriteSecret => IInv'
PROOF
  <1> SUFFICES ASSUME IInv, WriteSecret PROVE IInv'
    OBVIOUS
  <1>1. TypeOK'
    <2>1. KeysTyped'
      BY DEF IInv, TypeOK, KeysTyped, Mine, Line, WriteSecret
    <2>2. FilesTyped'
      BY DEF IInv, TypeOK, FilesTyped, WriteSecret
    <2>3. StepsTyped'
      BY DEF IInv, TypeOK, StepsTyped, SetupStage, WriteSecret
    <2>4. DaemonTyped'
      BY DEF IInv, TypeOK, DaemonTyped, WriteSecret
    <2> QED BY <2>1, <2>2, <2>3, <2>4 DEF TypeOK
  <1>2. SetupHolds'
    BY DEF IInv, TypeOK, StepsTyped, SetupHolds, Present, WriteSecret
  <1>3. DaemonSame
    BY DEF IInv, TypeOK, KeysTyped, DaemonSame, WriteSecret
  <1>4. NothingDropped'
    BY DEF IInv, TypeOK, NothingDropped, WriteSecret
  <1>5. (interrupts = 0 => Progress)'
    BY DEF IInv, TypeOK, Progress, KeyPending, Trusted, WriteSecret
  <1>6. (settled => AllInPlace)'
    BY DEF IInv, TypeOK, AllInPlace, WriteSecret
  <1>7. AllowlistEndorsed'
    BY DEF IInv, TypeOK, AllowlistEndorsed, WriteSecret
  <1>8. CalmProgress'
    BY DEF IInv, TypeOK, StepsTyped, CalmProgress, KeyPending, Trusted, SetupStage, Signing,
       Present, WriteSecret
  <1> QED BY <1>1, <1>2, <1>3, <1>4, <1>5, <1>6, <1>7, <1>8, DaemonFrame DEF IInv

(* operator.pub is created, or setup fails because it is there. *)
LEMMA CreatePublicIInv == IInv /\ CreatePublic => IInv'
PROOF
  <1> SUFFICES ASSUME IInv, CreatePublic PROVE IInv'
    OBVIOUS
  <1>1. TypeOK'
    <2>1. KeysTyped'
      BY DEF IInv, TypeOK, KeysTyped, Mine, Line, CreatePublic
    <2>2. FilesTyped'
      BY DEF IInv, TypeOK, FilesTyped, CreatePublic
    <2>3. StepsTyped'
      BY DEF IInv, TypeOK, StepsTyped, SetupStage, CreatePublic, Fail
    <2>4. DaemonTyped'
      BY DEF IInv, TypeOK, DaemonTyped, CreatePublic
    <2> QED BY <2>1, <2>2, <2>3, <2>4 DEF TypeOK
  <1>2. SetupHolds'
    BY KeysArePositive DEF IInv, TypeOK, StepsTyped, SetupHolds, Present, CreatePublic, Fail
  <1>3. DaemonSame
    BY DEF IInv, TypeOK, KeysTyped, StepsTyped, DaemonSame, CreatePublic, Fail
  <1>4. NothingDropped'
    BY DEF IInv, TypeOK, StepsTyped, NothingDropped, CreatePublic, Fail
  <1>5. (interrupts = 0 => Progress)'
    BY DEF IInv, TypeOK, StepsTyped, Progress, KeyPending, Trusted, CreatePublic
  <1>6. (settled => AllInPlace)'
    BY DEF IInv, TypeOK, AllInPlace, CreatePublic
  <1>7. AllowlistEndorsed'
    BY DEF IInv, TypeOK, AllowlistEndorsed, CreatePublic
  <1>8. CalmProgress'
    BY KeysArePositive DEF IInv, TypeOK, StepsTyped, CalmProgress, KeyPending, Trusted,
       SetupStage, Signing, Present, CreatePublic, Fail, Empty, Absent
  <1> QED BY <1>1, <1>2, <1>3, <1>4, <1>5, <1>6, <1>7, <1>8, DaemonFrame DEF IInv

(* The public half written is that of the secret key written before. *)
LEMMA WritePublicIInv == IInv /\ WritePublic => IInv'
PROOF
  <1> SUFFICES ASSUME IInv, WritePublic PROVE IInv'
    OBVIOUS
  <1>1. TypeOK'
    <2>1. KeysTyped'
      BY DEF IInv, TypeOK, KeysTyped, Mine, Line, WritePublic
    <2>2. FilesTyped'
      BY DEF IInv, TypeOK, FilesTyped, WritePublic
    <2>3. StepsTyped'
      BY DEF IInv, TypeOK, StepsTyped, SetupStage, WritePublic
    <2>4. DaemonTyped'
      BY DEF IInv, TypeOK, DaemonTyped, WritePublic
    <2> QED BY <2>1, <2>2, <2>3, <2>4 DEF TypeOK
  <1>2. SetupHolds'
    BY DEF IInv, TypeOK, SetupHolds, Present, WritePublic
  <1>3. DaemonSame
    BY DEF IInv, TypeOK, KeysTyped, DaemonSame, WritePublic
  <1>4. NothingDropped'
    BY DEF IInv, TypeOK, NothingDropped, WritePublic
  <1>5. (interrupts = 0 => Progress)'
    <2>1. new_key \in Key
      BY ProvisioningAssumption DEF IInv, TypeOK, KeysTyped, SetupHolds, WritePublic, Key
    <2> QED BY <2>1 DEF IInv, TypeOK, StepsTyped, Progress, from_str, KeyPending, Trusted,
       SetupStage, Signing, Present, WritePublic
  <1>6. (settled => AllInPlace)'
    BY DEF IInv, TypeOK, AllInPlace, WritePublic
  <1>7. AllowlistEndorsed'
    BY DEF IInv, TypeOK, AllowlistEndorsed, WritePublic
  <1>8. CalmProgress'
    BY DEF IInv, TypeOK, StepsTyped, CalmProgress, KeyPending, Trusted, SetupStage, Signing,
       Present, WritePublic
  <1> QED BY <1>1, <1>2, <1>3, <1>4, <1>5, <1>6, <1>7, <1>8, DaemonFrame DEF IInv

(* Setup reads back operator.pub, whatever it holds, and fails without it. *)
LEMMA ReadPublicIInv == IInv /\ ReadPublic => IInv'
PROOF
  <1> SUFFICES ASSUME IInv, ReadPublic PROVE IInv'
    OBVIOUS
  <1>1. TypeOK'
    <2>1. KeysTyped'
      BY DEF IInv, TypeOK, KeysTyped, Mine, Line, ReadPublic
    <2>2. FilesTyped'
      BY DEF IInv, TypeOK, FilesTyped, ReadPublic
    <2>3. StepsTyped'
      BY DEF IInv, TypeOK, StepsTyped, SetupStage, ReadPublic, Fail
    <2>4. DaemonTyped'
      BY DEF IInv, TypeOK, DaemonTyped, ReadPublic
    <2> QED BY <2>1, <2>2, <2>3, <2>4 DEF TypeOK
  <1>2. SetupHolds'
    BY KeysArePositive DEF IInv, TypeOK, KeysTyped, StepsTyped, SetupHolds, Mine, Absent,
       Present, ReadPublic, Fail
  <1>3. DaemonSame
    BY DEF IInv, TypeOK, KeysTyped, StepsTyped, DaemonSame, ReadPublic, Fail
  <1>4. NothingDropped'
    BY DEF IInv, TypeOK, StepsTyped, NothingDropped, ReadPublic, Fail
  <1>5. (interrupts = 0 => Progress)'
    BY DEF IInv, TypeOK, StepsTyped, Progress, KeyPending, Trusted, ReadPublic, Fail
  <1>6. (settled => AllInPlace)'
    BY DEF IInv, TypeOK, StepsTyped, AllInPlace, Present, ReadPublic, Fail
  <1>7. AllowlistEndorsed'
    BY DEF IInv, TypeOK, AllowlistEndorsed, ReadPublic
  <1>8. CalmProgress'
    BY DEF IInv, TypeOK, StepsTyped, CalmProgress, KeyPending, Trusted, SetupStage, Signing,
       Present, ReadPublic, Fail, operators_pubkeys_update
  <1> QED BY <1>1, <1>2, <1>3, <1>4, <1>5, <1>6, <1>7, <1>8, DaemonFrame DEF IInv

(* operators_pubkeys_update keeps every line it read and has the own key   *)
(* among them, so nothing trusted is dropped from what will be written.    *)
LEMMA ReadTrustIInv == IInv /\ ReadTrust => IInv'
PROOF
  <1> SUFFICES ASSUME IInv, ReadTrust PROVE IInv'
    OBVIOUS
  <1>1. TypeOK'
    <2>1. KeysTyped'
      BY DEF IInv, TypeOK, KeysTyped, SetupHolds, Mine, Line, ReadTrust, Update, operators_pubkeys_update
    <2>2. FilesTyped'
      BY DEF IInv, TypeOK, FilesTyped, ReadTrust, Update, operators_pubkeys_update
    <2>3. StepsTyped'
      BY DEF IInv, TypeOK, StepsTyped, SetupStage, ReadTrust, Update, operators_pubkeys_update
    <2>4. DaemonTyped'
      BY DEF IInv, TypeOK, DaemonTyped, ReadTrust, Update, operators_pubkeys_update
    <2> QED BY <2>1, <2>2, <2>3, <2>4 DEF TypeOK
  <1>2. SetupHolds'
    BY DEF IInv, TypeOK, StepsTyped, SetupHolds, Present, ReadTrust, Update, operators_pubkeys_update
  <1>3. DaemonSame
    BY DEF IInv, TypeOK, KeysTyped, DaemonSame, ReadTrust, Update, operators_pubkeys_update
  <1>4. NothingDropped'
    BY RangeOfAppend DEF IInv, TypeOK, KeysTyped, NothingDropped, ReadTrust, Update,
       operators_pubkeys_update
  <1>5. (interrupts = 0 => Progress)'
    <2> SUFFICES ASSUME interrupts = 0 PROVE Progress'
      BY DEF ReadTrust
    <2>1. /\ my_pub = pk /\ pk = sk /\ sk \in Key /\ my_pub # Empty
          /\ from_str(trust.lines) /\ trust.lines \in Seq(Line) /\ Progress
      BY KeysArePositive DEF IInv, TypeOK, KeysTyped, ReadTrust, Progress, CalmProgress, KeyPending
    <2>2. CASE my_pub \in Range(trust.lines)
      <3>1. pc' = [pc EXCEPT !["setup"] = "list"]
        BY <2>1, <2>2 DEF ReadTrust, Update, operators_pubkeys_update
      <3> QED BY <2>1, <2>2, <3>1 DEF IInv, TypeOK, StepsTyped, Progress, from_str, KeyPending,
         Trusted, SetupStage, Signing, Present, ReadTrust
    <2>3. CASE my_pub \notin Range(trust.lines)
      <3>1. content' = Append(trust.lines, my_pub)
        BY <2>3 DEF ReadTrust, Update, operators_pubkeys_update
      <3>2. content' # <<>> /\ Range(content') = Range(trust.lines) \union {my_pub}
        BY <2>1, <3>1, RangeOfAppend
      <3>3. from_str(content')
        BY <2>1, <3>1 DEF from_str
      <3>4. pc' = [pc EXCEPT !["setup"] = "trust_o"]
        BY <3>2 DEF ReadTrust, Update
      <3> QED BY <2>1, <3>2, <3>3, <3>4 DEF IInv, TypeOK, StepsTyped, Progress, from_str,
         KeyPending, Trusted, SetupStage, Signing, Present, ReadTrust
    <2> QED BY <2>2, <2>3
  <1>6. (settled => AllInPlace)'
    BY KeysArePositive DEF IInv, TypeOK, StepsTyped, AllInPlace, CalmProgress, KeyPending, Present,
       ReadTrust, Update, operators_pubkeys_update
  <1>7. AllowlistEndorsed'
    BY DEF IInv, TypeOK, AllowlistEndorsed, ReadTrust, Update, operators_pubkeys_update
  <1>8. CalmProgress'
    <2>1. my_pub = pk /\ pk # Absent /\ trust.lines \in Seq(Line)
      BY DEF IInv, TypeOK, KeysTyped, ReadTrust, CalmProgress, KeyPending
    <2>2. CASE content' = <<>>
      <3>1. pc' = [pc EXCEPT !["setup"] = "list"]
        BY <2>2 DEF ReadTrust, Update
      <3>2. pk \in Range(trust.lines) /\ trust.there
        <4>1. Append(trust.lines, my_pub) # <<>>
          BY <2>1
        <4>2. my_pub \in Range(trust.lines)
          BY <2>2, <4>1 DEF ReadTrust, Update, operators_pubkeys_update
        <4>3. trust.lines # <<>>
          BY <4>2 DEF Range
        <4> QED BY <2>1, <4>2, <4>3 DEF IInv, SetupHolds
      <3> QED BY <2>1, <3>1, <3>2 DEF IInv, TypeOK, StepsTyped, CalmProgress, KeyPending, Trusted,
         Signing, Present, ReadTrust
    <2>3. CASE content' # <<>>
      <3>1. pc' = [pc EXCEPT !["setup"] = "trust_o"]
        BY <2>3 DEF ReadTrust, Update
      <3>2. pk \in Range(content')
        BY <2>1, <2>3, RangeOfAppend DEF ReadTrust, Update, operators_pubkeys_update
      <3> QED BY <2>1, <3>1, <3>2 DEF IInv, TypeOK, StepsTyped, CalmProgress, KeyPending, Trusted,
         Present, ReadTrust
    <2> QED BY <2>2, <2>3
  <1> QED BY <1>1, <1>2, <1>3, <1>4, <1>5, <1>6, <1>7, <1>8, DaemonFrame DEF IInv

(* A trust file that cannot be read counts as none, so only the own key    *)
(* will be written: what it had is exempt, and the run is not a settled    *)
(* one, for the failing read counts as an interruption and a file that is  *)
(* not text was edited or cut short.                                       *)
LEMMA MisreadTrustIInv == IInv /\ MisreadTrust => IInv'
PROOF
  <1> SUFFICES ASSUME IInv, MisreadTrust PROVE IInv'
    OBVIOUS
  <1>0. content' = <<my_pub>> /\ pc' = [pc EXCEPT !["setup"] = "trust_o"]
    BY DEF MisreadTrust, Update, operators_pubkeys_update, Range
  <1>a. /\ UNCHANGED <<files, loader, new_key, my_pub, daemon, keys, endorsed, must_trust, calm, edits>>
        /\ misread' = TRUE /\ pc["setup"] = "trust" /\ pc'["setup"] = "trust_o"
    BY <1>0 DEF MisreadTrust, IInv, TypeOK, StepsTyped
  <1>b. \/ interrupts' = interrupts /\ settled' = settled /\ ~trust.text
        \/ interrupts' = interrupts + 1 /\ settled' = FALSE
    BY Zenon DEF MisreadTrust
  <1>c. Range(content') = {my_pub} /\ my_pub \in Line
    BY <1>0, <1>a DEF IInv, TypeOK, KeysTyped, SetupHolds, Mine, Line, Range
  <1>1. TypeOK'
    <2>1. KeysTyped'
      BY <1>0, <1>a, <1>b, <1>c DEF IInv, TypeOK, KeysTyped, Mine, Line
    <2>2. FilesTyped' /\ DaemonTyped'
      BY <1>a DEF IInv, TypeOK, FilesTyped, DaemonTyped
    <2>3. StepsTyped'
      BY <1>0, <1>a DEF IInv, TypeOK, StepsTyped, SetupStage
    <2> QED BY <2>1, <2>2, <2>3 DEF TypeOK
  <1>2. SetupHolds' /\ NothingDropped' /\ AllowlistEndorsed'
    BY <1>a DEF IInv, SetupHolds, NothingDropped, AllowlistEndorsed, Present
  <1>3. DaemonSame
    BY <1>0, <1>a DEF IInv, TypeOK, KeysTyped, StepsTyped, DaemonSame
  <1>5. (interrupts = 0 => Progress)'
    <2> SUFFICES ASSUME interrupts' = 0 PROVE Progress'
      OBVIOUS
    <2>1. interrupts = 0
      BY <1>b DEF IInv, TypeOK, KeysTyped
    <2>2. my_pub \in Key
      BY <1>a, <2>1 DEF IInv, Progress, CalmProgress, KeyPending
    <2>3. from_str(content')
      BY <1>0, <2>2 DEF from_str
    <2> QED BY <1>a, <2>1, <2>3 DEF IInv, Progress, KeyPending
  <1>6. (settled => AllInPlace)'
    <2>1. settled' => settled /\ ~trust.text
      BY <1>b, Zenon
    <2> QED BY <2>1 DEF IInv, AllInPlace
  <1>8. CalmProgress'
    BY <1>a, <1>c DEF IInv, CalmProgress, KeyPending, Trusted, SetupStage, Signing, Present
  <1> QED BY <1>1, <1>2, <1>3, <1>5, <1>6, <1>8, DaemonFrame DEF IInv

(* Opening operators.pubkeys empties it; from here on the trusted keys are *)
(* only in setup's memory.                                                 *)
LEMMA OpenTrustIInv == IInv /\ OpenTrust => IInv'
PROOF
  <1> SUFFICES ASSUME IInv, OpenTrust PROVE IInv'
    OBVIOUS
  <1>1. TypeOK'
    <2>1. KeysTyped'
      <3>1. trust' = [there |-> TRUE, lines |-> <<>>, text |-> TRUE]
        BY DEF OpenTrust, NoTrust
      <3>2. trust' \in [there : BOOLEAN, lines : Seq(Line), text : BOOLEAN]
        BY <3>1
      <3> QED BY <3>2 DEF IInv, TypeOK, KeysTyped, Mine, Line, OpenTrust
    <2>2. FilesTyped'
      BY DEF IInv, TypeOK, FilesTyped, OpenTrust, Edit
    <2>3. StepsTyped'
      BY DEF IInv, TypeOK, StepsTyped, SetupStage, OpenTrust, Edit
    <2>4. DaemonTyped'
      BY DEF IInv, TypeOK, DaemonTyped, OpenTrust, Edit
    <2> QED BY <2>1, <2>2, <2>3, <2>4 DEF TypeOK
  <1>2. SetupHolds'
    BY DEF IInv, TypeOK, StepsTyped, SetupHolds, Present, OpenTrust, Edit
  <1>3. DaemonSame
    BY DEF IInv, TypeOK, KeysTyped, DaemonSame, OpenTrust, Edit
  <1>4. NothingDropped'
    BY DEF IInv, TypeOK, NothingDropped, OpenTrust, Edit
  <1>5. (interrupts = 0 => Progress)'
    BY DEF IInv, TypeOK, Progress, from_str, KeyPending, Trusted, OpenTrust, NoTrust
  <1>6. (settled => AllInPlace)'
    BY DEF IInv, TypeOK, AllInPlace, OpenTrust, Edit
  <1>7. AllowlistEndorsed'
    BY DEF IInv, TypeOK, AllowlistEndorsed, OpenTrust, Edit
  <1>8. CalmProgress'
    BY DEF IInv, TypeOK, StepsTyped, CalmProgress, KeyPending, Trusted, SetupStage, Signing,
       Present, OpenTrust, Edit
  <1> QED BY <1>1, <1>2, <1>3, <1>4, <1>5, <1>6, <1>7, <1>8, DaemonFrame DEF IInv

(* Writing operators.pubkeys brings back every key that was trusted. *)
LEMMA WriteTrustIInv == IInv /\ WriteTrust => IInv'
PROOF
  <1> SUFFICES ASSUME IInv, WriteTrust PROVE IInv'
    OBVIOUS
  <1>1. TypeOK'
    <2>1. KeysTyped'
      BY DEF IInv, TypeOK, KeysTyped, Mine, Line, WriteTrust
    <2>2. FilesTyped'
      BY DEF IInv, TypeOK, FilesTyped, WriteTrust
    <2>3. StepsTyped'
      BY DEF IInv, TypeOK, StepsTyped, SetupStage, WriteTrust
    <2>4. DaemonTyped'
      BY DEF IInv, TypeOK, DaemonTyped, WriteTrust
    <2> QED BY <2>1, <2>2, <2>3, <2>4 DEF TypeOK
  <1>2. SetupHolds'
    BY DEF IInv, TypeOK, StepsTyped, SetupHolds, Present, WriteTrust
  <1>3. DaemonSame
    BY DEF IInv, TypeOK, KeysTyped, DaemonSame, WriteTrust
  <1>4. NothingDropped'
    BY DEF IInv, TypeOK, NothingDropped, WriteTrust
  <1>5. (interrupts = 0 => Progress)'
    BY DEF IInv, TypeOK, Progress, KeyPending, Signing, Present, WriteTrust
  <1>6. (settled => AllInPlace)'
    BY DEF IInv, TypeOK, AllInPlace, WriteTrust
  <1>7. AllowlistEndorsed'
    BY DEF IInv, TypeOK, AllowlistEndorsed, WriteTrust
  <1>8. CalmProgress'
    BY DEF IInv, TypeOK, StepsTyped, CalmProgress, KeyPending, Trusted, SetupStage, Signing,
       Present, WriteTrust
  <1> QED BY <1>1, <1>2, <1>3, <1>4, <1>5, <1>6, <1>7, <1>8, DaemonFrame DEF IInv

(* Setup lists the bundles it has to look at: all that are present. *)
LEMMA ListBundlesIInv == IInv /\ ListBundles => IInv'
PROOF
  <1> SUFFICES ASSUME IInv, ListBundles PROVE IInv'
    OBVIOUS
  <1>1. TypeOK'
    <2>1. KeysTyped'
      BY DEF IInv, TypeOK, KeysTyped, Mine, Line, ListBundles, List
    <2>2. FilesTyped'
      BY DEF IInv, TypeOK, FilesTyped, ListBundles, List
    <2>3. StepsTyped'
      BY DEF IInv, TypeOK, StepsTyped, SetupStage, ListBundles, List, Present
    <2>4. DaemonTyped'
      BY DEF IInv, TypeOK, DaemonTyped, ListBundles, List
    <2> QED BY <2>1, <2>2, <2>3, <2>4 DEF TypeOK
  <1>2. SetupHolds'
    BY DEF IInv, TypeOK, SetupHolds, Present, ListBundles, List, Present
  <1>3. DaemonSame
    BY DEF IInv, TypeOK, KeysTyped, DaemonSame, ListBundles, List
  <1>4. NothingDropped'
    BY DEF IInv, TypeOK, NothingDropped, ListBundles, List
  <1>5. (interrupts = 0 => Progress)'
    BY DEF IInv, TypeOK, StepsTyped, Progress, KeyPending, Trusted, Signing, Present,
       ListBundles, List, Present
  <1>6. (settled => AllInPlace)'
    BY DEF IInv, TypeOK, AllInPlace, Present, ListBundles, List, Present
  <1>7. AllowlistEndorsed'
    BY DEF IInv, TypeOK, AllowlistEndorsed, ListBundles, List
  <1>8. CalmProgress'
    BY DEF IInv, TypeOK, StepsTyped, CalmProgress, KeyPending, Trusted, SetupStage, Signing,
       Present, ListBundles, List
  <1> QED BY <1>1, <1>2, <1>3, <1>4, <1>5, <1>6, <1>7, <1>8, DaemonFrame DEF IInv

(* A bundle with a signature file needs none, whoever wrote it. *)
LEMMA SkipSignedIInv == IInv /\ SkipSigned => IInv'
PROOF
  <1> SUFFICES ASSUME IInv, SkipSigned PROVE IInv'
    OBVIOUS
  <1>1. TypeOK'
    <2>1. KeysTyped'
      BY DEF IInv, TypeOK, KeysTyped, Mine, Line, SkipSigned
    <2>2. FilesTyped'
      BY DEF IInv, TypeOK, FilesTyped, SkipSigned
    <2>3. StepsTyped'
      BY DEF IInv, TypeOK, StepsTyped, SkipSigned
    <2>4. DaemonTyped'
      BY DEF IInv, TypeOK, DaemonTyped, SkipSigned
    <2> QED BY <2>1, <2>2, <2>3, <2>4 DEF TypeOK
  <1>2. SetupHolds'
    <2>1. todo'["setup"] \subseteq todo["setup"]
      BY DEF IInv, TypeOK, SkipSigned
    <2> QED BY <2>1 DEF IInv, SetupHolds, Present, SkipSigned
  <1>3. DaemonSame
    BY DEF IInv, TypeOK, KeysTyped, DaemonSame, SkipSigned
  <1>4. NothingDropped'
    BY DEF IInv, TypeOK, NothingDropped, SkipSigned
  <1>5. (interrupts = 0 => Progress)'
    BY DEF IInv, TypeOK, Progress, Present, SkipSigned
  <1>6. (settled => AllInPlace)'
    BY DEF IInv, TypeOK, AllInPlace, Present, SkipSigned
  <1>7. AllowlistEndorsed'
    BY DEF IInv, TypeOK, AllowlistEndorsed, SkipSigned
  <1>8. CalmProgress'
    BY DEF IInv, TypeOK, StepsTyped, CalmProgress, KeyPending, Trusted, SetupStage, Signing,
       Present, SkipSigned
  <1> QED BY <1>1, <1>2, <1>3, <1>4, <1>5, <1>6, <1>7, <1>8, DaemonFrame DEF IInv

(* sign_bundle loads the key and the text and opens the signature file;    *)
(* with a key file that does not decode setup fails (keys.rs).             *)
LEMMA sign_bundleIInv == IInv /\ sign_bundle => IInv'
PROOF
  <1> SUFFICES ASSUME IInv, sign_bundle PROVE IInv'
    OBVIOUS
  <1>1. TypeOK'
    <2>1. KeysTyped'
      BY DEF IInv, TypeOK, KeysTyped, Mine, Line, sign_bundle
    <2>2. FilesTyped'
      BY DEF IInv, TypeOK, FilesTyped, sign_bundle
    <2>3. StepsTyped'
      BY DEF IInv, TypeOK, StepsTyped, FilesTyped, SetupStage, sign_bundle, Fail
    <2>4. DaemonTyped'
      BY DEF IInv, TypeOK, DaemonTyped, sign_bundle
    <2> QED BY <2>1, <2>2, <2>3, <2>4 DEF TypeOK
  <1>2. SetupHolds'
    <2>1. PICK b \in todo["setup"] :
            \/ pc' = [pc EXCEPT !["setup"] = "idle"] /\ UNCHANGED <<cur, todo>>
            \/ /\ sk \in Key /\ cur' = [cur EXCEPT !["setup"] = b]
               /\ todo' = [todo EXCEPT !["setup"] = @ \ {b}]
               /\ pc' = [pc EXCEPT !["setup"] = "sign_w"]
      BY DEF sign_bundle, Fail
    <2>2. /\ todo'["setup"] \subseteq todo["setup"]
          /\ \/ pc'["setup"] = "idle"
             \/ pc'["setup"] = "sign_w" /\ sk \in Key /\ cur'["setup"] \in Bundle
      BY <2>1 DEF IInv, TypeOK, StepsTyped
    <2> QED BY <2>2 DEF IInv, SetupHolds, Present, sign_bundle
  <1>3. DaemonSame
    BY DEF IInv, TypeOK, KeysTyped, StepsTyped, DaemonSame, sign_bundle, Fail
  <1>4. NothingDropped'
    BY DEF IInv, TypeOK, StepsTyped, NothingDropped, sign_bundle, Fail
  <1>5. (interrupts = 0 => Progress)'
    <2> SUFFICES ASSUME interrupts = 0 PROVE Progress'
      BY DEF sign_bundle
    <2>1. sk \in Key /\ Progress
      BY DEF IInv, sign_bundle, Progress, KeyPending
    <2>2. PICK b \in todo["setup"] :
             /\ sig' = [sig EXCEPT ![b] = <<Empty, Empty>>]
             /\ todo' = [todo EXCEPT !["setup"] = @ \ {b}]
             /\ pc' = [pc EXCEPT !["setup"] = "sign_w"]
      BY <2>1 DEF sign_bundle
    <2>3. \A c \in Bundle : sig'[c] # NoSig <=> (sig[c] # NoSig \/ c = b)
      BY <2>2 DEF IInv, TypeOK, FilesTyped, NoSig, Empty, Absent
    <2> HIDE DEF NoSig
    <2> QED BY <2>1, <2>2, <2>3 DEF IInv, TypeOK, StepsTyped, Progress, from_str, KeyPending,
       Trusted, SetupStage, Signing, Present, sign_bundle
  <1>6. (settled => AllInPlace)'
    <2>1. ~settled
      BY DEF IInv, SetupHolds, AllInPlace, sign_bundle
    <2> QED BY <2>1 DEF sign_bundle
  <1>7. AllowlistEndorsed'
    BY DEF IInv, TypeOK, AllowlistEndorsed, sign_bundle
  <1>8. CalmProgress'
    <2>1. CASE sk \notin Key
      BY <2>1 DEF IInv, TypeOK, StepsTyped, CalmProgress, KeyPending, Trusted, sign_bundle, Fail
    <2>2. CASE sk \in Key
      <3>1. PICK b \in todo["setup"] :
               /\ sig' = [sig EXCEPT ![b] = <<Empty, Empty>>]
               /\ todo' = [todo EXCEPT !["setup"] = @ \ {b}]
               /\ pc' = [pc EXCEPT !["setup"] = "sign_w"]
        BY <2>2 DEF sign_bundle
      <3>2. \A c \in Bundle : sig'[c] # NoSig <=> (sig[c] # NoSig \/ c = b)
        BY <3>1 DEF IInv, TypeOK, FilesTyped, NoSig, Empty, Absent
      <3> HIDE DEF NoSig
      <3> QED BY <3>1, <3>2 DEF IInv, TypeOK, StepsTyped, CalmProgress, KeyPending, Trusted,
         SetupStage, Signing, Present, sign_bundle
    <2> QED BY <2>1, <2>2
  <1> QED BY <1>1, <1>2, <1>3, <1>4, <1>5, <1>6, <1>7, <1>8, DaemonFrame DEF IInv

(* The signature written is the operator's, over the text read before, and *)
(* is an endorsement from now on.                                          *)
LEMMA WriteSigIInv == IInv /\ WriteSig => IInv'
PROOF
  <1> SUFFICES ASSUME IInv, WriteSig PROVE IInv'
    OBVIOUS
  <1>1. TypeOK'
    <2>1. KeysTyped'
      BY DEF IInv, TypeOK, KeysTyped, Mine, Line, WriteSig
    <2>2. FilesTyped'
      <3>1. sk \in Key /\ held["setup"] \in Text /\ cur["setup"] \in Bundle
        BY DEF IInv, TypeOK, StepsTyped, SetupHolds, WriteSig
      <3>2. PICK e : e = <<sk, held["setup"]>>
        OBVIOUS
      <3>3. e \in Key \X Text /\ endorsed' = endorsed \union {e} /\ sig' = [sig EXCEPT ![cur["setup"]] = e]
        BY <3>1, <3>2 DEF WriteSig
      <3> QED BY <3>1, <3>3 DEF IInv, TypeOK, FilesTyped, Text, WriteSig
    <2>3. StepsTyped'
      BY DEF IInv, TypeOK, StepsTyped, SetupStage, Text, WriteSig
    <2>4. DaemonTyped'
      BY DEF IInv, TypeOK, DaemonTyped, WriteSig
    <2> QED BY <2>1, <2>2, <2>3, <2>4 DEF TypeOK
  <1>2. SetupHolds'
    BY DEF IInv, TypeOK, StepsTyped, SetupHolds, Present, WriteSig
  <1>3. DaemonSame
    BY DEF IInv, TypeOK, KeysTyped, DaemonSame, WriteSig
  <1>4. NothingDropped'
    BY DEF IInv, TypeOK, NothingDropped, WriteSig
  <1>5. (interrupts = 0 => Progress)'
    BY KeysArePositive DEF IInv, TypeOK, Progress, KeyPending, Trusted, SetupStage, Signing,
       Present, WriteSig, NoSig
  <1>6. (settled => AllInPlace)'
    BY DEF IInv, TypeOK, AllInPlace, WriteSig
  <1>7. AllowlistEndorsed'
    BY DEF IInv, TypeOK, AllowlistEndorsed, WriteSig
  <1>8. CalmProgress'
    BY KeysArePositive DEF IInv, TypeOK, StepsTyped, FilesTyped, CalmProgress, SetupHolds,
       KeyPending, Trusted, SetupStage, Signing, Present, WriteSig, NoSig
  <1> QED BY <1>1, <1>2, <1>3, <1>4, <1>5, <1>6, <1>7, <1>8, DaemonFrame DEF IInv

(* With every bundle looked at, an allowlist that is there is kept. *)
LEMMA KeepAllowIInv == IInv /\ KeepAllow => IInv'
PROOF
  <1> SUFFICES ASSUME IInv, KeepAllow PROVE IInv'
    OBVIOUS
  <1>1. TypeOK'
    <2>1. KeysTyped'
      BY DEF IInv, TypeOK, KeysTyped, Mine, Line, KeepAllow
    <2>2. FilesTyped'
      BY DEF IInv, TypeOK, FilesTyped, KeepAllow
    <2>3. StepsTyped'
      BY DEF IInv, TypeOK, StepsTyped, SetupStage, KeepAllow
    <2>4. DaemonTyped'
      BY DEF IInv, TypeOK, DaemonTyped, KeepAllow
    <2> QED BY <2>1, <2>2, <2>3, <2>4 DEF TypeOK
  <1>2. SetupHolds'
    BY DEF IInv, TypeOK, StepsTyped, SetupHolds, Present, KeepAllow
  <1>3. DaemonSame
    BY DEF IInv, TypeOK, KeysTyped, DaemonSame, KeepAllow
  <1>4. NothingDropped'
    BY DEF IInv, TypeOK, NothingDropped, KeepAllow
  <1>5. (interrupts = 0 => Progress)'
    BY DEF IInv, TypeOK, Progress, KeyPending, Trusted, SetupStage, Present, KeepAllow
  <1>6. (settled => AllInPlace)'
    BY DEF IInv, TypeOK, AllInPlace, Present, KeepAllow
  <1>7. AllowlistEndorsed'
    BY DEF IInv, TypeOK, AllowlistEndorsed, KeepAllow
  <1>8. CalmProgress'
    BY DEF IInv, TypeOK, StepsTyped, CalmProgress, KeyPending, Trusted, SetupStage, Signing,
       Present, KeepAllow
  <1> QED BY <1>1, <1>2, <1>3, <1>4, <1>5, <1>6, <1>7, <1>8, DaemonFrame DEF IInv

(* Without an allowlist, setup loads the trust file, or fails on a line    *)
(* that does not decode, and verifies the bundles present.                 *)
LEMMA LoadTrustIInv == IInv /\ LoadTrust => IInv'
PROOF
  <1> SUFFICES ASSUME IInv, LoadTrust PROVE IInv'
    OBVIOUS
  <1>1. TypeOK'
    <2>1. KeysTyped'
      BY DEF IInv, TypeOK, KeysTyped, Mine, Line, LoadTrust, List
    <2>2. FilesTyped'
      BY DEF IInv, TypeOK, FilesTyped, LoadTrust, List
    <2>3. StepsTyped'
      BY DEF IInv, TypeOK, StepsTyped, SetupStage, LoadTrust, Fail, List, Present
    <2>4. DaemonTyped'
      BY DEF IInv, TypeOK, DaemonTyped, LoadTrust, List
    <2> QED BY <2>1, <2>2, <2>3, <2>4 DEF TypeOK
  <1>2. SetupHolds'
    BY KeysArePositive DEF IInv, TypeOK, StepsTyped, SetupHolds, Present, LoadTrust, Fail, List,
       Present
  <1>3. DaemonSame
    BY DEF IInv, TypeOK, KeysTyped, StepsTyped, DaemonSame, LoadTrust, Fail, List
  <1>4. NothingDropped'
    BY DEF IInv, TypeOK, StepsTyped, NothingDropped, LoadTrust, Fail, List
  <1>5. (interrupts = 0 => Progress)'
    BY DEF IInv, TypeOK, StepsTyped, Progress, KeyPending, Trusted, Present, LoadTrust, Fail,
       List, Present
  <1>6. (settled => AllInPlace)'
    BY DEF IInv, TypeOK, AllInPlace, LoadTrust, List
  <1>7. AllowlistEndorsed'
    BY DEF IInv, TypeOK, AllowlistEndorsed, LoadTrust, List
  <1>8. CalmProgress'
    BY DEF IInv, TypeOK, StepsTyped, CalmProgress, KeyPending, Trusted, SetupStage, Signing,
       Present, LoadTrust, Fail, List
  <1> QED BY <1>1, <1>2, <1>3, <1>4, <1>5, <1>6, <1>7, <1>8, DaemonFrame DEF IInv

(* write_new creates the allowlist, and fails on one that appeared         *)
(* meanwhile: the file setup goes on to write is never an operator's.      *)
LEMMA CreateAllowIInv == IInv /\ CreateAllow => IInv'
PROOF
  <1> SUFFICES ASSUME IInv, CreateAllow PROVE IInv'
    OBVIOUS
  <1>1. TypeOK'
    <2>1. KeysTyped'
      BY DEF IInv, TypeOK, KeysTyped, Mine, Line, CreateAllow
    <2>2. FilesTyped'
      BY DEF IInv, TypeOK, FilesTyped, CreateAllow, NoAllow
    <2>3. StepsTyped'
      BY DEF IInv, TypeOK, StepsTyped, SetupStage, CreateAllow, Fail
    <2>4. DaemonTyped'
      BY DEF IInv, TypeOK, DaemonTyped, CreateAllow
    <2> QED BY <2>1, <2>2, <2>3, <2>4 DEF TypeOK
  <1>2. SetupHolds'
    <2>1. CASE allow.there
      BY <2>1 DEF IInv, TypeOK, StepsTyped, SetupHolds, CreateAllow, Fail
    <2>2. CASE ~allow.there
      <3>1. allow'.there /\ ~allow'.own /\ pc' = [pc EXCEPT !["setup"] = "allow_w"]
        BY <2>2 DEF CreateAllow, NoAllow
      <3> QED BY <3>1 DEF IInv, TypeOK, StepsTyped, SetupHolds, Present, CreateAllow
    <2> QED BY <2>1, <2>2
  <1>3. DaemonSame
    BY DEF IInv, TypeOK, KeysTyped, StepsTyped, DaemonSame, CreateAllow, Fail
  <1>4. NothingDropped'
    BY DEF IInv, TypeOK, StepsTyped, NothingDropped, CreateAllow, Fail
  <1>5. (interrupts = 0 => Progress)'
    <2>1. \/ pc' = [pc EXCEPT !["setup"] = "idle"] /\ allow' = allow
          \/ pc' = [pc EXCEPT !["setup"] = "allow_w"] /\ allow'.ok = TRUE
      BY DEF CreateAllow, Fail, NoAllow
    <2>2. UNCHANGED <<sk, pk, trust, manifest, sig, config, todo, locals, calm, interrupts>>
      BY DEF CreateAllow
    <2>3. /\ pc["setup"] = "load" /\ pc'["setup"] \in {"idle", "allow_w"}
          /\ allow.ok \/ allow.own => allow'.ok \/ allow'.own
      BY <2>1 DEF CreateAllow, IInv, TypeOK, StepsTyped
    <2> QED BY <2>2, <2>3 DEF IInv, Progress, from_str, KeyPending, Trusted, SetupStage, Signing,
       Present
  <1>6. (settled => AllInPlace)'
    BY DEF IInv, TypeOK, AllInPlace, CreateAllow
  <1>7. AllowlistEndorsed'
    BY DEF IInv, TypeOK, AllowlistEndorsed, CreateAllow, NoAllow
  <1>8. CalmProgress'
    BY DEF IInv, TypeOK, StepsTyped, CalmProgress, KeyPending, Trusted, SetupStage, Signing,
       Present, CreateAllow, Fail
  <1> QED BY <1>1, <1>2, <1>3, <1>4, <1>5, <1>6, <1>7, <1>8, DaemonFrame DEF IInv

(* The names written are those of the read-only bundles that verified,     *)
(* each of them endorsed.                                                  *)
LEMMA WriteAllowIInv == IInv /\ WriteAllow => IInv'
PROOF
  <1> SUFFICES ASSUME IInv, WriteAllow PROVE IInv'
    OBVIOUS
  <1> DEFINE names == {name_of[v] : v \in found["setup"]}
             AllowType == [there : BOOLEAN, ok : BOOLEAN, names : SUBSET Name, own : BOOLEAN]
  <1>0. /\ UNCHANGED <<sk, pk, trust, manifest, sig, config, loader, locals, daemon, history, bounds>>
        /\ pc["setup"] = "allow_w" /\ pc' = [pc EXCEPT !["setup"] = "config"]
    BY DEF WriteAllow
  <1>a. names \subseteq Name /\ allow \in AllowType
    BY DEF IInv, TypeOK, StepsTyped, FilesTyped, Name
  <1>b. /\ allow' \in AllowType /\ allow'.there = TRUE
        /\ allow'.ok = TRUE \/ allow'.own = TRUE
        /\ allow'.own = FALSE => allow'.names = names
    <2> DEFINE Good(a) == /\ a \in AllowType /\ a.there = TRUE
                          /\ a.ok = TRUE \/ a.own = TRUE
                          /\ a.own = FALSE => a.names = names
               covered == [NoAllow EXCEPT !.there = TRUE, !.names = names]
               behind(rest) == [covered EXCEPT !.own = TRUE, !.names = names \union rest]
    <2>1. Good(covered)
      BY <1>a DEF NoAllow
    <2>2. Good(SpoiltAllow)
      BY DEF SpoiltAllow
    <2>3. ASSUME NEW rest \in SUBSET allow.names PROVE Good(behind(rest))
      BY <1>a, <2>3 DEF NoAllow
    <2>4. allow.own => Good(allow)
      BY <1>a DEF IInv, SetupHolds
    <2>5. \/ allow.own /\ (allow' \in {allow, covered, SpoiltAllow}
                              \/ \E rest \in SUBSET allow.names : allow' = behind(rest))
          \/ allow' = covered
      BY DEF WriteAllow
    <2> HIDE DEF Good, covered, behind
    <2>6. Good(allow')
      BY <2>1, <2>2, <2>3, <2>4, <2>5
    <2> QED BY <2>6 DEF Good
  <1> HIDE DEF names
  <1>p. pc'["setup"] = "config" /\ pc'["daemon"] = pc["daemon"]
    BY <1>0 DEF IInv, TypeOK, StepsTyped
  <1>1. TypeOK'
    <2>1. KeysTyped'
      BY <1>0 DEF IInv, TypeOK, KeysTyped, Mine, Line
    <2>2. FilesTyped'
      BY <1>0, <1>b DEF IInv, TypeOK, FilesTyped
    <2>3. StepsTyped'
      BY <1>0 DEF IInv, TypeOK, StepsTyped, SetupStage
    <2>4. DaemonTyped'
      BY <1>0 DEF IInv, TypeOK, DaemonTyped
    <2> QED BY <2>1, <2>2, <2>3, <2>4 DEF TypeOK
  <1>2. SetupHolds'
    BY <1>0, <1>b, <1>p DEF IInv, SetupHolds, Present
  <1>3. DaemonSame
    BY <1>0, <1>p DEF IInv, TypeOK, KeysTyped, DaemonSame
  <1>4. NothingDropped'
    BY <1>0, <1>p DEF IInv, NothingDropped
  <1>5. (interrupts = 0 => Progress)'
    BY <1>0, <1>b, <1>p DEF IInv, Progress, KeyPending
  <1>6. (settled => AllInPlace)'
    BY <1>0 DEF IInv, AllInPlace
  <1>7. AllowlistEndorsed'
    <2>1. ASSUME NEW v \in found["setup"]
          PROVE  \E e \in endorsed : e[2] \in ReadOnly /\ name_of[e[2]] = name_of[v]
      <3>1. PICK k \in Key : <<k, v>> \in endorsed
        BY <2>1 DEF IInv, SetupHolds
      <3>2. <<k, v>>[2] = v /\ v \in ReadOnly
        BY <2>1 DEF IInv, SetupHolds
      <3> QED BY <3>1, <3>2
    <2>2. allow'.own \/ allow'.names = names
      BY <1>b
    <2> QED BY <1>0, <2>1, <2>2 DEF AllowlistEndorsed, names
  <1>8. CalmProgress'
    BY <1>0, <1>p DEF IInv, CalmProgress, KeyPending, Trusted, SetupStage, Signing, Present
  <1> QED BY <1>1, <1>2, <1>3, <1>4, <1>5, <1>6, <1>7, <1>8, DaemonFrame DEF IInv

(* A configuration that is there is kept and only validated. *)
LEMMA CheckConfigIInv == IInv /\ CheckConfig => IInv'
PROOF
  <1> SUFFICES ASSUME IInv, CheckConfig PROVE IInv'
    OBVIOUS
  <1>1. TypeOK'
    <2>1. KeysTyped'
      BY DEF IInv, TypeOK, KeysTyped, Mine, Line, CheckConfig
    <2>2. FilesTyped'
      BY DEF IInv, TypeOK, FilesTyped, CheckConfig
    <2>3. StepsTyped'
      BY DEF IInv, TypeOK, StepsTyped, SetupStage, CheckConfig
    <2>4. DaemonTyped'
      BY DEF IInv, TypeOK, DaemonTyped, CheckConfig
    <2> QED BY <2>1, <2>2, <2>3, <2>4 DEF TypeOK
  <1>2. SetupHolds'
    BY DEF IInv, TypeOK, SetupHolds, Present, CheckConfig
  <1>3. DaemonSame
    BY DEF IInv, TypeOK, KeysTyped, DaemonSame, CheckConfig
  <1>4. NothingDropped'
    BY DEF IInv, TypeOK, NothingDropped, CheckConfig
  <1>5. (interrupts = 0 => Progress)'
    BY DEF IInv, TypeOK, Progress, KeyPending, Trusted, SetupStage, Signing, Present, CheckConfig
  <1>6. (settled => AllInPlace)'
    BY DEF IInv, TypeOK, AllInPlace, Present, CheckConfig
  <1>7. AllowlistEndorsed'
    BY DEF IInv, TypeOK, AllowlistEndorsed, CheckConfig
  <1>8. CalmProgress'
    BY DEF IInv, TypeOK, StepsTyped, CalmProgress, KeyPending, Trusted, SetupStage, Signing,
       Present, CheckConfig
  <1> QED BY <1>1, <1>2, <1>3, <1>4, <1>5, <1>6, <1>7, <1>8, DaemonFrame DEF IInv

(* write_new creates the configuration, and fails on one that appeared     *)
(* meanwhile.                                                              *)
LEMMA CreateConfigIInv == IInv /\ CreateConfig => IInv'
PROOF
  <1> SUFFICES ASSUME IInv, CreateConfig PROVE IInv'
    OBVIOUS
  <1>1. TypeOK'
    <2>1. KeysTyped'
      BY DEF IInv, TypeOK, KeysTyped, Mine, Line, CreateConfig
    <2>2. FilesTyped'
      BY DEF IInv, TypeOK, FilesTyped, CreateConfig
    <2>3. StepsTyped'
      BY DEF IInv, TypeOK, StepsTyped, SetupStage, CreateConfig, Fail
    <2>4. DaemonTyped'
      BY DEF IInv, TypeOK, DaemonTyped, CreateConfig
    <2> QED BY <2>1, <2>2, <2>3, <2>4 DEF TypeOK
  <1>2. SetupHolds'
    BY DEF IInv, TypeOK, StepsTyped, SetupHolds, Present, CreateConfig, Fail, Empty, Absent
  <1>3. DaemonSame
    BY DEF IInv, TypeOK, KeysTyped, StepsTyped, DaemonSame, CreateConfig, Fail
  <1>4. NothingDropped'
    BY DEF IInv, TypeOK, StepsTyped, NothingDropped, CreateConfig, Fail
  <1>5. (interrupts = 0 => Progress)'
    BY DEF IInv, TypeOK, StepsTyped, Progress, KeyPending, Trusted, Signing, Present,
       CreateConfig, Fail
  <1>6. (settled => AllInPlace)'
    BY DEF IInv, TypeOK, AllInPlace, CreateConfig
  <1>7. AllowlistEndorsed'
    BY DEF IInv, TypeOK, AllowlistEndorsed, CreateConfig
  <1>8. CalmProgress'
    BY DEF IInv, TypeOK, StepsTyped, CalmProgress, KeyPending, Trusted, SetupStage, Signing,
       Present, CreateConfig, Fail
  <1> QED BY <1>1, <1>2, <1>3, <1>4, <1>5, <1>6, <1>7, <1>8, DaemonFrame DEF IInv

(* The rendered configuration is written into the file created for it. *)
LEMMA WriteConfigIInv == IInv /\ WriteConfig => IInv'
PROOF
  <1> SUFFICES ASSUME IInv, WriteConfig PROVE IInv'
    OBVIOUS
  <1>1. TypeOK'
    <2>1. KeysTyped'
      BY DEF IInv, TypeOK, KeysTyped, Mine, Line, WriteConfig
    <2>2. FilesTyped'
      BY DEF IInv, TypeOK, FilesTyped, WriteConfig
    <2>3. StepsTyped'
      BY DEF IInv, TypeOK, StepsTyped, SetupStage, WriteConfig
    <2>4. DaemonTyped'
      BY DEF IInv, TypeOK, DaemonTyped, WriteConfig
    <2> QED BY <2>1, <2>2, <2>3, <2>4 DEF TypeOK
  <1>2. SetupHolds'
    BY DEF IInv, TypeOK, StepsTyped, SetupHolds, Present, WriteConfig
  <1>3. DaemonSame
    BY DEF IInv, TypeOK, KeysTyped, DaemonSame, WriteConfig
  <1>4. NothingDropped'
    BY DEF IInv, TypeOK, NothingDropped, WriteConfig
  <1>5. (interrupts = 0 => Progress)'
    BY DEF IInv, TypeOK, Progress, KeyPending, Trusted, SetupStage, Signing, Present, WriteConfig
  <1>6. (settled => AllInPlace)'
    BY DEF IInv, TypeOK, AllInPlace, WriteConfig
  <1>7. AllowlistEndorsed'
    BY DEF IInv, TypeOK, AllowlistEndorsed, WriteConfig
  <1>8. CalmProgress'
    BY DEF IInv, TypeOK, StepsTyped, CalmProgress, KeyPending, Trusted, SetupStage, Signing,
       Present, WriteConfig
  <1> QED BY <1>1, <1>2, <1>3, <1>4, <1>5, <1>6, <1>7, <1>8, DaemonFrame DEF IInv

(* Setup completes only if the configuration loads (setup.rs, step 6). *)
LEMMA ValidateIInv == IInv /\ Validate => IInv'
PROOF
  <1> SUFFICES ASSUME IInv, Validate PROVE IInv'
    OBVIOUS
  <1>1. TypeOK'
    <2>1. KeysTyped'
      BY DEF IInv, TypeOK, KeysTyped, Mine, Line, Validate
    <2>2. FilesTyped'
      BY DEF IInv, TypeOK, FilesTyped, Validate
    <2>3. StepsTyped'
      BY DEF IInv, TypeOK, StepsTyped, SetupStage, Validate, Fail
    <2>4. DaemonTyped'
      BY DEF IInv, TypeOK, DaemonTyped, Validate
    <2> QED BY <2>1, <2>2, <2>3, <2>4 DEF TypeOK
  <1>2. SetupHolds'
    BY DEF IInv, TypeOK, StepsTyped, SetupHolds, Present, Validate, Fail
  <1>3. DaemonSame
    BY DEF IInv, TypeOK, KeysTyped, StepsTyped, DaemonSame, Validate, Fail
  <1>4. NothingDropped'
    BY DEF IInv, TypeOK, StepsTyped, NothingDropped, Validate, Fail
  <1>5. (interrupts = 0 => Progress)'
    BY DEF IInv, TypeOK, StepsTyped, Progress, KeyPending, Trusted, Signing, Present, Validate, Fail
  <1>6. (settled => AllInPlace)'
    BY DEF IInv, TypeOK, StepsTyped, AllInPlace, Present, Validate, Fail
  <1>7. AllowlistEndorsed'
    BY DEF IInv, TypeOK, AllowlistEndorsed, Validate
  <1>8. CalmProgress'
    BY DEF IInv, TypeOK, StepsTyped, CalmProgress, KeyPending, Trusted, SetupStage, Signing,
       Present, Validate, Fail
  <1> QED BY <1>1, <1>2, <1>3, <1>4, <1>5, <1>6, <1>7, <1>8, DaemonFrame DEF IInv

(* A run that nothing disturbed leaves everything in place for the next. *)
LEMMA FinishIInv == IInv /\ Finish => IInv'
PROOF
  <1> SUFFICES ASSUME IInv, Finish PROVE IInv'
    OBVIOUS
  <1>1. TypeOK'
    <2>1. KeysTyped'
      BY DEF IInv, TypeOK, KeysTyped, Mine, Line, Finish
    <2>2. FilesTyped'
      BY DEF IInv, TypeOK, FilesTyped, Finish
    <2>3. StepsTyped'
      BY DEF IInv, TypeOK, StepsTyped, SetupStage, Finish
    <2>4. DaemonTyped'
      BY DEF IInv, TypeOK, DaemonTyped, Finish
    <2> QED BY <2>1, <2>2, <2>3, <2>4 DEF TypeOK
  <1>2. SetupHolds'
    BY DEF IInv, TypeOK, SetupHolds, Present, Finish
  <1>3. DaemonSame
    BY DEF IInv, TypeOK, KeysTyped, DaemonSame, Finish
  <1>4. NothingDropped'
    BY DEF IInv, TypeOK, NothingDropped, Finish
  <1>5. (interrupts = 0 => Progress)'
    BY DEF IInv, TypeOK, Progress, KeyPending, Trusted, Present, Finish
  <1>6. (settled => AllInPlace)'
    <2>1. settled' => settled \/ (calm /\ interrupts = 0)
      BY DEF Finish
    <2>2. settled \/ (calm /\ interrupts = 0) => AllInPlace'
      BY DEF IInv, TypeOK, SetupHolds, AllInPlace, Progress, CalmProgress, KeyPending, Trusted,
         SetupStage, Signing, loads_config, Absent, Prefix, Generated, Own, Present, Finish
    <2> QED BY <2>1, <2>2
  <1>7. AllowlistEndorsed'
    BY DEF IInv, TypeOK, AllowlistEndorsed, Finish
  <1>8. CalmProgress'
    BY DEF IInv, TypeOK, StepsTyped, CalmProgress, KeyPending, Trusted, SetupStage, Signing,
       Present, Finish
  <1> QED BY <1>1, <1>2, <1>3, <1>4, <1>5, <1>6, <1>7, <1>8, DaemonFrame DEF IInv

(* An operator may replace any manifest at any time: the endorsements stay *)
(* those of the texts that were signed.                                    *)
LEMMA OperatorEditsManifestIInv == IInv /\ OperatorEditsManifest => IInv'
PROOF
  <1> SUFFICES ASSUME IInv, OperatorEditsManifest PROVE IInv'
    OBVIOUS
  <1>1. TypeOK'
    <2>1. KeysTyped'
      BY DEF IInv, TypeOK, KeysTyped, Mine, Line, OperatorEditsManifest, Edit
    <2>2. FilesTyped'
      BY DEF IInv, TypeOK, FilesTyped, Text, OperatorEditsManifest, Edit
    <2>3. StepsTyped'
      BY DEF IInv, TypeOK, StepsTyped, OperatorEditsManifest, Edit
    <2>4. DaemonTyped'
      BY DEF IInv, TypeOK, DaemonTyped, OperatorEditsManifest, Edit
    <2> QED BY <2>1, <2>2, <2>3, <2>4 DEF TypeOK
  <1>2. SetupHolds'
    <2>1. Present \subseteq Present'
      BY ProvisioningAssumption DEF IInv, TypeOK, Present, Absent, OperatorEditsManifest
    <2> QED BY <2>1 DEF IInv, SetupHolds, OperatorEditsManifest
  <1>3. DaemonSame
    BY DEF IInv, TypeOK, KeysTyped, DaemonSame, OperatorEditsManifest, Edit
  <1>4. NothingDropped'
    BY DEF IInv, TypeOK, NothingDropped, OperatorEditsManifest, Edit
  <1>5. (interrupts = 0 => Progress)'
    BY DEF IInv, TypeOK, Progress, OperatorEditsManifest, Edit
  <1>6. (settled => AllInPlace)'
    BY DEF IInv, TypeOK, AllInPlace, OperatorEditsManifest, Edit
  <1>7. AllowlistEndorsed'
    BY DEF IInv, TypeOK, AllowlistEndorsed, OperatorEditsManifest, Edit
  <1>8. CalmProgress'
    BY DEF IInv, TypeOK, StepsTyped, CalmProgress, KeyPending, Trusted, SetupStage, Signing,
       Present, OperatorEditsManifest, Edit
  <1> QED BY <1>1, <1>2, <1>3, <1>4, <1>5, <1>6, <1>7, <1>8, DaemonFrame DEF IInv

(* An operator who signs endorses the text that is there. *)
LEMMA OperatorSignsIInv == IInv /\ OperatorSigns => IInv'
PROOF
  <1> SUFFICES ASSUME IInv, OperatorSigns PROVE IInv'
    OBVIOUS
  <1>1. TypeOK'
    <2>1. KeysTyped'
      BY DEF IInv, TypeOK, KeysTyped, Mine, Line, OperatorSigns, Edit
    <2>2. FilesTyped'
      <3>1. PICK b \in Present, k \in Key :
               /\ sig' = [sig EXCEPT ![b] = <<k, manifest[b]>>]
               /\ endorsed' = endorsed \union {<<k, manifest[b]>>}
        BY DEF OperatorSigns
      <3>2. PICK e : e = <<k, manifest[b]>>
        OBVIOUS
      <3>3. e \in Key \X Text /\ b \in Bundle
        BY <3>2 DEF IInv, TypeOK, FilesTyped, Present
      <3> QED BY <3>1, <3>2, <3>3 DEF IInv, TypeOK, FilesTyped, Text, OperatorSigns
    <2>3. StepsTyped'
      BY DEF IInv, TypeOK, StepsTyped, OperatorSigns, Edit
    <2>4. DaemonTyped'
      BY DEF IInv, TypeOK, DaemonTyped, OperatorSigns, Edit
    <2> QED BY <2>1, <2>2, <2>3, <2>4 DEF TypeOK
  <1>2. SetupHolds'
    BY DEF IInv, TypeOK, SetupHolds, Present, OperatorSigns, Edit
  <1>3. DaemonSame
    BY DEF IInv, TypeOK, KeysTyped, DaemonSame, OperatorSigns, Edit
  <1>4. NothingDropped'
    BY DEF IInv, TypeOK, NothingDropped, OperatorSigns, Edit
  <1>5. (interrupts = 0 => Progress)'
    BY DEF IInv, TypeOK, Progress, OperatorSigns, Edit
  <1>6. (settled => AllInPlace)'
    BY DEF IInv, TypeOK, AllInPlace, OperatorSigns, Edit
  <1>7. AllowlistEndorsed'
    BY DEF IInv, TypeOK, AllowlistEndorsed, OperatorSigns, Edit
  <1>8. CalmProgress'
    BY DEF IInv, TypeOK, StepsTyped, CalmProgress, KeyPending, Trusted, SetupStage, Signing,
       Present, OperatorSigns, Edit
  <1> QED BY <1>1, <1>2, <1>3, <1>4, <1>5, <1>6, <1>7, <1>8, DaemonFrame DEF IInv

(* An operator may add a key to the trust file. *)
LEMMA OperatorAddsKeyIInv == IInv /\ OperatorAddsKey => IInv'
PROOF
  <1> SUFFICES ASSUME IInv, OperatorAddsKey PROVE IInv'
    OBVIOUS
  <1>1. TypeOK'
    <2>1. KeysTyped'
      BY DEF IInv, TypeOK, KeysTyped, Mine, Line, OperatorAddsKey, Edit
    <2>2. FilesTyped'
      BY DEF IInv, TypeOK, FilesTyped, OperatorAddsKey, Edit
    <2>3. StepsTyped'
      BY DEF IInv, TypeOK, StepsTyped, OperatorAddsKey, Edit
    <2>4. DaemonTyped'
      BY DEF IInv, TypeOK, DaemonTyped, OperatorAddsKey, Edit
    <2> QED BY <2>1, <2>2, <2>3, <2>4 DEF TypeOK
  <1>2. SetupHolds'
    BY DEF IInv, TypeOK, SetupHolds, Present, OperatorAddsKey, Edit
  <1>3. DaemonSame
    BY DEF IInv, TypeOK, KeysTyped, DaemonSame, OperatorAddsKey, Edit
  <1>4. NothingDropped'
    BY RangeOfAppend DEF IInv, TypeOK, KeysTyped, NothingDropped, OperatorAddsKey, Edit
  <1>5. (interrupts = 0 => Progress)'
    <2> SUFFICES ASSUME interrupts = 0 PROVE Progress'
      BY DEF OperatorAddsKey
    <2>1. PICK k \in OtherKey : trust'.lines = Append(trust.lines, k)
      BY DEF OperatorAddsKey
    <2>2. trust.lines \in Seq(Line) /\ Progress
      BY DEF IInv, TypeOK, KeysTyped
    <2>3. from_str(trust'.lines)
      BY <2>1, <2>2 DEF Progress, from_str, Key
    <2>4. Range(trust.lines) \subseteq Range(trust'.lines)
      BY <2>1, <2>2, RangeOfAppend
    <2> QED BY <2>2, <2>3, <2>4 DEF Progress, OperatorAddsKey, Edit, loads_config
  <1>6. (settled => AllInPlace)'
    BY DEF IInv, TypeOK, AllInPlace, OperatorAddsKey, Edit
  <1>7. AllowlistEndorsed'
    BY DEF IInv, TypeOK, AllowlistEndorsed, OperatorAddsKey, Edit
  <1>8. CalmProgress'
    <2>1. PICK k \in OtherKey : trust'.lines = Append(trust.lines, k) /\ trust'.there = TRUE
      BY DEF OperatorAddsKey
    <2>2. Range(trust.lines) \subseteq Range(trust'.lines)
      BY <2>1, RangeOfAppend DEF IInv, TypeOK, KeysTyped
    <2>3. calm' = FALSE /\ UNCHANGED <<pk, pc, my_pub, content>>
      BY DEF OperatorAddsKey, Edit
    <2> QED BY <2>1, <2>2, <2>3 DEF IInv, CalmProgress
  <1> QED BY <1>1, <1>2, <1>3, <1>4, <1>5, <1>6, <1>7, <1>8, DaemonFrame DEF IInv

(* An operator may write an allowlist or a configuration of their own. *)
LEMMA OperatorWritesPolicyIInv == IInv /\ OperatorWritesPolicy => IInv'
PROOF
  <1> SUFFICES ASSUME IInv, OperatorWritesPolicy PROVE IInv'
    OBVIOUS
  <1> DEFINE AllowType == [there : BOOLEAN, ok : BOOLEAN, names : SUBSET Name, own : BOOLEAN]
  <1>0. /\ UNCHANGED <<sk, pk, trust, manifest, sig, pc, loader, locals, daemon, keys, endorsed,
                       must_trust, interrupts>>
        /\ calm' = FALSE /\ settled' = FALSE /\ edits' = edits + 1
    BY DEF OperatorWritesPolicy, Edit
  <1> DEFINE Fine(a, c) == /\ a \in AllowType
                           /\ c \in {Absent, Empty, Torn, Prefix, Generated, Own, Invalid}
                           /\ config # Absent => c # Absent
                           /\ a = allow \/ (a.there = TRUE /\ a.own = TRUE)
  <1>a. Fine(allow', config')
    <2>0. allow \in AllowType /\ config \in {Absent, Empty, Torn, Prefix, Generated, Own, Invalid}
      BY DEF IInv, TypeOK, FilesTyped
    <2>1. ASSUME config' \in {Own, Invalid}, allow' = allow PROVE Fine(allow', config')
      <3>1. config' \in {Absent, Empty, Torn, Prefix, Generated, Own, Invalid} /\ config' # Absent
        BY <2>1 DEF Own, Invalid, Absent
      <3>2. allow' \in AllowType
        BY <2>0, <2>1
      <3> HIDE DEF AllowType
      <3> QED BY <2>1, <3>1, <3>2
    <2>2. ASSUME allow' \in [there : {TRUE}, ok : {TRUE}, names : SUBSET Bundle, own : {TRUE}],
                 config' = config
          PROVE  Fine(allow', config')
      BY <2>0, <2>2 DEF Name
    <2>3. ASSUME allow' = SpoiltAllow, config' = config PROVE Fine(allow', config')
      BY <2>0, <2>3 DEF SpoiltAllow
    <2> QED BY <2>1, <2>2, <2>3 DEF OperatorWritesPolicy
  <1>1. TypeOK'
    <2>1. KeysTyped'
      BY <1>0 DEF IInv, TypeOK, KeysTyped, Mine, Line
    <2>2. FilesTyped'
      BY <1>0, <1>a DEF IInv, TypeOK, FilesTyped
    <2>3. StepsTyped'
      BY <1>0 DEF IInv, TypeOK, StepsTyped
    <2>4. DaemonTyped'
      BY <1>0 DEF IInv, TypeOK, DaemonTyped
    <2> QED BY <2>1, <2>2, <2>3, <2>4 DEF TypeOK
  <1>2. SetupHolds'
    BY <1>0, <1>a DEF IInv, SetupHolds, Present
  <1>3. DaemonSame
    BY <1>0 DEF IInv, TypeOK, KeysTyped, DaemonSame
  <1>4. NothingDropped'
    BY <1>0 DEF IInv, NothingDropped
  <1>5. (interrupts = 0 => Progress)'
    BY <1>0, <1>a DEF IInv, Progress
  <1>6. (settled => AllInPlace)'
    BY <1>0
  <1>7. AllowlistEndorsed'
    BY <1>0, <1>a DEF IInv, AllowlistEndorsed
  <1>8. CalmProgress'
    BY <1>0 DEF IInv, CalmProgress, Present
  <1> QED BY <1>1, <1>2, <1>3, <1>4, <1>5, <1>6, <1>7, <1>8, DaemonFrame DEF IInv

(* An operator may remove the key pair between two runs, to have a new     *)
(* one.                                                                    *)
LEMMA OperatorRemovesKeysIInv == IInv /\ OperatorRemovesKeys => IInv'
PROOF
  <1> SUFFICES ASSUME IInv, OperatorRemovesKeys PROVE IInv'
    OBVIOUS
  <1>1. TypeOK'
    <2>1. KeysTyped'
      BY DEF IInv, TypeOK, KeysTyped, Mine, Line, OperatorRemovesKeys, Edit
    <2>2. FilesTyped'
      BY DEF IInv, TypeOK, FilesTyped, OperatorRemovesKeys, Edit
    <2>3. StepsTyped'
      BY DEF IInv, TypeOK, StepsTyped, OperatorRemovesKeys, Edit
    <2>4. DaemonTyped'
      BY DEF IInv, TypeOK, DaemonTyped, OperatorRemovesKeys, Edit
    <2> QED BY <2>1, <2>2, <2>3, <2>4 DEF TypeOK
  <1>2. SetupHolds'
    BY DEF IInv, TypeOK, SetupHolds, Present, OperatorRemovesKeys, Edit
  <1>3. DaemonSame
    BY DEF IInv, TypeOK, KeysTyped, DaemonSame, OperatorRemovesKeys, Edit
  <1>4. NothingDropped'
    BY DEF IInv, TypeOK, NothingDropped, OperatorRemovesKeys, Edit
  <1>5. (interrupts = 0 => Progress)'
    BY DEF IInv, TypeOK, Progress, KeyPending, Trusted, OperatorRemovesKeys, Edit
  <1>6. (settled => AllInPlace)'
    BY DEF IInv, TypeOK, AllInPlace, OperatorRemovesKeys, Edit
  <1>7. AllowlistEndorsed'
    BY DEF IInv, TypeOK, AllowlistEndorsed, OperatorRemovesKeys, Edit
  <1>8. CalmProgress'
    BY DEF IInv, TypeOK, StepsTyped, CalmProgress, KeyPending, Trusted, SetupStage, Signing,
       Present, OperatorRemovesKeys, Edit
  <1> QED BY <1>1, <1>2, <1>3, <1>4, <1>5, <1>6, <1>7, <1>8, DaemonFrame DEF IInv

(* The daemon starts with a configuration that loads (main.rs). *)
LEMMA LoadConfigIInv == IInv /\ LoadConfig => IInv'
PROOF
  <1> SUFFICES ASSUME IInv, LoadConfig PROVE IInv'
    OBVIOUS
  <1>1. TypeOK'
    <2>1. KeysTyped' /\ FilesTyped'
      BY DEF IInv, TypeOK, KeysTyped, FilesTyped, Mine, Line, LoadConfig
    <2>2. StepsTyped'
      BY DEF IInv, TypeOK, StepsTyped, Loading, DaemonStage, LoadConfig
    <2>3. DaemonTyped'
      BY DEF IInv, TypeOK, DaemonTyped, LoadConfig, Loaded
    <2> QED BY <2>1, <2>2, <2>3 DEF TypeOK
  <1>2. DaemonHolds'
    BY DEF IInv, TypeOK, DaemonTyped, DaemonHolds, PublishedWhole, Loading, LoadConfig
  <1>3. SetupSame
    BY DEF IInv, TypeOK, SetupSame, LoadConfig
  <1>4. LoadedIsSigned'
    BY DEF IInv, TypeOK, DaemonHolds, Loading, LoadedIsSigned, LoadConfig
  <1> QED BY <1>1, <1>2, <1>3, <1>4, SetupFrame DEF IInv

(* The daemon takes the trust file only if every line of it is a key. *)
LEMMA LoadOperatorTrustIInv == IInv /\ LoadOperatorTrust => IInv'
PROOF
  <1> SUFFICES ASSUME IInv, LoadOperatorTrust PROVE IInv'
    OBVIOUS
  <1>1. TypeOK'
    <2>1. KeysTyped' /\ FilesTyped'
      BY DEF IInv, TypeOK, KeysTyped, FilesTyped, Mine, Line, LoadOperatorTrust
    <2>2. StepsTyped'
      BY DEF IInv, TypeOK, StepsTyped, Loading, DaemonStage, LoadOperatorTrust, Exit
    <2>3. DaemonTyped'
      <3>1. from_str(trust.lines) => Range(trust.lines) \subseteq (1 .. keys) \union OtherKey
        BY KeysArePositive DEF IInv, TypeOK, KeysTyped, from_str, Range, Line
      <3> QED BY <3>1 DEF IInv, TypeOK, DaemonTyped, LoadOperatorTrust, Loaded, Exit, loads_trust
    <2> QED BY <2>1, <2>2, <2>3 DEF TypeOK
  <1>2. DaemonHolds'
    BY DEF IInv, TypeOK, StepsTyped, DaemonHolds, PublishedWhole, Loading, LoadOperatorTrust, Exit
  <1>3. SetupSame
    BY DEF IInv, TypeOK, StepsTyped, SetupSame, LoadOperatorTrust, Exit
  <1>4. LoadedIsSigned'
    BY DEF IInv, TypeOK, DaemonHolds, Loading, LoadedIsSigned, LoadOperatorTrust
  <1> QED BY <1>1, <1>2, <1>3, <1>4, SetupFrame DEF IInv

(* The daemon takes an allowlist that parses, or exits. *)
LEMMA LoadAllowlistIInv == IInv /\ LoadAllowlist => IInv'
PROOF
  <1> SUFFICES ASSUME IInv, LoadAllowlist PROVE IInv'
    OBVIOUS
  <1>1. TypeOK'
    <2>1. KeysTyped' /\ FilesTyped'
      BY DEF IInv, TypeOK, KeysTyped, FilesTyped, Mine, Line, LoadAllowlist
    <2>2. StepsTyped'
      BY DEF IInv, TypeOK, StepsTyped, Loading, DaemonStage, LoadAllowlist, Exit
    <2>3. DaemonTyped'
      BY DEF IInv, TypeOK, DaemonTyped, LoadAllowlist, Loaded, Exit
    <2> QED BY <2>1, <2>2, <2>3 DEF TypeOK
  <1>2. DaemonHolds'
    BY DEF IInv, TypeOK, StepsTyped, DaemonHolds, PublishedWhole, Loading, LoadAllowlist, Exit
  <1>3. SetupSame
    BY DEF IInv, TypeOK, StepsTyped, SetupSame, LoadAllowlist, Exit
  <1>4. LoadedIsSigned'
    BY DEF IInv, TypeOK, DaemonHolds, Loading, LoadedIsSigned, LoadAllowlist
  <1> QED BY <1>1, <1>2, <1>3, <1>4, SetupFrame DEF IInv

(* The daemon pins operator.pub only if it decodes, which makes it a key   *)
(* that setup generated.                                                   *)
LEMMA LoadOperatorPubIInv == IInv /\ LoadOperatorPub => IInv'
PROOF
  <1> SUFFICES ASSUME IInv, LoadOperatorPub PROVE IInv'
    OBVIOUS
  <1>1. TypeOK'
    <2>1. KeysTyped' /\ FilesTyped'
      BY DEF IInv, TypeOK, KeysTyped, FilesTyped, Mine, Line, LoadOperatorPub
    <2>2. StepsTyped'
      BY DEF IInv, TypeOK, StepsTyped, Loading, DaemonStage, LoadOperatorPub, Exit
    <2>3. DaemonTyped'
      BY DEF IInv, TypeOK, DaemonTyped, LoadOperatorPub, Loaded, Exit
    <2> QED BY <2>1, <2>2, <2>3 DEF TypeOK
  <1>2. DaemonHolds'
    BY KeysArePositive DEF IInv, TypeOK, KeysTyped, StepsTyped, DaemonHolds, PublishedWhole,
       Loading, Mine, LoadOperatorPub, Loaded, Exit
  <1>3. SetupSame
    BY DEF IInv, TypeOK, StepsTyped, SetupSame, LoadOperatorPub, Exit
  <1>4. LoadedIsSigned'
    BY DEF IInv, TypeOK, DaemonHolds, Loading, LoadedIsSigned, LoadOperatorPub
  <1> QED BY <1>1, <1>2, <1>3, <1>4, SetupFrame DEF IInv

(* The daemon lists the bundles present and has none loaded yet. *)
LEMMA discover_toolsIInv == IInv /\ discover_tools => IInv'
PROOF
  <1> SUFFICES ASSUME IInv, discover_tools PROVE IInv'
    OBVIOUS
  <1>1. TypeOK'
    <2>1. KeysTyped' /\ FilesTyped'
      BY DEF IInv, TypeOK, KeysTyped, FilesTyped, Mine, Line, discover_tools, List
    <2>2. StepsTyped'
      BY DEF IInv, TypeOK, StepsTyped, DaemonStage, discover_tools, List, Present
    <2>3. DaemonTyped'
      BY DEF IInv, TypeOK, DaemonTyped, discover_tools, List
    <2> QED BY <2>1, <2>2, <2>3 DEF TypeOK
  <1>2. DaemonHolds'
    BY DEF IInv, TypeOK, DaemonHolds, PublishedWhole, Loading, discover_tools, List
  <1>3. SetupSame
    BY DEF IInv, TypeOK, SetupSame, discover_tools, List
  <1>4. LoadedIsSigned'
    BY DEF IInv, TypeOK, LoadedIsSigned, discover_tools, List
  <1> QED BY <1>1, <1>2, <1>3, <1>4, SetupFrame DEF IInv

(* The temporary file of the session key does not touch the published one. *)
LEMMA CreateTempIInv == IInv /\ CreateTemp => IInv'
PROOF
  <1> SUFFICES ASSUME IInv, CreateTemp PROVE IInv'
    OBVIOUS
  <1>1. TypeOK'
    <2>1. KeysTyped' /\ FilesTyped'
      BY DEF IInv, TypeOK, KeysTyped, FilesTyped, Mine, Line, CreateTemp
    <2>2. StepsTyped'
      BY DEF IInv, TypeOK, StepsTyped, DaemonStage, CreateTemp
    <2>3. DaemonTyped'
      BY DEF IInv, TypeOK, DaemonTyped, CreateTemp
    <2> QED BY <2>1, <2>2, <2>3 DEF TypeOK
  <1>2. DaemonHolds'
    BY DEF IInv, TypeOK, DaemonHolds, PublishedWhole, Loading, CreateTemp
  <1>3. SetupSame
    BY DEF IInv, TypeOK, SetupSame, CreateTemp
  <1>4. LoadedIsSigned'
    BY DEF IInv, TypeOK, LoadedIsSigned, CreateTemp
  <1> QED BY <1>1, <1>2, <1>3, <1>4, SetupFrame DEF IInv

(* The temporary file holds this run's session key before it is renamed. *)
LEMMA WriteTempIInv == IInv /\ WriteTemp => IInv'
PROOF
  <1> SUFFICES ASSUME IInv, WriteTemp PROVE IInv'
    OBVIOUS
  <1>1. TypeOK'
    <2>1. KeysTyped' /\ FilesTyped'
      BY DEF IInv, TypeOK, KeysTyped, FilesTyped, Mine, Line, WriteTemp
    <2>2. StepsTyped'
      BY DEF IInv, TypeOK, StepsTyped, DaemonStage, WriteTemp
    <2>3. DaemonTyped'
      BY DEF IInv, TypeOK, DaemonTyped, WriteTemp
    <2> QED BY <2>1, <2>2, <2>3 DEF TypeOK
  <1>2. DaemonHolds'
    BY DEF IInv, TypeOK, DaemonHolds, PublishedWhole, Loading, WriteTemp
  <1>3. SetupSame
    BY DEF IInv, TypeOK, SetupSame, WriteTemp
  <1>4. LoadedIsSigned'
    BY DEF IInv, TypeOK, LoadedIsSigned, WriteTemp
  <1> QED BY <1>1, <1>2, <1>3, <1>4, SetupFrame DEF IInv

(* The rename replaces the published key by the whole new one. *)
LEMMA publish_session_pubIInv == IInv /\ publish_session_pub => IInv'
PROOF
  <1> SUFFICES ASSUME IInv, publish_session_pub PROVE IInv'
    OBVIOUS
  <1>1. TypeOK'
    <2>1. KeysTyped' /\ FilesTyped'
      BY DEF IInv, TypeOK, KeysTyped, FilesTyped, Mine, Line, publish_session_pub
    <2>2. StepsTyped'
      BY DEF IInv, TypeOK, StepsTyped, DaemonStage, publish_session_pub
    <2>3. DaemonTyped'
      BY DEF IInv, TypeOK, DaemonTyped, publish_session_pub
    <2> QED BY <2>1, <2>2, <2>3 DEF TypeOK
  <1>2. DaemonHolds'
    BY DEF IInv, TypeOK, StepsTyped, DaemonTyped, DaemonHolds, PublishedWhole, Loading,
       publish_session_pub
  <1>3. SetupSame
    BY DEF IInv, TypeOK, SetupSame, publish_session_pub
  <1>4. LoadedIsSigned'
    BY DEF IInv, TypeOK, LoadedIsSigned, publish_session_pub
  <1> QED BY <1>1, <1>2, <1>3, <1>4, SetupFrame DEF IInv

(* The daemon may stop at any stage; what it published stays whole. *)
LEMMA StopIInv == IInv /\ Stop => IInv'
PROOF
  <1> SUFFICES ASSUME IInv, Stop PROVE IInv'
    OBVIOUS
  <1>1. TypeOK'
    <2>1. KeysTyped' /\ FilesTyped'
      BY DEF IInv, TypeOK, KeysTyped, FilesTyped, Mine, Line, Stop
    <2>2. StepsTyped'
      <3>1. pc' \in [Actor -> SetupStage \union DaemonStage] /\ pc'["setup"] \in SetupStage
            /\ pc'["daemon"] \in DaemonStage
        BY DEF IInv, TypeOK, StepsTyped, Stop, Exit, DaemonStage, Loading
      <3>2. /\ todo' \in [Actor -> SUBSET Bundle] /\ cur' \in [Actor -> Bundle \union {NoBundle}]
            /\ held' \in [Actor -> Text] /\ found' \in [Actor -> SUBSET Version]
        BY DEF IInv, TypeOK, StepsTyped, Stop, Text
      <3> QED BY <3>1, <3>2 DEF StepsTyped
    <2>3. DaemonTyped'
      BY DEF IInv, TypeOK, DaemonTyped, Stop, Loaded, Exit
    <2> QED BY <2>1, <2>2, <2>3 DEF TypeOK
  <1>2. DaemonHolds'
    BY DEF IInv, TypeOK, StepsTyped, DaemonHolds, PublishedWhole, Loading, Stop, Exit
  <1>3. SetupSame
    BY DEF IInv, TypeOK, SetupSame, Stop, Exit
  <1>4. LoadedIsSigned'
    BY DEF IInv, TypeOK, StepsTyped, LoadedIsSigned, Stop
  <1> QED BY <1>1, <1>2, <1>3, <1>4, SetupFrame DEF IInv

(* The first read of VerifiedBundle::load, by setup or by the daemon: the  *)
(* text is held while the file may change.                                 *)
LEMMA ReadManifestIInv ==
  ASSUME IInv, NEW actor \in Actor, ReadManifest(actor)
  PROVE  IInv'
PROOF
  <1>1. PICK b \in todo[actor] :
          /\ cur' = [cur EXCEPT ![actor] = b] /\ held' = [held EXCEPT ![actor] = manifest[b]]
          /\ todo' = [todo EXCEPT ![actor] = @ \ {b}]
    BY DEF ReadManifest
  <1>2. /\ pc[actor] = "load" /\ pc' = [pc EXCEPT ![actor] = "verify"]
        /\ UNCHANGED <<files, found, locals, daemon, history, bounds>>
    BY DEF ReadManifest
  <1>3. b \in Bundle /\ manifest[b] \in Text
    BY <1>1 DEF IInv, TypeOK, FilesTyped, StepsTyped
  <1>4. TypeOK'
    <2>1. StepsTyped'
      BY <1>1, <1>2, <1>3 DEF IInv, TypeOK, StepsTyped, SetupStage, DaemonStage
    <2> QED BY <1>2, <2>1 DEF IInv, TypeOK, KeysTyped, FilesTyped, DaemonTyped, Mine, Line
  <1>5. CASE actor = "setup"
    <2>1. DaemonSame
      BY <1>1, <1>2, <1>5 DEF IInv, TypeOK, KeysTyped, DaemonSame
    <2>2. /\ pc["setup"] = "load" /\ pc'["setup"] = "verify" /\ cur'["setup"] \in Bundle
          /\ todo'["setup"] \subseteq todo["setup"]
      BY <1>1, <1>2, <1>3, <1>5 DEF IInv, TypeOK, StepsTyped
    <2>3. SetupHolds' /\ NothingDropped' /\ AllowlistEndorsed'
      BY <1>2, <2>2 DEF IInv, SetupHolds, NothingDropped, AllowlistEndorsed, Present
    <2>4. (interrupts = 0 => Progress)' /\ (settled => AllInPlace)' /\ CalmProgress'
      BY <1>2, <2>2 DEF IInv, Progress, AllInPlace, CalmProgress, KeyPending, Trusted, SetupStage, Signing,
         Present
    <2> QED BY <1>4, <2>1, <2>3, <2>4, DaemonFrame DEF IInv
  <1>6. CASE actor = "daemon"
    <2>1. SetupSame
      BY <1>1, <1>2, <1>6 DEF IInv, TypeOK, SetupSame
    <2>2. pc["daemon"] = "load" /\ pc'["daemon"] = "verify" /\ cur'["daemon"] \in Bundle
      BY <1>1, <1>2, <1>3, <1>6 DEF IInv, TypeOK, StepsTyped
    <2>3. DaemonHolds' /\ LoadedIsSigned'
      BY <1>2, <2>2 DEF IInv, DaemonHolds, Loading, PublishedWhole, LoadedIsSigned
    <2> QED BY <1>4, <2>1, <2>3, SetupFrame DEF IInv
  <1> QED BY <1>5, <1>6

(* What verify_bytes accepts is one text that a key of the trust store     *)
(* signed as it is: a torn or empty signature has no key, and every other  *)
(* signature on disk is an endorsement of the text inside it, not of the   *)
(* file it lies beside.                                                    *)
LEMMA VerifiedIsEndorsed ==
  ASSUME IInv, NEW actor \in Actor, cur[actor] \in Bundle, NEW by \in SUBSET Key,
         verify_bytes(held[actor], sig[cur[actor]], by)
  PROVE  /\ held[actor] \in Version /\ held[actor] \in PayloadMatches
         /\ \E k \in by : <<k, held[actor]>> \in endorsed
PROOF
  <1>1. PICK s : s = sig[cur[actor]]
    OBVIOUS
  <1>2. s[1] \in by /\ s[2] = held[actor] /\ held[actor] \in Version /\ held[actor] \in PayloadMatches
    BY <1>1 DEF verify_bytes
  <1>3. s \in {NoSig, <<Empty, Empty>>, <<Torn, Torn>>} \union endorsed
    BY <1>1 DEF IInv, TypeOK, FilesTyped
  <1>4. NoSig[1] = Absent /\ <<Empty, Empty>>[1] = Empty /\ <<Torn, Torn>>[1] = Torn
    BY DEF NoSig
  <1>5. s[1] \notin {Absent, Empty, Torn}
    BY <1>2, KeysArePositive
  <1>6. s \in endorsed
    BY <1>3, <1>4, <1>5
  <1>7. s \in Key \X Text
    BY <1>6 DEF IInv, TypeOK, FilesTyped
  <1>8. s = <<s[1], s[2]>>
    BY <1>7
  <1> QED BY <1>2, <1>6, <1>8

(* The second read of VerifiedBundle::load: whatever was replaced since    *)
(* the first, a bundle that is kept was endorsed by a trusted key.         *)
LEMMA ReadSigIInv ==
  ASSUME IInv, NEW actor \in Actor, ReadSig(actor)
  PROVE  IInv'
PROOF
  <1> DEFINE Verified == /\ verify_bytes(held[actor], sig[cur[actor]], TrustOf(actor))
                         /\ verified_read_only(actor, held[actor])
  <1>1. /\ pc[actor] = "verify" /\ pc' = [pc EXCEPT ![actor] = "load"]
        /\ cur' = [cur EXCEPT ![actor] = NoBundle] /\ held' = [held EXCEPT ![actor] = Absent]
        /\ UNCHANGED <<files, todo, locals, daemon, history, bounds>>
        /\ found' = IF Verified THEN [found EXCEPT ![actor] = @ \union {held[actor]}] ELSE found
    BY DEF ReadSig
  <1>2. TrustOf(actor) \in SUBSET Key /\ cur[actor] \in Bundle
    <2>1. (1 .. keys) \union OtherKey \subseteq Key
      BY ProvisioningAssumption DEF IInv, TypeOK, KeysTyped, Key
    <2> QED BY <1>1, <2>1 DEF IInv, TypeOK, DaemonTyped, SetupHolds, DaemonHolds, TrustOf
  <1>3. Verified => /\ held[actor] \in Version /\ held[actor] \in PayloadMatches
                    /\ \E k \in TrustOf(actor) : <<k, held[actor]>> \in endorsed
    BY <1>2, VerifiedIsEndorsed
  <1>4. /\ found' \in [Actor -> SUBSET Version]
        /\ \A a \in Actor : \A v \in found'[a] : v \in found[a] \/ (a = actor /\ Verified /\ v = held[actor])
        /\ \A a \in Actor : a # actor => found'[a] = found[a]
    <2> HIDE DEF Verified
    <2> QED BY <1>1, <1>3 DEF IInv, TypeOK, StepsTyped
  <1>5. TypeOK'
    <2>1. StepsTyped'
      BY <1>1, <1>4 DEF IInv, TypeOK, StepsTyped, SetupStage, DaemonStage, Text
    <2> QED BY <1>1, <2>1 DEF IInv, TypeOK, KeysTyped, FilesTyped, DaemonTyped, Mine, Line
  <1>6. CASE actor = "setup"
    <2>1. DaemonSame
      BY <1>1, <1>4, <1>6 DEF IInv, TypeOK, KeysTyped, DaemonSame
    <2>2. pc["setup"] = "verify" /\ pc'["setup"] = "load" /\ todo' = todo
      BY <1>1, <1>6 DEF IInv, TypeOK, StepsTyped
    <2>3. ASSUME NEW v \in found'["setup"]
          PROVE  v \in ReadOnly /\ \E k \in Key : <<k, v>> \in endorsed
      <3>1. CASE v \in found["setup"]
        BY <3>1 DEF IInv, SetupHolds
      <3>2. CASE Verified /\ v = held[actor]
        BY <1>2, <1>3, <1>6, <3>2 DEF verified_read_only
      <3> QED BY <1>4, <1>6, <2>3, <3>1, <3>2
    <2>4. SetupHolds' /\ NothingDropped' /\ AllowlistEndorsed'
      BY <1>1, <2>2, <2>3 DEF IInv, SetupHolds, NothingDropped, AllowlistEndorsed, Present
    <2>5. (interrupts = 0 => Progress)' /\ (settled => AllInPlace)' /\ CalmProgress'
      BY <1>1, <2>2 DEF IInv, Progress, AllInPlace, CalmProgress, KeyPending, Trusted, SetupStage, Signing,
         Present
    <2> QED BY <1>5, <2>1, <2>4, <2>5, DaemonFrame DEF IInv
  <1>7. CASE actor = "daemon"
    <2>1. SetupSame
      BY <1>1, <1>4, <1>7 DEF IInv, TypeOK, SetupSame
    <2>2. pc["daemon"] = "verify" /\ pc'["daemon"] = "load"
      BY <1>1, <1>7 DEF IInv, TypeOK, StepsTyped
    <2>3. DaemonHolds'
      BY <1>1, <2>2 DEF IInv, DaemonHolds, Loading, PublishedWhole
    <2>4. ASSUME NEW v \in found'["daemon"]
          PROVE  v \in PayloadMatches /\ \E k \in d_trust : <<k, v>> \in endorsed
      <3>1. CASE v \in found["daemon"]
        BY <3>1 DEF IInv, LoadedIsSigned
      <3>2. CASE Verified /\ v = held[actor]
        BY <1>3, <1>7, <3>2 DEF TrustOf
      <3> QED BY <1>4, <1>7, <2>4, <3>1, <3>2
    <2>5. LoadedIsSigned'
      BY <1>1, <2>4 DEF LoadedIsSigned
    <2> QED BY <1>5, <2>1, <2>3, <2>5, SetupFrame DEF IInv
  <1> QED BY <1>6, <1>7

(* A kill or a failed write at any stage leaves a prefix of the file being *)
(* written and touches no other.                                           *)
LEMMA InterruptIInv == IInv /\ Interrupt => IInv'
PROOF
  <1> SUFFICES ASSUME IInv, Interrupt PROVE IInv'
    OBVIOUS
  <1>1. /\ pc["setup"] # "idle" /\ pc' = [pc EXCEPT !["setup"] = "idle"]
        /\ interrupts' = interrupts + 1 /\ settled' = FALSE
        /\ cur' = [cur EXCEPT !["setup"] = NoBundle] /\ held' = [held EXCEPT !["setup"] = Absent]
        /\ UNCHANGED <<manifest, todo, found, locals, daemon, keys, endorsed, must_trust, calm, edits>>
    BY DEF Interrupt, Fail
  <1>2. trust' \in [there : BOOLEAN, lines : Seq(Line), text : BOOLEAN]
    <2>1. content \in Seq(Line) /\ trust \in [there : BOOLEAN, lines : Seq(Line), text : BOOLEAN]
      BY DEF IInv, TypeOK, KeysTyped
    <2>2. ASSUME NEW n \in 0 .. Len(content) - 1
          PROVE  SubSeq(content, 1, n) \in Seq(Line) /\ Append(SubSeq(content, 1, n), Torn) \in Seq(Line)
      BY <2>1 DEF Line
    <2>3. CutShort(content) \subseteq [there : BOOLEAN, lines : Seq(Line), text : BOOLEAN]
      <3> DEFINE whole == {SubSeq(content, 1, n) : n \in 0 .. Len(content) - 1}
                 cut == whole \union {Append(l, Torn) : l \in whole}
      <3>1. whole \subseteq Seq(Line) /\ cut \subseteq Seq(Line)
        BY <2>2
      <3>2. CutShort(content) = [there : {TRUE}, lines : cut, text : {TRUE}]
                                  \union [there : {TRUE}, lines : whole \ {<<>>}, text : {FALSE}]
        BY DEF CutShort
      <3> HIDE DEF whole, cut
      <3> QED BY <3>1, <3>2
    <2>4. trust' \in {trust} \union CutShort(content)
      BY DEF Interrupt
    <2> QED BY <2>1, <2>3, <2>4
  <1>3. KeysTyped'
    BY <1>1, <1>2 DEF IInv, TypeOK, KeysTyped, Mine, Line, Interrupt
  <1>4. FilesTyped' /\ allow'.own = allow.own /\ allow'.there = allow.there /\ allow'.names = allow.names
    <2>1. allow' \in {allow, [allow EXCEPT !.ok = FALSE]}
      BY DEF Interrupt
    <2>2. sig' \in {sig, [sig EXCEPT ![cur["setup"]] = <<Torn, Torn>>]}
      BY DEF Interrupt
    <2>3. config' \in {Torn, Prefix, config}
      BY DEF Interrupt
    <2> QED BY <1>1, <2>1, <2>2, <2>3 DEF IInv, TypeOK, FilesTyped, Text
  <1>5. StepsTyped' /\ DaemonTyped'
    BY <1>1 DEF IInv, TypeOK, StepsTyped, DaemonTyped, SetupStage, Text
  <1>6. SetupHolds' /\ NothingDropped' /\ AllowlistEndorsed'
    <2>1. trust' = trust \/ trust'.there = TRUE
      BY DEF Interrupt, CutShort
    <2> QED BY <1>1, <1>4, <2>1 DEF IInv, TypeOK, StepsTyped, SetupHolds, NothingDropped,
       AllowlistEndorsed, Present
  <1>7. interrupts' # 0
    BY <1>1 DEF IInv, TypeOK, KeysTyped
  <1>8. DaemonSame
    BY <1>1 DEF IInv, TypeOK, KeysTyped, DaemonSame
  <1>9. CalmProgress'
    BY <1>1 DEF IInv, TypeOK, StepsTyped, CalmProgress, KeyPending, Trusted
  <1> QED BY <1>1, <1>3, <1>4, <1>5, <1>6, <1>7, <1>8, <1>9, DaemonFrame DEF IInv, TypeOK

(* The initial state satisfies the inductive invariant. *)
LEMMA InitIInv == Init => IInv
PROOF
  <1> SUFFICES ASSUME Init PROVE IInv
    OBVIOUS
  <1>1. TypeOK
    <2>1. KeysTyped
      <3>1. trust \in [there : BOOLEAN, lines : Seq(Line), text : BOOLEAN]
        BY DEF Init, NoTrust
      <3>2. misread \in BOOLEAN
        BY Zenon DEF Init
      <3> QED BY <3>1, <3>2, ProvisioningAssumption DEF Init, KeysTyped, Mine
    <2>2. FilesTyped
      <3>1. manifest \in [Bundle -> Text]
        BY ProvisioningAssumption DEF Init, Text, Absent
      <3> QED BY <3>1 DEF Init, FilesTyped, NoAllow
    <2>3. StepsTyped
      <3>1. pc \in [Actor -> SetupStage \union DaemonStage]
        BY DEF Init, SetupStage, DaemonStage, Loading
      <3> QED BY <3>1 DEF Init, StepsTyped, SetupStage, DaemonStage, Loading, Text
    <2>4. DaemonTyped
      BY DEF Init, DaemonTyped
    <2> QED BY <2>1, <2>2, <2>3, <2>4 DEF TypeOK
  <1>2. SetupHolds
    BY DEF Init, SetupHolds, NoAllow, NoTrust
  <1>3. DaemonHolds
    BY DEF Init, DaemonHolds, Loading, PublishedWhole, Absent
  <1>4. NothingDropped
    BY DEF Init, NothingDropped
  <1>5. Progress
    BY DEF Init, Progress, from_str, NoTrust, NoAllow, KeyPending, Trusted
  <1>6. ~settled
    BY DEF Init
  <1>7. LoadedIsSigned /\ AllowlistEndorsed
    BY DEF Init, LoadedIsSigned, AllowlistEndorsed, NoAllow
  <1>8. CalmProgress
    BY DEF Init, CalmProgress, KeyPending, Trusted
  <1> QED BY <1>1, <1>2, <1>3, <1>4, <1>5, <1>6, <1>7, <1>8 DEF IInv

(* Every state of setup, the daemon and the operators' edits satisfies the *)
(* inductive invariant, however many bundles, keys, edits, runs and        *)
(* interruptions there are.                                                *)
THEOREM Invariance == Spec => []IInv
PROOF
  <1>1. IInv /\ [Next]_vars => IInv'
    <2> SUFFICES ASSUME IInv, [Next]_vars PROVE IInv'
      OBVIOUS
    <2>1. CASE UNCHANGED vars
      <3>1. DaemonSame /\ SetupSame /\ UNCHANGED <<held, cur, todo, found, pc>>
        BY <2>1 DEF vars, DaemonSame, SetupSame, IInv, TypeOK, KeysTyped
      <3>2. TypeOK'
        BY <2>1 DEF vars, IInv, TypeOK, KeysTyped, FilesTyped, StepsTyped, DaemonTyped, Mine, Line
      <3> QED BY <3>1, <3>2, DaemonFrame, SetupFrame DEF IInv
    <2>2. CASE SetupStep
      BY <2>2, StartIInv, KeepKeyIInv, init_operator_keyIInv, WriteSecretIInv, CreatePublicIInv,
         WritePublicIInv, ReadPublicIInv, ReadTrustIInv, MisreadTrustIInv, OpenTrustIInv, WriteTrustIInv,
         ListBundlesIInv, SkipSignedIInv, sign_bundleIInv, WriteSigIInv, KeepAllowIInv,
         LoadTrustIInv, CreateAllowIInv, WriteAllowIInv, CheckConfigIInv, CreateConfigIInv,
         WriteConfigIInv, ValidateIInv, FinishIInv DEF SetupStep
    <2>3. CASE DaemonStep
      BY <2>3, LoadConfigIInv, LoadOperatorTrustIInv, LoadAllowlistIInv, LoadOperatorPubIInv,
         discover_toolsIInv, CreateTempIInv, WriteTempIInv, publish_session_pubIInv, StopIInv
         DEF DaemonStep
    <2>4. CASE OperatorStep
      BY <2>4, OperatorEditsManifestIInv, OperatorSignsIInv, OperatorAddsKeyIInv,
         OperatorWritesPolicyIInv, OperatorRemovesKeysIInv DEF OperatorStep
    <2> QED BY <2>1, <2>2, <2>3, <2>4, InterruptIInv, ReadManifestIInv, ReadSigIInv DEF Next
  <1> QED BY <1>1, InitIInv, PTL DEF Spec

(* What the daemon loads at start was signed as it is by a key it trusts,  *)
(* the keys are ones operators generated or added, and the session key the *)
(* executor reads is whole (verify.rs, trust.rs, main.rs                   *)
(* publish_session_pub).                                                   *)
THEOREM DaemonStartsSound == Spec => []DaemonInputsSound
PROOF
  <1>1. IInv => DaemonInputsSound
    BY DEF IInv, TypeOK, DaemonTyped, DaemonHolds, Loading, TrustsOnlyOperators, DaemonInputsSound
  <1> QED BY <1>1, Invariance, PTL

(* A setup that completes leaves an allowlist of endorsed read-only        *)
(* bundles, keeps every key that was trusted when it began unless it could *)
(* not read their file, and with no edit beside it leaves every file       *)
(* there; what the daemon starts from, if no run was cut short (setup.rs). *)
THEOREM SetupLeavesSound == Spec => []SetupSound
PROOF
  <1>1. IInv => KeysSurviveRun
    BY DEF IInv, NothingDropped, KeysSurviveRun
  <1>2. IInv => SetupCompletes
    BY DEF IInv, SetupHolds, CalmProgress, KeyPending, Trusted, SetupStage, Signing, SetupCompletes
  <1>4. IInv => SetupMakesStartable
    <2>1. IInv => SetupCompletes
      BY <1>2
    <2> QED BY <2>1 DEF IInv, Progress, KeyPending, loads_trust, SetupCompletes, SetupMakesStartable
  <1>3. IInv => AllowlistEndorsed
    BY DEF IInv
  <1> QED BY <1>1, <1>2, <1>3, <1>4, Invariance, PTL DEF SetupSound

(* No step but an operator's changes an operator's key, or an allowlist or *)
(* configuration of theirs that is there, except where it was written into *)
(* a file setup has created and not yet written; and running setup again   *)
(* after an undisturbed run changes no file of setup::run (setup.rs:       *)
(* "never overwrites", "idempotent").                                      *)
THEOREM FilesLeftAlone == Spec => LeavesFilesAlone
PROOF
  <1> DEFINE Kept == /\ edits' = edits =>
                          /\ sk \in Key => sk' = sk
                          /\ allow.own /\ ~At("setup", "allow_w") => allow' = allow
                          /\ config \in {Own, Invalid} /\ ~At("setup", "config_w") => config' = config
                     /\ settled /\ settled' => UNCHANGED files
  <1>1. IInv /\ [Next]_vars => [Kept]_vars
    <2> SUFFICES ASSUME IInv, Next PROVE Kept
      OBVIOUS
    <2>1. CASE UNCHANGED files
      BY <2>1
    <2>2. CASE OperatorStep
      <3>1. edits' # edits /\ settled' = FALSE
        <4>1. Edit
          BY <2>2, Zenon DEF OperatorStep, OperatorEditsManifest, OperatorSigns, OperatorAddsKey,
                      OperatorWritesPolicy, OperatorRemovesKeys
        <4> QED BY <4>1 DEF Edit, IInv, TypeOK, KeysTyped
      <3> QED BY <3>1
    <2>3. CASE Interrupt
      <3>1. settled' = FALSE
        BY <2>3 DEF Interrupt
      <3>2. sk \in Key => sk' = sk
        BY <2>3, KeysArePositive DEF Interrupt, IInv, SetupHolds
      <3>3. ~At("setup", "allow_w") => allow' = allow
        BY <2>3 DEF Interrupt
      <3>4. ~At("setup", "config_w") => config' = config
        BY <2>3 DEF Interrupt
      <3> QED BY <3>1, <3>2, <3>3, <3>4
    <2>4. CASE init_operator_key \/ WriteSecret
      <3>1. sk \notin Key /\ UNCHANGED <<pk, trust, manifest, sig, allow, config>>
        BY <2>4, KeysArePositive DEF init_operator_key, WriteSecret, IInv, SetupHolds
      <3>2. ~settled
        BY <2>4, <3>1 DEF IInv, AllInPlace
      <3> QED BY <3>1, <3>2
    <2>5. CASE CreatePublic \/ WritePublic \/ OpenTrust \/ WriteTrust \/ WriteSig
      <3>1. UNCHANGED <<sk, allow, config>>
        BY <2>5 DEF CreatePublic, WritePublic, OpenTrust, WriteTrust, WriteSig
      <3>2. ~settled
        BY <2>5 DEF IInv, AllInPlace, CreatePublic, WritePublic, OpenTrust, WriteTrust, WriteSig
      <3> QED BY <3>1, <3>2
    <2>6. CASE sign_bundle
      <3>1. UNCHANGED <<sk, allow, config>> /\ ~settled
        BY <2>6 DEF sign_bundle, IInv, SetupHolds, AllInPlace
      <3> QED BY <3>1
    <2>7. CASE CreateAllow \/ WriteAllow
      <3>1. UNCHANGED <<sk, config>> /\ ~settled
        BY <2>7 DEF CreateAllow, WriteAllow, IInv, AllInPlace
      <3>2. allow.own /\ ~At("setup", "allow_w") => allow' = allow
        BY <2>7 DEF CreateAllow, WriteAllow, IInv, SetupHolds
      <3> QED BY <3>1, <3>2
    <2>8. CASE CreateConfig \/ WriteConfig
      <3>1. UNCHANGED <<sk, allow>> /\ ~settled
        BY <2>8 DEF CreateConfig, WriteConfig, IInv, AllInPlace
      <3>2. config \in {Own, Invalid} /\ ~At("setup", "config_w") => config' = config
        BY <2>8 DEF CreateConfig, WriteConfig, IInv, SetupHolds, Own, Invalid, Absent
      <3> QED BY <3>1, <3>2
    <2>9. CASE SetupStep
      <3>1. Start \/ KeepKey \/ ReadPublic \/ ReadTrust \/ MisreadTrust \/ ListBundles \/ SkipSigned \/ KeepAllow
              \/ LoadTrust \/ CheckConfig \/ Validate \/ Finish => UNCHANGED files
        BY DEF Start, KeepKey, ReadPublic, ReadTrust, MisreadTrust, ListBundles, SkipSigned, KeepAllow, LoadTrust,
               CheckConfig, Validate, Finish
      <3> QED BY <2>1, <2>4, <2>5, <2>6, <2>7, <2>8, <2>9, <3>1 DEF SetupStep
    <2>10. DaemonStep \/ (\E actor \in Actor : ReadManifest(actor) \/ ReadSig(actor)) => UNCHANGED files
      BY DEF DaemonStep, LoadConfig, LoadOperatorTrust, LoadAllowlist, LoadOperatorPub,
             discover_tools, CreateTemp, WriteTemp, publish_session_pub, Stop, ReadManifest, ReadSig
    <2> HIDE DEF Kept
    <2> QED BY <2>1, <2>2, <2>3, <2>9, <2>10 DEF Next
  <1> QED BY <1>1, Invariance, PTL DEF Spec, LeavesFilesAlone

=============================================================================
