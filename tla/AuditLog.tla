-------------------------------- MODULE AuditLog --------------------------------
(***************************************************************************)
(* archangel-audit and the part of archangeld's start that opens it: the   *)
(* audit key file, the rotation of an older log, the hash-chained writer   *)
(* (write, then fsync, then advance the head), and the verifier.           *)
(*                                                                         *)
(* A file is the sequence of what was written to it.  An item is one JSON  *)
(* line: "whole" (newline included), "bare" (the newline is missing) or    *)
(* "part".  Whatever follows an item without a newline is on its line.     *)
(* A hash is the entry it hashes, a signature is its maker's key, and a    *)
(* time stamp is the number of the daemon's run.  The files are synced,    *)
(* the directory they are named in never is: a power failure may bring     *)
(* back the directory as it was before the log was created or renamed.     *)
(***************************************************************************)
EXTENDS Integers, Sequences, SequencesExt, FiniteSets

CONSTANTS
  Event,      \* the events appended after Genesis
  Genesis,    \* the event of the first entry
  MaxBoot,    \* bound: runs of the daemon
  MaxAppend,  \* bound: entries sealed in each run, [1 .. MaxBoot -> Nat]
  MaxFault    \* bound: failed writes and syncs, crashes excepted

ASSUME EventAssumption == Genesis \notin Event
ASSUME RunsAssumption ==
  /\ MaxBoot \in Nat \ {0} /\ MaxFault \in Nat
  /\ MaxAppend \in [1 .. MaxBoot -> Nat]

NoFile == -1       \* the key file does not exist
Torn == 0          \* the key file does not hold a seed; a key is named by its run
GENESIS_PREV_HASH == <<>>

VARIABLES
  key_file, key_synced,   \* the audit key on disk, and whether it must survive
  keypair,                \* the key this run signs with
  phase,                  \* main: "down", "keying", "keyed", "rotated", "up"
  exists, log_file,       \* the log at its path
  synced,                 \* how many of its items an fsync has covered
  archive,                \* rotated logs, each under a name of its own
  earlier,                \* directories a power failure may bring back
  next_seq, prev_hash,    \* AuditLog
  writing,                \* commit_line: "idle" or "written" (not yet synced)
  boot,                   \* this run
  faults,                 \* failed writes and syncs so far
  acked,                  \* history: [run -> entries whose append returned Ok]
  unsure,                 \* history: runs in which an append failed or was cut
  pinned,                 \* history: the key the operator pinned, the first one used
  power_lost,             \* history: the power failed
  lost,                   \* history: runs whose whole log was replaced or unnamed
  damaged                 \* history: the log was damaged from outside

disk == <<key_file, key_synced, exists, log_file, synced, archive, earlier>>
head == <<next_seq, prev_hash>>
history == <<acked, unsure, pinned, power_lost, lost, damaged>>
vars == <<disk, keypair, phase, head, writing, boot, faults, history>>

Init ==
  /\ key_file = NoFile /\ key_synced = TRUE
  /\ keypair = Torn
  /\ phase = "down"
  /\ exists = FALSE /\ log_file = <<>> /\ synced = 0 /\ archive = <<>> /\ earlier = {}
  /\ next_seq = 0 /\ prev_hash = GENESIS_PREV_HASH
  /\ writing = "idle"
  /\ boot = 1
  /\ faults = 0
  /\ acked = [b \in 1 .. MaxBoot |-> <<>>]
  /\ unsure = {}
  /\ pinned = Torn
  /\ power_lost = FALSE
  /\ lost = {}
  /\ damaged = FALSE

(* The directory, the logs in it, and whose runs they are of.              *)
Here == [archive |-> archive, exists |-> exists, log_file |-> log_file]
NamedIn(dir) == Range(dir.archive) \union {dir.log_file}
RunOf(f) == f[1].entry.time
RunsOf(files) == {RunOf(f) : f \in files \ {<<>>}}

-----------------------------------------------------------------------------
(* The start of a run.                                                     *)

(* load_or_create_audit_key: a key file that exists is read, and a seed    *)
(* that does not parse is an error that ends the start, never replaced.    *)
LoadKey ==
  /\ phase = "down"
  /\ key_file \notin {NoFile, Torn}
  /\ keypair' = key_file
  /\ phase' = "keyed"
  /\ UNCHANGED <<disk, head, writing, boot, faults, history>>

(* Otherwise a new one is made: the file is created, then written, and     *)
(* not synced.                                                             *)
CreateKeyFile ==
  /\ phase = "down"
  /\ key_file = NoFile
  /\ key_file' = Torn
  /\ key_synced' = FALSE
  /\ keypair' = boot
  /\ phase' = "keying"
  /\ UNCHANGED <<exists, log_file, synced, archive, earlier, head, writing, boot, faults, history>>
WriteKey ==
  /\ phase = "keying"
  /\ key_file' = keypair
  /\ phase' = "keyed"
  /\ UNCHANGED <<key_synced, exists, log_file, synced, archive, earlier, keypair, head,
                 writing, boot, faults, history>>

(* The log is renamed after the clock's milliseconds, or after 0 when the  *)
(* clock is before the epoch.  A clock that shows the same again replaces  *)
(* the log that was rotated to this name.                                  *)
rotate_existing_log ==
  /\ phase = "keyed"
  /\ \/ ~exists /\ UNCHANGED <<archive, lost>>
     \/ exists /\ archive' = Append(archive, log_file) /\ lost' = lost
     \/ exists /\ \E i \in DOMAIN archive :
                    /\ archive' = [archive EXCEPT ![i] = log_file]
                    /\ lost' = lost \union RunsOf({archive[i]})
  /\ earlier' = earlier \union {Here}
  /\ exists' = FALSE
  /\ log_file' = <<>>
  /\ synced' = 0
  /\ phase' = "rotated"
  /\ UNCHANGED <<key_file, key_synced, keypair, head, writing, boot, faults, acked, unsure,
                 pinned, power_lost, damaged>>

open_resuming ==
  /\ phase = "rotated"
  /\ exists' = TRUE
  /\ earlier' = earlier \union {Here}
  /\ phase' = "up"
  /\ pinned' = IF pinned = Torn THEN keypair ELSE pinned
  /\ UNCHANGED <<key_file, key_synced, log_file, synced, archive, keypair, head, writing, boot,
                 faults, acked, unsure, power_lost, lost, damaged>>
(* AuditLog::open and with_sink: an empty file and a fresh head.  Genesis  *)
(* is the first append; should it fail, main returns and the run is over.  *)
open ==
  /\ phase = "rotated"
  /\ exists' = TRUE
  /\ earlier' = earlier \union {Here}
  /\ next_seq' = 0
  /\ prev_hash' = GENESIS_PREV_HASH
  /\ phase' = "up"
  /\ pinned' = IF pinned = Torn THEN keypair ELSE pinned
  /\ UNCHANGED <<key_file, key_synced, log_file, synced, archive, keypair, writing, boot,
                 faults, acked, unsure, power_lost, lost, damaged>>

-----------------------------------------------------------------------------
(* append                                                                  *)
Sealed == Len(SelectSeq(log_file, LAMBDA item : item.entry.time = boot))

seal(event) == [seq |-> next_seq, time |-> boot, prev_hash |-> prev_hash,
                event |-> event, signer |-> keypair]
Pending == Last(log_file).entry

(* The event an append is called with: with_sink appends Genesis first.    *)
Appendable == IF next_seq = 0 THEN {Genesis} ELSE Event

(* commit_line writes the whole line ...                                   *)
Write(event) ==
  /\ phase = "up" /\ writing = "idle"
  /\ Sealed < MaxAppend[boot]
  /\ log_file' = Append(log_file, [entry |-> seal(event), form |-> "whole"])
  /\ writing' = "written"
  /\ UNCHANGED <<key_file, key_synced, exists, synced, archive, earlier, keypair, phase, head,
                 boot, faults, history>>

(* An append that fails returns before the head is advanced; the daemon    *)
(* goes on with the next request, except that a failed Genesis ends it.    *)
Failed ==
  /\ faults < MaxFault
  /\ faults' = faults + 1
  /\ unsure' = unsure \union {boot}
  /\ writing' = "idle"
  /\ phase' = IF next_seq = 0 THEN "down" ELSE phase
  /\ boot' = IF next_seq = 0 THEN boot + 1 ELSE boot
  /\ next_seq = 0 => boot < MaxBoot
  /\ UNCHANGED <<key_file, key_synced, exists, synced, archive, earlier, keypair, head, acked,
                 pinned, power_lost, lost, damaged>>

(* ... or write_all fails with none or some of the bytes in the file ...   *)
WriteFails(event) ==
  /\ phase = "up" /\ writing = "idle"
  /\ Sealed < MaxAppend[boot]
  /\ \/ log_file' = log_file
     \/ \E form \in {"part", "bare"} :
          log_file' = Append(log_file, [entry |-> seal(event), form |-> form])
  /\ Failed

(* ... then sync_all fails or the entry is durable and the head moves on.  *)
SyncFails ==
  /\ writing = "written"
  /\ log_file' = log_file
  /\ Failed

AckWithoutSync ==
  /\ writing = "written"
  /\ next_seq' = next_seq + 1
  /\ prev_hash' = Pending
  /\ acked' = [acked EXCEPT ![boot] = Append(@, Pending)]
  /\ writing' = "idle"
  /\ UNCHANGED <<disk, keypair, phase, boot, faults, unsure, pinned, power_lost, lost,
                 damaged>>
Sync ==
  /\ writing = "written"
  /\ synced' = Len(log_file)
  /\ next_seq' = next_seq + 1
  /\ prev_hash' = Pending
  /\ acked' = [acked EXCEPT ![boot] = Append(@, Pending)]
  /\ writing' = "idle"
  /\ UNCHANGED <<key_file, key_synced, exists, log_file, archive, earlier, keypair, phase, boot,
                 faults, unsure, pinned, power_lost, lost, damaged>>

-----------------------------------------------------------------------------
(* Faults from outside.                                                    *)

(* The process dies at any step; what it wrote stays.                      *)
Crash ==
  /\ phase # "down" /\ boot < MaxBoot
  /\ phase' = "down"
  /\ writing' = "idle"
  /\ boot' = boot + 1
  /\ unsure' = IF writing = "written" THEN unsure \union {boot} ELSE unsure
  /\ UNCHANGED <<disk, keypair, head, faults, acked, pinned, power_lost, lost, damaged>>

(* What a power failure may leave of a file: at least what was synced, a   *)
(* prefix of the rest, and the last surviving item perhaps torn.           *)
Survivors(f, s) ==
  LET cut == {SubSeq(f, 1, n) : n \in s .. Len(f)}
  IN  cut \union {[g EXCEPT ![Len(g)].form = "part"] : g \in {g \in cut : Len(g) > s}}

(* The directory may be any since the last power failure; a log that is    *)
(* not in it is lost, and one that had been replaced may be back.  (What a *)
(* rotated log holds is taken to be on disk.)                              *)
PowerLoss ==
  /\ boot < MaxBoot
  /\ \E dir \in earlier \union {Here} :
       /\ exists' = dir.exists
       /\ archive' = dir.archive
       /\ log_file' \in (IF dir = Here THEN Survivors(log_file, synced) ELSE {dir.log_file})
       /\ lost' = (lost \union RunsOf(NamedIn(Here))) \ RunsOf(NamedIn(dir))
  /\ synced' = Len(log_file')
  /\ earlier' = {}
  /\ key_file' \in (IF key_synced THEN {key_file} ELSE {key_file, NoFile, Torn})
  /\ key_synced' = TRUE
  /\ phase' = "down"
  /\ writing' = "idle"
  /\ boot' = boot + 1
  /\ unsure' = unsure \union {boot}
  /\ power_lost' = TRUE
  /\ UNCHANGED <<keypair, head, faults, acked, pinned, damaged>>

(* Lines are lost, repeated, swapped or taken from a rotated log while no  *)
(* daemon runs: what the verifier is there to notice.                      *)
Damage ==
  /\ phase = "down" /\ ~damaged /\ exists
  /\ damaged' = TRUE
  /\ \E i \in DOMAIN log_file :
       \/ log_file' = RemoveAt(log_file, i)
       \/ log_file' = InsertAt(log_file, i, log_file[i])
       \/ \E j \in DOMAIN log_file :
            log_file' = [log_file EXCEPT ![i] = log_file[j], ![j] = log_file[i]]
       \/ \E old \in Range(archive) : \E k \in DOMAIN old :
            log_file' = [log_file EXCEPT ![i] = old[k]]
  /\ synced' = IF Len(log_file') < synced THEN Len(log_file') ELSE synced
  /\ UNCHANGED <<key_file, key_synced, exists, archive, earlier, keypair, phase, head, writing,
                 boot, faults, acked, unsure, pinned, power_lost, lost>>

Next ==
  \/ LoadKey \/ CreateKeyFile \/ WriteKey \/ rotate_existing_log \/ open
  \/ \E event \in Appendable : Write(event) \/ WriteFails(event)
  \/ SyncFails \/ Sync
  \/ Crash \/ PowerLoss \/ Damage

Spec == Init /\ [][Next]_vars

-----------------------------------------------------------------------------
(* The verifier.                                                           *)

(* A line parses iff it holds one item, entire.                            *)
parses(f, i) ==
  /\ i > 1 => f[i - 1].form = "whole"
  /\ f[i].form = "whole" \/ (f[i].form = "bare" /\ i = Len(f))

verify_entry_unlinked(entry, expected_seq, expected_prev, key) ==
  /\ entry.seq = expected_seq
  /\ expected_seq = 0 => entry.event = Genesis
  /\ entry.signer = key
verify_entry(entry, expected_seq, expected_prev, key) ==
  /\ entry.seq = expected_seq
  /\ entry.prev_hash = expected_prev
  /\ expected_seq = 0 => entry.event = Genesis
  /\ entry.signer = key

(* verify_chain returns Ok; an empty log is an error.                      *)
verify_chain(f, key) ==
  /\ f # <<>>
  /\ \A i \in DOMAIN f :
       /\ parses(f, i)
       /\ verify_entry(f[i].entry, i - 1,
                       IF i = 1 THEN GENESIS_PREV_HASH ELSE f[i - 1].entry, key)

(* What `archangelctl audit-tail` shows: the verdict, and then every line  *)
(* that parses, verified or not.                                           *)
verify_and_render(f, pinned_pub) ==
  [verified |-> verify_chain(f, pinned_pub),
   shown    |-> [n \in 1 .. Cardinality({i \in DOMAIN f : parses(f, i)}) |->
                  f[CHOOSE i \in DOMAIN f :
                      parses(f, i) /\ n = Cardinality({j \in 1 .. i : parses(f, j)})].entry]]

Entries(f) == [i \in DOMAIN f |-> f[i].entry]
Logs == Range(archive) \union (IF exists THEN {log_file} ELSE {})
LogsOf(b) == {f \in Logs : f # <<>> /\ f[1].entry.time = b}

-----------------------------------------------------------------------------
Keys == 1 .. MaxBoot
OldFiles == Range(archive) \union UNION {NamedIn(dir) : dir \in earlier}
Files == OldFiles \union {log_file}
IsSequence(f) == f \in Seq(Range(f))
IsItem(x) == x = [entry |-> x.entry, form |-> x.form] /\ x.form \in {"whole", "bare", "part"}
IsDirectory(dir) ==
  IsSequence(dir.archive) /\ dir.exists \in BOOLEAN /\ (~dir.exists => dir.log_file = <<>>)
TypeOK ==
  /\ key_file \in Keys \union {NoFile, Torn} /\ key_synced \in BOOLEAN
  /\ keypair \in Keys \union {Torn} /\ pinned \in Keys \union {Torn}
  /\ phase \in {"down", "keying", "keyed", "rotated", "up"}
  /\ phase \in {"keying", "keyed", "rotated", "up"} => keypair \in Keys
  /\ exists \in BOOLEAN /\ (~exists => log_file = <<>>)
  /\ IsSequence(archive)
  /\ \A dir \in earlier : IsDirectory(dir)
  /\ \A f \in Files : IsSequence(f) /\ \A i \in DOMAIN f : IsItem(f[i])
  /\ synced \in 0 .. Len(log_file)
  /\ next_seq \in Nat
  /\ writing \in {"idle", "written"}
  /\ boot \in Keys /\ faults \in 0 .. MaxFault
  /\ acked = [b \in Keys |-> acked[b]] /\ \A b \in Keys : IsSequence(acked[b])
  /\ unsure \subseteq 1 .. boot /\ lost \subseteq Keys
  /\ power_lost \in BOOLEAN /\ damaged \in BOOLEAN

(* An entry whose append returned Ok is in its run's log, complete, for    *)
(* good: crashes, power failures, failed appends after it and the rotation *)
(* at the next start take none from a log.  Only a whole log goes, and     *)
(* only when a clock that shows the same millisecond twice replaces it, or *)
(* a power failure takes its name from the directory.                      *)
AckedAreKept ==
  ~damaged => \A b \in Keys :
    /\ \A f \in LogsOf(b) : \A n \in DOMAIN acked[b] :
         \E i \in DOMAIN f : f[i] = [entry |-> acked[b][n], form |-> "whole"]
    /\ acked[b] # <<>> /\ b \notin lost => LogsOf(b) # {}

(* A crash never leaves a shorter chain that verifies: a log that is       *)
(* accepted holds all that was acknowledged, in order, and at most one     *)
(* entry more, whose append was cut short; all of it is shown.             *)
NoShorterChain ==
  ~damaged => \A b, k \in Keys : \A f \in LogsOf(b) : \E view \in {verify_and_render(f, k)} :
                view.verified => /\ IsPrefix(acked[b], view.shown)
                                 /\ Len(view.shown) <= Len(acked[b]) + 1

(* Even of a damaged log only a genuine chain is accepted: nothing is out  *)
(* of order, repeated, missing inside or taken from another run.  Only its *)
(* last entry may be one whose append did not return Ok.                   *)
AcceptedIsGenuine ==
  \A b, k \in Keys : \A f \in LogsOf(b) : verify_chain(f, k) =>
    /\ \A i \in DOMAIN f : f[i].entry.time = b
    /\ IsPrefix(Front(Entries(f)), acked[b])

(* The verifier raises no false alarm: the log of a run in which no append *)
(* failed verifies at every moment, also while a line is being written,    *)
(* and under the key first pinned unless the power took the key file.      *)
HealthyLogVerifies ==
  ~damaged => \A b \in Keys \ unsure : \A f \in LogsOf(b) :
                verify_chain(f, IF power_lost THEN f[1].entry.signer ELSE pinned)

(* What the verifier accepts is the truth about the run, through crashes,  *)
(* power failures and damage alike (verify.rs, audit_view.rs).             *)
VerifiedIsTrue == NoShorterChain /\ AcceptedIsGenuine

-----------------------------------------------------------------------------
(* What makes these properties inductive.  A sealed entry carries its own  *)
(* run's history: how many entries were acknowledged before it, and the    *)
(* last of them.  Damage moves sealed entries about but makes none.        *)
WellSealed(e) ==
  /\ e.time \in Keys /\ e.signer \in Keys /\ e.seq \in 0 .. Len(acked[e.time])
  /\ e.prev_hash = IF e.seq = 0 THEN GENESIS_PREV_HASH ELSE acked[e.time][e.seq]
EntriesSound ==
  /\ \A f \in Files : \A i \in DOMAIN f : WellSealed(f[i].entry)
  /\ \A b \in Keys : \A n \in DOMAIN acked[b] :
       acked[b][n].time = b /\ acked[b][n].seq = n - 1
HeadSound ==
  /\ \A b \in Keys : b > boot \/ (b = boot /\ phase # "up") => acked[b] = <<>>
  /\ phase = "up" =>
       /\ next_seq = Len(acked[boot])
       /\ prev_hash = IF next_seq = 0 THEN GENESIS_PREV_HASH ELSE acked[boot][next_seq]
  /\ writing = "written" =>
       /\ phase = "up" /\ log_file # <<>>
       /\ Last(log_file).form = "whole" /\ Last(log_file).entry.seq = next_seq

(* Where the logs are: a run writes one file, older files are archived.    *)
FilesPlaced ==
  /\ \A f \in OldFiles : \A i \in DOMAIN f : f[i].entry.time < boot
  /\ phase \notin {"rotated", "up"} => \A i \in DOMAIN log_file : log_file[i].entry.time < boot
  /\ phase = "rotated" => log_file = <<>>
  /\ phase = "up" =>
       /\ exists
       /\ \A i \in DOMAIN log_file :
            log_file[i].entry.time = boot /\ log_file[i].entry.signer = keypair
  /\ \A b \in lost : b < boot
OtherRuns(files, g) == g # <<>> => \A f \in files : f # <<>> => RunOf(f) # RunOf(g)
OneLogPerRun ==
  ~damaged =>
    /\ \A f, g \in OldFiles : f # <<>> /\ g # <<>> /\ RunOf(f) = RunOf(g) => f = g
    /\ OtherRuns(OldFiles, log_file)
    /\ \A dir \in earlier : OtherRuns(Range(dir.archive), dir.log_file)

(* What was acknowledged is in every older log of its run, it is in the    *)
(* part of the log that an fsync has covered, and no log is missing that   *)
(* was not lost.                                                           *)
HoldsAll(f, n, b) ==
  \A k \in DOMAIN acked[b] : \E i \in 1 .. n : f[i] = [entry |-> acked[b][k], form |-> "whole"]
AckedAreSynced ==
  ~damaged =>
    /\ \A f \in OldFiles : f # <<>> => HoldsAll(f, Len(f), RunOf(f))
    /\ log_file # <<>> => HoldsAll(log_file, synced, RunOf(log_file))
    /\ \A b \in Keys \ lost : acked[b] # <<>> =>
         \E f \in Range(archive) \union {log_file} : f # <<>> /\ RunOf(f) = b

(* A log no append of which failed is a chain, and all of it is synced but *)
(* the line being written.                                                 *)
Chained(f) ==
  \A i \in DOMAIN f :
    /\ f[i].form = "whole"
    /\ verify_entry(f[i].entry, i - 1, IF i = 1 THEN GENESIS_PREV_HASH ELSE f[i - 1].entry,
                    f[1].entry.signer)
Unharmed(f) == f # <<>> /\ RunOf(f) \notin unsure
HealthyChained ==
  /\ ~damaged => \A f \in Files : Unharmed(f) =>
                   Chained(f) /\ (~power_lost => f[1].entry.signer = pinned)
  /\ ~damaged /\ Unharmed(log_file) /\ writing = "idle" => synced = Len(log_file)
  /\ phase = "up" /\ boot \notin unsure =>
       /\ Len(log_file) = IF writing = "written" THEN next_seq + 1 ELSE next_seq
       /\ next_seq > 0 => prev_hash = log_file[next_seq].entry
KeyPinned ==
  ~power_lost =>
    /\ pinned # Torn => key_file = pinned
    /\ phase = "keying" => pinned = Torn
    /\ phase \in {"keyed", "rotated", "up"} => keypair = key_file
    /\ phase = "up" => pinned = keypair

IInv ==
  /\ TypeOK /\ EntriesSound /\ HeadSound /\ FilesPlaced /\ OneLogPerRun
  /\ AckedAreSynced /\ HealthyChained /\ KeyPinned

=============================================================================
