------------------------------- MODULE Provisioning -------------------------------
(***************************************************************************)
(* The files under /etc/archangel: `archangelctl setup` creates and        *)
(* completes them (setup.rs, keys.rs), operators edit them, the daemon     *)
(* starts from them (archangeld main.rs) and publishes its session key.    *)
(* Every read and every write is a step; a file that is created or         *)
(* truncated is empty until its content is written, and an interrupted     *)
(* write (a kill, a full disk) leaves any prefix.  Only llm.env is left    *)
(* out, which do_setup truncates and writes anew whenever it runs.         *)
(***************************************************************************)
EXTENDS Integers, Sequences, SequencesExt

CONSTANTS
  Bundle,          \* file stems in the exec directory
  Version,         \* manifest texts, positive numbers
  Shipped,         \* what may be there before anybody edits, Absent for nothing
  name_of,         \* [Version -> meta.name]
  ReadOnly,        \* versions with meta.read_only
  PayloadMatches,  \* versions whose payload has the declared SHA-256
  OtherKey,        \* keys of further operators, above MaxKey
  MaxKey, MaxInterrupt,
  MaxEdit, MaxRun, \* edits and daemon runs, fewer by the interruptions before them
  MaxLines         \* an empty operator.pub grows the trust file at every setup

ASSUME ProvisioningAssumption ==
  /\ Version \subseteq Nat \ {0} /\ ReadOnly \subseteq Version /\ PayloadMatches \subseteq Version
  /\ Shipped \subseteq Version \union {0}
  /\ MaxKey \in Nat /\ OtherKey \subseteq Nat /\ \A k \in OtherKey : k > MaxKey

Absent == 0
Empty == -1
Torn == -2      \* a prefix that does not decode or load
Prefix == -3    \* a part or a mixture of configurations that does load
Key == (1 .. MaxKey) \union OtherKey
NoSig == <<Absent, Absent>>
NoBundle == "none"
Generated == 1  \* configurations: setup's, the operator's, and one that does not load
Own == 2
Invalid == 3

VARIABLES
  sk, pk,              \* operator.key and operator.pub: a key or a marker
  trust,               \* operators.pubkeys: [there, lines, text], text if it is UTF-8
  manifest, sig,       \* [Bundle -> text], [Bundle -> <<key, text>>]
  allow,               \* allowlist.toml: [there, ok, names, own]
  config,              \* archangel.toml
  pc, todo, cur, held, found,   \* of setup and of the daemon, see below
  new_key, my_pub, content,     \* locals of setup::run
  misread,             \* it could not read a trust file that is there
  d_config, d_trust, d_pin, run,          \* what the daemon loaded, and its number
  session_tmp, session_pub,
  keys, endorsed,      \* history: keys generated, <<key, text>> ever signed
  must_trust, calm, settled,    \* history: see the properties
  interrupts, edits

Actor == {"setup", "daemon"}
files == <<sk, pk, trust, manifest, sig, allow, config>>
loader == <<todo, cur, held, found>>
locals == <<new_key, my_pub, content, misread>>
daemon == <<d_config, d_trust, d_pin, run, session_tmp, session_pub>>
history == <<keys, endorsed, must_trust, calm, settled>>
bounds == <<interrupts, edits>>
vars == <<files, pc, loader, locals, daemon, history, bounds>>

NoTrust == [there |-> FALSE, lines |-> <<>>, text |-> TRUE]
NoAllow == [there |-> FALSE, ok |-> TRUE, names |-> {}, own |-> FALSE]
SpoiltAllow == [there |-> TRUE, ok |-> FALSE, names |-> {}, own |-> TRUE]

Init ==
  /\ sk = Absent /\ pk = Absent /\ trust = NoTrust /\ allow = NoAllow /\ config = Absent
  /\ manifest \in [Bundle -> Shipped] /\ sig = [b \in Bundle |-> NoSig]
  /\ pc = [setup |-> "idle", daemon |-> "down"]
  /\ todo = [a \in Actor |-> {}] /\ cur = [a \in Actor |-> NoBundle]
  /\ held = [a \in Actor |-> Absent] /\ found = [a \in Actor |-> {}]
  /\ new_key = Absent /\ my_pub = Absent /\ content = <<>> /\ misread = FALSE
  /\ d_config = Absent /\ d_trust = {} /\ d_pin = Absent /\ run = 0 /\ session_tmp = Absent /\ session_pub = Absent
  /\ keys = 0 /\ endorsed = {} /\ must_trust = {} /\ calm = TRUE /\ settled = FALSE
  /\ interrupts = 0 /\ edits = 0

Goto(actor, to) == pc' = [pc EXCEPT ![actor] = to]
At(actor, where) == pc[actor] = where

-----------------------------------------------------------------------------
(* exec-format: trust.rs from_str, verify.rs verify_bytes. *)
from_str(lines) == \A i \in DOMAIN lines : lines[i] \in Key
verify_bytes_parsed(text, signature, by) == text \in Version /\ signature[1] \in by
verify_bytes(text, signature, by) ==
  /\ text \in Version /\ signature[1] \in by /\ signature[2] = text
  /\ text \in PayloadMatches

Present == {b \in Bundle : manifest[b] # Absent}
(* VerifiedBundle::load for every bundle listed, manifest first. *)
List(actor, to) ==
  /\ todo' = [todo EXCEPT ![actor] = Present] /\ found' = [found EXCEPT ![actor] = {}]
  /\ Goto(actor, to) /\ UNCHANGED <<cur, held>>
ReadManifest(actor) ==
  /\ At(actor, "load")
  /\ \E b \in todo[actor] :
       /\ cur' = [cur EXCEPT ![actor] = b] /\ held' = [held EXCEPT ![actor] = manifest[b]]
       /\ todo' = [todo EXCEPT ![actor] = @ \ {b}]
  /\ Goto(actor, "verify")
  /\ UNCHANGED <<files, found, locals, daemon, history, bounds>>
(* verified_read_only keeps read-only bundles; discover_tools does so in    *)
(* read-only mode, which setup's configuration selects.                     *)
verified_read_only(actor, text) == text \in ReadOnly \/ (actor = "daemon" /\ d_config = Own)
TrustOf(actor) == IF actor = "setup" THEN {k \in Key : k \in Range(content)} ELSE d_trust
ReadSig(actor) ==
  /\ At(actor, "verify")
  /\ found' = IF /\ verify_bytes(held[actor], sig[cur[actor]], TrustOf(actor))
                 /\ verified_read_only(actor, held[actor])
              THEN [found EXCEPT ![actor] = @ \union {held[actor]}] ELSE found
  /\ Goto(actor, "load")
  /\ cur' = [cur EXCEPT ![actor] = NoBundle] /\ held' = [held EXCEPT ![actor] = Absent]
  /\ UNCHANGED <<files, todo, locals, daemon, history, bounds>>

-----------------------------------------------------------------------------
(* setup::run, step by step. *)
Fail == Goto("setup", "idle")
Start ==
  /\ At("setup", "idle") /\ Len(trust.lines) < MaxLines /\ Goto("setup", "key")
  /\ calm' = TRUE /\ must_trust' = Range(trust.lines) \intersect Key
  /\ new_key' = Absent /\ my_pub' = Absent /\ content' = <<>> /\ misread' = FALSE
  /\ UNCHANGED <<files, loader, daemon, keys, endorsed, settled, bounds>>

(* 1. init_operator_key refuses if either file exists; a fresh key. *)
KeepKey ==
  /\ At("setup", "key") /\ sk # Absent /\ Goto("setup", "pub")
  /\ UNCHANGED <<files, loader, locals, daemon, history, bounds>>
init_operator_key ==
  /\ At("setup", "key") /\ sk = Absent
  /\ IF pk # Absent THEN Fail /\ UNCHANGED <<sk, new_key, keys>>
     ELSE /\ keys < MaxKey /\ keys' = keys + 1 /\ new_key' = keys + 1
          /\ sk' = Empty /\ Goto("setup", "key_w")
  /\ UNCHANGED <<pk, trust, manifest, sig, allow, config, loader, my_pub, content, misread, daemon,
                 endorsed, must_trust, calm, settled, bounds>>
WriteSecret ==
  /\ At("setup", "key_w") /\ sk' = new_key /\ Goto("setup", "pub_c")
  /\ UNCHANGED <<pk, trust, manifest, sig, allow, config, loader, locals, daemon, history, bounds>>
CreatePublic ==
  /\ At("setup", "pub_c")
  /\ IF pk # Absent THEN Fail /\ UNCHANGED pk ELSE pk' = Empty /\ Goto("setup", "pub_w")
  /\ UNCHANGED <<sk, trust, manifest, sig, allow, config, loader, locals, daemon, history, bounds>>
WritePublic ==
  /\ At("setup", "pub_w") /\ pk' = new_key /\ Goto("setup", "pub")
  /\ UNCHANGED <<sk, trust, manifest, sig, allow, config, loader, locals, daemon, history, bounds>>
ReadPublic ==
  /\ At("setup", "pub")
  /\ IF pk = Absent THEN Fail /\ UNCHANGED my_pub ELSE my_pub' = pk /\ Goto("setup", "trust")
  /\ UNCHANGED <<files, loader, new_key, content, misread, daemon, history, bounds>>

(* 2. operators_pubkeys_update: the lines to write, or none.  What does    *)
(* not decode is appended like a key; an empty file is never found again.  *)
operators_pubkeys_replace(lines, key) == <<key>>
operators_pubkeys_update(lines, key) ==
  IF key # Empty /\ key \in Range(lines) THEN <<>> ELSE Append(lines, key)
Update(lines) ==
  /\ content' = operators_pubkeys_update(lines, my_pub)
  /\ Goto("setup", IF content' = <<>> THEN "list" ELSE "trust_o")
ReadTrust ==
  /\ At("setup", "trust") /\ trust.text /\ Update(trust.lines)
  /\ UNCHANGED <<files, loader, new_key, my_pub, misread, daemon, history, bounds>>
(* A file that cannot be read, for what stands in it or for an I/O error,  *)
(* is taken for none at all (read_to_string(..).ok()).                     *)
MisreadTrust ==
  /\ At("setup", "trust") /\ trust.there /\ Update(<<>>) /\ misread' = TRUE
  /\ \/ ~trust.text /\ UNCHANGED <<settled, interrupts>>
     \/ /\ trust.text /\ interrupts < MaxInterrupt
        /\ interrupts' = interrupts + 1 /\ settled' = FALSE
  /\ UNCHANGED <<files, loader, new_key, my_pub, daemon, keys, endorsed, must_trust, calm, edits>>
(* fs::write truncates what is there, write_new creates: empty either way. *)
OpenTrust ==
  /\ At("setup", "trust_o") /\ trust' = [NoTrust EXCEPT !.there = TRUE] /\ Goto("setup", "trust_w")
  /\ UNCHANGED <<sk, pk, manifest, sig, allow, config, loader, locals, daemon, history, bounds>>
WriteTrust ==
  /\ At("setup", "trust_w") /\ trust' = [there |-> TRUE, lines |-> content, text |-> TRUE]
  /\ Goto("setup", "list")
  /\ UNCHANGED <<sk, pk, manifest, sig, allow, config, loader, locals, daemon, history, bounds>>

(* 3. sign_bundle for every bundle without a signature file. *)
ListBundles ==
  /\ At("setup", "list") /\ List("setup", "sign")
  /\ UNCHANGED <<files, locals, daemon, history, bounds>>
SkipSigned ==
  /\ At("setup", "sign")
  /\ \E b \in todo["setup"] : sig[b] # NoSig /\ todo' = [todo EXCEPT !["setup"] = @ \ {b}]
  /\ UNCHANGED <<files, pc, cur, held, found, locals, daemon, history, bounds>>
sign_bundle ==
  /\ At("setup", "sign")
  /\ \E b \in todo["setup"] :
       /\ sig[b] = NoSig
       /\ IF sk \notin Key THEN Fail /\ UNCHANGED <<sig, cur, held, todo>>
          ELSE /\ cur' = [cur EXCEPT !["setup"] = b] /\ held' = [held EXCEPT !["setup"] = manifest[b]]
               /\ todo' = [todo EXCEPT !["setup"] = @ \ {b}]
               /\ sig' = [sig EXCEPT ![b] = <<Empty, Empty>>] /\ Goto("setup", "sign_w")
  /\ UNCHANGED <<sk, pk, trust, manifest, allow, config, found, locals, daemon, history, bounds>>
(* The key was loaded and the text read before the file was opened. *)
WriteSig ==
  /\ At("setup", "sign_w")
  /\ sig' = [sig EXCEPT ![cur["setup"]] = <<sk, held["setup"]>>]
  /\ endorsed' = endorsed \union {<<sk, held["setup"]>>}
  /\ cur' = [cur EXCEPT !["setup"] = NoBundle] /\ held' = [held EXCEPT !["setup"] = Absent]
  /\ Goto("setup", "sign")
  /\ UNCHANGED <<sk, pk, trust, manifest, allow, config, todo, found, locals, daemon,
                 keys, must_trust, calm, settled, bounds>>

(* 4. The allowlist, from the bundles that verify now. *)
KeepAllow ==
  /\ At("setup", "sign") /\ todo["setup"] = {} /\ allow.there /\ Goto("setup", "config")
  /\ UNCHANGED <<files, loader, locals, daemon, history, bounds>>
loads_trust == trust.there /\ trust.text /\ from_str(trust.lines)
LoadTrust ==
  /\ At("setup", "sign") /\ todo["setup"] = {} /\ ~allow.there
  /\ IF ~loads_trust THEN Fail /\ UNCHANGED <<content, loader>>
     ELSE content' = trust.lines /\ List("setup", "load")
  /\ UNCHANGED <<files, new_key, my_pub, misread, daemon, history, bounds>>
(* write_new creates with O_EXCL: it fails on a file that is there by now. *)
CreateAllowTruncating ==
  /\ At("setup", "load") /\ todo["setup"] = {}
  /\ allow' = [NoAllow EXCEPT !.there = TRUE] /\ Goto("setup", "allow_w")
  /\ UNCHANGED <<sk, pk, trust, manifest, sig, config, loader, locals, daemon, history, bounds>>
CreateAllow ==
  /\ At("setup", "load") /\ todo["setup"] = {}
  /\ IF allow.there THEN Fail /\ UNCHANGED allow
     ELSE allow' = [NoAllow EXCEPT !.there = TRUE] /\ Goto("setup", "allow_w")
  /\ UNCHANGED <<sk, pk, trust, manifest, sig, config, loader, locals, daemon, history, bounds>>
(* An operator may have written the file since setup created it.  Where it *)
(* was replaced, setup writes into the one that is gone; where it was      *)
(* edited in place, setup's text covers it, and the end of a longer one    *)
(* shows behind: more profiles, or nothing that parses.                    *)
WriteAllow ==
  /\ At("setup", "allow_w")
  /\ LET names == {name_of[v] : v \in found["setup"]}
         covered == [NoAllow EXCEPT !.there = TRUE, !.names = names]
         behind == {[covered EXCEPT !.own = TRUE, !.names = names \union rest] :
                      rest \in SUBSET allow.names}
     IN  allow' \in IF allow.own
                    THEN {allow, covered, SpoiltAllow} \union behind
                    ELSE {covered}
  /\ Goto("setup", "config")
  /\ UNCHANGED <<sk, pk, trust, manifest, sig, config, loader, locals, daemon, history, bounds>>

(* 5., 6. The configuration: kept, or rendered, validated and created; and *)
(* loaded either way.                                                      *)
loads_config(c) == c \in {Prefix, Generated, Own}
CheckConfig ==
  /\ At("setup", "config")
  /\ Goto("setup", IF config # Absent THEN "validate" ELSE "config_c")
  /\ UNCHANGED <<files, loader, locals, daemon, history, bounds>>
CreateConfig ==
  /\ At("setup", "config_c")
  /\ IF config # Absent THEN Fail /\ UNCHANGED config ELSE config' = Empty /\ Goto("setup", "config_w")
  /\ UNCHANGED <<sk, pk, trust, manifest, sig, allow, loader, locals, daemon, history, bounds>>
WriteConfig ==
  /\ At("setup", "config_w") /\ Goto("setup", "validate")
  /\ config' \in IF config = Empty THEN {Generated} ELSE {config, Generated, Torn, Prefix}
  /\ UNCHANGED <<sk, pk, trust, manifest, sig, allow, loader, locals, daemon, history, bounds>>
Validate ==
  /\ At("setup", "validate")
  /\ IF loads_config(config) THEN Goto("setup", "done") ELSE Fail
  /\ UNCHANGED <<files, loader, locals, daemon, history, bounds>>
Finish ==
  /\ At("setup", "done") /\ Goto("setup", "idle")
  /\ settled' = (settled \/ (calm /\ interrupts = 0))
  /\ UNCHANGED <<files, loader, locals, daemon, keys, endorsed, must_trust, calm, bounds>>

(* A kill or a write error: the file being written holds a prefix, which   *)
(* ends after some line or inside one, perhaps inside a character.         *)
CutShort(lines) ==
  LET whole == {SubSeq(lines, 1, n) : n \in 0 .. Len(lines) - 1}
  IN  [there : {TRUE}, lines : whole \union {Append(l, Torn) : l \in whole}, text : {TRUE}]
        \union [there : {TRUE}, lines : whole \ {<<>>}, text : {FALSE}]
Interrupt ==
  /\ ~At("setup", "idle") /\ interrupts < MaxInterrupt /\ interrupts' = interrupts + 1
  /\ Fail /\ settled' = FALSE
  /\ sk' \in IF At("setup", "key_w") THEN {Empty, Torn} ELSE {sk}
  /\ pk' \in IF At("setup", "pub_w") THEN {Empty, Torn} ELSE {pk}
  /\ trust' \in IF At("setup", "trust_w")
                THEN CutShort(content) ELSE {trust}
  /\ sig' \in IF At("setup", "sign_w")
              THEN {sig, [sig EXCEPT ![cur["setup"]] = <<Torn, Torn>>]} ELSE {sig}
  /\ allow' \in IF At("setup", "allow_w") THEN {allow, [allow EXCEPT !.ok = FALSE]} ELSE {allow}
  /\ config' \in IF At("setup", "config_w") THEN {config, Torn, Prefix} ELSE {config}
  /\ cur' = [cur EXCEPT !["setup"] = NoBundle] /\ held' = [held EXCEPT !["setup"] = Absent]
  /\ UNCHANGED <<manifest, todo, found, locals, daemon, keys, endorsed, must_trust, calm, edits>>

-----------------------------------------------------------------------------
(* archangeld main: everything is loaded, in this order, or it exits. *)
Loaded(c, t, k) == d_config' = c /\ d_trust' = t /\ d_pin' = k
Exit == Goto("daemon", "down") /\ Loaded(Absent, {}, Absent)
LoadConfig ==
  /\ At("daemon", "down") /\ run + interrupts < MaxRun /\ loads_config(config)
  /\ run' = run + 1 /\ Goto("daemon", "trust") /\ Loaded(config, {}, Absent)
  /\ UNCHANGED <<files, loader, locals, session_tmp, session_pub, history, bounds>>
LoadOperatorTrust ==
  /\ At("daemon", "trust")
  /\ IF loads_trust
     THEN Loaded(d_config, Range(trust.lines), Absent) /\ Goto("daemon", "allow") ELSE Exit
  /\ UNCHANGED <<files, loader, locals, run, session_tmp, session_pub, history, bounds>>
LoadAllowlist ==
  /\ At("daemon", "allow")
  /\ IF allow.there /\ allow.ok THEN Loaded(d_config, d_trust, Absent) /\ Goto("daemon", "pin") ELSE Exit
  /\ UNCHANGED <<files, loader, locals, run, session_tmp, session_pub, history, bounds>>
LoadOperatorPub ==
  /\ At("daemon", "pin")
  /\ IF pk \in Key THEN Loaded(d_config, d_trust, pk) /\ Goto("daemon", "tools") ELSE Exit
  /\ UNCHANGED <<files, loader, locals, run, session_tmp, session_pub, history, bounds>>
discover_tools ==
  /\ At("daemon", "tools") /\ List("daemon", "load")
  /\ UNCHANGED <<files, locals, daemon, history, bounds>>
(* publish_session_pub: a temporary file, synced, renamed into place. *)
CreateTemp ==
  /\ At("daemon", "load") /\ todo["daemon"] = {} /\ Goto("daemon", "publish")
  /\ session_tmp' = Empty
  /\ UNCHANGED <<files, loader, locals, d_config, d_trust, d_pin, run, session_pub, history, bounds>>
WriteTemp ==
  /\ At("daemon", "publish") /\ session_tmp' = run /\ Goto("daemon", "rename")
  /\ UNCHANGED <<files, loader, locals, d_config, d_trust, d_pin, run, session_pub, history, bounds>>
publish_session_pub ==
  /\ At("daemon", "rename") /\ session_pub' = session_tmp /\ session_tmp' = Absent
  /\ Goto("daemon", "up")
  /\ UNCHANGED <<files, loader, locals, d_config, d_trust, d_pin, run, history, bounds>>
Stop ==
  /\ ~At("daemon", "down") /\ Exit
  /\ todo' = [todo EXCEPT !["daemon"] = {}] /\ found' = [found EXCEPT !["daemon"] = {}]
  /\ cur' = [cur EXCEPT !["daemon"] = NoBundle] /\ held' = [held EXCEPT !["daemon"] = Absent]
  /\ UNCHANGED <<files, locals, run, session_tmp, session_pub, history, bounds>>

-----------------------------------------------------------------------------
(* Operators, with an editor and `archangelctl sign`. *)
Edit == edits + interrupts < MaxEdit /\ edits' = edits + 1 /\ calm' = FALSE /\ settled' = FALSE
OperatorEditsManifest ==
  /\ Edit /\ \E b \in Bundle, v \in Version : manifest' = [manifest EXCEPT ![b] = v]
  /\ UNCHANGED <<sk, pk, trust, sig, allow, config, pc, loader, locals, daemon, keys,
                 endorsed, must_trust, interrupts>>
OperatorSigns ==
  /\ Edit
  /\ \E b \in Present, k \in Key :
       /\ k = sk \/ k \in OtherKey
       /\ sig' = [sig EXCEPT ![b] = <<k, manifest[b]>>]
       /\ endorsed' = endorsed \union {<<k, manifest[b]>>}
  /\ UNCHANGED <<sk, pk, trust, manifest, allow, config, pc, loader, locals, daemon, keys,
                 must_trust, interrupts>>
(* Any bytes may stand behind the key, as its label. *)
OperatorAddsKey ==
  /\ Edit
  /\ \E k \in OtherKey, utf8 \in BOOLEAN :
       trust' = [there |-> TRUE, lines |-> Append(trust.lines, k), text |-> trust.text /\ utf8]
  /\ UNCHANGED <<sk, pk, manifest, sig, allow, config, pc, loader, locals, daemon, keys,
                 endorsed, must_trust, interrupts>>
(* At any moment, also into a file that setup has just created. *)
OperatorWritesPolicy ==
  /\ Edit
  /\ \/ config' \in {Own, Invalid} /\ UNCHANGED allow
     \/ /\ \/ allow' \in [there : {TRUE}, ok : {TRUE}, names : SUBSET Bundle, own : {TRUE}]
           \/ allow' = SpoiltAllow
        /\ UNCHANGED config
  /\ UNCHANGED <<sk, pk, trust, manifest, sig, pc, loader, locals, daemon, keys, endorsed,
                 must_trust, interrupts>>
OperatorRemovesKeys ==
  /\ Edit /\ At("setup", "idle") /\ keys < MaxKey /\ sk' = Absent /\ pk' = Absent
  /\ UNCHANGED <<trust, manifest, sig, allow, config, pc, loader, locals, daemon, keys,
                 endorsed, must_trust, interrupts>>

SetupStep ==
  \/ Start \/ KeepKey \/ init_operator_key \/ WriteSecret \/ CreatePublic \/ WritePublic
  \/ ReadPublic \/ ReadTrust \/ MisreadTrust \/ OpenTrust \/ WriteTrust \/ ListBundles \/ SkipSigned
  \/ sign_bundle \/ WriteSig \/ KeepAllow \/ LoadTrust \/ CreateAllow \/ WriteAllow
  \/ CheckConfig \/ CreateConfig \/ WriteConfig \/ Validate \/ Finish
DaemonStep ==
  \/ LoadConfig \/ LoadOperatorTrust \/ LoadAllowlist \/ LoadOperatorPub \/ discover_tools
  \/ CreateTemp \/ WriteTemp \/ publish_session_pub \/ Stop
OperatorStep ==
  \/ OperatorEditsManifest \/ OperatorSigns \/ OperatorAddsKey \/ OperatorWritesPolicy
  \/ OperatorRemovesKeys
Next ==
  \/ SetupStep \/ Interrupt \/ DaemonStep \/ OperatorStep
  \/ \E actor \in Actor : ReadManifest(actor) \/ ReadSig(actor)
Spec == Init /\ [][Next]_vars

-----------------------------------------------------------------------------
Mine == {Absent, Empty, Torn} \union 1 .. keys                 \* a key file's content
Line == {Empty, Torn} \union (1 .. keys) \union OtherKey         \* a trust file's line
Text == Version \union {Absent}
Name == Bundle \union {name_of[v] : v \in Version}
SetupStage ==
  {"idle", "key", "key_w", "pub_c", "pub_w", "pub", "trust", "trust_o", "trust_w", "list", "sign",
   "sign_w", "load", "verify", "allow_w", "config", "config_c", "config_w", "validate", "done"}
Loading == {"down", "trust", "allow", "pin", "tools"}
DaemonStage == Loading \union {"load", "verify", "publish", "rename", "up"}
KeysTyped ==
  /\ keys \in 0 .. MaxKey /\ interrupts \in Nat /\ edits \in Nat
  /\ sk \in Mine /\ pk \in Mine /\ my_pub \in Mine /\ new_key \in {Absent} \union 1 .. keys
  /\ trust \in [there : BOOLEAN, lines : Seq(Line), text : BOOLEAN] /\ content \in Seq(Line)
  /\ misread \in BOOLEAN
FilesTyped ==
  /\ manifest \in [Bundle -> Text] /\ endorsed \subseteq Key \X Text
  /\ sig \in [Bundle -> {NoSig, <<Empty, Empty>>, <<Torn, Torn>>} \union endorsed]
  /\ allow \in [there : BOOLEAN, ok : BOOLEAN, names : SUBSET Name, own : BOOLEAN]
  /\ config \in {Absent, Empty, Torn, Prefix, Generated, Own, Invalid}
StepsTyped ==
  /\ pc \in [Actor -> SetupStage \union DaemonStage]
  /\ pc["setup"] \in SetupStage /\ pc["daemon"] \in DaemonStage
  /\ todo \in [Actor -> SUBSET Bundle] /\ cur \in [Actor -> Bundle \union {NoBundle}]
  /\ held \in [Actor -> Text] /\ found \in [Actor -> SUBSET Version]
DaemonTyped == d_trust \subseteq (1 .. keys) \union OtherKey /\ run \in Nat
TypeOK == KeysTyped /\ FilesTyped /\ StepsTyped /\ DaemonTyped

(* Whatever is replaced between the two reads of VerifiedBundle::load, a   *)
(* bundle that loads is one text that a trusted operator signed as it is:  *)
(* never the text of one edit with the signature of another (verify.rs).   *)
LoadedIsSigned ==
  \A v \in found["daemon"] :
    v \in PayloadMatches /\ \E k \in d_trust : <<k, v>> \in endorsed

(* However often setup was cut short, a daemon that is past its checks     *)
(* trusts and pins only keys an operator generated or added, never what an *)
(* interrupted write left of one (trust.rs from_str, main.rs).             *)
TrustsOnlyOperators ==
  /\ ~At("daemon", "down") => d_trust \subseteq (1 .. keys) \union OtherKey
  /\ At("daemon", "up") => d_pin \in 1 .. keys

(* The allowlist setup writes names only bundles that were signed as       *)
(* read-only (setup.rs verified_read_only), whatever an operator does      *)
(* meanwhile to the files it reads.                                        *)
AllowlistEndorsed ==
  allow.there /\ ~allow.own =>
    \A n \in allow.names : \E e \in endorsed : e[2] \in ReadOnly /\ name_of[e[2]] = n

(* The executor, which reads it for every connection, finds the session    *)
(* key whole, and that of this run from the moment the daemon serves       *)
(* (main.rs publish_session_pub), also after a stop in mid-publication.    *)
PublishedWhole ==
  session_pub \in 0 .. run /\ (At("daemon", "up") => session_pub = run)

(* A run of setup that completes drops no key that was trusted when it     *)
(* began (setup.rs: "never drops other keys"), unless it could not read    *)
(* the file that has them: that one is written anew.  An interrupted run   *)
(* may drop any.                                                           *)
KeysSurviveRun == At("setup", "done") /\ ~misread => must_trust \subseteq Range(trust.lines)

(* After a run that completes and nobody interfered with, whatever earlier *)
(* runs left when they were cut short, all files are there: the line of    *)
(* operator.pub is in a readable trust file, every bundle has a signature  *)
(* file, the configuration loads (setup.rs run, steps 1 to 6).             *)
SetupCompletes ==
  At("setup", "done") /\ calm =>
    /\ pk # Absent /\ pk \in Range(trust.lines) /\ trust.there /\ trust.text
    /\ allow.there /\ loads_config(config)
    /\ \A b \in Present : sig[b] # NoSig

(* Where no run was ever cut short, the daemon can start from them: the    *)
(* key pair is whole and its public half trusted.  After an interruption   *)
(* setup may report success over a torn key pair, trust file or allowlist, *)
(* which it takes for the operator's and keeps.                            *)
SetupMakesStartable ==
  At("setup", "done") /\ calm /\ interrupts = 0 =>
    sk \in Key /\ pk = sk /\ loads_trust /\ (allow.ok \/ allow.own)

(* What the daemon and the executor act on at start is whole and was       *)
(* endorsed by an operator, whenever and by whom it was last written.      *)
DaemonInputsSound == LoadedIsSigned /\ TrustsOnlyOperators /\ PublishedWhole

(* What setup leaves behind when it completes is complete and endorsed.    *)
SetupSound == AllowlistEndorsed /\ KeysSurviveRun /\ SetupCompletes /\ SetupMakesStartable

(* Only operators change an operator's key, allowlist or configuration     *)
(* once it is there, even if it appears between setup's look and its       *)
(* creating the file (setup.rs header: "never overwrites", write_new), but *)
(* not if they write it between setup's creating and writing it; and       *)
(* running setup again changes none of the files setup::run keeps, at any  *)
(* of its steps ("idempotent"), as long as nobody edits and no run was     *)
(* interrupted or failed to read.                                          *)
LeavesFilesAlone ==
  [][/\ edits' = edits =>
          /\ sk \in Key => sk' = sk
          /\ allow.own /\ ~At("setup", "allow_w") => allow' = allow
          /\ config \in {Own, Invalid} /\ ~At("setup", "config_w") => config' = config
     /\ settled /\ settled' => UNCHANGED files]_vars

-----------------------------------------------------------------------------
(* What makes these inductive: what each of setup's stages relies on,      *)
SetupHolds ==
  /\ At("setup", "key_w") => sk = Empty
  /\ pc["setup"] \in {"key_w", "pub_c", "pub_w"} => new_key # Absent
  /\ At("setup", "trust") => my_pub # Absent
  /\ At("setup", "sign_w") => sk \in Key /\ cur["setup"] \in Bundle
  /\ At("setup", "verify") => cur["setup"] \in Bundle
  /\ At("setup", "config_w") => config # Absent
  /\ pc["setup"] \in {"allow_w", "config", "config_c", "config_w", "validate", "done"} => allow.there
  /\ allow.own => allow.there
  /\ trust.lines # <<>> => trust.there
  /\ todo["setup"] \subseteq Present
  /\ \A v \in found["setup"] : v \in ReadOnly /\ \E k \in Key : <<k, v>> \in endorsed
(* and the daemon's,                                                       *)
DaemonHolds ==
  /\ pc["daemon"] \in Loading => found["daemon"] = {}
  /\ pc["daemon"] \notin Loading \ {"tools"} => d_pin \in 1 .. keys
  /\ At("daemon", "verify") => cur["daemon"] \in Bundle
  /\ At("daemon", "rename") => session_tmp = run
  /\ PublishedWhole
(* where the keys trusted at the start of a run are,                       *)
NothingDropped ==
  /\ pc["setup"] \in {"trust_o", "trust_w"} /\ ~misread => must_trust \subseteq Range(content)
  /\ pc["setup"] \notin {"idle", "trust_o", "trust_w"} /\ ~misread =>
       must_trust \subseteq Range(trust.lines)
(* how far setup has come, also over what an interrupted run left,         *)
KeyPending == {"idle", "key", "key_w", "pub_c", "pub_w"}
Trusted == SetupStage \ (KeyPending \union {"pub", "trust", "trust_o", "trust_w"})
Signing == {"list", "sign", "sign_w"}
CalmProgress ==
  /\ At("setup", "pub_w") => pk # Absent
  /\ pc["setup"] \notin KeyPending \union {"pub"} => my_pub = pk /\ pk # Absent
  /\ pc["setup"] \in {"trust_o", "trust_w"} => pk \in Range(content)
  /\ pc["setup"] \in Trusted => pk \in Range(trust.lines) /\ trust.there
  /\ calm /\ pc["setup"] \in Trusted => trust.text
  /\ calm /\ pc["setup"] \in {"sign", "sign_w"} =>
       \A b \in Present : sig[b] # NoSig \/ b \in todo["setup"]
  /\ calm /\ pc["setup"] \in Trusted \ Signing => \A b \in Present : sig[b] # NoSig
  /\ calm /\ At("setup", "done") => loads_config(config)
(* and when no run was ever cut short,                                     *)
Progress ==
  /\ from_str(trust.lines) /\ (allow.ok \/ allow.own)
  /\ pc["setup"] \in {"idle", "key"} => pk = sk /\ sk \in Key \union {Absent}
  /\ pc["setup"] \in {"key_w", "pub_c"} => pk = Absent
  /\ pc["setup"] \in {"pub_c", "pub_w"} => sk = new_key
  /\ pc["setup"] \notin KeyPending => sk \in Key /\ pk = sk
  /\ pc["setup"] \in {"trust_o", "trust_w"} => from_str(content)
(* and what a completed run has left for the next one to find.             *)
AllInPlace ==
  /\ interrupts = 0 /\ sk \in Key /\ pk = sk /\ pk \in Range(trust.lines) /\ trust.text
  /\ allow.there /\ config # Absent
  /\ \A b \in Present : sig[b] # NoSig
  /\ pc["setup"] \in {"idle", "key", "pub", "trust", "list", "sign", "config", "validate", "done"}

IInv ==
  /\ TypeOK /\ SetupHolds /\ DaemonHolds /\ NothingDropped /\ CalmProgress
  /\ interrupts = 0 => Progress
  /\ settled => AllInPlace
  /\ LoadedIsSigned /\ AllowlistEndorsed
=============================================================================
