---------------------------------- MODULE Inputs ----------------------------------
(***************************************************************************)
(* Everything text turns into in archangel, put to one input at a time:    *)
(* paths, limits, sandbox requests, allow entries, names, hex, arguments,  *)
(* model replies and configurations.  The functions are the code's; the    *)
(* invariants relate each to what the other parts rely on.                 *)
(***************************************************************************)
EXTENDS PathRules, SandboxPlan, BundleFormat, Configuration

CONSTANTS Path, Mounts, Limit, Request, DefaultPolicy, AllowList, Resolver, ExecName, HexText, Bytes,
          ArgCase, Reply, ConfigText, SetupOptions

ASSUME InputsAssumption ==
  /\ Path \subseteq PathText
  /\ Request \subseteq [syscall_profile : STRING, capabilities : SUBSET DOMAIN to_canonical,
                       cpu_max : Seq(Seq(STRING)), memory_max : Seq(Seq(STRING)),
                       paths_ro : Seq(PathText), paths_rw : Seq(PathText),
                       payload : DOMAIN CommandHits, network : STRING]
  /\ \A r \in Request : Len(r.cpu_max) <= 1 /\ Len(r.memory_max) <= 1
  /\ Mounts \subseteq Seq([at : Seq(Name), fstype : STRING]) /\ Limit \subseteq Seq(STRING)
  /\ AllowList \subseteq Seq(Seq(DOMAIN lower)) /\ DefaultPolicy \subseteq DOMAIN lower
  /\ ExecName \subseteq Seq(STRING) /\ HexText \subseteq Seq(STRING) /\ Bytes \subseteq Seq(0 .. 255)
  /\ \A r \in Reply : r.text \in Seq(STRING) /\ r.canary \in BOOLEAN /\ r.too_large \in BOOLEAN

VARIABLES kind, input
vars == <<kind, input>>

Init == kind = "none" /\ input = <<>>

Given(k, x) == kind' = k /\ input' = x
GivePath == \E p \in Path : Given("path", p)
GiveMounts == \E m \in Mounts, p \in Path : p.absolute /\ Given("mounts", [mounts |-> m, path |-> p])
GiveLimit == \E t \in Limit : Given("limit", t)
GiveRequest == \E r \in Request : Given("request", r)
GiveAllow ==
  \E a \in AllowList, d \in DefaultPolicy : Given("allow", [default_policy |-> d, allow |-> a])
GiveSync ==
  \E a \in AllowList, d \in DefaultPolicy, r \in Resolver, w \in BOOLEAN, f \in WriteOutcome :
    Given("sync", [default_policy |-> d, allow |-> a, resolve |-> r, write |-> w, fails |-> f])
GiveName == \E n \in ExecName : Given("name", n)
GiveHex == \E t \in HexText : Given("hex", t)
GiveBytes == \E b \in Bytes : Given("bytes", b)
GiveArgs == \E c \in ArgCase : Given("args", c)
GiveReply == \E r \in Reply : Given("reply", r)
GiveConfig == \E t \in ConfigText : Given("config", t)
GiveSetup == \E o \in SetupOptions : Given("setup", o)
Forget == kind # "none" /\ kind' = "none" /\ input' = <<>>

Next ==
  \/ /\ kind = "none"
     /\ \/ GivePath \/ GiveMounts \/ GiveLimit \/ GiveRequest \/ GiveAllow \/ GiveSync
        \/ GiveName \/ GiveHex \/ GiveBytes \/ GiveArgs \/ GiveReply \/ GiveConfig \/ GiveSetup
  \/ Forget
Spec == Init /\ [][Next]_vars

-----------------------------------------------------------------------------
(* The ways to write the same place.                                       *)
Detour == {<<"">>, <<".">>} \union {<<n, "..">> : n \in Name} \union {<<n, ".", "", "..">> : n \in Name}
With(p, i, d) == [p EXCEPT !.parts = SubSeq(@, 1, i) \o d \o SubSeq(@, i + 1, Len(@))]
(* However a path is spelled, the denylist gives the same verdict          *)
(* (pathnorm.rs: "//", "." and "x/.." cannot hide a protected file).       *)
SpellingInvariant ==
  kind = "path" =>
    \A i \in 0 .. Len(input.parts), d \in Detour, access \in PathAccess :
      check_path(With(input, i, d), access) = check_path(input, access)

(* A place is under a rule if the rule names it, or names a directory it   *)
(* is or lies in.                                                          *)
Protected(scopes, place) ==
  \E i \in DOMAIN RULES :
    /\ RULES[i].path_scope \in scopes
    /\ \/ \E f \in RULES[i].files : MatchesFile(f, place)
       \/ \E t \in RULES[i].trees, k \in 0 .. Len(place) : MatchesFile(t, SubSeq(place, 1, k))
(* A protected directory protects its own node and all that is in it, a    *)
(* secret even from reading, and nothing else is denied (denylist.rs,      *)
(* expand_dir_glob and the two scopes).                                    *)
DenyCovers ==
  kind = "path" /\ ~BadPath(input) =>
    LET place == normalize_absolute(input)
    IN  /\ (check_path(input, "Write") # NoMatch) <=> Protected({"Any", "Modify"}, place)
        /\ (check_path(input, "Read") # NoMatch) <=> Protected({"Any"}, place)

(* A path as it is written, less the empty and "." components, which name  *)
(* nothing.                                                                *)
Keep(place, c) == IF c \in {"", "."} THEN place ELSE Append(place, c)
Written(parts) ==
  LET after[k \in 0 .. Len(parts)] == IF k = 0 THEN <<>> ELSE Keep(after[k - 1], parts[k])
  IN  after[Len(parts)]
(* The sandbox mounts a declared path as it is written, the denylist       *)
(* judges its normal form; for a path the sandbox takes, no component of   *)
(* the one is missing from the other (plan.rs validate_path).              *)
CagedAsJudged ==
  kind = "path" /\ validate_path(input) =>
    ~BadPath(input) /\ normalize_absolute(input) = Written(input.parts)

(* The mounts listed deepest above a directory. *)
Deepest(mounts, at) ==
  LET above == {i \in DOMAIN mounts : IsPrefix(mounts[i].at, at)}
  IN  {i \in above : \A j \in above : Len(mounts[i].at) >= Len(mounts[j].at)}
ByDeepest(mounts, at) ==
  LET deepest == Deepest(mounts, at)
      btrfs == {i \in deepest : mounts[i].fstype = "btrfs"}
  IN  /\ detect_for(mounts, at) = "btrfs" => btrfs # {}
      /\ deepest # {} /\ btrfs = deepest => detect_for(mounts, at) = "btrfs"
(* The snapshot backend is chosen by the deepest of the mounts listed      *)
(* above the directory it is asked for, the executor's state directory     *)
(* (execd main.rs), and never by a shallower btrfs (snapshot lib.rs).  Of  *)
(* mounts stacked at that deepest place the code takes the first and the   *)
(* kernel shows the last, so where they differ the answer may be either's; *)
(* a mount hidden by a later one further up is not told apart.             *)
LongestMount == kind = "mounts" => ByDeepest(input.mounts, input.path.parts)

-----------------------------------------------------------------------------
(* The meaning of a limit, with unbounded integers. *)
Meaning(text) ==
  LET s == trim(text)
      scaled == s # <<>> /\ Last(s) \in DOMAIN Multiplier
      number == IF scaled THEN Front(s) ELSE s
  IN  IF AllDigits(number) THEN Value(number) * (IF scaled THEN Multiplier[Last(s)] ELSE 1) ELSE 0
(* A memory limit is the number the operator wrote or a refusal, never     *)
(* what is left of it modulo 2^64, never 0; a CPU limit becomes a quota of *)
(* exactly that share of the period, within it (cgroup.rs).                *)
LimitsExact ==
  kind = "limit" =>
    /\ parse_memory(input) =
         IF Meaning(input) \in 1 .. MAX_MEMORY_BYTES THEN Meaning(input) ELSE Refused
    /\ parse_cpu(input) # Refused =>
         /\ cpu_quota(parse_cpu(input)) * 100 = parse_cpu(input) * CPU_PERIOD_US
         /\ cpu_quota(parse_cpu(input)) \in 1 .. CPU_PERIOD_US

NetworkFamilies == {"AF_INET", "AF_INET6", "AF_PACKET"}
Escapes == {"mount", "umount2", "ptrace", "bpf", "unshare", "setns", "init_module", "keyctl",
            "reboot", "kexec_load", "process_vm_writev", "io_uring_setup"}
(* A plan in hand holds every limit that was asked for and only known      *)
(* capabilities, and its filter lets neither a network socket nor a call   *)
(* that leaves the cage through, on both architectures (plan.rs,           *)
(* seccomp.rs).                                                            *)
PlanIsCage ==
  kind = "request" /\ plan(input).error = "none" =>
    LET made == plan(input)
    IN  /\ Len(made.cpu_max) = Len(input.cpu_max) /\ Len(made.memory_max) = Len(input.memory_max)
        /\ \A i \in DOMAIN made.memory_max : made.memory_max[i] \in 1 .. MAX_MEMORY_BYTES
        /\ made.capabilities \subseteq KnownCap
        /\ \A arch \in DOMAIN arch_extra_allow :
             /\ \A f \in NetworkFamilies : ~permits(arch, [number |-> "socket", arg0 |-> f])
             /\ \A n \in Escapes : ~permits(arch, [number |-> n, arg0 |-> "any"])

(* Of a bundle that passes the policy gate and then gets a plan, the       *)
(* sandbox is handed no protected place to write and no secret to read,    *)
(* whichever of its paths it is and however it is spelled (handler.rs,     *)
(* policy_gate then sandbox_gate).                                         *)
PlannedIsUnprotected ==
  kind = "request" /\ ~denied(<<input.payload>>, intents(input))
      /\ plan(input).error = "none" =>
    /\ \A p \in Range(input.paths_rw) : ~Protected({"Any", "Modify"}, Written(p.parts))
    /\ \A p \in Range(input.paths_ro) : ~Protected({"Any"}, Written(p.parts))
    /\ CommandHits[input.payload] = {}

-----------------------------------------------------------------------------
(* The allowlist means what it says: a policy that loads reaches exactly   *)
(* the hosts its entries name, in any letter case, on the entry's port     *)
(* (archangel-egress), and egress-sync resolves at least those.            *)
EgressExact ==
  kind = "allow" /\ new(input.default_policy, input.allow).ok =>
    LET policy == new(input.default_policy, input.allow)
        names(host, port) ==
          \E i \in DOMAIN input.allow : LET e == input.allow[i] IN
            lower[e[1]] = lower[host] /\ (Len(e) = 1 \/ port_of[e[2]] = port)
    IN  \A host \in HostName, port \in Port \ {0} :
          /\ is_allowed(policy, host, port) <=> policy.allow_all \/ names(host, port)
          /\ ~policy.allow_all /\ is_allowed(policy, host, port) => lower[host] \in hosts(policy)

Honest(policy, allow, answers, write, done) ==
  /\ write /\ done.code = 0 =>
       /\ done.file = "whole"
       /\ \A host \in HostName, port \in Port \ {0} : is_allowed(policy, host, port) =>
            answers[lower[host]] # {} /\ answers[lower[host]] \subseteq done.allow
  /\ done.file = "whole" =>
       /\ ~policy.allow_all
       /\ \A a \in done.allow \ {"localhost"} :
            \E i \in DOMAIN allow : a \in answers[lower[allow[i][1]]]
  /\ done.file # "unchanged" => write
  /\ done.file = "cut" => done.code = 1
(* Exit code 0 of egress-sync --write means the filter is installed whole  *)
(* and lets through all addresses of every host the daemon may reach.  A   *)
(* filter installed whole lets through only the local host and addresses   *)
(* of listed hosts, and never stands for a policy that allows all.  The    *)
(* file is touched only by --write; a run that leaves a part of it, which  *)
(* may deny nothing, says so with code 1 (archangelctl main.rs, egress     *)
(* lib.rs).                                                                *)
SyncHonest ==
  kind = "sync" =>
    LET policy == new(input.default_policy, input.allow)
    IN  Honest(policy, input.allow, input.resolve, input.write,
               egress_sync(policy, input.resolve, input.write, input.fails))

-----------------------------------------------------------------------------
(* The daemon and the executor take the same names, and a name they take   *)
(* is a file of the bundle directory itself (response.rs, handler.rs).     *)
NamesStayInside ==
  kind = "name" =>
    /\ safe_exec_name(input) = response_safe_exec_name(input)
    /\ safe_exec_name(input) => in_bundle_dir(input)

(* Keys and signatures survive their text form: what is encoded decodes to *)
(* itself, also with the newline a key file ends in, and what decodes      *)
(* encodes to the same text in lower case, less the blanks around it       *)
(* (hex.rs, keys.rs).                                                      *)
HexFaithful ==
  /\ kind = "bytes" =>
       \A text \in {encode(input), Append(encode(input), "\n")} :
         decodable(text) /\ decode(text) = input
  /\ kind = "hex" /\ decodable(input) =>
       LET s == trimmed(input)
       IN  /\ \A i \in DOMAIN decode(input) : decode(input)[i] \in 0 .. 255
           /\ encode(decode(input)) = [i \in DOMAIN s |-> lowercase(s[i])]

(* Arguments that pass reach a script only under declared names, with      *)
(* values that match in full, and none it requires is missing (args.rs).   *)
ArgsExact ==
  kind = "args" /\ validate(input.schema, input.provided) = "ok" =>
    /\ \A name \in DOMAIN input.provided :
         /\ name \in DOMAIN input.schema
         /\ input.schema[name].regex # "bad"
         /\ input.schema[name].regex \in DOMAIN FullMatch
              => input.provided[name] \in FullMatch[input.schema[name].regex]
    /\ \A name \in DOMAIN input.schema : input.schema[name].required => name \in DOMAIN input.provided

(* The text of a reply after the line of an opening fence. Whatever stands *)
(* on that line is dropped, a language name or anything else, an object    *)
(* included (response.rs:105-108; its doc comment says "nothing else").    *)
AfterFenceLine(text) ==
  LET t == trimmed(text)
      newlines == {i \in DOMAIN t : t[i] = "\n"}
  IN  IF Head(t) # Fence THEN t
      ELSE IF newlines = {} THEN <<>> ELSE SubSeq(t, Min(newlines) + 1, Len(t))
(* A reply leads to a tool only if it has no canary and, less the line of  *)
(* an opening fence, is one object and nothing else: no prose, no second   *)
(* object, at most the closing fence (response.rs).                        *)
OneActionOrNothing ==
  kind = "reply" /\ parse_model_response(input) \in {"Invoke", "Ask", "Refuse"} =>
    LET rest == AfterFenceLine(input.text)
        ink == {i \in DOMAIN rest : rest[i] \notin Blank}
    IN  /\ ~input.canary /\ ~input.too_large
        /\ \E i \in ink :
             /\ rest[i] = "object"
             /\ \/ ink = {i}
                \/ /\ Head(trimmed(input.text)) = Fence
                   /\ \E j \in ink : i < j /\ ink = {i, j} /\ rest[j] = Fence
        /\ parse_model_response(input) = "Invoke" => safe_exec_name(input.object.action)

-----------------------------------------------------------------------------
(* A configuration that loads allows nothing it does not say: it mutates   *)
(* only in a mode it names, autonomously only if it says so twice, it      *)
(* reaches only hosts it lists, and its socket is closed to others         *)
(* (config lib.rs).                                                        *)
OptInOnly ==
  kind = "config" /\ loads(input) =>
    LET cfg == filled(input)
    IN  /\ cfg.modes.default # "ReadOnly" =>
             "default" \in DOMAIN input.modes /\ input.modes.default = cfg.modes.default
        /\ cfg.modes.default = "Autonomous" =>
             "autonomous_allowed" \in DOMAIN input.modes /\ input.modes.autonomous_allowed
        /\ cfg.monitor.enabled => "enabled" \in DOMAIN input.monitor
        /\ \A h \in HostName, p \in Port : is_allowed(to_policy(cfg), h, p) =>
             \/ "allow" \in DOMAIN input.egress /\ input.egress.allow # <<>>
             \/ "default_policy" \in DOMAIN input.egress /\ lower[input.egress.default_policy] = "allow"
        /\ cfg.sockets.control_mode % 8 = 0

(* What setup renders loads whenever its directory is absolute and its     *)
(* backend known, never mutates, and names a uid for both peers (setup.rs  *)
(* render_config, main.rs do_setup).                                       *)
SetupLoads ==
  kind = "setup" /\ operator_uid(input.given_operator, input.detected_operator) # NoUid =>
    LET op == operator_uid(input.given_operator, input.detected_operator)
        rendered == render_config([etc |-> input.etc, backend |-> input.backend, operator_uid |-> op,
          daemon_uid |-> daemon_uid(input.given_daemon, input.detected_daemon, op)])
    IN  /\ loads(rendered) <=> input.etc = "absolute" /\ input.backend \in {"anthropic", "ollama"}
        /\ filled(rendered).modes.default = "ReadOnly"
        /\ NoUid \notin {rendered.sockets.operator_uid, rendered.sockets.daemon_uid}

-----------------------------------------------------------------------------
(* Paths: what the policy judged is what the sandbox is handed.            *)
PathsJudgedAsUsed == SpellingInvariant /\ DenyCovers /\ CagedAsJudged /\ PlannedIsUnprotected
(* Resources: what is enforced is what was declared, and a recovery point  *)
(* is promised by the mount listed deepest above the state directory.      *)
CageExact == LimitsExact /\ PlanIsCage /\ LongestMount
(* Network: decision, resolution and a filter installed whole agree.       *)
EgressHonest == EgressExact /\ SyncHonest
(* Texts: names, hex, arguments and replies mean one thing or are refused. *)
FormatsExact == NamesStayInside /\ HexFaithful /\ ArgsExact /\ OneActionOrNothing
(* Configuration: nothing is on that was not switched on.                  *)
ConfigSafe == OptInOnly /\ SetupLoads
=============================================================================
