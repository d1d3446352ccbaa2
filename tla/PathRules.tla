-------------------------------- MODULE PathRules --------------------------------
(***************************************************************************)
(* Paths as archangel reads them: lexical normalisation (pathnorm.rs), the *)
(* compiled denylist (denylist.rs), the sandbox's own path check (plan.rs) *)
(* and the mount lookup of the snapshot backend (archangel-snapshot).      *)
(* A path is what splitting it at '/' yields; whether a command matches a  *)
(* regular expression is asked of CommandHits.                             *)
(***************************************************************************)
EXTENDS Integers, Sequences, SequencesExt

CONSTANTS
  Name,          \* component names that occur
  ArchangelName, \* those that match archangel*
  Unit,          \* those that match archangel*.service
  UnitDir,       \* those that match archangel*.service.d
  CommandHits    \* [command -> set of rule ids one of whose patterns matches]

ASSUME PathRulesAssumption ==
  /\ ArchangelName \union Unit \union UnitDir \subseteq Name
  /\ {"", ".", ".."} \intersect Name = {}

PathAccess == {"Read", "Write"}
Component == Name \union {"", ".", ".."}
PathText == [absolute : BOOLEAN, nul : BOOLEAN, long : BOOLEAN, parts : Seq(Component)]

-----------------------------------------------------------------------------
(* normalize_absolute: a stack of components. *)
push(stack, c) ==
  CASE c \in {"", "."} -> stack
    [] c = ".." -> IF stack = <<>> THEN stack ELSE Front(stack)
    [] OTHER -> Append(stack, c)
BadPath(path) == ~path.absolute \/ path.nul
normalize(parts) ==
  LET after[k \in 0 .. Len(parts)] == IF k = 0 THEN <<>> ELSE push(after[k - 1], parts[k])
  IN  after[Len(parts)]
normalize_absolute(path) == normalize(path.parts)

-----------------------------------------------------------------------------
(* The rule table.  A component of a pattern is the set of the names it    *)
(* matches; a pattern of `trees` ends in "/**".                            *)
Exact(names) == [i \in DOMAIN names |-> {names[i]}]
Below(dir, set) == Append(Exact(dir), set)

RULES == <<
  [id |-> "self-protection", category |-> "SelfProtection", path_scope |-> "Modify",
   files |-> {Below(<<"usr", "bin">>, ArchangelName),
              Below(<<"usr", "lib", "systemd", "system">>, Unit),
              Below(<<"etc", "systemd", "system">>, Unit)},
   trees |-> {Exact(<<"etc", "archangel">>), Exact(<<"var", "lib", "archangel">>),
              Exact(<<"var", "lib", "archangel-exec">>), Exact(<<"var", "log", "archangel">>),
              Below(<<"etc", "systemd", "system">>, UnitDir)}],
  [id |-> "ssh", category |-> "Ssh", path_scope |-> "Any",
   files |-> {Exact(<<"root", ".ssh", "authorized_keys">>),
              <<{"home"}, Name, {".ssh"}, {"authorized_keys"}>>},
   trees |-> {Exact(<<"etc", "ssh">>)}],
  [id |-> "firewall", category |-> "Firewall", path_scope |-> "Modify",
   files |-> {}, trees |-> {}],
  [id |-> "destruction", category |-> "Destruction", path_scope |-> "Modify",
   files |-> {}, trees |-> {}],
  [id |-> "mass-deletion", category |-> "MassDeletion", path_scope |-> "Modify",
   files |-> {}, trees |-> {}],
  [id |-> "identity", category |-> "Identity", path_scope |-> "Any",
   files |-> {Exact(<<"etc", "shadow">>), Exact(<<"etc", "gshadow">>),
              Exact(<<"etc", "sudoers">>)},
   trees |-> {Exact(<<"etc", "sudoers.d">>), Exact(<<"etc", "pam.d">>),
              Exact(<<"etc", "security">>)}],
  [id |-> "kernel", category |-> "Kernel", path_scope |-> "Modify",
   files |-> {Exact(<<"etc", "default", "grub">>)},
   trees |-> {Exact(<<"boot">>), Exact(<<"etc", "grub.d">>)}],
  [id |-> "exfiltration", category |-> "Exfiltration", path_scope |-> "Modify",
   files |-> {}, trees |-> {}]
>>

ASSUME CommandHitsAssumption ==
  \A command \in DOMAIN CommandHits : CommandHits[command] \subseteq {RULES[i].id : i \in DOMAIN RULES}

(* GlobBuilder with literal_separator(true): one component per component;  *)
(* "/**" stands for at least one more.                                     *)
MatchesFile(pattern, path) ==
  Len(path) = Len(pattern) /\ \A i \in DOMAIN pattern : path[i] \in pattern[i]
MatchesTree(pattern, path) ==
  Len(path) > Len(pattern) /\ \A i \in DOMAIN pattern : path[i] \in pattern[i]

(* expand_dir_glob: the directory itself is a pattern of its own. *)
expand_dir_glob(rule) == rule.files \union rule.trees
MatchesRule(rule, path) ==
  \/ \E pattern \in expand_dir_glob(rule) : MatchesFile(pattern, path)
  \/ \E pattern \in rule.trees : MatchesTree(pattern, path)

NoMatch == "none"
(* first_glob_owner: the earliest rule of that scope in the table. *)
first_glob_owner(scope, path) ==
  LET hits == {i \in DOMAIN RULES : RULES[i].path_scope = scope /\ MatchesRule(RULES[i], path)}
  IN  IF hits = {} THEN NoMatch ELSE RULES[Min(hits)].id

check_path(path, access) ==
  CASE BadPath(path) -> "denylist-build-failure"
    [] OTHER ->
         LET normalized == normalize_absolute(path)
             any == first_glob_owner("Any", normalized)
         IN  CASE any # NoMatch -> any
               [] any = NoMatch /\ access = "Write" -> first_glob_owner("Modify", normalized)
               [] OTHER -> NoMatch

(* check_command: the owner of the first pattern of the set that matches. *)
check_command(command) ==
  LET hits == {i \in DOMAIN RULES : RULES[i].id \in CommandHits[command]}
  IN  IF hits = {} THEN NoMatch ELSE RULES[Min(hits)].id

(* policy_gate and the orchestrator's evaluate: the payload is one command,*)
(* every declared path an intent.                                          *)
intents(manifest) ==
  [i \in DOMAIN manifest.paths_ro |-> [path |-> manifest.paths_ro[i], access |-> "Read"]]
    \o [i \in DOMAIN manifest.paths_rw |-> [path |-> manifest.paths_rw[i], access |-> "Write"]]

(* What PolicyEngine::evaluate asks of the denylist, before the allowlist. *)
denied(commands, paths) ==
  \/ \E i \in DOMAIN commands : check_command(commands[i]) # NoMatch
  \/ \E i \in DOMAIN paths : check_path(paths[i].path, paths[i].access) # NoMatch

-----------------------------------------------------------------------------
(* plan.rs validate_path: the sandbox does not normalise, it refuses. *)
validate_path_lax(path) == path.absolute /\ ~path.long /\ ~path.nul
validate_path(path) ==
  /\ path.absolute /\ ~path.long /\ ~path.nul
  /\ ".." \notin Range(path.parts)

-----------------------------------------------------------------------------
(* fs_type_for: the mount with the longest path-component prefix; of two   *)
(* at the same place, the one /proc/mounts lists first, which the later    *)
(* one hides.  The executor asks once, for its own state directory.        *)
is_path_prefix(prefix, path) == IsPrefix(prefix, path)
closer(best, mount) == best # <<>> /\ Len(best[1].at) >= Len(mount.at)
fs_type_for(mounts, path) ==
  LET consider(best, mount) ==
        IF ~is_path_prefix(mount.at, path) \/ closer(best, mount) THEN best ELSE <<mount>>
      after[k \in 0 .. Len(mounts)] == IF k = 0 THEN <<>> ELSE consider(after[k - 1], mounts[k])
      best == after[Len(mounts)]
  IN  IF best = <<>> THEN "none" ELSE best[1].fstype
detect_for(mounts, target) == IF fs_type_for(mounts, target) = "btrfs" THEN "btrfs" ELSE "none"
=============================================================================
