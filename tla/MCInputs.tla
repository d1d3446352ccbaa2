--------------------------------- MODULE MCInputs ---------------------------------
(* The inputs TLC puts to the functions of archangel: every protected place *)
(* with its neighbours, every limit of at most four characters, every name  *)
(* of at most five, small schemas, replies of at most five tokens.          *)
(* KIBI = 8 and U64_MAX = 8191 let a product pass the memory ceiling (4096)  *)
(* and the word within two digits.                                          *)
EXTENDS Inputs

MCArchangelName == {"archangelctl", "archangeld.service", "archangeld.service.d"}
MCUnit == {"archangeld.service"}
MCUnitDir == {"archangeld.service.d"}
Guarded == {
  <<"etc", "archangel">>, <<"etc", "ssh">>, <<"etc", "shadow">>, <<"etc", "sudoers.d">>,
  <<"etc", "systemd", "system", "archangeld.service">>,
  <<"etc", "systemd", "system", "archangeld.service.d">>,
  <<"usr", "bin", "archangelctl">>, <<"var", "log", "archangel">>, <<"boot">>,
  <<"home", "alice", ".ssh", "authorized_keys">>, <<"root", ".ssh", "authorized_keys">> }
MCName == UNION {Range(p) : p \in Guarded} \union {"x"}
Around(p) == {SubSeq(p, 1, k) : k \in 0 .. Len(p)} \union {Append(p, "x"), p \o <<"x", "x">>}
               \union {Append(Front(p), "x")}
Abs(parts) == [absolute |-> TRUE, nul |-> FALSE, long |-> FALSE, parts |-> parts]
Place == {Abs(q) : q \in UNION {Around(p) : p \in Guarded}}
MCPath ==
  Place
  \union {Abs(<<"..">> \o p) : p \in Guarded} \union {Abs(p \o <<"..", "">>) : p \in Guarded}
  \union {[Abs(p) EXCEPT !.absolute = FALSE] : p \in Guarded}
  \union {[Abs(p) EXCEPT !.nul = TRUE] : p \in Guarded}
  \union {[Abs(p) EXCEPT !.long = TRUE] : p \in Guarded}

Mount == [at : {<<>>, <<"etc">>, <<"etc", "ssh">>}, fstype : {"ext4", "btrfs"}]
MCMounts == UNION {[1 .. n -> Mount] : n \in 0 .. 3}
MCCommandHits == "ls" :> {} @@ "mkfs" :> {"destruction"}

Strings(alphabet, n) == UNION {[1 .. k -> alphabet] : k \in 0 .. n}
MCLimit == Strings({"0", "1", "7", "9", " ", "%", "k", "G"}, 4)
MCKnownCap == {"CAP_NET_ADMIN"}
MCto_canonical == "net_admin" :> "CAP_NET_ADMIN" @@ "all" :> "CAP_ALL"
Declared == UNION {[1 .. n -> {Abs(<<"etc", ".", "archangel">>), Abs(<<"etc", "shadow", "..", "x">>),
                               Abs(<<"etc", "", "shadow">>), Abs(<<"etc", "x">>)}] : n \in 0 .. 2}
MCRequest ==
  [syscall_profile : {"inspect", "lax"}, capabilities : {{"net_admin"}, {"net_admin", "all"}},
   cpu_max : {<<>>, << <<"5", "%">> >>},
   memory_max : {<<>>, << <<"7", "k">> >>, << <<"1", "7", "G">> >>},
   paths_ro : Declared, paths_rw : Declared, payload : DOMAIN MCCommandHits,
   network : {"None", "Egress"}]

MCHostName == {"Api", "api", "db"}
MCPort == {0, 80, 443}
MClower == "Api" :> "api" @@ "api" :> "api" @@ "db" :> "db" @@ "" :> "" @@ "a b" :> "a b"
  @@ "80" :> "80" @@ "443" :> "443" @@ "0" :> "0" @@ "deny" :> "deny" @@ "Allow" :> "allow"
MCport_of == [piece \in DOMAIN MClower |->
  CASE piece = "80" -> 80 [] piece = "443" -> 443 [] piece = "0" -> 0 [] OTHER -> -1]
Entry == {<<h>> : h \in {"Api", "db", "", "a b"}} \union ({"Api", "db", ""} \X {"80", "0", "", "443"})
           \union {<<"", "", "80">>}
MCDefaultPolicy == {"deny", "Allow", "db"}
MCAllowList == UNION {[1 .. n -> Entry] : n \in 0 .. 2}
MCResolver == [{"api", "db"} -> SUBSET {"a1", "a2"}]

MCExecName == Strings({"a", ".", "/", "-"}, 5)
MCHexText == Strings({"0", "9", "a", "F", "g", " ", "\n"}, 4)
MCBytes == Strings({0, 9, 10, 15, 16, 159, 160, 255}, 2)
ArgSpec == [required : BOOLEAN, regex : {"none", "digits", "bad"}]
MCFullMatch == "digits" :> {"1", "12"}
MCArgCase ==
  [schema : UNION {[D -> ArgSpec] : D \in SUBSET {1, 2}},
   provided : UNION {[D -> {"1", "1;x"}] : D \in SUBSET {1, 2, 3}}]

MCReply ==
  [text : Strings({"fence", "\n", " ", "prose", "object"}, 5), canary : {FALSE}, too_large : {FALSE},
   object : {[action |-> <<"a">>, question |-> FALSE, reason |-> TRUE, unknown_fields |-> FALSE]}]
  \union
  [text : Strings({"fence", "\n", "object"}, 3), canary : BOOLEAN, too_large : BOOLEAN,
   object : [action : {<<"ask">>, <<"refuse">>, <<"a">>, <<".", ".">>, <<>>}, question : BOOLEAN,
             reason : BOOLEAN, unknown_fields : BOOLEAN]]

Daemon == {[trust_store |-> p, audit_log |-> "absolute"] : p \in {"absolute", "relative"}}
            \union {[audit_log |-> "absolute"],
                    [trust_store |-> "absolute", audit_log |-> "absolute", session_pub |-> "relative"]}
Sockets == {[control |-> "absolute", exec |-> "absolute", operator_uid |-> 1, daemon_uid |-> 2],
            [control |-> "absolute", exec |-> "absolute", operator_uid |-> 1],
            [control |-> "absolute", exec |-> "absolute", operator_uid |-> 1, daemon_uid |-> 2,
             control_mode |-> 438]}
Modes == {<<>>} \union [default : {"ReadOnly", "Interactive", "Autonomous"}]
           \union [default : {"Autonomous", "Interactive"}, autonomous_allowed : BOOLEAN]
           \union [autonomous_allowed : BOOLEAN]
Monitor == {<<>>, [enabled |-> TRUE], [enabled |-> TRUE, poll_interval_secs |-> 0],
            [enabled |-> TRUE, sources_absolute |-> FALSE], [poll_interval_secs |-> 0]}
EgressText == {<<>>} \union [allow : {<<>>, << <<"Api">> >>, << <<"">> >>}]
                \union [default_policy : {"deny", "Allow", "db"}, allow : {<<>>, << <<"db", "80">> >>}]
MCConfigText ==
  [daemon : Daemon, sockets : Sockets, modes : Modes, monitor : Monitor, egress : EgressText,
   llm : {<<>>, [default_backend |-> "anthropic"], [default_backend |-> "other"]}]
MCSetupOptions ==
  [etc : {"absolute", "relative"}, backend : {"anthropic", "ollama", "other"},
   given_operator : {-1, 0, 1000}, detected_operator : {-1, 0, 1000},
   given_daemon : {-1, 7}, detected_daemon : {-1, 8}]
=============================================================================
