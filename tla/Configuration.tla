------------------------------ MODULE Configuration ------------------------------
(***************************************************************************)
(* archangel-config: the file both daemons start from.  A section of the   *)
(* text is the function of the fields it gives; serde fills in the rest.   *)
(* `archangelctl setup` writes the first such file (setup.rs).             *)
(***************************************************************************)
EXTENDS Egress

SessionDefault == [per_task_isolation |-> TRUE, ttl_seconds |-> 3600]
ModesInteractiveDefault == [default |-> "Interactive", autonomous_allowed |-> FALSE]
ModesDefault == [default |-> "ReadOnly", autonomous_allowed |-> FALSE]
LlmDefault == [default_backend |-> "ollama", max_tokens |-> 1024]
RateLimitsDefault ==
  [actions_per_minute |-> 20, mutating_actions_per_minute |-> 5,
   critical_actions_per_hour |-> 2, approval_requests_per_minute |-> 10]
MonitorDefault ==
  [enabled |-> FALSE, poll_interval_secs |-> 5, cooldown_secs |-> 300, sources_absolute |-> TRUE]
EgressDefault == [default_policy |-> "deny", allow |-> <<>>]
DaemonDefault ==
  [audit_key |-> "absolute", operator_pubkey |-> "absolute", allowlist |-> "absolute",
   bundle_dir |-> "absolute", session_pub |-> "absolute"]
SocketsDefault == [control_mode |-> 6 * 64 + 6 * 8, control_group |-> "archangel"]   \* 0o660

RequiredDaemon == {"trust_store", "audit_log"}
RequiredSockets == {"control", "exec", "operator_uid", "daemon_uid"}

(* toml::from_str: required fields present, defaults elsewhere. *)
parses(text) == RequiredDaemon \subseteq DOMAIN text.daemon
                  /\ RequiredSockets \subseteq DOMAIN text.sockets
Filled(given, default) ==
  [field \in DOMAIN given \union DOMAIN default |->
     IF field \in DOMAIN given THEN given[field] ELSE default[field]]
filled(text) ==
  [daemon |-> Filled(text.daemon, DaemonDefault), sockets |-> Filled(text.sockets, SocketsDefault),
   modes |-> Filled(text.modes, ModesDefault), llm |-> Filled(text.llm, LlmDefault),
   monitor |-> Filled(text.monitor, MonitorDefault), egress |-> Filled(text.egress, EgressDefault),
   session |-> SessionDefault, rate_limits |-> RateLimitsDefault]

(* EgressCfg::to_policy *)
to_policy(cfg) == new(cfg.egress.default_policy, cfg.egress.allow)

Paths(cfg) == {cfg.daemon[f] : f \in RequiredDaemon \union DOMAIN DaemonDefault}
                \union {cfg.sockets.control, cfg.sockets.exec}
grants_other(mode) == mode % 8 # 0
valid_mode(cfg) == cfg.modes.default # "Autonomous" \/ cfg.modes.autonomous_allowed
valid(cfg) ==
  /\ Paths(cfg) = {"absolute"}
  /\ ~grants_other(cfg.sockets.control_mode)
  /\ valid_mode(cfg)
  /\ cfg.llm.default_backend \in {"anthropic", "ollama"}
  /\ cfg.monitor.enabled => cfg.monitor.sources_absolute /\ cfg.monitor.poll_interval_secs > 0
  /\ to_policy(cfg).ok

(* Config::from_toml succeeds. *)
loads(text) == parses(text) /\ valid(filled(text))

-----------------------------------------------------------------------------
(* setup.rs render_config, and run's step 5: nothing is written that would *)
(* not load.                                                               *)
render_config(opts) ==
  [daemon |-> [trust_store |-> opts.etc, audit_log |-> "absolute", audit_key |-> opts.etc,
               operator_pubkey |-> opts.etc, allowlist |-> opts.etc, bundle_dir |-> opts.etc,
               session_pub |-> "absolute"],
   sockets |-> [control |-> "absolute", control_mode |-> 6 * 64 + 6 * 8, exec |-> "absolute",
                operator_uid |-> opts.operator_uid, daemon_uid |-> opts.daemon_uid],
   modes |-> [default |-> "ReadOnly", autonomous_allowed |-> FALSE],
   llm |-> [default_backend |-> opts.backend, max_tokens |-> 1024],
   monitor |-> <<>>, egress |-> <<>>]

(* do_setup: explicit, then detected, then (daemon only) the operator's.   *)
NoUid == -1
operator_uid(given, detected) == IF given # NoUid THEN given ELSE detected
daemon_uid(given, detected, operator) ==
  IF given # NoUid THEN given ELSE IF detected # NoUid THEN detected ELSE operator
=============================================================================
