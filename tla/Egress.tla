--------------------------------- MODULE Egress ---------------------------------
(***************************************************************************)
(* archangel-egress: which destinations the daemon may reach, and          *)
(* archangelctl egress-sync, which turns the same allowlist into a kernel  *)
(* filter.  An allow entry is the sequence of its pieces between colons.   *)
(***************************************************************************)
EXTENDS Integers, Sequences, SequencesExt

CONSTANTS
  HostName,   \* pieces that are valid host names
  lower,      \* trim and to_ascii_lowercase, [piece -> piece]
  Port,       \* u16 values that occur; 0 may be one of them
  port_of     \* str::parse::<u16>, [piece -> Port \union {NotAPort}]

NotAPort == -1
AnyPort == -2

ASSUME EgressAssumption ==
  /\ HostName \subseteq DOMAIN lower /\ Port \subseteq Nat
  /\ port_of \in [DOMAIN lower -> Port \union {NotAPort}]
  /\ "deny" \in DOMAIN lower /\ lower["deny"] = "deny"

Malformed == [host |-> "", port |-> NotAPort]

valid_host(pieces) == Len(pieces) = 1 /\ pieces[1] \in HostName

host_of(pieces) == lower[pieces[1]]
(* parse_rule: the text after the last colon is a port. *)
parse_rule(entry) ==
  LET host == IF Len(entry) > 1 THEN Front(entry) ELSE entry
      port == IF Len(entry) > 1 THEN port_of[Last(entry)] ELSE AnyPort
  IN  IF port \in {NotAPort, 0} \/ ~valid_host(host) THEN Malformed
      ELSE [host |-> host_of(host), port |-> port]

(* EgressPolicy::new: one bad entry, or an unknown policy, refuses all. *)
new(default_policy, allow) ==
  LET rules == {parse_rule(allow[i]) : i \in DOMAIN allow}
  IN  [ok |-> lower[default_policy] \in {"deny", "allow"} /\ Malformed \notin rules,
       allow_all |-> lower[default_policy] = "allow", rules |-> rules]

is_allowed(policy, host, port) ==
  \/ policy.allow_all
  \/ \E r \in policy.rules : r.host = lower[host] /\ r.port \in {AnyPort, port}

hosts(policy) == {r.host : r \in policy.rules}

(* The addresses the drop-in allows, all others being denied. *)
render_systemd_dropin(allowed_ips) == {"localhost"} \union allowed_ips

(* do_egress_sync: resolve[host] is the addresses found, {} when none or   *)
(* on an error, and the address itself for a literal.  Hosts that did not  *)
(* resolve are left out of what is written, and said so with code 2.       *)
(* `fails` is where writing breaks off: before the file is touched         *)
(* (create_dir_all or the open), or after fs::write has truncated it.      *)
(* `file` is what stands in the drop-in's place afterwards: what did       *)
(* before, a part of the text, possibly none, or all of it.                *)
WriteOutcome == {"none", "before", "midway"}
exit_code_always_0(write, unresolved) == 0
exit_code(write, unresolved) == IF write /\ unresolved # {} THEN 2 ELSE 0
Refusal(file) == [code |-> 1, file |-> file, allow |-> {}]
egress_sync(policy, resolve, write, fails) ==
  CASE ~policy.ok \/ policy.allow_all \/ (write /\ fails = "before") -> Refusal("unchanged")
    [] policy.ok /\ ~policy.allow_all /\ write /\ fails = "midway" -> Refusal("cut")
    [] OTHER ->
         [code |-> exit_code(write, {h \in hosts(policy) : resolve[h] = {}}),
          file |-> IF write THEN "whole" ELSE "unchanged",
          allow |-> render_systemd_dropin(UNION {resolve[h] : h \in hosts(policy)})]
=============================================================================
