--------------------------------- MODULE Policy ---------------------------------
(***************************************************************************)
(* The policy engine both daemons link (crates/archangel-policy/src/lib.rs,*)
(* allowlist.rs) and the modes it depends on (archangel-core/src/mode.rs). *)
(* A bundle is seen here through what its signed manifest says; whether    *)
(* its payload or a declared path hits the compiled denylist is one bit.   *)
(***************************************************************************)
CONSTANTS
  Exec,       \* names of .exec bundles
  Allowlist   \* loaded allowlist: [profile name -> [mode, allowed_exec]]

OperationMode == {"ReadOnly", "Interactive", "Autonomous"}

ASSUME AllowlistAssumption ==
  \A p \in DOMAIN Allowlist : /\ Allowlist[p].mode \in OperationMode
                              /\ Allowlist[p].allowed_exec \subseteq Exec

allows_mutation(mode) == mode \in {"Interactive", "Autonomous"}
requires_human_approval(mode) == mode = "Interactive"
requires_two_person_rule(bundle) == bundle.risk = "critical"

is_allowed(profile, exec, mode) ==
  /\ profile \in DOMAIN Allowlist
  /\ Allowlist[profile].mode = mode
  /\ exec \in Allowlist[profile].allowed_exec

PolicyDecision == {"Allow", "RequireApproval", "Deny", "NotAllowed"}

(* Deny first, then the allowlist, then the approval gates. *)
evaluate(profile, mode, exec, bundle) ==
  CASE bundle.denied -> "Deny"
    [] ~bundle.denied /\ ~is_allowed(profile, exec, mode) -> "NotAllowed"
    [] ~bundle.denied /\ is_allowed(profile, exec, mode)
         /\ (requires_human_approval(mode) \/ requires_two_person_rule(bundle))
       -> "RequireApproval"
    [] OTHER -> "Allow"
=============================================================================
