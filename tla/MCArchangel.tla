------------------------------ MODULE MCArchangel ------------------------------
(***************************************************************************)
(* The two daemons together, small enough for TLC.                         *)
(***************************************************************************)
EXTENDS Archangel

MCLimit == [total |-> 2, mutating |-> 1, critical |-> 1]
MCStages == {"SignatureInvalid", "Replay", "BundleUnverified", "ArgRejected", "NotReadOnly",
             "DenylistHit", "NotAllowlisted", "RateLimited", "SnapshotUnavailable",
             "SandboxRejected"}
InteractiveAllowlist == [default |-> [mode |-> "Interactive", allowed_exec |-> Exec]]

Inspect == [signed |-> TRUE, args |-> {"good"}, read_only |-> TRUE, risk |-> "low",
            persistent |-> FALSE, rw |-> FALSE, denied |-> FALSE, plan |-> TRUE,
            limits |-> FALSE, payload |-> "inspect"]
Fix == [Inspect EXCEPT !.read_only = FALSE, !.persistent = TRUE, !.rw = TRUE,
                       !.payload = "fix"]
MCBundle == {Inspect, Fix}
=============================================================================
