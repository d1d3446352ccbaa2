----------------------------- MODULE MCOrchestrator -----------------------------
(***************************************************************************)
(* A small daemon for TLC: one bundle name, bundles for which each gate of *)
(* invoke has something to decide, and an executor that may answer at will.*)
(***************************************************************************)
EXTENDS Orchestrator

MCAllowlist == [default |-> [mode |-> "Interactive", allowed_exec |-> Exec]]

Inspect == [signed |-> TRUE, args |-> {"good"}, read_only |-> TRUE, risk |-> "low",
            persistent |-> FALSE, rw |-> FALSE, denied |-> FALSE, plan |-> TRUE,
            limits |-> FALSE, payload |-> "inspect"]
Wipe == [Inspect EXCEPT !.read_only = FALSE, !.persistent = TRUE, !.rw = TRUE,
                        !.risk = "critical", !.payload = "wipe"]
Denied == [Inspect EXCEPT !.denied = TRUE]
MCBundle == {Inspect, Wipe, Denied}
=============================================================================
