------------------------------- MODULE MCExecutor -------------------------------
(***************************************************************************)
(* A small executor for TLC: one bundle name whose bundle an operator may  *)
(* replace, and frames chosen so that every gate refuses some of them.     *)
(***************************************************************************)
EXTENDS Executor

MCLimit == [total |-> 2, mutating |-> 1, critical |-> 1]
MCAllowlist == [default |-> [mode |-> "Interactive", allowed_exec |-> Exec]]

Signed == [signed |-> TRUE, args |-> {"good"}, read_only |-> TRUE, risk |-> "low",
           persistent |-> FALSE, rw |-> FALSE, denied |-> FALSE, plan |-> TRUE,
           limits |-> FALSE]
Inspect  == Signed
Wipe     == [Signed EXCEPT !.read_only = FALSE, !.persistent = TRUE, !.rw = TRUE,
                           !.risk = "critical", !.limits = TRUE]
Uncaged  == [Wipe EXCEPT !.risk = "low", !.plan = FALSE]
Unsigned == [Signed EXCEPT !.signed = FALSE]
Denied   == [Signed EXCEPT !.denied = TRUE]
MCBundle == {Inspect, Wipe, Uncaged, Unsigned, Denied}

Request == [key |-> 1, session |-> "s1", seq |-> 1, nonce |-> "n1", exec |-> "act",
            args |-> "good", mode |-> "Interactive", profile |-> "default"]
Second   == [Request EXCEPT !.seq = 2, !.nonce = "n2"]
Twin     == [Request EXCEPT !.nonce = "n3"]                     \* same seq, fresh nonce
Rotated  == [Request EXCEPT !.key = 2, !.session = "s2"]        \* next key, nonce reused
BadArgs  == [Request EXCEPT !.args = "bad"]
WrongMode == [Second EXCEPT !.mode = "ReadOnly"]
MCFrame == {Request, Second, Twin, Rotated, BadArgs, WrongMode}
=============================================================================
