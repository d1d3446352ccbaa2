----------------------------- MODULE MCControlPlane -----------------------------
(***************************************************************************)
(* Connections of the operator and of another user, with frames of which   *)
(* each check refuses one, and the monitor as a second user of the lock.   *)
(***************************************************************************)
EXTENDS ControlPlane

Task == [version |-> 1, key |-> "operator", request |-> "RunTask", seq |-> 1, nonce |-> "n",
         form |-> "ok"]
MCFrame == {Task,
            [Task EXCEPT !.request = "Reject"],
            [Task EXCEPT !.version = 2],
            [Task EXCEPT !.key = "other"],
            [Task EXCEPT !.form = "malformed"],
            [Task EXCEPT !.form = "oversized"]}
=============================================================================
