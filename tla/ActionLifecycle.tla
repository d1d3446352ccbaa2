---------------------------- MODULE ActionLifecycle ----------------------------
(***************************************************************************)
(* What archangel promises about one proposed action, with neither process *)
(* in sight: it may wait for an approval, it may be requested, and it runs *)
(* at most once; once closed (answered, refused, rejected, expired or lost *)
(* with a process) it never runs.  One step may close several actions, but *)
(* the executor is serial: a step starts at most one.                      *)
(***************************************************************************)
EXTENDS Integers

CONSTANT Action
VARIABLE phase

Phase == {"new", "pending", "requested", "ran", "closed"}

Edge == { <<"new", "pending">>, <<"new", "requested">>, <<"new", "closed">>,
          <<"pending", "requested">>, <<"pending", "closed">>,
          <<"requested", "ran">>, <<"requested", "closed">> }

Init == phase = [a \in Action |-> "new"]

Next ==
  /\ phase' \in [Action -> Phase]
  /\ \A a \in Action : phase'[a] # phase[a] => <<phase[a], phase'[a]>> \in Edge
  /\ \A a, b \in Action :
       (phase'[a] = "ran" /\ phase[a] # "ran" /\ phase'[b] = "ran" /\ phase[b] # "ran") => a = b

Spec == Init /\ [][Next]_phase
=============================================================================
