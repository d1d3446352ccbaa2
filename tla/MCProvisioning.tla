------------------------------ MODULE MCProvisioning ------------------------------
(* One bundle file; version 1 is read-only and has another name than its    *)
(* file, version 2 mutates, version 3 is read-only and its payload does not *)
(* match; 9 is the key of a second operator.  One interruption or failing   *)
(* read, after which one edit and one daemon run less.                      *)
EXTENDS Provisioning
MCname_of == [v \in Version |-> IF v = 1 THEN "uptime" ELSE "status"]
=============================================================================
