------------------------------ MODULE MCLogMonitor ------------------------------
(***************************************************************************)
(* Two watched files; lines of up to two cells of which one is kept, and   *)
(* one line to a poll, so that both limits cut something off.              *)
(***************************************************************************)
EXTENDS LogMonitor

MCSources == <<"auth", "syslog">>
=============================================================================
