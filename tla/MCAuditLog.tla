------------------------------- MODULE MCAuditLog -------------------------------
(***************************************************************************)
(* Three runs of the daemon: two that write Genesis and a few entries, of  *)
(* two kinds, so that a failed append and its retry differ, and a third    *)
(* that rotates what they left.                                            *)
(***************************************************************************)
EXTENDS AuditLog

MCMaxAppend == <<3, 2, 1>>
=============================================================================
