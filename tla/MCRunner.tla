------------------------------- MODULE MCRunner -------------------------------
(***************************************************************************)
(* Twice the cap on stdout, the cap on stderr, a pipe smaller than the     *)
(* output and a chunk larger than the room left.  The second character on  *)
(* stdout has two bytes, so the cap cuts it; stderr ends in a stray byte.  *)
(***************************************************************************)
EXTENDS Runner

MCMaxBytes == [s \in Stream |-> IF s = "stdout" THEN 4 ELSE 2]
MCUtf8 == [s \in Stream |-> IF s = "stdout" THEN {0, 1, 3, 4} ELSE {0, 1}]
=============================================================================
