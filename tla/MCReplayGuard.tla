----------------------------- MODULE MCReplayGuard -----------------------------
(* A small replay guard for TLC: the window is shorter than the history, so *)
(* eviction and the return of an evicted nonce both happen.                 *)
EXTENDS ReplayGuard, TLC
Symmetry == Permutations(Session) \union Permutations(Nonce)
=============================================================================
