----------------------------- MODULE MCRateLimiter -----------------------------
(* Two-tick minutes and four-tick hours: windows fill, age out and refill.  *)
EXTENDS RateLimiter
MCLimit == [total |-> 2, mutating |-> 1, critical |-> 1]
=============================================================================
