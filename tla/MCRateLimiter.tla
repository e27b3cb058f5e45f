---------------------------- MODULE MCRateLimiter ----------------------------
(***************************************************************************)
(* Small instances of RateLimiter for TLC.                                 *)
(***************************************************************************)
EXTENDS RateLimiter, TLC

CONSTANTS r1, r2, i1, i2, acct

\* Requests in flight are interchangeable, and so are addresses.
Symmetry == Permutations(Requests) \cup Permutations(Ips)
=============================================================================
