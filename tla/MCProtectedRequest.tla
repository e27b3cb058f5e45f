------------------------- MODULE MCProtectedRequest -------------------------
(***************************************************************************)
(* Small instances of ProtectedRequest for TLC.                            *)
(***************************************************************************)
EXTENDS ProtectedRequest, TLC

CONSTANTS r1, r2, v1, v2, t1, t2, s1, p1

\* Requests are interchangeable, and so are revocations and tokens.
Symmetry == Permutations(Requests) \cup Permutations(Revokers)
              \cup Permutations(Tokens)
=============================================================================
