--------------------------- MODULE MCOneTimeToken ---------------------------
(***************************************************************************)
(* Small instances of OneTimeToken for TLC.                                *)
(***************************************************************************)
EXTENDS OneTimeToken, TLC

CONSTANTS a, b, t1, t2, reset, invite, ann

\* Password resets replace each other; invitations are kept, and revoked at
\* most once.
Bounds == [s \in Slots |-> IF Replaces(s) THEN 2 ELSE 1]

\* Callers are interchangeable, and so are the tokens not yet minted.
Symmetry == Permutations(Callers) \cup Permutations(Tokens)
=============================================================================
