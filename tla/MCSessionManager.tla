-------------------------- MODULE MCSessionManager --------------------------
(***************************************************************************)
(* Small instances of SessionManager for TLC.                              *)
(***************************************************************************)
EXTENDS SessionInvariant, TLC

CONSTANTS c1, c2, c3, s1, s2, alice

\* Every session belongs to one user, so that revokeAllForUser and
\* listSessions race with all of them.
OneUser == [s \in Sessions |-> alice]

\* Callers are interchangeable.
Symmetry == Permutations(Callers)
=============================================================================
