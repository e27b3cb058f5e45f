--------------------------- MODULE MCNinshoClient ---------------------------
(***************************************************************************)
(* Small instances of NinshoClient for TLC.                                *)
(***************************************************************************)
EXTENDS NinshoClient, TLC

CONSTANTS c1, c2, c3, ann, bob

\* Concurrent calls are interchangeable, and so are the users.
Symmetry == Permutations(Calls) \cup Permutations(Users)
=============================================================================
