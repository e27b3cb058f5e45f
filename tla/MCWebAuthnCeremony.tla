------------------------ MODULE MCWebAuthnCeremony -------------------------
(***************************************************************************)
(* Small instances of WebAuthnCeremony for TLC.                            *)
(***************************************************************************)
EXTENDS WebAuthnCeremony, TLC

CONSTANTS a, b, ann, bob, h1, h2, k1

\* Requests are interchangeable, and so are users and challenges.
Symmetry == Permutations(Callers) \cup Permutations(Users)
            \cup Permutations(Challenges)
=============================================================================
