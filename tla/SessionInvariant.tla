-------------------------- MODULE SessionInvariant --------------------------
(***************************************************************************)
(* The inductive invariant behind EndedSessionsAreDead, which              *)
(* SessionManagerProofs proves.  It is stated apart from the proof, so     *)
(* that TLC can evaluate it on small instances.                            *)
(***************************************************************************)
EXTENDS SessionManager

Undoing == {"undoLookup", "undoRead", "undoDelete", "undoUnindex"}

\* Where a call is about no one session.
Unfamiliar == {"idle", "allRead", "awaitAll", "listRead", "listMeta",
               "listPrune"}

\* Where the presented token still matters.
HasOld == {"peek", "take", "entryCheck", "awaitTombstone", "revokedCheck",
           "backoff", "graceGet", "setGrace", "setTombstone"}

\* Where a new refresh token has been written and indexed, or adopted.
HasNew == {"createMeta", "createUser", "setGrace", "setTombstone",
           "midCheck", "touchGet", "touchSet", "adoptCheck", "issue",
           "issueId", "issueIndex", "postCheck"}

\* Where the access token has been minted.
HasAccess == {"issueId", "issueIndex", "postCheck"} \cup Undoing

\* A call knows what it is about: l is its label, r its local variables.
CallOK(l, r) ==
    /\ l \notin Unfamiliar => r.sess \in Sessions
    /\ \/ l \in HasOld
       \/ l \in {"writeSet", "writeIndex"} /\ r.op # "create"
       \/ l = "awaitFamily" /\ r.op = "reuse"
       => r.old \in RefreshTokens /\ SessionOf(r.old) = r.sess
    /\ l \in HasNew \cup {"writeIndex"}
       => r.new \in RefreshTokens /\ SessionOf(r.new) = r.sess
    /\ l \in Unfamiliar \ {"idle"} => r.user \in Users
    /\ l \in HasAccess
       => r.acc \in AccessTokens /\ access[r.acc] = r.sess

CallsOK == \A c \in Callers : CallOK(pc[c], loc[c])

\* What is handed out was minted; a grace mapping stays in its family.
MintedOK ==
    /\ \A t \in handedR : SessionOf(t) \in Sessions
    /\ \A a \in handedA : access[a] \in Sessions
    /\ \A t \in RefreshTokens :
          grace[t] # NoToken => /\ SessionOf(t) \in Sessions
                                /\ SessionOf(grace[t]) = SessionOf(t)

\* Until a revocation begins, every refresh token that is handed out or may
\* yet be is in its family's index; one that was handed out stays there for
\* as long as it is live.
RefreshIndexed ==
    /\ \A t \in handedR \cap rt : t \in rtIndex[SessionOf(t)]
    /\ \A t \in RefreshTokens :
          grace[t] # NoToken /\ SessionOf(t) \notin marker
             => grace[t] \in rtIndex[SessionOf(t)]

\* The same of access tokens; undoing an issuance takes a token out of the
\* index only after it is dead.
AccessIndexed == \A a \in handedA \cap at : a \in atIndex[access[a]]

\* The same of the tokens inside a call.
Ready(l, r) ==
    /\ l \in HasNew /\ r.sess \notin marker => r.new \in rtIndex[r.sess]
    /\ l = "postCheck" /\ r.sess \notin marker => r.acc \in atIndex[r.sess]
    /\ l \in Undoing => r.sess \in marker
    /\ l = "undoUnindex" => r.acc \notin at

CallsReady == \A c \in Callers : Ready(pc[c], loc[c])

\* The progress of a revocation: the marker first, then what was enumerated
\* covers every handed-out token still live, then none is.
Enumerated == {"markEach", "wipe"}
AfterWipe == {"drop", "tokens", "kill", "dropTokens", "unlist", "done"}
AfterKill == {"dropTokens", "unlist", "done"}

FramesOK ==
    \A c \in Callers, s \in Sessions :
        LET f == fr[c][s]
        IN  /\ f.pc \notin {"none", "marker", "failed"} => s \in marker
            /\ f.pc \in Enumerated => LiveRefresh(s) \cap handedR \subseteq f.hashes
            /\ f.pc \in AfterWipe => LiveRefresh(s) \cap handedR = {}
            /\ f.pc = "kill" => LiveAccess(s) \cap handedA \subseteq f.tokens
            /\ f.pc \in AfterKill => LiveAccess(s) \cap handedA = {}

IInv ==
    /\ TypeOK
    /\ CallsOK
    /\ MintedOK
    /\ RefreshIndexed
    /\ AccessIndexed
    /\ CallsReady
    /\ FramesOK
    /\ ended \subseteq marker
    /\ EndedSessionsAreDead
=============================================================================
