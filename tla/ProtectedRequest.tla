-------------------------- MODULE ProtectedRequest --------------------------
(***************************************************************************)
(* verify() (server, http/middleware.ts) on requests that carry an access  *)
(* token and a DPoP proof: the proof's window and its single use, the two  *)
(* engines' checks of the token, revocation of a token and of a session,   *)
(* and what is done when the store cannot be reached.  The clock is in     *)
(* ticks and store entries keep the tick they expire at.  An action is the *)
(* code between two awaits of the store.                                   *)
(***************************************************************************)
EXTENDS Naturals

CONSTANTS
    Requests, Revokers, \* requests and revocations that may overlap
    Tokens, Sessions, Proofs,
    NoToken, NoSession, NoProof,
    Strategy,           \* "opaque" or "paseto"
    OnStoreError,       \* "closed" or "open"
    Bound,              \* the tokens issued with a confirmation key
    AccessTtl,          \* config.accessTokenTtl
    Tolerance,          \* config.clockToleranceSeconds
    MaxAge,             \* config.dpopProofMaxAgeSeconds
    Second,             \* ticks of a second
    IndexSlack,         \* the 60 seconds a session's index outlives a token
    Stall,              \* ticks that may pass between a check and its command
    MaxClock,           \* bound on the clock
    MaxFailures         \* bound on store commands that fail

ASSUME ConstantsAssumption ==
    /\ NoToken \notin Tokens /\ NoSession \notin Sessions /\ NoProof \notin Proofs
    /\ Strategy \in {"opaque", "paseto"} /\ OnStoreError \in {"closed", "open"}
    /\ Strategy = "opaque" => OnStoreError = "closed"   \* config.ts refuses it
    /\ Bound \subseteq Tokens
    /\ AccessTtl \in Nat /\ Tolerance \in Nat /\ MaxAge \in Nat /\ IndexSlack \in Nat
    /\ Tolerance <= AccessTtl
    /\ Second \in Nat /\ Stall \in Nat /\ Stall < Second
    /\ MaxClock \in Nat /\ MaxFailures \in Nat

VARIABLES
    clock,
    minted,     \* the access tokens: session and time of issue
    record,     \* KEYS.accessToken: when each record expires
    denied,     \* KEYS.revoked: when each denylist entry expires
    index,      \* KEYS.sessionTokens: members and expiry
    ended,      \* KEYS.sessionRevoked: the sessions marked as revoked
    proof,      \* the proofs clients have signed: token and iat
    claimed,    \* KEYS.dpopProof: when each claim expires
    request,    \* the requests inside verify()
    revoker,    \* the revocations under way
    gone,       \* history: tokens whose revocation has completed
    spent,      \* history: proofs whose claim has succeeded
    replayed,   \* history: proofs whose claim has succeeded twice
    failures

tokens == <<minted, record, denied, index, ended>>
proofs == <<proof, claimed, spent, replayed>>
vars == <<clock, tokens, proofs, request, revoker, gone, failures>>

RequestRecords ==
    [pc : {"idle", "claim", "verify", "lookup", "admitted"},
     token : Tokens \cup {NoToken}, proof : Proofs \cup {NoProof},
     at : Nat, late : BOOLEAN, blind : BOOLEAN]
RevocationRecords ==
    [pc : {"idle", "members", "revoke"}, session : Sessions \cup {NoSession},
     todo : SUBSET Tokens, reach : SUBSET Tokens]
MintRecords == [session : Sessions \cup {NoSession}, iat : Nat]
IndexRecords == [members : SUBSET Tokens, until : Nat]
ProofRecords == [token : Tokens \cup {NoToken}, iat : Nat]

Unminted == [session |-> NoSession, iat |-> 0]
Unsigned == [token |-> NoToken, iat |-> 0]
NoRequest == [pc |-> "idle", token |-> NoToken, proof |-> NoProof, at |-> 0,
              late |-> FALSE, blind |-> FALSE]
NoRevocation == [pc |-> "idle", session |-> NoSession, todo |-> {}, reach |-> {}]

TypeOK ==
    /\ clock \in Nat /\ failures \in Nat
    /\ minted \in [Tokens -> MintRecords]
    /\ record \in [Tokens -> Nat] /\ denied \in [Tokens -> Nat]
    /\ index \in [Sessions -> IndexRecords]
    /\ proof \in [Proofs -> ProofRecords]
    /\ claimed \in [Proofs -> Nat]
    /\ spent \subseteq Proofs /\ replayed \subseteq Proofs
    /\ gone \subseteq Tokens /\ ended \subseteq Sessions
    /\ request \in [Requests -> RequestRecords]
    /\ revoker \in [Revokers -> RevocationRecords]

Init ==
    /\ clock = 0 /\ failures = 0
    /\ minted = [t \in Tokens |-> Unminted]
    /\ record = [t \in Tokens |-> 0] /\ denied = [t \in Tokens |-> 0]
    /\ index = [s \in Sessions |-> [members |-> {}, until |-> 0]]
    /\ proof = [p \in Proofs |-> Unsigned]
    /\ claimed = [p \in Proofs |-> 0]
    /\ spent = {} /\ replayed = {} /\ gone = {} /\ ended = {}
    /\ request = [r \in Requests |-> NoRequest]
    /\ revoker = [v \in Revokers |-> NoRevocation]

\* A store entry is there until the tick it expires at.
Present(until) == clock < until
Fail == failures < MaxFailures /\ failures' = failures + 1

-----------------------------------------------------------------------------
(***************************************************************************)
(* Issuing and revoking access tokens.                                     *)
(***************************************************************************)
Members(s) == IF Present(index[s].until) THEN index[s].members ELSE {}

\* engine.issue() of a token that is handed out.  Its commands and their races
\* are SessionManager's subject: a token whose index entry is not there before
\* the session's marker is revoked again and never leaves the server.
Issue(t, s) ==
    /\ minted[t] = Unminted /\ s \notin ended
    /\ minted' = [minted EXCEPT ![t] = [session |-> s, iat |-> clock]]
    /\ record' = IF Strategy = "opaque"
                   THEN [record EXCEPT ![t] = clock + AccessTtl]
                   ELSE record
    /\ index' = [index EXCEPT ![s] =
                   [members |-> Members(s) \cup {t},
                    until   |-> clock + AccessTtl + IndexSlack]]
    /\ UNCHANGED <<clock, denied, ended, proofs, request, revoker, gone, failures>>

\* Mutant: the tolerance verify() grants is forgotten.
DenyTtlExact == AccessTtl

\* How long a denylist entry is kept.
DenyTtl == AccessTtl + Tolerance + Second

\* What engine.revoke() leaves of a token.  Opaque: the record is deleted and
\* the index entry with it.  PASETO: the token is denied.
Unlist(t) ==
    [s \in Sessions |-> IF s = minted[t].session
                          THEN [index[s] EXCEPT !.members = @ \ {t}]
                          ELSE index[s]]

Kill(t) ==
    IF Strategy = "opaque"
      THEN /\ record' = [record EXCEPT ![t] = 0]
           /\ index' = IF Present(record[t]) THEN Unlist(t) ELSE index
           /\ UNCHANGED denied
      ELSE /\ denied' = [denied EXCEPT ![t] = clock + DenyTtl]
           /\ UNCHANGED <<record, index>>

\* engine.revoke(), for example of the token a request came with.
RevokeToken(t) ==
    /\ minted[t] # Unminted
    /\ Kill(t)
    /\ gone' = gone \cup {t}
    /\ UNCHANGED <<clock, minted, ended, proofs, request, revoker, failures>>

\* The manager marks the session and calls engine.revokeSession().
CallRevokeSession(v, s) ==
    /\ revoker[v].pc = "idle"
    /\ ended' = ended \cup {s}
    /\ revoker' = [revoker EXCEPT ![v] =
          [pc |-> "members", session |-> s, todo |-> {},
           reach |-> {t \in Tokens : minted[t].session = s}]]
    /\ UNCHANGED <<clock, minted, record, denied, index, proofs, request, gone,
                   failures>>

\* Mutant: the whole index entry is taken for its members.
ReadMembersWhole(v) ==
    /\ revoker[v].pc = "members"
    /\ revoker' = [revoker EXCEPT ![v] =
          [@ EXCEPT !.pc = "revoke", !.todo = {index[revoker[v].session]}]]
    /\ UNCHANGED <<clock, tokens, proofs, request, gone, failures>>

ReadMembers(v) ==
    /\ revoker[v].pc = "members"
    /\ revoker' = [revoker EXCEPT ![v] =
          [@ EXCEPT !.pc = "revoke", !.todo = Members(revoker[v].session)]]
    /\ UNCHANGED <<clock, tokens, proofs, request, gone, failures>>

\* One of the parallel commands of Promise.all takes effect.  Opaque deletes
\* all its keys with one command, and does not touch the index yet.
RevokeMembers(v) ==
    /\ revoker[v].pc = "revoke" /\ revoker[v].todo # {}
    /\ \E some \in SUBSET revoker[v].todo :
          /\ IF Strategy = "opaque"
               THEN /\ some = revoker[v].todo
                    /\ record' = [t \in Tokens |-> IF t \in some THEN 0 ELSE record[t]]
                    /\ UNCHANGED denied
               ELSE /\ \E t \in revoker[v].todo : some = {t}
                    /\ denied' = [t \in Tokens |->
                                    IF t \in some THEN clock + DenyTtl ELSE denied[t]]
                    /\ UNCHANGED record
          /\ revoker' = [revoker EXCEPT ![v] =
                            [@ EXCEPT !.todo = revoker[v].todo \ some]]
    /\ UNCHANGED <<clock, minted, index, ended, proofs, request, gone, failures>>

DropIndex(v) ==
    /\ revoker[v].pc = "revoke" /\ revoker[v].todo = {}
    /\ index' = [index EXCEPT ![revoker[v].session] = [members |-> {}, until |-> 0]]
    /\ gone' = gone \cup revoker[v].reach
    /\ revoker' = [revoker EXCEPT ![v] = NoRevocation]
    /\ UNCHANGED <<clock, minted, record, denied, ended, proofs, request,
                   failures>>

\* A command fails, with or without effect, and the call rejects.
RevocationFails(v) ==
    /\ revoker[v].pc # "idle"
    /\ Fail
    /\ revoker' = [revoker EXCEPT ![v] = NoRevocation]
    /\ UNCHANGED <<clock, tokens, proofs, request, gone>>

-----------------------------------------------------------------------------
(***************************************************************************)
(* Proofs.                                                                 *)
(***************************************************************************)
\* A client signs a proof for a token; its clock may be wrong either way.
Sign(p, t, iat) ==
    /\ proof[p] = Unsigned
    /\ minted[t] # Unminted
    /\ proof' = [proof EXCEPT ![p] = [token |-> t, iat |-> iat]]
    /\ UNCHANGED <<clock, tokens, claimed, spent, replayed, request, revoker,
                   gone, failures>>

\* Mutant: a proof from the future is taken.
AcceptableEarly(p) == clock <= proof[p].iat + MaxAge + Tolerance

\* verifyDpopProof(): not issued in the future, and not too old.
Acceptable(p) ==
    /\ proof[p].iat <= clock + Tolerance
    /\ clock <= proof[p].iat + MaxAge + Tolerance

\* Mutant: the window plus the tolerance, counted once.
RetentionOnce == MaxAge + Tolerance + Second

Retention == MaxAge + 2 * Tolerance + Second

-----------------------------------------------------------------------------
(***************************************************************************)
(* verify(): the proof first, then the token.                              *)
(***************************************************************************)
Put(r, rec) == request' = [request EXCEPT ![r] = rec]
Step(r, pc) == Put(r, [request[r] EXCEPT !.pc = pc, !.at = clock])
Refuse(r) == Put(r, NoRequest)

Begin(r, t, p, pc) ==
    /\ request[r].pc = "idle" /\ minted[t] # Unminted
    /\ Put(r, [NoRequest EXCEPT !.pc = pc, !.token = t, !.proof = p,
                                !.at = clock, !.late = (t \in gone)])
    /\ UNCHANGED <<clock, tokens, proofs, revoker, gone, failures>>

\* An instance with binding 'dpop'.  A request whose proof is refused at once
\* goes no further.
PresentProof(r, p) ==
    /\ proof[p] # Unsigned
    /\ Acceptable(p)
    /\ Begin(r, proof[p].token, p, "claim")

\* An instance with binding 'none', whose engine refuses a token that carries a
\* confirmation key.
PresentBearer(r, t) ==
    /\ t \notin Bound
    /\ Begin(r, t, NoProof, "verify")

\* replayGuard.claim(): setIfAbsent() on the proof's identifier.
Claim(r) ==
    /\ request[r].pc = "claim"
    /\ LET p == request[r].proof IN
         IF Present(claimed[p])
         THEN Refuse(r) /\ UNCHANGED <<claimed, spent, replayed>>
         ELSE /\ claimed' = [claimed EXCEPT ![p] = clock + Retention]
              /\ spent' = spent \cup {p}
              /\ replayed' = IF p \in spent THEN replayed \cup {p} ELSE replayed
              /\ Step(r, "verify")
    /\ UNCHANGED <<clock, tokens, proof, revoker, gone, failures>>

\* The store does not answer: closed refuses; open goes on without a claim.
ClaimFails(r) ==
    /\ request[r].pc = "claim"
    /\ Fail
    /\ IF OnStoreError = "open"
         THEN Put(r, [request[r] EXCEPT !.pc = "verify", !.at = clock, !.blind = TRUE])
         ELSE Refuse(r)
    /\ UNCHANGED <<clock, tokens, proofs, revoker, gone>>

\* isExpired(claims.exp, tolerance)
Expired(t) == clock > minted[t].iat + AccessTtl + Tolerance

\* PASETO checks the signed times before it asks for the denylist entry.
CheckTimes(r) ==
    /\ request[r].pc = "verify"
    /\ IF Strategy = "paseto" /\ Expired(request[r].token)
         THEN Refuse(r)
         ELSE Step(r, "lookup")
    /\ UNCHANGED <<clock, tokens, proofs, revoker, gone, failures>>

Honoured(t) == IF Strategy = "opaque" THEN Present(record[t]) ELSE ~Present(denied[t])

Lookup(r) ==
    /\ request[r].pc = "lookup"
    /\ IF Honoured(request[r].token) THEN Step(r, "admitted") ELSE Refuse(r)
    /\ UNCHANGED <<clock, tokens, proofs, revoker, gone, failures>>

\* engine.verify() again, with skipRevocationCheck.
LookupFails(r) ==
    /\ request[r].pc = "lookup"
    /\ Fail
    /\ IF OnStoreError = "open" /\ ~Expired(request[r].token)
         THEN Put(r, [request[r] EXCEPT !.pc = "admitted", !.at = clock, !.blind = TRUE])
         ELSE Refuse(r)
    /\ UNCHANGED <<clock, tokens, proofs, revoker, gone>>

Respond(r) ==
    /\ request[r].pc = "admitted"
    /\ Refuse(r)
    /\ UNCHANGED <<clock, tokens, proofs, revoker, gone, failures>>

-----------------------------------------------------------------------------
\* What was checked against the clock reaches the store within Stall ticks.
Tick ==
    /\ clock < MaxClock
    /\ \A r \in Requests :
          request[r].pc \in {"claim", "lookup"} => clock < request[r].at + Stall
    /\ clock' = clock + 1
    /\ UNCHANGED <<tokens, proofs, request, revoker, gone, failures>>

Next ==
    \/ \E t \in Tokens : RevokeToken(t) \/ \E s \in Sessions : Issue(t, s)
    \/ \E v \in Revokers :
          \/ \E s \in Sessions : CallRevokeSession(v, s)
          \/ ReadMembers(v) \/ RevokeMembers(v) \/ DropIndex(v) \/ RevocationFails(v)
    \/ \E p \in Proofs, t \in Tokens, iat \in 0 .. MaxClock : Sign(p, t, iat)
    \/ \E r \in Requests :
          \/ \E p \in Proofs : PresentProof(r, p)
          \/ \E t \in Tokens : PresentBearer(r, t)
          \/ Claim(r) \/ ClaimFails(r) \/ CheckTimes(r) \/ Lookup(r)
          \/ LookupFails(r) \/ Respond(r)
    \/ Tick

Spec == Init /\ [][Next]_vars

-----------------------------------------------------------------------------
(***************************************************************************)
(* Properties.                                                             *)
(***************************************************************************)

\* "a proof works exactly once" (replay.ts:15-16): however often a proof is
\* presented, wherever in its window, and whichever requests race, its claim
\* succeeds at most once.
ProofUsedOnce == replayed = {}

\* A request that begins after the revocation of its token, or of its session,
\* has completed is not admitted: a denylist entry is there for as long as
\* verify() could take the token for live, and revokeSession() reaches every
\* token for as long.  Only under "open", and only in an outage the request
\* itself met, is it let in (middleware.ts:188-203, paseto.ts:251-279).
RevokedIsRefused ==
    \A r \in Requests :
        request[r].pc = "admitted" /\ request[r].late
           => request[r].blind /\ OnStoreError = "open"

-----------------------------------------------------------------------------
(***************************************************************************)
(* The inductive invariant (for Tolerance < IndexSlack).                   *)
(***************************************************************************)
Claimable ==
    /\ \A p \in spent : claimed[p] + Tolerance >= proof[p].iat + Retention
    /\ \A r \in Requests : request[r].pc = "claim" =>
          /\ request[r].proof \in Proofs
          /\ proof[request[r].proof] # Unsigned
          /\ clock <= request[r].at + Stall
          /\ request[r].at <= clock
          /\ proof[request[r].proof].iat <= request[r].at + Tolerance
          /\ request[r].at <= proof[request[r].proof].iat + MaxAge + Tolerance
    /\ \A p \in spent : proof[p] # Unsigned

\* The denylist entry of a token outlives every answer that it is live.
DeniedForGood(t) == denied[t] >= minted[t].iat + DenyTtl
Dead(t) ==
    IF Strategy = "opaque" THEN ~Present(record[t]) ELSE DeniedForGood(t) \/ Expired(t)

Reachable ==
    /\ \A t \in Tokens : record[t] <= minted[t].iat + AccessTtl
    /\ \A t \in Tokens : minted[t] # Unminted =>
          /\ minted[t].session \in Sessions /\ minted[t].iat <= clock
          /\ ~Dead(t) => t \in index[minted[t].session].members
          /\ ~Dead(t) => index[minted[t].session].until
                            >= minted[t].iat + AccessTtl + IndexSlack
    /\ \A t \in gone : minted[t] # Unminted /\ Dead(t)

Revoking ==
    \A v \in Revokers : revoker[v].pc # "idle" =>
        /\ revoker[v].session \in ended
        /\ revoker[v].reach = {t \in Tokens : minted[t].session = revoker[v].session}
        /\ revoker[v].pc = "revoke" =>
              \A t \in revoker[v].reach : t \in revoker[v].todo \/ Dead(t)

Asking ==
    /\ \A p \in Proofs : proof[p] # Unsigned => proof[p].token \in Tokens
    /\ \A r \in Requests : request[r].pc # "idle" =>
          /\ request[r].token \in Tokens /\ minted[request[r].token] # Unminted
          /\ request[r].late => request[r].token \in gone
          /\ request[r].blind => OnStoreError = "open"
          /\ request[r].pc = "lookup" /\ Strategy = "paseto" =>
                /\ clock <= request[r].at + Stall
                /\ request[r].at <= minted[request[r].token].iat + AccessTtl + Tolerance
                /\ request[r].late => DeniedForGood(request[r].token)

IInv == TypeOK /\ ProofUsedOnce /\ Claimable /\ Reachable /\ Revoking /\ Asking
          /\ RevokedIsRefused
=============================================================================
