----------------------- MODULE ProtectedRequestProofs -----------------------
(***************************************************************************)
(* Proofs about ProtectedRequest: a proof is used once, and a revoked      *)
(* token is refused for as long as it could be taken for live.             *)
(***************************************************************************)
EXTENDS ProtectedRequest, TLAPS

USE DEF Unminted, Unsigned, NoRequest, NoRevocation

\* What a call holds while it is under way; the part of the invariants that
\* typing needs.
Held ==
    /\ \A v \in Revokers : revoker[v].pc # "idle" => revoker[v].session \in Sessions
    /\ \A r \in Requests : request[r].pc = "claim" => request[r].proof \in Proofs

Typed == TypeOK /\ Held

-----------------------------------------------------------------------------
(***************************************************************************)
(* Types.                                                                  *)
(***************************************************************************)

\* The module's constants are numbers where the code's are.
LEMMA Numbers ==
    /\ AccessTtl \in Nat /\ Tolerance \in Nat /\ MaxAge \in Nat
    /\ IndexSlack \in Nat /\ Second \in Nat /\ Stall \in Nat /\ Stall < Second
    /\ DenyTtl \in Nat /\ Retention \in Nat
    /\ NoToken \notin Tokens /\ NoSession \notin Sessions /\ NoProof \notin Proofs
    /\ Tolerance <= AccessTtl
BY ConstantsAssumption DEF ConstantsAssumption, DenyTtl, Retention

LEMMA InitTyped == Init => Typed
BY Numbers DEF Init, Typed, Held, TypeOK, RequestRecords, RevocationRecords,
               MintRecords, IndexRecords, ProofRecords

LEMMA TokenTypes ==
    ASSUME Typed,
           \/ \E t \in Tokens, s \in Sessions : Issue(t, s)
           \/ \E t \in Tokens : RevokeToken(t)
    PROVE  Typed'
<1> USE Numbers DEF Typed
<1>1. ASSUME NEW t \in Tokens, NEW s \in Sessions, Issue(t, s) PROVE Typed'
  <2>1. [session |-> s, iat |-> clock] \in MintRecords
    BY DEF TypeOK, MintRecords
  <2>2. [members |-> Members(s) \cup {t}, until |-> clock + AccessTtl + IndexSlack]
          \in IndexRecords
    BY DEF TypeOK, IndexRecords, Members
  <2>3. minted' \in [Tokens -> MintRecords]
    BY <1>1, <2>1 DEF Issue, TypeOK
  <2>4. index' \in [Sessions -> IndexRecords]
    BY <1>1, <2>2 DEF Issue, TypeOK
  <2>5. record' \in [Tokens -> Nat]
    BY <1>1 DEF Issue, TypeOK
  <2>6. Held'
    BY <1>1 DEF Issue, Held
  <2> QED BY <1>1, <2>3, <2>4, <2>5, <2>6 DEF Issue, TypeOK, proofs
<1>2. ASSUME NEW t \in Tokens, RevokeToken(t) PROVE Typed'
  <2>1. Unlist(t) \in [Sessions -> IndexRecords]
    BY DEF Unlist, TypeOK, IndexRecords
  <2>2. record' \in [Tokens -> Nat] /\ denied' \in [Tokens -> Nat]
    BY <1>2 DEF RevokeToken, Kill, TypeOK
  <2>3. index' \in [Sessions -> IndexRecords]
    BY <1>2, <2>1 DEF RevokeToken, Kill, TypeOK
  <2>4. Held'
    BY <1>2 DEF RevokeToken, Held
  <2> QED BY <1>2, <2>2, <2>3, <2>4 DEF RevokeToken, TypeOK, proofs
<1> QED BY <1>1, <1>2

LEMMA RevokerTypes ==
    ASSUME Typed, NEW v \in Revokers,
           \/ \E s \in Sessions : CallRevokeSession(v, s)
           \/ ReadMembers(v) \/ RevokeMembers(v) \/ DropIndex(v) \/ RevocationFails(v)
    PROVE  Typed'
<1> USE Numbers DEF Typed
<1>0. revoker[v] \in RevocationRecords
  BY DEF TypeOK
<1>1. ASSUME NEW s \in Sessions, CallRevokeSession(v, s) PROVE Typed'
  <2>1. [pc |-> "members", session |-> s, todo |-> {},
         reach |-> {t \in Tokens : minted[t].session = s}] \in RevocationRecords
    BY DEF RevocationRecords
  <2>2. revoker' \in [Revokers -> RevocationRecords]
    BY <1>1, <2>1 DEF CallRevokeSession, TypeOK
  <2>3. Held'
    BY <1>1 DEF CallRevokeSession, Held, TypeOK
  <2> QED BY <1>1, <2>2, <2>3 DEF CallRevokeSession, TypeOK, proofs
<1>2. CASE ReadMembers(v)
  <2>1. Members(revoker[v].session) \subseteq Tokens
    BY <1>2 DEF ReadMembers, Members, TypeOK, IndexRecords, Held
  <2>2. [revoker[v] EXCEPT !.pc = "revoke", !.todo = Members(revoker[v].session)]
          \in RevocationRecords
    BY <1>0, <2>1 DEF RevocationRecords
  <2>3. revoker' \in [Revokers -> RevocationRecords]
    BY <1>2, <2>2 DEF ReadMembers, TypeOK
  <2>4. Held'
    BY <1>2, <1>0 DEF ReadMembers, Held, TypeOK, RevocationRecords
  <2> QED BY <1>2, <2>3, <2>4 DEF ReadMembers, TypeOK, proofs, tokens
<1>3. CASE RevokeMembers(v)
  <2>1. PICK some \in SUBSET revoker[v].todo :
          /\ revoker' = [revoker EXCEPT ![v] =
                            [@ EXCEPT !.todo = revoker[v].todo \ some]]
          /\ IF Strategy = "opaque"
               THEN /\ some = revoker[v].todo
                    /\ record' = [t \in Tokens |-> IF t \in some THEN 0 ELSE record[t]]
                    /\ UNCHANGED denied
               ELSE /\ \E t \in revoker[v].todo : some = {t}
                    /\ denied' = [t \in Tokens |->
                                    IF t \in some THEN clock + DenyTtl ELSE denied[t]]
                    /\ UNCHANGED record
    BY <1>3, Zenon DEF RevokeMembers
  <2>2. record' \in [Tokens -> Nat] /\ denied' \in [Tokens -> Nat]
    BY <2>1 DEF TypeOK
  <2>3. [revoker[v] EXCEPT !.todo = revoker[v].todo \ some] \in RevocationRecords
    BY <1>0 DEF RevocationRecords
  <2>4. revoker' \in [Revokers -> RevocationRecords]
    BY <2>1, <2>3 DEF TypeOK
  <2>5. Held'
    BY <1>3, <2>1, <1>0 DEF RevokeMembers, Held, TypeOK, RevocationRecords
  <2> QED BY <1>3, <2>2, <2>4, <2>5 DEF RevokeMembers, TypeOK, proofs
<1>4. CASE DropIndex(v)
  <2>1. [members |-> {}, until |-> 0] \in IndexRecords
    BY DEF IndexRecords
  <2>2. index' \in [Sessions -> IndexRecords]
    BY <1>4, <2>1 DEF DropIndex, TypeOK
  <2>3. gone' \subseteq Tokens
    BY <1>4, <1>0 DEF DropIndex, TypeOK, RevocationRecords
  <2>4. NoRevocation \in RevocationRecords
    BY DEF RevocationRecords
  <2>5. revoker' \in [Revokers -> RevocationRecords]
    BY <1>4, <2>4 DEF DropIndex, TypeOK
  <2>6. Held'
    BY <1>4 DEF DropIndex, Held, TypeOK
  <2> QED BY <1>4, <2>2, <2>3, <2>5, <2>6 DEF DropIndex, TypeOK, proofs
<1>5. CASE RevocationFails(v)
  <2>1. NoRevocation \in RevocationRecords
    BY DEF RevocationRecords
  <2>2. revoker' \in [Revokers -> RevocationRecords]
    BY <1>5, <2>1 DEF RevocationFails, TypeOK
  <2>3. Held'
    BY <1>5 DEF RevocationFails, Held, TypeOK
  <2> QED BY <1>5, <2>2, <2>3 DEF RevocationFails, Fail, TypeOK, proofs, tokens
<1> QED BY <1>1, <1>2, <1>3, <1>4, <1>5

\* A request that is put in place keeps the type.
LEMMA PutTyped ==
    ASSUME Typed, NEW r \in Requests, NEW rec \in RequestRecords, Put(r, rec),
           rec.pc = "claim" => rec.proof \in Proofs, UNCHANGED revoker
    PROVE  Held' /\ request' \in [Requests -> RequestRecords]
BY DEF Put, Typed, TypeOK, Held

LEMMA RefuseTyped ==
    ASSUME Typed, NEW r \in Requests, Refuse(r), UNCHANGED revoker
    PROVE  Held' /\ request' \in [Requests -> RequestRecords]
<1>1. NoRequest \in RequestRecords
  BY DEF RequestRecords
<1> QED BY <1>1, PutTyped DEF Refuse

LEMMA StepTyped ==
    ASSUME Typed, NEW r \in Requests, NEW pc \in {"verify", "lookup", "admitted"},
           \/ Step(r, pc)
           \/ Put(r, [request[r] EXCEPT !.pc = pc, !.at = clock, !.blind = TRUE]),
           UNCHANGED revoker
    PROVE  Held' /\ request' \in [Requests -> RequestRecords]
<1>1. request[r] \in RequestRecords /\ clock \in Nat
  BY DEF Typed, TypeOK
<1>2. /\ [request[r] EXCEPT !.pc = pc, !.at = clock] \in RequestRecords
      /\ [request[r] EXCEPT !.pc = pc, !.at = clock].pc # "claim"
  BY <1>1 DEF RequestRecords
<1>3. /\ [request[r] EXCEPT !.pc = pc, !.at = clock, !.blind = TRUE] \in RequestRecords
      /\ [request[r] EXCEPT !.pc = pc, !.at = clock, !.blind = TRUE].pc # "claim"
  BY <1>1 DEF RequestRecords
<1> QED BY <1>2, <1>3, PutTyped DEF Step

\* A request as it begins.
LEMMA BeginTyped ==
    ASSUME Typed, NEW r \in Requests, NEW t \in Tokens \cup {NoToken},
           NEW p \in Proofs \cup {NoProof}, NEW pc \in {"claim", "verify"},
           pc = "claim" => p \in Proofs, Begin(r, t, p, pc)
    PROVE  Typed'
<1>1. ASSUME NEW b \in BOOLEAN
      PROVE  /\ [NoRequest EXCEPT !.pc = pc, !.token = t, !.proof = p, !.at = clock,
                                  !.late = b] \in RequestRecords
             /\ [NoRequest EXCEPT !.pc = pc, !.token = t, !.proof = p, !.at = clock,
                                  !.late = b].pc = pc
             /\ [NoRequest EXCEPT !.pc = pc, !.token = t, !.proof = p, !.at = clock,
                                  !.late = b].proof = p
  BY DEF RequestRecords, Typed, TypeOK
<1>2. PICK b \in BOOLEAN :
        Put(r, [NoRequest EXCEPT !.pc = pc, !.token = t, !.proof = p, !.at = clock,
                                 !.late = b])
  <2>1. (t \in gone) \in BOOLEAN
    OBVIOUS
  <2>2. Put(r, [NoRequest EXCEPT !.pc = pc, !.token = t, !.proof = p, !.at = clock,
                                 !.late = (t \in gone)])
    BY DEF Begin
  <2> HIDE DEF NoRequest
  <2> WITNESS (t \in gone) \in BOOLEAN
  <2> QED BY <2>2
<1>3. Held' /\ request' \in [Requests -> RequestRecords]
  BY <1>1, <1>2, PutTyped DEF Begin
<1> QED BY <1>3 DEF Begin, Typed, TypeOK, proofs, tokens

LEMMA RequestTypes ==
    ASSUME Typed, NEW r \in Requests,
           \/ \E p \in Proofs : PresentProof(r, p)
           \/ \E t \in Tokens : PresentBearer(r, t)
           \/ Claim(r) \/ ClaimFails(r) \/ CheckTimes(r) \/ Lookup(r)
           \/ LookupFails(r) \/ Respond(r)
    PROVE  Typed'
<1> USE Numbers DEF Typed
<1>0. request[r] \in RequestRecords /\ clock \in Nat
  BY DEF TypeOK
<1>2. ASSUME NEW p \in Proofs, PresentProof(r, p) PROVE Typed'
  <2>1. proof[p].token \in Tokens \cup {NoToken}
    BY DEF TypeOK, ProofRecords
  <2> QED BY <1>2, <2>1, BeginTyped DEF PresentProof
<1>3. ASSUME NEW t \in Tokens, PresentBearer(r, t) PROVE Typed'
  BY <1>3, BeginTyped DEF PresentBearer
<1>4. CASE Claim(r)
  <2>1. request[r].proof \in Proofs
    BY <1>4 DEF Claim, Held
  <2>2. claimed' \in [Proofs -> Nat] /\ spent' \subseteq Proofs /\ replayed' \subseteq Proofs
    BY <1>4, <2>1 DEF Claim, TypeOK
  <2>3. Held' /\ request' \in [Requests -> RequestRecords]
    BY <1>4, RefuseTyped, StepTyped DEF Claim
  <2> QED BY <1>4, <2>2, <2>3 DEF Claim, TypeOK, tokens
<1>5. CASE ClaimFails(r)
  <2>1. Held' /\ request' \in [Requests -> RequestRecords]
    BY <1>5, RefuseTyped, StepTyped DEF ClaimFails
  <2> QED BY <1>5, <2>1 DEF ClaimFails, Fail, TypeOK, tokens, proofs
<1>6. CASE CheckTimes(r)
  <2>1. Held' /\ request' \in [Requests -> RequestRecords]
    BY <1>6, RefuseTyped, StepTyped DEF CheckTimes
  <2> QED BY <1>6, <2>1 DEF CheckTimes, TypeOK, tokens, proofs
<1>7. CASE Lookup(r)
  <2>1. Held' /\ request' \in [Requests -> RequestRecords]
    BY <1>7, RefuseTyped, StepTyped DEF Lookup
  <2> QED BY <1>7, <2>1 DEF Lookup, TypeOK, tokens, proofs
<1>8. CASE LookupFails(r)
  <2>1. Held' /\ request' \in [Requests -> RequestRecords]
    BY <1>8, RefuseTyped, StepTyped DEF LookupFails
  <2> QED BY <1>8, <2>1 DEF LookupFails, Fail, TypeOK, tokens, proofs
<1>9. CASE Respond(r)
  <2>1. Held' /\ request' \in [Requests -> RequestRecords]
    BY <1>9, RefuseTyped DEF Respond
  <2> QED BY <1>9, <2>1 DEF Respond, TypeOK, tokens, proofs
<1> QED BY <1>2, <1>3, <1>4, <1>5, <1>6, <1>7, <1>8, <1>9

LEMMA SignTypes ==
    ASSUME Typed, NEW p \in Proofs, NEW t \in Tokens, NEW iat \in 0 .. MaxClock,
           Sign(p, t, iat)
    PROVE  Typed'
<1>1. MaxClock \in Nat
  BY ConstantsAssumption DEF ConstantsAssumption
<1>2. [token |-> t, iat |-> iat] \in ProofRecords
  BY <1>1 DEF ProofRecords
<1>3. proof' \in [Proofs -> ProofRecords]
  BY <1>2 DEF Sign, Typed, TypeOK
<1> QED BY <1>3 DEF Sign, Typed, TypeOK, Held, tokens

LEMMA TickTypes ==
    ASSUME Typed, Tick
    PROVE  Typed'
BY DEF Tick, Typed, TypeOK, Held, tokens, proofs

LEMMA StutterTypes ==
    ASSUME Typed, UNCHANGED vars
    PROVE  Typed'
BY DEF vars, Typed, TypeOK, Held, tokens, proofs

LEMMA NextTyped == Typed /\ [Next]_vars => Typed'
BY TokenTypes, RevokerTypes, RequestTypes, SignTypes, TickTypes, StutterTypes DEF Next

\* Every variable keeps its type: what a request and a revocation hold between
\* two awaits are tokens, sessions and proofs of theirs.
THEOREM TypeCorrect == Spec => []TypeOK
<1>1. Typed => TypeOK
  BY DEF Typed
<1> QED BY InitTyped, NextTyped, <1>1, PTL DEF Spec

-----------------------------------------------------------------------------
(***************************************************************************)
(* A proof is used once.  A claim is there until no request could present  *)
(* the proof any more: it outlives the window by a second, and what was    *)
(* checked against the clock reaches the store in less than that.          *)
(***************************************************************************)
Unclaimed == Typed /\ ProofUsedOnce /\ Claimable

LEMMA InitUnclaimed == Init => Unclaimed
<1>1. Init => ProofUsedOnce /\ Claimable
  BY DEF Init, ProofUsedOnce, Claimable
<1> QED BY <1>1, InitTyped DEF Unclaimed

\* Steps that leave the clock, the proofs and the requests alone.
LEMMA ElsewhereUnclaimed ==
    ASSUME ProofUsedOnce, Claimable, UNCHANGED <<clock, proofs, request>>
    PROVE  ProofUsedOnce' /\ Claimable'
BY DEF ProofUsedOnce, Claimable, proofs

\* Steps of a request other than its claim.
LEMMA OtherStepsUnclaimed ==
    ASSUME Unclaimed, NEW r \in Requests, NEW rec, Put(r, rec),
           rec.pc # "claim", UNCHANGED <<clock, proofs>>
    PROVE  ProofUsedOnce' /\ Claimable'
BY DEF Unclaimed, Typed, TypeOK, ProofUsedOnce, Claimable, Put, proofs

LEMMA SignUnclaimed ==
    ASSUME Unclaimed, NEW p \in Proofs, NEW t \in Tokens, NEW iat \in 0 .. MaxClock,
           Sign(p, t, iat)
    PROVE  ProofUsedOnce' /\ Claimable'
<1>1. \A q \in Proofs : proof[q] # Unsigned => proof'[q] = proof[q] /\ proof'[q] # Unsigned
  BY DEF Sign, Unclaimed, Typed, TypeOK
<1>2. UNCHANGED <<clock, claimed, spent, replayed, request>>
  BY DEF Sign
<1> QED BY <1>1, <1>2 DEF Unclaimed, Typed, TypeOK, ProofUsedOnce, Claimable

LEMMA PresentUnclaimed ==
    ASSUME Unclaimed, NEW r \in Requests, NEW p \in Proofs, PresentProof(r, p)
    PROVE  ProofUsedOnce' /\ Claimable'
<1> DEFINE rec == [NoRequest EXCEPT !.pc = "claim", !.token = proof[p].token,
                     !.proof = p, !.at = clock, !.late = (proof[p].token \in gone)]
<1>1. /\ Put(r, rec) /\ proof[p] # Unsigned /\ UNCHANGED <<clock, proofs>>
      /\ proof[p].iat <= clock + Tolerance
      /\ clock <= proof[p].iat + MaxAge + Tolerance
  BY DEF PresentProof, Begin, Acceptable
<1>2. rec.pc = "claim" /\ rec.proof = p /\ rec.at = clock
  OBVIOUS
<1>3. clock \in Nat /\ clock <= clock + Stall
  BY Numbers DEF Unclaimed, Typed, TypeOK
<1> HIDE DEF rec
<1>4. \A q \in Requests : request'[q] = IF q = r THEN rec ELSE request[q]
  BY <1>1 DEF Put, Unclaimed, Typed, TypeOK
<1> QED BY <1>1, <1>2, <1>3, <1>4 DEF Unclaimed, ProofUsedOnce, Claimable, proofs

LEMMA ClaimUnclaimed ==
    ASSUME Unclaimed, NEW r \in Requests, Claim(r)
    PROVE  ProofUsedOnce' /\ Claimable'
<1> USE Numbers
<1>1. PICK p \in Proofs : p = request[r].proof
  BY DEF Claim, Unclaimed, Typed, Held
<1>2. /\ proof[p] # Unsigned /\ clock <= request[r].at + Stall
      /\ request[r].at <= clock
      /\ proof[p].iat <= request[r].at + Tolerance
      /\ request[r].at <= proof[p].iat + MaxAge + Tolerance
  BY <1>1 DEF Claim, Unclaimed, Claimable
<1>3. /\ clock \in Nat /\ request[r].at \in Nat /\ proof[p].iat \in Nat
      /\ claimed[p] \in Nat
  BY DEF Unclaimed, Typed, TypeOK, RequestRecords, ProofRecords
<1>4. CASE Present(claimed[p])
  <2>1. Put(r, NoRequest) /\ UNCHANGED <<clock, proofs>>
    BY <1>1, <1>4 DEF Claim, Refuse, proofs
  <2> QED BY <2>1, OtherStepsUnclaimed
<1>5. CASE ~Present(claimed[p])
  <2>1. /\ claimed' = [claimed EXCEPT ![p] = clock + Retention]
        /\ spent' = spent \cup {p}
        /\ replayed' = IF p \in spent THEN replayed \cup {p} ELSE replayed
        /\ Step(r, "verify")
        /\ UNCHANGED <<clock, proof>>
    BY <1>1, <1>5 DEF Claim
  <2>2. p \notin spent
    <3>1. p \in spent => claimed[p] + Tolerance >= proof[p].iat + Retention
      BY DEF Unclaimed, Claimable
    <3>2. clock < proof[p].iat + MaxAge + Tolerance + Second
      BY <1>2, <1>3
    <3>3. p \in spent => clock < claimed[p]
      BY <3>1, <3>2, <1>3 DEF Retention
    <3> QED BY <3>3, <1>5 DEF Present
  <2>3. clock + Retention + Tolerance >= proof[p].iat + Retention
    BY <1>2, <1>3
  <2>4. \A q \in Requests : request'[q].pc = "claim" =>
          q # r /\ request'[q] = request[q]
    BY <2>1 DEF Step, Put, Unclaimed, Typed, TypeOK, RequestRecords
  <2>5. \A q \in spent' : q = p \/ (q \in spent /\ claimed'[q] = claimed[q])
    BY <2>1 DEF Unclaimed, Typed, TypeOK
  <2>6. p \in spent' /\ claimed'[p] = clock + Retention
    BY <2>1 DEF Unclaimed, Typed, TypeOK
  <2>7. ProofUsedOnce'
    BY <2>1, <2>2 DEF Unclaimed, ProofUsedOnce
  <2>8. \A q \in spent' : claimed'[q] + Tolerance >= proof'[q].iat + Retention
    BY <2>1, <2>3, <2>5, <2>6 DEF Unclaimed, Claimable
  <2>9. \A q \in spent' : proof'[q] # Unsigned
    BY <2>1, <2>5, <1>2 DEF Unclaimed, Claimable
  <2> QED BY <2>1, <2>4, <2>7, <2>8, <2>9 DEF Unclaimed, Claimable
<1> QED BY <1>4, <1>5

LEMMA TickUnclaimed ==
    ASSUME Unclaimed, Tick
    PROVE  ProofUsedOnce' /\ Claimable'
<1> USE Numbers
<1>1. /\ clock' = clock + 1 /\ UNCHANGED <<proofs, request>> /\ clock \in Nat
      /\ \A r \in Requests : request[r].pc = "claim" => clock < request[r].at + Stall
  BY DEF Tick, Unclaimed, Typed, TypeOK
<1>2. \A r \in Requests : request[r].at \in Nat
  BY DEF Unclaimed, Typed, TypeOK, RequestRecords
<1>3. \A r \in Requests : request[r].pc = "claim" =>
        clock + 1 <= request[r].at + Stall /\ request[r].at <= clock + 1
  BY <1>1, <1>2 DEF Unclaimed, Claimable
<1> QED BY <1>1, <1>3 DEF Unclaimed, ProofUsedOnce, Claimable, proofs

LEMMA RequestUnclaimed ==
    ASSUME Unclaimed, NEW r \in Requests,
           \/ \E t \in Tokens : PresentBearer(r, t)
           \/ ClaimFails(r) \/ CheckTimes(r) \/ Lookup(r)
           \/ LookupFails(r) \/ Respond(r)
    PROVE  ProofUsedOnce' /\ Claimable'
<1>0. request[r] \in RequestRecords
  BY DEF Unclaimed, Typed, TypeOK
<1>1. UNCHANGED <<clock, proofs>>
  BY DEF PresentBearer, Begin, ClaimFails, CheckTimes, Lookup, LookupFails, Respond
<1>2. PICK rec : Put(r, rec) /\ rec.pc # "claim"
  <2>1. NoRequest.pc # "claim"
    OBVIOUS
  <2>2. \A pc \in {"verify", "lookup", "admitted"} :
          /\ [request[r] EXCEPT !.pc = pc, !.at = clock].pc # "claim"
          /\ [request[r] EXCEPT !.pc = pc, !.at = clock, !.blind = TRUE].pc # "claim"
    BY <1>0 DEF RequestRecords
  <2>3. \A t \in Tokens :
          [NoRequest EXCEPT !.pc = "verify", !.token = t, !.proof = NoProof,
                            !.at = clock, !.late = (t \in gone)].pc # "claim"
    OBVIOUS
  <2>4. ASSUME NEW t \in Tokens, PresentBearer(r, t)
        PROVE  \E rec : Put(r, rec) /\ rec.pc # "claim"
    BY <2>3, <2>4 DEF PresentBearer, Begin
  <2>5. CASE ClaimFails(r)
    BY <2>1, <2>2, <2>5 DEF ClaimFails, Refuse
  <2>6. CASE CheckTimes(r) \/ Lookup(r)
    BY <2>1, <2>2, <2>6 DEF CheckTimes, Lookup, Refuse, Step
  <2>7. CASE LookupFails(r)
    BY <2>1, <2>2, <2>7 DEF LookupFails, Refuse
  <2>8. CASE Respond(r)
    BY <2>1, <2>8 DEF Respond, Refuse
  <2> QED BY <2>4, <2>5, <2>6, <2>7, <2>8
<1> QED BY <1>1, <1>2, OtherStepsUnclaimed

LEMMA NextUnclaimed == Unclaimed /\ [Next]_vars => Unclaimed'
<1> SUFFICES ASSUME Unclaimed, [Next]_vars PROVE ProofUsedOnce' /\ Claimable'
  BY NextTyped DEF Unclaimed
<1>0. ProofUsedOnce /\ Claimable
  BY DEF Unclaimed
<1>1. ASSUME NEW t \in Tokens, RevokeToken(t) \/ \E s \in Sessions : Issue(t, s)
      PROVE  ProofUsedOnce' /\ Claimable'
  <2>1. UNCHANGED <<clock, proofs, request>>
    BY <1>1 DEF RevokeToken, Issue
  <2> QED BY <1>0, <2>1, ElsewhereUnclaimed
<1>2. ASSUME NEW v \in Revokers,
             \/ \E s \in Sessions : CallRevokeSession(v, s)
             \/ ReadMembers(v) \/ RevokeMembers(v) \/ DropIndex(v) \/ RevocationFails(v)
      PROVE  ProofUsedOnce' /\ Claimable'
  <2>1. UNCHANGED <<clock, proofs, request>>
    BY <1>2 DEF CallRevokeSession, ReadMembers, RevokeMembers, DropIndex, RevocationFails
  <2> QED BY <1>0, <2>1, ElsewhereUnclaimed
<1>3. CASE UNCHANGED vars
  BY <1>0, <1>3, ElsewhereUnclaimed DEF vars
<1> QED BY <1>1, <1>2, <1>3, SignUnclaimed, PresentUnclaimed, RequestUnclaimed,
           ClaimUnclaimed, TickUnclaimed DEF Next

\* "a proof works exactly once": however requests race, and wherever in its
\* window a proof is presented, its claim succeeds at most once.
THEOREM ProofsWorkOnce == Spec => []ProofUsedOnce
<1>1. Unclaimed => ProofUsedOnce
  BY DEF Unclaimed
<1> QED BY InitUnclaimed, NextUnclaimed, <1>1, PTL DEF Spec

-----------------------------------------------------------------------------
(***************************************************************************)
(* A revoked token is refused.  A token that could still be taken for live *)
(* is listed by its session's index, so a revocation reaches it; and once  *)
(* dead it stays dead.                                                     *)
(***************************************************************************)
Alive == Typed /\ Reachable

\* What later steps rely on: time and the sets of what has ended only grow, a
\* token that is minted stays, and one that is dead stays dead.
Onward ==
    /\ clock' \in Nat /\ clock' >= clock
    /\ gone \subseteq gone' /\ ended \subseteq ended'
    /\ \A t \in Tokens : minted[t] # Unminted =>
          /\ minted'[t] = minted[t]
          /\ DeniedForGood(t) => DeniedForGood(t)'
          /\ Dead(t) => Dead(t)'

\* Time passes and tokens are as they were.
LEMMA TimeOnward ==
    ASSUME Typed, clock' \in Nat, clock' >= clock,
           UNCHANGED <<minted, record, denied>>,
           gone \subseteq gone', ended \subseteq ended'
    PROVE  Onward
<1> USE Numbers
<1>1. ASSUME NEW t \in Tokens
      PROVE  Dead(t) => Dead(t)'
  <2>1. clock \in Nat /\ record[t] \in Nat /\ minted[t].iat \in Nat
    BY DEF Typed, TypeOK, MintRecords
  <2>2. Present(record[t])' => Present(record[t])
    BY <2>1 DEF Present
  <2>3. Expired(t) => Expired(t)'
    BY <2>1 DEF Expired
  <2> QED BY <2>2, <2>3 DEF Dead, DeniedForGood
<1> QED BY <1>1 DEF Onward, DeniedForGood

\* Records are deleted and tokens denied, at a time after they were minted.
LEMMA KillOnward ==
    ASSUME Alive, UNCHANGED <<clock, minted>>,
           gone \subseteq gone', ended \subseteq ended',
           \A t \in Tokens : minted[t] # Unminted => record'[t] \in {0, record[t]},
           \A t \in Tokens : minted[t] # Unminted =>
                                denied'[t] \in {clock + DenyTtl, denied[t]}
    PROVE  Onward
<1> USE Numbers
<1>1. ASSUME NEW t \in Tokens, minted[t] # Unminted
      PROVE  (DeniedForGood(t) => DeniedForGood(t)') /\ (Dead(t) => Dead(t)')
  <2>1. clock \in Nat /\ record[t] \in Nat /\ denied[t] \in Nat /\ minted[t].iat \in Nat
    BY DEF Alive, Typed, TypeOK, MintRecords
  <2>2. minted[t].iat <= clock
    BY <1>1 DEF Alive, Reachable
  <2>3. DeniedForGood(t) => DeniedForGood(t)'
    BY <1>1, <2>1, <2>2 DEF DeniedForGood
  <2>4. Present(record[t])' => Present(record[t])
    BY <1>1, <2>1 DEF Present
  <2>5. Expired(t) => Expired(t)'
    BY DEF Expired
  <2> QED BY <2>3, <2>4, <2>5 DEF Dead
<1>2. clock \in Nat
  BY DEF Alive, Typed, TypeOK
<1> QED BY <1>1, <1>2 DEF Onward

\* What Kill() and RevokeMembers() leave of the tokens they revoke.
Killed(S) ==
    \A t \in S : IF Strategy = "opaque" THEN record'[t] = 0
                                        ELSE denied'[t] = clock + DenyTtl

LEMMA KilledDead ==
    ASSUME Alive, NEW S \in SUBSET Tokens, Killed(S), UNCHANGED <<clock, minted>>,
           NEW t \in S, minted[t] # Unminted
    PROVE  Dead(t)' /\ (Strategy = "paseto" => DeniedForGood(t)')
<1> USE Numbers
<1>1. clock \in Nat /\ minted[t].iat \in Nat /\ minted[t].iat <= clock
  BY DEF Alive, Typed, TypeOK, MintRecords, Reachable
<1>2. CASE Strategy = "opaque"
  <2>1. record'[t] = 0
    BY <1>2 DEF Killed
  <2> QED BY <1>1, <1>2, <2>1 DEF Dead, Present
<1>3. CASE Strategy = "paseto"
  <2>1. denied'[t] = clock + DenyTtl
    BY <1>3 DEF Killed
  <2>2. DeniedForGood(t)'
    BY <1>1, <2>1 DEF DeniedForGood
  <2> QED BY <1>3, <2>2 DEF Dead
<1> QED BY <1>2, <1>3, ConstantsAssumption DEF ConstantsAssumption

LEMMA RevokeTokenKills ==
    ASSUME Alive, NEW t \in Tokens, RevokeToken(t)
    PROVE  /\ Killed({t}) /\ Onward /\ UNCHANGED <<clock, minted>>
           /\ \A u \in Tokens : record'[u] \in {0, record[u]}
           /\ \A s \in Sessions : /\ index'[s].until = index[s].until
                                  /\ index[s].members \ {t} \subseteq index'[s].members
<1> USE Numbers
<1>1. /\ minted[t] # Unminted /\ Kill(t) /\ gone' = gone \cup {t}
      /\ UNCHANGED <<clock, minted, ended>>
  BY DEF RevokeToken
<1>2. /\ \A u \in Tokens : record'[u] \in {0, record[u]}
      /\ \A u \in Tokens : denied'[u] \in {clock + DenyTtl, denied[u]}
      /\ Killed({t})
  BY <1>1, ConstantsAssumption DEF Kill, Killed, Alive, Typed, TypeOK, ConstantsAssumption
<1>3. Onward
  BY <1>1, <1>2, KillOnward
<1>4. \A s \in Sessions : /\ index'[s].until = index[s].until
                          /\ index[s].members \ {t} \subseteq index'[s].members
  BY <1>1 DEF Kill, Unlist, Alive, Typed, TypeOK, IndexRecords
<1> QED BY <1>1, <1>2, <1>3, <1>4

LEMMA RevokeMembersKills ==
    ASSUME Alive, NEW v \in Revokers, RevokeMembers(v)
    PROVE  /\ Onward /\ UNCHANGED <<clock, minted, index, gone, ended>>
           /\ \A u \in Tokens : record'[u] \in {0, record[u]}
           /\ \E some \in SUBSET revoker[v].todo :
                 /\ Killed(some)
                 /\ revoker' = [revoker EXCEPT ![v] =
                                  [@ EXCEPT !.todo = revoker[v].todo \ some]]
<1> USE Numbers
<1>0. revoker[v].todo \subseteq Tokens
  BY DEF Alive, Typed, TypeOK, RevocationRecords
<1>1. PICK some \in SUBSET revoker[v].todo :
        /\ revoker' = [revoker EXCEPT ![v] =
                          [@ EXCEPT !.todo = revoker[v].todo \ some]]
        /\ IF Strategy = "opaque"
             THEN /\ some = revoker[v].todo
                  /\ record' = [t \in Tokens |-> IF t \in some THEN 0 ELSE record[t]]
                  /\ UNCHANGED denied
             ELSE /\ \E t \in revoker[v].todo : some = {t}
                  /\ denied' = [t \in Tokens |->
                                  IF t \in some THEN clock + DenyTtl ELSE denied[t]]
                  /\ UNCHANGED record
  BY Zenon DEF RevokeMembers
<1>2. UNCHANGED <<clock, minted, index, gone, ended>>
  BY DEF RevokeMembers
<1>3. /\ \A u \in Tokens : record'[u] \in {0, record[u]}
      /\ \A u \in Tokens : denied'[u] \in {clock + DenyTtl, denied[u]}
  BY <1>1
<1>4. Killed(some)
  BY <1>0, <1>1, ConstantsAssumption DEF Killed, ConstantsAssumption
<1>5. Onward
  BY <1>2, <1>3, KillOnward
<1> QED BY <1>1, <1>2, <1>3, <1>4, <1>5

LEMMA IssueOnward ==
    ASSUME Alive, NEW t \in Tokens, NEW s \in Sessions, Issue(t, s)
    PROVE  Onward
<1>1. /\ minted[t] = Unminted /\ UNCHANGED <<clock, denied, gone, ended>>
      /\ \A u \in Tokens : u # t => minted'[u] = minted[u] /\ record'[u] = record[u]
  BY DEF Issue, Alive, Typed, TypeOK
<1>2. ASSUME NEW u \in Tokens, minted[u] # Unminted
      PROVE  /\ minted'[u] = minted[u]
             /\ DeniedForGood(u) => DeniedForGood(u)'
             /\ Dead(u) => Dead(u)'
  BY <1>1, <1>2 DEF DeniedForGood, Dead, Present, Expired
<1>3. clock \in Nat
  BY DEF Alive, Typed, TypeOK
<1> QED BY <1>1, <1>2, <1>3 DEF Onward

LEMMA NextOnward == Alive /\ [Next]_vars => Onward
<1> SUFFICES ASSUME Alive, [Next]_vars PROVE Onward
  OBVIOUS
<1>0. clock \in Nat
  BY DEF Alive, Typed, TypeOK
<1>1. CASE /\ UNCHANGED <<clock, minted, record, denied>>
           /\ gone \subseteq gone' /\ ended \subseteq ended'
  BY <1>0, <1>1, TimeOnward DEF Alive
<1>2. ASSUME NEW r \in Requests,
             \/ \E p \in Proofs : PresentProof(r, p)
             \/ \E t \in Tokens : PresentBearer(r, t)
             \/ Claim(r) \/ ClaimFails(r) \/ CheckTimes(r) \/ Lookup(r)
             \/ LookupFails(r) \/ Respond(r)
      PROVE  Onward
  BY <1>1, <1>2 DEF PresentProof, PresentBearer, Begin, Claim, ClaimFails, CheckTimes,
                    Lookup, LookupFails, Respond, tokens
<1>3. ASSUME NEW p \in Proofs, NEW t \in Tokens, NEW iat \in 0 .. MaxClock,
             Sign(p, t, iat)
      PROVE  Onward
  BY <1>1, <1>3 DEF Sign, tokens
<1>4. ASSUME NEW v \in Revokers,
             \/ \E s \in Sessions : CallRevokeSession(v, s)
             \/ ReadMembers(v) \/ DropIndex(v) \/ RevocationFails(v)
      PROVE  Onward
  BY <1>1, <1>4 DEF CallRevokeSession, ReadMembers, DropIndex, RevocationFails, tokens
<1>5. CASE Tick
  BY <1>0, <1>5, TimeOnward DEF Tick, tokens, Alive
<1>6. CASE UNCHANGED vars
  BY <1>1, <1>6 DEF vars, tokens
<1> QED BY <1>2, <1>3, <1>4, <1>5, <1>6, IssueOnward, RevokeTokenKills,
           RevokeMembersKills DEF Next

\* A token that is not dead is read with the members of its session: its index
\* entry outlives every answer that the token is live.
LEMMA AliveIsMember ==
    ASSUME Alive, Tolerance < IndexSlack,
           NEW t \in Tokens, minted[t] # Unminted, ~Dead(t)
    PROVE  t \in Members(minted[t].session)
<1> USE Numbers
<1> DEFINE s == minted[t].session
<1>1. /\ s \in Sessions /\ t \in index[s].members
      /\ index[s].until >= minted[t].iat + AccessTtl + IndexSlack
      /\ record[t] <= minted[t].iat + AccessTtl
  BY DEF Alive, Reachable
<1>2. /\ clock \in Nat /\ record[t] \in Nat /\ minted[t].iat \in Nat
      /\ index[s].until \in Nat
  BY <1>1 DEF Alive, Typed, TypeOK, MintRecords, IndexRecords
<1>3. clock <= minted[t].iat + AccessTtl + Tolerance
  <2>1. CASE Strategy = "opaque"
    BY <1>1, <1>2, <2>1 DEF Dead, Present
  <2>2. CASE Strategy # "opaque"
    BY <1>2, <2>2 DEF Dead, Expired
  <2> QED BY <2>1, <2>2
<1>4. Present(index[s].until)
  BY <1>1, <1>2, <1>3 DEF Present
<1> QED BY <1>1, <1>4 DEF Members

\* Steps that mint nothing.
LEMMA ReachableKept ==
    ASSUME Alive, Onward, UNCHANGED minted,
           \A t \in Tokens : record'[t] \in {0, record[t]},
           \A t \in Tokens : minted[t] # Unminted /\ ~Dead(t)' =>
              /\ t \in index'[minted[t].session].members
              /\ index'[minted[t].session].until >= minted[t].iat + AccessTtl + IndexSlack,
           \A t \in gone' : t \in gone \/ (minted[t] # Unminted /\ Dead(t)')
    PROVE  Reachable'
<1> USE Numbers
<1>1. \A t \in Tokens : record'[t] <= minted[t].iat + AccessTtl
  BY DEF Alive, Reachable, Typed, TypeOK, MintRecords
<1>2. ASSUME NEW t \in Tokens, minted[t] # Unminted
      PROVE  minted[t].session \in Sessions /\ minted[t].iat <= clock'
  <2>1. minted[t].session \in Sessions /\ minted[t].iat <= clock
    BY <1>2 DEF Alive, Reachable
  <2> QED BY <2>1 DEF Onward, Alive, Typed, TypeOK, MintRecords
<1>3. \A t \in gone' : minted[t] # Unminted /\ Dead(t)'
  BY DEF Alive, Reachable, Onward, Typed, TypeOK
<1> QED BY <1>1, <1>2, <1>3 DEF Reachable

LEMMA StillReachable ==
    ASSUME Alive, Onward, UNCHANGED <<minted, index, gone>>,
           \A t \in Tokens : record'[t] \in {0, record[t]}
    PROVE  Reachable'
<1>1. \A t \in Tokens : minted[t] # Unminted /\ ~Dead(t)' =>
        /\ t \in index'[minted[t].session].members
        /\ index'[minted[t].session].until >= minted[t].iat + AccessTtl + IndexSlack
  BY DEF Onward, Alive, Reachable
<1> QED BY <1>1, ReachableKept

LEMMA IssueReachable ==
    ASSUME Alive, Tolerance < IndexSlack, Onward,
           NEW t \in Tokens, NEW s \in Sessions, Issue(t, s)
    PROVE  Reachable'
<1> USE Numbers
<1>1. /\ minted[t] = Unminted /\ UNCHANGED <<clock, denied, gone>>
      /\ minted' = [minted EXCEPT ![t] = [session |-> s, iat |-> clock]]
      /\ record' = IF Strategy = "opaque"
                     THEN [record EXCEPT ![t] = clock + AccessTtl]
                     ELSE record
      /\ index' = [index EXCEPT ![s] =
                     [members |-> Members(s) \cup {t},
                      until   |-> clock + AccessTtl + IndexSlack]]
  BY DEF Issue
<1>2. /\ clock \in Nat /\ \A u \in Tokens : record[u] \in Nat /\ minted[u].iat \in Nat
      /\ minted \in [Tokens -> MintRecords] /\ record \in [Tokens -> Nat]
      /\ index \in [Sessions -> IndexRecords] /\ gone \subseteq Tokens
  BY DEF Alive, Typed, TypeOK, MintRecords
<1>3. minted'[t] = [session |-> s, iat |-> clock]
  BY <1>1, <1>2
<1>4. \A u \in Tokens : u # t => minted'[u] = minted[u] /\ record'[u] = record[u]
  BY <1>1, <1>2
<1>5. ASSUME NEW u \in Tokens PROVE record'[u] <= minted'[u].iat + AccessTtl
  <2>1. record[u] <= minted[u].iat + AccessTtl
    BY DEF Alive, Reachable
  <2>2. minted[t].iat = 0
    BY <1>1
  <2>3. CASE u = t
    BY <1>1, <1>2, <1>3, <2>1, <2>2, <2>3
  <2> QED BY <1>4, <2>1, <2>3
<1>6. ASSUME NEW u \in Tokens, minted'[u] # Unminted
      PROVE  /\ minted'[u].session \in Sessions /\ minted'[u].iat <= clock'
             /\ ~Dead(u)' => u \in index'[minted'[u].session].members
             /\ ~Dead(u)' => index'[minted'[u].session].until
                               >= minted'[u].iat + AccessTtl + IndexSlack
  <2>1. CASE u = t
    BY <1>1, <1>2, <1>3, <2>1
  <2>2. CASE u # t
    <3>1. minted[u] # Unminted /\ minted'[u] = minted[u]
      BY <1>4, <1>6, <2>2
    <3>2. minted[u].session \in Sessions /\ minted[u].iat <= clock
      BY <3>1 DEF Alive, Reachable
    <3>3. ~Dead(u)' => ~Dead(u)
      BY <3>1 DEF Onward
    <3>4. ~Dead(u) => /\ u \in Members(minted[u].session)
                      /\ u \in index[minted[u].session].members
                      /\ index[minted[u].session].until
                            >= minted[u].iat + AccessTtl + IndexSlack
      BY <3>1, AliveIsMember DEF Alive, Reachable
    <3>5. CASE minted[u].session = s
      BY <1>1, <1>2, <3>1, <3>2, <3>3, <3>4, <3>5
    <3>6. CASE minted[u].session # s
      BY <1>1, <1>2, <3>1, <3>2, <3>3, <3>4, <3>6
    <3> QED BY <3>5, <3>6
  <2> QED BY <2>1, <2>2
<1>7. ASSUME NEW u \in gone' PROVE minted'[u] # Unminted /\ Dead(u)'
  <2>1. u \in Tokens /\ minted[u] # Unminted /\ Dead(u)
    BY <1>1, <1>2, <1>7 DEF Alive, Reachable
  <2> QED BY <2>1 DEF Onward
<1> QED BY <1>5, <1>6, <1>7 DEF Reachable

LEMMA RevokeTokenReachable ==
    ASSUME Alive, NEW t \in Tokens, RevokeToken(t)
    PROVE  Reachable'
<1>1. /\ minted[t] # Unminted /\ gone' = gone \cup {t} /\ UNCHANGED <<clock, minted>>
  BY DEF RevokeToken
<1>2. /\ Killed({t}) /\ Onward /\ \A u \in Tokens : record'[u] \in {0, record[u]}
      /\ \A s \in Sessions : /\ index'[s].until = index[s].until
                             /\ index[s].members \ {t} \subseteq index'[s].members
  BY RevokeTokenKills
<1>3. Dead(t)'
  BY <1>1, <1>2, KilledDead
<1>4. \A u \in Tokens : minted[u] # Unminted /\ ~Dead(u)' =>
        /\ u \in index'[minted[u].session].members
        /\ index'[minted[u].session].until >= minted[u].iat + AccessTtl + IndexSlack
  BY <1>2, <1>3 DEF Onward, Alive, Reachable
<1> QED BY <1>1, <1>2, <1>3, <1>4, ReachableKept

\* The index is dropped when every token the revocation set out for is dead.
LEMMA DropIndexReachable ==
    ASSUME Alive, Onward, Revoking, NEW v \in Revokers, DropIndex(v)
    PROVE  Reachable'
<1> DEFINE s == revoker[v].session
<1>1. /\ s \in Sessions
      /\ index' = [index EXCEPT ![s] = [members |-> {}, until |-> 0]]
      /\ gone' = gone \cup revoker[v].reach
      /\ UNCHANGED <<minted, record>>
      /\ revoker[v].reach = {t \in Tokens : minted[t].session = s}
      /\ \A t \in revoker[v].reach : Dead(t)
  BY DEF DropIndex, Revoking, Alive, Typed, TypeOK
<1>2. \A t \in revoker[v].reach : t \in Tokens /\ minted[t] # Unminted /\ Dead(t)'
  BY <1>1, Numbers DEF Onward
<1>3. \A t \in Tokens : minted[t] # Unminted /\ ~Dead(t)' =>
        minted[t].session # s /\ ~Dead(t)
  BY <1>1, <1>2 DEF Onward
<1>4. \A t \in Tokens : minted[t] # Unminted /\ ~Dead(t)' =>
        /\ t \in index'[minted[t].session].members
        /\ index'[minted[t].session].until >= minted[t].iat + AccessTtl + IndexSlack
  BY <1>1, <1>3 DEF Alive, Reachable, Typed, TypeOK
<1> QED BY <1>1, <1>2, <1>4, ReachableKept

LEMMA TickReachable ==
    ASSUME Alive, Onward, Tick
    PROVE  Reachable'
BY StillReachable, Numbers DEF Tick, tokens

-----------------------------------------------------------------------------
(***************************************************************************)
(* What a revocation under way still has to reach.                         *)
(***************************************************************************)
\* Steps that leave the revocations alone and mint nothing.
LEMMA StillRevoking ==
    ASSUME Alive, Onward, Revoking, UNCHANGED <<minted, revoker>>
    PROVE  Revoking'
<1>1. ASSUME NEW v \in Revokers, revoker[v].pc # "idle"
      PROVE  /\ revoker[v].session \in ended'
             /\ revoker[v].reach = {t \in Tokens : minted[t].session = revoker[v].session}
             /\ revoker[v].pc = "revoke" =>
                   \A t \in revoker[v].reach : t \in revoker[v].todo \/ Dead(t)'
  <2>1. /\ revoker[v].session \in ended
        /\ revoker[v].reach = {t \in Tokens : minted[t].session = revoker[v].session}
        /\ revoker[v].pc = "revoke" =>
              \A t \in revoker[v].reach : t \in revoker[v].todo \/ Dead(t)
    BY <1>1 DEF Revoking
  <2>2. \A t \in revoker[v].reach : t \in Tokens /\ minted[t] # Unminted
    BY <2>1, Numbers DEF Alive, Typed, TypeOK
  <2> QED BY <2>1, <2>2 DEF Onward
<1> QED BY <1>1 DEF Revoking

\* No token is minted for a session that is being revoked.
LEMMA IssueRevoking ==
    ASSUME Alive, Onward, Revoking, NEW t \in Tokens, NEW s \in Sessions, Issue(t, s)
    PROVE  Revoking'
<1>1. /\ minted[t] = Unminted /\ s \notin ended /\ UNCHANGED <<ended, revoker>>
      /\ minted' = [minted EXCEPT ![t] = [session |-> s, iat |-> clock]]
  BY DEF Issue
<1>2. /\ minted \in [Tokens -> MintRecords] /\ ended \subseteq Sessions
  BY DEF Alive, Typed, TypeOK
<1>3. ASSUME NEW v \in Revokers, revoker[v].pc # "idle"
      PROVE  /\ revoker[v].reach = {u \in Tokens : minted'[u].session = revoker[v].session}
             /\ revoker[v].pc = "revoke" =>
                   \A u \in revoker[v].reach : u \in revoker[v].todo \/ Dead(u)'
  <2>1. /\ revoker[v].session \in ended
        /\ revoker[v].reach = {u \in Tokens : minted[u].session = revoker[v].session}
        /\ revoker[v].pc = "revoke" =>
              \A u \in revoker[v].reach : u \in revoker[v].todo \/ Dead(u)
    BY <1>3 DEF Revoking
  <2>2. \A u \in Tokens :
          minted'[u].session = revoker[v].session <=> minted[u].session = revoker[v].session
    <3>1. \A u \in Tokens : u # t => minted'[u] = minted[u]
      BY <1>1, <1>2
    <3>2. minted'[t].session = s /\ minted[t].session = NoSession
      BY <1>1, <1>2
    <3>3. s # revoker[v].session /\ NoSession # revoker[v].session
      BY <1>1, <1>2, <2>1, Numbers
    <3> QED BY <3>1, <3>2, <3>3
  <2>3. \A u \in revoker[v].reach : u \in Tokens /\ minted[u] # Unminted
    BY <1>2, <2>1, Numbers
  <2> QED BY <2>1, <2>2, <2>3 DEF Onward
<1> QED BY <1>1, <1>3 DEF Revoking

LEMMA CallRevoking ==
    ASSUME Alive, Onward, Revoking,
           NEW v \in Revokers, NEW s \in Sessions, CallRevokeSession(v, s)
    PROVE  Revoking'
<1>1. /\ ended' = ended \cup {s} /\ UNCHANGED <<clock, minted, record, denied>>
      /\ revoker' = [revoker EXCEPT ![v] =
            [pc |-> "members", session |-> s, todo |-> {},
             reach |-> {t \in Tokens : minted[t].session = s}]]
  BY DEF CallRevokeSession
<1>2. revoker \in [Revokers -> RevocationRecords]
  BY DEF Alive, Typed, TypeOK
<1> QED BY <1>1, <1>2 DEF Revoking, Dead, DeniedForGood, Present, Expired

LEMMA ReadRevoking ==
    ASSUME Alive, Tolerance < IndexSlack, Onward, Revoking,
           NEW v \in Revokers, ReadMembers(v)
    PROVE  Revoking'
<1>1. /\ revoker[v].pc = "members"
      /\ revoker' = [revoker EXCEPT ![v] =
            [@ EXCEPT !.pc = "revoke", !.todo = Members(revoker[v].session)]]
      /\ UNCHANGED <<clock, minted, record, denied, ended>>
  BY DEF ReadMembers, tokens
<1>2. revoker \in [Revokers -> RevocationRecords] /\ revoker[v] \in RevocationRecords
  BY DEF Alive, Typed, TypeOK
<1>3. \A t \in Tokens :
        minted[t].session \in Sessions => t \in Members(minted[t].session) \/ Dead(t)
  BY AliveIsMember, Numbers
<1>4. /\ revoker[v].session \in ended /\ revoker[v].session \in Sessions
      /\ revoker[v].reach = {t \in Tokens : minted[t].session = revoker[v].session}
  BY <1>1 DEF Revoking, Alive, Typed, TypeOK
<1>5. \A t \in revoker[v].reach : t \in Members(revoker[v].session) \/ Dead(t)
  BY <1>3, <1>4
<1>6. \A t \in Tokens : Dead(t)' <=> Dead(t)
  BY <1>1 DEF Dead, DeniedForGood, Present, Expired
<1>7. /\ revoker'[v].pc = "revoke" /\ revoker'[v].session = revoker[v].session
      /\ revoker'[v].reach = revoker[v].reach
      /\ revoker'[v].todo = Members(revoker[v].session)
      /\ \A w \in Revokers : w # v => revoker'[w] = revoker[w]
  BY <1>1, <1>2 DEF RevocationRecords
<1> QED BY <1>1, <1>4, <1>5, <1>6, <1>7 DEF Revoking

LEMMA RevokeMembersRevoking ==
    ASSUME Alive, Onward, Revoking, NEW v \in Revokers, RevokeMembers(v)
    PROVE  Revoking'
<1>1. PICK some \in SUBSET revoker[v].todo :
        /\ Killed(some)
        /\ revoker' = [revoker EXCEPT ![v] =
                          [@ EXCEPT !.todo = revoker[v].todo \ some]]
  BY RevokeMembersKills
<1>2. UNCHANGED <<clock, minted, ended>> /\ revoker[v].pc = "revoke"
  BY DEF RevokeMembers
<1>3. /\ revoker \in [Revokers -> RevocationRecords] /\ revoker[v] \in RevocationRecords
      /\ some \in SUBSET Tokens
  BY DEF Alive, Typed, TypeOK, RevocationRecords
<1>4. /\ revoker'[v].pc = "revoke" /\ revoker'[v].session = revoker[v].session
      /\ revoker'[v].reach = revoker[v].reach
      /\ revoker'[v].todo = revoker[v].todo \ some
      /\ \A w \in Revokers : w # v => revoker'[w] = revoker[w]
  <2>1. PICK rest : rest = revoker[v].todo \ some
    OBVIOUS
  <2>2. revoker' = [revoker EXCEPT ![v] = [revoker[v] EXCEPT !.todo = rest]]
    BY <1>1, <2>1
  <2>3. revoker'[v] = [revoker[v] EXCEPT !.todo = rest]
    BY <1>3, <2>2
  <2>4. \A w \in Revokers : w # v => revoker'[w] = revoker[w]
    BY <1>3, <2>2
  <2> QED BY <1>2, <1>3, <2>1, <2>3, <2>4 DEF RevocationRecords
<1>5. \A w \in Revokers : revoker[w].pc # "idle" =>
        \A t \in revoker[w].reach : t \in Tokens /\ minted[t] # Unminted
  BY Numbers DEF Revoking, Alive, Typed, TypeOK
<1>6. \A t \in some : minted[t] # Unminted => Dead(t)'
  BY <1>1, <1>2, <1>3, KilledDead
<1>7. \A t \in revoker[v].reach : t \in revoker[v].todo \ some \/ Dead(t)'
  BY <1>2, <1>5, <1>6 DEF Revoking, Onward
<1>8. ASSUME NEW w \in Revokers, revoker'[w].pc # "idle"
      PROVE  /\ revoker'[w].session \in ended
             /\ revoker'[w].reach = {t \in Tokens : minted[t].session = revoker'[w].session}
             /\ revoker'[w].pc = "revoke" =>
                   \A t \in revoker'[w].reach : t \in revoker'[w].todo \/ Dead(t)'
  <2>1. CASE w = v
    BY <1>2, <1>4, <1>7, <2>1 DEF Revoking
  <2>2. CASE w # v
    BY <1>4, <1>5, <1>8, <2>2 DEF Revoking, Onward
  <2> QED BY <2>1, <2>2
<1> QED BY <1>2, <1>8 DEF Revoking

LEMMA EndRevoking ==
    ASSUME Alive, Onward, Revoking, NEW v \in Revokers, DropIndex(v) \/ RevocationFails(v)
    PROVE  Revoking'
<1>1. /\ UNCHANGED <<clock, minted, record, denied, ended>>
      /\ revoker' = [revoker EXCEPT ![v] = NoRevocation]
  BY DEF DropIndex, RevocationFails, tokens
<1>2. \A w \in Revokers : revoker'[w] = IF w = v THEN NoRevocation ELSE revoker[w]
  BY <1>1 DEF Alive, Typed, TypeOK
<1>3. \A t \in Tokens : Dead(t)' <=> Dead(t)
  BY <1>1 DEF Dead, DeniedForGood, Present, Expired
<1> QED BY <1>1, <1>2, <1>3 DEF Revoking

-----------------------------------------------------------------------------
(***************************************************************************)
(* What a request knows of its token.                                      *)
(***************************************************************************)
Careful == Alive /\ Revoking /\ Asking /\ RevokedIsRefused

\* The parts of Asking and RevokedIsRefused that concern one request.
Known(rec) ==
    rec.pc # "idle" =>
       /\ rec.token \in Tokens /\ minted[rec.token] # Unminted
       /\ rec.late => rec.token \in gone
       /\ rec.blind => OnStoreError = "open"
       /\ rec.pc = "lookup" /\ Strategy = "paseto" =>
             /\ clock <= rec.at + Stall
             /\ rec.at <= minted[rec.token].iat + AccessTtl + Tolerance
             /\ rec.late => DeniedForGood(rec.token)
       /\ rec.pc = "admitted" /\ rec.late => rec.blind /\ OnStoreError = "open"

LEMMA KnownToAll ==
    Asking /\ RevokedIsRefused <=>
      /\ \A p \in Proofs : proof[p] # Unsigned => proof[p].token \in Tokens
      /\ \A r \in Requests : Known(request[r])
BY DEF Asking, RevokedIsRefused, Known

\* Steps that leave the requests, the proofs and the clock alone.
LEMMA ElsewhereCareful ==
    ASSUME Careful, Onward, UNCHANGED <<clock, proof, request>>
    PROVE  Asking' /\ RevokedIsRefused'
<1>1. ASSUME NEW r \in Requests PROVE Known(request[r])'
  <2>1. Known(request[r])
    BY KnownToAll DEF Careful
  <2> QED BY <2>1 DEF Known, Onward
<1> QED BY <1>1 DEF Careful, Asking, RevokedIsRefused, Known

\* A step of one request.
LEMMA OneRequestCareful ==
    ASSUME Careful, NEW r \in Requests, NEW rec, Put(r, rec), Known(rec),
           UNCHANGED <<clock, tokens, proof, gone>>
    PROVE  Asking' /\ RevokedIsRefused'
<1>1. \A q \in Requests : request'[q] = IF q = r THEN rec ELSE request[q]
  BY DEF Put, Careful, Alive, Typed, TypeOK
<1>2. \A q \in Requests : Known(request[q])
  BY KnownToAll DEF Careful
<1>3. UNCHANGED <<clock, minted, denied, proof, gone>>
  BY DEF tokens
<1>4. \A q \in Requests : Known(request[q])'
  BY <1>1, <1>2, <1>3 DEF Known, DeniedForGood
<1>5. \A p \in Proofs : proof'[p] # Unsigned => proof'[p].token \in Tokens
  BY <1>3 DEF Careful, Asking
<1> QED BY <1>4, <1>5 DEF Asking, RevokedIsRefused, Known

LEMMA TickCareful ==
    ASSUME Careful, Onward, Tick
    PROVE  Asking' /\ RevokedIsRefused'
<1>1. /\ clock' = clock + 1 /\ UNCHANGED <<minted, denied, proof, request, gone>>
      /\ \A r \in Requests : request[r].pc = "lookup" => clock < request[r].at + Stall
  BY DEF Tick, tokens, proofs
<1>2. clock \in Nat /\ \A r \in Requests : request[r].at \in Nat
  BY DEF Careful, Alive, Typed, TypeOK, RequestRecords
<1>3. \A r \in Requests : request[r].pc = "lookup" => clock' <= request[r].at + Stall
  BY <1>1, <1>2, Numbers
<1>4. ASSUME NEW r \in Requests PROVE Known(request[r])'
  <2>1. Known(request[r])
    BY KnownToAll DEF Careful
  <2> QED BY <1>1, <1>3, <2>1 DEF Known, DeniedForGood
<1>5. \A p \in Proofs : proof'[p] # Unsigned => proof'[p].token \in Tokens
  BY <1>1 DEF Careful, Asking
<1> QED BY <1>4, <1>5 DEF Asking, RevokedIsRefused, Known

LEMMA SignCareful ==
    ASSUME Careful, NEW p \in Proofs, NEW t \in Tokens, NEW iat \in 0 .. MaxClock,
           Sign(p, t, iat)
    PROVE  Asking' /\ RevokedIsRefused'
<1>1. UNCHANGED <<clock, minted, denied, request, gone>>
  BY DEF Sign, tokens
<1>2. \A q \in Proofs : proof'[q] # Unsigned => proof'[q].token \in Tokens
  BY DEF Sign, Careful, Asking, Alive, Typed, TypeOK
<1>3. ASSUME NEW r \in Requests PROVE Known(request[r])'
  <2>1. Known(request[r])
    BY KnownToAll DEF Careful
  <2> QED BY <1>1, <2>1 DEF Known, DeniedForGood
<1> QED BY <1>2, <1>3 DEF Asking, RevokedIsRefused, Known

LEMMA BeginCareful ==
    ASSUME Careful, NEW r \in Requests, NEW t \in Tokens, NEW p,
           NEW pc \in {"claim", "verify"}, Begin(r, t, p, pc)
    PROVE  Asking' /\ RevokedIsRefused'
<1> DEFINE rec == [NoRequest EXCEPT !.pc = pc, !.token = t, !.proof = p,
                                    !.at = clock, !.late = (t \in gone)]
<1>1. /\ Put(r, rec) /\ minted[t] # Unminted
      /\ UNCHANGED <<clock, tokens, proof, gone>>
  BY DEF Begin, proofs
<1>2. rec.pc = pc /\ rec.token = t /\ (rec.late <=> t \in gone) /\ ~rec.blind
  OBVIOUS
<1> HIDE DEF rec
<1>3. Known(rec)
  BY <1>1, <1>2 DEF Known
<1> QED BY <1>1, <1>3, OneRequestCareful

LEMMA RefuseCareful ==
    ASSUME Careful, NEW r \in Requests, Refuse(r), UNCHANGED <<clock, tokens, proof, gone>>
    PROVE  Asking' /\ RevokedIsRefused'
<1>1. Known(NoRequest)
  BY DEF Known
<1> QED BY <1>1, OneRequestCareful DEF Refuse

LEMMA RequestRecord ==
    ASSUME Careful, NEW r \in Requests
    PROVE  request[r] \in RequestRecords
BY DEF Careful, Alive, Typed, TypeOK

LEMMA ClaimCareful ==
    ASSUME Careful, NEW r \in Requests, Claim(r)
    PROVE  Asking' /\ RevokedIsRefused'
<1>1. UNCHANGED <<clock, tokens, proof, gone>> /\ (Refuse(r) \/ Step(r, "verify"))
  BY DEF Claim
<1>2. Known(request[r]) /\ request[r].pc = "claim"
  BY KnownToAll DEF Careful, Claim
<1>3. Known([request[r] EXCEPT !.pc = "verify", !.at = clock])
  <2>1. PICK rec : rec = [request[r] EXCEPT !.pc = "verify", !.at = clock]
    OBVIOUS
  <2>2. /\ rec.pc = "verify" /\ rec.token = request[r].token /\ rec.at = clock
        /\ (rec.late <=> request[r].late) /\ (rec.blind <=> request[r].blind)
    BY <2>1, RequestRecord DEF RequestRecords
  <2>3. Known(rec)
    BY <1>2, <2>2 DEF Known
  <2> QED BY <2>1, <2>3
<1> QED BY <1>1, <1>3, RefuseCareful, OneRequestCareful DEF Step

LEMMA ClaimFailsCareful ==
    ASSUME Careful, NEW r \in Requests, ClaimFails(r)
    PROVE  Asking' /\ RevokedIsRefused'
<1>1. /\ UNCHANGED <<clock, tokens, proof, gone>>
      /\ \/ Refuse(r)
         \/ /\ OnStoreError = "open"
            /\ Put(r, [request[r] EXCEPT !.pc = "verify", !.at = clock, !.blind = TRUE])
  BY DEF ClaimFails, proofs
<1>2. Known(request[r]) /\ request[r].pc = "claim"
  BY KnownToAll DEF Careful, ClaimFails
<1>3. OnStoreError = "open" =>
        Known([request[r] EXCEPT !.pc = "verify", !.at = clock, !.blind = TRUE])
  <2>1. PICK rec : rec = [request[r] EXCEPT !.pc = "verify", !.at = clock, !.blind = TRUE]
    OBVIOUS
  <2>2. /\ rec.pc = "verify" /\ rec.token = request[r].token /\ rec.at = clock
        /\ (rec.late <=> request[r].late) /\ rec.blind
    BY <2>1, RequestRecord DEF RequestRecords
  <2>3. OnStoreError = "open" => Known(rec)
    BY <1>2, <2>2 DEF Known
  <2> QED BY <2>1, <2>3
<1> QED BY <1>1, <1>3, RefuseCareful, OneRequestCareful

\* A token that PASETO's signed times let pass and that is dead is denied.
LEMMA CheckTimesCareful ==
    ASSUME Careful, NEW r \in Requests, CheckTimes(r)
    PROVE  Asking' /\ RevokedIsRefused'
<1> USE Numbers
<1>1. /\ UNCHANGED <<clock, tokens, proof, gone>>
      /\ \/ Refuse(r)
         \/ /\ Strategy = "paseto" => ~Expired(request[r].token)
            /\ Step(r, "lookup")
  BY DEF CheckTimes, proofs
<1>2. Known(request[r]) /\ request[r].pc = "verify"
  BY KnownToAll DEF Careful, CheckTimes
<1>3. ASSUME Strategy = "paseto", ~Expired(request[r].token)
      PROVE  /\ clock <= minted[request[r].token].iat + AccessTtl + Tolerance
             /\ request[r].late => DeniedForGood(request[r].token)
             /\ clock <= clock + Stall
  <2>1. request[r].token \in Tokens
    BY <1>2 DEF Known
  <2>2. clock \in Nat /\ minted[request[r].token].iat \in Nat
    BY <2>1 DEF Careful, Alive, Typed, TypeOK, MintRecords
  <2>3. request[r].late => Dead(request[r].token)
    BY <1>2 DEF Known, Careful, Alive, Reachable
  <2> QED BY <1>3, <2>2, <2>3 DEF Dead, Expired
<1>4. (Strategy = "paseto" => ~Expired(request[r].token)) =>
        Known([request[r] EXCEPT !.pc = "lookup", !.at = clock])
  <2>1. PICK rec : rec = [request[r] EXCEPT !.pc = "lookup", !.at = clock]
    OBVIOUS
  <2>2. /\ rec.pc = "lookup" /\ rec.token = request[r].token /\ rec.at = clock
        /\ (rec.late <=> request[r].late) /\ (rec.blind <=> request[r].blind)
    BY <2>1, RequestRecord DEF RequestRecords
  <2>3. (Strategy = "paseto" => ~Expired(request[r].token)) => Known(rec)
    BY <1>2, <1>3, <2>2 DEF Known
  <2> QED BY <2>1, <2>3
<1> QED BY <1>1, <1>4, RefuseCareful, OneRequestCareful DEF Step

\* The record of a dead token is gone, and its denylist entry is still there.
LEMMA LookupCareful ==
    ASSUME Careful, NEW r \in Requests, Lookup(r)
    PROVE  Asking' /\ RevokedIsRefused'
<1> USE Numbers
<1> DEFINE t == request[r].token
<1>1. /\ UNCHANGED <<clock, tokens, proof, gone>>
      /\ Refuse(r) \/ (Honoured(t) /\ Step(r, "admitted"))
  BY DEF Lookup, proofs
<1>2. Known(request[r]) /\ request[r].pc = "lookup"
  BY KnownToAll DEF Careful, Lookup
<1>3. t \in Tokens /\ (request[r].late => Dead(t))
  BY <1>2 DEF Known, Careful, Alive, Reachable
<1>4. /\ clock \in Nat /\ request[r].at \in Nat /\ minted[t].iat \in Nat
      /\ denied[t] \in Nat
  BY <1>3 DEF Careful, Alive, Typed, TypeOK, MintRecords, RequestRecords
<1>5. ASSUME Honoured(t) PROVE ~request[r].late
  <2>1. CASE Strategy = "opaque"
    BY <1>3, <1>5, <2>1 DEF Dead, Honoured
  <2>2. CASE Strategy = "paseto"
    <3>1. /\ clock <= request[r].at + Stall
          /\ request[r].at <= minted[t].iat + AccessTtl + Tolerance
          /\ request[r].late => DeniedForGood(t)
      BY <1>2, <2>2 DEF Known
    <3>2. clock < minted[t].iat + DenyTtl
      BY <1>4, <3>1 DEF DenyTtl
    <3>3. DeniedForGood(t) => Present(denied[t])
      BY <1>4, <3>2 DEF DeniedForGood, Present
    <3> QED BY <1>5, <2>2, <3>1, <3>3 DEF Honoured
  <2> QED BY <2>1, <2>2, ConstantsAssumption DEF ConstantsAssumption
<1>6. Honoured(t) => Known([request[r] EXCEPT !.pc = "admitted", !.at = clock])
  <2>1. PICK rec : rec = [request[r] EXCEPT !.pc = "admitted", !.at = clock]
    OBVIOUS
  <2>2. /\ rec.pc = "admitted" /\ rec.token = request[r].token /\ rec.at = clock
        /\ (rec.late <=> request[r].late) /\ (rec.blind <=> request[r].blind)
    BY <2>1, RequestRecord DEF RequestRecords
  <2>3. Honoured(t) => Known(rec)
    BY <1>2, <1>5, <2>2 DEF Known
  <2> QED BY <2>1, <2>3
<1> QED BY <1>1, <1>6, RefuseCareful, OneRequestCareful DEF Step

LEMMA LookupFailsCareful ==
    ASSUME Careful, NEW r \in Requests, LookupFails(r)
    PROVE  Asking' /\ RevokedIsRefused'
<1>1. /\ UNCHANGED <<clock, tokens, proof, gone>>
      /\ \/ Refuse(r)
         \/ /\ OnStoreError = "open"
            /\ Put(r, [request[r] EXCEPT !.pc = "admitted", !.at = clock, !.blind = TRUE])
  BY DEF LookupFails, proofs
<1>2. Known(request[r]) /\ request[r].pc = "lookup"
  BY KnownToAll DEF Careful, LookupFails
<1>3. OnStoreError = "open" =>
        Known([request[r] EXCEPT !.pc = "admitted", !.at = clock, !.blind = TRUE])
  <2>1. PICK rec : rec = [request[r] EXCEPT !.pc = "admitted", !.at = clock, !.blind = TRUE]
    OBVIOUS
  <2>2. /\ rec.pc = "admitted" /\ rec.token = request[r].token /\ rec.at = clock
        /\ (rec.late <=> request[r].late) /\ rec.blind
    BY <2>1, RequestRecord DEF RequestRecords
  <2>3. OnStoreError = "open" => Known(rec)
    BY <1>2, <2>2 DEF Known
  <2> QED BY <2>1, <2>3
<1> QED BY <1>1, <1>3, RefuseCareful, OneRequestCareful

LEMMA RequestCareful ==
    ASSUME Careful, NEW r \in Requests,
           \/ \E p \in Proofs : PresentProof(r, p)
           \/ \E t \in Tokens : PresentBearer(r, t)
           \/ Claim(r) \/ ClaimFails(r) \/ CheckTimes(r) \/ Lookup(r)
           \/ LookupFails(r) \/ Respond(r)
    PROVE  Asking' /\ RevokedIsRefused'
<1>1. ASSUME NEW p \in Proofs, PresentProof(r, p) PROVE Asking' /\ RevokedIsRefused'
  <2>1. proof[p].token \in Tokens
    BY <1>1 DEF PresentProof, Careful, Asking
  <2> QED BY <1>1, <2>1, BeginCareful DEF PresentProof
<1>2. ASSUME NEW t \in Tokens, PresentBearer(r, t) PROVE Asking' /\ RevokedIsRefused'
  BY <1>2, BeginCareful DEF PresentBearer
<1>3. CASE Respond(r)
  BY <1>3, RefuseCareful DEF Respond, proofs
<1> QED BY <1>1, <1>2, <1>3, ClaimCareful, ClaimFailsCareful, CheckTimesCareful,
           LookupCareful, LookupFailsCareful

-----------------------------------------------------------------------------
(***************************************************************************)
(* The invariant of the whole.                                             *)
(***************************************************************************)
LEMMA InitCareful == Init => Careful
<1>1. Init => Reachable
  BY Numbers DEF Init, Reachable
<1>2. Init => Revoking /\ Asking /\ RevokedIsRefused
  BY DEF Init, Revoking, Asking, RevokedIsRefused
<1> QED BY <1>1, <1>2, InitTyped DEF Careful, Alive

LEMMA NextCareful ==
    ASSUME Tolerance < IndexSlack
    PROVE  Careful /\ [Next]_vars => Careful'
<1> SUFFICES ASSUME Careful, [Next]_vars
             PROVE  Reachable' /\ Revoking' /\ Asking' /\ RevokedIsRefused'
  BY NextTyped DEF Careful, Alive
<1>0. Onward /\ Alive /\ Revoking
  BY NextOnward DEF Careful
<1>a. record \in [Tokens -> Nat]
  BY DEF Careful, Alive, Typed, TypeOK
<1>1. ASSUME NEW t \in Tokens, NEW s \in Sessions, Issue(t, s)
      PROVE  Reachable' /\ Revoking' /\ Asking' /\ RevokedIsRefused'
  <2>1. UNCHANGED <<clock, proof, request>>
    BY <1>1 DEF Issue, proofs
  <2> QED BY <1>0, <1>1, <2>1, IssueReachable, IssueRevoking, ElsewhereCareful
<1>2. ASSUME NEW t \in Tokens, RevokeToken(t)
      PROVE  Reachable' /\ Revoking' /\ Asking' /\ RevokedIsRefused'
  <2>1. UNCHANGED <<clock, minted, revoker, proof, request>>
    BY <1>2 DEF RevokeToken, proofs
  <2> QED BY <1>0, <1>2, <2>1, RevokeTokenReachable, StillRevoking, ElsewhereCareful
<1>3. ASSUME NEW v \in Revokers,
             \/ \E s \in Sessions : CallRevokeSession(v, s)
             \/ ReadMembers(v) \/ RevokeMembers(v) \/ DropIndex(v) \/ RevocationFails(v)
      PROVE  Reachable' /\ Revoking' /\ Asking' /\ RevokedIsRefused'
  <2>1. UNCHANGED <<clock, proof, request>>
    BY <1>3 DEF CallRevokeSession, ReadMembers, RevokeMembers, DropIndex,
                RevocationFails, proofs
  <2>2. Asking' /\ RevokedIsRefused'
    BY <1>0, <2>1, ElsewhereCareful
  <2>3. Revoking'
    BY <1>0, <1>3, CallRevoking, ReadRevoking, RevokeMembersRevoking, EndRevoking
  <2>4. ASSUME NEW s \in Sessions, CallRevokeSession(v, s) PROVE Reachable'
    <3>1. UNCHANGED <<minted, record, index, gone>>
      BY <2>4 DEF CallRevokeSession
    <3> QED BY <1>0, <3>1, StillReachable
  <2>5. CASE ReadMembers(v) \/ RevocationFails(v)
    <3>1. UNCHANGED <<minted, record, index, gone>>
      BY <2>5 DEF ReadMembers, RevocationFails, tokens
    <3> QED BY <1>0, <2>2, <2>3, <3>1, StillReachable
  <2>6. CASE RevokeMembers(v)
    BY <1>0, <2>2, <2>3, <2>6, RevokeMembersKills, StillReachable
  <2>7. CASE DropIndex(v)
    BY <1>0, <2>2, <2>3, <2>7, DropIndexReachable
  <2> QED BY <1>3, <2>2, <2>3, <2>4, <2>5, <2>6, <2>7
<1>4. ASSUME NEW p \in Proofs, NEW t \in Tokens, NEW iat \in 0 .. MaxClock,
             Sign(p, t, iat)
      PROVE  Reachable' /\ Revoking' /\ Asking' /\ RevokedIsRefused'
  <2>1. UNCHANGED <<minted, record, index, gone, revoker>>
    BY <1>4 DEF Sign, tokens
  <2> QED BY <1>0, <1>4, <2>1, StillReachable, StillRevoking, SignCareful
<1>5. ASSUME NEW r \in Requests,
             \/ \E p \in Proofs : PresentProof(r, p)
             \/ \E t \in Tokens : PresentBearer(r, t)
             \/ Claim(r) \/ ClaimFails(r) \/ CheckTimes(r) \/ Lookup(r)
             \/ LookupFails(r) \/ Respond(r)
      PROVE  Reachable' /\ Revoking' /\ Asking' /\ RevokedIsRefused'
  <2>1. UNCHANGED <<minted, record, index, gone, revoker>>
    BY <1>5 DEF PresentProof, PresentBearer, Begin, Claim, ClaimFails, CheckTimes,
                Lookup, LookupFails, Respond, tokens
  <2>2. Asking' /\ RevokedIsRefused'
    BY <1>5, RequestCareful
  <2> QED BY <1>0, <2>1, <2>2, StillReachable, StillRevoking
<1>6. CASE Tick
  <2>1. UNCHANGED <<minted, revoker>>
    BY <1>6 DEF Tick, tokens
  <2> QED BY <1>0, <1>6, <2>1, TickReachable, StillRevoking, TickCareful
<1>7. CASE UNCHANGED vars
  <2>1. UNCHANGED <<minted, record, index, gone, revoker, clock, proof, request>>
    BY <1>7 DEF vars, tokens, proofs
  <2> QED BY <1>0, <2>1, StillReachable, StillRevoking, ElsewhereCareful
<1> QED BY <1>1, <1>2, <1>3, <1>4, <1>5, <1>6, <1>7 DEF Next

\* The inductive invariant, when a session's index outlives its tokens by more
\* than the tolerance verify() grants them.
THEOREM Invariance ==
    ASSUME Tolerance < IndexSlack
    PROVE  Spec => []IInv
<1>1. Unclaimed /\ Careful => IInv
  BY DEF Unclaimed, Careful, Alive, Typed, IInv
<1>2. Careful /\ [Next]_vars => Careful'
  BY NextCareful
<1> QED BY InitUnclaimed, NextUnclaimed, InitCareful, <1>1, <1>2, PTL DEF Spec

\* A request that begins after its token or its session has been revoked is not
\* admitted, unless the store is down and the configuration says "open".
THEOREM RevokedStaysRefused ==
    ASSUME Tolerance < IndexSlack
    PROVE  Spec => []RevokedIsRefused
<1>1. IInv => RevokedIsRefused
  BY DEF IInv
<1>2. Spec => []IInv
  BY Invariance
<1> QED BY <1>1, <1>2, PTL
=============================================================================
