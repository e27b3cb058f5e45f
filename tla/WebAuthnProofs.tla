-------------------------- MODULE WebAuthnProofs ---------------------------
(***************************************************************************)
(* Proofs about the WebAuthn package: the ceremonies, for any number of    *)
(* requests, users, challenges and credentials; then attestation and       *)
(* metadata, for all entries, registrations and policies.                  *)
(***************************************************************************)
EXTENDS WebAuthnCeremony, Metadata, TLAPS, WellFoundedInduction

-----------------------------------------------------------------------------
(***************************************************************************)
(* The ceremonies: where each challenge is, whose each credential is, what *)
(* completed ceremonies were checked against, and the counters.            *)
(***************************************************************************)
\* A call's local variables after a command that changes those of one call.
LEMMA GotoOnly ==
  ASSUME TypeOK, NEW c \in Callers, NEW place, NEW l, Goto(c, place, l),
         NEW d \in Callers
  PROVE  /\ pc'[c] = place /\ loc'[c] = l
         /\ d # c => pc'[d] = pc[d] /\ loc'[d] = loc[d]
BY DEF TypeOK, Goto, Places

LEMMA GotoTyped ==
  ASSUME TypeOK, NEW c \in Callers, NEW place \in Places, NEW l, Goto(c, place, l),
         place = "idle" => l = NoChallenge,
         place \in {"take", "check"} => l \in Locals,
         place = "write" => l \in Ends
  PROVE  /\ pc' \in [Callers -> Places]
         /\ loc' \in [Callers -> {NoChallenge} \cup Locals \cup Ends]
         /\ \A d \in Callers :
              /\ pc'[d] = "idle" => loc'[d] = NoChallenge
              /\ pc'[d] \in {"take", "check"} => loc'[d] \in Locals
              /\ pc'[d] = "write" => loc'[d] \in Ends
<1>1. /\ pc' \in [Callers -> Places]
      /\ loc' \in [Callers -> {NoChallenge} \cup Locals \cup Ends]
  BY DEF TypeOK, Goto, Places
<1>2. ASSUME NEW d \in Callers
      PROVE  /\ pc'[d] = "idle" => loc'[d] = NoChallenge
             /\ pc'[d] \in {"take", "check"} => loc'[d] \in Locals
             /\ pc'[d] = "write" => loc'[d] \in Ends
  BY GotoOnly DEF TypeOK
<1> QED BY <1>1, <1>2

\* take() removes the record or finds nothing, and types what it leaves.
LEMMA TakeTyped ==
  ASSUME TypeOK, NEW c \in Callers, NEW l \in Locals, Take(c, l)
  PROVE  /\ until' \in [Challenges -> Nat] /\ tried' \in [Challenges -> Nat]
         /\ pc' \in [Callers -> Places]
         /\ loc' \in [Callers -> {NoChallenge} \cup Locals \cup Ends]
         /\ \A d \in Callers :
              /\ pc'[d] = "idle" => loc'[d] = NoChallenge
              /\ pc'[d] \in {"take", "check"} => loc'[d] \in Locals
              /\ pc'[d] = "write" => loc'[d] \in Ends
<1>0. l.response.challenge \in Challenges
  BY DEF Locals, Responses
<1>1. CASE Found(l.type, l.response.challenge)
  <2>1. Goto(c, "check", l)
    BY <1>1 DEF Take
  <2>2. until' \in [Challenges -> Nat] /\ tried' \in [Challenges -> Nat]
    BY <1>0, <1>1 DEF Take, TypeOK
  <2> QED BY <2>1, <2>2, GotoTyped DEF Places
<1>2. CASE ~Found(l.type, l.response.challenge)
  <2>1. Goto(c, "idle", NoChallenge) /\ until' = until /\ tried' = tried
    BY <1>2 DEF Take, Return
  <2> QED BY <2>1, GotoTyped DEF Places, TypeOK
<1> QED BY <1>1, <1>2

LEMMA InitTyped == Init => TypeOK
BY ConstantsAssumption DEF Init, TypeOK, NoContext, Contexts, SomeUser, Counts, Places

LEMMA TypeStep ==
  ASSUME TypeOK, [Next]_vars
  PROVE  TypeOK'
<1>1. ASSUME NEW h \in Challenges, NEW type \in Ceremonies, NEW u \in SomeUser,
             NEW strict \in BOOLEAN, Issue(h, type, u, strict)
      PROVE  TypeOK'
  <2>1. PICK read \in 0 .. now :
          context' = [context EXCEPT ![h] = [type |-> type, user |-> u,
                         strict |-> strict, expiresAt |-> read + Ttl]]
    BY <1>1 DEF Issue
  <2>2. context' \in [Challenges -> Contexts]
    BY <2>1, ConstantsAssumption DEF TypeOK, Contexts
  <2>3. until' \in [Challenges -> Nat]
    BY <1>1, ConstantsAssumption DEF Issue, TypeOK
  <2> QED BY <1>1, <2>2, <2>3 DEF Issue, TypeOK
<1>2. ASSUME NEW c \in Callers, NEW r \in Responses, NEW u \in SomeUser, Enrol(c, r, u)
      PROVE  TypeOK'
  <2> DEFINE l == [type |-> "registration", response |-> r, user |-> u, count |-> 0]
  <2>1. l \in Locals /\ r.credential \in Credentials /\ r.challenge \in Challenges
    BY ConstantsAssumption DEF Locals, Ceremonies, Responses, Counts
  <2>2. Take(c, l)
    BY <1>2 DEF Enrol
  <2>3. made' \in [Credentials -> Challenges \cup {NoChallenge}]
    BY <1>2, <2>1 DEF Enrol, Made, TypeOK
  <2> HIDE DEF l
  <2> QED BY <1>2, <2>1, <2>2, <2>3, TakeTyped DEF Enrol, TypeOK
<1>3. ASSUME NEW c \in Callers, NEW r \in Responses, SignIn(c, r)
      PROVE  TypeOK'
  <2> DEFINE l == [type |-> "authentication", response |-> r,
                   user |-> owner[r.credential], count |-> signCount[r.credential]]
  <2>1. l \in Locals /\ r.credential \in Credentials
    BY DEF Locals, Ceremonies, Responses, TypeOK
  <2>2. Goto(c, "take", l)
    BY <1>3 DEF SignIn
  <2>3. shared' \subseteq Credentials
    BY <1>3, <2>1 DEF SignIn, TypeOK
  <2> HIDE DEF l
  <2> QED BY <1>3, <2>1, <2>2, <2>3, GotoTyped DEF SignIn, TypeOK, Places
<1>4. ASSUME NEW c \in Callers, Consume(c)
      PROVE  TypeOK'
  <2>1. loc[c] \in Locals /\ Take(c, loc[c])
    BY <1>4 DEF Consume, TypeOK
  <2> QED BY <1>4, <2>1, TakeTyped DEF Consume, TypeOK
<1>5. ASSUME NEW c \in Callers, Check(c)
      PROVE  TypeOK'
  <2>1. CASE Passes(loc[c])
    <3> DEFINE l == [type |-> loc[c].type, response |-> loc[c].response,
                     user |-> Subject(loc[c]), at |-> now]
    <3>1. loc[c] \in Locals
      BY <1>5 DEF Check, TypeOK
    <3>2. Subject(loc[c]) \in SomeUser
      BY <3>1 DEF Subject, Locals, Responses, TypeOK, Contexts
    <3>3. l \in Ends /\ Goto(c, "write", l)
      BY <1>5, <2>1, <3>1, <3>2 DEF Check, Ends, Locals, TypeOK
    <3> HIDE DEF l
    <3> QED BY <1>5, <3>3, GotoTyped DEF Check, TypeOK, Places
  <2>2. CASE ~Passes(loc[c])
    <3>1. Goto(c, "idle", NoChallenge)
      BY <1>5, <2>2 DEF Check, Return
    <3> QED BY <1>5, <3>1, GotoTyped DEF Check, TypeOK, Places
  <2> QED BY <2>1, <2>2
<1>6. ASSUME NEW c \in Callers, Write(c)
      PROVE  TypeOK'
  <2>1. loc[c] \in Ends /\ Goto(c, "idle", NoChallenge)
    BY <1>6 DEF Write, TypeOK, Return
  <2>2. /\ loc[c].response.credential \in Credentials
        /\ loc[c].response.count \in Counts /\ loc[c].user \in SomeUser
    BY <2>1 DEF Ends, Responses
  <2>3. owner' \in [Credentials -> SomeUser] /\ signCount' \in [Credentials -> Counts]
    BY <1>6, <2>2 DEF Write, TypeOK
  <2>4. accepted' \subseteq Ends
    BY <1>6, <2>1 DEF Write, TypeOK
  <2> QED BY <1>6, <2>1, <2>3, <2>4, GotoTyped DEF Write, TypeOK, Places
<1>7. ASSUME NEW c \in Callers, Fail(c)
      PROVE  TypeOK'
  <2>1. Goto(c, "idle", NoChallenge)
    BY <1>7 DEF Fail, Return
  <2> QED BY <1>7, <2>1, GotoTyped DEF Fail, TypeOK, Places
<1>8. CASE Tick
  BY <1>8 DEF Tick, TypeOK
<1>9. CASE UNCHANGED vars
  BY <1>9 DEF vars, TypeOK
<1> QED BY <1>1, <1>2, <1>3, <1>4, <1>5, <1>6, <1>7, <1>8, <1>9
        DEF Next, Start, Respond, Ceremonies, SomeUser

-----------------------------------------------------------------------------
(***************************************************************************)
(* A challenge is in the store, with one call, or gone.                    *)
(***************************************************************************)
\* What a challenge was issued for does not change.
LEMMA IssueKeeps ==
  ASSUME TypeOK, NEW h \in Challenges, NEW type \in Ceremonies, NEW u \in SomeUser,
         NEW strict \in BOOLEAN, Issue(h, type, u, strict)
  PROVE  /\ ~Issued(h) /\ Issued(h)'
         /\ \A g \in Challenges \ {h} : context'[g] = context[g]
         /\ \A g \in Challenges : context[g].type \in Ceremonies => Issued(g)
BY DEF Issue, Issued, TypeOK, NoContext, Ceremonies

LEMMA LettingGoHolds ==
  ASSUME TypeOK, HeldByOne, NEW c \in Callers, NEW place \in {"idle", "take"}, NEW l,
         Goto(c, place, l), UNCHANGED <<until, tried, context>>
  PROVE  HeldByOne'
<1>1. ~Holding(c)'
  BY GotoOnly DEF Holding
<1>2. ASSUME NEW d \in Callers, d # c
      PROVE  /\ Holding(d)' = Holding(d) /\ ChallengeOf(d)' = ChallengeOf(d)
             /\ loc'[d] = loc[d]
  BY <1>2, GotoOnly DEF Holding, ChallengeOf
<1> QED BY <1>1, <1>2 DEF HeldByOne, Issued

LEMMA TakingHolds ==
  ASSUME TypeOK, HeldByOne, NEW c \in Callers, ~Holding(c), NEW l \in Locals,
         Take(c, l), UNCHANGED context
  PROVE  HeldByOne'
<1> DEFINE h == l.response.challenge
<1>0. h \in Challenges
  BY DEF Locals, Responses
<1>1. CASE ~Found(l.type, h)
  <2>1. Goto(c, "idle", NoChallenge) /\ UNCHANGED <<until, tried>>
    BY <1>1 DEF Take, Return
  <2> QED BY <2>1, LettingGoHolds
<1>2. CASE Found(l.type, h)
  <2>1. /\ until' = [until EXCEPT ![h] = 0] /\ tried' = [tried EXCEPT ![h] = @ + 1]
        /\ Goto(c, "check", l)
    BY <1>2 DEF Take
  <2>2. until[h] # 0 /\ tried[h] = 0 /\ context[h].type = l.type
    BY <1>0, <1>2 DEF Found, HeldByOne, TypeOK
  <2>3. until'[h] = 0 /\ tried'[h] = 1 /\ Issued(h)'
    BY <1>0, <2>1, <2>2 DEF TypeOK, HeldByOne, Issued
  <2>4. ASSUME NEW g \in Challenges, g # h
        PROVE  until'[g] = until[g] /\ tried'[g] = tried[g] /\ Issued(g)' = Issued(g)
    BY <2>1, <2>4 DEF TypeOK, Issued
  <2>5. Holding(c)' /\ ChallengeOf(c)' = h /\ loc'[c] = l
    BY <2>1, GotoOnly DEF Holding, ChallengeOf
  <2>6. ASSUME NEW d \in Callers, d # c
        PROVE  /\ Holding(d)' = Holding(d) /\ ChallengeOf(d)' = ChallengeOf(d)
               /\ loc'[d] = loc[d]
               /\ Holding(d) => ChallengeOf(d) # h /\ ChallengeOf(d) \in Challenges
    <3>1. Holding(d)' = Holding(d) /\ ChallengeOf(d)' = ChallengeOf(d) /\ loc'[d] = loc[d]
      BY <2>1, <2>6, GotoOnly DEF Holding, ChallengeOf
    <3>2. ASSUME Holding(d) PROVE ChallengeOf(d) # h /\ ChallengeOf(d) \in Challenges
      BY <3>2, <2>2 DEF HeldByOne, Holding, ChallengeOf, TypeOK, Locals, Ends, Responses
    <3> QED BY <3>1, <3>2
  <2> HIDE DEF h
  <2>7. \A g \in Challenges : \/ (until'[g] = 0 /\ tried'[g] = 0 /\ ~Issued(g)')
                              \/ (until'[g] # 0 /\ tried'[g] = 0 /\ Issued(g)')
                              \/ (until'[g] = 0 /\ tried'[g] = 1 /\ Issued(g)')
    BY <2>3, <2>4 DEF HeldByOne
  <2>8. ASSUME NEW d \in Callers, Holding(d)'
        PROVE  /\ tried'[ChallengeOf(d)'] = 1
               /\ context'[ChallengeOf(d)'].type = loc'[d].type
               /\ \A e \in Callers : Holding(e)' /\ ChallengeOf(e)' = ChallengeOf(d)' => e = d
    <3>1. CASE d = c
      BY <3>1, <2>2, <2>3, <2>5, <2>6
    <3>2. CASE d # c
      BY <3>2, <2>4, <2>5, <2>6, <2>8 DEF HeldByOne
    <3> QED BY <3>1, <3>2
  <2> QED BY <2>7, <2>8 DEF HeldByOne
<1> QED BY <1>1, <1>2

LEMMA HeldStep ==
  ASSUME IInv, [Next]_vars
  PROVE  HeldByOne'
<1> USE DEF IInv
<1>1. ASSUME NEW h \in Challenges, NEW type \in Ceremonies, NEW u \in SomeUser,
             NEW strict \in BOOLEAN, Issue(h, type, u, strict)
      PROVE  HeldByOne'
  <2>1. ~Issued(h) /\ until'[h] # 0 /\ tried'[h] = 0 /\ Issued(h)'
    <3>1. ~Issued(h) /\ Issued(h)'
      BY <1>1, IssueKeeps
    <3>2. tried[h] = 0
      BY <3>1 DEF HeldByOne
    <3>3. until' = [until EXCEPT ![h] = now + Ttl] /\ tried' = tried
      BY <1>1 DEF Issue
    <3>4. until \in [Challenges -> Nat] /\ now \in Nat
      BY DEF TypeOK
    <3> QED BY <3>1, <3>2, <3>3, <3>4, ConstantsAssumption
  <2>2. ASSUME NEW g \in Challenges, g # h
        PROVE  until'[g] = until[g] /\ tried'[g] = tried[g] /\ Issued(g)' = Issued(g)
    BY <1>1, <2>2, IssueKeeps DEF Issue, TypeOK, Issued
  <2>3. ASSUME NEW c \in Callers, Holding(c)
        PROVE  ChallengeOf(c) \in Challenges \ {h}
    <3>1. ChallengeOf(c) \in Challenges /\ loc[c].type \in Ceremonies
      BY <2>3 DEF Holding, ChallengeOf, TypeOK, Locals, Ends, Responses
    <3>2. Issued(ChallengeOf(c))
      BY <1>1, <2>3, <3>1, IssueKeeps DEF HeldByOne
    <3> QED BY <2>1, <3>1, <3>2
  <2>4. /\ pc' = pc /\ loc' = loc /\ \A c \in Callers : Holding(c)' = Holding(c) /\
                                              ChallengeOf(c)' = ChallengeOf(c)
    BY <1>1 DEF Issue, Holding, ChallengeOf
  <2>5. \A g \in Challenges \ {h} : context'[g] = context[g]
    BY <1>1, IssueKeeps
  <2> QED BY <2>1, <2>2, <2>3, <2>4, <2>5 DEF HeldByOne
<1>2. ASSUME NEW c \in Callers, NEW r \in Responses, NEW u \in SomeUser, Enrol(c, r, u)
      PROVE  HeldByOne'
  <2>1. [type |-> "registration", response |-> r, user |-> u, count |-> 0] \in Locals
    BY ConstantsAssumption DEF Locals, Ceremonies, Counts
  <2> QED BY <1>2, <2>1, TakingHolds DEF Enrol, Holding
<1>3. ASSUME NEW c \in Callers, NEW r \in Responses, SignIn(c, r)
      PROVE  HeldByOne'
  BY <1>3, LettingGoHolds DEF SignIn
<1>4. ASSUME NEW c \in Callers, Consume(c)
      PROVE  HeldByOne'
  BY <1>4, TakingHolds DEF Consume, Holding, TypeOK
<1>5. ASSUME NEW c \in Callers, Check(c)
      PROVE  HeldByOne'
  <2>1. CASE ~Passes(loc[c])
    BY <1>5, <2>1, LettingGoHolds DEF Check, Return
  <2>2. CASE Passes(loc[c])
    <3>1. Goto(c, "write", [type |-> loc[c].type, response |-> loc[c].response,
                            user |-> Subject(loc[c]), at |-> now])
      BY <1>5, <2>2 DEF Check
    <3>2. \A d \in Callers : /\ Holding(d)' = Holding(d)
                             /\ ChallengeOf(d)' = ChallengeOf(d)
                             /\ loc'[d].type = loc[d].type
      BY <1>5, <3>1, GotoOnly DEF Check, Holding, ChallengeOf
    <3> QED BY <1>5, <3>2 DEF HeldByOne, Check, Issued
  <2> QED BY <2>1, <2>2
<1>6. ASSUME NEW c \in Callers, Write(c)
      PROVE  HeldByOne'
  BY <1>6, LettingGoHolds DEF Write, Return
<1>7. ASSUME NEW c \in Callers, Fail(c)
      PROVE  HeldByOne'
  BY <1>7, LettingGoHolds DEF Fail, Return
<1>8. CASE Tick
  BY <1>8 DEF Tick, HeldByOne, Issued, Holding, ChallengeOf
<1>9. CASE UNCHANGED vars
  BY <1>9 DEF vars, HeldByOne, Issued, Holding, ChallengeOf
<1> QED BY <1>1, <1>2, <1>3, <1>4, <1>5, <1>6, <1>7, <1>8, <1>9
        DEF Next, Start, Respond, Ceremonies, SomeUser

-----------------------------------------------------------------------------
(***************************************************************************)
(* Whose each credential is.                                               *)
(***************************************************************************)
\* A call that keeps its place and variables keeps its part of the invariant.
LEMMA OthersKept ==
  ASSUME TypeOK, NEW c \in Callers, NEW place, NEW l, Goto(c, place, l),
         NEW d \in Callers, d # c
  PROVE  /\ Enrolling(d)' = Enrolling(d) /\ SigningIn(d)' = SigningIn(d)
         /\ ChallengeOf(d)' = ChallengeOf(d) /\ CredentialOf(d)' = CredentialOf(d)
         /\ pc'[d] = pc[d] /\ loc'[d] = loc[d]
BY GotoOnly DEF Enrolling, SigningIn, Holding, ChallengeOf, CredentialOf

LEMMA CallTyped ==
  ASSUME TypeOK, NEW c \in Callers, Enrolling(c) \/ SigningIn(c)
  PROVE  CredentialOf(c) \in Credentials /\ ChallengeOf(c) \in Challenges
<1>1. loc[c] \in Locals \cup Ends
  BY DEF Enrolling, SigningIn, Holding, TypeOK, Places
<1> QED BY <1>1 DEF CredentialOf, ChallengeOf, Locals, Ends, Responses

LEMMA FreedOwnership ==
  ASSUME TypeOK, Ownership, NEW c \in Callers, Goto(c, "idle", NoChallenge),
         UNCHANGED <<made, owner, context, tried>>
  PROVE  Ownership'
<1>1. ~Enrolling(c)' /\ ~SigningIn(c)'
  BY GotoOnly DEF Enrolling, SigningIn, Holding
<1> QED BY <1>1, OthersKept DEF Ownership, Issued

LEMMA OwnershipStep ==
  ASSUME IInv, [Next]_vars
  PROVE  Ownership'
<1> USE DEF IInv
<1>1. ASSUME NEW h \in Challenges, NEW type \in Ceremonies, NEW u \in SomeUser,
             NEW strict \in BOOLEAN, Issue(h, type, u, strict)
      PROVE  Ownership'
  <2>1. \A k \in Credentials : made[k] # NoChallenge =>
          context'[made[k]] = context[made[k]] /\ Issued(made[k])'
    <3> TAKE k \in Credentials
    <3> HAVE made[k] # NoChallenge
    <3>1. made[k] \in Challenges /\ Issued(made[k])
      BY DEF TypeOK, Ownership
    <3>2. made[k] # h
      BY <1>1, <3>1, IssueKeeps
    <3>3. context'[made[k]] = context[made[k]]
      BY <1>1, <3>1, <3>2, IssueKeeps
    <3>4. made' = made
      BY <1>1 DEF Issue
    <3> QED BY <3>1, <3>3, <3>4 DEF Issued
  <2>2. UNCHANGED <<pc, loc, owner, made, tried>>
    BY <1>1 DEF Issue
  <2> QED BY <2>1, <2>2
          DEF Ownership, Enrolling, SigningIn, Holding, ChallengeOf, CredentialOf
<1>2. ASSUME NEW c \in Callers, NEW r \in Responses, NEW u \in SomeUser, Enrol(c, r, u)
      PROVE  Ownership'
  <2> DEFINE l == [type |-> "registration", response |-> r, user |-> u, count |-> 0]
             h == r.challenge
             k == r.credential
  <2>1. h \in Challenges /\ k \in Credentials /\ Issued(h) /\ h # NoChallenge
    BY <1>2, ConstantsAssumption DEF Responses, Enrol
  <2>2. /\ Take(c, l) /\ UNCHANGED <<owner, context>> /\ made' = Made(r)
        /\ made[k] = h \/ owner[k] = NoUser
        /\ made[k] \in {NoChallenge, h}
    BY <1>2 DEF Enrol
  <2>3. Found("registration", h) => until[h] # 0 /\ tried[h] = 0 /\ owner[k] = NoUser
    <3> HAVE Found("registration", h)
    <3>1. until[h] # 0 /\ tried[h] = 0
      BY <2>1 DEF Found, TypeOK, HeldByOne
    <3> QED BY <2>1, <2>2, <3>1 DEF Ownership
  <2>4. /\ Found("registration", h) =>
             Goto(c, "check", l) /\ tried' = [tried EXCEPT ![h] = @ + 1]
        /\ ~Found("registration", h) => Goto(c, "idle", NoChallenge) /\ tried' = tried
    BY <2>2 DEF Take, Return
  <2>5. \A j \in Credentials : made[j] # NoChallenge => made'[j] = made[j]
    BY <2>1, <2>2 DEF Made, TypeOK
  <2>6. ASSUME NEW j \in Credentials, made'[j] # NoChallenge
        PROVE  /\ Issued(made'[j])
               /\ owner[j] # NoUser => /\ owner[j] = context[made'[j]].user
                                       /\ tried'[made'[j]] = 1
    <3>1. CASE made'[j] = made[j]
      <4>1. made[j] \in Challenges
        BY <2>6, <3>1 DEF TypeOK
      <4>2. owner[j] # NoUser => tried'[made[j]] = 1
        BY <2>3, <2>4, <2>6, <3>1, <4>1, <2>1 DEF Ownership, TypeOK
      <4> QED BY <2>6, <3>1, <4>2 DEF Ownership
    <3>2. CASE made'[j] # made[j]
      <4>1. j = k /\ made'[j] = h /\ owner[j] = NoUser
        BY <2>1, <2>2, <3>2 DEF Made, TypeOK
      <4> QED BY <4>1, <2>1
    <3> QED BY <3>1, <3>2
  <2>7. ASSUME NEW d \in Callers, Enrolling(d)'
        PROVE  made'[CredentialOf(d)'] = ChallengeOf(d)' /\ owner[CredentialOf(d)'] = NoUser
    <3>1. CASE d = c
      <4>1. Found("registration", h) /\ loc'[c] = l
        BY <2>4, <2>7, <3>1, GotoOnly DEF Enrolling, Holding
      <4>2. r.sound /\ CredentialOf(d)' = k /\ ChallengeOf(d)' = h
        BY <2>7, <3>1, <4>1 DEF Enrolling, CredentialOf, ChallengeOf
      <4> QED BY <2>1, <2>2, <2>3, <4>1, <4>2 DEF Made, TypeOK
    <3>2. CASE d # c
      <4>1. /\ Enrolling(d) /\ ChallengeOf(d)' = ChallengeOf(d)
            /\ CredentialOf(d)' = CredentialOf(d)
        BY <2>4, <2>7, <3>2, OthersKept
      <4>2. CredentialOf(d) \in Credentials /\ ChallengeOf(d) \in Challenges
        BY <4>1, CallTyped
      <4>3. made[CredentialOf(d)] = ChallengeOf(d) /\ owner[CredentialOf(d)] = NoUser
        BY <4>1 DEF Ownership
      <4> QED BY <2>5, <4>1, <4>2, <4>3, ConstantsAssumption
    <3> QED BY <3>1, <3>2
  <2>8. ASSUME NEW d \in Callers, SigningIn(d)'
        PROVE  SigningIn(d) /\ loc'[d] = loc[d] /\ CredentialOf(d)' = CredentialOf(d)
    <3>1. d # c
      BY <2>4, <2>8, GotoOnly DEF SigningIn
    <3> QED BY <2>4, <2>8, <3>1, OthersKept
  <2> HIDE DEF l, h, k
  <2> QED BY <2>2, <2>6, <2>7, <2>8 DEF Ownership, Issued
<1>3. ASSUME NEW c \in Callers, NEW r \in Responses, SignIn(c, r)
      PROVE  Ownership'
  <2>1. /\ UNCHANGED <<made, owner, context, tried>> /\ owner[r.credential] # NoUser
        /\ Goto(c, "take", [type |-> "authentication", response |-> r,
                  user |-> owner[r.credential], count |-> signCount[r.credential]])
    BY <1>3 DEF SignIn
  <2>2. /\ ~Enrolling(c)' /\ loc'[c].user = owner[r.credential]
        /\ CredentialOf(c)' = r.credential
    BY <2>1, GotoOnly DEF Enrolling, Holding, CredentialOf
  <2> QED BY <2>1, <2>2, OthersKept DEF Ownership, Issued
<1>4. ASSUME NEW c \in Callers, Consume(c)
      PROVE  Ownership'
  <2>1. /\ Take(c, loc[c]) /\ pc[c] = "take" /\ loc[c] \in Locals
        /\ loc[c].type = "authentication" /\ UNCHANGED <<made, owner, context>>
    BY <1>4 DEF Consume, Checked, TypeOK
  <2>2. ChallengeOf(c) \in Challenges
    BY <2>1 DEF ChallengeOf, Locals, Responses
  <2>3. CASE ~Found(loc[c].type, ChallengeOf(c))
    BY <2>1, <2>3, FreedOwnership DEF Take, Return, ChallengeOf
  <2>4. CASE Found(loc[c].type, ChallengeOf(c))
    <3>1. Goto(c, "check", loc[c]) /\ tried' = [tried EXCEPT ![ChallengeOf(c)] = @ + 1]
      BY <2>1, <2>4 DEF Take, ChallengeOf
    <3>2. tried[ChallengeOf(c)] = 0
      BY <2>2, <2>4 DEF Found, TypeOK, HeldByOne
    <3>3. \A k \in Credentials : made[k] # NoChallenge /\ owner[k] # NoUser =>
            tried'[made[k]] = 1
      BY <2>2, <3>1, <3>2 DEF TypeOK, Ownership
    <3>4. /\ ~Enrolling(c)' /\ loc'[c] = loc[c] /\ CredentialOf(c)' = CredentialOf(c)
          /\ SigningIn(c)
      BY <2>1, <3>1, GotoOnly DEF Enrolling, SigningIn, CredentialOf
    <3>5. \A d \in Callers : Enrolling(d)' => d # c /\ Enrolling(d)
      BY <3>1, <3>4, OthersKept
    <3>6. \A d \in Callers : SigningIn(d)' =>
            SigningIn(d) /\ loc'[d] = loc[d] /\ CredentialOf(d)' = CredentialOf(d)
      BY <3>1, <3>4, OthersKept
    <3> QED BY <2>1, <3>1, <3>3, <3>5, <3>6, OthersKept DEF Ownership, Issued
  <2> QED BY <2>3, <2>4
<1>5. ASSUME NEW c \in Callers, Check(c)
      PROVE  Ownership'
  <2>1. CASE ~Passes(loc[c])
    BY <1>5, <2>1, FreedOwnership DEF Check, Return
  <2>2. CASE Passes(loc[c])
    <3>1. Goto(c, "write", [type |-> loc[c].type, response |-> loc[c].response,
                            user |-> Subject(loc[c]), at |-> now])
      BY <1>5, <2>2 DEF Check
    <3>2. /\ loc'[c].type = loc[c].type /\ loc'[c].response = loc[c].response
          /\ loc'[c].user = Subject(loc[c])
      BY <3>1, GotoOnly
    <3>3. /\ Enrolling(c)' = Enrolling(c) /\ SigningIn(c)' = SigningIn(c)
          /\ ChallengeOf(c)' = ChallengeOf(c) /\ CredentialOf(c)' = CredentialOf(c)
          /\ SigningIn(c) => loc'[c].user = loc[c].user
      BY <1>5, <3>1, <3>2, GotoOnly
         DEF Check, Enrolling, SigningIn, Holding, ChallengeOf, CredentialOf, Subject
    <3>4. UNCHANGED <<made, owner, context, tried>>
      BY <1>5 DEF Check
    <3> QED BY <3>1, <3>3, <3>4, OthersKept DEF Ownership, Issued
  <2> QED BY <2>1, <2>2
<1>6. ASSUME NEW c \in Callers, Write(c)
      PROVE  Ownership'
  <2>1. /\ Goto(c, "idle", NoChallenge) /\ UNCHANGED <<made, context, tried>>
        /\ AsAsked(loc[c]) /\ loc[c] \in Ends /\ pc[c] = "write"
    BY <1>6 DEF Write, Return, Checked, TypeOK
  <2>2. CASE loc[c].type = "registration"
    <3>1. Enrolling(c) /\ CredentialOf(c) \in Credentials /\ ChallengeOf(c) \in Challenges
      BY <2>1, <2>2, CallTyped DEF Enrolling, Holding, AsAsked
    <3>2. /\ made[CredentialOf(c)] = ChallengeOf(c) /\ owner[CredentialOf(c)] = NoUser
          /\ tried[ChallengeOf(c)] = 1 /\ loc[c].user = context[ChallengeOf(c)].user
          /\ loc[c].user # NoUser
      BY <2>1, <2>2, <3>1 DEF Ownership, HeldByOne, Enrolling, AsAsked, ChallengeOf
    <3>3. owner' = [owner EXCEPT ![CredentialOf(c)] = loc[c].user]
      BY <1>6, <2>2 DEF Write, CredentialOf
    <3>4. ASSUME NEW d \in Callers, Enrolling(d) \/ SigningIn(d), d # c
          PROVE  CredentialOf(d) # CredentialOf(c)
      <4>1. ASSUME Enrolling(d), CredentialOf(d) = CredentialOf(c) PROVE FALSE
        BY <4>1, <3>1, <3>2, <3>4 DEF Ownership, HeldByOne, Enrolling
      <4>2. ASSUME SigningIn(d), CredentialOf(d) = CredentialOf(c) PROVE FALSE
        BY <4>2, <3>2 DEF Ownership
      <4> QED BY <3>4, <4>1, <4>2
    <3>5. \A d \in Callers : Enrolling(d)' \/ SigningIn(d)' => d # c
      BY <2>1, GotoOnly DEF Enrolling, SigningIn, Holding
    <3>6. \A k \in Credentials : made[k] # NoChallenge => Issued(made[k])
            /\ (owner'[k] # NoUser => owner'[k] = context[made[k]].user /\ tried[made[k]] = 1)
      BY <3>1, <3>2, <3>3 DEF Ownership, TypeOK
    <3>7. ASSUME NEW d \in Callers, Enrolling(d)'
          PROVE  made[CredentialOf(d)'] = ChallengeOf(d)' /\ owner'[CredentialOf(d)'] = NoUser
      <4>1. /\ d # c /\ Enrolling(d) /\ CredentialOf(d)' = CredentialOf(d)
            /\ ChallengeOf(d)' = ChallengeOf(d)
        BY <2>1, <3>5, <3>7, OthersKept
      <4> QED BY <3>1, <3>3, <3>4, <4>1, CallTyped DEF Ownership, TypeOK
    <3>8. ASSUME NEW d \in Callers, SigningIn(d)'
          PROVE  loc'[d].user = owner'[CredentialOf(d)'] /\ loc'[d].user # NoUser
      <4>1. /\ d # c /\ SigningIn(d) /\ CredentialOf(d)' = CredentialOf(d)
            /\ loc'[d] = loc[d]
        BY <2>1, <3>5, <3>8, OthersKept
      <4> QED BY <3>1, <3>3, <3>4, <4>1, CallTyped DEF Ownership, TypeOK
    <3> QED BY <2>1, <3>6, <3>7, <3>8 DEF Ownership, Issued
  <2>3. CASE loc[c].type # "registration"
    <3>1. owner' = owner
      BY <1>6, <2>3 DEF Write, TypeOK
    <3> QED BY <2>1, <3>1, FreedOwnership
  <2> QED BY <2>2, <2>3
<1>7. ASSUME NEW c \in Callers, Fail(c)
      PROVE  Ownership'
  BY <1>7, FreedOwnership DEF Fail, Return
<1>8. CASE Tick
  BY <1>8 DEF Tick, Ownership, Issued, Enrolling, SigningIn, Holding, ChallengeOf, CredentialOf
<1>9. CASE UNCHANGED vars
  BY <1>9 DEF vars, Ownership, Issued, Enrolling, SigningIn, Holding, ChallengeOf, CredentialOf
<1> QED BY <1>1, <1>2, <1>3, <1>4, <1>5, <1>6, <1>7, <1>8, <1>9
        DEF Next, Start, Respond, Ceremonies, SomeUser

-----------------------------------------------------------------------------
(***************************************************************************)
(* What completed ceremonies were checked against.                         *)
(***************************************************************************)
\* What was asked stays what was asked.
LEMMA AskedKept ==
  ASSUME TypeOK, NEW a \in Ends, AsAsked(a),
         \A g \in Challenges : Issued(g) => context'[g] = context[g]
  PROVE  AsAsked(a)'
<1>1. a.response.challenge \in Challenges /\ a.type \in Ceremonies
  BY DEF Ends, Responses
<1>2. Issued(a.response.challenge)
  BY <1>1 DEF AsAsked, Issued, NoContext, Ceremonies
<1> QED BY <1>1, <1>2 DEF AsAsked

\* A step that writes nothing, and brings no call to its end, keeps the rest.
LEMMA CheckedKept ==
  ASSUME TypeOK, Checked, NEW c \in Callers, NEW place \in {"idle", "check"}, NEW l,
         Goto(c, place, l), UNCHANGED <<context, owner, accepted>>
  PROVE  Checked'
BY GotoOnly DEF Checked, AsAsked

LEMMA CheckedStep ==
  ASSUME IInv, [Next]_vars
  PROVE  Checked'
<1> USE DEF IInv
<1>1. ASSUME NEW h \in Challenges, NEW type \in Ceremonies, NEW u \in SomeUser,
             NEW strict \in BOOLEAN, Issue(h, type, u, strict)
      PROVE  Checked'
  <2>1. \A g \in Challenges : Issued(g) => context'[g] = context[g]
    BY <1>1, IssueKeeps
  <2>2. UNCHANGED <<pc, loc, owner, accepted>>
    BY <1>1 DEF Issue
  <2>3. \A c \in Callers : pc[c] = "write" => AsAsked(loc[c])'
    BY <2>1, <2>2, AskedKept DEF Checked, TypeOK
  <2>4. \A a \in accepted : AsAsked(a)'
    BY <2>1, AskedKept DEF Checked, TypeOK
  <2> QED BY <2>2, <2>3, <2>4 DEF Checked
<1>2. ASSUME NEW c \in Callers, NEW r \in Responses, NEW u \in SomeUser, Enrol(c, r, u)
      PROVE  Checked'
  BY <1>2, CheckedKept DEF Enrol, Take, Return
<1>3. ASSUME NEW c \in Callers, NEW r \in Responses, SignIn(c, r)
      PROVE  Checked'
  BY <1>3, GotoOnly DEF SignIn, Checked, AsAsked
<1>4. ASSUME NEW c \in Callers, Consume(c)
      PROVE  Checked'
  BY <1>4, CheckedKept DEF Consume, Take, Return
<1>5. ASSUME NEW c \in Callers, Check(c)
      PROVE  Checked'
  <2>1. CASE ~Passes(loc[c])
    BY <1>5, <2>1, CheckedKept DEF Check, Return
  <2>2. CASE Passes(loc[c])
    <3> DEFINE l == [type |-> loc[c].type, response |-> loc[c].response,
                     user |-> Subject(loc[c]), at |-> now]
    <3>1. Goto(c, "write", l) /\ UNCHANGED <<context, owner, accepted>>
      BY <1>5, <2>2 DEF Check
    <3>2. loc[c] \in Locals /\ Holding(c) /\ pc[c] = "check"
      BY <1>5 DEF Check, TypeOK, Holding
    <3>3. context[l.response.challenge].type = l.type
      BY <3>2 DEF HeldByOne, ChallengeOf
    <3>4. CASE loc[c].type = "registration"
      <4>1. l.user = context[l.response.challenge].user /\ l.user # NoUser
        BY <2>2, <3>4 DEF Passes, RightUser, Subject
      <4>2. AsAsked(l)
        BY <2>2, <3>2, <3>3, <4>1 DEF AsAsked, Passes, Expired, TypeOK, Contexts,
                                      Locals, Responses
      <4> HIDE DEF l
      <4> QED BY <3>1, <4>2, GotoOnly DEF Checked, AsAsked
    <3>5. CASE loc[c].type # "registration"
      <4>1. loc[c].type = "authentication" /\ SigningIn(c)
        BY <3>2, <3>5 DEF Locals, Ceremonies, SigningIn
      <4>2. l.user = loc[c].user /\ l.user # NoUser
        BY <3>5, <4>1 DEF Subject, Ownership
      <4>3. context[l.response.challenge].user \in {NoUser, l.user}
        BY <2>2, <3>5, <4>2 DEF Passes, RightUser
      <4>4. AsAsked(l)
        BY <2>2, <3>2, <3>3, <4>1, <4>2, <4>3 DEF AsAsked, Passes, Expired, TypeOK,
                                       Contexts, Locals, Responses
      <4> HIDE DEF l
      <4> QED BY <3>1, <4>4, GotoOnly DEF Checked, AsAsked
    <3> QED BY <3>4, <3>5
  <2> QED BY <2>1, <2>2
<1>6. ASSUME NEW c \in Callers, Write(c)
      PROVE  Checked'
  <2> DEFINE k == CredentialOf(c)
  <2>1. /\ Goto(c, "idle", NoChallenge) /\ context' = context
        /\ accepted' = accepted \cup {loc[c]}
        /\ AsAsked(loc[c]) /\ loc[c] \in Ends /\ pc[c] = "write"
        /\ k \in Credentials
    BY <1>6 DEF Write, Return, Checked, TypeOK, CredentialOf, Ends, Responses
  <2>2. /\ \A j \in Credentials \ {k} : owner'[j] = owner[j]
        /\ owner'[k] = loc[c].user
        /\ \A a \in accepted : a.response.credential = k => owner'[k] = owner[k]
    <3>1. CASE loc[c].type = "registration"
      <4>1. owner' = [owner EXCEPT ![k] = loc[c].user]
        BY <1>6, <3>1 DEF Write, CredentialOf
      <4>2. owner[k] = NoUser
        BY <2>1, <3>1 DEF Ownership, Enrolling, Holding, AsAsked
      <4>3. \A a \in accepted : a.response.credential # k
        BY <4>2 DEF Checked, AsAsked
      <4> QED BY <2>1, <4>1, <4>3 DEF TypeOK
    <3>2. CASE loc[c].type # "registration"
      <4>1. owner' = owner
        BY <1>6, <3>2 DEF Write, TypeOK
      <4>2. SigningIn(c)
        BY <2>1, <3>2 DEF SigningIn, Ends, Ceremonies
      <4> QED BY <4>1, <4>2 DEF Ownership
    <3> QED BY <3>1, <3>2
  <2>3. ASSUME NEW a \in accepted'
        PROVE  AsAsked(a)' /\ owner'[a.response.credential] = a.user
    <3>1. CASE a \in accepted
      <4>1. a.response.credential \in Credentials
        BY <3>1 DEF TypeOK, Ends, Responses
      <4> QED BY <2>1, <2>2, <3>1, <4>1 DEF Checked, AsAsked
    <3>2. CASE a = loc[c]
      BY <2>1, <2>2, <3>2 DEF AsAsked, CredentialOf
    <3> QED BY <2>1, <3>1, <3>2
  <2> HIDE DEF k
  <2> QED BY <2>1, <2>3, GotoOnly DEF Checked, AsAsked
<1>7. ASSUME NEW c \in Callers, Fail(c)
      PROVE  Checked'
  BY <1>7, CheckedKept DEF Fail, Return
<1>8. CASE Tick
  BY <1>8 DEF Tick, Checked, AsAsked
<1>9. CASE UNCHANGED vars
  BY <1>9 DEF vars, Checked, AsAsked
<1> QED BY <1>1, <1>2, <1>3, <1>4, <1>5, <1>6, <1>7, <1>8, <1>9
        DEF Next, Start, Respond, Ceremonies, SomeUser

-----------------------------------------------------------------------------
(***************************************************************************)
(* The counter of a credential whose sign-ins do not overlap.              *)
(***************************************************************************)
\* The part of CounterIsHighest that is about one credential.
Highest(k) ==
    /\ \A c, d \in Callers :
          /\ SigningIn(c) /\ CredentialOf(c) = k
          /\ SigningIn(d) /\ CredentialOf(d) = k
          => c = d
    /\ \A c \in Callers : SigningIn(c) /\ CredentialOf(c) = k =>
          /\ pc[c] \in {"take", "check"} => loc[c].count = signCount[k]
          /\ pc[c] = "write" => \/ loc[c].response.count > signCount[k]
                                \/ (loc[c].response.count = 0 /\ signCount[k] = 0)
    /\ \A a \in accepted : a.response.credential = k =>
          a.response.count <= signCount[k]

LEMMA HighestIs == CounterIsHighest <=> \A k \in Credentials \ shared : Highest(k)
BY DEF CounterIsHighest, Highest

\* A step of one call that is not a sign-in afterwards, or is as it was.
LEMMA HighestKept ==
  ASSUME TypeOK, NEW k \in Credentials, Highest(k), NEW c \in Callers, NEW place, NEW l,
         Goto(c, place, l), UNCHANGED <<signCount, accepted>>,
         \/ place = "idle"
         \/ l.type = "registration"
         \/ place = "check" /\ pc[c] = "take" /\ l = loc[c]
  PROVE  Highest(k)'
<1>1. SigningIn(c)' => /\ SigningIn(c) /\ pc[c] = "take" /\ pc'[c] = "check"
                       /\ loc'[c] = loc[c]
  BY GotoOnly DEF SigningIn
<1>2. \A d \in Callers : SigningIn(d)' =>
        /\ SigningIn(d) /\ CredentialOf(d)' = CredentialOf(d) /\ loc'[d] = loc[d]
        /\ pc'[d] \in {"take", "check"} => pc[d] \in {"take", "check"}
        /\ pc'[d] = "write" => pc[d] = "write"
  BY <1>1, OthersKept DEF CredentialOf
<1> QED BY <1>2 DEF Highest

LEMMA CounterStep ==
  ASSUME IInv, ~Lenient, [Next]_vars
  PROVE  CounterIsHighest'
<1> USE DEF IInv
<1>0. \A k \in Credentials \ shared : Highest(k)
  BY HighestIs
<1> SUFFICES ASSUME NEW k \in Credentials, k \notin shared'
             PROVE  Highest(k)'
  BY DEF CounterIsHighest, Highest
<1>1. ASSUME NEW h \in Challenges, NEW type \in Ceremonies, NEW u \in SomeUser,
             NEW strict \in BOOLEAN, Issue(h, type, u, strict)
      PROVE  Highest(k)'
  BY <1>0, <1>1 DEF Issue, Highest, SigningIn, CredentialOf
<1>2. ASSUME NEW c \in Callers, NEW r \in Responses, NEW u \in SomeUser, Enrol(c, r, u)
      PROVE  Highest(k)'
  <2>1. Highest(k)
    BY <1>0, <1>2 DEF Enrol
  <2> QED BY <1>2, <2>1, HighestKept DEF Enrol, Take, Return
<1>3. ASSUME NEW c \in Callers, NEW r \in Responses, SignIn(c, r)
      PROVE  Highest(k)'
  <2> DEFINE l == [type |-> "authentication", response |-> r,
                   user |-> owner[r.credential], count |-> signCount[r.credential]]
  <2>1. /\ Goto(c, "take", l) /\ UNCHANGED <<signCount, accepted>> /\ pc[c] = "idle"
        /\ Highest(k)
    BY <1>0, <1>3 DEF SignIn, TypeOK
  <2>2. r.credential = k => \A d \in Callers : ~(SigningIn(d) /\ CredentialOf(d) = k)
    BY <1>3 DEF SignIn
  <2>3. /\ SigningIn(c)' /\ CredentialOf(c)' = r.credential /\ pc'[c] = "take"
        /\ loc'[c].count = signCount[r.credential]
    BY <2>1, GotoOnly DEF SigningIn, CredentialOf
  <2>4. \A d \in Callers \ {c} :
          /\ SigningIn(d)' = SigningIn(d) /\ CredentialOf(d)' = CredentialOf(d)
          /\ pc'[d] = pc[d] /\ loc'[d] = loc[d]
    BY <2>1, OthersKept
  <2> HIDE DEF l
  <2> QED BY <2>1, <2>2, <2>3, <2>4 DEF Highest
<1>4. ASSUME NEW c \in Callers, Consume(c)
      PROVE  Highest(k)'
  <2>1. Highest(k)
    BY <1>0, <1>4 DEF Consume
  <2> QED BY <1>4, <2>1, HighestKept DEF Consume, Take, Return
<1>5. ASSUME NEW c \in Callers, Check(c)
      PROVE  Highest(k)'
  <2>1. Highest(k) /\ UNCHANGED <<signCount, accepted>>
    BY <1>0, <1>5 DEF Check
  <2>2. CASE ~Passes(loc[c])
    BY <1>5, <2>1, <2>2, HighestKept DEF Check, Return
  <2>3. CASE Passes(loc[c])
    <3>1. /\ Goto(c, "write", [type |-> loc[c].type, response |-> loc[c].response,
                               user |-> Subject(loc[c]), at |-> now])
          /\ pc[c] = "check" /\ loc[c] \in Locals
      BY <1>5, <2>3 DEF Check, TypeOK
    <3>2. /\ SigningIn(c)' = SigningIn(c) /\ CredentialOf(c)' = CredentialOf(c)
          /\ pc'[c] = "write" /\ loc'[c].response = loc[c].response
      BY <3>1, GotoOnly DEF SigningIn, CredentialOf
    <3>3. ASSUME SigningIn(c), CredentialOf(c) = k
          PROVE  \/ loc[c].response.count > signCount[k]
                 \/ (loc[c].response.count = 0 /\ signCount[k] = 0)
      <4>1. loc[c].count = signCount[k]
        BY <2>1, <3>1, <3>3 DEF Highest
      <4>2. CounterAdvanced(loc[c]) /\ loc[c].type = "authentication"
        BY <2>3, <3>3 DEF Passes, SigningIn
      <4> QED BY <4>1, <4>2 DEF CounterAdvanced
    <3>4. \A d \in Callers \ {c} :
            /\ SigningIn(d)' = SigningIn(d) /\ CredentialOf(d)' = CredentialOf(d)
            /\ pc'[d] = pc[d] /\ loc'[d] = loc[d]
      BY <3>1, OthersKept
    <3> QED BY <2>1, <3>2, <3>3, <3>4 DEF Highest
  <2> QED BY <2>2, <2>3
<1>6. ASSUME NEW c \in Callers, Write(c)
      PROVE  Highest(k)'
  <2>1. /\ Goto(c, "idle", NoChallenge) /\ Highest(k) /\ loc[c] \in Ends
        /\ pc[c] = "write" /\ accepted' = accepted \cup {loc[c]}
        /\ signCount' = [signCount EXCEPT ![CredentialOf(c)] = loc[c].response.count]
        /\ AsAsked(loc[c])
    BY <1>0, <1>6 DEF Write, Return, TypeOK, CredentialOf, Checked
  <2>2. CredentialOf(c) \in Credentials /\ loc[c].response.count \in Counts
    BY <2>1 DEF Ends, Responses, CredentialOf
  <2>3. \A d \in Callers : SigningIn(d)' =>
          /\ d # c /\ SigningIn(d) /\ CredentialOf(d)' = CredentialOf(d)
          /\ pc'[d] = pc[d] /\ loc'[d] = loc[d]
    BY <2>1, GotoOnly, OthersKept DEF SigningIn
  <2>4. CASE CredentialOf(c) # k
    <3>1. signCount'[k] = signCount[k] /\ loc[c].response.credential # k
      BY <2>1, <2>4 DEF TypeOK, CredentialOf
    <3> QED BY <2>1, <2>3, <3>1 DEF Highest
  <2>5. CASE CredentialOf(c) = k /\ loc[c].type = "authentication"
    <3>1. SigningIn(c)
      BY <2>1, <2>5 DEF SigningIn
    <3>2. \A d \in Callers : ~(SigningIn(d) /\ CredentialOf(d) = k)'
      BY <2>1, <2>3, <2>5, <3>1 DEF Highest
    <3>3. \/ loc[c].response.count > signCount[k]
          \/ (loc[c].response.count = 0 /\ signCount[k] = 0)
      BY <2>1, <2>5, <3>1 DEF Highest
    <3>4. signCount'[k] = loc[c].response.count /\ signCount[k] \in Int
          /\ loc[c].response.count \in Int
      BY <2>1, <2>2, <2>5 DEF TypeOK, Counts
    <3>5. \A a \in accepted : a.response.count \in Int
      BY DEF TypeOK, Ends, Responses, Counts
    <3> QED BY <2>1, <3>2, <3>3, <3>4, <3>5 DEF Highest
  <2>6. CASE CredentialOf(c) = k /\ loc[c].type = "registration"
    <3>1. owner[k] = NoUser
      BY <2>1, <2>6 DEF Ownership, Enrolling, Holding, AsAsked
    <3>2. \A d \in Callers : ~(SigningIn(d) /\ CredentialOf(d) = k)'
      BY <2>3, <3>1 DEF Ownership
    <3>3. \A a \in accepted : a.response.credential # k
      BY <3>1 DEF Checked, AsAsked
    <3>4. signCount'[k] = loc[c].response.count /\ loc[c].response.count \in Int
      BY <2>1, <2>2, <2>6 DEF TypeOK, Counts
    <3> QED BY <2>1, <3>2, <3>3, <3>4 DEF Highest
  <2> QED BY <2>1, <2>4, <2>5, <2>6 DEF Ends, Ceremonies
<1>7. ASSUME NEW c \in Callers, Fail(c)
      PROVE  Highest(k)'
  BY <1>0, <1>7, HighestKept DEF Fail, Return
<1>8. CASE Tick
  BY <1>0, <1>8 DEF Tick, Highest, SigningIn, CredentialOf
<1>9. CASE UNCHANGED vars
  BY <1>0, <1>9 DEF vars, Highest, SigningIn, CredentialOf
<1> QED BY <1>1, <1>2, <1>3, <1>4, <1>5, <1>6, <1>7, <1>8, <1>9
        DEF Next, Start, Respond, Ceremonies, SomeUser

-----------------------------------------------------------------------------
(***************************************************************************)
(* The theorems.                                                           *)
(***************************************************************************)
LEMMA InitHolds == Init => IInv
<1> SUFFICES ASSUME Init PROVE IInv
  OBVIOUS
<1>1. TypeOK
  BY InitTyped
<1>2. HeldByOne /\ Ownership /\ Checked
  BY DEF Init, HeldByOne, Ownership, Checked, Issued, Holding, Enrolling, SigningIn
<1>3. CounterIsHighest
  BY DEF Init, CounterIsHighest, SigningIn
<1> QED BY <1>1, <1>2, <1>3 DEF IInv

LEMMA NextHolds == IInv /\ [Next]_vars => IInv'
<1> SUFFICES ASSUME IInv, [Next]_vars PROVE IInv'
  OBVIOUS
<1>1. TypeOK'
  BY TypeStep DEF IInv
<1>2. (Lenient \/ CounterIsHighest)'
  BY CounterStep
<1> QED BY <1>1, <1>2, HeldStep, OwnershipStep, CheckedStep DEF IInv

\* The invariant of the ceremonies: where each challenge is, whose each
\* credential is, what completed ceremonies were checked against, and the counter.
THEOREM Invariance == Spec => []IInv
<1>1. Init => IInv
  BY InitHolds
<1>2. IInv /\ [Next]_vars => IInv'
  BY NextHolds
<1> QED BY <1>1, <1>2, PTL DEF Spec

\* Every variable keeps its type.
THEOREM TypeCorrect == Spec => []TypeOK
<1>1. IInv => TypeOK
  BY DEF IInv
<1> QED BY <1>1, Invariance, PTL

\* One response per challenge is looked at, whichever endpoint it reaches, and
\* however many arrive at once.
THEOREM ChallengesAreSingleUse == Spec => []TriedOnce
<1>1. IInv => TriedOnce
  BY DEF IInv, HeldByOne, TriedOnce
<1> QED BY <1>1, Invariance, PTL

\* A completed ceremony is the one that was started.
THEOREM CeremoniesEndAsAsked == Spec => []CompletedAsAsked
<1>1. IInv => CompletedAsAsked
  BY DEF IInv, Checked, AsAsked, CompletedAsAsked
<1> QED BY <1>1, Invariance, PTL

\* Where a regression is rejected and a credential's sign-ins never overlap, the
\* counts it reports rise, or it has none.
THEOREM CountersRise == Spec => CountersAdvance
<1> DEFINE A == \A a \in accepted' \ accepted, b \in accepted :
                  \/ Lenient
                  \/ a.response.credential # b.response.credential
                  \/ a.response.credential \in shared
                  \/ a.response.count > b.response.count
                  \/ (a.response.count = 0 /\ b.response.count = 0)
<1>1. IInv /\ [Next]_vars => [A]_vars
  <2> SUFFICES ASSUME IInv, Next, ~Lenient,
                      NEW a \in accepted' \ accepted, NEW b \in accepted,
                      a.response.credential = b.response.credential,
                      a.response.credential \notin shared
               PROVE  \/ a.response.count > b.response.count
                      \/ (a.response.count = 0 /\ b.response.count = 0)
    OBVIOUS
  <2> USE DEF IInv
  <2>1. PICK c \in Callers : Write(c)
    BY DEF Next, Start, Respond, Issue, Enrol, SignIn, Consume, Check, Fail, Tick
  <2>2. a = loc[c] /\ pc[c] = "write" /\ a \in Ends /\ AsAsked(a)
    BY <2>1 DEF Write, TypeOK, Checked
  <2>3. /\ CredentialOf(c) \in Credentials \ shared
        /\ CredentialOf(c) = b.response.credential
        /\ a.response.count \in Int /\ b.response.count \in Int
        /\ signCount[CredentialOf(c)] \in Int
    BY <2>2 DEF CredentialOf, Ends, Responses, TypeOK, Counts
  <2>4. a.type = "authentication"
    <3>1. owner[CredentialOf(c)] # NoUser
      BY <2>3 DEF Checked, AsAsked
    <3>2. a.type # "registration"
      BY <2>2, <3>1 DEF Ownership, Enrolling, Holding, AsAsked
    <3> QED BY <2>2, <3>2 DEF Ends, Ceremonies
  <2>5. /\ \/ a.response.count > signCount[CredentialOf(c)]
           \/ (a.response.count = 0 /\ signCount[CredentialOf(c)] = 0)
        /\ b.response.count <= signCount[CredentialOf(c)] /\ b.response.count >= 0
    BY <2>2, <2>3, <2>4 DEF CounterIsHighest, SigningIn, TypeOK, Ends, Responses, Counts
  <2> QED BY <2>3, <2>5
<1>2. Spec => [][A]_vars
  BY <1>1, Invariance, PTL DEF Spec
<1> QED BY <1>2 DEF CountersAdvance

-----------------------------------------------------------------------------
(***************************************************************************)
(* Attestation and metadata: a compromise takes effect within the life of  *)
(* a BLOB, what is accepted was made for this ceremony and credential, and *)
(* what an authenticator of an admitted model makes is accepted.           *)
(***************************************************************************)
(* The invariant *)

\* Of one of FIDO's entries, with what has been reported since.
IsEntry(e) ==
    /\ e = [aaguid |-> e.aaguid, roots |-> e.roots, reports |-> e.reports]
    /\ \A i \in DOMAIN e.reports : e.reports[i].date \in Nat \cup {None}
    /\ IsSequence(e.reports)
    /\ \E f \in Entries : f.aaguid = e.aaguid /\ f.roots = e.roots

IsList(entries) ==
    /\ \A e \in entries : IsEntry(e)
    /\ \A e, f \in entries : e.aaguid = f.aaguid /\ e.aaguid # None => e = f

\* The entries hold each report that was old by the time t, at its place.
HoldsReports(entries, t) ==
    \A e \in registry : \A i \in DOMAIN e.reports :
        Date(e.reports[i]) + Period < t =>
            \E f \in entries : /\ f.aaguid = e.aaguid
                               /\ i \in DOMAIN f.reports /\ f.reports[i] = e.reports[i]

ByFido(b) == b.x5c[1].signer = FidoRoot.key

BlobOK(b) ==
    /\ IsList(b.payload.entries)
    /\ \E cert : b.x5c = <<cert>>
    /\ b.payload.nextUpdate \in Int
    /\ ByFido(b) => /\ b.payload.nextUpdate <= clock + Period
                    /\ HoldsReports(b.payload.entries, b.payload.nextUpdate)

ClockOK == clock \in Nat /\ loaded \in Nat \cup {None} /\ (loaded # None => loaded <= clock)

\* A policy from metadata is of the entries of a BLOB that was not old then.
PolicyOK ==
    loaded # None => \E b \in blobs : /\ policy = toAttestationPolicy(b.payload.entries)
                                      /\ HoldsReports(b.payload.entries, loaded)

VerdictOK ==
    verdict # None =>
        \E r \in Registrations : \E s \in Variants(r) : \E part \in Parts :
            verdict = [of |-> r, mixed |-> s, part |-> part,
                       result |-> verifyAttestation(Mixed(r, s, part), policy)]

MetadataIInv ==
    /\ ClockOK
    /\ IsList(registry)
    /\ \A b \in blobs : BlobOK(b)
    /\ PolicyOK
    /\ VerdictOK

-----------------------------------------------------------------------------
(* Steps *)

LEMMA SequenceOf ==
    ASSUME NEW S, NEW t \in Seq(S), NEW R, \A i \in DOMAIN t : t[i] \in R
    PROVE  t \in Seq(R)
<1>1. PICK n \in Nat : DOMAIN t = 1 .. n /\ t \in [1 .. n -> S] /\ Len(t) = n
    OBVIOUS
<1>2. t \in [1 .. n -> R]
    BY <1>1
<1> QED
    BY <1>1, <1>2

LEMMA AppendKeeps ==
    ASSUME NEW s, IsSequence(s), NEW x
    PROVE  /\ IsSequence(Append(s, x))
           /\ DOMAIN s \subseteq DOMAIN Append(s, x)
           /\ \A i \in DOMAIN s : Append(s, x)[i] = s[i]
           /\ \A i \in DOMAIN Append(s, x) \ DOMAIN s : Append(s, x)[i] = x
<1> DEFINE S == {s[i] : i \in DOMAIN s} \cup {x}
           t == Append(s, x)
<1>1. s \in Seq({s[i] : i \in DOMAIN s})
    BY DEF IsSequence
<1>2. PICK n \in Nat : s \in [1 .. n -> {s[i] : i \in DOMAIN s}] /\ Len(s) = n
    BY <1>1
<1>3. s \in Seq(S)
  <2>1. s \in [1 .. n -> S]
    BY <1>2
  <2> QED
    BY <2>1, <1>2
<1>4. t \in Seq(S) /\ Len(t) = n + 1 /\ DOMAIN t = 1 .. n + 1
    BY <1>3, <1>2
<1>5. DOMAIN s = 1 .. n
    BY <1>2
<1>6. \A i \in 1 .. n : t[i] = s[i]
    BY <1>3, <1>2
<1>7. t[n + 1] = x
    BY <1>3, <1>2
<1>8. IsSequence(t)
  <2> DEFINE R == {t[i] : i \in DOMAIN t}
  <2>1. \A i \in DOMAIN t : t[i] \in R
    OBVIOUS
  <2> HIDE DEF R
  <2>2. t \in Seq(R)
    BY <2>1, <1>4, SequenceOf
  <2> QED
    BY <2>2 DEF IsSequence, R
<1>9. \A i \in DOMAIN t \ DOMAIN s : i = n + 1
    BY <1>4, <1>5
<1> QED
    BY <1>4, <1>5, <1>6, <1>7, <1>8, <1>9

LEMMA InitInvariant == MetadataInit => MetadataIInv
<1> SUFFICES ASSUME MetadataInit PROVE MetadataIInv
    OBVIOUS
<1>1. ClockOK
    BY DEF MetadataInit, ClockOK
<1>2. IsList(registry)
  <2>1. \A e \in Entries : IsEntry(e)
    BY EntriesAssumption DEF IsEntry
  <2> QED
    BY <2>1, EntriesAssumption DEF MetadataInit, IsList
<1>3. (\A b \in blobs : BlobOK(b)) /\ PolicyOK /\ VerdictOK
    BY DEF MetadataInit, PolicyOK, VerdictOK
<1> QED
    BY <1>1, <1>2, <1>3 DEF MetadataIInv

\* Dates are numbers.
LEMMA DateIsInt ==
    ASSUME NEW e, IsEntry(e), NEW i \in DOMAIN e.reports
    PROVE  Date(e.reports[i]) \in Int
BY DEF IsEntry, Date

LEMMA VerdictKept ==
    ASSUME VerdictOK, UNCHANGED <<verdict, policy, clock>>
    PROVE  VerdictOK'
<1>1. CASE verdict = None
    BY <1>1 DEF VerdictOK
<1>2. CASE verdict # None
  <2>1. PICK r \in Registrations : \E s \in Variants(r) : \E part \in Parts :
          verdict = [of |-> r, mixed |-> s, part |-> part,
                     result |-> verifyAttestation(Mixed(r, s, part), policy)]
    BY <1>2 DEF VerdictOK
  <2>2. PICK s \in Variants(r) : \E part \in Parts :
          verdict = [of |-> r, mixed |-> s, part |-> part,
                     result |-> verifyAttestation(Mixed(r, s, part), policy)]
    BY <2>1
  <2>3. PICK part \in Parts :
          verdict = [of |-> r, mixed |-> s, part |-> part,
                     result |-> verifyAttestation(Mixed(r, s, part), policy)]
    BY <2>2
  <2>4. Mixed(r, s, part)' = Mixed(r, s, part)
    BY DEF Mixed
  <2>5. verifyAttestation(Mixed(r, s, part), policy)' = verifyAttestation(Mixed(r, s, part), policy)
    BY <2>4
  <2> QED
    BY <2>3, <2>5 DEF VerdictOK
<1> QED
    BY <1>1, <1>2

LEMMA ReportInvariant == MetadataIInv /\ Report => MetadataIInv'
<1> SUFFICES ASSUME MetadataIInv, Report PROVE MetadataIInv'
    OBVIOUS
<1>1. PICK e \in registry, s \in Reported :
        /\ registry' = (registry \ {e}) \cup
                         {[e EXCEPT !.reports = Append(@, [status |-> s, date |-> clock])]}
        /\ UNCHANGED <<clock, blobs, policy, loaded, verdict>>
    BY DEF Report
<1> DEFINE told == [status |-> s, date |-> clock]
           longer == Append(e.reports, told)
           new == [e EXCEPT !.reports = longer]
<1>2. IsEntry(e) /\ clock \in Nat /\ registry' = (registry \ {e}) \cup {new} /\ told.date = clock
    BY <1>1 DEF MetadataIInv, IsList, ClockOK
<1>3. /\ IsSequence(longer)
      /\ DOMAIN e.reports \subseteq DOMAIN longer
      /\ \A i \in DOMAIN e.reports : longer[i] = e.reports[i]
      /\ \A i \in DOMAIN longer \ DOMAIN e.reports : longer[i] = told
    BY <1>2, AppendKeeps DEF IsEntry
<1> HIDE DEF told, longer
<1>4. new = [aaguid |-> e.aaguid, roots |-> e.roots, reports |-> longer]
    BY <1>2 DEF IsEntry
<1> HIDE DEF new
<1>5. new.aaguid = e.aaguid /\ new.roots = e.roots /\ new.reports = longer
    BY <1>4
<1>6. IsEntry(new)
  <2>1. \A i \in DOMAIN longer : longer[i].date \in Nat \cup {None}
    BY <1>2, <1>3 DEF IsEntry
  <2> QED
    BY <1>2, <1>3, <1>4, <1>5, <2>1 DEF IsEntry
<1>7. IsList(registry')
    BY <1>1, <1>2, <1>5, <1>6 DEF MetadataIInv, IsList
<1>8. ASSUME NEW entries, NEW t \in Int, t <= clock + Period, HoldsReports(entries, t)
      PROVE  HoldsReports(entries, t)'
  <2> SUFFICES ASSUME NEW f \in registry', NEW i \in DOMAIN f.reports,
                      Date(f.reports[i]) + Period < t
               PROVE  \E g \in entries : /\ g.aaguid = f.aaguid
                                         /\ i \in DOMAIN g.reports /\ g.reports[i] = f.reports[i]
    BY DEF HoldsReports
  <2>1. CASE f \in registry
    BY <2>1, <1>8 DEF HoldsReports
  <2>2. CASE f = new
    <3>1. CASE i \in DOMAIN e.reports
        BY <3>1, <2>2, <1>8, <1>3, <1>5, <1>1 DEF HoldsReports
    <3>2. CASE i \notin DOMAIN e.reports
      <4>1. Date(f.reports[i]) = clock
        BY <3>2, <2>2, <1>3, <1>5, <1>2, MetadataAssumption DEF Date
      <4> QED
        BY <4>1, <1>8, <1>2, MetadataAssumption
    <3> QED
        BY <3>1, <3>2
  <2> QED
    BY <2>1, <2>2, <1>2
<1>9. \A b \in blobs' : BlobOK(b)'
  <2> SUFFICES ASSUME NEW b \in blobs PROVE BlobOK(b)'
    BY <1>1
  <2>1. BlobOK(b) /\ clock' = clock
    BY <1>1 DEF MetadataIInv
  <2> QED
    BY <2>1, <1>8 DEF BlobOK
<1>10. PolicyOK'
  <2> SUFFICES ASSUME loaded # None
               PROVE  \E b \in blobs : /\ policy = toAttestationPolicy(b.payload.entries)
                                       /\ HoldsReports(b.payload.entries, loaded)'
    BY <1>1 DEF PolicyOK
  <2>1. PICK b \in blobs : /\ policy = toAttestationPolicy(b.payload.entries)
                           /\ HoldsReports(b.payload.entries, loaded)
    BY DEF MetadataIInv, PolicyOK
  <2>2. loaded \in Int /\ loaded <= clock + Period /\ loaded' = loaded
    BY <1>1, MetadataAssumption DEF MetadataIInv, ClockOK
  <2>3. HoldsReports(b.payload.entries, loaded)'
    BY <2>1, <2>2, <1>8
  <2> QED
    BY <2>1, <2>3
<1>11. ClockOK' /\ VerdictOK'
    BY <1>1, VerdictKept DEF MetadataIInv, ClockOK
<1> QED
    BY <1>7, <1>9, <1>10, <1>11 DEF MetadataIInv

\* What a BLOB of this service or another holds.
LEMMA BuiltBlob ==
    ASSUME NEW root, root # None, NEW key, NEW no, NEW due, NEW entries
    PROVE  LET b == buildMetadataBlob(root, key, no, due, entries) IN
           /\ b.payload.entries = entries /\ b.payload.nextUpdate = due
           /\ \E cert : b.x5c = <<cert>>
           /\ b.x5c[1].signer = root.key
BY DEF buildMetadataBlob, createCertificate

LEMMA PublishInvariant == MetadataIInv /\ Publish => MetadataIInv'
<1> SUFFICES ASSUME MetadataIInv, Publish PROVE MetadataIInv'
    OBVIOUS
<1>1. PICK due \in clock .. clock + Period, fido \in BOOLEAN :
        blobs' = blobs \cup
            {IF fido THEN buildMetadataBlob(FidoRoot, SignerKey, Cardinality(blobs), due, registry)
             ELSE buildMetadataBlob(OtherRoot, SignerKey2, Cardinality(blobs), due, Entries)}
    BY DEF Publish
<1>2. UNCHANGED <<clock, registry, policy, loaded, verdict>>
    BY DEF Publish
<1>3. clock \in Nat /\ due \in Int /\ due <= clock + Period /\ IsList(registry) /\ IsList(Entries)
  <2>1. IsList(Entries)
    BY EntriesAssumption DEF IsList, IsEntry
  <2> QED
    BY <2>1, MetadataAssumption DEF MetadataIInv, ClockOK
<1>4. ASSUME NEW entries, NEW t, HoldsReports(entries, t)
      PROVE  HoldsReports(entries, t)'
    BY <1>2, <1>4 DEF HoldsReports
<1>5. PICK b : /\ blobs' = blobs \cup {b}
               /\ b = IF fido THEN buildMetadataBlob(FidoRoot, SignerKey, Cardinality(blobs), due, registry)
                      ELSE buildMetadataBlob(OtherRoot, SignerKey2, Cardinality(blobs), due, Entries)
    BY <1>1
<1>6. BlobOK(b)'
  <2>1. CASE fido
    <3>1. /\ b.payload.entries = registry /\ b.payload.nextUpdate = due
          /\ \E cert : b.x5c = <<cert>>
        BY <2>1, <1>5, BuiltBlob, MetadataAssumption
    <3>2. HoldsReports(registry, due)
      <4> SUFFICES ASSUME NEW e \in registry, NEW i \in DOMAIN e.reports
                   PROVE  \E f \in registry : /\ f.aaguid = e.aaguid
                                   /\ i \in DOMAIN f.reports /\ f.reports[i] = e.reports[i]
        BY DEF HoldsReports
      <4> QED
        OBVIOUS
    <3> QED
        BY <3>1, <3>2, <1>2, <1>3, <1>4 DEF BlobOK
  <2>2. CASE ~fido
    <3>1. /\ b.payload.entries = Entries /\ b.payload.nextUpdate = due
          /\ \E cert : b.x5c = <<cert>>
          /\ b.x5c[1].signer = OtherRoot.key
        BY <2>2, <1>5, BuiltBlob, MetadataAssumption
    <3> QED
        BY <3>1, <1>3, MetadataAssumption DEF BlobOK, ByFido
  <2> QED
    BY <2>1, <2>2
<1>7. \A c \in blobs' : BlobOK(c)'
  <2> SUFFICES ASSUME NEW c \in blobs PROVE BlobOK(c)'
    BY <1>5, <1>6
  <2> QED
    BY <1>2, <1>4 DEF MetadataIInv, BlobOK
<1>8. PolicyOK'
    BY <1>2, <1>4, <1>5 DEF MetadataIInv, PolicyOK
<1>9. ClockOK' /\ VerdictOK' /\ IsList(registry)'
    BY <1>2 DEF MetadataIInv, ClockOK, VerdictOK, Publish
<1> QED
    BY <1>7, <1>8, <1>9 DEF MetadataIInv

\* A chain of one certificate has no issuers of its own, so a root ends it.
LEMMA OneCertificate ==
    ASSUME NEW cert, NEW root, chainReachesAnchor(<<cert>>, {root})
    PROVE  cert.signer = root.key
<1>1. PICK n \in 1 .. MAX_CHAIN_DEPTH : \E walk \in [1 .. n -> DOMAIN <<cert>>] :
        EndsAt(<<cert>>[walk[n]], {root})
    BY DEF chainReachesAnchor
<1>2. PICK walk \in [1 .. n -> DOMAIN <<cert>>] : EndsAt(<<cert>>[walk[n]], {root})
    BY <1>1
<1>3. n \in 1 .. n
    BY LimitsAssumption
<1>4. walk[n] = 1
    BY <1>2, <1>3
<1> QED
    BY <1>2, <1>4 DEF EndsAt, IssuedBy

LEMMA LoadInvariant == MetadataIInv /\ Load => MetadataIInv'
<1> SUFFICES ASSUME MetadataIInv, Load PROVE MetadataIInv'
    OBVIOUS
<1>1. PICK b \in blobs :
        /\ parseMetadataBlob(b, clock)
        /\ policy' = toAttestationPolicy(b.payload.entries)
        /\ loaded' = clock
        /\ UNCHANGED <<clock, registry, blobs, verdict>>
    BY DEF Load
<1>2. verdict = None
    BY DEF Load
<1>3. BlobOK(b) /\ clock \in Nat
    BY DEF MetadataIInv, ClockOK
<1>4. clock <= b.payload.nextUpdate
    BY <1>1, <1>3 DEF parseMetadataBlob, Stale, BlobOK
<1>5. ByFido(b)
  <2>1. PICK cert : b.x5c = <<cert>>
    BY <1>3 DEF BlobOK
  <2>2. chainReachesAnchor(b.x5c, {FidoRoot})
    BY <1>1 DEF parseMetadataBlob
  <2>3. chainReachesAnchor(<<cert>>, {FidoRoot})
    BY <2>1, <2>2
  <2> QED
    BY <2>1, <2>3, OneCertificate DEF ByFido
<1>6. ASSUME NEW entries, NEW t, HoldsReports(entries, t)
      PROVE  HoldsReports(entries, t)'
    BY <1>1, <1>6 DEF HoldsReports
<1>7. HoldsReports(b.payload.entries, clock)
  <2> SUFFICES ASSUME NEW e \in registry, NEW i \in DOMAIN e.reports,
                      Date(e.reports[i]) + Period < clock
               PROVE  \E f \in b.payload.entries :
                          /\ f.aaguid = e.aaguid
                          /\ i \in DOMAIN f.reports /\ f.reports[i] = e.reports[i]
    BY DEF HoldsReports
  <2>1. Date(e.reports[i]) \in Int
    BY DateIsInt DEF MetadataIInv, IsList
  <2>2. Date(e.reports[i]) + Period < b.payload.nextUpdate
    BY <2>1, <1>3, <1>4, MetadataAssumption DEF BlobOK
  <2> QED
    BY <2>2, <1>3, <1>5 DEF BlobOK, HoldsReports
<1>8. PolicyOK'
  <2>1. HoldsReports(b.payload.entries, loaded)'
    BY <1>1, <1>6, <1>7
  <2> QED
    BY <1>1, <2>1 DEF PolicyOK, HoldsReports
<1>9. \A c \in blobs' : BlobOK(c)'
  <2> SUFFICES ASSUME NEW c \in blobs PROVE BlobOK(c)'
    BY <1>1
  <2> QED
    BY <1>1, <1>6 DEF MetadataIInv, BlobOK
<1>10. ClockOK' /\ VerdictOK' /\ IsList(registry)'
    BY <1>1, <1>2, <1>3 DEF MetadataIInv, ClockOK, VerdictOK
<1> QED
    BY <1>8, <1>9, <1>10 DEF MetadataIInv

LEMMA OtherInvariant == MetadataIInv /\ (Register \/ Settle \/ MetadataTick \/ UNCHANGED metadataVars) => MetadataIInv'
<1> SUFFICES ASSUME MetadataIInv, Register \/ Settle \/ MetadataTick \/ UNCHANGED metadataVars PROVE MetadataIInv'
    OBVIOUS
<1>1. /\ UNCHANGED <<registry, blobs, policy, loaded>>
      /\ clock \in Nat /\ clock' \in Nat /\ clock <= clock'
    BY DEF Register, Settle, MetadataTick, metadataVars, MetadataIInv, ClockOK
<1>2. ASSUME NEW entries, NEW t, HoldsReports(entries, t)
      PROVE  HoldsReports(entries, t)'
    BY <1>1, <1>2 DEF HoldsReports
<1>3. \A c \in blobs' : BlobOK(c)'
  <2> SUFFICES ASSUME NEW c \in blobs PROVE BlobOK(c)'
    BY <1>1
  <2>1. BlobOK(c)
    BY DEF MetadataIInv
  <2>2. c.payload.nextUpdate <= clock + Period => c.payload.nextUpdate <= clock' + Period
    BY <2>1, <1>1, MetadataAssumption DEF BlobOK
  <2> QED
    BY <1>2, <2>1, <2>2 DEF BlobOK
<1>4. PolicyOK'
    BY <1>1, <1>2 DEF MetadataIInv, PolicyOK
<1>5. ClockOK'
    BY <1>1, MetadataAssumption DEF MetadataIInv, ClockOK
<1>6. VerdictOK'
  <2>1. CASE Register
    <3>1. PICK r \in Registrations : \E s \in Variants(r) : \E part \in Parts :
            verdict' = [of |-> r, mixed |-> s, part |-> part,
                        result |-> verifyAttestation(Mixed(r, s, part), policy)]
        BY <2>1 DEF Register
    <3>2. PICK s \in Variants(r) : \E part \in Parts :
            verdict' = [of |-> r, mixed |-> s, part |-> part,
                        result |-> verifyAttestation(Mixed(r, s, part), policy)]
        BY <3>1
    <3>3. PICK part \in Parts :
            verdict' = [of |-> r, mixed |-> s, part |-> part,
                        result |-> verifyAttestation(Mixed(r, s, part), policy)]
        BY <3>2
    <3>4. Mixed(r, s, part)' = Mixed(r, s, part) /\ policy' = policy
        BY <2>1 DEF Register, Mixed
    <3>5. verifyAttestation(Mixed(r, s, part), policy)' = verifyAttestation(Mixed(r, s, part), policy)
        BY <3>4
    <3> QED
        BY <3>3, <3>5 DEF VerdictOK
  <2>2. CASE Settle
    BY <2>2 DEF Settle, VerdictOK
  <2>3. CASE MetadataTick
    BY <2>3 DEF MetadataTick, VerdictOK
  <2>4. CASE UNCHANGED metadataVars
    BY <2>4, VerdictKept DEF metadataVars, MetadataIInv
  <2> QED
    BY <2>1, <2>2, <2>3, <2>4
<1>7. IsList(registry)'
    BY <1>1 DEF MetadataIInv
<1> QED
    BY <1>3, <1>4, <1>5, <1>6, <1>7 DEF MetadataIInv

\* The invariant holds always.
THEOREM MetadataInvariance == MetadataSpec => []MetadataIInv
<1>1. MetadataInit => MetadataIInv
    BY InitInvariant
<1>2. MetadataIInv /\ [MetadataNext]_metadataVars => MetadataIInv'
    BY ReportInvariant, PublishInvariant, LoadInvariant, OtherInvariant DEF MetadataNext
<1> QED
    BY <1>1, <1>2, PTL DEF MetadataSpec

-----------------------------------------------------------------------------
(* Compromises *)

\* mds.ts: once a compromise has been public for the life of a BLOB, no policy
\* that is drawn from metadata admits the model.
THEOREM CompromiseCounts == MetadataSpec => []CompromiseTakesEffect
<1>1. MetadataIInv => CompromiseTakesEffect
  <2> SUFFICES ASSUME MetadataIInv, loaded # None, NEW e \in registry, NEW i \in DOMAIN e.reports,
                      e.reports[i].status \in DISQUALIFYING_STATUSES,
                      Date(e.reports[i]) + Period < loaded,
                      e.aaguid \in policy.aaguids
               PROVE  FALSE
    BY DEF CompromiseTakesEffect
  <2>1. PICK b \in blobs : /\ policy = toAttestationPolicy(b.payload.entries)
                           /\ HoldsReports(b.payload.entries, loaded)
    BY DEF MetadataIInv, PolicyOK
  <2>2. PICK f \in b.payload.entries :
            f.aaguid = e.aaguid /\ i \in DOMAIN f.reports /\ f.reports[i] = e.reports[i]
    BY <2>1 DEF HoldsReports
  <2>3. PICK g \in b.payload.entries : Admitted(g) /\ g.aaguid = e.aaguid
    BY <2>1 DEF toAttestationPolicy
  <2>4. g.aaguid # None /\ ~Disqualified(g)
    BY <2>3 DEF Admitted
  <2>5. f = g
    BY <2>2, <2>3, <2>4 DEF MetadataIInv, BlobOK, IsList
  <2> QED
    BY <2>2, <2>4, <2>5 DEF Disqualified
<1> QED
    BY <1>1, MetadataInvariance, PTL

LEMMA FirstOfJoined ==
    ASSUME NEW x, NEW s, IsSequence(s)
    PROVE  /\ (<<x>> \o s)[1] = x
           /\ Len(<<x>> \o s) = Len(s) + 1 /\ Len(s) \in Nat
<1> DEFINE S == {s[i] : i \in DOMAIN s} \cup {x}
<1>1. s \in Seq({s[i] : i \in DOMAIN s})
    BY DEF IsSequence
<1>2. \A i \in DOMAIN s : s[i] \in S
    OBVIOUS
<1>3. x \in S
    OBVIOUS
<1> HIDE DEF S
<1>4. s \in Seq(S)
    BY <1>1, <1>2, SequenceOf
<1> QED
    BY <1>3, <1>4

-----------------------------------------------------------------------------
(* What a statement carries, and whose it is *)

\* A piece of a statement: of a registration r that was made.
LEMMA SignatureOf ==
    ASSUME NEW r, register(r).sig # None, r.format \in VERIFIABLE_FORMATS
    PROVE  LET sig == register(r).sig IN
           \/ /\ r.format = "android-key" \/ (r.format = "packed" /\ r.self)
              /\ sig.by = r.key /\ sig.over = Attested(r)
           \/ /\ r.format = "packed" /\ ~r.self
              /\ sig.by = r.attestationKey /\ sig.over = Attested(r)
           \/ /\ r.format = "fido-u2f" /\ sig.by = r.attestationKey
              /\ sig.over = VerificationData(buildAuthenticatorData(r), r.cdh)
           \/ /\ r.format = "tpm" /\ sig.by = r.attestationKey
              /\ sig.over = buildTpmCertInfo(buildTpmPublic(r.key), Attested(r))
<1>1. CASE r.format = "android-key"
    BY <1>1 DEF register, RegisterAndroidKey, EmptyStatement, Sign
<1>2. CASE r.format = "packed" /\ r.self
    BY <1>2 DEF register, RegisterSelf, EmptyStatement, Sign
<1>3. CASE r.format = "packed" /\ ~r.self
    BY <1>3 DEF register, RegisterPacked, EmptyStatement, Sign
<1>4. CASE r.format = "fido-u2f"
    BY <1>4 DEF register, RegisterU2f, EmptyStatement, Sign
<1>5. CASE r.format = "tpm"
    BY <1>5 DEF register, RegisterTpm, EmptyStatement, Sign
<1>6. CASE r.format = "apple"
    BY <1>6 DEF register, RegisterApple, EmptyStatement
<1>7. CASE r.format = "android-safetynet"
    BY <1>7 DEF register, RegisterSafetyNet, EmptyStatement
<1>8. CASE r.format = "none"
    BY <1>8 DEF register, EmptyStatement
<1> QED
    BY <1>1, <1>2, <1>3, <1>4, <1>5, <1>6, <1>7, <1>8 DEF VERIFIABLE_FORMATS

LEMMA ChainOf ==
    ASSUME NEW r, register(r).x5c # None, r.format \in VERIFIABLE_FORMATS,
           IsSequence(r.intermediates)
    PROVE  LET leaf == register(r).x5c[1] IN
           \/ /\ r.format = "apple" /\ leaf.key = r.key
              /\ leaf.ext.kind = "apple" /\ leaf.ext.value = Digest(Attested(r))
           \/ /\ r.format = "android-key" /\ leaf.key = r.key
              /\ leaf.ext.kind = "android" /\ leaf.ext.value = keyDescription(r.kept, r.cdh)
           \/ r.format = "tpm" /\ leaf.ext.kind = "aik" /\ leaf.ext.value = None
           \/ r.format = "fido-u2f" /\ leaf.ext.kind = "none"
           \/ /\ r.format = "packed" /\ ~r.self
              /\ leaf.ext.kind = "aaguid" /\ leaf.ext.value = [aaguid |-> r.aaguid]
<1>1. CASE r.format = "apple"
    BY <1>1 DEF register, RegisterApple, EmptyStatement, createCertificate
<1>2. CASE r.format = "android-key"
    BY <1>2 DEF register, RegisterAndroidKey, EmptyStatement, createCertificate
<1>3. CASE r.format = "tpm"
    BY <1>3 DEF register, RegisterTpm, EmptyStatement, createCertificate
<1>4. CASE r.format = "fido-u2f"
    BY <1>4 DEF register, RegisterU2f, EmptyStatement, createCertificate, NoExtension
<1>5. CASE r.format = "packed" /\ ~r.self
  <2> DEFINE leaf == createCertificate("leaf", r.issuer, r.attestationKey, FALSE,
                         [kind |-> "aaguid", value |-> [aaguid |-> r.aaguid]])
             S == {r.intermediates[i] : i \in DOMAIN r.intermediates} \cup {leaf}
  <2>1. register(r).x5c = <<leaf>> \o r.intermediates
    BY <1>5 DEF register, RegisterPacked, EmptyStatement
  <2>2. leaf.ext.kind = "aaguid" /\ leaf.ext.value = [aaguid |-> r.aaguid]
    BY DEF createCertificate
  <2> HIDE DEF leaf
  <2>3. (<<leaf>> \o r.intermediates)[1] = leaf
    BY FirstOfJoined
  <2> QED
    BY <1>5, <2>1, <2>2, <2>3
<1>6. CASE r.format = "packed" /\ r.self
    BY <1>6 DEF register, RegisterSelf, EmptyStatement
<1>7. CASE r.format = "android-safetynet"
    BY <1>7 DEF register, RegisterSafetyNet, EmptyStatement
<1>8. CASE r.format = "none"
    BY <1>8 DEF register, EmptyStatement
<1> QED
    BY <1>1, <1>2, <1>3, <1>4, <1>5, <1>6, <1>7, <1>8 DEF VERIFIABLE_FORMATS

LEMMA CertInfoOf ==
    ASSUME NEW r, register(r).certInfo # None, r.format \in VERIFIABLE_FORMATS
    PROVE  /\ r.format = "tpm"
           /\ register(r).certInfo = buildTpmCertInfo(buildTpmPublic(r.key), Attested(r))
<1>1. CASE r.format = "tpm"
    BY <1>1 DEF register, RegisterTpm, EmptyStatement
<1>2. CASE r.format # "tpm"
    BY <1>2 DEF register, RegisterApple, RegisterSafetyNet, RegisterAndroidKey, RegisterU2f,
                RegisterPacked, RegisterSelf, EmptyStatement, VERIFIABLE_FORMATS
<1> QED
    BY <1>1, <1>2

LEMMA ResponseOf ==
    ASSUME NEW r, register(r).response # None, r.format \in VERIFIABLE_FORMATS
    PROVE  LET w == register(r).response IN
           /\ r.format = "android-safetynet"
           /\ w.nonce = Digest(Attested(r)) /\ w.stamp = r.at /\ w.cts = r.cts
           /\ w.x5c[1].key = [r.attestationKey EXCEPT !.alg = "RS256"]
<1>1. CASE r.format = "android-safetynet"
    BY <1>1 DEF register, RegisterSafetyNet, EmptyStatement, createCertificate
<1>2. CASE r.format # "android-safetynet"
    BY <1>2 DEF register, RegisterApple, RegisterTpm, RegisterAndroidKey, RegisterU2f,
                RegisterPacked, RegisterSelf, EmptyStatement, VERIFIABLE_FORMATS
<1> QED
    BY <1>1, <1>2

-----------------------------------------------------------------------------
(* What a signature or a nonce binds *)

LEMMA SaysWhatIsSigned ==
    ASSUME NEW r, NEW in, Attested(r) = SignedData(in.auth, in.cdh), r.format # "fido-u2f"
    PROVE  Says(r, in)
<1>1. buildAuthenticatorData(r) = in.auth /\ r.cdh = in.cdh
    BY DEF Attested, SignedData
<1> QED
    BY <1>1 DEF Says, buildAuthenticatorData

\* The things that are signed are told apart.
LEMMA SignedApart ==
    ASSUME NEW auth, NEW cdh, NEW b, NEW c, NEW pub, NEW data
    PROVE  /\ SignedData(auth, cdh) # VerificationData(b, c)
           /\ SignedData(auth, cdh) # buildTpmCertInfo(pub, data)
           /\ VerificationData(b, c) # buildTpmCertInfo(pub, data)
<1>1. DOMAIN SignedData(auth, cdh) = {"auth", "cdh"}
    BY DEF SignedData
<1>2. DOMAIN VerificationData(b, c) = {"rpId", "cdh", "id", "key"}
    BY DEF VerificationData
<1>3. DOMAIN buildTpmCertInfo(pub, data) = {"generated", "certify", "extraData", "name"}
    BY DEF buildTpmCertInfo
<1> QED
    BY <1>1, <1>2, <1>3

LEMMA SignedResponse ==
    ASSUME NEW r \in AllMade, NEW in, NEW alg, NEW key,
           verifySignature(alg, key, SignedData(in.auth, in.cdh), register(r).sig)
    PROVE  /\ Says(r, in) /\ r.format \in {"android-key", "packed"}
           /\ key = IF r.format = "packed" /\ ~r.self THEN r.attestationKey ELSE r.key
<1>1. /\ register(r).sig # None /\ register(r).sig.by = key
      /\ register(r).sig.over = SignedData(in.auth, in.cdh)
    BY DEF verifySignature
<1>2. r.format \in VERIFIABLE_FORMATS
    BY RegistrationsAssumption
<1>3. r.format # "fido-u2f" /\ r.format # "tpm"
    BY <1>1, <1>2, SignatureOf, SignedApart
<1>4. /\ r.format \in {"android-key", "packed"} /\ register(r).sig.over = Attested(r)
      /\ key = IF r.format = "packed" /\ ~r.self THEN r.attestationKey ELSE r.key
    BY <1>1, <1>2, <1>3, SignatureOf
<1> QED
    BY <1>1, <1>4, SaysWhatIsSigned

-----------------------------------------------------------------------------
(* What each format accepts *)

\* A statement pieced together of those of r and s.
Pieces(in, r, s) ==
    /\ in.st.x5c \in {register(r).x5c, register(s).x5c}
    /\ in.st.sig \in {register(r).sig, register(s).sig}
    /\ in.st.certInfo \in {register(r).certInfo, register(s).certInfo}
    /\ in.st.response \in {register(r).response, register(s).response}

\* One of the two was made for this ceremony, and its key is the certificate's.
MadeOf(in, r, s) ==
    \E x \in {r, s} : /\ Says(x, in)
                      /\ Certificates(in)[1].key.id \in {x.key.id, x.attestationKey.id}

LEMMA AppleMade ==
    ASSUME NEW r \in AllMade, NEW s \in AllMade, NEW in, Pieces(in, r, s),
           in.fmt = "apple", NEW p, NEW anchors, Apple(in, p, anchors)
    PROVE  MadeOf(in, r, s)
<1>1. /\ in.st.x5c # None /\ in.st.x5c[1].ext.kind = "apple"
      /\ in.st.x5c[1].ext.value = Digest(SignedData(in.auth, in.cdh))
    BY DEF Apple, readX5c, verifyAppleAttestation
<1>2. PICK x \in {r, s} : in.st.x5c = register(x).x5c
    BY DEF Pieces
<1>3. x.format \in VERIFIABLE_FORMATS /\ IsSequence(x.intermediates)
    BY RegistrationsAssumption
<1>4. /\ x.format = "apple" /\ in.st.x5c[1].key = x.key
      /\ in.st.x5c[1].ext.value = Digest(Attested(x))
  <2>1. register(x).x5c # None /\ register(x).x5c[1].ext.kind = "apple"
    BY <1>1, <1>2
  <2>2. /\ x.format = "apple" /\ register(x).x5c[1].key = x.key
        /\ register(x).x5c[1].ext.value = Digest(Attested(x))
    BY <1>3, <2>1, ChainOf
  <2> QED
    BY <1>2, <2>2
<1>5. Says(x, in)
    BY <1>1, <1>4, SaysWhatIsSigned DEF Digest
<1> QED
    BY <1>1, <1>4, <1>5 DEF MadeOf, Certificates

LEMMA PackedMade ==
    ASSUME NEW r \in AllMade, NEW s \in AllMade, NEW in, Pieces(in, r, s),
           in.fmt = "packed", NEW p, NEW anchors, PackedBasic(in, p, anchors)
    PROVE  MadeOf(in, r, s)
<1>1. /\ in.st.x5c # None
      /\ verifySignature(in.st.alg, in.st.x5c[1].key, SignedData(in.auth, in.cdh), in.st.sig)
    BY DEF PackedBasic, readX5c
<1>2. PICK x \in {r, s} : in.st.sig = register(x).sig
    BY DEF Pieces
<1>3. PICK key : key = in.st.x5c[1].key
    OBVIOUS
<1>4. Says(x, in) /\ key = IF x.format = "packed" /\ ~x.self THEN x.attestationKey ELSE x.key
  <2>1. x \in AllMade
    OBVIOUS
  <2>2. verifySignature(in.st.alg, key, SignedData(in.auth, in.cdh), register(x).sig)
    BY <1>1, <1>2, <1>3
  <2> QED
    BY <2>1, <2>2, SignedResponse
<1> QED
    BY <1>1, <1>3, <1>4 DEF MadeOf, Certificates

LEMMA AndroidKeyMade ==
    ASSUME NEW r \in AllMade, NEW s \in AllMade, NEW in, Pieces(in, r, s),
           in.fmt = "android-key", NEW p, NEW anchors, AndroidKey(in, p, anchors)
    PROVE  MadeOf(in, r, s)
<1>1. /\ in.st.x5c # None
      /\ verifySignature(in.st.alg, in.st.x5c[1].key, SignedData(in.auth, in.cdh), in.st.sig)
    BY DEF AndroidKey, verifyAndroidKeyAttestation, readX5c
<1>2. PICK x \in {r, s} : in.st.sig = register(x).sig
    BY DEF Pieces
<1>3. PICK key : key = in.st.x5c[1].key
    OBVIOUS
<1>4. Says(x, in) /\ key = IF x.format = "packed" /\ ~x.self THEN x.attestationKey ELSE x.key
  <2>1. x \in AllMade
    OBVIOUS
  <2>2. verifySignature(in.st.alg, key, SignedData(in.auth, in.cdh), register(x).sig)
    BY <1>1, <1>2, <1>3
  <2> QED
    BY <2>1, <2>2, SignedResponse
<1> QED
    BY <1>1, <1>3, <1>4 DEF MadeOf, Certificates

LEMMA TpmMade ==
    ASSUME NEW r \in AllMade, NEW s \in AllMade, NEW in, Pieces(in, r, s),
           in.fmt = "tpm", NEW p, NEW anchors, Tpm(in, p, anchors)
    PROVE  MadeOf(in, r, s)
<1>1. /\ in.st.x5c # None /\ in.st.certInfo # None
      /\ in.st.certInfo.extraData = Digest(SignedData(in.auth, in.cdh))
      /\ verifySignature(in.st.alg, in.st.x5c[1].key, in.st.certInfo, in.st.sig)
    BY DEF Tpm, verifyTpmAttestation, readX5c
<1>2. PICK y \in {r, s} : in.st.certInfo = register(y).certInfo
    BY DEF Pieces
<1>3. PICK x \in {r, s} : in.st.sig = register(x).sig
    BY DEF Pieces
<1>4. x.format \in VERIFIABLE_FORMATS /\ y.format \in VERIFIABLE_FORMATS
    BY RegistrationsAssumption
<1>5. in.st.certInfo = buildTpmCertInfo(buildTpmPublic(y.key), Attested(y))
    BY <1>1, <1>2, <1>4, CertInfoOf
<1>6. /\ register(x).sig # None /\ register(x).sig.by = in.st.x5c[1].key
      /\ register(x).sig.over = in.st.certInfo
    BY <1>1, <1>3 DEF verifySignature
<1>7. /\ x.format = "tpm" /\ in.st.x5c[1].key = x.attestationKey
      /\ in.st.certInfo = buildTpmCertInfo(buildTpmPublic(x.key), Attested(x))
    BY <1>4, <1>5, <1>6, SignatureOf, SignedApart DEF Attested
<1>8. in.st.certInfo.extraData = Digest(Attested(x))
    BY <1>7 DEF buildTpmCertInfo
<1>9. Says(x, in)
    BY <1>1, <1>7, <1>8, SaysWhatIsSigned DEF Digest
<1> QED
    BY <1>1, <1>7, <1>9 DEF MadeOf, Certificates

LEMMA U2fMade ==
    ASSUME NEW r \in AllMade, NEW s \in AllMade, NEW in, Pieces(in, r, s),
           in.fmt = "fido-u2f", NEW p, NEW anchors, U2f(in, p, anchors)
    PROVE  MadeOf(in, r, s)
<1>1. /\ in.st.x5c # None
      /\ verifySignature("ES256", in.st.x5c[1].key, VerificationData(in.auth, in.cdh), in.st.sig)
    BY DEF U2f, verifyU2fAttestation, readX5c
<1>2. PICK x \in {r, s} : in.st.sig = register(x).sig
    BY DEF Pieces
<1>3. x.format \in VERIFIABLE_FORMATS
    BY RegistrationsAssumption
<1>4. /\ register(x).sig # None /\ register(x).sig.by = in.st.x5c[1].key
      /\ register(x).sig.over = VerificationData(in.auth, in.cdh)
    BY <1>1, <1>2 DEF verifySignature
<1>5. /\ x.format = "fido-u2f" /\ in.st.x5c[1].key = x.attestationKey
      /\ VerificationData(in.auth, in.cdh) = VerificationData(buildAuthenticatorData(x), x.cdh)
    BY <1>3, <1>4, SignatureOf, SignedApart DEF Attested
<1>6. Says(x, in)
    BY <1>5 DEF Says, VerificationData, buildAuthenticatorData
<1> QED
    BY <1>1, <1>5, <1>6 DEF MadeOf, Certificates

LEMMA SafetyNetMade ==
    ASSUME NEW r \in AllMade, NEW s \in AllMade, NEW in, Pieces(in, r, s),
           in.fmt = "android-safetynet", NEW p, NEW anchors, SafetyNet(in, p, anchors),
           in.now \in Nat
    PROVE  \E x \in {r, s} :
              /\ Says(x, in)
              /\ Certificates(in)[1].key.id \in {x.key.id, x.attestationKey.id}
              /\ x.cts /\ in.now <= x.at + SAFETYNET_MAX_AGE
<1> DEFINE w == in.st.response
<1>1. /\ w # None /\ w.nonce = Digest(SignedData(in.auth, in.cdh))
      /\ w.cts /\ in.now - w.stamp <= SAFETYNET_MAX_AGE
    BY DEF SafetyNet, verifySafetyNetVerdicts
<1>2. PICK x \in {r, s} : w = register(x).response
    BY DEF Pieces
<1>3. x.format \in VERIFIABLE_FORMATS /\ x.at \in Int /\ IsKey(x.attestationKey)
    BY RegistrationsAssumption
<1>4. /\ x.format = "android-safetynet" /\ w.nonce = Digest(Attested(x))
      /\ w.stamp = x.at /\ w.cts = x.cts
      /\ w.x5c[1].key = [x.attestationKey EXCEPT !.alg = "RS256"]
  <2>1. register(x).response # None
    BY <1>1, <1>2
  <2>2. LET v == register(x).response IN
        /\ x.format = "android-safetynet"
        /\ v.nonce = Digest(Attested(x)) /\ v.stamp = x.at /\ v.cts = x.cts
        /\ v.x5c[1].key = [x.attestationKey EXCEPT !.alg = "RS256"]
    BY <1>3, <2>1, ResponseOf
  <2> QED
    BY <1>2, <2>2
<1>5. w.x5c[1].key.id = x.attestationKey.id
    BY <1>3, <1>4 DEF IsKey
<1>6. Says(x, in)
    BY <1>1, <1>4, SaysWhatIsSigned DEF Digest
<1>7. in.now <= x.at + SAFETYNET_MAX_AGE
    BY <1>1, <1>3, <1>4, LimitsAssumption
<1> QED
    BY <1>1, <1>4, <1>5, <1>6, <1>7 DEF Certificates


-----------------------------------------------------------------------------
(* Chains *)

LEMMA ReachedIsVouched ==
    ASSUME NEW chain, NEW anchors, chainReachesAnchor(chain, anchors)
    PROVE  /\ chain # <<>> /\ chain[1].valid
           /\ Vouched(chain[1], {chain[i] : i \in DOMAIN chain}, anchors)
<1>1. chain # <<>> /\ chain[1].valid
    BY DEF chainReachesAnchor
<1>2. PICK n \in 1 .. MAX_CHAIN_DEPTH : \E walk \in [1 .. n -> DOMAIN chain] :
        /\ walk[1] = 1
        /\ \A k \in 1 .. n - 1 : Follows(chain, walk[k], walk[k + 1])
        /\ EndsAt(chain[walk[n]], anchors)
    BY DEF chainReachesAnchor
<1>3. PICK walk \in [1 .. n -> DOMAIN chain] :
        /\ walk[1] = 1
        /\ \A k \in 1 .. n - 1 : Follows(chain, walk[k], walk[k + 1])
        /\ EndsAt(chain[walk[n]], anchors)
    BY <1>2
<1> DEFINE c == {chain[i] : i \in DOMAIN chain}
           path == [k \in 1 .. n |-> chain[walk[k]]]
<1>4. n \in Nat /\ n >= 1
    BY LimitsAssumption
<1>5. path \in [1 .. n -> c]
    BY <1>3
<1>6. path[1] = chain[1] /\ path[n] = chain[walk[n]]
    BY <1>3, <1>4
<1>7. ASSUME NEW k \in 1 .. n - 1
      PROVE  /\ path[k + 1].ca /\ path[k + 1].valid
             /\ IssuedBy(path[k], path[k + 1])
  <2>1. k \in 1 .. n /\ k + 1 \in 1 .. n
    BY <1>4
  <2>2. walk[k + 1] \in Issuers(chain, walk[k])
    BY <1>3 DEF Follows
  <2>3. path[k] = chain[walk[k]] /\ path[k + 1] = chain[walk[k + 1]]
    BY <2>1
  <2> QED
    BY <2>2, <2>3 DEF Issuers
<1> HIDE DEF path, c
<1>8. Vouched(chain[1], c, anchors)
    BY <1>3, <1>5, <1>6, <1>7 DEF Vouched
<1> QED
    BY <1>1, <1>8 DEF c

\* A chain is vouched for by one root, whatever the others are.
LEMMA VouchedByOne ==
    ASSUME NEW x, NEW c, NEW anchors, Vouched(x, c, anchors)
    PROVE  \E a \in anchors : \A others : a \in others => Vouched(x, c, others)
<1>1. PICK n \in 1 .. MAX_CHAIN_DEPTH : \E path \in [1 .. n -> c] :
        /\ path[1] = x
        /\ \A k \in 1 .. n - 1 : /\ path[k + 1].ca /\ path[k + 1].valid
                                 /\ IssuedBy(path[k], path[k + 1])
        /\ EndsAt(path[n], anchors)
    BY DEF Vouched
<1>2. PICK path \in [1 .. n -> c] :
        /\ path[1] = x
        /\ \A k \in 1 .. n - 1 : /\ path[k + 1].ca /\ path[k + 1].valid
                                 /\ IssuedBy(path[k], path[k + 1])
        /\ EndsAt(path[n], anchors)
    BY <1>1
<1>3. PICK a \in anchors : a.valid /\ IssuedBy(path[n], a)
    BY <1>2 DEF EndsAt
<1>4. ASSUME NEW others, a \in others PROVE Vouched(x, c, others)
  <2>1. EndsAt(path[n], others)
    BY <1>3, <1>4 DEF EndsAt
  <2> QED
    BY <1>2, <2>1 DEF Vouched
<1> QED
    BY <1>4

LEMMA RootedByOne ==
    ASSUME NEW in, NEW anchors, Rooted(in, anchors)
    PROVE  \E a \in anchors : \A others : a \in others => Rooted(in, others)
BY VouchedByOne DEF Rooted

LEMMA ReachedIsRooted ==
    ASSUME NEW in, NEW anchors, chainReachesAnchor(Certificates(in), anchors)
    PROVE  Rooted(in, anchors)
BY ReachedIsVouched DEF Rooted

-----------------------------------------------------------------------------
(* What is accepted *)

\* By a chain, unless it is none at all or signed by the credential itself.
LEMMA AcceptedIsRooted ==
    ASSUME NEW in, NEW p, Accepts(in, p), in.fmt # "none",
           ~(in.fmt = "packed" /\ in.st.x5c = None)
    PROVE  Rooted(in, anchorsForModel(p, in.auth))
<1> DEFINE anchors == anchorsForModel(p, in.auth)
<1>1. in.fmt \in VERIFIABLE_FORMATS
    BY DEF Accepts
<1>2. CASE in.fmt = "apple"
  <2>1. Apple(in, p, anchors)
    BY <1>2 DEF Accepts
  <2> QED
    BY <1>2, <2>1, ReachedIsRooted DEF Apple, readX5c, verifyAppleAttestation, Certificates
<1>3. CASE in.fmt = "tpm"
  <2>1. Tpm(in, p, anchors)
    BY <1>3 DEF Accepts
  <2> QED
    BY <1>3, <2>1, ReachedIsRooted DEF Tpm, readX5c, verifyTpmAttestation, Certificates
<1>4. CASE in.fmt = "android-key"
  <2>1. AndroidKey(in, p, anchors)
    BY <1>4 DEF Accepts
  <2> QED
    BY <1>4, <2>1, ReachedIsRooted
       DEF AndroidKey, readX5c, verifyAndroidKeyAttestation, Certificates
<1>5. CASE in.fmt = "android-safetynet"
  <2>1. SafetyNet(in, p, anchors)
    BY <1>5 DEF Accepts
  <2> QED
    BY <1>5, <2>1, ReachedIsRooted DEF SafetyNet, Certificates
<1>6. CASE in.fmt = "fido-u2f"
  <2>1. U2f(in, p, anchors)
    BY <1>6 DEF Accepts
  <2> QED
    BY <1>6, <2>1, ReachedIsRooted DEF U2f, readX5c, verifyU2fAttestation, Certificates
<1>7. CASE in.fmt = "packed"
  <2>1. PackedBasic(in, p, anchors)
    BY <1>7 DEF Accepts, Packed, SelfAttested
  <2> QED
    BY <1>7, <2>1, ReachedIsRooted DEF PackedBasic, readX5c, Certificates
<1> QED
    BY <1>1, <1>2, <1>3, <1>4, <1>5, <1>6, <1>7 DEF VERIFIABLE_FORMATS

LEMMA AcceptedIsAllowed ==
    ASSUME NEW in, NEW p, Accepts(in, p), in.fmt \in {"apple", "tpm", "android-key", "packed"},
           in.fmt = "packed" => in.st.x5c # None
    PROVE  Allowed(p, in.auth)
<1>1. CASE in.fmt = "apple"
    BY <1>1 DEF Accepts, Apple
<1>2. CASE in.fmt = "tpm"
    BY <1>2 DEF Accepts, Tpm
<1>3. CASE in.fmt = "android-key"
    BY <1>3 DEF Accepts, AndroidKey
<1>4. CASE in.fmt = "packed"
    BY <1>4 DEF Accepts, Packed, SelfAttested, PackedBasic
<1> QED
    BY <1>1, <1>2, <1>3, <1>4

\* Under metadata a model is vouched for by a root of its own.
LEMMA RootOfModel ==
    ASSUME NEW in, NEW entries, IsList(entries),
           Allowed(toAttestationPolicy(entries), in.auth),
           Rooted(in, anchorsForModel(toAttestationPolicy(entries), in.auth))
    PROVE  \E e \in Entries : e.aaguid = in.auth.aaguid /\ Rooted(in, e.roots)
<1> DEFINE p == toAttestationPolicy(entries)
           admitted == {e \in entries : Admitted(e)}
           models == {e.aaguid : e \in admitted}
           own == {f \in admitted : f.aaguid = in.auth.aaguid}
<1>1. p.aaguids = models /\ DOMAIN p.modelAnchors = models
      /\ \A m \in models : p.modelAnchors[m] = UNION {e.roots : e \in {f \in admitted : f.aaguid = m}}
    BY DEF toAttestationPolicy
<1>2. models \in SUBSET {e.aaguid : e \in Entries}
    BY DEF IsList, IsEntry
<1>3. in.auth.aaguid \in models
  <2>1. models # None
    BY <1>2, EntriesAssumption
  <2> QED
    BY <1>1, <2>1 DEF Allowed
<1>4. anchorsForModel(p, in.auth) = UNION {e.roots : e \in own}
    BY <1>1, <1>3 DEF anchorsForModel
<1>5. PICK a \in anchorsForModel(p, in.auth) : \A others : a \in others => Rooted(in, others)
    BY RootedByOne
<1>6. PICK e \in own : a \in e.roots
    BY <1>4, <1>5
<1>7. PICK f \in Entries : f.aaguid = e.aaguid /\ f.roots = e.roots
    BY <1>6 DEF IsList, IsEntry
<1> QED
    BY <1>5, <1>6, <1>7

\* Unless software may keep it, the key of an accepted statement is in hardware.
LEMMA AndroidKeyKept ==
    ASSUME NEW r \in AllMade, NEW s \in AllMade, NEW in, Pieces(in, r, s),
           NEW p, NEW anchors, AndroidKey(in, p, anchors), ~p.softwareKeys
    PROVE  \E y \in {r, s} : y.key = in.auth.key /\ y.kept = "hardware"
<1> DEFINE leaf == in.st.x5c[1]  d == leaf.ext.value
<1>1. /\ in.st.x5c # None /\ leaf.key = in.auth.key /\ leaf.ext.kind = "android"
      /\ verifyAuthorizations(d, p.softwareKeys)
    BY DEF AndroidKey, verifyAndroidKeyAttestation, readX5c, certificateHoldsCredentialKey
<1>2. PICK y \in {r, s} : in.st.x5c = register(y).x5c
    BY DEF Pieces
<1>3. /\ y.format \in VERIFIABLE_FORMATS /\ IsSequence(y.intermediates)
      /\ y.kept \in {"hardware", "software", "imported", "shared"}
    BY RegistrationsAssumption
<1>4. leaf.key = y.key /\ d = keyDescription(y.kept, y.cdh)
  <2>1. register(y).x5c # None /\ register(y).x5c[1].ext.kind = "android"
    BY <1>1, <1>2
  <2>2. /\ register(y).x5c[1].key = y.key
        /\ register(y).x5c[1].ext.value = keyDescription(y.kept, y.cdh)
    BY <1>3, <2>1, ChainOf
  <2> QED
    BY <1>2, <2>2
<1>5. ~d.software.all /\ d.tee.purposes # None /\ d.tee.origin = KM_ORIGIN_GENERATED
    BY <1>1 DEF verifyAuthorizations
<1>6. y.kept # "software"
    BY <1>4, <1>5 DEF keyDescription, authorizationList
<1>7. y.kept # "shared"
    BY <1>4, <1>5 DEF keyDescription, authorizationList
<1>8. y.kept # "imported"
    BY <1>4, <1>5 DEF keyDescription, authorizationList, KM_ORIGIN_GENERATED
<1> QED
    BY <1>1, <1>3, <1>4, <1>6, <1>7, <1>8


\* What a registration arrives as, and what of it is not mixed.
LEMMA StatementFields ==
    ASSUME NEW r
    PROVE  DOMAIN register(r) = {"alg", "sig", "x5c", "ver", "certInfo", "pubArea", "response"}
BY DEF register, RegisterApple, RegisterSafetyNet, RegisterAndroidKey, RegisterU2f,
       RegisterTpm, RegisterPacked, RegisterSelf, EmptyStatement

LEMMA MixedFields ==
    ASSUME NEW r, NEW s, NEW part
    PROVE  LET in == Mixed(r, s, part) IN
           /\ Pieces(in, r, s)
           /\ in.now = clock
           /\ part # "fmt" => in.fmt = r.format
           /\ part # "sig" => in.st.sig = register(r).sig
           /\ part # "x5c" => in.st.x5c = register(r).x5c
           /\ part \notin {"auth", "key", "cdh"} =>
                  in.auth = buildAuthenticatorData(r) /\ in.cdh = r.cdh
<1> DEFINE st == register(r)  tt == register(s)
           in == Mixed(r, s, part)
<1>1. in.st = [f \in DOMAIN st |-> IF f = part THEN tt[f] ELSE st[f]]
    BY DEF Mixed
<1>2. {"sig", "x5c", "certInfo", "response"} \subseteq DOMAIN st
    BY StatementFields
<1>3. /\ in.st.sig = IF "sig" = part THEN tt.sig ELSE st.sig
      /\ in.st.x5c = IF "x5c" = part THEN tt.x5c ELSE st.x5c
      /\ in.st.certInfo = IF "certInfo" = part THEN tt.certInfo ELSE st.certInfo
      /\ in.st.response = IF "response" = part THEN tt.response ELSE st.response
    BY <1>1, <1>2
<1>4. Pieces(in, r, s)
    BY <1>3 DEF Pieces
<1>5. in.now = clock /\ (part # "fmt" => in.fmt = r.format)
    BY DEF Mixed
<1>6. part \notin {"auth", "key", "cdh"} => in.auth = buildAuthenticatorData(r) /\ in.cdh = r.cdh
  <2>1. [buildAuthenticatorData(r) EXCEPT !.key = buildAuthenticatorData(r).key] = buildAuthenticatorData(r)
    BY DEF buildAuthenticatorData
  <2> QED
    BY <2>1 DEF Mixed
<1> QED
    BY <1>3, <1>4, <1>5, <1>6

\* Self attestation is the credential's own: no chain and a signature by its key.
LEMMA SelfMade ==
    ASSUME NEW r \in AllMade, NEW s \in AllMade, NEW part, NEW p,
           Mixed(r, s, part).fmt = "packed", SelfAttested(Mixed(r, s, part), p)
    PROVE  Says(r, Mixed(r, s, part)) /\ r.self
<1>1. PICK in : in = Mixed(r, s, part)
    OBVIOUS
<1>2. /\ in.fmt = "packed" /\ in.st.x5c = None
      /\ verifySignature(in.st.alg, in.auth.key, SignedData(in.auth, in.cdh), in.st.sig)
    BY <1>1 DEF SelfAttested
<1>3. /\ part # "fmt" => in.fmt = r.format
      /\ part # "sig" => in.st.sig = register(r).sig
      /\ part # "x5c" => in.st.x5c = register(r).x5c
      /\ part \notin {"auth", "key", "cdh"} =>
             in.auth = buildAuthenticatorData(r) /\ in.cdh = r.cdh
    BY <1>1, MixedFields
<1>4. CASE part = "sig"
  <2>1. r.format = "packed" /\ register(r).x5c = None
    BY <1>2, <1>3, <1>4
  <2>2. r.self
    BY <2>1, StatementsAssumption
  <2>3. Attested(r) = SignedData(in.auth, in.cdh)
    BY <1>3, <1>4 DEF Attested
  <2> QED
    BY <1>1, <2>1, <2>2, <2>3, SaysWhatIsSigned
<1>5. CASE part # "sig"
  <2>1. PICK key : key = in.auth.key
    OBVIOUS
  <2>2. verifySignature(in.st.alg, key, SignedData(in.auth, in.cdh), register(r).sig)
    BY <1>2, <1>3, <1>5, <2>1
  <2>3. /\ Says(r, in) /\ r.format \in {"android-key", "packed"}
        /\ key = IF r.format = "packed" /\ ~r.self THEN r.attestationKey ELSE r.key
    BY <2>2, SignedResponse
  <2>4. CASE part = "x5c"
    <3>1. r.format = "packed" /\ key = r.key
        BY <1>2, <1>3, <2>1, <2>4 DEF buildAuthenticatorData
    <3> QED
        BY <1>1, <2>3, <3>1, RegistrationsAssumption
  <2>5. CASE part # "x5c"
    <3>1. register(r).x5c = None
        BY <1>2, <1>3, <2>5
    <3> QED
        BY <1>1, <2>3, <3>1, StatementsAssumption
  <2> QED
    BY <2>4, <2>5
<1> QED
    BY <1>4, <1>5

-----------------------------------------------------------------------------
(* What an accepted attestation establishes *)

LEMMA VerdictIs ==
    ASSUME MetadataIInv, verdict # None
    PROVE  \E r \in Registrations : \E s \in Variants(r) : \E part \in Parts :
             /\ verdict.of = r /\ verdict.mixed = s /\ Input = Mixed(r, s, part)
             /\ verdict.part = part
             /\ verdict.result = verifyAttestation(Input, policy)
<1>1. PICK r \in Registrations : \E s \in Variants(r) : \E part \in Parts :
        verdict = [of |-> r, mixed |-> s, part |-> part,
                   result |-> verifyAttestation(Mixed(r, s, part), policy)]
    BY DEF MetadataIInv, VerdictOK
<1>2. PICK s \in Variants(r) : \E part \in Parts :
        verdict = [of |-> r, mixed |-> s, part |-> part,
                   result |-> verifyAttestation(Mixed(r, s, part), policy)]
    BY <1>1
<1>3. PICK part \in Parts :
        verdict = [of |-> r, mixed |-> s, part |-> part,
                   result |-> verifyAttestation(Mixed(r, s, part), policy)]
    BY <1>2
<1>4. /\ verdict.of = r /\ verdict.mixed = s /\ verdict.part = part
      /\ verdict.result = verifyAttestation(Mixed(r, s, part), policy)
    BY <1>3
<1> QED
    BY <1>4 DEF Input

LEMMA ChainMade ==
    ASSUME NEW r \in Registrations, NEW s \in Variants(r), NEW part, MetadataIInv,
           Accepts(Mixed(r, s, part), policy), Mixed(r, s, part).fmt # "none",
           ~(Mixed(r, s, part).fmt = "packed" /\ Mixed(r, s, part).st.x5c = None)
    PROVE  LET in == Mixed(r, s, part) IN
           \E x \in {r, s} :
              /\ Says(x, in)
              /\ Certificates(in)[1].key.id \in {x.key.id, x.attestationKey.id}
              /\ (in.fmt = "android-key" /\ ~policy.softwareKeys) => x.kept = "hardware"
              /\ in.fmt = "android-safetynet" => x.cts /\ clock <= x.at + SAFETYNET_MAX_AGE
<1>1. PICK in : in = Mixed(r, s, part)
    OBVIOUS
<1>2. r \in AllMade /\ s \in AllMade /\ Pieces(in, r, s) /\ in.now = clock /\ clock \in Nat
    BY <1>1, MixedFields DEF AllMade, MetadataIInv, ClockOK
<1>3. PICK anchors : anchors = anchorsForModel(policy, in.auth)
    OBVIOUS
<1>4. Accepts(in, policy) /\ in.fmt \in VERIFIABLE_FORMATS \ {"none"}
    BY <1>1 DEF Accepts
<1>5. CASE in.fmt = "android-safetynet"
  <2>1. SafetyNet(in, policy, anchors)
    BY <1>3, <1>4, <1>5 DEF Accepts
  <2> QED
    BY <1>1, <1>2, <1>5, <2>1, SafetyNetMade
<1>6. CASE in.fmt = "android-key"
  <2>1. AndroidKey(in, policy, anchors)
    BY <1>3, <1>4, <1>6 DEF Accepts
  <2>2. PICK x \in {r, s} : /\ Says(x, in)
                            /\ Certificates(in)[1].key.id \in {x.key.id, x.attestationKey.id}
    BY <1>2, <1>6, <2>1, AndroidKeyMade DEF MadeOf
  <2>3. ASSUME ~policy.softwareKeys PROVE x.kept = "hardware"
    <3>1. PICK y \in {r, s} : y.key = in.auth.key /\ y.kept = "hardware"
        BY <1>2, <2>1, <2>3, AndroidKeyKept
    <3>2. x.key = y.key
        BY <2>2, <3>1 DEF Says
    <3> QED
        BY <3>1, <3>2, RegistrationsAssumption
  <2> QED
    BY <1>1, <1>6, <2>2, <2>3
<1>7. CASE in.fmt \in {"apple", "tpm", "fido-u2f", "packed"}
  <2>1. MadeOf(in, r, s)
    <3>1. CASE in.fmt = "apple"
      <4>1. Apple(in, policy, anchors)
        BY <1>3, <1>4, <3>1 DEF Accepts
      <4> QED
        BY <1>2, <3>1, <4>1, AppleMade
    <3>2. CASE in.fmt = "tpm"
      <4>1. Tpm(in, policy, anchors)
        BY <1>3, <1>4, <3>2 DEF Accepts
      <4> QED
        BY <1>2, <3>2, <4>1, TpmMade
    <3>3. CASE in.fmt = "fido-u2f"
      <4>1. U2f(in, policy, anchors)
        BY <1>3, <1>4, <3>3 DEF Accepts
      <4> QED
        BY <1>2, <3>3, <4>1, U2fMade
    <3>4. CASE in.fmt = "packed"
      <4>1. PackedBasic(in, policy, anchors)
        BY <1>1, <1>3, <1>4, <3>4 DEF Accepts, Packed, SelfAttested
      <4> QED
        BY <1>2, <3>4, <4>1, PackedMade
    <3> QED
        BY <1>7, <3>1, <3>2, <3>3, <3>4
  <2> QED
    BY <1>1, <1>7, <2>1 DEF MadeOf
<1> QED
    BY <1>4, <1>5, <1>6, <1>7 DEF VERIFIABLE_FORMATS

LEMMA TrustedAnchors ==
    ASSUME NEW p, NEW in, Rooted(in, anchorsForModel(p, in.auth))
    PROVE  Rooted(in, Trusted(p))
<1>1. PICK a \in anchorsForModel(p, in.auth) : \A others : a \in others => Rooted(in, others)
    BY RootedByOne
<1>2. a \in Trusted(p)
    BY DEF Trusted, anchorsForModel
<1> QED
    BY <1>1, <1>2

\* attestation.ts: an accepted attestation was made by an authenticator for just
\* this ceremony and credential, its certificate is rooted, and its key is kept.
THEOREM AcceptedIsGenuine == MetadataSpec => []AcceptedMeansMade
<1>1. MetadataIInv => AcceptedMeansMade
  <2> SUFFICES ASSUME MetadataIInv, verdict # None, verdict.result.type \in {"basic", "self"}
               PROVE  \E x \in {verdict.of, verdict.mixed} :
            /\ Says(x, Input)
            /\ IF verdict.result.type = "self" THEN x.self
               ELSE /\ Certificates(Input)[1].key.id \in {x.key.id, x.attestationKey.id}
                    /\ Rooted(Input, Trusted(policy))
            /\ (verdict.result.aaguidVerified /\ loaded # None) =>
                   \E e \in Entries :
                       e.aaguid = x.aaguid /\ Rooted(Input, e.roots)
            /\ (Input.fmt = "android-key" /\ ~policy.softwareKeys) => x.kept = "hardware"
            /\ Input.fmt = "android-safetynet" =>
                   x.cts /\ clock <= x.at + SAFETYNET_MAX_AGE
    BY DEF AcceptedMeansMade
  <2>1. PICK r \in Registrations : \E s \in Variants(r) : \E part \in Parts :
             /\ verdict.of = r /\ verdict.mixed = s /\ Input = Mixed(r, s, part)
             /\ verdict.result = verifyAttestation(Input, policy)
    BY VerdictIs
  <2>2. PICK s \in Variants(r) : \E part \in Parts :
             /\ verdict.of = r /\ verdict.mixed = s /\ Input = Mixed(r, s, part)
             /\ verdict.result = verifyAttestation(Input, policy)
    BY <2>1
  <2>3. PICK part \in Parts :
             /\ verdict.of = r /\ verdict.mixed = s /\ Input = Mixed(r, s, part)
             /\ verdict.result = verifyAttestation(Input, policy)
    BY <2>2
  <2>4. PICK in : in = Mixed(r, s, part) /\ in = Input
    BY <2>3
  <2>5. /\ verdict.result.type = IF ~Accepts(in, policy) THEN "refused"
              ELSE IF in.fmt = "none" THEN "none"
              ELSE IF in.fmt = "packed" /\ in.st.x5c = None THEN "self" ELSE "basic"
        /\ verdict.result.aaguidVerified =
              (/\ in.fmt \in {"apple", "tpm", "android-key", "packed"}
               /\ Accepts(in, policy)
               /\ in.fmt = "packed" => in.st.x5c # None)
    BY <2>3, <2>4 DEF verifyAttestation
  <2>6. Accepts(in, policy) /\ in.fmt # "none"
    BY <2>5
  <2>7. r \in AllMade /\ s \in AllMade
    BY DEF AllMade
  <2>8. CASE verdict.result.type = "self"
    <3>1. in.fmt = "packed" /\ in.st.x5c = None
        BY <2>5, <2>6, <2>8
    <3>2. SelfAttested(in, policy)
        BY <2>6, <3>1 DEF Accepts, Packed, PackedBasic, readX5c
    <3>3. Says(r, in) /\ r.self
        BY <2>4, <2>7, <3>1, <3>2, SelfMade
    <3>4. ~verdict.result.aaguidVerified
        BY <2>5, <3>1
    <3> QED
        BY <2>3, <2>4, <2>8, <3>1, <3>3, <3>4
  <2>9. CASE verdict.result.type = "basic"
    <3>1. ~(in.fmt = "packed" /\ in.st.x5c = None)
        BY <2>5, <2>6, <2>9
    <3>2. PICK x \in {r, s} :
              /\ Says(x, in)
              /\ Certificates(in)[1].key.id \in {x.key.id, x.attestationKey.id}
              /\ (in.fmt = "android-key" /\ ~policy.softwareKeys) => x.kept = "hardware"
              /\ in.fmt = "android-safetynet" => x.cts /\ clock <= x.at + SAFETYNET_MAX_AGE
      <4>1. /\ Accepts(Mixed(r, s, part), policy) /\ Mixed(r, s, part).fmt # "none"
            /\ ~(Mixed(r, s, part).fmt = "packed" /\ Mixed(r, s, part).st.x5c = None)
        BY <2>4, <2>6, <3>1
      <4>2. \E x \in {r, s} :
              /\ Says(x, Mixed(r, s, part))
              /\ Certificates(Mixed(r, s, part))[1].key.id \in {x.key.id, x.attestationKey.id}
              /\ (Mixed(r, s, part).fmt = "android-key" /\ ~policy.softwareKeys) => x.kept = "hardware"
              /\ Mixed(r, s, part).fmt = "android-safetynet" =>
                     x.cts /\ clock <= x.at + SAFETYNET_MAX_AGE
        BY <4>1, ChainMade
      <4> QED
        BY <2>4, <4>2
    <3>3. Rooted(in, anchorsForModel(policy, in.auth))
        BY <2>6, <3>1, AcceptedIsRooted
    <3>4. Rooted(in, Trusted(policy))
        BY <3>3, TrustedAnchors
    <3>5. ASSUME verdict.result.aaguidVerified, loaded # None
          PROVE  \E e \in Entries : e.aaguid = x.aaguid /\ Rooted(in, e.roots)
      <4>1. in.fmt \in {"apple", "tpm", "android-key", "packed"}
        BY <2>5, <3>5
      <4>2. PICK b \in blobs : policy = toAttestationPolicy(b.payload.entries)
        BY <3>5 DEF MetadataIInv, PolicyOK
      <4>3. IsList(b.payload.entries)
        BY DEF MetadataIInv, BlobOK
      <4>4. Allowed(policy, in.auth)
        BY <2>6, <3>1, <4>1, AcceptedIsAllowed
      <4>5. PICK e \in Entries : e.aaguid = in.auth.aaguid /\ Rooted(in, e.roots)
        BY <3>3, <4>2, <4>3, <4>4, RootOfModel
      <4>6. x.aaguid = in.auth.aaguid
        BY <3>2, <4>1 DEF Says
      <4> QED
        BY <4>5, <4>6
    <3> QED
        BY <2>3, <2>4, <2>9, <3>2, <3>4, <3>5
  <2> QED
    BY <2>8, <2>9
<1> QED
    BY <1>1, MetadataInvariance, PTL


-----------------------------------------------------------------------------
(* The walk finds what vouches for a certificate *)

\* A path of issuers of this length vouches for x.
IsPath(path, n, x, c, anchors) ==
    /\ path \in [1 .. n -> c] /\ path[1] = x
    /\ \A k \in 1 .. n - 1 : /\ path[k + 1].ca /\ path[k + 1].valid
                             /\ IssuedBy(path[k], path[k + 1])
    /\ EndsAt(path[n], anchors)

LEMMA Smallest ==
    ASSUME NEW T, T \subseteq Nat, T # {}
    PROVE  \E n \in T : \A m \in T : n <= m
<1>1. PICK n \in T : \A m \in T : ~(<<m, n>> \in OpToRel(<, Nat))
    BY NatLessThanWellFounded, WFMin
<1>2. \A m \in T : ~(m < n)
    BY <1>1 DEF OpToRel
<1> QED
    BY <1>2

\* A path that stays at a certificate can be cut short there.
LEMMA ShorterPath ==
    ASSUME NEW n \in Nat, NEW path, NEW x, NEW c, NEW anchors,
           IsPath(path, n, x, c, anchors),
           NEW k \in 1 .. n - 1, path[k] = path[k + 1]
    PROVE  \E short : IsPath(short, n - 1, x, c, anchors)
<1> DEFINE short == [j \in 1 .. n - 1 |-> IF j <= k THEN path[j] ELSE path[j + 1]]
<1>1. /\ path \in [1 .. n -> c] /\ path[1] = x /\ EndsAt(path[n], anchors)
      /\ \A i \in 1 .. n - 1 : /\ path[i + 1].ca /\ path[i + 1].valid
                               /\ IssuedBy(path[i], path[i + 1])
    BY DEF IsPath
<1>2. short \in [1 .. n - 1 -> c]
    BY <1>1
<1>3. short[1] = x
    BY <1>1
<1>4. short[n - 1] = path[n]
    BY <1>1
<1>5. ASSUME NEW i \in 1 .. n - 2
      PROVE  /\ short[i + 1].ca /\ short[i + 1].valid
             /\ IssuedBy(short[i], short[i + 1])
  <2>1. CASE i < k
    <3>1. short[i] = path[i] /\ short[i + 1] = path[i + 1] /\ i \in 1 .. n - 1
        BY <2>1
    <3> QED
        BY <1>1, <3>1
  <2>2. CASE i >= k
    <3>1. short[i] = path[i + 1] /\ short[i + 1] = path[i + 2]
        BY <2>2
    <3>2. i + 1 \in 1 .. n - 1 /\ (i + 1) + 1 = i + 2
        BY <2>2
    <3> QED
        BY <1>1, <3>1, <3>2
  <2> QED
    BY <2>1, <2>2
<1> HIDE DEF short
<1>6. IsPath(short, n - 1, x, c, anchors)
  <2>1. (n - 1) - 1 = n - 2
    OBVIOUS
  <2> QED
    BY <1>1, <1>2, <1>3, <1>4, <1>5, <2>1 DEF IsPath
<1> QED
    BY <1>6

LEMMA VouchedIsReached ==
    ASSUME NEW chain, IsSequence(chain), chain # <<>>, chain[1].valid, OneEach(chain),
           NEW anchors, Vouched(chain[1], {chain[i] : i \in DOMAIN chain}, anchors)
    PROVE  chainReachesAnchor(chain, anchors)
<1> DEFINE c == {chain[i] : i \in DOMAIN chain}
           T == {n \in 1 .. MAX_CHAIN_DEPTH : \E path : IsPath(path, n, chain[1], c, anchors)}
<1>1. PICK n \in T : \A m \in T : n <= m
  <2>1. PICK n \in 1 .. MAX_CHAIN_DEPTH : \E path \in [1 .. n -> c] :
            /\ path[1] = chain[1]
            /\ \A k \in 1 .. n - 1 : /\ path[k + 1].ca /\ path[k + 1].valid
                                     /\ IssuedBy(path[k], path[k + 1])
            /\ EndsAt(path[n], anchors)
    BY DEF Vouched
  <2>2. \E path : IsPath(path, n, chain[1], c, anchors)
    BY <2>1 DEF IsPath
  <2>3. n \in T
    BY <2>2
  <2>4. T \subseteq 1 .. MAX_CHAIN_DEPTH
    OBVIOUS
  <2> HIDE DEF T
  <2>5. T \subseteq Nat
    BY <2>4, LimitsAssumption
  <2> QED
    BY <2>3, <2>5, Smallest
<1>2. PICK path : IsPath(path, n, chain[1], c, anchors)
    BY <1>1
<1>3. n \in Nat /\ 1 <= n /\ n <= MAX_CHAIN_DEPTH /\ MAX_CHAIN_DEPTH \in Nat
    BY <1>1, LimitsAssumption
<1>4. ASSUME NEW k \in 1 .. n - 1 PROVE path[k] # path[k + 1]
  <2>1. SUFFICES ASSUME path[k] = path[k + 1] PROVE FALSE
    OBVIOUS
  <2>2. \E short : IsPath(short, n - 1, chain[1], c, anchors)
    BY <1>2, <1>3, <2>1, ShorterPath
  <2>3. n - 1 \in 1 .. MAX_CHAIN_DEPTH
    BY <1>3
  <2>4. n - 1 \in T
    BY <2>2, <2>3
  <2> HIDE DEF T
  <2>5. n <= n - 1
    BY <1>1, <2>4
  <2> QED
    BY <1>3, <2>5
<1>5. \E m \in Nat : DOMAIN chain = 1 .. m /\ 1 \in DOMAIN chain
  <2>1. chain \in Seq({chain[i] : i \in DOMAIN chain})
    BY DEF IsSequence
  <2> QED
    BY <2>1
<1>6. \A x \in c : \E i \in DOMAIN chain : chain[i] = x
    OBVIOUS
<1> DEFINE walk == [k \in 1 .. n |-> IF k = 1 THEN 1 ELSE CHOOSE i \in DOMAIN chain : chain[i] = path[k]]
<1>7. \A k \in 1 .. n : walk[k] \in DOMAIN chain /\ chain[walk[k]] = path[k]
  <2> SUFFICES ASSUME NEW k \in 1 .. n PROVE walk[k] \in DOMAIN chain /\ chain[walk[k]] = path[k]
    OBVIOUS
  <2>1. CASE k = 1
    BY <2>1, <1>2, <1>5 DEF IsPath
  <2>2. CASE k # 1
    <3>1. path[k] \in c
        BY <1>2 DEF IsPath
    <3> QED
        BY <2>2, <3>1, <1>6
  <2> QED
    BY <2>1, <2>2
<1>8. walk \in [1 .. n -> DOMAIN chain] /\ walk[1] = 1
    BY <1>3, <1>7
<1> HIDE DEF walk, c, T
<1>9. ASSUME NEW k \in 1 .. n - 1 PROVE Follows(chain, walk[k], walk[k + 1])
  <2>1. k \in 1 .. n /\ k + 1 \in 1 .. n
    BY <1>3
  <2>2. /\ path[k + 1].ca /\ path[k + 1].valid /\ IssuedBy(path[k], path[k + 1])
        /\ path[k] # path[k + 1]
    BY <1>2, <1>4 DEF IsPath
  <2>3. /\ chain[walk[k]] = path[k] /\ chain[walk[k + 1]] = path[k + 1]
        /\ walk[k] \in DOMAIN chain /\ walk[k + 1] \in DOMAIN chain
    BY <2>1, <1>7
  <2>4. walk[k + 1] \in Issuers(chain, walk[k])
    BY <2>2, <2>3 DEF Issuers
  <2>5. ASSUME NEW j \in Issuers(chain, walk[k]) PROVE j = walk[k + 1]
    BY <2>2, <2>3 DEF Issuers, IssuedBy, OneEach
  <2>6. walk[k + 1] \in Int
    BY <1>5, <2>3
  <2> QED
    BY <2>4, <2>5, <2>6 DEF Follows
<1>10. EndsAt(chain[walk[n]], anchors)
  <2>1. n \in 1 .. n
    BY <1>3
  <2> QED
    BY <2>1, <1>2, <1>7 DEF IsPath
<1> QED
    BY <1>1, <1>3, <1>8, <1>9, <1>10 DEF chainReachesAnchor


-----------------------------------------------------------------------------
(* What an authenticator makes is accepted *)

LEMMA IsSequenceOf ==
    ASSUME NEW S, NEW t \in Seq(S)
    PROVE  IsSequence(t)
<1> DEFINE R == {t[i] : i \in DOMAIN t}
<1>1. \A i \in DOMAIN t : t[i] \in R
    OBVIOUS
<1> HIDE DEF R
<1>2. t \in Seq(R)
    BY <1>1, SequenceOf
<1> QED
    BY <1>2 DEF IsSequence, R

LEMMA ChainIsSequence ==
    ASSUME NEW r, IsSequence(r.intermediates),
           r.format \in {"packed", "apple", "tpm", "android-key"}, ~r.self
    PROVE  IsSequence(register(r).x5c)
<1>1. ASSUME NEW cert PROVE IsSequence(<<cert>>)
  <2>1. <<cert>> \in Seq({cert})
    OBVIOUS
  <2> QED
    BY <2>1, IsSequenceOf
<1>2. CASE r.format = "packed"
  <2> DEFINE leaf == createCertificate("leaf", r.issuer, r.attestationKey, FALSE,
                         [kind |-> "aaguid", value |-> [aaguid |-> r.aaguid]])
             S == {r.intermediates[i] : i \in DOMAIN r.intermediates} \cup {leaf}
  <2>1. register(r).x5c = <<leaf>> \o r.intermediates
    BY <1>2 DEF register, RegisterPacked, EmptyStatement
  <2>2. leaf \in S /\ \A i \in DOMAIN r.intermediates : r.intermediates[i] \in S
    OBVIOUS
  <2>3. r.intermediates \in Seq({r.intermediates[i] : i \in DOMAIN r.intermediates})
    BY DEF IsSequence
  <2> HIDE DEF leaf, S
  <2>4. r.intermediates \in Seq(S)
    BY <2>2, <2>3, SequenceOf
  <2>5. <<leaf>> \o r.intermediates \in Seq(S)
    BY <2>2, <2>4
  <2> QED
    BY <2>1, <2>5, IsSequenceOf
<1>3. CASE r.format = "apple"
    BY <1>1, <1>3 DEF register, RegisterApple, EmptyStatement
<1>4. CASE r.format = "tpm"
    BY <1>1, <1>4 DEF register, RegisterTpm, EmptyStatement
<1>5. CASE r.format = "android-key"
    BY <1>1, <1>5 DEF register, RegisterAndroidKey, EmptyStatement
<1> QED
    BY <1>2, <1>3, <1>4, <1>5

\* The response that r itself makes.
Whole(in, r) ==
    /\ in.fmt = r.format /\ in.auth = buildAuthenticatorData(r) /\ in.cdh = r.cdh
    /\ in.st.alg = register(r).alg /\ in.st.sig = register(r).sig
    /\ in.st.x5c = register(r).x5c /\ in.st.ver = register(r).ver
    /\ in.st.certInfo = register(r).certInfo /\ in.st.pubArea = register(r).pubArea

LEMMA UnmixedIsWhole ==
    ASSUME NEW r, NEW s
    PROVE  Whole(Mixed(r, s, "none"), r)
<1> DEFINE st == register(r)  in == Mixed(r, s, "none")
<1>1. in.st = [f \in DOMAIN st |-> IF f = "none" THEN register(s)[f] ELSE st[f]]
    BY DEF Mixed
<1>2. /\ in.st.alg = st.alg /\ in.st.sig = st.sig /\ in.st.x5c = st.x5c
      /\ in.st.ver = st.ver /\ in.st.certInfo = st.certInfo /\ in.st.pubArea = st.pubArea
    BY <1>1, StatementFields
<1>3. in.fmt = r.format /\ in.auth = buildAuthenticatorData(r) /\ in.cdh = r.cdh
    BY MixedFields DEF Mixed
<1> QED
    BY <1>2, <1>3 DEF Whole

LEMMA AppleAccepted ==
    ASSUME NEW r, NEW in, Whole(in, r), r.format = "apple",
           NEW p, NEW anchors, anchors # {}, chainReachesAnchor(in.st.x5c, anchors),
           readX5c(in.st), Allowed(p, in.auth)
    PROVE  Apple(in, p, anchors)
<1>1. PICK cert : /\ cert = createCertificate("credential", r.issuer, r.key, FALSE,
                              [kind |-> "apple", value |-> Digest(Attested(r))])
                  /\ in.st.x5c = <<cert>>
    BY DEF Whole, register, RegisterApple, EmptyStatement
<1>2. /\ cert.key = r.key /\ cert.ext.kind = "apple" /\ cert.ext.value = Digest(Attested(r))
    BY <1>1 DEF createCertificate
<1>3. in.st.x5c[1] = cert
    BY <1>1
<1>4. Attested(r) = SignedData(in.auth, in.cdh) /\ in.auth.key = r.key
    BY DEF Whole, Attested, buildAuthenticatorData
<1>5. verifyAppleAttestation(in, anchors)
    BY <1>2, <1>3, <1>4 DEF verifyAppleAttestation, certificateHoldsCredentialKey
<1> QED
    BY <1>5 DEF Apple

LEMMA PackedAccepted ==
    ASSUME NEW r \in AllMade, NEW in, Whole(in, r), r.format = "packed", ~r.self,
           NEW p, NEW anchors, anchors # {}, chainReachesAnchor(in.st.x5c, anchors),
           readX5c(in.st), Allowed(p, in.auth)
    PROVE  Packed(in, p, anchors)
<1>1. PICK leaf : leaf = createCertificate("leaf", r.issuer, r.attestationKey, FALSE,
                             [kind |-> "aaguid", value |-> [aaguid |-> r.aaguid]])
    OBVIOUS
<1>2. /\ in.st.x5c = <<leaf>> \o r.intermediates /\ in.st.alg = "ES256"
      /\ in.st.sig = Sign(r.attestationKey, Attested(r))
    BY <1>1 DEF Whole, register, RegisterPacked, EmptyStatement
<1>3. IsSequence(r.intermediates) /\ r.attestationKey.alg = "ES256" /\ in.st.sig # None
    BY RegistrationsAssumption, StatementsAssumption DEF Whole
<1>4. in.st.x5c[1] = leaf
    BY <1>2, <1>3, FirstOfJoined
<1>5. /\ leaf.key = r.attestationKey /\ leaf.ca = FALSE
      /\ leaf.ext.kind = "aaguid" /\ leaf.ext.value.aaguid = r.aaguid
    BY <1>1 DEF createCertificate
<1>6. Attested(r) = SignedData(in.auth, in.cdh) /\ in.auth.aaguid = r.aaguid
    BY DEF Whole, Attested, buildAuthenticatorData
<1>7. verifySignature(in.st.alg, in.st.x5c[1].key, SignedData(in.auth, in.cdh), in.st.sig)
    BY <1>2, <1>3, <1>4, <1>5, <1>6 DEF verifySignature, Sign
<1>8. AaguidAgrees(in.st.x5c[1], in.auth)
    BY <1>4, <1>5, <1>6 DEF AaguidAgrees
<1>9. PackedBasic(in, p, anchors)
    BY <1>4, <1>5, <1>7, <1>8 DEF PackedBasic
<1> QED
    BY <1>2, <1>3, <1>9 DEF Packed

LEMMA TpmAccepted ==
    ASSUME NEW r \in AllMade, NEW in, Whole(in, r), r.format = "tpm", r.key.alg = "ES256",
           NEW p, NEW anchors, anchors # {}, chainReachesAnchor(in.st.x5c, anchors),
           readX5c(in.st), Allowed(p, in.auth)
    PROVE  Tpm(in, p, anchors)
<1>1. PICK aik : aik = createCertificate(None, r.issuer, r.attestationKey, FALSE,
                            [kind |-> "aik", value |-> None])
    OBVIOUS
<1>2. PICK pub : pub = buildTpmPublic(r.key)
    OBVIOUS
<1>3. PICK info : info = buildTpmCertInfo(pub, Attested(r))
    OBVIOUS
<1>4. in.st.x5c = <<aik>> /\ in.st.alg = "ES256" /\ in.st.ver = "2.0"
    BY <1>1 DEF Whole, register, RegisterTpm, EmptyStatement
<1>5. in.st.certInfo = info /\ in.st.pubArea = pub
    BY <1>2, <1>3 DEF Whole, register, RegisterTpm, EmptyStatement
<1>6. in.st.sig = Sign(r.attestationKey, info)
    BY <1>2, <1>3 DEF Whole, register, RegisterTpm, EmptyStatement
<1>7. /\ r.attestationKey.alg = "ES256" /\ in.st.sig # None
      /\ in.st.certInfo # None /\ in.st.pubArea # None
    BY RegistrationsAssumption, StatementsAssumption DEF Whole
<1>8. in.st.x5c[1] = aik
    BY <1>4
<1>9. /\ aik.key = r.attestationKey /\ aik.ca = FALSE /\ aik.name = None
      /\ aik.ext.kind = "aik"
    BY <1>1 DEF createCertificate
<1>10. Attested(r) = SignedData(in.auth, in.cdh) /\ in.auth.key = r.key
    BY DEF Whole, Attested, buildAuthenticatorData
<1>11. parseTpmPublic(pub) /\ verifyPublicKeyMatches(pub, in.auth.key)
    BY <1>2, <1>10 DEF parseTpmPublic, verifyPublicKeyMatches, buildTpmPublic
<1>12. /\ parseTpmAttest(info) /\ info.extraData = Digest(SignedData(in.auth, in.cdh))
       /\ verifyAttestedName(info.name, pub)
    BY <1>3, <1>10 DEF parseTpmAttest, verifyAttestedName, buildTpmCertInfo
<1>13. verifySignature(in.st.alg, aik.key, info, in.st.sig)
    BY <1>4, <1>6, <1>7, <1>9 DEF verifySignature, Sign
<1>14. verifyTpmAttestation(in, anchors)
    BY <1>4, <1>5, <1>7, <1>8, <1>9, <1>10, <1>11, <1>12, <1>13
       DEF verifyTpmAttestation, credentialKeyMaterial, hasExtendedKeyUsage
<1> QED
    BY <1>4, <1>14 DEF Tpm

LEMMA AndroidKeyAccepted ==
    ASSUME NEW r \in AllMade, NEW in, Whole(in, r), r.format = "android-key",
           r.key.alg = "ES256", r.kept = "hardware",
           NEW p, ~p.softwareKeys, NEW anchors, anchors # {}, chainReachesAnchor(in.st.x5c, anchors),
           readX5c(in.st), Allowed(p, in.auth)
    PROVE  AndroidKey(in, p, anchors)
<1>1. PICK d : d = keyDescription(r.kept, r.cdh)
    OBVIOUS
<1>2. PICK cert : cert = createCertificate("keystore", r.issuer, r.key, FALSE,
                             [kind |-> "android", value |-> d])
    OBVIOUS
<1>3. /\ in.st.x5c = <<cert>> /\ in.st.alg = r.key.alg
      /\ in.st.sig = Sign(r.key, Attested(r))
    BY <1>1, <1>2 DEF Whole, register, RegisterAndroidKey, EmptyStatement
<1>4. in.st.sig # None
    BY StatementsAssumption DEF Whole
<1>5. /\ in.st.x5c[1] = cert /\ cert.key = r.key
      /\ cert.ext.kind = "android" /\ cert.ext.value = d
    BY <1>2, <1>3 DEF createCertificate
<1>6. Attested(r) = SignedData(in.auth, in.cdh) /\ in.auth.key = r.key /\ in.cdh = r.cdh
    BY DEF Whole, Attested, buildAuthenticatorData
<1>7. verifySignature(in.st.alg, cert.key, SignedData(in.auth, in.cdh), in.st.sig)
    BY <1>3, <1>4, <1>5, <1>6 DEF verifySignature, Sign
<1>8. /\ d.challenge = in.cdh /\ d.fields = 8 /\ ~d.software.all /\ ~d.tee.all
      /\ d.tee.origin = KM_ORIGIN_GENERATED /\ d.tee.purposes = {KM_PURPOSE_SIGN}
    BY <1>1, <1>6 DEF keyDescription, authorizationList
<1>9. verifyAuthorizations(d, p.softwareKeys)
    BY <1>8, StatementsAssumption DEF verifyAuthorizations
<1>10. verifyAndroidKeyAttestation(in, anchors, p.softwareKeys)
    BY <1>5, <1>6, <1>7, <1>8, <1>9
       DEF verifyAndroidKeyAttestation, certificateHoldsCredentialKey, parseKeyDescription
<1> QED
    BY <1>3, <1>10 DEF AndroidKey

\* attestation.ts, testing.ts: what an authenticator of an admitted model makes,
\* in a format that names models, is accepted when its certificates lead to
\* the model's roots.
THEOREM GenuineIsAccepted == MetadataSpec => []GenuineAccepted
<1>1. MetadataIInv => GenuineAccepted
  <2> DEFINE r == verdict.of  in == Input  anchors == policy.modelAnchors[r.aaguid]
  <2> SUFFICES ASSUME MetadataIInv, verdict # None, verdict.part = "none",
                      r.format \in {"packed", "apple", "tpm", "android-key"},
                      r.format \in {"tpm", "android-key"} => r.key.alg = "ES256",
                      loaded # None, r.aaguid \in policy.aaguids,
                      ~r.self, r.kept = "hardware",
                      OneEach(in.st.x5c), Len(in.st.x5c) <= MAX_X5C_ENTRIES,
                      Rooted(in, anchors)
               PROVE  verdict.result.type = "basic"
    BY DEF GenuineAccepted
  <2>1. PICK s : /\ r \in Registrations /\ in = Mixed(r, s, "none")
                 /\ verdict.result = verifyAttestation(in, policy)
    BY VerdictIs
  <2>2. r \in AllMade /\ Whole(in, r)
    BY <2>1, UnmixedIsWhole DEF AllMade
  <2>3. in.st.x5c # None /\ IsSequence(in.st.x5c) /\ IsSequence(r.intermediates)
    BY <2>2, StatementsAssumption, RegistrationsAssumption, ChainIsSequence DEF Whole
  <2>4. Certificates(in) = in.st.x5c /\ in.fmt = r.format
    BY <2>2, <2>3 DEF Certificates, Whole
  <2>5. readX5c(in.st)
    BY <2>3, <2>4 DEF readX5c, Rooted
  <2>6. chainReachesAnchor(in.st.x5c, anchors)
    BY <2>3, <2>4, VouchedIsReached DEF Rooted
  <2>7. PICK b \in blobs : policy = toAttestationPolicy(b.payload.entries)
    BY DEF MetadataIInv, PolicyOK
  <2>8. /\ in.auth.aaguid = r.aaguid /\ r.aaguid \in DOMAIN policy.modelAnchors
        /\ ~policy.softwareKeys /\ in.fmt \in policy.formats \cap VERIFIABLE_FORMATS
    BY <2>2, <2>4, <2>7 DEF Whole, buildAuthenticatorData, toAttestationPolicy, VERIFIABLE_FORMATS
  <2>9. anchorsForModel(policy, in.auth) = anchors /\ Allowed(policy, in.auth)
    BY <2>8 DEF anchorsForModel, Allowed
  <2>10. anchors # {}
    BY RootedByOne
  <2> HIDE DEF r, in, anchors
  <2>11. Accepts(in, policy)
    <3>1. CASE r.format = "packed"
      <4>1. Packed(in, policy, anchors)
        BY <2>2, <2>5, <2>6, <2>9, <2>10, <3>1, PackedAccepted
      <4> QED
        BY <2>4, <2>8, <2>9, <3>1, <4>1 DEF Accepts
    <3>2. CASE r.format = "apple"
      <4>1. Apple(in, policy, anchors)
        BY <2>2, <2>5, <2>6, <2>9, <2>10, <3>2, AppleAccepted
      <4> QED
        BY <2>4, <2>8, <2>9, <3>2, <4>1 DEF Accepts
    <3>3. CASE r.format = "tpm"
      <4>1. Tpm(in, policy, anchors)
        BY <2>2, <2>5, <2>6, <2>9, <2>10, <3>3, TpmAccepted
      <4> QED
        BY <2>4, <2>8, <2>9, <3>3, <4>1 DEF Accepts
    <3>4. CASE r.format = "android-key"
      <4>1. AndroidKey(in, policy, anchors)
        BY <2>2, <2>5, <2>6, <2>8, <2>9, <2>10, <3>4, AndroidKeyAccepted
      <4> QED
        BY <2>4, <2>8, <2>9, <3>4, <4>1 DEF Accepts
    <3> QED
        BY <3>1, <3>2, <3>3, <3>4
  <2> QED
    BY <2>1, <2>3, <2>4, <2>11 DEF verifyAttestation
<1> QED
    BY <1>1, MetadataInvariance, PTL
=============================================================================
