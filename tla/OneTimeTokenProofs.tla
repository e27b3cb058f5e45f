------------------------- MODULE OneTimeTokenProofs -------------------------
(***************************************************************************)
(* Theorems of OneTimeToken, for every number of callers, slots and tokens *)
(* and any lifetimes.  That a token is spent once holds for every slot;    *)
(* that superseding sticks holds for the slots that replace, where an      *)
(* issue renews the generation counter it stamps the token with.           *)
(***************************************************************************)
EXTENDS OneTimeToken, TLAPS

-----------------------------------------------------------------------------
(***************************************************************************)
(* The initial state.                                                      *)
(***************************************************************************)
LEMMA IdleType == Idle \in Locals /\ NoClaim.slot \notin Slots
  BY ConstantsAssumption DEF Idle, Locals, NoClaim

LEMMA InitInv == Init => IInv
<1> SUFFICES ASSUME Init PROVE IInv
  OBVIOUS
<1> USE ConstantsAssumption DEF Init
<1>1. TypeOK
  BY IdleType DEF TypeOK
<1>2. \A t \in Tokens : InOnePlace(t) /\ Tracked(t)
  BY DEF InOnePlace, Tracked, Holding
<1>3. \A c \in Callers : CallPlaced(c) /\ CallTimed(c)
  BY DEF CallPlaced, CallTimed, Holding
<1>4. \A s \in Slots : counter[s].until <= now + GenerationTtl
  BY DEF GenerationTtl
<1> QED BY <1>1, <1>2, <1>3, <1>4 DEF IInv, Placed, Timed

-----------------------------------------------------------------------------
(***************************************************************************)
(* Types.                                                                  *)
(***************************************************************************)
LEMMA GenerationType ==
  ASSUME TypeOK, NEW s \in Slots
  PROVE  Generation(s) \in Nat
  BY DEF TypeOK, Generation

\* Where a caller's move leaves the types of pc and loc.
LEMMA MoveType ==
  ASSUME TypeOK, NEW c \in Callers,
         NEW l \in {"idle", "build", "store", "compare"},
         NEW r \in Locals,
         pc' = [pc EXCEPT ![c] = l], loc' = [loc EXCEPT ![c] = r]
  PROVE  /\ pc' \in [Callers -> {"idle", "build", "store", "compare"}]
         /\ loc' \in [Callers -> Locals]
         /\ pc'[c] = l /\ loc'[c] = r
         /\ \A d \in Callers \ {c} : pc'[d] = pc[d] /\ loc'[d] = loc[d]
  BY DEF TypeOK

LEMMA ReturnType ==
  ASSUME TypeOK, NEW c \in Callers, Return(c)
  PROVE  /\ pc' \in [Callers -> {"idle", "build", "store", "compare"}]
         /\ loc' \in [Callers -> Locals]
         /\ pc'[c] = "idle"
         /\ \A d \in Callers \ {c} : pc'[d] = pc[d] /\ loc'[d] = loc[d]
  BY IdleType DEF TypeOK, Return

LEMMA IncrementType ==
  ASSUME TypeOK, NEW s \in Slots, Increment(s)
  PROVE  /\ counter' \in [Slots -> [value : Nat, until : Nat]]
         /\ epoch' \in [Slots -> Nat]
         /\ counter'[s].value = Generation(s) + 1
         /\ counter'[s].until = now + GenerationTtl
         /\ epoch'[s] = epoch[s] + 1
         /\ \A r \in Slots \ {s} : counter'[r] = counter[r] /\ epoch'[r] = epoch[r]
<1>1. Generation(s) + 1 \in Nat /\ now + GenerationTtl \in Nat
  BY GenerationType, ConstantsAssumption DEF TypeOK, GenerationTtl
<1> HIDE DEF Slots
<1>2. counter' = [counter EXCEPT ![s] = [value |-> Generation(s) + 1,
                                         until |-> now + GenerationTtl]]
  BY DEF Increment
<1>3. [value |-> Generation(s) + 1, until |-> now + GenerationTtl]
         \in [value : Nat, until : Nat]
  BY <1>1
<1>4. epoch' = [epoch EXCEPT ![s] = epoch[s] + 1]
  BY DEF Increment
<1> QED BY <1>2, <1>3, <1>4 DEF TypeOK

-----------------------------------------------------------------------------
(***************************************************************************)
(* Every token is in one place, whatever the option.                       *)
(***************************************************************************)
\* What stays of the places when claims and stored claims do not change and
\* one call moves without letting a token in or out of its hands.
LEMMA StillPlaced ==
  ASSUME Placed, TypeOK', NEW c \in Callers,
         UNCHANGED <<stored, claim, accepted>>,
         \A d \in Callers \ {c} : pc'[d] = pc[d] /\ loc'[d] = loc[d],
         CallPlaced(c)',
         Holding(c)' => Holding(c) /\ loc'[c].token = loc[c].token
  PROVE  Placed'
<1>1. \A t \in Tokens : InOnePlace(t)'
  BY DEF Placed, InOnePlace, Holding
<1>2. \A d \in Callers : CallPlaced(d)'
  BY DEF Placed, CallPlaced, Holding
<1> QED BY <1>1, <1>2 DEF Placed

LEMMA ReturnPlaced ==
  ASSUME Placed, NEW c \in Callers, Return(c), TypeOK',
         UNCHANGED <<stored, claim, accepted>>
  PROVE  Placed'
<1>1. pc'[c] = "idle" /\ \A d \in Callers \ {c} : pc'[d] = pc[d] /\ loc'[d] = loc[d]
  BY ReturnType DEF Placed
<1>2. CallPlaced(c)' /\ ~Holding(c)'
  BY <1>1 DEF CallPlaced, Holding
<1> QED BY <1>1, <1>2, StillPlaced

LEMMA IssuePlaced ==
  ASSUME Placed, NEW c \in Callers, Issue(c)
  PROVE  Placed'
<1> USE DEF Placed
<1> HIDE DEF Slots
<1>1. ASSUME NEW s \in Slots, NEW ttl \in 1..MaxTtl,
             StampNext(c, s, ttl) \/ StampCurrent(c, s, ttl)
      PROVE  Placed'
  <2>1. PICK g \in Nat, e \in Nat : Stamp(c, s, ttl, g, e)
    <3>1. Generation(s) \in Nat /\ epoch[s] \in Nat
      BY GenerationType DEF TypeOK
    <3>2. Generation(s) + 1 \in Nat /\ epoch[s] + 1 \in Nat
      BY <3>1
    <3> QED BY <1>1, <3>1, <3>2 DEF StampNext, StampCurrent
  <2> DEFINE r == [Idle EXCEPT !.slot = s, !.ttl = ttl, !.generation = g,
                               !.epoch = e, !.since = now]
  <2>2. r \in Locals /\ r.slot = s /\ r.ttl = ttl
    <3>1. ttl \in Nat /\ now \in Nat
      BY ConstantsAssumption DEF TypeOK
    <3> QED BY <3>1, IdleType DEF Locals
  <2> HIDE DEF r
  <2>3. pc' = [pc EXCEPT ![c] = "build"] /\ loc' = [loc EXCEPT ![c] = r]
    BY <2>1 DEF Stamp, r
  <2>4. TypeOK'
    BY <1>1, <2>2, <2>3, MoveType, IncrementType
       DEF TypeOK, StampNext, StampCurrent
  <2>5. /\ pc'[c] = "build" /\ loc'[c] = r
        /\ \A d \in Callers \ {c} : pc'[d] = pc[d] /\ loc'[d] = loc[d]
    BY <2>2, <2>3, MoveType
  <2>6. CallPlaced(c)' /\ ~Holding(c)'
    BY <2>2, <2>5 DEF CallPlaced, Holding
  <2> QED BY <1>1, <2>4, <2>5, <2>6, StillPlaced DEF StampNext, StampCurrent
<1>2. ASSUME NEW t \in Tokens, BuildClaim(c, t)
      PROVE  Placed'
  <2> DEFINE r == [loc[c] EXCEPT !.token = t]
             m == [slot |-> loc[c].slot, generation |-> loc[c].generation,
                   expiresAt |-> now + loc[c].ttl]
  <2>1. r \in Locals /\ r.token = t /\ loc[c] \in Locals
    BY DEF TypeOK, Locals
  <2>2. m \in Claims /\ m.slot \in Slots /\ m # NoClaim
    BY <1>2, IdleType DEF CallPlaced, BuildClaim, TypeOK, Locals, Claims
  <2>3. /\ pc' = [pc EXCEPT ![c] = "store"] /\ loc' = [loc EXCEPT ![c] = r]
        /\ claim' = [claim EXCEPT ![t] = m]
    BY <1>2 DEF BuildClaim
  <2> HIDE DEF r, m
  <2>4. TypeOK'
    <3>1. loc[c].epoch \in Nat
      BY <2>1 DEF Locals
    <3>2. pc' \in [Callers -> {"idle", "build", "store", "compare"}] /\ loc' \in [Callers -> Locals]
      BY <2>1, <2>3, MoveType
    <3>3. claim' \in [Tokens -> Claims \cup {NoClaim}]
      BY <2>2, <2>3 DEF TypeOK
    <3>4. epochOf' \in [Tokens -> Nat]
      BY <1>2, <3>1 DEF TypeOK, BuildClaim
    <3> QED BY <1>2, <3>2, <3>3, <3>4 DEF TypeOK, BuildClaim
  <2>5. /\ pc'[c] = "store" /\ loc'[c].token = t /\ claim'[t] = m
        /\ \A d \in Callers \ {c} : pc'[d] = pc[d] /\ loc'[d] = loc[d]
        /\ \A u \in Tokens \ {t} : claim'[u] = claim[u]
    BY <2>1, <2>3, MoveType DEF TypeOK
  <2>6. \A u \in Tokens : InOnePlace(u)'
    <3>1. InOnePlace(t) /\ claim[t] = NoClaim /\ pc[c] = "build"
      BY <1>2 DEF BuildClaim
    <3>2. stored' = stored /\ accepted' = accepted
      BY <1>2 DEF BuildClaim
    <3>3. InOnePlace(t)'
      BY <2>2, <2>5, <3>1, <3>2 DEF InOnePlace, Holding, TypeOK
    <3>4. ASSUME NEW u \in Tokens \ {t} PROVE InOnePlace(u)'
      BY <2>5, <3>1, <3>2 DEF InOnePlace, Holding
    <3> QED BY <3>3, <3>4
  <2>7. \A d \in Callers : CallPlaced(d)'
    BY <2>2, <2>5 DEF CallPlaced, Holding
  <2> QED BY <2>4, <2>6, <2>7
<1>3. CASE StoreClaim(c)
  <2> DEFINE t == loc[c].token
  <2>1. t \in Tokens /\ Holding(c) /\ loc[c].ttl \in Nat
    BY <1>3 DEF StoreClaim, CallPlaced, Holding, TypeOK, Locals
  <2>2. /\ pc'[c] = "idle"
        /\ \A d \in Callers \ {c} : pc'[d] = pc[d] /\ loc'[d] = loc[d]
    BY <1>3, ReturnType DEF StoreClaim
  <2>3. TypeOK'
    BY <1>3, <2>1, ReturnType DEF TypeOK, StoreClaim
  <2>4. \A u \in Tokens : InOnePlace(u)'
    BY <1>3, <2>1, <2>2 DEF StoreClaim, InOnePlace, Holding, TypeOK
  <2>5. \A d \in Callers : CallPlaced(d)'
    BY <1>3, <2>2 DEF StoreClaim, CallPlaced, Holding
  <2> QED BY <2>3, <2>4, <2>5
<1> QED BY <1>1, <1>2, <1>3 DEF Issue

LEMMA ConsumePlaced ==
  ASSUME Placed, NEW c \in Callers, Consume(c)
  PROVE  Placed'
<1> USE DEF Placed
<1> HIDE DEF Slots
<1>1. ASSUME NEW t \in Tokens, NEW p \in Purposes, Take(c, t, p)
      PROVE  Placed'
  <2>1. /\ now \in Nat /\ pc[c] = "idle" /\ ~Holding(c)
        /\ stored[t] > 0 /\ claim[t] \in Claims
    BY <1>1 DEF Take, Found, Present, TypeOK, Holding, InOnePlace
  <2>2. /\ stored' = [stored EXCEPT ![t] = 0]
        /\ UNCHANGED <<now, counter, claim, mailed, accepted, epoch, epochOf>>
    BY <1>1 DEF Take
  <2>3. claim[t].slot \in Slots
    BY <2>1 DEF Claims
  <2>4. /\ stored'[t] = 0 /\ \A u \in Tokens \ {t} : stored'[u] = stored[u]
        /\ claim' = claim /\ accepted' = accepted
    BY <2>1, <2>2 DEF TypeOK
  <2>5. /\ \A u \in Tokens : InOnePlace(u)
        /\ claim[t] # NoClaim /\ accepted[t] = 0 /\ ~(0 > 0)
        /\ \A d \in Callers : Holding(d) => loc[d].token # t
    BY <2>1 DEF InOnePlace, TypeOK
  <2>6. CASE UNCHANGED <<pc, loc>>
    <3>1. TypeOK'
      BY <2>2, <2>6 DEF TypeOK
    <3>2. \A u \in Tokens : InOnePlace(u)'
      <4>1. \A d \in Callers : Holding(d)' = Holding(d) /\ loc'[d] = loc[d]
        BY <2>6 DEF Holding
      <4> QED BY <2>4, <2>5, <4>1 DEF InOnePlace
    <3>3. \A d \in Callers : CallPlaced(d)'
      BY <2>2, <2>6 DEF CallPlaced, Holding
    <3> QED BY <3>1, <3>2, <3>3
  <2>7. CASE /\ pc' = [pc EXCEPT ![c] = "compare"]
             /\ loc' = [loc EXCEPT ![c] = [Idle EXCEPT !.token = t, !.since = now]]
    <3> DEFINE r == [Idle EXCEPT !.token = t, !.since = now]
    <3>1. r \in Locals /\ r.token = t
      BY <2>1, IdleType DEF Locals
    <3> HIDE DEF r
    <3>2. pc' = [pc EXCEPT ![c] = "compare"] /\ loc' = [loc EXCEPT ![c] = r]
      BY <2>7 DEF r
    <3>3. /\ pc'[c] = "compare" /\ loc'[c] = r
          /\ \A d \in Callers \ {c} : pc'[d] = pc[d] /\ loc'[d] = loc[d]
      BY <3>1, <3>2, MoveType
    <3>4. TypeOK'
      BY <2>1, <2>2, <3>1, <3>2, MoveType DEF TypeOK
    <3>5. \A u \in Tokens : InOnePlace(u)'
      <4>1. \A d \in Callers \ {c} : Holding(d)' => Holding(d) /\ loc'[d] = loc[d]
        BY <3>3 DEF Holding
      <4>2. InOnePlace(t)'
        BY <2>4, <2>5, <3>1, <3>3, <4>1 DEF InOnePlace
      <4>3. ASSUME NEW u \in Tokens \ {t} PROVE InOnePlace(u)'
        BY <2>4, <2>5, <3>1, <3>3, <4>1, <4>3 DEF InOnePlace
      <4> QED BY <4>2, <4>3
    <3>6. \A d \in Callers : CallPlaced(d)'
      BY <2>1, <2>2, <2>3, <3>1, <3>3 DEF CallPlaced, Holding
    <3> QED BY <3>4, <3>5, <3>6
  <2> QED BY <1>1, <2>6, <2>7 DEF Take, Taken
<1>2. CASE Accept(c)
  <2>0. PICK t \in Tokens : t = loc[c].token
    BY <1>2 DEF Accept, CallPlaced, Holding
  <2>1. loc[c].token = t /\ Holding(c)
    BY <1>2, <2>0 DEF Accept, CallPlaced, Holding
  <2>2. /\ pc'[c] = "idle"
        /\ \A d \in Callers \ {c} : pc'[d] = pc[d] /\ loc'[d] = loc[d]
    BY <1>2, ReturnType DEF Accept
  <2>3. /\ accepted' = [accepted EXCEPT ![t] = @ + 1]
        /\ UNCHANGED <<now, counter, stored, claim, mailed, epoch, epochOf>>
    BY <1>2, <2>0 DEF Accept
  <2>4. TypeOK'
    BY <1>2, <2>1, <2>3, ReturnType DEF TypeOK, Accept
  <2>5. \A u \in Tokens : InOnePlace(u)'
    <3>1. /\ stored' = stored /\ claim' = claim /\ accepted'[t] = 1
          /\ \A u \in Tokens \ {t} : accepted'[u] = accepted[u]
      BY <2>1, <2>3 DEF InOnePlace, TypeOK
    <3>2. \A d \in Callers \ {c} : Holding(d) => loc[d].token # t
      BY <2>1 DEF InOnePlace
    <3>3. /\ ~Holding(c)'
          /\ \A d \in Callers \ {c} : Holding(d)' = Holding(d) /\ loc'[d] = loc[d]
      BY <2>2 DEF Holding
    <3>4. stored[t] = 0 /\ claim[t] # NoClaim
      BY <2>1 DEF InOnePlace, TypeOK
    <3>5. InOnePlace(t)'
      BY <2>1, <3>1, <3>2, <3>3, <3>4 DEF InOnePlace
    <3>6. ASSUME NEW u \in Tokens \ {t} PROVE InOnePlace(u)'
      BY <3>1, <3>3, <3>6 DEF InOnePlace
    <3> QED BY <3>5, <3>6
  <2>6. \A d \in Callers : CallPlaced(d)'
    BY <2>2, <2>3 DEF CallPlaced, Holding
  <2> QED BY <2>4, <2>5, <2>6
<1>3. CASE Refuse(c)
  <2>1. TypeOK'
    BY <1>3, ReturnType DEF TypeOK, Refuse
  <2> QED BY <1>3, <2>1, ReturnPlaced DEF Refuse
<1> QED BY <1>1, <1>2, <1>3 DEF Consume

\* One place per token, along every step.
LEMMA PlacedNext == Placed /\ [Next]_vars => Placed'
<1> SUFFICES ASSUME Placed, [Next]_vars PROVE Placed'
  OBVIOUS
<1> USE DEF Placed
<1> HIDE DEF Slots
<1>1. ASSUME NEW c \in Callers, Issue(c) \/ Consume(c)
      PROVE  Placed'
  BY <1>1, IssuePlaced, ConsumePlaced
<1>2. ASSUME NEW c \in Callers, Fail(c)
      PROVE  Placed'
  <2>1. TypeOK'
    BY <1>2, ReturnType DEF TypeOK, Fail
  <2> QED BY <1>2, <2>1, ReturnPlaced DEF Fail
<1>3. ASSUME NEW c \in Callers, FailStored(c)
      PROVE  Placed'
  <2>0. PICK t \in Tokens : t = loc[c].token
    BY <1>3 DEF FailStored, CallPlaced, Holding
  <2>1. loc[c].token = t /\ Holding(c) /\ loc[c].ttl \in Nat
    BY <1>3, <2>0 DEF FailStored, Holding, TypeOK, Locals
  <2>2. /\ pc'[c] = "idle"
        /\ \A d \in Callers \ {c} : pc'[d] = pc[d] /\ loc'[d] = loc[d]
    BY <1>3, ReturnType DEF FailStored
  <2>3. TypeOK'
    BY <1>3, <2>1, ReturnType DEF TypeOK, FailStored
  <2>4. \A u \in Tokens : InOnePlace(u)'
    <3>1. /\ claim' = claim /\ accepted' = accepted
          /\ \A u \in Tokens \ {t} : stored'[u] = stored[u]
      BY <1>3, <2>1 DEF FailStored, TypeOK
    <3>2. /\ ~Holding(c)'
          /\ \A d \in Callers \ {c} : Holding(d)' = Holding(d) /\ loc'[d] = loc[d]
      BY <2>2 DEF Holding
    <3>3. /\ claim[t] # NoClaim /\ ~(accepted[t] > 0)
          /\ \A d \in Callers \ {c} : Holding(d) => loc[d].token # t
      BY <2>1 DEF InOnePlace
    <3>4. InOnePlace(t)'
      BY <2>1, <3>1, <3>2, <3>3 DEF InOnePlace
    <3>5. ASSUME NEW u \in Tokens \ {t} PROVE InOnePlace(u)'
      BY <3>1, <3>2, <3>5 DEF InOnePlace
    <3> QED BY <3>4, <3>5
  <2>5. \A d \in Callers : CallPlaced(d)'
    BY <1>3, <2>2 DEF FailStored, CallPlaced, Holding
  <2> QED BY <2>3, <2>4, <2>5
<1>4. ASSUME NEW s \in Slots, RevokeAllFor(s)
      PROVE  Placed'
  <2>1. TypeOK'
    BY <1>4, IncrementType DEF TypeOK, RevokeAllFor
  <2> QED BY <1>4, <2>1 DEF RevokeAllFor, InOnePlace, CallPlaced, Holding
<1>5. CASE Tick
  BY <1>5 DEF Tick, TypeOK, InOnePlace, CallPlaced, Holding
<1>6. CASE UNCHANGED vars
  BY <1>6 DEF vars, TypeOK, InOnePlace, CallPlaced, Holding
<1> QED BY <1>1, <1>2, <1>3, <1>4, <1>5, <1>6 DEF Next

\* Every token is in one place in every reachable state, whether its slot
\* replaces or keeps, and whatever calls race, stall or fail.
THEOREM PlacedAlways == Spec => []Placed
<1>1. Init => Placed
  BY InitInv DEF IInv
<1> QED BY <1>1, PlacedNext, PTL DEF Spec

\* consume() accepts a token at most once, for every number of concurrent
\* callers.
THEOREM SpentAtMostOnce == Spec => []SpentOnce
<1>1. Placed => SpentOnce
  BY DEF Placed, InOnePlace, SpentOnce
<1> QED BY <1>1, PlacedAlways, PTL

-----------------------------------------------------------------------------
(***************************************************************************)
(* Where issues replace, the counter counts what the epochs count: it      *)
(* outlives every token and call that will compare with it.                *)
(***************************************************************************)
\* A counter that has not lapsed goes on counting, and is only renewed.
Renewed ==
    \A r \in Slots :
       /\ counter'[r].until >= counter[r].until
       /\ counter'[r].until <= now + GenerationTtl
       /\ \A g, e \in Nat : counter[r].until > now /\ Counted(r, g, e) =>
                               counter'[r].value + e = epoch'[r] + g

LEMMA IncrementRenews ==
  ASSUME TypeOK, Timed, NEW s \in Slots, Increment(s)
  PROVE  Renewed
<1> USE ConstantsAssumption
<1> HIDE DEF Slots
<1>1. now \in Nat /\ GenerationTtl \in Nat
  BY DEF TypeOK, GenerationTtl
<1>2. ASSUME NEW r \in Slots
      PROVE  /\ counter'[r].until >= counter[r].until
             /\ counter'[r].until <= now + GenerationTtl
             /\ \A g, e \in Nat : counter[r].until > now /\ Counted(r, g, e) =>
                                     counter'[r].value + e = epoch'[r] + g
  <2>1. /\ counter[r].until \in Nat /\ counter[r].value \in Nat
        /\ epoch[r] \in Nat /\ counter[r].until <= now + GenerationTtl
    BY DEF TypeOK, Timed
  <2>2. CASE r = s
    <3>1. /\ counter'[r].value = Generation(r) + 1
          /\ counter'[r].until = now + GenerationTtl
          /\ epoch'[r] = epoch[r] + 1
      BY <2>2, IncrementType
    <3>2. counter[r].until > now => Generation(r) = counter[r].value
      BY <1>1, <2>1 DEF Generation
    <3>3. ASSUME NEW g \in Nat, NEW e \in Nat,
                 counter[r].until > now, Counted(r, g, e)
          PROVE  counter'[r].value + e = epoch'[r] + g
      BY <2>1, <3>1, <3>2, <3>3 DEF Counted
    <3> QED BY <1>1, <2>1, <3>1, <3>3
  <2>3. CASE r # s
    <3>1. counter'[r] = counter[r] /\ epoch'[r] = epoch[r]
      BY <2>3, IncrementType
    <3> QED BY <2>1, <3>1 DEF Counted
  <2> QED BY <2>2, <2>3
<1> QED BY <1>2 DEF Renewed

LEMMA UnchangedRenews ==
  ASSUME TypeOK, Timed, UNCHANGED <<counter, epoch>>
  PROVE  Renewed
<1> HIDE DEF Slots
<1>1. \A r \in Slots : counter[r].until \in Nat
  BY DEF TypeOK
<1> QED BY <1>1 DEF TypeOK, Timed, Renewed, Counted

\* A token whose claim does not change stays tracked.
LEMMA StillTracked ==
  ASSUME Placed, Placed', Timed, Renewed, now' = now, NEW t \in Tokens,
         claim'[t] = claim[t], epochOf'[t] = epochOf[t]
  PROVE  Tracked(t)'
<1> USE ConstantsAssumption
<1> HIDE DEF Slots
<1>1. SUFFICES ASSUME claim[t] # NoClaim, Replaces(claim[t].slot),
                      now <= claim[t].expiresAt
               PROVE  /\ counter'[claim[t].slot].until > claim[t].expiresAt + Stall
                      /\ counter'[claim[t].slot].value + epochOf[t]
                            = epoch'[claim[t].slot] + claim[t].generation
  BY DEF Tracked, Counted
<1>2. PICK r \in Slots, g \in Nat, x \in Nat :
         claim[t].slot = r /\ claim[t].generation = g /\ claim[t].expiresAt = x
  BY <1>1 DEF Placed, TypeOK, Claims
<1>3. epochOf[t] \in Nat /\ now \in Nat /\ counter[r].until \in Nat
  BY DEF Placed, TypeOK
<1>4. counter[r].until > x + Stall /\ Counted(r, g, epochOf[t])
  BY <1>1, <1>2 DEF Timed, Tracked
<1>5. counter[r].until > now
  BY <1>1, <1>2, <1>3, <1>4
<1>6. counter'[r].until >= counter[r].until /\ counter'[r].until \in Nat
  BY DEF Renewed, Placed, TypeOK
<1> QED BY <1>2, <1>3, <1>4, <1>5, <1>6 DEF Renewed

\* A call that does not move, and whose token's claim does not change, stays
\* in time.
LEMMA StillInTime ==
  ASSUME Placed, Placed', Timed, Renewed, now' = now, NEW d \in Callers,
         pc'[d] = pc[d], loc'[d] = loc[d],
         Holding(d) => /\ claim'[loc[d].token] = claim[loc[d].token]
                       /\ epochOf'[loc[d].token] = epochOf[loc[d].token]
  PROVE  CallTimed(d)'
<1> USE ConstantsAssumption
<1> HIDE DEF Slots
<1>1. now \in Nat /\ loc[d].since \in Nat
  BY DEF Placed, TypeOK, Locals
<1>2. CASE pc[d] = "build"
  <2>1. PICK r \in Slots, g \in Nat, e \in Nat :
          loc[d].slot = r /\ loc[d].generation = g /\ loc[d].epoch = e
    BY <1>2 DEF Placed, CallPlaced, TypeOK, Locals
  <2>2. /\ loc[d].since <= now /\ now <= loc[d].since + Stall
        /\ Replaces(r) => /\ counter[r].until >= loc[d].since + GenerationTtl
                          /\ Counted(r, g, e)
    BY <1>2, <2>1 DEF Timed, CallTimed
  <2>3. /\ counter[r].until \in Nat /\ counter'[r].until \in Nat
        /\ counter'[r].until >= counter[r].until
    BY DEF Renewed, Placed, TypeOK
  <2>4. Replaces(r) => counter[r].until > now
    BY <1>1, <2>2, <2>3 DEF GenerationTtl
  <2>5. Replaces(r) => Counted(r, g, e)'
    BY <2>2, <2>4 DEF Renewed, Counted
  <2>6. Replaces(r) => counter'[r].until >= loc[d].since + GenerationTtl
    BY <1>1, <2>2, <2>3 DEF GenerationTtl
  <2>7. Replaces(r) => Counted(loc[d].slot, loc[d].generation, loc[d].epoch)'
    BY <2>1, <2>5 DEF Counted
  <2> QED BY <1>2, <2>1, <2>2, <2>6, <2>7 DEF CallTimed
<1>3. CASE pc[d] = "compare"
  <2>1. PICK t \in Tokens, r \in Slots, g \in Nat :
          /\ loc[d].token = t /\ claim[t].slot = r /\ claim[t].generation = g
          /\ claim'[t] = claim[t] /\ epochOf'[t] = epochOf[t]
    <3>1. loc[d].token \in Tokens /\ claim[loc[d].token].slot \in Slots
      BY <1>3 DEF Placed, CallPlaced, Holding
    <3>2. claim[loc[d].token].generation \in Nat
      BY <3>1, IdleType DEF Placed, TypeOK, Claims
    <3> QED BY <1>3, <3>1, <3>2 DEF Holding
  <2>2. /\ loc[d].since <= now /\ now <= loc[d].since + Stall
        /\ Replaces(r) => /\ counter[r].until > loc[d].since + Stall
                          /\ Counted(r, g, epochOf[t])
    BY <1>3, <2>1 DEF Timed, CallTimed
  <2>3. /\ counter[r].until \in Nat /\ counter'[r].until \in Nat
        /\ counter'[r].until >= counter[r].until /\ epochOf[t] \in Nat
    BY DEF Renewed, Placed, TypeOK
  <2>4. Replaces(r) => counter[r].until > now
    BY <1>1, <2>2, <2>3
  <2>5. Replaces(r) => counter'[r].value + epochOf[t] = epoch'[r] + g
    BY <2>2, <2>3, <2>4 DEF Renewed
  <2>6. Replaces(r) => counter'[r].until > loc[d].since + Stall
    BY <1>1, <2>2, <2>3
  <2> QED BY <1>3, <2>1, <2>2, <2>5, <2>6 DEF CallTimed, Counted
<1>4. CASE pc[d] \notin {"build", "compare"}
  BY <1>4 DEF CallTimed
<1> QED BY <1>2, <1>3, <1>4

\* What is left to show of a step that stops or changes nothing but one call.
LEMMA OthersInTime ==
  ASSUME Placed, Placed', Timed, Renewed, now' = now,
         UNCHANGED <<claim, epochOf>>, NEW c \in Callers,
         \A d \in Callers \ {c} : pc'[d] = pc[d] /\ loc'[d] = loc[d],
         CallTimed(c)'
  PROVE  Timed'
<1> HIDE DEF Slots
<1>1. \A t \in Tokens : Tracked(t)'
  BY StillTracked
<1>2. \A d \in Callers \ {c} : CallTimed(d)'
  BY StillInTime
<1>3. \A s \in Slots : counter'[s].until <= now' + GenerationTtl
  BY DEF Renewed
<1> QED BY <1>1, <1>2, <1>3 DEF Timed

LEMMA ReturnInTime ==
  ASSUME Placed, Placed', Timed, NEW c \in Callers, Return(c),
         UNCHANGED <<now, counter, claim, epoch, epochOf>>
  PROVE  Timed'
<1>1. /\ pc'[c] = "idle"
      /\ \A d \in Callers \ {c} : pc'[d] = pc[d] /\ loc'[d] = loc[d]
  BY ReturnType DEF Placed
<1>2. CallTimed(c)'
  BY <1>1 DEF CallTimed
<1>3. Renewed
  BY UnchangedRenews DEF Placed
<1> QED BY <1>1, <1>2, <1>3, OthersInTime

LEMMA IssueInTime ==
  ASSUME Placed, Placed', Timed, NEW c \in Callers, Issue(c)
  PROVE  Timed'
<1> USE ConstantsAssumption DEF Placed
<1> HIDE DEF Slots
<1>1. ASSUME NEW s \in Slots, NEW ttl \in 1..MaxTtl, StampNext(c, s, ttl)
      PROVE  Timed'
  <2>1. now \in Nat /\ Generation(s) \in Nat /\ epoch[s] \in Nat
    BY GenerationType DEF TypeOK
  <2>2. Increment(s) /\ Renewed
    BY <1>1, IncrementRenews DEF StampNext
  <2>3. /\ counter'[s].value = Generation(s) + 1
        /\ counter'[s].until = now + GenerationTtl
        /\ epoch'[s] = epoch[s] + 1
    BY <2>2, IncrementType
  <2>4. /\ pc'[c] = "build" /\ loc'[c].slot = s /\ loc'[c].since = now
        /\ loc'[c].generation = Generation(s) + 1
        /\ loc'[c].epoch = epoch[s] + 1
        /\ \A d \in Callers \ {c} : pc'[d] = pc[d] /\ loc'[d] = loc[d]
    BY <1>1 DEF StampNext, Stamp, Idle, TypeOK
  <2>5. CallTimed(c)'
    <3>1. now' = now
      BY <1>1 DEF StampNext
    <3> QED BY <2>1, <2>3, <2>4, <3>1 DEF CallTimed, Counted, GenerationTtl
  <2> QED BY <1>1, <2>2, <2>4, <2>5, OthersInTime DEF StampNext
<1>2. ASSUME NEW s \in Slots, NEW ttl \in 1..MaxTtl, StampCurrent(c, s, ttl)
      PROVE  Timed'
  <2>1. /\ pc'[c] = "build" /\ loc'[c].slot = s /\ loc'[c].since = now
        /\ \A d \in Callers \ {c} : pc'[d] = pc[d] /\ loc'[d] = loc[d]
    BY <1>2 DEF StampCurrent, Stamp, Idle, TypeOK
  <2>2. CallTimed(c)'
    BY <1>2, <2>1 DEF StampCurrent, CallTimed, TypeOK
  <2> QED BY <1>2, <2>1, <2>2, UnchangedRenews, OthersInTime DEF StampCurrent
<1>3. ASSUME NEW t \in Tokens, BuildClaim(c, t)
      PROVE  Timed'
  <2>1. PICK s \in Slots, g \in Nat, e \in Nat, x \in Nat :
          /\ loc[c].slot = s /\ loc[c].generation = g /\ loc[c].epoch = e
          /\ loc[c].since = x
    BY <1>3 DEF BuildClaim, CallPlaced, TypeOK, Locals
  <2>2. loc[c].ttl \in 1..MaxTtl /\ now \in Nat
    BY <1>3 DEF BuildClaim, CallPlaced, TypeOK
  <2>3. /\ x <= now /\ now <= x + Stall
        /\ Replaces(s) => /\ counter[s].until >= x + GenerationTtl
                          /\ Counted(s, g, e)
    BY <1>3, <2>1 DEF BuildClaim, Timed, CallTimed
  <2>4. /\ claim'[t] = [slot |-> s, generation |-> g, expiresAt |-> now + loc[c].ttl]
        /\ epochOf'[t] = e
        /\ \A u \in Tokens \ {t} : claim'[u] = claim[u] /\ epochOf'[u] = epochOf[u]
    BY <1>3, <2>1 DEF BuildClaim, TypeOK
  <2>5. UNCHANGED <<now, counter, epoch>> /\ Renewed /\ counter[s].until \in Nat
    BY <1>3, UnchangedRenews DEF BuildClaim, TypeOK
  <2>6. Tracked(t)'
    BY <2>2, <2>3, <2>4, <2>5 DEF Tracked, Counted, GenerationTtl
  <2>7. /\ pc'[c] = "store"
        /\ \A d \in Callers \ {c} : pc'[d] = pc[d] /\ loc'[d] = loc[d]
    BY <1>3 DEF BuildClaim, TypeOK
  <2>8. \A u \in Tokens : Tracked(u)'
    BY <2>4, <2>5, <2>6, StillTracked
  <2>9. \A d \in Callers : CallTimed(d)'
    <3>1. \A d \in Callers \ {c} : Holding(d) => loc[d].token \in Tokens \ {t}
      BY <1>3 DEF BuildClaim, InOnePlace, CallPlaced, Holding
    <3>2. \A d \in Callers \ {c} : CallTimed(d)'
      BY <2>4, <2>5, <2>7, <3>1, StillInTime
    <3> QED BY <2>7, <3>2 DEF CallTimed
  <2> QED BY <2>5, <2>8, <2>9 DEF Timed, Renewed
<1>4. CASE StoreClaim(c)
  BY <1>4, ReturnInTime DEF StoreClaim
<1> QED BY <1>1, <1>2, <1>3, <1>4 DEF Issue

LEMMA ConsumeInTime ==
  ASSUME Placed, Placed', Timed, NEW c \in Callers, Consume(c)
  PROVE  Timed'
<1> USE ConstantsAssumption DEF Placed
<1> HIDE DEF Slots
<1>1. ASSUME NEW t \in Tokens, NEW p \in Purposes, Take(c, t, p)
      PROVE  Timed'
  <2>1. /\ claim[t] # NoClaim /\ claim[t] \in Claims /\ now \in Nat
        /\ UNCHANGED <<now, counter, claim, epoch, epochOf>>
    BY <1>1 DEF Take, Found, Present, InOnePlace, TypeOK, Claims
  <2>2. Renewed
    BY <2>1, UnchangedRenews
  <2>3. CASE UNCHANGED <<pc, loc>>
    <3>1. \A u \in Tokens : Tracked(u)'
      BY <2>1, <2>2, StillTracked
    <3>2. \A d \in Callers : CallTimed(d)'
      BY <2>1, <2>2, <2>3, StillInTime
    <3> QED BY <2>1, <2>2, <3>1, <3>2 DEF Timed, Renewed
  <2>4. CASE ~UNCHANGED <<pc, loc>>
    <3>1. PICK s \in Slots, g \in Nat, x \in Nat :
            claim[t].slot = s /\ claim[t].generation = g /\ claim[t].expiresAt = x
      BY <2>1 DEF Claims
    <3>2. /\ ~(now > x)
          /\ pc' = [pc EXCEPT ![c] = "compare"]
          /\ loc' = [loc EXCEPT ![c] = [Idle EXCEPT !.token = t, !.since = now]]
      BY <1>1, <2>4, <3>1 DEF Take, Taken
    <3>3. now <= x
      BY <2>1, <3>2
    <3>4. Replaces(s) => counter[s].until > x + Stall /\ Counted(s, g, epochOf[t])
      BY <2>1, <3>1, <3>3 DEF Timed, Tracked
    <3>5. /\ pc'[c] = "compare" /\ loc'[c].since = now /\ loc'[c].token = t
          /\ \A d \in Callers \ {c} : pc'[d] = pc[d] /\ loc'[d] = loc[d]
      BY <3>2 DEF Idle, TypeOK
    <3>6. Replaces(s) => counter[s].until > now + Stall
      <4>1. counter[s].until \in Nat
        BY DEF TypeOK
      <4> QED BY <2>1, <3>3, <3>4, <4>1
    <3>7. CallTimed(c)'
      BY <2>1, <3>1, <3>4, <3>5, <3>6 DEF CallTimed, Counted
    <3> QED BY <2>1, <2>2, <3>5, <3>7, OthersInTime
  <2> QED BY <2>3, <2>4
<1>2. CASE Accept(c) \/ Refuse(c)
  BY <1>2, ReturnInTime DEF Accept, Refuse
<1> QED BY <1>1, <1>2 DEF Consume

LEMMA TimedNext ==
  ASSUME Placed, Placed', Timed, [Next]_vars
  PROVE  Timed'
<1> USE ConstantsAssumption DEF Placed
<1> HIDE DEF Slots
<1>1. ASSUME NEW c \in Callers, Issue(c) \/ Consume(c)
      PROVE  Timed'
  BY <1>1, IssueInTime, ConsumeInTime
<1>2. ASSUME NEW c \in Callers, Fail(c) \/ FailStored(c)
      PROVE  Timed'
  BY <1>2, ReturnInTime DEF Fail, FailStored
<1>3. ASSUME NEW s \in Slots, RevokeAllFor(s)
      PROVE  Timed'
  <2>1. Renewed
    BY <1>3, IncrementRenews DEF RevokeAllFor
  <2>2. UNCHANGED <<now, claim, epochOf, pc, loc>>
    BY <1>3 DEF RevokeAllFor
  <2>3. \A t \in Tokens : Tracked(t)'
    BY <2>1, <2>2, StillTracked
  <2>4. \A d \in Callers : CallTimed(d)'
    BY <2>1, <2>2, StillInTime
  <2> QED BY <2>1, <2>2, <2>3, <2>4 DEF Timed, Renewed
<1>4. CASE Tick
  <2>1. /\ now' = now + 1 /\ now \in Nat
        /\ UNCHANGED <<counter, claim, pc, loc, epoch, epochOf>>
    BY <1>4 DEF Tick, TypeOK
  <2>2. \A s \in Slots : counter'[s].until <= now' + GenerationTtl
    <3>1. \A s \in Slots : counter[s].until \in Nat /\ counter[s].until <= now + GenerationTtl
      BY DEF Timed, TypeOK
    <3> QED BY <2>1, <3>1 DEF GenerationTtl
  <2>3. ASSUME NEW t \in Tokens PROVE Tracked(t)'
    <3>1. Tracked(t)
      BY DEF Timed
    <3>2. claim[t] # NoClaim => claim[t].expiresAt \in Nat
      BY DEF TypeOK, Claims
    <3>3. claim[t] # NoClaim /\ now + 1 <= claim[t].expiresAt => now <= claim[t].expiresAt
      BY <2>1, <3>2
    <3> QED BY <2>1, <3>1, <3>3 DEF Tracked, Counted
  <2>4. ASSUME NEW d \in Callers PROVE CallTimed(d)'
    <3>1. CallTimed(d) /\ loc[d].since \in Nat
      BY DEF Timed, TypeOK, Locals
    <3>2. pc[d] \in {"build", "compare"} => now < loc[d].since + Stall
      BY <1>4 DEF Tick
    <3>3. pc[d] \in {"build", "compare"} =>
             (loc[d].since <= now => loc[d].since <= now + 1) /\ now + 1 <= loc[d].since + Stall
      BY <2>1, <3>1, <3>2
    <3> QED BY <2>1, <3>1, <3>3 DEF CallTimed, Counted
  <2> QED BY <2>2, <2>3, <2>4 DEF Timed
<1>5. CASE UNCHANGED vars
  BY <1>5 DEF vars, Timed, Tracked, CallTimed, Counted
<1> QED BY <1>1, <1>2, <1>3, <1>4, <1>5 DEF Next

\* The inductive invariant: one place per token, and for the slots that replace
\* a counter that has counted every supersession since a live token's stamp.
THEOREM Invariance == Spec => []IInv
<1>1. IInv /\ [Next]_vars => IInv'
  BY PlacedNext, TimedNext DEF IInv
<1> QED BY <1>1, InitInv, PTL DEF Spec

\* What the counter says of a token in a consumer's hands is what the epochs
\* say: the comparison never errs in either direction.
LEMMA ComparisonIsExact ==
  ASSUME IInv, NEW c \in Callers, pc[c] = "compare"
  PROVE  /\ loc[c].token \in Tokens
         /\ Replaces(claim[loc[c].token].slot) =>
               (Honoured(loc[c].token) <=> ~Superseded(loc[c].token))
<1> USE ConstantsAssumption DEF IInv, Placed
<1> HIDE DEF Slots
<1>1. PICK t \in Tokens, r \in Slots :
        loc[c].token = t /\ claim[t].slot = r
  BY DEF CallPlaced, Holding
<1>2. claim[t].generation \in Nat
  BY <1>1, IdleType DEF TypeOK, Claims
<1>0. SUFFICES ASSUME Replaces(r) PROVE Honoured(t) <=> ~Superseded(t)
  BY <1>1
<1>3. /\ counter[r].until > now /\ Counted(r, claim[t].generation, epochOf[t])
  <2>1. /\ now <= loc[c].since + Stall /\ counter[r].until > loc[c].since + Stall
        /\ Counted(r, claim[t].generation, epochOf[t])
    BY <1>0, <1>1 DEF Timed, CallTimed
  <2>2. now \in Nat /\ loc[c].since \in Nat /\ counter[r].until \in Nat
    BY DEF TypeOK, Locals
  <2> QED BY <2>1, <2>2
<1>4. Generation(r) = counter[r].value
  BY <1>3 DEF Generation
<1>5. counter[r].value \in Nat /\ epochOf[t] \in Nat /\ epoch[r] \in Nat
  BY DEF TypeOK
<1> QED BY <1>1, <1>2, <1>3, <1>4, <1>5 DEF Honoured, Superseded, Counted

\* No token is accepted after a newer issue or a revocation of its slot.
THEOREM SupersedingSticks == Spec => RevocationSticks
<1> DEFINE Sticks == \A t \in Tokens :
                       accepted'[t] > accepted[t] /\ Replaces(claim[t].slot)
                          => ~Superseded(t)
<1>1. ASSUME IInv, [Next]_vars PROVE Sticks
  <2>1. ASSUME NEW t \in Tokens, accepted'[t] > accepted[t], Replaces(claim[t].slot)
        PROVE  ~Superseded(t)
    <3>1. accepted[t] \in Nat
      BY <1>1 DEF IInv, Placed, TypeOK
    <3>2. accepted' # accepted
      BY <2>1, <3>1
    <3>3. PICK c \in Callers : Accept(c)
      BY <1>1, <3>2 DEF Next, vars, Issue, Consume, StampNext,
         StampCurrent, BuildClaim, StoreClaim, Take, Refuse, Fail, FailStored, RevokeAllFor, Tick
    <3>4. pc[c] = "compare" /\ Honoured(loc[c].token)
          /\ accepted' = [accepted EXCEPT ![loc[c].token] = @ + 1]
      BY <3>3 DEF Accept
    <3>5. loc[c].token = t
      BY <1>1, <2>1, <3>1, <3>4, ComparisonIsExact DEF IInv, Placed, TypeOK
    <3> QED BY <1>1, <2>1, <3>4, <3>5, ComparisonIsExact
  <2> QED BY <2>1
<1> QED BY <1>1, Invariance, PTL DEF Spec, RevocationSticks

\* A token taken in time is refused only when something superseded it.
THEOREM LatestIsHonoured == Spec => LatestHonoured
<1> DEFINE Exact == \A c \in Callers :
                      Refuse(c) /\ Replaces(claim[loc[c].token].slot)
                         => Superseded(loc[c].token)
<1>1. ASSUME IInv, [Next]_vars PROVE Exact
  BY <1>1, ComparisonIsExact DEF Refuse
<1> QED BY <1>1, Invariance, PTL DEF Spec, LatestHonoured

-----------------------------------------------------------------------------
(***************************************************************************)
(* OneTimeToken implements SingleUseToken, for every value of the          *)
(* constants: what one-time.ts does with a store, a counter and a clock is *)
(* what it promises callers who see none of them.                          *)
(***************************************************************************)

-----------------------------------------------------------------------------
(***************************************************************************)
(* Where issues replace, each stamp has an epoch of its own, so that at    *)
(* most one token of the slot is of its current epoch.                     *)
(***************************************************************************)
CallStamped(c) ==
    pc[c] = "build" /\ Replaces(loc[c].slot) =>
       /\ loc[c].epoch <= epoch[loc[c].slot]
       /\ \A t \in Tokens : claim[t].slot = loc[c].slot => epochOf[t] # loc[c].epoch
       /\ \A d \in Callers \ {c} : pc[d] = "build" /\ loc[d].slot = loc[c].slot
                                      => loc[d].epoch # loc[c].epoch

TokenStamped(t) ==
    claim[t] # NoClaim /\ Replaces(claim[t].slot) =>
       /\ epochOf[t] <= epoch[claim[t].slot]
       /\ \A u \in Tokens \ {t} : claim[u].slot = claim[t].slot => epochOf[u] # epochOf[t]

Stamped == (\A c \in Callers : CallStamped(c)) /\ (\A t \in Tokens : TokenStamped(t))

LEMMA InitStamped == Init => Stamped
  BY DEF Init, Stamped, CallStamped, TokenStamped

\* Epochs only grow.
LEMMA EpochsGrow ==
  ASSUME Placed, [Next]_vars, NEW r \in Slots
  PROVE  epoch[r] \in Nat /\ epoch'[r] \in Nat /\ epoch[r] <= epoch'[r]
<1> USE DEF Placed
<1> HIDE DEF Slots
<1>1. epoch[r] \in Nat
  BY DEF TypeOK
<1>2. CASE epoch' = epoch
  BY <1>1, <1>2
<1>3. ASSUME NEW s \in Slots, Increment(s)
      PROVE  epoch'[r] = epoch[r] \/ epoch'[r] = epoch[r] + 1
  BY <1>3, IncrementType
<1>4. epoch' = epoch \/ \E s \in Slots : Increment(s)
  BY DEF Next, vars, Issue, Consume, StampNext, StampCurrent, BuildClaim, StoreClaim,
     Take, Accept, Refuse, Fail, FailStored, RevokeAllFor, Tick
<1> QED BY <1>1, <1>2, <1>3, <1>4

\* A step that builds no claim and stamps no call keeps the epochs apart.
LEMMA NothingStamped ==
  ASSUME Placed, Stamped, [Next]_vars, UNCHANGED <<claim, epochOf>>,
         \A c \in Callers : pc'[c] = "build" => pc[c] = "build" /\ loc'[c] = loc[c]
  PROVE  Stamped'
<1> USE DEF Placed
<1> HIDE DEF Slots
<1>1. ASSUME NEW c \in Callers, pc'[c] = "build", Replaces(loc'[c].slot)
      PROVE  CallStamped(c)'
  <2>1. pc[c] = "build" /\ loc'[c] = loc[c]
    BY <1>1
  <2>2. PICK r \in Slots, e \in Nat : loc[c].slot = r /\ loc[c].epoch = e
    BY <2>1 DEF CallPlaced, TypeOK, Locals
  <2>3. e <= epoch[r] /\ epoch[r] <= epoch'[r] /\ epoch[r] \in Nat /\ epoch'[r] \in Nat
    BY <1>1, <2>1, <2>2, EpochsGrow DEF Stamped, CallStamped
  <2>4. e <= epoch'[r]
    BY <2>3
  <2> QED BY <1>1, <2>1, <2>2, <2>4 DEF Stamped, CallStamped
<1>2. ASSUME NEW t \in Tokens, claim[t] # NoClaim, Replaces(claim[t].slot)
      PROVE  TokenStamped(t)'
  <2>1. claim[t].slot \in Slots /\ epochOf[t] \in Nat
    BY <1>2 DEF TypeOK, Claims
  <2>2. epochOf[t] <= epoch[claim[t].slot]
    BY <1>2 DEF Stamped, TokenStamped
  <2>3. epochOf[t] <= epoch'[claim[t].slot]
    <3>1. epoch[claim[t].slot] <= epoch'[claim[t].slot]
          /\ epoch[claim[t].slot] \in Nat /\ epoch'[claim[t].slot] \in Nat
      BY <2>1, EpochsGrow
    <3> QED BY <2>1, <2>2, <3>1
  <2> QED BY <1>2, <2>3 DEF Stamped, TokenStamped
<1> QED BY <1>1, <1>2 DEF Stamped, CallStamped, TokenStamped

LEMMA StampKeepsApart ==
  ASSUME Placed, Stamped, [Next]_vars, NEW c \in Callers, NEW s \in Slots,
         NEW ttl \in 1..MaxTtl, StampNext(c, s, ttl) \/ StampCurrent(c, s, ttl)
  PROVE  Stamped'
<1> USE DEF Placed
<1> HIDE DEF Slots
<1>1. /\ pc[c] = "idle" /\ pc'[c] = "build" /\ loc'[c].slot = s
      /\ \A d \in Callers \ {c} : pc'[d] = pc[d] /\ loc'[d] = loc[d]
      /\ UNCHANGED <<claim, epochOf>>
  <2>1. PICK g, e : Stamp(c, s, ttl, g, e)
    BY DEF StampNext, StampCurrent
  <2>2. pc'[c] = "build" /\ \A d \in Callers \ {c} : pc'[d] = pc[d] /\ loc'[d] = loc[d]
    BY <2>1 DEF Stamp, TypeOK
  <2>3. loc'[c].slot = s
    BY <2>1 DEF Stamp, Idle, TypeOK
  <2> QED BY <2>2, <2>3 DEF StampNext, StampCurrent
<1>2. \A r \in Slots : epoch[r] \in Nat /\ epoch'[r] \in Nat /\ epoch[r] <= epoch'[r]
  BY EpochsGrow
<1>3. ASSUME Replaces(s)
      PROVE  loc'[c].epoch = epoch[s] + 1 /\ epoch'[s] = epoch[s] + 1
  <2>1. StampNext(c, s, ttl)
    BY <1>3 DEF StampCurrent
  <2>2. loc'[c].epoch = epoch[s] + 1
    BY <2>1 DEF StampNext, Stamp, Idle, TypeOK
  <2> QED BY <2>1, <2>2, IncrementType DEF StampNext
<1>4. \A t \in Tokens : epochOf[t] \in Nat /\ (claim[t] # NoClaim => claim[t].slot \in Slots)
  BY DEF TypeOK, Claims
<1>5. NoClaim.slot \notin Slots
  BY IdleType
<1>6. \A d \in Callers : pc[d] = "build" => loc[d].slot \in Slots /\ loc[d].epoch \in Nat
  BY DEF CallPlaced, TypeOK, Locals
<1>7. ASSUME Replaces(s), NEW t \in Tokens, claim[t].slot = s
      PROVE  epochOf[t] <= epoch[s]
  BY <1>4, <1>5, <1>7 DEF Stamped, TokenStamped
<1>8. ASSUME Replaces(s), NEW d \in Callers, pc[d] = "build", loc[d].slot = s
      PROVE  loc[d].epoch <= epoch[s]
  BY <1>8 DEF Stamped, CallStamped
<1>9. CallStamped(c)'
  <2> SUFFICES ASSUME Replaces(s) PROVE CallStamped(c)'
    BY <1>1 DEF CallStamped
  <2>1. loc'[c].epoch = epoch[s] + 1 /\ epoch'[s] = epoch[s] + 1 /\ epoch[s] \in Nat
    BY <1>2, <1>3
  <2>2. \A t \in Tokens : claim[t].slot = s => epochOf[t] # epoch[s] + 1
    BY <1>2, <1>4, <1>7
  <2>3. \A d \in Callers : pc[d] = "build" /\ loc[d].slot = s => loc[d].epoch # epoch[s] + 1
    BY <1>2, <1>6, <1>8
  <2> QED BY <1>1, <2>1, <2>2, <2>3 DEF CallStamped
<1>10. ASSUME NEW d \in Callers \ {c} PROVE CallStamped(d)'
  <2> SUFFICES ASSUME pc[d] = "build", Replaces(loc[d].slot) PROVE CallStamped(d)'
    BY <1>1 DEF CallStamped
  <2>1. CallStamped(d) /\ loc[d].slot \in Slots /\ loc[d].epoch \in Nat
    BY <1>6 DEF Stamped
  <2>2. loc[d].epoch <= epoch'[loc[d].slot]
    <3>1. loc[d].epoch <= epoch[loc[d].slot]
      BY <2>1 DEF CallStamped
    <3> QED BY <1>2, <2>1, <3>1
  <2>3. loc[d].slot = s => loc'[c].epoch # loc[d].epoch
    BY <1>2, <1>3, <1>8, <2>1
  <2> QED BY <1>1, <2>1, <2>2, <2>3 DEF CallStamped
<1>11. ASSUME NEW t \in Tokens PROVE TokenStamped(t)'
  <2> SUFFICES ASSUME claim[t] # NoClaim, Replaces(claim[t].slot) PROVE TokenStamped(t)'
    BY <1>1 DEF TokenStamped
  <2>1. TokenStamped(t) /\ claim[t].slot \in Slots /\ epochOf[t] \in Nat
    BY <1>4 DEF Stamped
  <2>2. epochOf[t] <= epoch[claim[t].slot]
    BY <2>1 DEF TokenStamped
  <2>3. epochOf[t] <= epoch'[claim[t].slot]
    BY <1>2, <2>1, <2>2
  <2> QED BY <1>1, <2>1, <2>3 DEF TokenStamped
<1> QED BY <1>9, <1>10, <1>11 DEF Stamped

LEMMA BuildKeepsApart ==
  ASSUME Placed, Stamped, NEW c \in Callers, NEW t \in Tokens, BuildClaim(c, t)
  PROVE  Stamped'
<1> USE DEF Placed
<1> HIDE DEF Slots
<1>1. PICK s \in Slots, e \in Nat : loc[c].slot = s /\ loc[c].epoch = e
  BY DEF BuildClaim, CallPlaced, TypeOK, Locals
<1>2. /\ pc[c] = "build" /\ pc'[c] = "store" /\ UNCHANGED epoch
      /\ \A d \in Callers \ {c} : pc'[d] = pc[d] /\ loc'[d] = loc[d]
      /\ claim'[t].slot = s /\ epochOf'[t] = e /\ claim[t] = NoClaim
      /\ \A u \in Tokens \ {t} : claim'[u] = claim[u] /\ epochOf'[u] = epochOf[u]
  BY <1>1 DEF BuildClaim, TypeOK
<1>3. NoClaim.slot \notin Slots
  BY IdleType
<1>4. CallStamped(c)
  BY DEF Stamped
<1>5. ASSUME NEW d \in Callers PROVE CallStamped(d)'
  <2> SUFFICES ASSUME d # c, pc[d] = "build", Replaces(loc[d].slot) PROVE CallStamped(d)'
    BY <1>2 DEF CallStamped
  <2>1. CallStamped(d)
    BY DEF Stamped
  <2>2. loc[d].slot = s => e # loc[d].epoch
    BY <1>1, <1>2, <2>1 DEF CallStamped
  <2> QED BY <1>2, <2>1, <2>2 DEF CallStamped
<1>6. TokenStamped(t)'
  BY <1>1, <1>2, <1>4 DEF CallStamped, TokenStamped
<1>7. ASSUME NEW u \in Tokens \ {t} PROVE TokenStamped(u)'
  <2> SUFFICES ASSUME claim[u] # NoClaim, Replaces(claim[u].slot) PROVE TokenStamped(u)'
    BY <1>2 DEF TokenStamped
  <2>1. TokenStamped(u)
    BY DEF Stamped
  <2>2. claim[u].slot = s => epochOf[u] # e
    BY <1>1, <1>2, <1>4 DEF CallStamped
  <2> QED BY <1>2, <2>1, <2>2 DEF TokenStamped
<1> QED BY <1>5, <1>6, <1>7 DEF Stamped

LEMMA StampedNext ==
  ASSUME Placed, Stamped, [Next]_vars
  PROVE  Stamped'
<1> HIDE DEF Slots
<1>1. CASE \E c \in Callers, s \in Slots, ttl \in 1..MaxTtl :
             StampNext(c, s, ttl) \/ StampCurrent(c, s, ttl)
  BY <1>1, StampKeepsApart
<1>2. CASE \E c \in Callers, t \in Tokens : BuildClaim(c, t)
  BY <1>2, BuildKeepsApart
<1>3. ASSUME NEW c \in Callers,
             StoreClaim(c) \/ Accept(c) \/ Refuse(c) \/ Fail(c) \/ FailStored(c)
      PROVE  Stamped'
  <2>1. Return(c) /\ UNCHANGED <<claim, epochOf>>
    BY <1>3 DEF StoreClaim, Accept, Refuse, Fail, FailStored
  <2>2. /\ pc'[c] = "idle"
        /\ \A d \in Callers \ {c} : pc'[d] = pc[d] /\ loc'[d] = loc[d]
    BY <2>1, ReturnType DEF Placed
  <2> QED BY <2>1, <2>2, NothingStamped
<1>4. ASSUME NEW c \in Callers, NEW t \in Tokens, NEW p \in Purposes, Take(c, t, p)
      PROVE  Stamped'
  BY <1>4, NothingStamped DEF Take, Taken, Placed, TypeOK
<1>5. CASE (\E s \in Slots : RevokeAllFor(s)) \/ Tick \/ UNCHANGED vars
  BY <1>5, NothingStamped DEF RevokeAllFor, Tick, vars
<1> QED BY <1>1, <1>2, <1>3, <1>4, <1>5 DEF Next, Issue, Consume

-----------------------------------------------------------------------------
(***************************************************************************)
(* What a token is worth under the mapping.  The invariant of              *)
(* OneTimeTokenProofs, with the epochs kept apart, carries the refinement. *)
(***************************************************************************)
RInv == IInv /\ Stamped

\* No two tokens of a slot that replaces are stamped in the same epoch,
\* whatever issues and revocations race (issue(), one atomic increment).
THEOREM EpochsApart == Spec => []RInv
<1>1. Init => RInv
  BY InitInv, InitStamped DEF RInv
<1>2. RInv /\ [Next]_vars => RInv'
  BY PlacedNext, TimedNext, StampedNext DEF RInv, IInv
<1> QED BY <1>1, <1>2, PTL DEF Spec

\* The conditions Standing tells apart.
Minted(t) == claim[t] # NoClaim
Good(t) == Alive(t) /\ (Replaces(claim[t].slot) => ~Superseded(t))

LEMMA StandingIs ==
  ASSUME Placed, NEW t \in Tokens
  PROVE  /\ ~Minted(t) => Standing(t) = "unminted"
         /\ accepted[t] > 0 => Standing(t) = "spent"
         /\ Minted(t) /\ accepted[t] = 0 /\ Good(t) => Standing(t) = "outstanding"
         /\ Minted(t) /\ accepted[t] = 0 /\ ~Good(t) => Standing(t) = "void"
<1>1. accepted[t] \in Nat /\ accepted[t] <= 1 /\ (~Minted(t) => accepted[t] = 0)
  BY DEF Placed, TypeOK, InOnePlace, Minted
<1> QED BY <1>1 DEF Standing, Minted, Good

LEMMA StandingWillBe ==
  ASSUME Placed', NEW t \in Tokens
  PROVE  /\ ~Minted(t)' => Standing(t)' = "unminted"
         /\ accepted'[t] > 0 => Standing(t)' = "spent"
         /\ Minted(t)' /\ accepted'[t] = 0 /\ Good(t)' => Standing(t)' = "outstanding"
         /\ Minted(t)' /\ accepted'[t] = 0 /\ ~Good(t)' => Standing(t)' = "void"
<1>1. accepted'[t] \in Nat /\ accepted'[t] <= 1 /\ (~Minted(t)' => accepted'[t] = 0)
  BY DEF Placed, TypeOK, InOnePlace, Minted
<1> QED BY <1>1 DEF Standing, Minted, Good

\* A superseded token stays superseded.
LEMMA SupersededStays ==
  ASSUME Placed, Stamped, [Next]_vars, NEW t \in Tokens, Minted(t),
         claim'[t] = claim[t], epochOf'[t] = epochOf[t],
         Replaces(claim[t].slot), Superseded(t)
  PROVE  Superseded(t)'
<1>1. PICK r \in Slots : claim[t].slot = r
  BY DEF Placed, TypeOK, Claims, Minted
<1>2. epochOf[t] \in Nat /\ epochOf[t] <= epoch[r] /\ epochOf[t] # epoch[r]
  BY <1>1 DEF Placed, TypeOK, Stamped, TokenStamped, Minted, Superseded
<1>3. epoch[r] \in Nat /\ epoch'[r] \in Nat /\ epoch[r] <= epoch'[r]
  BY EpochsGrow
<1>4. epochOf[t] # epoch'[r]
  BY <1>2, <1>3
<1> QED BY <1>1, <1>4 DEF Superseded

\* A step that neither mints nor accepts voids some tokens, or none: no token
\* that was worth nothing is worth something again.
LEMMA VoidStep ==
  ASSUME Placed, Placed', UNCHANGED <<claim, accepted>>,
         \A t \in Tokens : Minted(t) /\ accepted[t] = 0 /\ Good(t)' => Good(t)
  PROVE  [Promise!SNext]_(Promise!sVars)
<1> DEFINE T == {t \in Tokens : Standing(t) = "outstanding" /\ Standing(t)' # "outstanding"}
<1>1. ASSUME NEW t \in Tokens
      PROVE  Standing(t)' = IF t \in T THEN "void" ELSE Standing(t)
  <2>1. accepted[t] \in Nat
    BY DEF Placed, TypeOK
  <2>2. Minted(t)' = Minted(t) /\ accepted'[t] = accepted[t]
    BY DEF Minted
  <2> QED BY <2>1, <2>2, StandingIs, StandingWillBe
<1> QED BY <1>1 DEF Promise!SNext, Promise!Void, Promise!Outstanding, Promise!sVars

-----------------------------------------------------------------------------
(***************************************************************************)
(* Each step of the manager is a step of the promise, or none.             *)
(***************************************************************************)
LEMMA InitPromises == Init => Promise!SInit
<1> SUFFICES ASSUME Init PROVE Promise!SInit
  OBVIOUS
<1>1. Placed /\ \A t \in Tokens : ~Minted(t)
  BY InitInv DEF IInv, Init, Minted
<1>2. \A t \in Tokens : Standing(t) = "unminted" /\ claim[t].slot = NoToken
  BY <1>1, StandingIs DEF Init, NoClaim
<1> QED BY <1>2 DEF Promise!SInit

\* What keeps a token from coming back to life: no call gets hold of it that
\* did not take it alive, and no claim comes back to the store.
LEMMA StillGood ==
  ASSUME Placed, Stamped, [Next]_vars, UNCHANGED <<claim, epochOf>>,
         \A t \in Tokens : Minted(t) /\ Alive(t)' => Alive(t)
  PROVE  \A t \in Tokens : Minted(t) /\ Good(t)' => Good(t)
<1> SUFFICES ASSUME NEW t \in Tokens, Minted(t), Good(t)' PROVE Good(t)
  OBVIOUS
<1>1. Alive(t)
  BY DEF Good
<1>2. Replaces(claim[t].slot) => ~Superseded(t)
  BY SupersededStays DEF Good
<1> QED BY <1>1, <1>2 DEF Good

\* The call is over: a token it held is in the store or lost.
LEMMA ReturnAlive ==
  ASSUME Placed, NEW c \in Callers, Return(c), UNCHANGED <<now, claim>>,
         \A t \in Tokens : t # loc[c].token \/ ~Holding(c) => stored'[t] = stored[t]
  PROVE  \A t \in Tokens : Alive(t)' => Alive(t)
<1>1. /\ pc'[c] = "idle"
      /\ \A d \in Callers \ {c} : pc'[d] = pc[d] /\ loc'[d] = loc[d]
  BY ReturnType DEF Placed
<1> QED BY <1>1 DEF Alive, Present, Holding

LEMMA TakeAlive ==
  ASSUME Placed, NEW c \in Callers, NEW t \in Tokens, NEW p \in Purposes, Take(c, t, p)
  PROVE  \A u \in Tokens : Alive(u)' => Alive(u)
<1> USE DEF Placed
<1> HIDE DEF Slots
<1>1. /\ now \in Nat /\ Present(t) /\ claim[t].expiresAt \in Nat
      /\ UNCHANGED <<now, claim>>
      /\ stored'[t] = 0 /\ \A u \in Tokens \ {t} : stored'[u] = stored[u]
  BY DEF Take, Found, Present, TypeOK, InOnePlace, Claims, NoClaim
<1>2. ASSUME NEW u \in Tokens, Present(u)', now <= claim[u].expiresAt PROVE Alive(u)
  BY <1>1, <1>2 DEF Present, Alive
<1>3. CASE UNCHANGED <<pc, loc>>
  BY <1>1, <1>2, <1>3 DEF Alive
<1>4. CASE ~UNCHANGED <<pc, loc>>
  <2>1. /\ ~(now > claim[t].expiresAt)
        /\ pc' = [pc EXCEPT ![c] = "compare"]
        /\ loc' = [loc EXCEPT ![c] = [Idle EXCEPT !.token = t, !.since = now]]
    BY <1>4 DEF Take, Taken
  <2>2. Alive(t)
    BY <1>1, <2>1 DEF Alive
  <2>3. /\ loc'[c].token = t
        /\ \A d \in Callers \ {c} : pc'[d] = pc[d] /\ loc'[d] = loc[d]
    BY <2>1 DEF Idle, TypeOK
  <2> QED BY <1>1, <1>2, <2>2, <2>3 DEF Alive
<1> QED BY <1>3, <1>4

\* BuildClaim mints: outstanding, unless its stamp was overtaken on the way.
LEMMA MintStep ==
  ASSUME Placed, Placed', Stamped, Stamped',
         NEW c \in Callers, NEW t \in Tokens, BuildClaim(c, t)
  PROVE  Promise!SNext
<1> USE DEF Placed
<1> HIDE DEF Slots
<1>1. PICK s \in Slots : loc[c].slot = s
  BY DEF BuildClaim, CallPlaced
<1>2. /\ claim'[t] # NoClaim /\ claim'[t].slot = s /\ claim[t] = NoClaim
      /\ accepted' = accepted /\ stored' = stored /\ now' = now /\ epoch' = epoch
      /\ \A u \in Tokens \ {t} : claim'[u] = claim[u] /\ epochOf'[u] = epochOf[u]
      /\ \A d \in Callers \ {c} : pc'[d] = pc[d] /\ loc'[d] = loc[d]
      /\ pc[c] = "build" /\ pc'[c] = "store" /\ loc'[c].token = t
  <2>1. s # NoClaim.slot
    BY IdleType
  <2> QED BY <1>1, <2>1 DEF BuildClaim, TypeOK
<1>3. ASSUME NEW u \in Tokens \ {t} PROVE Standing(u)' = Standing(u)
  <2>1. Minted(u)' = Minted(u) /\ accepted'[u] = accepted[u] /\ Superseded(u)' = Superseded(u)
    BY <1>2 DEF Minted, Superseded
  <2>2. Alive(u)' = Alive(u)
    BY <1>2 DEF Alive, Present
  <2>3. Good(u)' = Good(u)
    BY <1>2, <2>1, <2>2 DEF Good
  <2>4. accepted[u] \in Nat
    BY DEF TypeOK
  <2> QED BY <2>1, <2>3, <2>4, StandingIs, StandingWillBe
<1>4. Standing(t) = "unminted"
  BY <1>2, StandingIs DEF Minted
<1>5. Standing(t)' \in {"outstanding", "void"}
  BY <1>2, StandingWillBe DEF InOnePlace, Minted
<1>6. ASSUME Replaces(s), Standing(t)' = "outstanding", NEW u \in Tokens,
             Standing(u) = "outstanding"
      PROVE  claim[u].slot # s
  <2>1. SUFFICES ASSUME claim[u].slot = s PROVE FALSE
    OBVIOUS
  <2>2. u # t /\ Standing(u)' = "outstanding"
    BY <1>3, <1>4, <1>6
  <2>3. accepted'[t] = 0 /\ accepted'[u] = 0 /\ Good(t)' /\ Good(u)'
    <3>1. accepted'[t] \in Nat /\ accepted'[u] \in Nat
      BY DEF TypeOK
    <3>2. Minted(t)' /\ Minted(u)'
      BY <1>2, <1>6, <2>2, StandingWillBe
    <3> QED BY <1>6, <2>2, <3>1, <3>2, StandingWillBe
  <2>4. epochOf'[t] = epoch'[s] /\ epochOf'[u] = epoch'[s]
    BY <1>2, <1>6, <2>1, <2>2, <2>3 DEF Good, Superseded
  <2> QED BY <1>2, <1>6, <2>1, <2>2, <2>4 DEF Stamped, TokenStamped
<1> DEFINE st == [u \in Tokens |-> Standing(u)]
           sl == [u \in Tokens |-> claim[u].slot]
<1>7. /\ [u \in Tokens |-> Standing(u)'] = [st EXCEPT ![t] = Standing(t)']
      /\ [u \in Tokens |-> claim'[u].slot] = [sl EXCEPT ![t] = s]
  BY <1>2, <1>3
<1>8. Promise!Mint(t, s)
  BY <1>4, <1>5, <1>6, <1>7 DEF Promise!Mint, Promise!Outstanding
<1> QED BY <1>8 DEF Promise!SNext

\* Accept redeems a token that is outstanding: taken alive, and, where issues
\* replace, superseded by nothing.
LEMMA RedeemStep ==
  ASSUME IInv, Placed', NEW c \in Callers, Accept(c)
  PROVE  Promise!SNext
<1> USE DEF IInv, Placed
<1> HIDE DEF Slots
<1>1. PICK t \in Tokens : loc[c].token = t
  BY ComparisonIsExact DEF Accept
<1>2. /\ pc[c] = "compare" /\ Honoured(t) /\ Holding(c)
      /\ accepted' = [accepted EXCEPT ![t] = @ + 1] /\ Return(c)
      /\ UNCHANGED <<now, stored, claim, epoch, epochOf>>
  BY <1>1 DEF Accept, Holding
<1>3. Replaces(claim[t].slot) => ~Superseded(t)
  BY <1>1, <1>2, ComparisonIsExact
<1>4. Minted(t) /\ accepted[t] = 0 /\ Good(t)
  <2>1. Minted(t) /\ accepted[t] = 0
    BY <1>1, <1>2 DEF InOnePlace, TypeOK, Minted
  <2>2. Alive(t)
    BY <1>1, <1>2 DEF Alive
  <2> QED BY <1>3, <2>1, <2>2 DEF Good
<1>5. Standing(t) = "outstanding"
  BY <1>4, StandingIs
<1>6. Standing(t)' = "spent"
  BY <1>2, <1>4, StandingWillBe DEF TypeOK
<1>7. ASSUME NEW u \in Tokens \ {t} PROVE Standing(u)' = Standing(u)
  <2>1. /\ pc'[c] = "idle"
        /\ \A d \in Callers \ {c} : pc'[d] = pc[d] /\ loc'[d] = loc[d]
    BY <1>2, ReturnType
  <2>2. Alive(u)' = Alive(u)
    BY <1>1, <1>2, <2>1 DEF Alive, Present
  <2>3. Minted(u)' = Minted(u) /\ Good(u)' = Good(u) /\ accepted'[u] = accepted[u]
    BY <1>2, <2>2 DEF Minted, Good, Superseded, TypeOK
  <2>4. accepted[u] \in Nat
    BY DEF TypeOK
  <2> QED BY <2>3, <2>4, StandingIs, StandingWillBe
<1> DEFINE st == [u \in Tokens |-> Standing(u)]
<1>8. [u \in Tokens |-> Standing(u)'] = [st EXCEPT ![t] = "spent"]
  BY <1>6, <1>7
<1>9. Promise!Redeem(t)
  BY <1>2, <1>5, <1>8 DEF Promise!Redeem
<1> QED BY <1>9 DEF Promise!SNext

LEMMA ReturnVoids ==
  ASSUME IInv, IInv', Stamped, [Next]_vars, NEW c \in Callers,
         StoreClaim(c) \/ Refuse(c) \/ Fail(c) \/ FailStored(c)
  PROVE  [Promise!SNext]_(Promise!sVars)
<1>1. Return(c) /\ UNCHANGED <<now, claim, accepted, epochOf>>
  BY DEF StoreClaim, Refuse, Fail, FailStored
<1>2. \A t \in Tokens : t # loc[c].token \/ ~Holding(c) => stored'[t] = stored[t]
  BY DEF StoreClaim, Refuse, Fail, FailStored, Holding, IInv, Placed, TypeOK
<1>3. \A t \in Tokens : Alive(t)' => Alive(t)
  BY <1>1, <1>2, ReturnAlive DEF IInv
<1> QED BY <1>1, <1>3, StillGood, VoidStep DEF IInv

LEMMA StepPromises ==
  ASSUME RInv, RInv', [Next]_vars
  PROVE  [Promise!SNext]_(Promise!sVars)
<1> USE DEF RInv
<1> HIDE DEF Slots
<1>1. ASSUME NEW c \in Callers, NEW t \in Tokens, BuildClaim(c, t)
      PROVE  Promise!SNext
  BY <1>1, MintStep DEF IInv
<1>2. ASSUME NEW c \in Callers, Accept(c)
      PROVE  Promise!SNext
  BY <1>2, RedeemStep DEF IInv
<1>3. ASSUME NEW c \in Callers, StoreClaim(c) \/ Refuse(c) \/ Fail(c) \/ FailStored(c)
      PROVE  [Promise!SNext]_(Promise!sVars)
  BY <1>3, ReturnVoids
<1>4. ASSUME NEW c \in Callers, NEW t \in Tokens, NEW p \in Purposes, Take(c, t, p)
      PROVE  [Promise!SNext]_(Promise!sVars)
  <2>1. \A u \in Tokens : Alive(u)' => Alive(u)
    BY <1>4, TakeAlive DEF IInv
  <2>2. UNCHANGED <<claim, accepted, epochOf>>
    BY <1>4 DEF Take
  <2> QED BY <2>1, <2>2, StillGood, VoidStep DEF IInv
<1>5. ASSUME NEW c \in Callers, NEW s \in Slots, NEW ttl \in 1..MaxTtl,
             StampNext(c, s, ttl) \/ StampCurrent(c, s, ttl)
      PROVE  [Promise!SNext]_(Promise!sVars)
  <2>1. UNCHANGED <<now, stored, claim, accepted, epochOf>>
    BY <1>5 DEF StampNext, StampCurrent
  <2>2. /\ pc'[c] = "build"
        /\ \A d \in Callers \ {c} : pc'[d] = pc[d] /\ loc'[d] = loc[d]
    BY <1>5 DEF StampNext, StampCurrent, Stamp, IInv, Placed, TypeOK
  <2>3. \A u \in Tokens : Alive(u)' => Alive(u)
    BY <2>1, <2>2 DEF Alive, Present
  <2> QED BY <2>1, <2>3, StillGood, VoidStep DEF IInv
<1>6. CASE (\E s \in Slots : RevokeAllFor(s)) \/ UNCHANGED vars
  <2>1. UNCHANGED <<now, stored, claim, accepted, epochOf, pc, loc>>
    BY <1>6 DEF RevokeAllFor, vars
  <2>2. \A u \in Tokens : Alive(u)' => Alive(u)
    BY <2>1 DEF Alive, Present
  <2> QED BY <2>1, <2>2, StillGood, VoidStep DEF IInv
<1>7. CASE Tick
  <2>1. /\ now \in Nat /\ now' = now + 1
        /\ UNCHANGED <<stored, claim, accepted, epochOf, pc, loc>>
    BY <1>7 DEF Tick, IInv, Placed, TypeOK
  <2>2. ASSUME NEW u \in Tokens, Minted(u), Alive(u)' PROVE Alive(u)
    <3>1. stored[u] \in Nat /\ claim[u].expiresAt \in Nat
      BY <2>2 DEF IInv, Placed, TypeOK, Minted, Claims
    <3>2. now + 1 < stored[u] /\ now + 1 <= claim[u].expiresAt
             => now < stored[u] /\ now <= claim[u].expiresAt
      BY <2>1, <3>1
    <3> QED BY <2>1, <2>2, <3>2 DEF Alive, Present
  <2> QED BY <2>1, <2>2, StillGood, VoidStep DEF IInv
<1> QED BY <1>1, <1>2, <1>3, <1>4, <1>5, <1>6, <1>7 DEF Next, Issue, Consume

\* The manager keeps its promise: whatever calls race, stall or fail and
\* however the clock runs, every step redeems an outstanding token, mints one,
\* voids some, or changes nothing a caller can tell.
THEOREM Implementation == Spec => KeepsPromise
<1>1. RInv /\ RInv' /\ [Next]_vars => [Promise!SNext]_(Promise!sVars)
  BY StepPromises
<1> QED BY <1>1, InitPromises, EpochsApart, PTL DEF Spec, KeepsPromise, Promise!SSpec
==============================================================================
