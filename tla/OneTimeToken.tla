---------------------------- MODULE OneTimeToken ----------------------------
(***************************************************************************)
(* OneTimeTokenManager (server, tokens/one-time.ts): single-use tokens for *)
(* password resets and the like.  A token is stamped with the generation   *)
(* of its purpose and subject, and is honoured only while that counter     *)
(* still has the same value.  Every action is one store command and the    *)
(* local code up to the next; the clock is in ticks, and each store entry  *)
(* keeps the tick it expires at.                                           *)
(***************************************************************************)
EXTENDS Naturals

CONSTANTS
    Callers, Purposes, Subjects,
    Tokens,             \* what generateToken() may return
    NoToken,
    Replacing,          \* purposes of managers that set invalidatePrevious
    MaxTtl,             \* MAX_TTL_SECONDS
    Slack,              \* GENERATION_TTL_SECONDS - MAX_TTL_SECONDS
    Stall,              \* ticks that may pass inside one call
    MaxClock,           \* bound on the clock
    MaxEpoch            \* bound on the issues and revocations of each slot

Slots == Purposes \X Subjects
Replaces(s) == s[1] \in Replacing

ASSUME ConstantsAssumption ==
    /\ NoToken \notin Tokens \cup Purposes \cup Slots
    /\ Replacing \subseteq Purposes
    /\ MaxTtl \in Nat /\ Slack \in Nat /\ Stall \in Nat
    /\ 2 * Stall < Slack   \* calls are quicker than the extra hour
    /\ MaxClock \in Nat /\ MaxEpoch \in [Slots -> Nat]

VARIABLES
    now,
    counter,    \* KEYS.oneTimeTokenGeneration, and when it lapses
    stored,     \* KEYS.oneTimeToken: when each stored claim lapses, 0 if absent
    claim,      \* what the claim of a minted token says
    pc, loc,    \* where each caller is, and the local variables of its call
    mailed,     \* the tokens issue() returned
    accepted,   \* history: how often each token was consumed
    epoch,      \* history: the issues and revocations of each slot
    epochOf     \* history: the epoch each token was stamped in

vars == <<now, counter, stored, claim, pc, loc, mailed, accepted,
          epoch, epochOf>>

\* Mutant: the counter is kept no longer than a token.
CounterTtl == MaxTtl

GenerationTtl == MaxTtl + Slack

Claims == [slot : Slots, generation : Nat, expiresAt : Nat]
NoClaim == [slot |-> NoToken, generation |-> 0, expiresAt |-> 0]
Locals == [slot : Slots \cup {NoToken}, generation : Nat, epoch : Nat,
           token : Tokens \cup {NoToken}, ttl : Nat, since : Nat]
Idle == [slot |-> NoToken, generation |-> 0, epoch |-> 0,
         token |-> NoToken, ttl |-> 0, since |-> 0]

TypeOK ==
    /\ now \in Nat
    /\ counter \in [Slots -> [value : Nat, until : Nat]]
    /\ stored \in [Tokens -> Nat]
    /\ claim \in [Tokens -> Claims \cup {NoClaim}]
    /\ pc \in [Callers -> {"idle", "build", "store", "compare"}]
    /\ loc \in [Callers -> Locals]
    /\ mailed \subseteq Tokens
    /\ accepted \in [Tokens -> Nat]
    /\ epoch \in [Slots -> Nat]
    /\ epochOf \in [Tokens -> Nat]

Init ==
    /\ now = 0
    /\ counter = [s \in Slots |-> [value |-> 0, until |-> 0]]
    /\ stored = [t \in Tokens |-> 0]
    /\ claim = [t \in Tokens |-> NoClaim]
    /\ pc = [c \in Callers |-> "idle"]
    /\ loc = [c \in Callers |-> Idle]
    /\ mailed = {}
    /\ accepted = [t \in Tokens |-> 0]
    /\ epoch = [s \in Slots |-> 0]
    /\ epochOf = [t \in Tokens |-> 0]

-----------------------------------------------------------------------------
(***************************************************************************)
(* The store.                                                              *)
(***************************************************************************)
Present(t) == now < stored[t]

\* An absent counter counts as zero.
Generation(s) == IF now < counter[s].until THEN counter[s].value ELSE 0

\* increment() starts an absent counter at zero and renews its lifetime.
Increment(s) ==
    /\ epoch[s] < MaxEpoch[s]
    /\ counter' = [counter EXCEPT ![s] = [value |-> Generation(s) + 1,
                                          until |-> now + GenerationTtl]]
    /\ epoch' = [epoch EXCEPT ![s] = @ + 1]

Return(c) ==
    /\ pc' = [pc EXCEPT ![c] = "idle"]
    /\ loc' = [loc EXCEPT ![c] = Idle]

-----------------------------------------------------------------------------
(***************************************************************************)
(* issue(): stamp, build the claim, store it.  A call begins with its      *)
(* first store command: what it does before touches nothing shared.        *)
(***************************************************************************)
Stamp(c, s, ttl, generation, e) ==
    /\ pc' = [pc EXCEPT ![c] = "build"]
    /\ loc' = [loc EXCEPT ![c] =
          [Idle EXCEPT !.slot = s, !.ttl = ttl, !.generation = generation,
                       !.epoch = e, !.since = now]]

\* Mutant: the generation is read and not incremented.
StampShared(c, s, ttl) ==
    /\ pc[c] = "idle" /\ Replaces(s)
    /\ epoch[s] < MaxEpoch[s]
    /\ epoch' = [epoch EXCEPT ![s] = @ + 1]
    /\ Stamp(c, s, ttl, Generation(s), epoch[s] + 1)
    /\ UNCHANGED <<now, counter, stored, claim, mailed, accepted, epochOf>>

\* Replacing: the new token gets a generation of its own.
StampNext(c, s, ttl) ==
    /\ pc[c] = "idle" /\ Replaces(s)
    /\ Increment(s)
    /\ Stamp(c, s, ttl, Generation(s) + 1, epoch[s] + 1)
    /\ UNCHANGED <<now, stored, claim, mailed, accepted, epochOf>>

\* Keeping: the new token joins the current generation.
StampCurrent(c, s, ttl) ==
    /\ pc[c] = "idle" /\ ~Replaces(s)
    /\ Stamp(c, s, ttl, Generation(s), epoch[s])
    /\ UNCHANGED <<now, counter, stored, claim, mailed, accepted, epoch, epochOf>>

\* Both timestamps come from the clock as it is after the stamp.
BuildClaim(c, t) ==
    /\ pc[c] = "build"
    /\ claim[t] = NoClaim
    /\ claim' = [claim EXCEPT ![t] =
                    [slot |-> loc[c].slot, generation |-> loc[c].generation,
                     expiresAt |-> now + loc[c].ttl]]
    /\ epochOf' = [epochOf EXCEPT ![t] = loc[c].epoch]
    /\ loc' = [loc EXCEPT ![c] = [@ EXCEPT !.token = t]]
    /\ pc' = [pc EXCEPT ![c] = "store"]
    /\ UNCHANGED <<now, counter, stored, mailed, accepted, epoch>>

StoreClaim(c) ==
    LET t == loc[c].token IN
    /\ pc[c] = "store"
    /\ stored' = [stored EXCEPT ![t] = now + loc[c].ttl]
    /\ mailed' = mailed \cup {t}
    /\ Return(c)
    /\ UNCHANGED <<now, counter, claim, accepted, epoch, epochOf>>

-----------------------------------------------------------------------------
(***************************************************************************)
(* consume(): take the claim, then compare its generation.                 *)
(***************************************************************************)
\* The purpose is part of the key, so another purpose's token is not found;
\* a token that is not found is refused, and nothing changes.
Found(t, p) == t \in mailed /\ Present(t) /\ claim[t].slot[1] = p

Taken(c, t) ==
    IF now > claim[t].expiresAt
      THEN UNCHANGED <<pc, loc>>
      ELSE /\ pc' = [pc EXCEPT ![c] = "compare"]
           /\ loc' = [loc EXCEPT ![c] = [Idle EXCEPT !.token = t, !.since = now]]

\* Mutant: get() in place of take().
TakePeeks(c, t, p) ==
    /\ pc[c] = "idle"
    /\ Found(t, p)
    /\ Taken(c, t)
    /\ UNCHANGED <<now, counter, stored, claim, mailed, accepted, epoch, epochOf>>

Take(c, t, p) ==
    /\ pc[c] = "idle"
    /\ Found(t, p)
    /\ stored' = [stored EXCEPT ![t] = 0]
    /\ Taken(c, t)
    /\ UNCHANGED <<now, counter, claim, mailed, accepted, epoch, epochOf>>

\* Mutant: any generation up to the current one is honoured.
HonouredOlder(t) == claim[t].generation <= Generation(claim[t].slot)

Honoured(t) == claim[t].generation = Generation(claim[t].slot)

Accept(c) ==
    LET t == loc[c].token IN
    /\ pc[c] = "compare"
    /\ Honoured(t)
    /\ accepted' = [accepted EXCEPT ![t] = @ + 1]
    /\ Return(c)
    /\ UNCHANGED <<now, counter, stored, claim, mailed, epoch, epochOf>>

Refuse(c) ==
    /\ pc[c] = "compare"
    /\ ~Honoured(loc[c].token)
    /\ Return(c)
    /\ UNCHANGED <<now, counter, stored, claim, mailed, accepted, epoch, epochOf>>

-----------------------------------------------------------------------------
\* revokeAllFor() is one store command.
RevokeAllFor(s) ==
    /\ Increment(s)
    /\ UNCHANGED <<now, stored, claim, pc, loc, mailed, accepted, epochOf>>

\* A store command is rejected, or the process dies: the call is over and its
\* token, if it has one, is lost.
Fail(c) ==
    /\ pc[c] # "idle"
    /\ Return(c)
    /\ UNCHANGED <<now, counter, stored, claim, mailed, accepted, epoch, epochOf>>

\* The claim was stored but the answer was lost, so nobody learns the token.
FailStored(c) ==
    /\ pc[c] = "store"
    /\ stored' = [stored EXCEPT ![loc[c].token] = now + loc[c].ttl]
    /\ Return(c)
    /\ UNCHANGED <<now, counter, claim, mailed, accepted, epoch, epochOf>>

\* Between the first command of a call and its last, at most Stall ticks pass.
Tick ==
    /\ now < MaxClock
    /\ \A c \in Callers : pc[c] \in {"build", "store", "compare"} =>
                              now < loc[c].since + Stall
    /\ now' = now + 1
    /\ UNCHANGED <<counter, stored, claim, pc, loc, mailed, accepted, epoch, epochOf>>

Issue(c) ==
    \/ \E s \in Slots, ttl \in 1..MaxTtl :
          StampNext(c, s, ttl) \/ StampCurrent(c, s, ttl)
    \/ \E t \in Tokens : BuildClaim(c, t)
    \/ StoreClaim(c)

Consume(c) ==
    \/ \E t \in Tokens, p \in Purposes : Take(c, t, p)
    \/ Accept(c) \/ Refuse(c)

Next ==
    \/ \E c \in Callers : Issue(c) \/ Consume(c) \/ Fail(c) \/ FailStored(c)
    \/ \E s \in Slots : RevokeAllFor(s)
    \/ Tick

Spec == Init /\ [][Next]_vars

-----------------------------------------------------------------------------
(***************************************************************************)
(* Properties.                                                             *)
(***************************************************************************)
Superseded(t) == epochOf[t] # epoch[claim[t].slot]

\* A token is consumed at most once, whoever presents it at the same moment
\* and whatever fails ("Two people clicking the same link at the same moment
\* cannot both succeed", consume()).
SpentOnce == \A t \in Tokens : accepted[t] <= 1

\* A token is never accepted once a newer issue or a revocation of its slot
\* has taken effect after it was stamped: "One atomic increment invalidates
\* every outstanding token at once" (one-time.ts:355).  Stated for the slots
\* whose issues renew the counter; elsewhere it may lapse under a token.
RevocationSticks ==
    [][\A t \in Tokens :
          accepted'[t] > accepted[t] /\ Replaces(claim[t].slot)
             => ~Superseded(t)]_vars

\* A token that is taken in time and that nothing has superseded is accepted:
\* its counter outlives it (GENERATION_TTL_SECONDS), so the comparison cannot
\* turn a user's only link away.
LatestHonoured ==
    [][\A c \in Callers :
          Refuse(c) /\ Replaces(claim[loc[c].token].slot)
             => Superseded(loc[c].token)]_vars

\* In the store or in a call's hands, and not yet expired.
Alive(t) ==
    \/ Present(t) /\ now <= claim[t].expiresAt
    \/ \E c \in Callers : loc[c].token = t /\ pc[c] \in {"store", "compare"}

Standing(t) ==
    CASE accepted[t] > 1 -> "spent twice"
      [] accepted[t] = 1 -> "spent"
      [] accepted[t] = 0 /\ claim[t] = NoClaim -> "unminted"
      [] OTHER -> IF Alive(t) /\ (Replaces(claim[t].slot) => ~Superseded(t))
                    THEN "outstanding" ELSE "void"

Promise == INSTANCE SingleUseToken WITH
    NoSlot <- NoToken,
    Replacing <- {s \in Slots : Replaces(s)},
    standing <- [t \in Tokens |-> Standing(t)],
    slot <- [t \in Tokens |-> claim[t].slot]

\* The manager keeps its promise: every step of it redeems an outstanding
\* token, mints one, voids some, or changes nothing a caller can tell.
KeepsPromise == Promise!SSpec
-----------------------------------------------------------------------------
(***************************************************************************)
(* The inductive invariant behind the two safety properties, for           *)
(* slots whose issues replace and a counter that outlives every stall.     *)
(***************************************************************************)
Holding(c) == pc[c] \in {"store", "compare"}

\* A token is in one place at a time: unminted, with one call, in the store,
\* or spent.
InOnePlace(t) ==
    /\ claim[t] = NoClaim => stored[t] = 0 /\ accepted[t] = 0
    /\ accepted[t] > 0 => stored[t] = 0
    /\ (claim[t] = NoClaim \/ accepted[t] > 0 \/ stored[t] > 0) =>
          \A c \in Callers : Holding(c) => loc[c].token # t
    /\ accepted[t] <= 1
    /\ \A c, d \in Callers :
          (Holding(c) /\ loc[c].token = t /\ Holding(d) /\ loc[d].token = t)
              => c = d

\* Since epoch e, stamped with generation g, the counter of slot s has counted
\* every epoch and has not lapsed.
Counted(s, g, e) == counter[s].value + e = epoch[s] + g

CallPlaced(c) ==
    /\ pc[c] = "build" => loc[c].slot \in Slots /\ loc[c].ttl \in 1..MaxTtl
    /\ Holding(c) => loc[c].token \in Tokens /\ claim[loc[c].token].slot \in Slots

Placed ==
    /\ TypeOK
    /\ \A t \in Tokens : InOnePlace(t)
    /\ \A c \in Callers : CallPlaced(c)

\* A call between its commands is young (Tick sees to that), and the counter
\* it will compare with has lived since its first command.
CallTimed(c) ==
    /\ pc[c] = "build" =>
          /\ loc[c].since <= now /\ now <= loc[c].since + Stall
          /\ Replaces(loc[c].slot) =>
                /\ counter[loc[c].slot].until >= loc[c].since + GenerationTtl
                /\ Counted(loc[c].slot, loc[c].generation, loc[c].epoch)
    /\ pc[c] = "compare" => LET m == claim[loc[c].token] IN
          /\ loc[c].since <= now /\ now <= loc[c].since + Stall
          /\ Replaces(m.slot) =>
                /\ counter[m.slot].until > loc[c].since + Stall
                /\ Counted(m.slot, m.generation, epochOf[loc[c].token])

\* Until a token expires its counter lives, and beyond by more than a stall.
Tracked(t) ==
    claim[t] # NoClaim /\ Replaces(claim[t].slot) /\ now <= claim[t].expiresAt =>
        /\ counter[claim[t].slot].until > claim[t].expiresAt + Stall
        /\ Counted(claim[t].slot, claim[t].generation, epochOf[t])

Timed ==
    /\ \A s \in Slots : counter[s].until <= now + GenerationTtl
    /\ \A t \in Tokens : Tracked(t)
    /\ \A c \in Callers : CallTimed(c)

\* The invariant that an induction over the steps needs; OneTimeTokenProofs
\* proves it.
IInv == Placed /\ Timed
=============================================================================
