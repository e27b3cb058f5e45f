--------------------------- MODULE SingleUseToken ---------------------------
(***************************************************************************)
(* What tokens/one-time.ts promises its callers, with no store and no      *)
(* clock: a token is redeemed at most once, and once it has been           *)
(* superseded, revoked, lost or has expired it is never redeemed.          *)
(***************************************************************************)
CONSTANTS Tokens, Slots, NoSlot,
          Replacing   \* slots in which a new token supersedes the others

VARIABLES standing,   \* what each token is worth
          slot        \* the purpose and subject each token is for

sVars == <<standing, slot>>

Standings == {"unminted", "outstanding", "void", "spent"}

SInit ==
    /\ standing = [t \in Tokens |-> "unminted"]
    /\ slot = [t \in Tokens |-> NoSlot]

Outstanding == {t \in Tokens : standing[t] = "outstanding"}

\* A new token is for one slot.  A newer issue or a revocation of the slot
\* may already have overtaken it.
Mint(t, s) ==
    /\ standing[t] = "unminted"
    /\ \E worth \in {"outstanding", "void"} :
          /\ (s \in Replacing /\ worth = "outstanding") =>
                \A u \in Outstanding : slot[u] # s
          /\ standing' = [standing EXCEPT ![t] = worth]
    /\ slot' = [slot EXCEPT ![t] = s]

Redeem(t) ==
    /\ standing[t] = "outstanding"
    /\ standing' = [standing EXCEPT ![t] = "spent"]
    /\ UNCHANGED slot

\* Superseded, revoked, expired, or lost with the call that held them.
Void(T) ==
    /\ standing' = [t \in Tokens |-> IF t \in T THEN "void" ELSE standing[t]]
    /\ UNCHANGED slot

SNext == \/ \E t \in Tokens : Redeem(t) \/ \E s \in Slots : Mint(t, s)
         \/ \E T \in SUBSET Outstanding : Void(T)

SSpec == SInit /\ [][SNext]_sVars
=============================================================================
