----------------------------- MODULE BrowserKeys -----------------------------
(***************************************************************************)
(* How the tabs of a page come to sign with one key (client, storage.ts    *)
(* and storedKey() of client.ts): the transactions of IndexedDbKeyStore on *)
(* the record they share.  An action is one transaction.                   *)
(***************************************************************************)
EXTENDS Dpop

CONSTANT Tabs

VARIABLES
    stored,     \* the record 'current': a key or None
    tab         \* what each tab is about to do, and its key

keyVars == <<stored, tab>>

\* A key that a script could have read, as an earlier version left it.
Legacy == [id |-> "legacy", crv |-> "P-256", extractable |-> TRUE]

KeysInit ==
    /\ stored \in {None, Legacy}
    /\ tab = [t \in Tabs |-> [pc |-> "load", key |-> None]]

Become(t, pc, key) == tab' = [tab EXCEPT ![t] = [pc |-> pc, key |-> key]]

\* load(): a readable key is cleared, in a transaction of its own.
Load(t) ==
    /\ tab[t].pc = "load"
    /\ UNCHANGED stored
    /\ IF stored = None THEN Become(t, "create", None)
       ELSE IF stored.extractable THEN Become(t, "clear", None)
       ELSE Become(t, "ready", describeKey(stored))

Clear(t) ==
    /\ tab[t].pc = "clear"
    /\ stored' = None
    /\ Become(t, "create", None)

\* getOrCreate() with a generated candidate: the first tab's stays.
GetOrCreate(t) ==
    LET candidate == generateDpopKey(t)
        taken == IF stored = None THEN FALSE ELSE ~stored.extractable
        winner == IF taken THEN stored ELSE candidate IN
    /\ tab[t].pc = "create"
    /\ stored' = winner
    /\ Become(t, "ready", describeKey(winner))

Ready(t) == tab[t].pc = "ready"
Settled == \A t \in Tabs : Ready(t)

KeysNext == \E t \in Tabs : Load(t) \/ Clear(t) \/ GetOrCreate(t)
=============================================================================
