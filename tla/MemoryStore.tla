----------------------------- MODULE MemoryStore -----------------------------
(***************************************************************************)
(* MemoryStore (server, store/memory.ts): what each method does to the two *)
(* maps and what it answers.  No method awaits anything, so each is atomic *)
(* on the event loop.  An entry stays in its map until something touches   *)
(* it after its expiry.                                                    *)
(***************************************************************************)
EXTENDS Naturals, Functions

CONSTANTS
    Null,       \* an answer of null
    Never       \* the expiry of an entry that does not expire

\* A map is a partial function from keys to [it, expiresAt].
NoEntry == [it |-> Null, expiresAt |-> Never]
Put(map, key, it, until) ==
    [k \in DOMAIN map \cup {key} |->
        IF k = key THEN [it |-> it, expiresAt |-> until] ELSE map[k]]
Remove(map, keys) == Restrict(map, DOMAIN map \ keys)

\* Mutant: an entry lives through the instant it expires at.
LiveThrough(map, key, now) ==
    key \in DOMAIN map /\ (map[key].expiresAt = Never \/ now <= map[key].expiresAt)

\* #live(): whether the entry is there, and the map once it has been looked up.
Live(map, key, now) ==
    key \in DOMAIN map /\ (map[key].expiresAt = Never \/ now < map[key].expiresAt)
Touch(map, key, now) == IF Live(map, key, now) THEN map ELSE Remove(map, {key})

\* #expiryFor()
ExpiredTtl(ttl) == ttl # Never /\ ttl = 0
ExpiryFor(ttl, now) == IF ttl = Never THEN Never ELSE now + ttl

-----------------------------------------------------------------------------
(***************************************************************************)
(* The methods: [mem, reply] after a call on mem = [values, sets].         *)
(***************************************************************************)
Answer(values, sets, reply) == [mem |-> [values |-> values, sets |-> sets], reply |-> reply]
ItAt(map, key, now, absent) == IF Live(map, key, now) THEN map[key].it ELSE absent

MemGet(m, c, now) ==
    Answer(Touch(m.values, c.key, now), m.sets, ItAt(m.values, c.key, now, Null))
MemSet(m, c, now) ==
    Answer(IF ExpiredTtl(c.ttl) THEN Remove(m.values, {c.key})
           ELSE Put(m.values, c.key, c.arg, ExpiryFor(c.ttl, now)), m.sets, Null)
MemSetIfAbsent(m, c, now) ==
    LET stores == ~Live(m.values, c.key, now) /\ ~ExpiredTtl(c.ttl)
    IN  Answer(IF stores THEN Put(m.values, c.key, c.arg, ExpiryFor(c.ttl, now))
               ELSE Touch(m.values, c.key, now), m.sets, stores)
MemTake(m, c, now) ==
    Answer(Remove(m.values, {c.key}), m.sets, ItAt(m.values, c.key, now, Null))
MemIncrement(m, c, now) ==
    IF ExpiredTtl(c.ttl) THEN Answer(m.values, m.sets, 0)
    ELSE LET n == ItAt(m.values, c.key, now, 0) + 1
         IN  Answer(Put(m.values, c.key, n, ExpiryFor(c.ttl, now)), m.sets, n)
MemDelete(m, c, now) ==
    Answer(Remove(m.values, {c.key}), Remove(m.sets, {c.key}), Null)
MemExists(m, c, now) ==
    Answer(Touch(m.values, c.key, now), m.sets, Live(m.values, c.key, now))
MemSAdd(m, c, now) ==
    IF ExpiredTtl(c.ttl) THEN Answer(m.values, m.sets, Null)
    ELSE Answer(m.values,
                Put(m.sets, c.key, ItAt(m.sets, c.key, now, {}) \cup {c.arg},
                    ExpiryFor(c.ttl, now)), Null)
MemSRemove(m, c, now) ==
    LET left == ItAt(m.sets, c.key, now, {}) \ {c.arg}
    IN  Answer(m.values, IF left = {} THEN Remove(m.sets, {c.key})
                         ELSE Put(m.sets, c.key, left, m.sets[c.key].expiresAt), Null)
MemSMembers(m, c, now) ==
    Answer(m.values, Touch(m.sets, c.key, now), ItAt(m.sets, c.key, now, {}))

MemRun(m, c, now) ==
    CASE c.op = "get" -> MemGet(m, c, now)
      [] c.op = "set" -> MemSet(m, c, now)
      [] c.op = "setIfAbsent" -> MemSetIfAbsent(m, c, now)
      [] c.op = "take" -> MemTake(m, c, now)
      [] c.op = "increment" -> MemIncrement(m, c, now)
      [] c.op = "delete" -> MemDelete(m, c, now)
      [] c.op = "exists" -> MemExists(m, c, now)
      [] c.op = "sAdd" -> MemSAdd(m, c, now)
      [] c.op = "sRemove" -> MemSRemove(m, c, now)
      [] c.op = "sMembers" -> MemSMembers(m, c, now)

\* sweep()
Swept(map, now) == Remove(map, {k \in DOMAIN map : ~Live(map, k, now)})
MemSweep(m, now) == [values |-> Swept(m.values, now), sets |-> Swept(m.sets, now)]
=============================================================================
