----------------------------- MODULE StoresProofs -----------------------------
(***************************************************************************)
(* MemoryStore answers as Redis does, and nothing single-use is answered   *)
(* twice, for every set of callers and calls, and however often the        *)
(* connection is lost.  The first is a simulation, kept key by key: what   *)
(* is live in the map of the key's kind is what is there in Redis, with    *)
(* the same expiry, and an entry that has lapsed in one has lapsed in the  *)
(* other.  The second follows a value from the write that carries it to    *)
(* the take that answers it: it is in one place only.                      *)
(***************************************************************************)
EXTENDS Stores, TLAPS

-----------------------------------------------------------------------------
(***************************************************************************)
(* The inductive invariant.                                                *)
(***************************************************************************)
\* The shape of calls and entries.
Fields == {"pc", "cmd", "reply", "at"}
Ask(cmd, arg) == [op |-> cmd.op, key |-> cmd.key, ttl |-> cmd.ttl, arg |-> arg]

Dated(map) == \A k \in DOMAIN map : map[k].expiresAt \in Nat \cup {Never}

CallsTyped ==
    /\ calls = [c \in Callers |-> calls[c]]
    /\ \A c \in Callers :
         /\ DOMAIN calls[c] = Fields
         /\ calls[c].pc \in {"idle", "gate", "sent", "served"}
         /\ calls[c].at \in Nat
         /\ calls[c].pc # "idle" =>
              \E cmd \in Commands : calls[c].cmd = Ask(cmd, calls[c].cmd.arg)

Typed ==
    /\ clock \in Nat /\ ops \in Nat
    /\ CallsTyped
    /\ Dated(db) /\ Dated(mem.values) /\ Dated(mem.sets)

\* What the two stores have at a key.
Same(map, key, d, now) ==
    /\ M!Live(map, key, now) <=> There(d, key, now)
    /\ There(d, key, now) => /\ map[key].it = d[key].it
                             /\ map[key].expiresAt = d[key].expiresAt

PlainKeys == ValueKeys \cup CounterKeys \cup ReadKeys
Alike(m, d, now) ==
    /\ \A k \in PlainKeys : Same(m.values, k, d, now)
    /\ \A k \in SetKeys : Same(m.sets, k, d, now)

Agree == Alike(mem, db, clock)

\* A call of one of these names is under way; its answer is on the wire.
Doing(c, names) == calls[c].pc # "idle" /\ calls[c].cmd.op \in names
Took(c) == calls[c].pc = "served" /\ calls[c].cmd.op = "take" /\ calls[c].reply # Null
Counted(c) == calls[c].pc = "served" /\ calls[c].cmd.op = "increment"
Holds(k, v) == k \in DOMAIN db /\ db[k].it = v

\* No value is written while one is being taken.
Apart ==
    \A c, d \in Callers : ~(Doing(c, Writes) /\ Doing(d, {"take"}))
\* A value not taken yet is at one key, or with the one write that carries it.
Fresh ==
    /\ \A v \in taken : v \in 1 .. ops
    /\ \A c \in Callers : Doing(c, Writes) =>
         /\ calls[c].cmd.arg \in 1 .. ops
         /\ calls[c].cmd.arg \notin taken
         /\ \A d \in Callers \ {c} : Doing(d, Writes) => calls[d].cmd.arg # calls[c].cmd.arg
    /\ \A k \in ValueKeys : k \in DOMAIN db =>
         /\ db[k].it \in 1 .. ops
         /\ db[k].it \notin taken
         /\ \A j \in ValueKeys \ {k} : ~Holds(j, db[k].it)
         /\ \A c \in Callers : Doing(c, Writes) /\ calls[c].cmd.arg = db[k].it
              => calls[c].cmd.key = k
\* A value that a take has been answered is nowhere else.
Gone ==
    \A c \in Callers : Took(c) =>
        /\ calls[c].reply \in 1 .. ops
        /\ calls[c].reply \notin taken
        /\ \A k \in ValueKeys : ~Holds(k, calls[c].reply)
        /\ \A d \in Callers \ {c} : Took(d) => calls[d].reply # calls[c].reply
\* No count of this second is above the counter.
Counts ==
    /\ \A k \in CounterKeys : k \in DOMAIN db => db[k].it \in Nat
    /\ \A c \in Callers : Counted(c) =>
        /\ calls[c].reply \in Nat
        /\ calls[c].at <= clock
        /\ calls[c].at = clock =>
             /\ There(db, calls[c].cmd.key, clock)
             /\ calls[c].reply <= db[calls[c].cmd.key].it
        /\ \A d \in Callers \ {c} :
             Counted(d) /\ calls[d].cmd.key = calls[c].cmd.key /\ calls[d].at = calls[c].at
             => calls[d].reply # calls[c].reply

\* The wire carries each call in flight once.
Wired ==
    /\ wire \in Seq(Callers)
    /\ \A i, j \in 1 .. Len(wire) : wire[i] = wire[j] => i = j
    /\ \A i \in 1 .. Len(wire) : calls[wire[i]].pc \in {"sent", "served"}

IInv == Wired /\ Typed /\ Agree /\ Apart /\ Fresh /\ Gone /\ Counts

-----------------------------------------------------------------------------
(***************************************************************************)
(* The entries of a map after an operation on it.                          *)
(***************************************************************************)
LEMMA PutSame ==
  ASSUME NEW map, NEW d, NEW key, NEW it, NEW until, NEW now \in Nat, NEW k,
         k # key => Same(map, k, d, now),
         NEW m2, m2 = M!Put(map, key, it, until),
         NEW d2, d2 = With(d, key, it, until)
  PROVE  Same(m2, k, d2, now)
<1>1. DOMAIN m2 = DOMAIN map \cup {key} /\ DOMAIN d2 = DOMAIN d \cup {key}
  BY DEF M!Put, With
<1>2. CASE k = key
  <2>1. /\ m2[k].it = it /\ m2[k].expiresAt = until
        /\ d2[k].it = it /\ d2[k].expiresAt = until
    BY <1>2 DEF M!Put, With
  <2> QED BY <1>1, <1>2, <2>1 DEF Same, M!Live, There
<1>3. CASE k # key
  <2>1. k \in DOMAIN map => m2[k] = map[k]
    BY <1>3 DEF M!Put
  <2>2. k \in DOMAIN d => d2[k] = d[k]
    BY <1>3 DEF With
  <2> QED BY <1>1, <1>3, <2>1, <2>2 DEF Same, M!Live, There
<1> QED BY <1>2, <1>3

LEMMA RemoveSame ==
  ASSUME NEW map, NEW d, NEW key, NEW now \in Nat, NEW k,
         k # key => Same(map, k, d, now),
         NEW m2, m2 = M!Remove(map, {key}),
         NEW d2, d2 = Without(d, key)
  PROVE  Same(m2, k, d2, now)
<1>1. DOMAIN m2 = DOMAIN map \ {key} /\ DOMAIN d2 = DOMAIN d \ {key}
  BY DEF M!Remove, Without, M!Restrict, Restrict
<1>2. CASE k = key
  BY <1>1, <1>2 DEF Same, M!Live, There
<1>3. CASE k # key
  <2>1. k \in DOMAIN map => m2[k] = map[k]
    BY <1>3 DEF M!Remove, M!Restrict
  <2>2. k \in DOMAIN d => d2[k] = d[k]
    BY <1>3 DEF Without, Restrict
  <2> QED BY <1>1, <1>3, <2>1, <2>2 DEF Same, M!Live, There
<1> QED BY <1>2, <1>3

LEMMA TouchSame ==
  ASSUME NEW map, NEW d, NEW key, NEW now \in Nat, NEW k, Same(map, k, d, now),
         NEW m2, m2 = M!Touch(map, key, now)
  PROVE  Same(m2, k, d, now)
<1>1. CASE M!Live(map, key, now)
  BY <1>1 DEF M!Touch
<1>2. CASE ~M!Live(map, key, now)
  <2>1. m2 = M!Remove(map, {key})
    BY <1>2 DEF M!Touch
  <2>2. DOMAIN m2 = DOMAIN map \ {key}
    BY <2>1 DEF M!Remove, M!Restrict
  <2>3. k # key /\ k \in DOMAIN map => m2[k] = map[k]
    BY <2>1 DEF M!Remove, M!Restrict
  <2>4. CASE k = key
    BY <1>2, <2>2, <2>4 DEF Same, M!Live
  <2>5. CASE k # key
    BY <2>2, <2>3, <2>5 DEF Same, M!Live, There
  <2> QED BY <2>4, <2>5
<1> QED BY <1>1, <1>2

LEMMA SweepSame ==
  ASSUME NEW map, NEW d, NEW now \in Nat, NEW k, Same(map, k, d, now),
         NEW m2, m2 = M!Swept(map, now)
  PROVE  Same(m2, k, d, now)
<1>1. DOMAIN m2 = {j \in DOMAIN map : M!Live(map, j, now)}
  BY DEF M!Swept, M!Remove, M!Restrict
<1>2. \A j \in DOMAIN m2 : m2[j] = map[j]
  BY <1>1 DEF M!Swept, M!Remove, M!Restrict
<1>3. k \in DOMAIN m2 <=> M!Live(map, k, now)
  BY <1>1 DEF M!Live
<1> QED BY <1>2, <1>3 DEF Same, M!Live

\* The other keys.
LEMMA WithElsewhere ==
  ASSUME NEW map, NEW d, NEW key, NEW it, NEW until, NEW now \in Nat, NEW k, k # key,
         Same(map, k, d, now), NEW d2, d2 = With(d, key, it, until)
  PROVE  Same(map, k, d2, now)
<1>1. DOMAIN d2 = DOMAIN d \cup {key}
  BY DEF With
<1>2. k \in DOMAIN d => d2[k] = d[k]
  BY DEF With
<1> QED BY <1>1, <1>2 DEF Same, There

LEMMA WithoutElsewhere ==
  ASSUME NEW map, NEW d, NEW key, NEW now \in Nat, NEW k, k # key,
         Same(map, k, d, now), NEW d2, d2 = Without(d, key)
  PROVE  Same(map, k, d2, now)
<1>1. DOMAIN d2 = DOMAIN d \ {key}
  BY DEF Without, Restrict
<1>2. k \in DOMAIN d /\ k # key => d2[k] = d[k]
  BY DEF Without, Restrict
<1> QED BY <1>1, <1>2 DEF Same, There

LEMMA DatedPut ==
  ASSUME NEW map, Dated(map), NEW key, NEW it, NEW until \in Nat \cup {Never}
  PROVE  Dated(M!Put(map, key, it, until)) /\ Dated(With(map, key, it, until))
  BY DEF Dated, M!Put, With

LEMMA DatedRemove ==
  ASSUME NEW map, Dated(map), NEW keys, NEW key
  PROVE  Dated(M!Remove(map, keys)) /\ Dated(Without(map, key))
  BY DEF Dated, M!Remove, Without, M!Restrict, Restrict

LEMMA DatedTouch ==
  ASSUME NEW map, Dated(map), NEW key, NEW now
  PROVE  Dated(M!Touch(map, key, now)) /\ Dated(M!Swept(map, now))
  BY DatedRemove DEF M!Touch, M!Swept

LEMMA ItSame ==
  ASSUME NEW map, NEW d, NEW key, NEW now, NEW absent, Same(map, key, d, now)
  PROVE  /\ M!ItAt(map, key, now, absent) = At(d, key, now, absent)
         /\ M!Live(map, key, now) <=> There(d, key, now)
  BY DEF Same, M!ItAt, At

LEMMA KeyKinds ==
  ASSUME NEW cmd \in Commands \cup Probes
  PROVE  /\ cmd.op \in {"set", "setIfAbsent", "take"} => cmd.key \in ValueKeys
         /\ cmd.op = "increment" => cmd.key \in CounterKeys
         /\ cmd.op \in {"sAdd", "sRemove", "sMembers"} => cmd.key \in SetKeys
         /\ cmd.op \in {"get", "exists"} => cmd.key \in ReadKeys
         /\ cmd.op = "delete" => cmd.key \in KeysOf({"delete"})
  BY DEF ValueKeys, CounterKeys, SetKeys, ReadKeys, KeysOf

LEMMA KindsApart ==
  /\ PlainKeys \cap SetKeys = {}
  /\ ValueKeys \cap CounterKeys = {}
  /\ KeysOf({"delete"}) \cap CounterKeys = {}
  BY CallsAssumption DEF PlainKeys

LEMMA RepliesAlike ==
  ASSUME NEW m, NEW d, NEW now, Alike(m, d, now),
         NEW cmd \in Commands \cup Probes, NEW c,
         c.op = cmd.op, c.key = cmd.key, c.ttl = cmd.ttl
  PROVE  M!MemRun(m, c, now).reply = RedisRun(d, c, now).reply
<1> DEFINE op == c.op
           plain == Same(m.values, c.key, d, now)
           grouped == Same(m.sets, c.key, d, now)
<1>1. /\ op \in {"get", "set", "setIfAbsent", "take", "increment", "exists"} => plain
      /\ op \in {"sAdd", "sRemove", "sMembers"} => grouped
  BY KeyKinds DEF Alike, PlainKeys
<1>2. op \in {"get", "set", "setIfAbsent", "take", "increment", "delete",
              "exists", "sAdd", "sRemove", "sMembers"}
  BY CallsAssumption
<1>3. M!ExpiredTtl(c.ttl) <=> Dead(c.ttl)
  BY DEF M!ExpiredTtl, Dead
<1>4. ASSUME plain
      PROVE  \A absent : M!ItAt(m.values, c.key, now, absent) = At(d, c.key, now, absent)
  BY <1>4, ItSame
<1>5. ASSUME grouped
      PROVE  \A absent : M!ItAt(m.sets, c.key, now, absent) = At(d, c.key, now, absent)
  BY <1>5, ItSame
<1>6. ASSUME plain
      PROVE  M!Live(m.values, c.key, now) <=> There(d, c.key, now)
  BY <1>6, ItSame
<1>7. CASE op = "get"
  BY <1>1, <1>4, <1>7 DEF M!MemRun, RedisRun, M!MemGet, Get, M!Answer, Served
<1>8. CASE op = "set"
  BY <1>8 DEF M!MemRun, RedisRun, M!MemSet, Set, M!Answer, Served
<1>9. CASE op = "setIfAbsent"
  <2> DEFINE stores == ~There(d, c.key, now) /\ ~Dead(c.ttl)
  <2>1. M!MemSetIfAbsent(m, c, now).reply = (~M!Live(m.values, c.key, now) /\ ~M!ExpiredTtl(c.ttl))
    BY Zenon DEF M!MemSetIfAbsent, M!Answer
  <2>2. SetIfAbsent(d, c, now).reply = stores
    BY Zenon DEF SetIfAbsent, Served
  <2>3. (~M!Live(m.values, c.key, now) /\ ~M!ExpiredTtl(c.ttl)) = stores
    BY <1>1, <1>3, <1>6, <1>9
  <2> QED BY <1>9, <2>1, <2>2, <2>3 DEF M!MemRun, RedisRun
<1>10. CASE op = "take"
  BY <1>1, <1>4, <1>10 DEF M!MemRun, RedisRun, M!MemTake, GetDel, M!Answer, Served
<1>11. CASE op = "increment"
  <2>1. M!MemRun(m, c, now).reply = M!MemIncrement(m, c, now).reply
        /\ RedisRun(d, c, now).reply = Incr(d, c, now).reply
    BY <1>11 DEF M!MemRun, RedisRun
  <2>2. CASE Dead(c.ttl)
    BY <1>3, <2>1, <2>2 DEF M!MemIncrement, Incr, M!Answer, Served
  <2>3. CASE ~Dead(c.ttl)
    <3>1. M!MemIncrement(m, c, now).reply = M!ItAt(m.values, c.key, now, 0) + 1
      BY <1>3, <2>3 DEF M!MemIncrement, M!Answer
    <3>2. Incr(d, c, now).reply = At(d, c.key, now, 0) + 1
      BY <2>3 DEF Incr, Served
    <3>3. M!ItAt(m.values, c.key, now, 0) = At(d, c.key, now, 0)
      BY <1>1, <1>4, <1>11, Zenon
    <3> QED BY <2>1, <3>1, <3>2, <3>3, Zenon
  <2> QED BY <2>2, <2>3
<1>12. CASE op = "delete"
  BY <1>12 DEF M!MemRun, RedisRun, M!MemDelete, Del, M!Answer, Served
<1>13. CASE op = "exists"
  <2>1. M!MemExists(m, c, now).reply = M!Live(m.values, c.key, now)
    BY Zenon DEF M!MemExists, M!Answer
  <2>2. Exists(d, c, now).reply = There(d, c.key, now)
    BY Zenon DEF Exists, Served
  <2>3. M!Live(m.values, c.key, now) = There(d, c.key, now)
    <3>1. M!Live(m.values, c.key, now) <=> There(d, c.key, now)
      BY <1>1, <1>6, <1>13, Zenon
    <3>2. M!Live(m.values, c.key, now) \in BOOLEAN /\ There(d, c.key, now) \in BOOLEAN
      BY Zenon DEF M!Live, There
    <3> QED BY <3>1, <3>2
  <2> QED BY <1>13, <2>1, <2>2, <2>3 DEF M!MemRun, RedisRun
<1>14. CASE op = "sAdd"
  BY <1>14 DEF M!MemRun, RedisRun, M!MemSAdd, SAdd, M!Answer, Served
<1>15. CASE op = "sRemove"
  BY <1>15 DEF M!MemRun, RedisRun, M!MemSRemove, SRem, M!Answer, Served
<1>16. CASE op = "sMembers"
  BY <1>1, <1>5, <1>16 DEF M!MemRun, RedisRun, M!MemSMembers, SMembers, M!Answer, Served
<1> QED BY <1>2, <1>7, <1>8, <1>9, <1>10, <1>11, <1>12, <1>13, <1>14, <1>15, <1>16

(***************************************************************************)
(* An operation on one key of each map.                                    *)
(***************************************************************************)
AllDated(m, d) == Dated(m.values) /\ Dated(m.sets) /\ Dated(d)

LEMMA PutPlain ==
  ASSUME NEW m, NEW d, NEW now \in Nat, Alike(m, d, now), NEW key, key \notin SetKeys,
         NEW it, NEW until, NEW reply,
         NEW m2, m2 = M!Answer(M!Put(m.values, key, it, until), m.sets, reply).mem
  PROVE  Alike(m2, With(d, key, it, until), now)
<1>1. m2.values = M!Put(m.values, key, it, until) /\ m2.sets = m.sets
  BY DEF M!Answer
<1>2. ASSUME NEW k \in PlainKeys
      PROVE  Same(m2.values, k, With(d, key, it, until), now)
  BY <1>1, PutSame DEF Alike
<1>3. ASSUME NEW k \in SetKeys
      PROVE  Same(m2.sets, k, With(d, key, it, until), now)
  BY <1>1, WithElsewhere DEF Alike
<1> QED BY <1>2, <1>3 DEF Alike

LEMMA RemovePlain ==
  ASSUME NEW m, NEW d, NEW now \in Nat, Alike(m, d, now), NEW key, key \notin SetKeys,
         NEW reply,
         NEW m2, m2 = M!Answer(M!Remove(m.values, {key}), m.sets, reply).mem
  PROVE  Alike(m2, Without(d, key), now)
<1>1. m2.values = M!Remove(m.values, {key}) /\ m2.sets = m.sets
  BY DEF M!Answer
<1>2. ASSUME NEW k \in PlainKeys
      PROVE  Same(m2.values, k, Without(d, key), now)
  BY <1>1, RemoveSame DEF Alike
<1>3. ASSUME NEW k \in SetKeys
      PROVE  Same(m2.sets, k, Without(d, key), now)
  BY <1>1, WithoutElsewhere DEF Alike
<1> QED BY <1>2, <1>3 DEF Alike

LEMMA PutGrouped ==
  ASSUME NEW m, NEW d, NEW now \in Nat, Alike(m, d, now), NEW key \in SetKeys,
         NEW it, NEW until, NEW reply,
         NEW m2, m2 = M!Answer(m.values, M!Put(m.sets, key, it, until), reply).mem
  PROVE  Alike(m2, With(d, key, it, until), now)
<1>1. m2.sets = M!Put(m.sets, key, it, until) /\ m2.values = m.values
  BY DEF M!Answer
<1>2. ASSUME NEW k \in PlainKeys
      PROVE  Same(m2.values, k, With(d, key, it, until), now)
  BY <1>1, WithElsewhere, KindsApart DEF Alike
<1>3. ASSUME NEW k \in SetKeys
      PROVE  Same(m2.sets, k, With(d, key, it, until), now)
  BY <1>1, PutSame DEF Alike
<1> QED BY <1>2, <1>3 DEF Alike

LEMMA RemoveGrouped ==
  ASSUME NEW m, NEW d, NEW now \in Nat, Alike(m, d, now), NEW key \in SetKeys,
         NEW reply,
         NEW m2, m2 = M!Answer(m.values, M!Remove(m.sets, {key}), reply).mem
  PROVE  Alike(m2, Without(d, key), now)
<1>1. m2.sets = M!Remove(m.sets, {key}) /\ m2.values = m.values
  BY DEF M!Answer
<1>2. ASSUME NEW k \in PlainKeys
      PROVE  Same(m2.values, k, Without(d, key), now)
  BY <1>1, WithoutElsewhere, KindsApart DEF Alike
<1>3. ASSUME NEW k \in SetKeys
      PROVE  Same(m2.sets, k, Without(d, key), now)
  BY <1>1, RemoveSame DEF Alike
<1> QED BY <1>2, <1>3 DEF Alike

LEMMA TouchedAlike ==
  ASSUME NEW m, NEW d, NEW now \in Nat, Alike(m, d, now), NEW key, NEW reply, NEW m2,
         \/ m2 = M!Answer(M!Touch(m.values, key, now), m.sets, reply).mem
         \/ m2 = M!Answer(m.values, M!Touch(m.sets, key, now), reply).mem
  PROVE  Alike(m2, d, now)
<1>1. /\ m2.values = m.values \/ m2.values = M!Touch(m.values, key, now)
      /\ m2.sets = m.sets \/ m2.sets = M!Touch(m.sets, key, now)
  BY DEF M!Answer
<1> QED BY <1>1, TouchSame DEF Alike

LEMMA RunsAlike ==
  ASSUME NEW m, NEW d, NEW now \in Nat, Alike(m, d, now),
         NEW cmd \in Commands, NEW c,
         c.op = cmd.op, c.key = cmd.key, c.ttl = cmd.ttl
  PROVE  Alike(M!MemRun(m, c, now).mem, RedisRun(d, c, now).db, now)
<1> DEFINE op == c.op
           plain == Same(m.values, c.key, d, now)
           grouped == Same(m.sets, c.key, d, now)
           m2 == M!MemRun(m, c, now).mem
           d2 == RedisRun(d, c, now).db
<1>1. /\ op \in {"get", "set", "setIfAbsent", "take", "increment", "exists"} =>
           plain /\ c.key \notin SetKeys
      /\ op \in {"sAdd", "sRemove", "sMembers"} => grouped /\ c.key \in SetKeys
  BY KeyKinds, KindsApart DEF Alike, PlainKeys
<1>2. op \in {"get", "set", "setIfAbsent", "take", "increment", "delete",
              "exists", "sAdd", "sRemove", "sMembers"}
  BY CallsAssumption
<1>3. /\ M!ExpiredTtl(c.ttl) <=> Dead(c.ttl)
      /\ M!ExpiryFor(c.ttl, now) = Expiry(c.ttl, now)
      /\ op = "sAdd" => c.ttl # Never
  BY CallsAssumption DEF M!ExpiredTtl, Dead, M!ExpiryFor, Expiry
<1>4. ASSUME plain
      PROVE  /\ \A absent : M!ItAt(m.values, c.key, now, absent) = At(d, c.key, now, absent)
             /\ M!Live(m.values, c.key, now) <=> There(d, c.key, now)
  BY <1>4, ItSame
<1>5. ASSUME grouped
      PROVE  /\ \A absent : M!ItAt(m.sets, c.key, now, absent) = At(d, c.key, now, absent)
             /\ M!Live(m.sets, c.key, now) <=> There(d, c.key, now)
  BY <1>5, ItSame
<1>7. CASE op \in {"get", "exists"}
  <2>1. \E reply : m2 = M!Answer(M!Touch(m.values, c.key, now), m.sets, reply).mem
    BY <1>7 DEF M!MemRun, M!MemGet, M!MemExists
  <2>2. d2 = d
    BY <1>7 DEF RedisRun, Get, Exists, Served
  <2> QED BY <2>1, <2>2, TouchedAlike
<1>8. CASE op = "set"
  <2>1. m2 = M!MemSet(m, c, now).mem /\ d2 = Set(d, c, now).db
    BY <1>8 DEF M!MemRun, RedisRun
  <2>2. CASE Dead(c.ttl)
    <3>1. m2 = M!Answer(M!Remove(m.values, {c.key}), m.sets, Null).mem
      BY <1>3, <2>1, <2>2 DEF M!MemSet
    <3>2. d2 = Without(d, c.key)
      BY <2>1, <2>2 DEF Set, Served
    <3> QED BY <1>1, <1>8, <3>1, <3>2, RemovePlain
  <2>3. CASE ~Dead(c.ttl)
    <3>1. m2 = M!Answer(M!Put(m.values, c.key, c.arg, Expiry(c.ttl, now)), m.sets, Null).mem
      BY <1>3, <2>1, <2>3 DEF M!MemSet
    <3>2. d2 = With(d, c.key, c.arg, Expiry(c.ttl, now))
      BY <2>1, <2>3 DEF Set, Served
    <3> QED BY <1>1, <1>8, <3>1, <3>2, PutPlain
  <2> QED BY <2>2, <2>3
<1>9. CASE op = "setIfAbsent"
  <2> DEFINE stores == ~There(d, c.key, now) /\ ~Dead(c.ttl)
             reply == ~M!Live(m.values, c.key, now) /\ ~M!ExpiredTtl(c.ttl)
  <2>1. m2 = M!MemSetIfAbsent(m, c, now).mem /\ d2 = SetIfAbsent(d, c, now).db
    BY <1>9 DEF M!MemRun, RedisRun
  <2>2. reply <=> stores
    BY <1>1, <1>3, <1>4, <1>9
  <2>3. m2 = M!Answer(IF reply THEN M!Put(m.values, c.key, c.arg, M!ExpiryFor(c.ttl, now))
                      ELSE M!Touch(m.values, c.key, now), m.sets, reply).mem
    BY <2>1, Zenon DEF M!MemSetIfAbsent
  <2>4. d2 = IF stores THEN With(d, c.key, c.arg, Expiry(c.ttl, now)) ELSE d
    BY <2>1 DEF SetIfAbsent, Served
  <2> HIDE DEF stores, reply
  <2>5. CASE stores
    <3>1. m2 = M!Answer(M!Put(m.values, c.key, c.arg, Expiry(c.ttl, now)), m.sets, reply).mem
      BY <1>3, <2>2, <2>3, <2>5, Zenon
    <3>2. d2 = With(d, c.key, c.arg, Expiry(c.ttl, now))
      BY <2>4, <2>5
    <3> QED BY <1>1, <1>9, <3>1, <3>2, PutPlain, Zenon
  <2>6. CASE ~stores
    <3>1. m2 = M!Answer(M!Touch(m.values, c.key, now), m.sets, reply).mem
      BY <2>2, <2>3, <2>6, Zenon
    <3>2. d2 = d
      BY <2>4, <2>6
    <3> QED BY <3>1, <3>2, TouchedAlike, Zenon
  <2> QED BY <2>5, <2>6
<1>10. CASE op = "take"
  <2>1. \E reply : m2 = M!Answer(M!Remove(m.values, {c.key}), m.sets, reply).mem
    BY <1>10 DEF M!MemRun, M!MemTake
  <2>2. d2 = Without(d, c.key)
    BY <1>10 DEF RedisRun, GetDel, Served
  <2> QED BY <1>1, <1>10, <2>1, <2>2, RemovePlain
<1>11. CASE op = "increment"
  <2>1. m2 = M!MemIncrement(m, c, now).mem /\ d2 = Incr(d, c, now).db
    BY <1>11 DEF M!MemRun, RedisRun
  <2>2. CASE Dead(c.ttl)
    <3>1. m2.values = m.values /\ m2.sets = m.sets
      BY <1>3, <2>1, <2>2 DEF M!MemIncrement, M!Answer
    <3>2. d2 = d
      BY <2>1, <2>2 DEF Incr, Served
    <3> QED BY <3>1, <3>2 DEF Alike
  <2>3. CASE ~Dead(c.ttl)
    <3>1. PICK n : n = At(d, c.key, now, 0) + 1
      OBVIOUS
    <3>2. n = M!ItAt(m.values, c.key, now, 0) + 1
      BY <1>1, <1>4, <1>11, <3>1, Zenon
    <3>3. m2 = M!Answer(M!Put(m.values, c.key, n, Expiry(c.ttl, now)), m.sets, n).mem
      BY <1>3, <2>1, <2>3, <3>2 DEF M!MemIncrement
    <3>4. d2 = With(d, c.key, n, Expiry(c.ttl, now))
      BY <2>1, <2>3, <3>1 DEF Incr, Served
    <3> QED BY <1>1, <1>11, <3>3, <3>4, PutPlain
  <2> QED BY <2>2, <2>3
<1>12. CASE op = "delete"
  <2>1. m2.values = M!Remove(m.values, {c.key}) /\ m2.sets = M!Remove(m.sets, {c.key})
    BY <1>12 DEF M!MemRun, M!MemDelete, M!Answer
  <2>2. d2 = Without(d, c.key)
    BY <1>12 DEF RedisRun, Del, Served
  <2>3. \A k \in PlainKeys : Same(m2.values, k, d2, now)
    BY <2>1, <2>2, RemoveSame DEF Alike
  <2>4. \A k \in SetKeys : Same(m2.sets, k, d2, now)
    BY <2>1, <2>2, RemoveSame DEF Alike
  <2> QED BY <2>3, <2>4 DEF Alike
<1>14. CASE op = "sAdd"
  <2>1. m2 = M!MemSAdd(m, c, now).mem /\ d2 = SAdd(d, c, now).db
    BY <1>14 DEF M!MemRun, RedisRun
  <2>2. CASE Dead(c.ttl)
    <3>1. m2.values = m.values /\ m2.sets = m.sets
      BY <1>3, <2>1, <2>2 DEF M!MemSAdd, M!Answer
    <3>2. d2 = d
      BY <2>1, <2>2 DEF SAdd, Served
    <3> QED BY <3>1, <3>2 DEF Alike
  <2>3. CASE ~Dead(c.ttl)
    <3>1. PICK it : it = At(d, c.key, now, {}) \cup {c.arg}
      OBVIOUS
    <3>2. it = M!ItAt(m.sets, c.key, now, {}) \cup {c.arg}
      BY <1>1, <1>5, <1>14, <3>1, Zenon
    <3>3. m2 = M!Answer(m.values, M!Put(m.sets, c.key, it, Expiry(c.ttl, now)), Null).mem
      BY <1>3, <2>1, <2>3, <3>2 DEF M!MemSAdd
    <3>4. d2 = With(d, c.key, it, Expiry(c.ttl, now))
      BY <1>3, <1>14, <2>1, <2>3, <3>1 DEF SAdd, Served, Expiry
    <3> QED BY <1>1, <1>14, <3>3, <3>4, PutGrouped
  <2> QED BY <2>2, <2>3
<1>15. CASE op = "sRemove"
  <2>1. m2 = M!MemSRemove(m, c, now).mem /\ d2 = SRem(d, c, now).db
    BY <1>15 DEF M!MemRun, RedisRun
  <2>2. PICK left : left = At(d, c.key, now, {}) \ {c.arg}
    OBVIOUS
  <2>3. left = M!ItAt(m.sets, c.key, now, {}) \ {c.arg}
    BY <1>1, <1>5, <1>15, <2>2, Zenon
  <2>4. CASE left = {}
    <3>1. m2 = M!Answer(m.values, M!Remove(m.sets, {c.key}), Null).mem
      BY <2>1, <2>3, <2>4 DEF M!MemSRemove
    <3>2. d2 = Without(d, c.key)
      BY <2>1, <2>2, <2>4 DEF SRem, Served
    <3> QED BY <1>1, <1>15, <3>1, <3>2, RemoveGrouped
  <2>5. CASE left # {}
    <3>1. There(d, c.key, now)
      BY <2>2, <2>5 DEF At
    <3>2. PICK until : until = d[c.key].expiresAt
      OBVIOUS
    <3>3. until = m.sets[c.key].expiresAt
      BY <1>1, <1>15, <3>1, <3>2 DEF Same
    <3>4. m2 = M!Answer(m.values, M!Put(m.sets, c.key, left, until), Null).mem
      BY <2>1, <2>3, <2>5, <3>3 DEF M!MemSRemove
    <3>5. d2 = With(d, c.key, left, until)
      BY <2>1, <2>2, <2>5, <3>2 DEF SRem, Served
    <3> QED BY <1>1, <1>15, <3>4, <3>5, PutGrouped
  <2> QED BY <2>4, <2>5
<1>16. CASE op = "sMembers"
  <2>1. \E reply : m2 = M!Answer(m.values, M!Touch(m.sets, c.key, now), reply).mem
    BY <1>16 DEF M!MemRun, M!MemSMembers
  <2>2. d2 = d
    BY <1>16 DEF RedisRun, SMembers, Served
  <2> QED BY <2>1, <2>2, TouchedAlike
<1> QED BY <1>2, <1>7, <1>8, <1>9, <1>10, <1>11, <1>12, <1>14, <1>15, <1>16

LEMMA RunDated ==
  ASSUME NEW m, NEW d, NEW now \in Nat, Alike(m, d, now), AllDated(m, d),
         NEW cmd \in Commands, NEW c,
         c.op = cmd.op, c.key = cmd.key, c.ttl = cmd.ttl
  PROVE  AllDated(M!MemRun(m, c, now).mem, RedisRun(d, c, now).db)
<1> DEFINE op == c.op
           m2 == M!MemRun(m, c, now).mem
           d2 == RedisRun(d, c, now).db
<1>1. /\ M!ExpiryFor(c.ttl, now) \in Nat \cup {Never}
      /\ Expiry(c.ttl, now) \in Nat \cup {Never}
      /\ c.ttl # Never => now + c.ttl \in Nat \cup {Never}
  BY CallsAssumption DEF M!ExpiryFor, Expiry
<1>2. op \in {"get", "set", "setIfAbsent", "take", "increment", "delete",
              "exists", "sAdd", "sRemove", "sMembers"}
  BY CallsAssumption
<1>3. Dated(m.values) /\ Dated(m.sets) /\ Dated(d)
  BY DEF AllDated
<1> SUFFICES /\ Dated(m2.values) /\ Dated(m2.sets) /\ Dated(d2)
  BY DEF AllDated
<1> USE <1>3
<1>7. CASE op \in {"get", "exists"}
  BY <1>7, DatedTouch DEF M!MemRun, M!MemGet, M!MemExists, M!Answer, RedisRun, Get, Exists, Served
<1>8. CASE op = "set"
  BY <1>1, <1>8, DatedPut, DatedRemove
     DEF M!MemRun, M!MemSet, M!Answer, RedisRun, Set, Served
<1>9. CASE op = "setIfAbsent"
  <2>1. \/ m2.values = M!Put(m.values, c.key, c.arg, M!ExpiryFor(c.ttl, now))
        \/ m2.values = M!Touch(m.values, c.key, now)
    BY <1>9 DEF M!MemRun, M!MemSetIfAbsent, M!Answer
  <2>2. m2.sets = m.sets
    BY <1>9 DEF M!MemRun, M!MemSetIfAbsent, M!Answer
  <2>3. d2 = d \/ d2 = With(d, c.key, c.arg, Expiry(c.ttl, now))
    BY <1>9 DEF RedisRun, SetIfAbsent, Served
  <2> QED BY <1>1, <2>1, <2>2, <2>3, DatedPut, DatedTouch
<1>10. CASE op = "take"
  BY <1>10, DatedRemove DEF M!MemRun, M!MemTake, M!Answer, RedisRun, GetDel, Served
<1>11. CASE op = "increment"
  <2>1. \/ m2.values = m.values
        \/ \E n : m2.values = M!Put(m.values, c.key, n, M!ExpiryFor(c.ttl, now))
    BY <1>11 DEF M!MemRun, M!MemIncrement, M!Answer
  <2>2. m2.sets = m.sets
    BY <1>11 DEF M!MemRun, M!MemIncrement, M!Answer
  <2>3. d2 = d \/ \E n : d2 = With(d, c.key, n, Expiry(c.ttl, now))
    BY <1>11 DEF RedisRun, Incr, Served
  <2> QED BY <1>1, <2>1, <2>2, <2>3, DatedPut
<1>12. CASE op = "delete"
  BY <1>12, DatedRemove DEF M!MemRun, M!MemDelete, M!Answer, RedisRun, Del, Served
<1>14. CASE op = "sAdd"
  <2>1. \/ m2.sets = m.sets
        \/ \E it : m2.sets = M!Put(m.sets, c.key, it, M!ExpiryFor(c.ttl, now))
    BY <1>14 DEF M!MemRun, M!MemSAdd, M!Answer
  <2>2. m2.values = m.values
    BY <1>14 DEF M!MemRun, M!MemSAdd, M!Answer
  <2>3. d2 = d \/ \E it : d2 = With(d, c.key, it, now + c.ttl)
    BY <1>14, CallsAssumption DEF RedisRun, SAdd, Served
  <2>4. c.ttl # Never
    BY <1>14, CallsAssumption
  <2>5. Dated(m2.sets)
    BY <1>1, <2>1, DatedPut
  <2>6. Dated(d2)
    BY <1>1, <2>3, <2>4, DatedPut
  <2> QED BY <2>2, <2>5, <2>6
<1>15. CASE op = "sRemove"
  <2>1. m2 = M!MemSRemove(m, c, now).mem /\ d2 = SRem(d, c, now).db
    BY <1>15 DEF M!MemRun, RedisRun
  <2>2. Same(m.sets, c.key, d, now)
    BY <1>15, KeyKinds DEF Alike
  <2>3. PICK left : left = At(d, c.key, now, {}) \ {c.arg}
    OBVIOUS
  <2>4. left = M!ItAt(m.sets, c.key, now, {}) \ {c.arg}
    BY <2>2, <2>3, ItSame
  <2>5. m2.values = m.values
    BY <2>1 DEF M!MemSRemove, M!Answer
  <2>6. CASE left = {}
    <3>1. m2.sets = M!Remove(m.sets, {c.key}) /\ d2 = Without(d, c.key)
      BY <2>1, <2>3, <2>4, <2>6 DEF M!MemSRemove, M!Answer, SRem, Served
    <3> QED BY <2>5, <3>1, DatedRemove
  <2>7. CASE left # {}
    <3>1. There(d, c.key, now)
      BY <2>3, <2>7 DEF At
    <3>2. /\ d[c.key].expiresAt \in Nat \cup {Never}
          /\ m.sets[c.key].expiresAt \in Nat \cup {Never}
      BY <2>2, <3>1 DEF Same, There, Dated
    <3>3. m2.sets = M!Put(m.sets, c.key, left, m.sets[c.key].expiresAt)
      BY <2>1, <2>4, <2>7 DEF M!MemSRemove, M!Answer
    <3>4. d2 = With(d, c.key, left, d[c.key].expiresAt)
      BY <2>1, <2>3, <2>7 DEF SRem, Served
    <3> QED BY <2>5, <3>2, <3>3, <3>4, DatedPut
  <2> QED BY <2>6, <2>7
<1>16. CASE op = "sMembers"
  BY <1>16, DatedTouch DEF M!MemRun, M!MemSMembers, M!Answer, RedisRun, SMembers, Served
<1> QED BY <1>2, <1>7, <1>8, <1>9, <1>10, <1>11, <1>12, <1>14, <1>15, <1>16

\* Time only makes entries lapse, in both stores alike.
LEMMA AlikeLater ==
  ASSUME NEW m, NEW d, NEW now \in Nat, Alike(m, d, now), AllDated(m, d)
  PROVE  Alike(m, d, now + 1)
<1>1. ASSUME NEW map, Dated(map), NEW k, Same(map, k, d, now)
      PROVE  Same(map, k, d, now + 1)
  <2>1. M!Live(map, k, now + 1) => M!Live(map, k, now)
    BY <1>1, ConstantsAssumption DEF M!Live, Dated
  <2>2. There(d, k, now + 1) => There(d, k, now)
    BY ConstantsAssumption DEF There, Dated, AllDated
  <2>3. There(d, k, now) => /\ map[k].it = d[k].it
                            /\ map[k].expiresAt = d[k].expiresAt
                            /\ k \in DOMAIN map /\ k \in DOMAIN d
    BY <1>1 DEF Same, There, M!Live
  <2>4. M!Live(map, k, now + 1) <=> There(d, k, now + 1)
    <3>1. CASE There(d, k, now)
      BY <2>3, <3>1 DEF M!Live, There
    <3>2. CASE ~There(d, k, now)
      BY <1>1, <2>1, <2>2, <3>2 DEF Same
    <3> QED BY <3>1, <3>2
  <2> QED BY <2>2, <2>3, <2>4 DEF Same
<1> QED BY <1>1 DEF Alike, AllDated

LEMMA AlikeSwept ==
  ASSUME NEW m, NEW d, NEW now \in Nat, Alike(m, d, now), AllDated(m, d),
         NEW m2, m2 = M!MemSweep(m, now)
  PROVE  Alike(m2, d, now) /\ AllDated(m2, d)
<1>1. m2.values = M!Swept(m.values, now) /\ m2.sets = M!Swept(m.sets, now)
  BY DEF M!MemSweep
<1> QED BY <1>1, SweepSame, DatedTouch DEF Alike, AllDated

-----------------------------------------------------------------------------
(***************************************************************************)
(* Steps that add nothing to any call.                                     *)
(***************************************************************************)
Left(r, s) ==
    /\ DOMAIN s = Fields /\ s.at \in Nat
    /\ s.pc \in {"idle", "gate", "sent", "served"}
    /\ s.pc # "idle" => r.pc # "idle" /\ s.cmd = r.cmd
    /\ s.pc = "served" => r.pc = "served" /\ s.reply = r.reply /\ s.at = r.at

LEMMA LeftItself ==
  ASSUME CallsTyped, NEW c \in Callers
  PROVE  Left(calls[c], calls[c])
  BY DEF CallsTyped, Left

LEMMA LeftIdle ==
  ASSUME NEW r
  PROVE  Left(r, Idle)
  BY DEF Left, Idle, Fields

LEMMA LeftSent ==
  ASSUME CallsTyped, NEW c \in Callers, calls[c].pc # "idle"
  PROVE  Left(calls[c], [calls[c] EXCEPT !.pc = "sent"])
<1>1. PICK r : r = calls[c]
  OBVIOUS
<1>2. DOMAIN r = Fields /\ r.at \in Nat /\ r.pc # "idle"
  BY <1>1 DEF CallsTyped
<1>3. PICK s : s = [r EXCEPT !.pc = "sent"]
  OBVIOUS
<1>4. DOMAIN s = Fields /\ s.pc = "sent" /\ s.cmd = r.cmd /\ s.at = r.at
  BY <1>2, <1>3 DEF Fields
<1>5. Left(r, s)
  BY <1>2, <1>4 DEF Left
<1> QED BY <1>1, <1>3, <1>5

LEMMA LeftTyped ==
  ASSUME CallsTyped,
         calls' = [c \in Callers |-> calls'[c]],
         \A c \in Callers : Left(calls[c], calls'[c])
  PROVE  CallsTyped'
<1>1. \A c \in Callers : /\ DOMAIN calls'[c] = Fields /\ calls'[c].at \in Nat
                         /\ calls'[c].pc \in {"idle", "gate", "sent", "served"}
                         /\ calls'[c].pc # "idle" =>
                              calls[c].pc # "idle" /\ calls'[c].cmd = calls[c].cmd
  BY DEF Left
<1>2. ASSUME NEW c \in Callers, calls'[c].pc # "idle"
      PROVE  \E cmd \in Commands : calls'[c].cmd = Ask(cmd, calls'[c].cmd.arg)
  BY <1>1, <1>2 DEF CallsTyped
<1> QED BY <1>1, <1>2 DEF CallsTyped

LEMMA QuietStep ==
  ASSUME CallsTyped, Apart, Fresh, Gone, Counts,
         calls' = [c \in Callers |-> calls'[c]],
         \A c \in Callers : Left(calls[c], calls'[c]),
         UNCHANGED <<clock, db, ops, taken>>
  PROVE  CallsTyped' /\ Apart' /\ Fresh' /\ Gone' /\ Counts'
<1>1. \A c \in Callers :
        /\ calls'[c].pc # "idle" => calls[c].pc # "idle" /\ calls'[c].cmd = calls[c].cmd
        /\ calls'[c].pc = "served" =>
             /\ calls[c].pc = "served" /\ calls'[c].cmd = calls[c].cmd
             /\ calls'[c].reply = calls[c].reply /\ calls'[c].at = calls[c].at
  BY DEF Left
<1>2. CallsTyped'
  BY LeftTyped
<1>3. \A c \in Callers : \A names : Doing(c, names)' => Doing(c, names)
  BY <1>1 DEF Doing
<1>4. Apart'
  BY <1>1 DEF Apart, Doing, Writes
<1>5. Fresh'
  BY <1>1 DEF Fresh, Doing, Writes, Holds
<1>6. Gone'
  BY <1>1 DEF Gone, Took, Holds
<1>7. Counts'
  BY <1>1 DEF Counts, Counted, There
<1> QED BY <1>2, <1>4, <1>5, <1>6, <1>7

LEMMA UpdatedCall ==
  ASSUME CallsTyped, NEW c \in Callers, NEW r, calls' = [calls EXCEPT ![c] = r]
  PROVE  /\ calls' = [d \in Callers |-> calls'[d]]
         /\ calls'[c] = r
         /\ \A d \in Callers \ {c} : calls'[d] = calls[d]
<1>1. calls = [d \in Callers |-> calls[d]]
  BY DEF CallsTyped
<1>2. DOMAIN calls = Callers
  BY <1>1
<1>3. calls' = [d \in Callers |-> IF d = c THEN r ELSE calls[d]]
  BY <1>2
<1> QED BY <1>3

LEMMA OneLeft ==
  ASSUME CallsTyped, NEW c \in Callers, NEW r, Left(calls[c], r),
         calls' = [calls EXCEPT ![c] = r]
  PROVE  /\ calls' = [d \in Callers |-> calls'[d]]
         /\ \A d \in Callers : Left(calls[d], calls'[d])
  BY UpdatedCall, LeftItself

LEMMA SendQuiet ==
  ASSUME CallsTyped, NEW c \in Callers, Send(c)
  PROVE  /\ calls' = [d \in Callers |-> calls'[d]]
         /\ \A d \in Callers : Left(calls[d], calls'[d])
<1>1. calls[c].pc # "idle"
  BY DEF Send
<1>2. PICK r : Step(c, r) /\ (r = [calls[c] EXCEPT !.pc = "sent"] \/ r = Idle)
  BY DEF Send
<1> QED BY <1>1, <1>2, LeftIdle, LeftSent, OneLeft DEF Step

LEMMA FlushQuiet ==
  ASSUME CallsTyped, Flush
  PROVE  /\ calls' = [d \in Callers |-> calls'[d]]
         /\ \A d \in Callers : Left(calls[d], calls'[d])
  BY LeftIdle, LeftItself DEF Flush

LEMMA StillQuiet ==
  ASSUME CallsTyped, calls' = calls
  PROVE  /\ calls' = [d \in Callers |-> calls'[d]]
         /\ \A d \in Callers : Left(calls[d], calls'[d])
  BY LeftItself DEF CallsTyped

LEMMA ConnectedQuiet ==
  ASSUME CallsTyped, Wired, Connected
  PROVE  /\ calls' = [d \in Callers |-> calls'[d]]
         /\ \A d \in Callers : Left(calls[d], calls'[d])
<1>1. calls' = [c \in Callers |-> IF c \in ToSet(wire)
                                   THEN [calls[c] EXCEPT !.pc = "sent"] ELSE calls[c]]
  BY Zenon DEF Connected
<1>2. \A c \in ToSet(wire) : calls[c].pc # "idle"
  BY DEF Wired, ToSet
<1>3. ASSUME NEW d \in Callers
      PROVE  Left(calls[d], calls'[d])
  <2>1. CASE d \in ToSet(wire)
    BY <1>1, <1>2, <2>1, LeftSent
  <2>2. CASE d \notin ToSet(wire)
    BY <1>1, <2>2, LeftItself
  <2> QED BY <2>1, <2>2
<1> QED BY <1>1, <1>3

-----------------------------------------------------------------------------
(***************************************************************************)
(* The wire.                                                               *)
(***************************************************************************)
LEMMA SendWired ==
  ASSUME CallsTyped, Wired, NEW c \in Callers, Send(c)
  PROVE  Wired'
<1>1. calls[c].pc = "gate"
  BY DEF Send
<1>2. \A i \in 1 .. Len(wire) : wire[i] \in Callers \ {c}
  BY <1>1 DEF Wired
<1>3. CASE /\ calls' = [calls EXCEPT ![c] = [calls[c] EXCEPT !.pc = "sent"]]
           /\ wire' = Append(wire, c)
  <2>1. calls'[c].pc = "sent" /\ \A d \in Callers \ {c} : calls'[d] = calls[d]
    <3>1. PICK r : r = [calls[c] EXCEPT !.pc = "sent"]
      OBVIOUS
    <3>2. r.pc = "sent"
      BY <3>1 DEF CallsTyped, Fields
    <3> QED BY <1>3, <3>1, <3>2, UpdatedCall
  <2>2. /\ wire' \in Seq(Callers) /\ Len(wire') = Len(wire) + 1
        /\ wire'[Len(wire) + 1] = c
        /\ \A i \in 1 .. Len(wire) : wire'[i] = wire[i]
        /\ Len(wire) \in Nat
    BY <1>3 DEF Wired
  <2> QED BY <1>2, <2>1, <2>2 DEF Wired
<1>4. CASE calls' = [calls EXCEPT ![c] = Idle] /\ wire' = wire
  <2>1. \A d \in Callers \ {c} : calls'[d] = calls[d]
    BY <1>4, UpdatedCall
  <2> QED BY <1>2, <1>4, <2>1 DEF Wired
<1> QED BY <1>3, <1>4 DEF Send, Step

LEMMA SameCallsWired ==
  ASSUME Wired, wire' = wire,
         \A c \in Callers : calls[c].pc \in {"sent", "served"} => calls'[c].pc \in {"sent", "served"}
  PROVE  Wired'
<1>1. \A i \in 1 .. Len(wire) : wire[i] \in Callers
  BY DEF Wired
<1> QED BY <1>1 DEF Wired

LEMMA ReturnWired ==
  ASSUME CallsTyped, Wired, NEW c \in Callers, Return(c)
  PROVE  Wired'
<1>1. /\ wire # <<>> /\ c = Head(wire) /\ wire' = Tail(wire)
      /\ calls' = [calls EXCEPT ![c] = Idle]
  BY DEF Return, Step
<1>2. \A d \in Callers \ {c} : calls'[d] = calls[d]
  BY <1>1, UpdatedCall
<1>3. /\ wire' \in Seq(Callers) /\ Len(wire') = Len(wire) - 1 /\ wire[1] = c
      /\ \A i \in 1 .. Len(wire') : wire'[i] = wire[i + 1]
      /\ Len(wire) \in Nat /\ Len(wire) # 0
  BY <1>1 DEF Wired
<1>4. \A i \in 1 .. Len(wire') : wire'[i] # c /\ wire'[i] \in Callers
  BY <1>3 DEF Wired
<1>5. \A i, j \in 1 .. Len(wire') : wire'[i] = wire'[j] => i = j
  BY <1>3 DEF Wired
<1>6. \A i \in 1 .. Len(wire') : calls'[wire'[i]].pc \in {"sent", "served"}
  BY <1>2, <1>3, <1>4 DEF Wired
<1> QED BY <1>3, <1>5, <1>6 DEF Wired

LEMMA EmptyWired ==
  ASSUME wire' = <<>>
  PROVE  Wired'
  BY DEF Wired

-----------------------------------------------------------------------------
(***************************************************************************)
(* A call is made.                                                         *)
(***************************************************************************)
LEMMA InvokeShape ==
  ASSUME CallsTyped, ops \in Nat, NEW c \in Callers, NEW cmd \in Commands, Invoke(c, cmd)
  PROVE  /\ calls[c].pc = "idle"
         /\ calls' = [d \in Callers |-> calls'[d]]
         /\ \A d \in Callers \ {c} : calls'[d] = calls[d]
         /\ DOMAIN calls'[c] = Fields /\ calls'[c].pc = "gate" /\ calls'[c].at \in Nat
         /\ calls'[c].cmd = Ask(cmd, calls'[c].cmd.arg)
         /\ cmd.op \in Writes => calls'[c].cmd.arg = ops + 1
         /\ ops' = ops + 1
<1>1. PICK arg : arg = IF cmd.op \in {"sAdd", "sRemove"} THEN "member" ELSE ops'
  OBVIOUS
<1>2. PICK ask : ask = [op |-> cmd.op, key |-> cmd.key, ttl |-> cmd.ttl, arg |-> arg]
  OBVIOUS
<1>3. PICK r : r = [Idle EXCEPT !.pc = "gate", !.cmd = ask]
  OBVIOUS
<1>4. calls' = [calls EXCEPT ![c] = r]
  BY <1>1, <1>2, <1>3, Zenon DEF Invoke, Step
<1>5. DOMAIN r = Fields /\ r.pc = "gate" /\ r.at = 0 /\ r.cmd = ask
  BY <1>3 DEF Idle, Fields
<1>6. ask = Ask(cmd, ask.arg) /\ ask.arg = arg
  BY <1>2 DEF Ask
<1>7. ops' = ops + 1 /\ calls[c].pc = "idle"
  BY DEF Invoke, Idle
<1>8. cmd.op \in Writes => arg = ops + 1
  BY <1>1, <1>7 DEF Writes
<1>9. /\ calls' = [d \in Callers |-> calls'[d]] /\ calls'[c] = r
      /\ \A d \in Callers \ {c} : calls'[d] = calls[d]
  BY <1>4, UpdatedCall
<1>10. calls'[c].cmd = ask
  BY <1>5, <1>9, Zenon
<1>11. cmd.op \in Writes => calls'[c].cmd.arg = ops + 1
  BY <1>6, <1>8, <1>10
<1>12. calls'[c].cmd = Ask(cmd, calls'[c].cmd.arg)
  BY <1>6, <1>10
<1>13. DOMAIN calls'[c] = Fields /\ calls'[c].pc = "gate" /\ calls'[c].at \in Nat
  BY <1>5, <1>9
<1> QED BY <1>7, <1>9, <1>11, <1>12, <1>13

LEMMA InvokeStep ==
  ASSUME IInv, NEW c \in Callers, NEW cmd \in Commands, InvokeSecretly(c, cmd)
  PROVE  IInv'
<1>1. /\ calls[c].pc = "idle"
      /\ calls' = [d \in Callers |-> calls'[d]]
      /\ \A d \in Callers \ {c} : calls'[d] = calls[d]
      /\ DOMAIN calls'[c] = Fields /\ calls'[c].pc = "gate" /\ calls'[c].at \in Nat
      /\ calls'[c].cmd = Ask(cmd, calls'[c].cmd.arg)
      /\ cmd.op \in Writes => calls'[c].cmd.arg = ops + 1
      /\ ops' = ops + 1
  BY InvokeShape DEF IInv, Typed, InvokeSecretly
<1>2. UNCHANGED <<clock, db, wire, mem, taken>>
  BY DEF InvokeSecretly, Invoke
<1>3. ops \in Nat /\ calls'[c].cmd.op = cmd.op
  BY <1>1 DEF IInv, Typed, Ask
<1>4. Typed'
  <2>1. CallsTyped'
    BY <1>1 DEF CallsTyped, IInv, Typed
  <2> QED BY <1>1, <1>2, <2>1 DEF IInv, Typed, Dated
<1>5. Agree'
  BY <1>2 DEF IInv, Agree
<1>6. Wired'
  BY <1>1, <1>2, SameCallsWired DEF IInv
<1>7. \A d \in Callers : \A names :
        Doing(d, names)' <=> IF d = c THEN cmd.op \in names ELSE Doing(d, names)
  BY <1>1, <1>3 DEF Doing
<1>8. Apart'
  <2>1. \A d \in Callers : calls[d].pc # "idle" =>
          ~(/\ {cmd.op, calls[d].cmd.op} \cap Writes # {}
            /\ "take" \in {cmd.op, calls[d].cmd.op})
    BY DEF InvokeSecretly
  <2>2. ASSUME NEW d \in Callers, Doing(d, Writes), cmd.op = "take"
        PROVE  FALSE
    BY <2>1, <2>2 DEF Doing
  <2>3. ASSUME NEW d \in Callers, Doing(d, {"take"}), cmd.op \in Writes
        PROVE  FALSE
    BY <2>1, <2>3 DEF Doing
  <2>4. ASSUME NEW d \in Callers, NEW e \in Callers, Doing(d, Writes)', Doing(e, {"take"})'
        PROVE  FALSE
    <3>1. CASE d = c /\ e = c
      BY <1>7, <2>4, <3>1 DEF Writes
    <3>2. CASE d = c /\ e # c
      BY <1>7, <2>3, <2>4, <3>2
    <3>3. CASE d # c /\ e = c
      BY <1>7, <2>2, <2>4, <3>3
    <3>4. CASE d # c /\ e # c
      BY <1>7, <2>4, <3>4 DEF IInv, Apart
    <3> QED BY <3>1, <3>2, <3>3, <3>4
  <2> QED BY <2>4 DEF Apart
<1>9. Fresh'
  <2>1. \A v \in taken : v \in 1 .. ops /\ v # ops + 1
    BY <1>3 DEF IInv, Fresh
  <2>2. 1 .. ops \subseteq 1 .. ops + 1 /\ ops + 1 \in 1 .. ops + 1 /\ ops + 1 \notin 1 .. ops
    BY <1>3
  <2>3. ASSUME NEW d \in Callers, Doing(d, Writes)'
        PROVE  /\ calls'[d].cmd.arg \in 1 .. ops + 1
               /\ calls'[d].cmd.arg \notin taken
               /\ \A e \in Callers \ {d} :
                    Doing(e, Writes)' => calls'[e].cmd.arg # calls'[d].cmd.arg
    BY <1>1, <1>7, <2>1, <2>2, <2>3 DEF IInv, Fresh
  <2>4. ASSUME NEW k \in ValueKeys, k \in DOMAIN db, NEW d \in Callers,
               Doing(d, Writes)', calls'[d].cmd.arg = db[k].it
        PROVE  calls'[d].cmd.key = k
    BY <1>1, <1>7, <2>2, <2>4 DEF IInv, Fresh
  <2> QED BY <1>1, <1>2, <2>1, <2>2, <2>3, <2>4 DEF IInv, Fresh, Holds
<1>10. Gone'
  <2>1. \A d \in Callers : Took(d)' => Took(d) /\ calls'[d] = calls[d]
    BY <1>1 DEF Took
  <2>2. 1 .. ops \subseteq 1 .. ops + 1
    BY <1>3
  <2> QED BY <1>1, <1>2, <2>1, <2>2 DEF IInv, Gone, Holds
<1>11. Counts'
  <2>1. \A d \in Callers : Counted(d)' => Counted(d) /\ calls'[d] = calls[d]
    BY <1>1 DEF Counted
  <2> QED BY <1>2, <2>1 DEF IInv, Counts, There
<1> QED BY <1>4, <1>5, <1>6, <1>8, <1>9, <1>10, <1>11 DEF IInv

(***************************************************************************)
(* A caller has its answer.                                                *)
(***************************************************************************)
LEMMA ReturnStep ==
  ASSUME IInv, NEW c \in Callers, ReturnNoted(c)
  PROVE  IInv'
<1>1. calls' = [calls EXCEPT ![c] = Idle] /\ calls[c].pc = "served"
  BY DEF ReturnNoted, Return, Step
<1>2. /\ calls' = [d \in Callers |-> calls'[d]]
      /\ \A d \in Callers : Left(calls[d], calls'[d])
  BY <1>1, LeftIdle, OneLeft DEF IInv, Typed
<1>3. /\ calls'[c].pc = "idle"
      /\ \A d \in Callers \ {c} : calls'[d] = calls[d]
  BY <1>1, UpdatedCall DEF IInv, Typed, Idle
<1>4. UNCHANGED <<clock, db, ops, mem>>
  BY DEF ReturnNoted, Return
<1>5. Typed' /\ Agree'
  <2>1. CallsTyped'
    BY <1>2, LeftTyped DEF IInv, Typed
  <2> QED BY <1>4, <2>1 DEF IInv, Typed, Dated, Agree
<1>6. Wired'
  BY ReturnWired DEF ReturnNoted, IInv, Typed
<1>7. taken' = taken \/ (Took(c) /\ taken' = taken \cup {calls[c].reply})
  BY <1>1 DEF ReturnNoted, Took
<1>8. \A d \in Callers : \A names : Doing(d, names)' => d # c /\ Doing(d, names)
  BY <1>3 DEF Doing
<1>9. Apart'
  BY <1>8 DEF IInv, Apart
<1>10. \A d \in Callers : Took(d)' => d # c /\ Took(d)
  BY <1>3 DEF Took
<1>11. \A d \in Callers : Counted(d)' => d # c /\ Counted(d)
  BY <1>3 DEF Counted
<1>12. Counts'
  BY <1>3, <1>4, <1>11 DEF IInv, Counts, There
<1>13. Fresh' /\ Gone'
  <2>1. CASE taken' = taken
    <3>1. Fresh'
      BY <1>3, <1>4, <1>8, <2>1 DEF IInv, Fresh, Holds
    <3>2. Gone'
      BY <1>3, <1>4, <1>10, <2>1 DEF IInv, Gone, Holds
    <3> QED BY <3>1, <3>2
  <2>2. CASE Took(c) /\ taken' = taken \cup {calls[c].reply}
    <3>1. /\ calls[c].reply \in 1 .. ops
          /\ \A k \in ValueKeys : ~Holds(k, calls[c].reply)
          /\ \A d \in Callers \ {c} : Took(d) => calls[d].reply # calls[c].reply
      BY <2>2 DEF IInv, Gone
    <3>2. \A d \in Callers : ~Doing(d, Writes)'
      <4>1. Doing(c, {"take"})
        BY <2>2 DEF Took, Doing
      <4> QED BY <1>8, <4>1 DEF IInv, Apart
    <3>3. Fresh'
      BY <1>4, <2>2, <3>1, <3>2 DEF IInv, Fresh, Holds
    <3>4. Gone'
      BY <1>3, <1>4, <1>10, <2>2, <3>1 DEF IInv, Gone, Holds
    <3> QED BY <3>3, <3>4
  <2> QED BY <1>7, <2>1, <2>2
<1> QED BY <1>5, <1>6, <1>9, <1>12, <1>13 DEF IInv

(***************************************************************************)
(* What a command does to Redis's keys.                                    *)
(***************************************************************************)
Untouched(d, d2, k) == /\ k \in DOMAIN d2 <=> k \in DOMAIN d
                       /\ k \in DOMAIN d => d2[k] = d[k]

LEMMA RunShape ==
  ASSUME NEW d, NEW c, NEW now,
         c.op \in {"get", "set", "setIfAbsent", "take", "increment", "delete",
                   "exists", "sAdd", "sRemove", "sMembers"},
         NEW d2, d2 = RedisRun(d, c, now).db
  PROVE  \/ d2 = d
         \/ c.op \notin {"get", "exists", "increment"} /\ d2 = Without(d, c.key)
         \/ c.op \notin {"get", "exists", "take", "delete"} /\
              \E it, until : /\ d2 = With(d, c.key, it, until)
                             /\ c.op \in Writes => it = c.arg
<1>1. CASE c.op \in {"get", "exists", "sMembers"}
  BY <1>1 DEF RedisRun, Get, Exists, SMembers, Served
<1>2. CASE c.op = "set"
  <2>1. d2 = Without(d, c.key) \/ d2 = With(d, c.key, c.arg, Expiry(c.ttl, now))
    BY <1>2 DEF RedisRun, Set, Served
  <2> QED BY <1>2, <2>1
<1>3. CASE c.op = "setIfAbsent"
  <2>1. d2 = d \/ d2 = With(d, c.key, c.arg, Expiry(c.ttl, now))
    BY <1>3 DEF RedisRun, SetIfAbsent, Served
  <2> QED BY <1>3, <2>1
<1>4. CASE c.op = "take"
  BY <1>4 DEF RedisRun, GetDel, Served
<1>5. CASE c.op = "increment"
  <2>1. d2 = d \/ \E n : d2 = With(d, c.key, n, Expiry(c.ttl, now))
    BY <1>5 DEF RedisRun, Incr, Served
  <2> QED BY <1>5, <2>1 DEF Writes
<1>6. CASE c.op = "delete"
  BY <1>6 DEF RedisRun, Del, Served
<1>7. CASE c.op = "sAdd"
  <2>1. d2 = d \/ \E it, until : d2 = With(d, c.key, it, until)
    BY <1>7 DEF RedisRun, SAdd, Served
  <2> QED BY <1>7, <2>1 DEF Writes
<1>8. CASE c.op = "sRemove"
  <2>1. d2 = Without(d, c.key) \/ \E it, until : d2 = With(d, c.key, it, until)
    BY <1>8 DEF RedisRun, SRem, Served
  <2> QED BY <1>8, <2>1 DEF Writes
<1> QED BY <1>1, <1>2, <1>3, <1>4, <1>5, <1>6, <1>7, <1>8

LEMMA WithShape ==
  ASSUME NEW d, NEW key, NEW it, NEW until, NEW d2, d2 = With(d, key, it, until)
  PROVE  /\ \A k : k # key => Untouched(d, d2, k)
         /\ key \in DOMAIN d2 /\ d2[key].it = it /\ d2[key].expiresAt = until
  BY DEF With, Untouched

LEMMA WithoutShape ==
  ASSUME NEW d, NEW key, NEW d2, d2 = Without(d, key)
  PROVE  /\ \A k : k # key => Untouched(d, d2, k)
         /\ key \notin DOMAIN d2
  BY DEF Without, Restrict, Untouched

LEMMA OtherKeys ==
  ASSUME NEW d, NEW now, NEW cmd \in Commands, NEW c, c.op = cmd.op,
         NEW d2, d2 = RedisRun(d, c, now).db, NEW k, k # c.key
  PROVE  Untouched(d, d2, k)
<1>1. c.op \in {"get", "set", "setIfAbsent", "take", "increment", "delete",
                "exists", "sAdd", "sRemove", "sMembers"}
  BY CallsAssumption
<1>2. \/ d2 = d \/ d2 = Without(d, c.key)
      \/ \E it, until : d2 = With(d, c.key, it, until)
  BY <1>1, RunShape
<1>3. CASE d2 = d
  BY <1>3 DEF Untouched
<1>4. CASE d2 = Without(d, c.key)
  BY <1>4, WithoutShape
<1>5. CASE \E it, until : d2 = With(d, c.key, it, until)
  BY <1>5, WithShape
<1> QED BY <1>2, <1>3, <1>4, <1>5

\* A value comes from a write of it, and counters are only counted up.
LEMMA ValueKept ==
  ASSUME NEW d, NEW now, NEW cmd \in Commands, NEW c, c.op = cmd.op, c.key = cmd.key,
         NEW d2, d2 = RedisRun(d, c, now).db, NEW k \in ValueKeys, k \in DOMAIN d2
  PROVE  \/ k \in DOMAIN d /\ d2[k].it = d[k].it
         \/ c.op \in Writes /\ k = c.key /\ d2[k].it = c.arg
<1>1. CASE k # c.key
  BY <1>1, OtherKeys DEF Untouched
<1>2. CASE k = c.key
  <2>1. c.op \notin {"increment", "sAdd", "sRemove", "sMembers"}
    BY <1>2, KeyKinds, KindsApart DEF PlainKeys
  <2>2. c.op \in {"get", "set", "setIfAbsent", "take", "delete", "exists"}
    BY <2>1, CallsAssumption
  <2>3. CASE d2 = d
    BY <2>3
  <2>4. CASE d2 = Without(d, c.key)
    BY <1>2, <2>4, WithoutShape
  <2>5. ASSUME NEW it, NEW until, d2 = With(d, c.key, it, until),
               c.op \notin {"get", "exists", "take", "delete"}, c.op \in Writes => it = c.arg
        PROVE  c.op \in Writes /\ d2[k].it = c.arg
    <3>1. c.op \in Writes
      BY <2>2, <2>5 DEF Writes
    <3> QED BY <1>2, <2>5, <3>1, WithShape
  <2> QED BY <1>2, <2>2, <2>3, <2>4, <2>5, RunShape
<1> QED BY <1>1, <1>2

LEMMA TakenAway ==
  ASSUME NEW d, NEW now, NEW c, c.op = "take"
  PROVE  /\ c.key \notin DOMAIN RedisRun(d, c, now).db
         /\ \/ RedisRun(d, c, now).reply = Null
            \/ c.key \in DOMAIN d /\ RedisRun(d, c, now).reply = d[c.key].it
<1>1. /\ RedisRun(d, c, now).db = Without(d, c.key)
      /\ RedisRun(d, c, now).reply = At(d, c.key, now, Null)
  BY DEF RedisRun, GetDel, Served
<1> QED BY <1>1, WithoutShape DEF At, There

LEMMA CounterKept ==
  ASSUME NEW d, NEW now, NEW cmd \in Commands, NEW c, c.op = cmd.op, c.key = cmd.key,
         NEW d2, d2 = RedisRun(d, c, now).db, NEW k \in CounterKeys,
         c.op # "increment" \/ k # c.key
  PROVE  Untouched(d, d2, k)
<1>1. CASE k # c.key
  BY <1>1, OtherKeys
<1>2. CASE k = c.key
  <2>1. k \notin KeysOf({"delete"}) /\ k \notin ValueKeys /\ k \notin SetKeys
    BY KindsApart DEF PlainKeys
  <2>2. c.op \in {"get", "exists"}
    BY <1>2, <2>1, KeyKinds, CallsAssumption
  <2>3. d2 = d
    BY <2>2, RunShape
  <2> QED BY <2>3 DEF Untouched
<1> QED BY <1>1, <1>2

LEMMA CountedUp ==
  ASSUME NEW d, NEW now \in Nat, NEW c, c.op = "increment", c.ttl \in Nat \ {0},
         c.key \in DOMAIN d => d[c.key].it \in Nat,
         NEW r, r = RedisRun(d, c, now)
  PROVE  /\ There(r.db, c.key, now)
         /\ r.db[c.key].it = r.reply
         /\ r.reply \in Nat
         /\ There(d, c.key, now) => d[c.key].it < r.reply
<1>1. c.ttl # Never /\ ~Dead(c.ttl) /\ Expiry(c.ttl, now) = now + c.ttl
  BY ConstantsAssumption DEF Dead, Expiry
<1>2. PICK n : n = At(d, c.key, now, 0) + 1
  OBVIOUS
<1>3. r.db = With(d, c.key, n, now + c.ttl) /\ r.reply = n
  BY <1>1, <1>2 DEF RedisRun, Incr, Served
<1>4. At(d, c.key, now, 0) \in Nat
  BY DEF At, There
<1>5. /\ c.key \in DOMAIN r.db /\ r.db[c.key].it = n
      /\ r.db[c.key].expiresAt = now + c.ttl
  BY <1>3, WithShape
<1>6. There(r.db, c.key, now)
  BY <1>5 DEF There
<1>7. There(d, c.key, now) => d[c.key].it < n
  BY <1>2, <1>4 DEF At
<1> QED BY <1>2, <1>3, <1>4, <1>5, <1>6, <1>7

LEMMA ServeShape ==
  ASSUME CallsTyped, NEW c \in Callers, Serve(c)
  PROVE  /\ calls[c].pc = "sent"
         /\ calls' = [d \in Callers |-> calls'[d]]
         /\ \A d \in Callers \ {c} : calls'[d] = calls[d]
         /\ DOMAIN calls'[c] = Fields /\ calls'[c].pc = "served"
         /\ calls'[c].cmd = calls[c].cmd /\ calls'[c].at = clock
         /\ calls'[c].reply = RedisRun(db, calls[c].cmd, clock).reply
         /\ db' = RedisRun(db, calls[c].cmd, clock).db
<1>1. PICK done : done = RedisRun(db, calls[c].cmd, clock)
  OBVIOUS
<1>2. PICK s : s = calls[c]
  OBVIOUS
<1>3. PICK r : r = [s EXCEPT !.pc = "served", !.reply = done.reply, !.at = clock]
  OBVIOUS
<1>4. calls' = [calls EXCEPT ![c] = r] /\ db' = done.db /\ s.pc = "sent"
  BY <1>1, <1>2, <1>3, Zenon DEF Serve, Step, NextServed
<1>5. DOMAIN s = Fields
  BY <1>2 DEF CallsTyped
<1>6. /\ DOMAIN r = Fields /\ r.pc = "served" /\ r.cmd = s.cmd
      /\ r.reply = done.reply /\ r.at = clock
  BY <1>3, <1>5 DEF Fields
<1>7. /\ calls' = [d \in Callers |-> calls'[d]] /\ calls'[c] = r
      /\ \A d \in Callers \ {c} : calls'[d] = calls[d]
  BY <1>4, UpdatedCall
<1> QED BY <1>1, <1>2, <1>4, <1>6, <1>7

LEMMA ServeStep ==
  ASSUME IInv, NEW c \in Callers, ServeBoth(c)
  PROVE  IInv'
<1>1. /\ calls[c].pc = "sent"
      /\ calls' = [d \in Callers |-> calls'[d]]
      /\ \A d \in Callers \ {c} : calls'[d] = calls[d]
      /\ DOMAIN calls'[c] = Fields /\ calls'[c].pc = "served"
      /\ calls'[c].cmd = calls[c].cmd /\ calls'[c].at = clock
  BY ServeShape DEF IInv, Typed, ServeBoth
<1>2. PICK ask : ask = calls[c].cmd
  OBVIOUS
<1>3. PICK run : run = RedisRun(db, ask, clock)
  OBVIOUS
<1>4. db' = run.db /\ calls'[c].reply = run.reply /\ calls'[c].cmd = ask
  BY <1>1, <1>2, <1>3, ServeShape DEF IInv, Typed, ServeBoth
<1>5. /\ UNCHANGED <<clock, wire, ops, taken>>
      /\ mem' = M!MemRun(mem, ask, clock).mem
  BY <1>2 DEF ServeBoth, Serve
<1>6. clock \in Nat /\ ops \in Nat
  BY DEF IInv, Typed
<1>7. PICK cmd \in Commands : ask.op = cmd.op /\ ask.key = cmd.key /\ ask.ttl = cmd.ttl
  <2>1. PICK cmd \in Commands : calls[c].cmd = Ask(cmd, calls[c].cmd.arg)
    BY <1>1 DEF IInv, Typed, CallsTyped
  <2> QED BY <1>2, <2>1 DEF Ask
<1>8. Agree'
  BY <1>3, <1>4, <1>5, <1>6, <1>7, RunsAlike DEF IInv, Agree
<1>9. Typed'
  <2>1. AllDated(mem', db')
    BY <1>3, <1>4, <1>5, <1>6, <1>7, RunDated DEF IInv, Agree, Typed, AllDated
  <2>2. ASSUME NEW d \in Callers
        PROVE  /\ DOMAIN calls'[d] = Fields
               /\ calls'[d].pc \in {"idle", "gate", "sent", "served"}
               /\ calls'[d].at \in Nat
               /\ calls'[d].pc # "idle" =>
                    \E e \in Commands : calls'[d].cmd = Ask(e, calls'[d].cmd.arg)
    BY <1>1, <1>6 DEF IInv, Typed, CallsTyped
  <2>3. CallsTyped'
    BY <1>1, <2>2 DEF CallsTyped
  <2> QED BY <1>5, <1>6, <2>1, <2>3 DEF Typed, AllDated
<1>10. Wired'
  BY <1>1, <1>5, SameCallsWired DEF IInv
<1>11. \A d \in Callers : \A names : Doing(d, names)' <=> Doing(d, names)
  BY <1>1 DEF Doing
<1>12. Apart'
  BY <1>11 DEF IInv, Apart
<1>13. \A d \in Callers : calls'[d].cmd = calls[d].cmd
  BY <1>1
<1>14. ASSUME NEW k \in ValueKeys, k \in DOMAIN db'
       PROVE  \/ k \in DOMAIN db /\ db'[k].it = db[k].it
              \/ Doing(c, Writes) /\ k = calls[c].cmd.key /\ db'[k].it = calls[c].cmd.arg
  <2>1. \/ k \in DOMAIN db /\ db'[k].it = db[k].it
        \/ ask.op \in Writes /\ k = ask.key /\ db'[k].it = ask.arg
    <3>1. run.db = RedisRun(db, ask, clock).db /\ k \in DOMAIN run.db
      BY <1>3, <1>4, <1>14
    <3>2. \/ k \in DOMAIN db /\ run.db[k].it = db[k].it
          \/ ask.op \in Writes /\ k = ask.key /\ run.db[k].it = ask.arg
      BY <1>7, <3>1, ValueKept
    <3> QED BY <1>4, <3>2
  <2> QED BY <1>1, <1>2, <2>1 DEF Doing
<1>15. Fresh'
  <2>1. ASSUME NEW d \in Callers, Doing(d, Writes)'
        PROVE  /\ calls'[d].cmd.arg \in 1 .. ops
               /\ calls'[d].cmd.arg \notin taken
               /\ \A e \in Callers \ {d} :
                    Doing(e, Writes)' => calls'[e].cmd.arg # calls'[d].cmd.arg
    BY <1>11, <1>13, <2>1 DEF IInv, Fresh
  <2>2. ASSUME NEW k \in ValueKeys, k \in DOMAIN db'
        PROVE  db'[k].it \in 1 .. ops /\ db'[k].it \notin taken
    BY <1>14, <2>2 DEF IInv, Fresh
  <2>3. ASSUME NEW k \in ValueKeys, k \in DOMAIN db', NEW d \in Callers,
               Doing(d, Writes)', calls'[d].cmd.arg = db'[k].it
        PROVE  calls'[d].cmd.key = k
    <3>1. Doing(d, Writes) /\ calls[d].cmd.arg = db'[k].it
      BY <1>11, <1>13, <2>3
    <3>2. CASE k \in DOMAIN db /\ db'[k].it = db[k].it
      BY <1>13, <3>1, <3>2 DEF IInv, Fresh
    <3>3. CASE Doing(c, Writes) /\ k = calls[c].cmd.key /\ db'[k].it = calls[c].cmd.arg
      <4>1. d = c
        BY <3>1, <3>3 DEF IInv, Fresh
      <4> QED BY <1>13, <3>3, <4>1
    <3> QED BY <1>14, <2>3, <3>2, <3>3
  <2>4. ASSUME NEW k \in ValueKeys, k \in DOMAIN db', NEW j \in ValueKeys \ {k}, j \in DOMAIN db'
        PROVE  db'[j].it # db'[k].it
    <3>1. CASE k \in DOMAIN db /\ db'[k].it = db[k].it /\ j \in DOMAIN db /\ db'[j].it = db[j].it
      BY <3>1 DEF IInv, Fresh, Holds
    <3>2. CASE /\ Doing(c, Writes) /\ k = calls[c].cmd.key /\ db'[k].it = calls[c].cmd.arg
               /\ j \in DOMAIN db /\ db'[j].it = db[j].it
      BY <2>4, <3>2 DEF IInv, Fresh
    <3>3. CASE /\ Doing(c, Writes) /\ j = calls[c].cmd.key /\ db'[j].it = calls[c].cmd.arg
               /\ k \in DOMAIN db /\ db'[k].it = db[k].it
      BY <2>4, <3>3 DEF IInv, Fresh
    <3> QED BY <1>14, <2>4, <3>1, <3>2, <3>3
  <2>5. \A v \in taken : v \in 1 .. ops
    BY DEF IInv, Fresh
  <2> QED BY <1>5, <2>1, <2>2, <2>3, <2>4, <2>5 DEF Fresh, Holds
<1>16. ASSUME NEW d \in Callers, Took(d)', d # c
       PROVE  Took(d)
  BY <1>1, <1>16 DEF Took
<1>17. ASSUME Took(c)'
       PROVE  /\ ~Doing(c, Writes) /\ \A d \in Callers : ~Doing(d, Writes)
              /\ ask.key \in ValueKeys /\ ask.key \in DOMAIN db
              /\ calls'[c].reply = db[ask.key].it
              /\ ask.key \notin DOMAIN db'
  <2>1. ask.op = "take" /\ run.reply # Null
    BY <1>4, <1>17 DEF Took
  <2>2. Doing(c, {"take"})
    BY <1>1, <1>2, <2>1 DEF Doing
  <2>3. \A d \in Callers : ~Doing(d, Writes)
    BY <2>2 DEF IInv, Apart
  <2>4. ask.key \in ValueKeys
    BY <1>7, <2>1, KeyKinds
  <2> QED BY <1>3, <1>4, <2>1, <2>3, <2>4, TakenAway
<1>18. Gone'
  <2>1. ASSUME NEW d \in Callers, Took(d)', d # c
        PROVE  /\ calls'[d].reply \in 1 .. ops
               /\ calls'[d].reply \notin taken
               /\ \A k \in ValueKeys : k \in DOMAIN db' => db'[k].it # calls'[d].reply
               /\ \A e \in Callers \ {d} : Took(e)' => calls'[e].reply # calls'[d].reply
    <3>1. Took(d) /\ calls'[d] = calls[d]
      BY <1>1, <1>16, <2>1
    <3>2. calls[d].reply \in 1 .. ops /\ calls[d].reply \notin taken
      BY <3>1 DEF IInv, Gone
    <3>3. \A k \in ValueKeys : k \in DOMAIN db => db[k].it # calls[d].reply
      BY <3>1 DEF IInv, Gone, Holds
    <3>4. ~Doing(c, Writes)
      <4>1. Doing(d, {"take"})
        BY <3>1 DEF Took, Doing
      <4> QED BY <4>1 DEF IInv, Apart
    <3>5. \A k \in ValueKeys : k \in DOMAIN db' => db'[k].it # calls[d].reply
      BY <1>14, <3>3, <3>4
    <3>6. ASSUME NEW e \in Callers \ {d}, Took(e)'
          PROVE  calls'[e].reply # calls'[d].reply
      <4>1. CASE e = c
        BY <1>17, <3>1, <3>3, <3>6, <4>1
      <4>2. CASE e # c
        BY <1>1, <1>16, <3>1, <3>6, <4>2 DEF IInv, Gone
      <4> QED BY <4>1, <4>2
    <3> QED BY <3>1, <3>2, <3>5, <3>6
  <2>2. ASSUME Took(c)'
        PROVE  /\ calls'[c].reply \in 1 .. ops
               /\ calls'[c].reply \notin taken
               /\ \A k \in ValueKeys : k \in DOMAIN db' => db'[k].it # calls'[c].reply
               /\ \A e \in Callers \ {c} : Took(e)' => calls'[e].reply # calls'[c].reply
    <3>1. /\ ~Doing(c, Writes)
          /\ ask.key \in ValueKeys /\ ask.key \in DOMAIN db
          /\ calls'[c].reply = db[ask.key].it
          /\ ask.key \notin DOMAIN db'
      BY <1>17, <2>2
    <3>2. calls'[c].reply \in 1 .. ops /\ calls'[c].reply \notin taken
      BY <3>1 DEF IInv, Fresh
    <3>3. ASSUME NEW k \in ValueKeys, k \in DOMAIN db'
          PROVE  db'[k].it # calls'[c].reply
      <4>1. k # ask.key /\ k \in DOMAIN db /\ db'[k].it = db[k].it
        BY <1>14, <3>1, <3>3
      <4> QED BY <3>1, <4>1 DEF IInv, Fresh, Holds
    <3>4. ASSUME NEW e \in Callers \ {c}, Took(e)'
          PROVE  calls'[e].reply # calls'[c].reply
      BY <2>1, <2>2, <3>4
    <3> QED BY <3>2, <3>3, <3>4
  <2> QED BY <1>5, <2>1, <2>2 DEF Gone, Holds
<1>19. Counts'
  <2>1. ASSUME NEW d \in Callers, Counted(d)', d # c
        PROVE  Counted(d) /\ calls'[d] = calls[d]
    BY <1>1, <2>1 DEF Counted
  <2>2. CASE ask.op = "increment"
    <3>1. ask.key \in CounterKeys
      BY <1>7, <2>2, KeyKinds
    <3>2. ask.key \in DOMAIN db => db[ask.key].it \in Nat
      BY <3>1 DEF IInv, Counts
    <3>3. /\ There(db', ask.key, clock)
          /\ db'[ask.key].it = calls'[c].reply
          /\ calls'[c].reply \in Nat
          /\ There(db, ask.key, clock) => db[ask.key].it < calls'[c].reply
      <4>1. /\ There(run.db, ask.key, clock)
            /\ run.db[ask.key].it = run.reply
            /\ run.reply \in Nat
            /\ There(db, ask.key, clock) => db[ask.key].it < run.reply
        <5>1. ask.ttl \in Nat \ {0}
          BY <1>7, <2>2, CallsAssumption
        <5> QED BY <1>3, <1>6, <2>2, <3>2, <5>1, CountedUp
      <4> QED BY <1>4, <4>1
    <3>4. \A k : k # ask.key => Untouched(db, db', k)
      BY <1>3, <1>4, <1>7, OtherKeys
    <3>5. \A k \in CounterKeys : k \in DOMAIN db' => db'[k].it \in Nat
      BY <3>3, <3>4 DEF IInv, Counts, Untouched
    <3>6. ASSUME NEW d \in Callers, d # c, Counted(d)'
          PROVE  /\ calls'[d].reply \in Nat /\ calls'[d].at <= clock
                 /\ calls'[d].at = clock =>
                      /\ There(db', calls'[d].cmd.key, clock)
                      /\ calls'[d].reply <= db'[calls'[d].cmd.key].it
                      /\ calls'[d].cmd.key = ask.key => calls'[d].reply < calls'[c].reply
      <4>1. Counted(d) /\ calls'[d] = calls[d]
        BY <2>1, <3>6
      <4>2. calls[d].reply \in Nat /\ calls[d].at <= clock
        BY <4>1 DEF IInv, Counts
      <4>3. ASSUME calls[d].at = clock
            PROVE  /\ There(db, calls[d].cmd.key, clock)
                   /\ calls[d].reply <= db[calls[d].cmd.key].it
        BY <4>1, <4>3 DEF IInv, Counts
      <4>4. CASE calls[d].cmd.key = ask.key
        <5>1. There(db, ask.key, clock) => db[ask.key].it \in Nat
          BY <3>2 DEF There
        <5> QED BY <3>3, <4>1, <4>2, <4>3, <4>4, <5>1
      <4>5. CASE calls[d].cmd.key # ask.key
        <5>1. Untouched(db, db', calls[d].cmd.key)
          BY <3>4, <4>5
        <5> QED BY <4>1, <4>2, <4>3, <4>5, <5>1 DEF There, Untouched
      <4> QED BY <4>4, <4>5
    <3>7. ASSUME NEW d \in Callers, NEW e \in Callers \ {d}, Counted(d)', Counted(e)',
                 calls'[e].cmd.key = calls'[d].cmd.key, calls'[e].at = calls'[d].at
          PROVE  calls'[e].reply # calls'[d].reply
      <4>1. CASE d = c
        BY <1>1, <1>2, <3>3, <3>6, <3>7, <4>1
      <4>2. CASE e = c
        BY <1>1, <1>2, <3>3, <3>6, <3>7, <4>2
      <4>3. CASE d # c /\ e # c
        BY <2>1, <3>7, <4>3 DEF IInv, Counts
      <4> QED BY <4>1, <4>2, <4>3
    <3>8. /\ calls'[c].at <= clock /\ There(db', calls'[c].cmd.key, clock)
          /\ calls'[c].reply <= db'[calls'[c].cmd.key].it
      BY <1>1, <1>4, <1>6, <3>3
    <3>9. ASSUME NEW d \in Callers, Counted(d)'
          PROVE  /\ calls'[d].reply \in Nat
                 /\ calls'[d].at <= clock
                 /\ calls'[d].at = clock =>
                      /\ There(db', calls'[d].cmd.key, clock)
                      /\ calls'[d].reply <= db'[calls'[d].cmd.key].it
      BY <3>3, <3>6, <3>8, <3>9
    <3> QED BY <1>5, <3>5, <3>7, <3>9 DEF Counts
  <2>3. CASE ask.op # "increment"
    <3>1. \A k \in CounterKeys : Untouched(db, db', k)
      BY <1>3, <1>4, <1>7, <2>3, CounterKept
    <3>2. ~Counted(c)'
      BY <1>4, <2>3 DEF Counted
    <3>3. ASSUME NEW d \in Callers, Counted(d)'
          PROVE  d # c /\ Counted(d) /\ calls'[d] = calls[d] /\ calls[d].cmd.key \in CounterKeys
      <4>1. d # c /\ Counted(d) /\ calls'[d] = calls[d]
        BY <2>1, <3>2, <3>3
      <4>2. PICK e \in Commands : calls[d].cmd = Ask(e, calls[d].cmd.arg)
        BY <4>1 DEF Counted, IInv, Typed, CallsTyped
      <4>3. e.op = "increment" /\ calls[d].cmd.key = e.key
        BY <4>1, <4>2 DEF Counted, Ask
      <4> QED BY <4>1, <4>3, KeyKinds
    <3>4. \A k \in CounterKeys : k \in DOMAIN db' => db'[k].it \in Nat
      BY <3>1 DEF IInv, Counts, Untouched
    <3>5. ASSUME NEW d \in Callers, Counted(d)'
          PROVE  /\ calls'[d].reply \in Nat
                 /\ calls'[d].at <= clock
                 /\ calls'[d].at = clock =>
                      /\ There(db', calls'[d].cmd.key, clock)
                      /\ calls'[d].reply <= db'[calls'[d].cmd.key].it
      <4>1. Untouched(db, db', calls[d].cmd.key) /\ Counted(d) /\ calls'[d] = calls[d]
        BY <3>1, <3>3, <3>5
      <4>2. /\ calls[d].reply \in Nat
            /\ calls[d].at <= clock
            /\ calls[d].at = clock =>
                 /\ There(db, calls[d].cmd.key, clock)
                 /\ calls[d].reply <= db[calls[d].cmd.key].it
        BY <4>1 DEF IInv, Counts
      <4> QED BY <4>1, <4>2 DEF There, Untouched
    <3>6. ASSUME NEW d \in Callers, NEW e \in Callers \ {d}, Counted(d)', Counted(e)',
                 calls'[e].cmd.key = calls'[d].cmd.key, calls'[e].at = calls'[d].at
          PROVE  calls'[e].reply # calls'[d].reply
      BY <3>3, <3>6 DEF IInv, Counts
    <3> QED BY <1>5, <3>4, <3>5, <3>6 DEF Counts
  <2> QED BY <2>2, <2>3
<1> QED BY <1>8, <1>9, <1>10, <1>12, <1>15, <1>18, <1>19 DEF IInv

(***************************************************************************)
(* The other steps, and the theorems.                                      *)
(***************************************************************************)
LEMMA QuietKeeps ==
  ASSUME IInv, UNCHANGED <<clock, db, ops, mem, taken>>, Wired',
         calls' = [c \in Callers |-> calls'[c]],
         \A c \in Callers : Left(calls[c], calls'[c])
  PROVE  IInv'
<1>1. CallsTyped' /\ Apart' /\ Fresh' /\ Gone' /\ Counts'
  BY QuietStep DEF IInv, Typed
<1>2. Typed' /\ Agree'
  BY <1>1 DEF IInv, Typed, Agree, Dated
<1> QED BY <1>1, <1>2 DEF IInv

LEMMA SendStep ==
  ASSUME IInv, NEW c \in Callers, Send(c), UNCHANGED <<mem, taken>>
  PROVE  IInv'
<1>1. UNCHANGED <<clock, db, ops>>
  BY DEF Send
<1> QED BY <1>1, SendQuiet, SendWired, QuietKeeps DEF IInv, Typed

LEMMA ConnectedStep ==
  ASSUME IInv, Connected, UNCHANGED <<mem, taken>>
  PROVE  IInv'
<1>1. UNCHANGED <<clock, db, ops, wire>>
  BY DEF Connected
<1>2. ASSUME NEW c \in Callers, calls[c].pc \in {"sent", "served"}
      PROVE  calls'[c].pc \in {"sent", "served"}
  <2>1. PICK r : r = calls[c]
    OBVIOUS
  <2>2. DOMAIN r = Fields
    BY <2>1 DEF IInv, Typed, CallsTyped
  <2>3. [r EXCEPT !.pc = "sent"].pc = "sent"
    BY <2>2 DEF Fields
  <2>4. calls'[c] = IF c \in ToSet(wire) THEN [r EXCEPT !.pc = "sent"] ELSE r
    BY <2>1, Zenon DEF Connected
  <2> QED BY <1>2, <2>1, <2>3, <2>4
<1>3. Wired'
  BY <1>1, <1>2, SameCallsWired DEF IInv
<1> QED BY <1>1, <1>3, ConnectedQuiet, QuietKeeps DEF IInv, Typed

LEMMA FlushStep ==
  ASSUME IInv, Flush, UNCHANGED <<clock, db, ops, mem, taken>>
  PROVE  IInv'
<1>1. Wired'
  BY EmptyWired DEF Flush
<1> QED BY <1>1, FlushQuiet, QuietKeeps DEF IInv, Typed

LEMMA StillStep ==
  ASSUME IInv, UNCHANGED <<clock, db, ops, mem, taken, calls, wire>>
  PROVE  IInv'
<1>1. Wired'
  BY SameCallsWired DEF IInv
<1> QED BY <1>1, StillQuiet, QuietKeeps DEF IInv, Typed

LEMMA SweepStep ==
  ASSUME IInv, Sweep
  PROVE  IInv'
<1>1. UNCHANGED <<clock, db, ops, taken, calls, wire>> /\ mem' = M!MemSweep(mem, clock)
  BY DEF Sweep, redisVars, work
<1>2. Wired'
  BY <1>1, SameCallsWired DEF IInv
<1>3. CallsTyped' /\ Apart' /\ Fresh' /\ Gone' /\ Counts'
  BY <1>1, StillQuiet, QuietStep DEF IInv, Typed
<1>4. Alike(mem', db, clock) /\ AllDated(mem', db)
  BY <1>1, AlikeSwept DEF IInv, Typed, Agree, AllDated
<1> QED BY <1>1, <1>2, <1>3, <1>4 DEF IInv, Typed, Agree, AllDated, Dated

LEMMA TickStep ==
  ASSUME IInv, Tick, UNCHANGED <<mem, taken>>
  PROVE  IInv'
<1>1. UNCHANGED <<db, ops, taken, calls, wire, mem>> /\ clock' = clock + 1
  BY DEF Tick, work
<1>2. clock \in Nat
  BY DEF IInv, Typed
<1>3. Alike(mem, db, clock + 1)
  BY <1>2, AlikeLater DEF IInv, Typed, Agree, AllDated
<1>4. Wired' /\ CallsTyped' /\ Apart' /\ Fresh' /\ Gone'
  BY <1>1 DEF IInv, Wired, Typed, CallsTyped, Apart, Fresh, Gone, Doing, Took, Holds
<1>5. Counts'
  <2>1. \A c \in Callers : Counted(c)' <=> Counted(c)
    BY <1>1 DEF Counted
  <2>2. \A c \in Callers : Counted(c) => calls[c].at <= clock /\ calls[c].at \in Nat
    BY DEF IInv, Typed, CallsTyped, Counts
  <2>3. \A c \in Callers : Counted(c) => calls[c].at <= clock + 1 /\ calls[c].at # clock + 1
    BY <1>2, <2>2
  <2> QED BY <1>1, <2>1, <2>3 DEF IInv, Counts
<1>6. Typed'
  BY <1>1, <1>2, <1>4 DEF IInv, Typed, Dated
<1> QED BY <1>1, <1>3, <1>4, <1>5, <1>6 DEF IInv, Agree

LEMMA InitHolds ==
  ASSUME Init
  PROVE  IInv
<1>1. /\ clock = 0 /\ ops = 0 /\ db = <<>> /\ taken = {} /\ wire = <<>>
      /\ calls = [c \in Callers |-> Idle]
      /\ mem.values = <<>> /\ mem.sets = <<>>
  BY DEF Init, RedisInit
<1>2. \A c \in Callers : calls[c].pc = "idle" /\ DOMAIN calls[c] = Fields /\ calls[c].at = 0
  BY <1>1 DEF Idle, Fields
<1>3. DOMAIN db = {} /\ DOMAIN mem.values = {} /\ DOMAIN mem.sets = {}
  BY <1>1
<1>4. Typed
  BY <1>1, <1>2, <1>3 DEF Typed, CallsTyped, Dated
<1>5. Agree
  BY <1>3 DEF Agree, Alike, Same, M!Live, There
<1>6. Wired
  BY <1>1 DEF Wired
<1>7. Apart /\ Fresh /\ Gone /\ Counts
  BY <1>1, <1>2, <1>3 DEF Apart, Fresh, Gone, Counts, Doing, Took, Counted
<1> QED BY <1>4, <1>5, <1>6, <1>7 DEF IInv

LEMMA StepHolds ==
  ASSUME IInv, [Next]_vars
  PROVE  IInv'
<1>1. ASSUME NEW c \in Callers, CallStep(c)
      PROVE  IInv'
  BY <1>1, ServeStep, ReturnStep, SendStep DEF CallStep
<1>2. ASSUME NEW c \in Callers, NEW cmd \in Commands, InvokeSecretly(c, cmd)
      PROVE  IInv'
  BY <1>2, InvokeStep
<1>3. CASE Connected /\ UNCHANGED <<mem, taken>>
  BY <1>3, ConnectedStep
<1>4. CASE ConnectFails /\ UNCHANGED <<mem, taken>>
  <2>1. UNCHANGED <<clock, db, ops, mem, taken>>
    BY <1>4 DEF ConnectFails
  <2>2. Flush \/ UNCHANGED <<calls, wire>>
    BY <1>4 DEF ConnectFails, work
  <2> QED BY <2>1, <2>2, FlushStep, StillStep
<1>5. CASE GivesUp
  BY <1>5, StillStep DEF GivesUp, InitialTimeout, work
<1>6. CASE Sweep
  BY <1>6, SweepStep
<1>7. CASE Drop /\ UNCHANGED <<mem, taken>>
  BY <1>7, StillStep DEF Drop, work
<1>8. CASE Close /\ UNCHANGED <<mem, taken>>
  BY <1>8, FlushStep DEF Close
<1>9. CASE Tick /\ UNCHANGED <<mem, taken>>
  BY <1>9, TickStep
<1>10. CASE UNCHANGED vars
  BY <1>10, StillStep DEF vars, redisVars, work
<1> QED BY <1>1, <1>2, <1>3, <1>4, <1>5, <1>6, <1>7, <1>8, <1>9, <1>10 DEF Next, Connection

THEOREM Invariance == Spec => []IInv
<1>1. Init => IInv
  BY InitHolds
<1>2. IInv /\ [Next]_vars => IInv'
  BY StepHolds
<1> QED BY <1>1, <1>2, PTL DEF Spec

\* After any history of calls, outages, sweeps and lapses, MemoryStore and
\* Redis answer the next call alike.
THEOREM AnswersAlike == Spec => []StoresAgree
<1>1. IInv => StoresAgree
  <2> SUFFICES ASSUME IInv, NEW cmd \in Probes
               PROVE  M!MemRun(mem, Numbered(cmd), clock).reply
                        = RedisRun(db, Numbered(cmd), clock).reply
    BY DEF StoresAgree
  <2>1. PICK c : c = Numbered(cmd)
    OBVIOUS
  <2>2. c.op = cmd.op /\ c.key = cmd.key /\ c.ttl = cmd.ttl
    BY <2>1 DEF Numbered
  <2>3. M!MemRun(mem, c, clock).reply = RedisRun(db, c, clock).reply
    BY <2>2, RepliesAlike DEF IInv, Agree
  <2> QED BY <2>1, <2>3
<1> QED BY <1>1, Invariance, PTL

\* A value is taken once, and a count is handed out once while it lasts.
THEOREM TakenOnce == Spec => []AnswersAreExclusive
<1>1. IInv => AnswersAreExclusive
  <2> SUFFICES ASSUME IInv, NEW c \in Callers, calls[c].pc = "served"
               PROVE  /\ calls[c].cmd.op = "take" /\ calls[c].reply # Null =>
                           /\ calls[c].reply \notin taken
                           /\ \A d \in Callers \ {c} :
                                ~(/\ calls[d].pc = "served" /\ calls[d].cmd.op = "take"
                                  /\ calls[d].reply = calls[c].reply)
                      /\ calls[c].cmd.op = "increment" =>
                           \A d \in Callers \ {c} :
                              /\ calls[d].pc = "served" /\ calls[d].cmd.op = "increment"
                              /\ calls[d].cmd.key = calls[c].cmd.key
                              /\ calls[d].at = calls[c].at
                              => calls[d].reply # calls[c].reply
    BY DEF AnswersAreExclusive
  <2>1. CASE calls[c].cmd.op = "take" /\ calls[c].reply # Null
    BY <2>1 DEF IInv, Gone, Took
  <2>2. CASE calls[c].cmd.op = "increment"
    BY <2>2 DEF IInv, Counts, Counted
  <2> QED BY <2>1, <2>2
<1> QED BY <1>1, Invariance, PTL
===============================================================================
