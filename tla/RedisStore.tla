------------------------------ MODULE RedisStore ------------------------------
(***************************************************************************)
(* RedisStore (server, store/redis.ts) over its ioredis connection.  A     *)
(* call passes the gate of the first connection, is sent, served by Redis, *)
(* and answered.  The connection may drop at any point in between: ioredis *)
(* keeps what was in flight and sends it again once it has reconnected, up *)
(* to maxRetriesPerRequest attempts, so a command can be served twice.     *)
(* Redis serves one command, or one MULTI block, at a time, and answers in *)
(* the order of the connection.                                            *)
(***************************************************************************)
EXTENDS Naturals, Sequences, SequencesExt

CONSTANTS
    Callers,
    Commands,       \* the calls made: [op, key, ttl] records
    Null, Never,
    NoCommand,
    RetryLimit,     \* retryStrategy gives up after this many attempts (5)
    PerRequest,     \* maxRetriesPerRequest (2)
    MaxOps,         \* bound on calls; a value written is the call's number
    MaxDrops,       \* bound on connections lost
    MaxClock        \* bound on the clock, in seconds

VARIABLES
    clock,
    db,             \* Redis's keys: what is there and when it expires
    status,         \* the ioredis client's status
    attempts,       \* connection attempts since it was last ready
    gate,           \* #ready
    closed,
    calls,          \* the calls under way
    wire,           \* the callers whose command is in flight, in its order
    ops, drops

connection == <<status, attempts, gate, closed, drops>>
work == <<calls, wire>>
redisVars == <<clock, db, connection, work, ops>>

Idle == [pc |-> "idle", cmd |-> NoCommand, reply |-> Null, at |-> 0]

RedisInit ==
    /\ clock = 0 /\ db = <<>>
    /\ status = "connecting" /\ attempts = 0 /\ gate = "pending" /\ closed = FALSE
    /\ calls = [c \in Callers |-> Idle] /\ wire = <<>>
    /\ ops = 0 /\ drops = 0

-----------------------------------------------------------------------------
(***************************************************************************)
(* What Redis does: [db, reply] for each call.                             *)
(***************************************************************************)
There(d, key, now) ==
    key \in DOMAIN d /\ (d[key].expiresAt = Never \/ now < d[key].expiresAt)
At(d, key, now, absent) == IF There(d, key, now) THEN d[key].it ELSE absent
Without(d, key) == Restrict(d, DOMAIN d \ {key})
With(d, key, it, until) ==
    [k \in DOMAIN d \cup {key} |->
        IF k = key THEN [it |-> it, expiresAt |-> until] ELSE d[k]]

Served(d, reply) == [db |-> d, reply |-> reply]
Expiry(ttl, now) == IF ttl = Never THEN Never ELSE now + ttl
Dead(ttl) == ttl # Never /\ ttl = 0

Get(d, c, now) == Served(d, At(d, c.key, now, Null))

Set(d, c, now) ==
    Served(IF Dead(c.ttl) THEN Without(d, c.key)
           ELSE With(d, c.key, c.arg, Expiry(c.ttl, now)), Null)
SetIfAbsent(d, c, now) ==
    LET stores == ~There(d, c.key, now) /\ ~Dead(c.ttl)
    IN  Served(IF stores THEN With(d, c.key, c.arg, Expiry(c.ttl, now)) ELSE d, stores)
GetDel(d, c, now) == Served(Without(d, c.key), At(d, c.key, now, Null))
Incr(d, c, now) ==
    IF Dead(c.ttl) THEN Served(d, 0)
    ELSE LET n == At(d, c.key, now, 0) + 1
         IN  Served(With(d, c.key, n, Expiry(c.ttl, now)), n)
Del(d, c, now) == Served(Without(d, c.key), Null)
Exists(d, c, now) == Served(d, There(d, c.key, now))
\* EXPIRE follows SADD only where the caller gives a TTL.
SAdd(d, c, now) ==
    IF Dead(c.ttl) THEN Served(d, Null)
    ELSE Served(With(d, c.key, At(d, c.key, now, {}) \cup {c.arg},
                     IF c.ttl # Never THEN now + c.ttl
                     ELSE IF There(d, c.key, now) THEN d[c.key].expiresAt ELSE Never), Null)
SRem(d, c, now) ==
    LET left == At(d, c.key, now, {}) \ {c.arg}
    IN  Served(IF left = {} THEN Without(d, c.key)
               ELSE With(d, c.key, left, d[c.key].expiresAt), Null)
SMembers(d, c, now) == Served(d, At(d, c.key, now, {}))

RedisRun(d, c, now) ==
    CASE c.op = "get" -> Get(d, c, now)
      [] c.op = "set" -> Set(d, c, now)
      [] c.op = "setIfAbsent" -> SetIfAbsent(d, c, now)
      [] c.op = "take" -> GetDel(d, c, now)
      [] c.op = "increment" -> Incr(d, c, now)
      [] c.op = "delete" -> Del(d, c, now)
      [] c.op = "exists" -> Exists(d, c, now)
      [] c.op = "sAdd" -> SAdd(d, c, now)
      [] c.op = "sRemove" -> SRem(d, c, now)
      [] c.op = "sMembers" -> SMembers(d, c, now)

-----------------------------------------------------------------------------
(***************************************************************************)
(* Calls.                                                                  *)
(***************************************************************************)
Step(c, r) == calls' = [calls EXCEPT ![c] = r]

\* What a set or a sAdd writes is told apart by the number of the call.
Invoke(c, cmd) ==
    /\ calls[c] = Idle /\ ~closed
    /\ ops < MaxOps /\ ops' = ops + 1
    /\ Step(c, [Idle EXCEPT !.pc = "gate",
                 !.cmd = [op |-> cmd.op, key |-> cmd.key, ttl |-> cmd.ttl,
                          arg |-> IF cmd.op \in {"sAdd", "sRemove"} THEN "member"
                                                                    ELSE ops']])
    /\ UNCHANGED <<clock, db, connection, wire>>

\* Mutant: a command waits in ioredis's queue until there is a connection.
SendQueued(c) ==
    /\ calls[c].pc = "gate"
    /\ gate = "broken" \/ (gate = "open" /\ status = "ready")
    /\ IF gate = "open"
         THEN /\ Step(c, [calls[c] EXCEPT !.pc = "sent"])
              /\ wire' = Append(wire, c)
         ELSE Step(c, Idle) /\ UNCHANGED wire
    /\ UNCHANGED <<clock, db, connection, ops>>

\* #withClient() past the gate: without an offline queue a command is written
\* to the socket or rejected.
Send(c) ==
    /\ calls[c].pc = "gate" /\ gate # "pending"
    /\ IF gate = "open" /\ status = "ready"
         THEN /\ Step(c, [calls[c] EXCEPT !.pc = "sent"])
              /\ wire' = Append(wire, c)
         ELSE Step(c, Idle) /\ UNCHANGED wire
    /\ UNCHANGED <<clock, db, connection, ops>>

\* The first command of the connection that has not been served yet.
NextServed(c) ==
    /\ status = "ready" /\ calls[c].pc = "sent"
    /\ c = SelectSeq(wire, LAMBDA d : calls[d].pc = "sent")[1]

\* Mutant: take() is a GET, and its DEL follows when the answer is there.
ServePeeking(c) ==
    /\ NextServed(c)
    /\ LET done == RedisRun(db, calls[c].cmd, clock)
       IN  /\ db' = IF calls[c].cmd.op = "take" THEN db ELSE done.db
           /\ Step(c, [calls[c] EXCEPT !.pc = "served", !.reply = done.reply, !.at = clock])
    /\ UNCHANGED <<clock, connection, wire, ops>>

Serve(c) ==
    /\ NextServed(c)
    /\ LET done == RedisRun(db, calls[c].cmd, clock)
       IN  /\ db' = done.db
           /\ Step(c, [calls[c] EXCEPT !.pc = "served", !.reply = done.reply, !.at = clock])
    /\ UNCHANGED <<clock, connection, wire, ops>>

Return(c) ==
    /\ status = "ready" /\ wire # <<>> /\ c = Head(wire)
    /\ calls[c].pc = "served"
    /\ Step(c, Idle)
    /\ wire' = Tail(wire)
    /\ UNCHANGED <<clock, db, connection, ops>>

-----------------------------------------------------------------------------
(***************************************************************************)
(* The connection.                                                         *)
(***************************************************************************)
\* Everything in flight is rejected.
Flush ==
    /\ wire' = <<>>
    /\ calls' = [c \in Callers |-> IF c \in ToSet(wire) THEN Idle ELSE calls[c]]

Drop ==
    /\ status = "ready" /\ drops < MaxDrops
    /\ drops' = drops + 1
    /\ status' = "reconnecting"
    /\ UNCHANGED <<clock, db, attempts, gate, closed, work, ops>>

\* What was in flight is sent again, served before or not.
Connected ==
    /\ status \in {"connecting", "reconnecting"}
    /\ status' = "ready" /\ attempts' = 0
    /\ gate' = IF gate = "pending" THEN "open" ELSE gate
    /\ calls' = [c \in Callers |-> IF c \in ToSet(wire)
                                     THEN [calls[c] EXCEPT !.pc = "sent"] ELSE calls[c]]
    /\ UNCHANGED <<clock, db, closed, wire, ops, drops>>

\* 'end': the client has stopped trying.
End == gate' = IF gate = "pending" THEN "broken" ELSE gate

ConnectFails ==
    /\ status \in {"connecting", "reconnecting"}
    /\ attempts' = attempts + 1
    /\ IF attempts' > RetryLimit
         THEN status' = "end" /\ End /\ Flush
         ELSE /\ UNCHANGED <<status, gate>>
              /\ IF attempts' % (PerRequest + 1) = 0 THEN Flush ELSE UNCHANGED work
    /\ UNCHANGED <<clock, db, closed, ops, drops>>

\* #awaitInitialConnection(): ten seconds are over.
InitialTimeout ==
    /\ gate = "pending"
    /\ gate' = "broken"
    /\ UNCHANGED <<clock, db, status, attempts, closed, work, ops, drops>>

Close ==
    /\ ~closed
    /\ closed' = TRUE
    /\ status' = "end" /\ End /\ Flush
    /\ UNCHANGED <<clock, db, attempts, ops, drops>>

Tick ==
    /\ clock < MaxClock
    /\ clock' = clock + 1
    /\ UNCHANGED <<db, connection, work, ops>>
=============================================================================
