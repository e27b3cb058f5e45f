------------------------------- MODULE Stores -------------------------------
(***************************************************************************)
(* The two stores under the same calls: whatever Redis serves, MemoryStore *)
(* is asked at that moment too.  The callers keep to what the rest of the  *)
(* server does: a key is a value, a counter or a set and stays one, what   *)
(* is added to a set has a TTL, and the key of a value to be taken is a    *)
(* secret, handed out once its write has returned.                         *)
(***************************************************************************)
EXTENDS RedisStore

CONSTANT
    Probes      \* the calls for which the two stores are compared

M == INSTANCE MemoryStore

\* The keys that some call of these names is made on.
KeysOf(names) == {cmd.key : cmd \in {x \in Commands \cup Probes : x.op \in names}}
ValueKeys == KeysOf({"set", "setIfAbsent", "take"})
CounterKeys == KeysOf({"increment"})
SetKeys == KeysOf({"sAdd", "sRemove", "sMembers"})
ReadKeys == KeysOf({"get", "exists"})

ASSUME ConstantsAssumption == Null \notin Nat /\ Never \notin Nat

\* A key is of one kind, only what a key of its kind offers is asked of it, no
\* counter is deleted, and counters and sets have a TTL (one-time.ts:225,
\* limiter.ts:75, manager.ts:211, opaque.ts:156).
ASSUME CallsAssumption ==
    /\ \A cmd \in Commands \cup Probes :
         /\ cmd.ttl \in Nat \cup {Never}
         /\ cmd.op \in {"get", "set", "setIfAbsent", "take", "increment", "delete",
                       "exists", "sAdd", "sRemove", "sMembers"}
    /\ ValueKeys \cap CounterKeys = {}
    /\ (ValueKeys \cup CounterKeys \cup ReadKeys) \cap SetKeys = {}
    /\ KeysOf({"delete"}) \cap CounterKeys = {}
    /\ \A cmd \in Commands :
         /\ cmd.op = "sAdd" => cmd.ttl # Never
         /\ cmd.op = "increment" => cmd.ttl \in Nat \ {0}

VARIABLES
    mem,        \* the maps of the MemoryStore
    taken       \* history: the values take() has answered

vars == <<redisVars, mem, taken>>

Init == RedisInit /\ mem = [values |-> <<>>, sets |-> <<>>] /\ taken = {}

ServeBoth(c) ==
    /\ Serve(c)
    /\ mem' = M!MemRun(mem, calls[c].cmd, clock).mem
    /\ UNCHANGED taken

ReturnNoted(c) ==
    /\ Return(c)
    /\ taken' = IF calls[c].cmd.op = "take" THEN taken \cup ({calls[c].reply} \ {Null})
                                            ELSE taken
    /\ UNCHANGED mem

Writes == {"set", "setIfAbsent"}
InvokeSecretly(c, cmd) ==
    /\ \A d \in Callers : calls[d].pc # "idle" =>
         ~(/\ {cmd.op, calls[d].cmd.op} \cap Writes # {}
           /\ "take" \in {cmd.op, calls[d].cmd.op})
    /\ Invoke(c, cmd)
    /\ UNCHANGED <<mem, taken>>

Sweep ==
    /\ mem' = M!MemSweep(mem, clock) /\ mem' # mem
    /\ UNCHANGED <<redisVars, taken>>

CallStep(c) == ServeBoth(c) \/ ReturnNoted(c) \/ (Send(c) /\ UNCHANGED <<mem, taken>>)
Connection == (Connected \/ ConnectFails) /\ UNCHANGED <<mem, taken>>
GivesUp == InitialTimeout /\ UNCHANGED <<mem, taken>>

Next ==
    \/ \E c \in Callers : CallStep(c) \/ \E cmd \in Commands : InvokeSecretly(c, cmd)
    \/ Connection \/ GivesUp \/ Sweep
    \/ (Drop \/ Close \/ Tick) /\ UNCHANGED <<mem, taken>>

\* Redis answers what it is asked, ioredis goes on trying to connect until it
\* succeeds or gives up, and the first connection's timer runs out.
Spec == Init /\ [][Next]_vars
FairSpec ==
    /\ Spec
    /\ \A c \in Callers : WF_vars(CallStep(c))
    /\ WF_vars(Connection) /\ WF_vars(GivesUp)

-----------------------------------------------------------------------------
(***************************************************************************)
(* Properties.                                                             *)
(***************************************************************************)
Numbered(cmd) == [op |-> cmd.op, key |-> cmd.key, ttl |-> cmd.ttl,
                  arg |-> IF cmd.op \in {"sAdd", "sRemove"} THEN "member" ELSE 0]

\* After any history of calls, the next call is answered the same by both
\* stores: what is developed and tested on MemoryStore holds on Redis, although
\* one keeps expired entries until they are touched and keeps sets apart from
\* values (memory.ts:63-74, redis.ts:146-240).
StoresAgree ==
    \A cmd \in Probes :
        M!MemRun(mem, Numbered(cmd), clock).reply
            = RedisRun(db, Numbered(cmd), clock).reply

\* "Two concurrent requests presenting the same one-time value cannot both
\* succeed" and "two concurrent callers must never receive the same value"
\* (types.ts:52-54, 67-69), also when a lost connection has had their commands
\* served twice: no value is answered to two takes, and increments of a counter
\* under way together have different answers while it has not lapsed.
AnswersAreExclusive ==
    \A c \in Callers : calls[c].pc = "served" =>
        /\ calls[c].cmd.op = "take" /\ calls[c].reply # Null =>
             /\ calls[c].reply \notin taken
             /\ \A d \in Callers \ {c} :
                  ~(/\ calls[d].pc = "served" /\ calls[d].cmd.op = "take"
                    /\ calls[d].reply = calls[c].reply)
        /\ calls[c].cmd.op = "increment" =>
             \A d \in Callers \ {c} :
                /\ calls[d].pc = "served" /\ calls[d].cmd.op = "increment"
                /\ calls[d].cmd.key = calls[c].cmd.key /\ calls[d].at = calls[c].at
                => calls[d].reply # calls[c].reply

\* No call hangs: through a slow first connection, an outage or close() every
\* command is answered or rejected (redis.ts:45-54, 111-139).
EveryCommandSettles ==
    \A c \in Callers : calls[c].pc # "idle" ~> calls[c].pc = "idle"
=============================================================================
