----------------------------- MODULE RateLimiter -----------------------------
(***************************************************************************)
(* RateLimiter and its middleware (server, ratelimit/limiter.ts and        *)
(* middleware.ts): a sliding-window counter per bucket, one bucket for the *)
(* address of a request and one for the account it names.  A request reads *)
(* the clock once and consumes its buckets in parallel, each with two      *)
(* store commands.  The clock is in ticks; a second is one tick.           *)
(***************************************************************************)
EXTENDS Integers, FiniteSets, Sequences

CONSTANTS
    Requests,           \* requests that may be in flight together
    Ips, Accounts,      \* the values buckets are keyed by
    PerIp, PerAccount,  \* the limits
    Window,             \* windowMs
    OnStoreError,       \* "closed" or "open"
    Stall,              \* ticks a request may be in flight
    MaxClock,           \* bound on the clock
    MaxRequests,        \* bound on the requests of a behaviour
    MaxFailures         \* bound on store commands that fail

Buckets == Ips \cup Accounts

ASSUME ConstantsAssumption ==
    /\ Ips \cap Accounts = {}
    /\ PerIp \in Nat \ {0} /\ PerAccount \in Nat \ {0} /\ Window \in Nat \ {0}
    /\ OnStoreError \in {"closed", "open"}
    /\ Stall \in Nat /\ MaxClock \in Nat /\ MaxRequests \in Nat /\ MaxFailures \in Nat

VARIABLES
    clock,
    count,      \* KEYS.rateLimit: value and expiry, by bucket and window
    request,    \* the requests in flight
    admitted,   \* history: the requests a bucket let through, in order
    straddled,  \* history: a request counted itself in a window gone by
    requests, failures

vars == <<clock, count, request, admitted, straddled, requests, failures>>

Windows == 0 .. MaxClock \div Window
Limit(b) == IF b \in Ips THEN PerIp ELSE PerAccount
WindowOf(t) == t \div Window

\* Mutant: an entry is kept for one window only.
TtlOne == Window

\* Two windows are read, and a third allows for skew.
Ttl == 3 * Window

Verdicts == {"none", "allowed", "refused", "error"}
NoRequest == [pc |-> "idle", at |-> 0,
              stage |-> [b \in Buckets |-> "none"],
              current |-> [b \in Buckets |-> 0],
              verdict |-> [b \in Buckets |-> "none"]]

\* When a request let through arrived, and what its increment returned.
Admission == [at : 0 .. MaxClock, place : Nat]

TypeOK ==
    /\ clock \in 0 .. MaxClock /\ requests \in Nat /\ failures \in Nat /\ straddled \in BOOLEAN
    /\ count \in [Buckets -> [Windows -> [value : Nat, until : Nat]]]
    /\ admitted \in [Buckets -> Seq(Admission)]
    /\ request \in [Requests ->
          [pc : {"idle", "consume", "answered"}, at : 0 .. MaxClock,
           stage : [Buckets -> {"none", "increment", "previous"}],
           current : [Buckets -> Nat], verdict : [Buckets -> Verdicts]]]

Init ==
    /\ clock = 0 /\ requests = 0 /\ failures = 0 /\ straddled = FALSE
    /\ count = [b \in Buckets |-> [w \in Windows |-> [value |-> 0, until |-> 0]]]
    /\ request = [r \in Requests |-> NoRequest]
    /\ admitted = [b \in Buckets |-> <<>>]

Value(b, w) == IF clock < count[b][w].until THEN count[b][w].value ELSE 0
Fail == failures < MaxFailures /\ failures' = failures + 1

-----------------------------------------------------------------------------
\* A request from an address, for an account or for none.
Arrive(r, named) ==
    /\ request[r].pc = "idle"
    /\ requests < MaxRequests /\ requests' = requests + 1
    /\ request' = [request EXCEPT ![r] =
          [NoRequest EXCEPT
             !.pc = "consume", !.at = clock,
             !.stage = [b \in Buckets |-> IF b \in named THEN "increment" ELSE "none"]]]
    /\ UNCHANGED <<clock, count, admitted, straddled, failures>>

Named == {{i} : i \in Ips} \cup {{i, a} : i \in Ips, a \in Accounts}

\* Mutant: the value is the one before the increment.
IncrementAfter(r, b) ==
    /\ request[r].stage[b] = "increment"
    /\ LET w == WindowOf(request[r].at)
           n == Value(b, w)
       IN /\ count' = [count EXCEPT ![b][w] = [value |-> n + 1, until |-> clock + Ttl]]
          /\ request' = [request EXCEPT ![r].stage[b] = "previous",
                                        ![r].current[b] = n]
    /\ UNCHANGED <<clock, admitted, straddled, requests, failures>>

\* store.increment() of the window the request arrived in.
Increment(r, b) ==
    /\ request[r].stage[b] = "increment"
    /\ LET w == WindowOf(request[r].at)
           n == Value(b, w) + 1
       IN /\ count' = [count EXCEPT ![b][w] = [value |-> n, until |-> clock + Ttl]]
          /\ request' = [request EXCEPT ![r].stage[b] = "previous",
                                        ![r].current[b] = n]
    /\ UNCHANGED <<clock, admitted, straddled, requests, failures>>

\* The previous window weighs as much as is left of this one.
Weighted(r, previous) == previous * (Window - (request[r].at % Window))

Previous(r, b) ==
    LET w == WindowOf(request[r].at) IN IF w = 0 THEN 0 ELSE Value(b, w - 1)

Judge(r, b, v) ==
    request' = [request EXCEPT ![r].stage[b] = "none", ![r].verdict[b] = v]

Estimate(r, b) ==
    /\ request[r].stage[b] = "previous"
    /\ Judge(r, b, IF Weighted(r, Previous(r, b)) + request[r].current[b] * Window
                        <= Limit(b) * Window
                     THEN "allowed" ELSE "refused")
    /\ UNCHANGED <<clock, count, admitted, straddled, requests, failures>>

\* A command fails; an increment may have been done all the same.
StoreFails(r, b) ==
    /\ request[r].stage[b] # "none"
    /\ Fail
    /\ Judge(r, b, IF OnStoreError = "open" THEN "allowed" ELSE "error")
    /\ \/ UNCHANGED count
       \/ /\ request[r].stage[b] = "increment"
          /\ LET w == WindowOf(request[r].at)
             IN count' = [count EXCEPT ![b][w] =
                            [value |-> Value(b, w) + 1, until |-> clock + Ttl]]
    /\ UNCHANGED <<clock, admitted, straddled, requests>>

-----------------------------------------------------------------------------
(***************************************************************************)
(* The middleware's answer, once Promise.all has settled.                  *)
(***************************************************************************)
Judged(r, v) == {b \in Buckets : request[r].verdict[b] = v}
Settled(r) == request[r].pc = "consume" /\ \A b \in Buckets : request[r].stage[b] = "none"

Done(r) == request' = [request EXCEPT ![r] = NoRequest]

Admit(r) ==
    /\ Settled(r)
    /\ Judged(r, "refused") = {} /\ Judged(r, "error") = {}
    /\ Done(r)
    /\ admitted' = [b \in Buckets |->
          IF b \in Judged(r, "allowed")
            THEN Append(admitted[b], [at |-> request[r].at, place |-> request[r].current[b]])
            ELSE admitted[b]]
    /\ UNCHANGED <<clock, count, straddled, requests, failures>>

\* 429.
Refuse(r) ==
    /\ Settled(r)
    /\ Judged(r, "refused") # {} /\ Judged(r, "error") = {}
    /\ Done(r)
    /\ UNCHANGED <<clock, count, admitted, straddled, requests, failures>>

\* Promise.all rejects as soon as one bucket does: 503.  The other buckets'
\* commands go on; the request itself is over.
Reject(r) ==
    /\ request[r].pc = "consume" /\ Judged(r, "error") # {}
    /\ request' = [request EXCEPT ![r].pc = "answered"]
    /\ UNCHANGED <<clock, count, admitted, straddled, requests, failures>>

Drain(r) ==
    /\ request[r].pc = "answered"
    /\ \A b \in Buckets : request[r].stage[b] = "none"
    /\ Done(r)
    /\ UNCHANGED <<clock, count, admitted, straddled, requests, failures>>

Tick ==
    /\ clock < MaxClock
    /\ \A r \in Requests : request[r].pc # "idle" => clock < request[r].at + Stall
    /\ clock' = clock + 1
    /\ straddled' = (straddled \/ \E r \in Requests, b \in Buckets :
          request[r].stage[b] = "increment" /\ WindowOf(request[r].at) # WindowOf(clock + 1))
    /\ UNCHANGED <<count, request, admitted, requests, failures>>

Next ==
    \/ \E r \in Requests :
          \/ \E named \in Named : Arrive(r, named)
          \/ \E b \in Buckets : Increment(r, b) \/ Estimate(r, b) \/ StoreFails(r, b)
          \/ Admit(r) \/ Refuse(r) \/ Reject(r) \/ Drain(r)
    \/ Tick

Spec == Init /\ [][Next]_vars

-----------------------------------------------------------------------------
(***************************************************************************)
(* Properties.                                                             *)
(***************************************************************************)
\* How many requests that arrived from one tick to another a bucket let through.
Admitted(b, from, to) ==
    Cardinality({k \in DOMAIN admitted[b] : admitted[b][k].at \in from .. to})

Start(w) == w * Window
End(w) == Start(w) + Window - 1

\* Whatever the concurrency and the number of addresses an account is tried
\* from, no bucket lets more than its limit through in a window, unless the
\* limiter fails open: "two concurrent callers must never receive the same
\* value, or a rate limit becomes a suggestion" (store/types.ts:69-71).
WindowLimit ==
    OnStoreError = "closed" =>
        \A b \in Buckets, w \in Windows : Admitted(b, Start(w), End(w)) <= Limit(b)

\* "Bounded memory, no boundary doubling" (limiter.ts:33-35): what is let
\* through e ticks into a window, together with the previous window's share
\* that still counts, stays within the limit.  A request that arrives in one
\* window and counts itself only in the next may have been overlooked by others.
NoDoubling ==
    OnStoreError = "closed" /\ ~straddled =>
        \A b \in Buckets : \A k \in DOMAIN admitted[b] :
            LET t == admitted[b][k].at
                w == WindowOf(t)
            IN Admitted(b, Start(w - 1), End(w - 1)) * (Window - (t % Window))
                 + Admitted(b, Start(w), t) * Window <= Limit(b) * Window
=============================================================================
