-------------------------- MODULE RateLimiterProofs --------------------------
(***************************************************************************)
(* The limits hold for every number of requests, addresses and accounts.   *)
(* The argument is about places: an increment returns a place in its       *)
(* window that no other increment of the bucket has, what is let through   *)
(* has a place within the limit, and so there are no more admissions than  *)
(* places.  Around a window's end the place comes with the estimate that   *)
(* was made for it, and the previous window's counter is final by then.    *)
(***************************************************************************)
EXTENDS RateLimiter, TLAPS, FiniteSetTheorems

-----------------------------------------------------------------------------
(***************************************************************************)
(* Windows and records.                                                    *)
(***************************************************************************)
Stages == [Buckets -> {"none", "increment", "previous"}]
Record == [pc : {"idle", "consume", "answered"}, at : 0 .. MaxClock,
           stage : Stages, current : [Buckets -> Nat], verdict : [Buckets -> Verdicts]]

LEMMA WindowArithmetic ==
  ASSUME NEW t \in Nat
  PROVE  /\ WindowOf(t) \in Nat
         /\ t % Window \in 0 .. Window - 1
         /\ t = Start(WindowOf(t)) + (t % Window)
  BY ConstantsAssumption, SMT DEF WindowOf, Start

LEMMA WindowsApart ==
  ASSUME NEW v \in Nat, NEW w \in Nat
  PROVE  /\ Start(v) \in Nat
         /\ v < w => Start(v) + Window <= Start(w)
         /\ Start(w + 1) = Start(w) + Window
<1> USE ConstantsAssumption DEF Start
<1>1. Start(v) \in Nat /\ Start(w + 1) = Start(w) + Window
  BY SMT
<1>2. ASSUME v < w
      PROVE  Start(v) + Window <= Start(w)
  <2>1. PICK k \in Nat : w = v + 1 + k
    BY <1>2, SMT
  <2>2. w * Window = v * Window + Window + k * Window
    BY <2>1, SMT
  <2>3. k * Window \in Nat
    BY SMT
  <2> QED BY <2>2, <2>3, SMT
<1> QED BY <1>1, <1>2

LEMMA StartType ==
  ASSUME NEW w \in Nat
  PROVE  Start(w) \in Nat
  BY ConstantsAssumption, SMT DEF Start

LEMMA WindowsMonotone ==
  ASSUME NEW t \in Nat, NEW u \in Nat, t <= u
  PROVE  WindowOf(t) <= WindowOf(u)
<1>1. PICK v \in Nat, m \in 0 .. Window - 1 : v = WindowOf(t) /\ t = Start(v) + m
  BY WindowArithmetic
<1>2. PICK w \in Nat, n \in 0 .. Window - 1 : w = WindowOf(u) /\ u = Start(w) + n
  BY WindowArithmetic
<1>3. w < v => Start(w) + Window <= Start(v)
  BY WindowsApart
<1>4. Start(v) \in Nat /\ Start(w) \in Nat /\ Window \in Nat
  BY WindowsApart, ConstantsAssumption
<1> QED BY <1>1, <1>2, <1>3, <1>4

LEMMA WindowIs ==
  ASSUME NEW t \in Nat, NEW w \in Nat, t \in Start(w) .. End(w)
  PROVE  WindowOf(t) = w
<1>1. PICK v \in Nat, m \in 0 .. Window - 1 : v = WindowOf(t) /\ t = Start(v) + m
  BY WindowArithmetic
<1>2. Start(v) \in Nat /\ Start(w) \in Nat /\ Window \in Nat
  BY WindowsApart, ConstantsAssumption
<1>3. Start(w) <= t /\ t < Start(w) + Window
  BY <1>2 DEF End
<1>4. v < w => Start(v) + Window <= Start(w)
  BY WindowsApart
<1>5. w < v => Start(w) + Window <= Start(v)
  BY WindowsApart
<1> QED BY <1>1, <1>2, <1>3, <1>4, <1>5

LEMMA WindowInRange ==
  ASSUME NEW t \in 0 .. MaxClock
  PROVE  t \in Nat /\ WindowOf(t) \in Windows
<1>1. t \in Nat /\ MaxClock \in Nat /\ t <= MaxClock
  BY ConstantsAssumption
<1>2. WindowOf(t) \in Nat /\ WindowOf(MaxClock) \in Nat /\ WindowOf(t) <= WindowOf(MaxClock)
  BY <1>1, WindowArithmetic, WindowsMonotone
<1> QED BY <1>1, <1>2 DEF Windows, WindowOf

LEMMA WindowBefore ==
  ASSUME NEW w \in Windows, w # 0
  PROVE  w - 1 \in Windows
<1>1. WindowOf(MaxClock) \in Nat
  BY WindowArithmetic, ConstantsAssumption
<1>2. PICK n \in Nat : n = MaxClock \div Window
  BY <1>1 DEF WindowOf
<1> QED BY <1>2 DEF Windows

LEMMA RequestType ==
  ASSUME TypeOK, NEW r \in Requests
  PROVE  /\ request[r] \in Record
         /\ request[r].at \in 0 .. MaxClock /\ request[r].at \in Nat
         /\ WindowOf(request[r].at) \in Windows
         /\ \A b \in Buckets : request[r].current[b] \in Nat
<1>1. request[r] \in Record
  BY DEF TypeOK, Record, Stages
<1> QED BY <1>1, WindowInRange DEF Record

LEMMA RequestTypeNext ==
  ASSUME TypeOK', NEW r \in Requests
  PROVE  /\ request'[r].at \in Nat /\ WindowOf(request'[r].at) \in Windows
         /\ \A b \in Buckets : request'[r].current[b] \in Nat
<1>1. request'[r] \in Record
  BY DEF TypeOK, Record, Stages
<1> QED BY <1>1, WindowInRange DEF Record

LEMMA ClockType == TypeOK => clock \in Nat /\ clock \in 0 .. MaxClock
<1> SUFFICES ASSUME TypeOK PROVE clock \in Nat /\ clock \in 0 .. MaxClock
  OBVIOUS
<1>1. clock \in 0 .. MaxClock
  BY DEF TypeOK
<1> QED BY <1>1, ConstantsAssumption

LEMMA CounterType ==
  ASSUME TypeOK, NEW b \in Buckets, NEW w \in Windows
  PROVE  count[b][w].value \in Nat /\ count[b][w].until \in Nat /\ w \in Nat
<1>1. count[b][w] \in [value : Nat, until : Nat]
  BY DEF TypeOK
<1> QED BY <1>1 DEF Windows

LEMMA CounterTypeNext ==
  ASSUME TypeOK', NEW b \in Buckets, NEW w \in Windows
  PROVE  count'[b][w].value \in Nat
<1>1. count'[b][w] \in [value : Nat, until : Nat]
  BY DEF TypeOK
<1> QED BY <1>1

LEMMA ValueType ==
  ASSUME TypeOK, NEW b \in Buckets, NEW w \in Windows
  PROVE  Value(b, w) \in Nat
  BY DEF TypeOK, Value

Numbered(q, b, n) == [q EXCEPT !.stage[b] = "previous", !.current[b] = n]

LEMMA NumberedRecord ==
  ASSUME NEW q \in Record, NEW b \in Buckets, NEW n \in Nat,
         NEW p, p = Numbered(q, b, n)
  PROVE  /\ p \in Record /\ p.pc = q.pc /\ p.at = q.at /\ p.verdict = q.verdict
         /\ p.stage = [q.stage EXCEPT ![b] = "previous"]
         /\ p.current = [q.current EXCEPT ![b] = n]
<1> DEFINE st == [q.stage EXCEPT ![b] = "previous"]
           cu == [q.current EXCEPT ![b] = n]
<1>1. p = [q EXCEPT !.stage = st, !.current = cu]
  BY Zenon DEF Numbered
<1>2. st \in Stages /\ cu \in [Buckets -> Nat]
  BY DEF Record, Stages
<1> HIDE DEF st, cu
<1>3. LET x == [q EXCEPT !.stage = st, !.current = cu] IN
        /\ x \in Record /\ x.pc = q.pc /\ x.at = q.at /\ x.verdict = q.verdict
        /\ x.stage = st /\ x.current = cu
  BY <1>2 DEF Record
<1> QED BY <1>1, <1>3 DEF st, cu

Settle(q, b, v) == [q EXCEPT !.stage[b] = "none", !.verdict[b] = v]

LEMMA JudgedRecord ==
  ASSUME NEW q \in Record, NEW b \in Buckets, NEW v \in Verdicts,
         NEW p, p = Settle(q, b, v)
  PROVE  /\ p \in Record /\ p.pc = q.pc /\ p.at = q.at /\ p.current = q.current
         /\ p.stage = [q.stage EXCEPT ![b] = "none"]
         /\ p.verdict = [q.verdict EXCEPT ![b] = v]
<1> DEFINE st == [q.stage EXCEPT ![b] = "none"]
           ve == [q.verdict EXCEPT ![b] = v]
<1>1. p = [q EXCEPT !.stage = st, !.verdict = ve]
  BY Zenon DEF Settle
<1>2. st \in Stages /\ ve \in [Buckets -> Verdicts]
  BY DEF Record, Stages
<1> HIDE DEF st, ve
<1>3. LET x == [q EXCEPT !.stage = st, !.verdict = ve] IN
        /\ x \in Record /\ x.pc = q.pc /\ x.at = q.at /\ x.current = q.current
        /\ x.stage = st /\ x.verdict = ve
  BY <1>2 DEF Record
<1> QED BY <1>1, <1>3 DEF st, ve

LEMMA NoRequestType == NoRequest \in Record
  BY ConstantsAssumption DEF NoRequest, Record, Stages, Verdicts

\* The request of a step gets a record, the others keep theirs.
LEMMA Replaced ==
  ASSUME TypeOK, NEW r \in Requests, NEW p \in Record,
         request' = [request EXCEPT ![r] = p]
  PROVE  /\ request' \in [Requests -> Record]
         /\ request'[r] = p
         /\ \A s \in Requests : s # r => request'[s] = request[s]
  BY DEF TypeOK, Record, Stages

\* What each step of a request does to its record.
LEMMA ArriveEffect ==
  ASSUME TypeOK, NEW r \in Requests, NEW named \in Named, Arrive(r, named)
  PROVE  /\ request' \in [Requests -> Record]
         /\ \A s \in Requests : s # r => request'[s] = request[s]
         /\ request'[r].pc = "consume" /\ request'[r].at = clock
         /\ request'[r].current = NoRequest.current
         /\ request'[r].verdict = NoRequest.verdict
         /\ \A b \in Buckets : request'[r].stage[b] \in {"none", "increment"}
<1> DEFINE st == [b \in Buckets |-> IF b \in named THEN "increment" ELSE "none"]
           p == [NoRequest EXCEPT !.pc = "consume", !.at = clock, !.stage = st]
<1>1. st \in Stages /\ \A b \in Buckets : st[b] \in {"none", "increment"}
  BY DEF Stages
<1>2. request' = [request EXCEPT ![r] = p]
  BY DEF Arrive
<1> HIDE DEF st
<1>3. /\ p \in Record /\ p.pc = "consume" /\ p.at = clock /\ p.stage = st
      /\ p.current = NoRequest.current /\ p.verdict = NoRequest.verdict
  <2>1. clock \in 0 .. MaxClock
    BY DEF TypeOK
  <2> QED BY <1>1, <2>1, NoRequestType DEF Record
<1> HIDE DEF p
<1> QED BY <1>1, <1>2, <1>3, Replaced

LEMMA IncrementEffect ==
  ASSUME TypeOK, NEW r \in Requests, NEW b \in Buckets, Increment(r, b)
  PROVE  LET n == Value(b, WindowOf(request[r].at)) + 1 IN
         /\ request' \in [Requests -> Record]
         /\ \A s \in Requests : s # r => request'[s] = request[s]
         /\ request'[r].pc = request[r].pc /\ request'[r].at = request[r].at
         /\ request'[r].verdict = request[r].verdict
         /\ request'[r].stage = [request[r].stage EXCEPT ![b] = "previous"]
         /\ request'[r].current = [request[r].current EXCEPT ![b] = n]
<1> DEFINE n == Value(b, WindowOf(request[r].at)) + 1
           p == Numbered(request[r], b, n)
<1>1. request[r] \in Record /\ n \in Nat
  BY RequestType, ValueType
<1>2. request' = [request EXCEPT ![r] = p]
  BY Zenon DEF Increment, Numbered
<1>3. /\ p \in Record /\ p.pc = request[r].pc /\ p.at = request[r].at
      /\ p.verdict = request[r].verdict
      /\ p.stage = [request[r].stage EXCEPT ![b] = "previous"]
      /\ p.current = [request[r].current EXCEPT ![b] = n]
  <2> HIDE DEF n
  <2> QED BY <1>1, NumberedRecord
<1> HIDE DEF p, n
<1>4. /\ request' \in [Requests -> Record] /\ request'[r] = p
      /\ \A s \in Requests : s # r => request'[s] = request[s]
  BY <1>2, <1>3, Replaced
<1> QED BY <1>3, <1>4 DEF n

LEMMA JudgeEffect ==
  ASSUME TypeOK, NEW r \in Requests, NEW b \in Buckets, NEW v \in Verdicts, Judge(r, b, v)
  PROVE  /\ request' \in [Requests -> Record]
         /\ \A s \in Requests : s # r => request'[s] = request[s]
         /\ request'[r].pc = request[r].pc /\ request'[r].at = request[r].at
         /\ request'[r].current = request[r].current
         /\ request'[r].stage = [request[r].stage EXCEPT ![b] = "none"]
         /\ request'[r].verdict = [request[r].verdict EXCEPT ![b] = v]
<1> DEFINE p == Settle(request[r], b, v)
<1>1. request[r] \in Record
  BY RequestType
<1>2. request' = [request EXCEPT ![r] = p]
  BY Zenon DEF Judge, Settle
<1>3. /\ p \in Record /\ p.pc = request[r].pc /\ p.at = request[r].at
      /\ p.current = request[r].current
      /\ p.stage = [request[r].stage EXCEPT ![b] = "none"]
      /\ p.verdict = [request[r].verdict EXCEPT ![b] = v]
  BY <1>1, JudgedRecord
<1> HIDE DEF p
<1>4. /\ request' \in [Requests -> Record] /\ request'[r] = p
      /\ \A s \in Requests : s # r => request'[s] = request[s]
  BY <1>2, <1>3, Replaced
<1> QED BY <1>3, <1>4

LEMMA DoneEffect ==
  ASSUME TypeOK, NEW r \in Requests, Done(r)
  PROVE  /\ request' \in [Requests -> Record]
         /\ \A s \in Requests : s # r => request'[s] = request[s]
         /\ request'[r] = NoRequest
  BY NoRequestType, Replaced DEF Done

LEMMA RejectEffect ==
  ASSUME TypeOK, NEW r \in Requests, Reject(r)
  PROVE  /\ request' \in [Requests -> Record]
         /\ \A s \in Requests : s # r => request'[s] = request[s]
         /\ request'[r].pc = "answered" /\ request[r].pc = "consume"
         /\ request'[r].at = request[r].at
         /\ request'[r].current = request[r].current
         /\ request'[r].stage = request[r].stage
         /\ request'[r].verdict = request[r].verdict
<1> DEFINE p == [request[r] EXCEPT !.pc = "answered"]
<1>1. request' = [request EXCEPT ![r] = p] /\ request[r].pc = "consume"
  BY DEF Reject
<1>2. /\ p \in Record /\ p.pc = "answered" /\ p.at = request[r].at
      /\ p.current = request[r].current
      /\ p.stage = request[r].stage /\ p.verdict = request[r].verdict
  BY RequestType DEF Record
<1> HIDE DEF p
<1> QED BY <1>1, <1>2, Replaced

-----------------------------------------------------------------------------
(***************************************************************************)
(* Types.                                                                  *)
(***************************************************************************)
Counters == [Buckets -> [Windows -> [value : Nat, until : Nat]]]

\* An increment changes one counter.
CountUp(b, w) ==
    count' = [count EXCEPT ![b][w] = [value |-> Value(b, w) + 1, until |-> clock + Ttl]]

LEMMA CountEffect ==
  ASSUME TypeOK, NEW b \in Buckets, NEW w \in Windows,
         CountUp(b, w)
  PROVE  /\ count' \in Counters
         /\ count'[b][w].value = Value(b, w) + 1
         /\ count'[b][w].until = clock + 3 * Window
         /\ \A c \in Buckets, v \in Windows : c # b \/ v # w => count'[c][v] = count[c][v]
<1>1. Value(b, w) + 1 \in Nat /\ clock + Ttl \in Nat
  BY ValueType, ConstantsAssumption DEF TypeOK, Ttl
<1> DEFINE e == [value |-> Value(b, w) + 1, until |-> clock + Ttl]
<1>2. e \in [value : Nat, until : Nat] /\ e.value = Value(b, w) + 1 /\ e.until = clock + Ttl
  BY <1>1
<1>3. count' = [count EXCEPT ![b][w] = e]
  BY DEF CountUp
<1> HIDE DEF e
<1>4. /\ count' \in Counters /\ count'[b][w] = e
      /\ \A c \in Buckets, v \in Windows : c # b \/ v # w => count'[c][v] = count[c][v]
  BY <1>2, <1>3 DEF TypeOK, Counters
<1> QED BY <1>2, <1>4 DEF Ttl

LEMMA InitType == Init => TypeOK
<1> SUFFICES ASSUME Init PROVE TypeOK
  OBVIOUS
<1>0. clock = 0 /\ requests = 0 /\ failures = 0 /\ straddled = FALSE
  BY DEF Init
<1>1. request \in [Requests -> Record]
  BY NoRequestType DEF Init
<1>2. count \in Counters
  BY DEF Init, Counters
<1>3. admitted \in [Buckets -> Seq(Admission)]
  BY DEF Init
<1>4. clock \in 0 .. MaxClock /\ requests \in Nat /\ failures \in Nat
  BY <1>0, ConstantsAssumption
<1>5. straddled \in BOOLEAN
  BY <1>0, Zenon
<1> QED BY <1>1, <1>2, <1>3, <1>4, <1>5 DEF TypeOK, Counters, Record, Stages

LEMMA TypeFrom ==
  ASSUME clock' \in 0 .. MaxClock, requests' \in Nat, failures' \in Nat, straddled' \in BOOLEAN,
         count' \in Counters, request' \in [Requests -> Record],
         admitted' \in [Buckets -> Seq(Admission)]
  PROVE  TypeOK'
  BY DEF TypeOK, Counters, Record, Stages

LEMMA TypeStep == TypeOK /\ [Next]_vars => TypeOK'
<1> SUFFICES ASSUME TypeOK, [Next]_vars PROVE TypeOK'
  OBVIOUS
<1>1. /\ clock \in 0 .. MaxClock /\ requests \in Nat /\ failures \in Nat /\ straddled \in BOOLEAN
      /\ count \in Counters /\ request \in [Requests -> Record]
      /\ admitted \in [Buckets -> Seq(Admission)]
  BY DEF TypeOK, Counters, Record, Stages
<1>2. ASSUME NEW r \in Requests, NEW named \in Named, Arrive(r, named)
      PROVE  TypeOK'
  <2>1. request' \in [Requests -> Record]
    BY <1>2, ArriveEffect
  <2> QED BY <1>1, <1>2, <2>1, TypeFrom DEF Arrive
<1>3. ASSUME NEW r \in Requests, NEW b \in Buckets, Increment(r, b)
      PROVE  TypeOK'
  <2>1. request' \in [Requests -> Record]
    BY <1>3, IncrementEffect
  <2>2. count' \in Counters
    BY <1>3, RequestType, CountEffect DEF Increment, CountUp
  <2> QED BY <1>1, <1>3, <2>1, <2>2, TypeFrom DEF Increment
<1>4. ASSUME NEW r \in Requests, NEW b \in Buckets, Estimate(r, b)
      PROVE  TypeOK'
  <2>1. PICK v \in Verdicts : Judge(r, b, v)
    BY <1>4 DEF Estimate, Verdicts
  <2>2. request' \in [Requests -> Record]
    BY <2>1, JudgeEffect
  <2> QED BY <1>1, <1>4, <2>2, TypeFrom DEF Estimate
<1>5. ASSUME NEW r \in Requests, NEW b \in Buckets, StoreFails(r, b)
      PROVE  TypeOK'
  <2>1. PICK v \in Verdicts : Judge(r, b, v)
    BY <1>5 DEF StoreFails, Verdicts
  <2>2. request' \in [Requests -> Record]
    BY <2>1, JudgeEffect
  <2>3. count' \in Counters
    BY <1>1, <1>5, RequestType, CountEffect DEF StoreFails, CountUp
  <2>4. failures' \in Nat /\ UNCHANGED <<clock, admitted, straddled, requests>>
    BY <1>1, <1>5 DEF StoreFails, Fail
  <2> QED BY <1>1, <2>2, <2>3, <2>4, TypeFrom
<1>6. ASSUME NEW r \in Requests, Admit(r)
      PROVE  TypeOK'
  <2>1. request' \in [Requests -> Record]
    BY <1>6, DoneEffect DEF Admit
  <2>2. admitted' \in [Buckets -> Seq(Admission)]
    <3>1. ASSUME NEW b \in Buckets
          PROVE  [at |-> request[r].at, place |-> request[r].current[b]] \in Admission
      BY RequestType DEF Admission
    <3>2. ASSUME NEW b \in Buckets
          PROVE  /\ admitted[b] \in Seq(Admission)
                 /\ Append(admitted[b], [at |-> request[r].at, place |-> request[r].current[b]])
                      \in Seq(Admission)
      BY <1>1, <3>1
    <3> QED BY <1>6, <3>2 DEF Admit
  <2> QED BY <1>1, <1>6, <2>1, <2>2, TypeFrom DEF Admit
<1>7. ASSUME NEW r \in Requests, Refuse(r) \/ Drain(r)
      PROVE  TypeOK'
  <2>1. request' \in [Requests -> Record]
    BY <1>7, DoneEffect DEF Refuse, Drain
  <2> QED BY <1>1, <1>7, <2>1, TypeFrom DEF Refuse, Drain
<1>8. ASSUME NEW r \in Requests, Reject(r)
      PROVE  TypeOK'
  <2>1. request' \in [Requests -> Record]
    BY <1>8, RejectEffect
  <2> QED BY <1>1, <1>8, <2>1, TypeFrom DEF Reject
<1>9. ASSUME Tick
      PROVE  TypeOK'
  <2>1. clock' \in 0 .. MaxClock /\ straddled' \in BOOLEAN
    BY <1>1, <1>9, ConstantsAssumption DEF Tick
  <2> QED BY <1>1, <1>9, <2>1, TypeFrom DEF Tick
<1>10. ASSUME UNCHANGED vars
       PROVE  TypeOK'
  BY <1>10 DEF TypeOK, vars, Admission
<1> QED BY <1>2, <1>3, <1>4, <1>5, <1>6, <1>7, <1>8, <1>9, <1>10 DEF Next

-----------------------------------------------------------------------------
(***************************************************************************)
(* The inductive invariant.                                                *)
(***************************************************************************)
\* A slot out of use is blank, and no request is in flight for too long.
Timed ==
    \A r \in Requests :
       /\ request[r].pc = "idle" => request[r] = NoRequest
       /\ request[r].pc # "idle" => request[r].at <= clock /\ clock <= request[r].at + Stall

\* A counter in use is kept to the end of the second window after its own.
Kept ==
    \A b \in Buckets, w \in Windows :
        count[b][w].value > 0 => count[b][w].until >= Start(w) + 3 * Window

\* Every increment returned a place of its own among those of its window.
Placed(r, b) ==
    /\ request[r].current[b] <= count[b][WindowOf(request[r].at)].value
    /\ request[r].stage[b] = "increment" => request[r].verdict[b] = "none"
    /\ request[r].stage[b] = "previous" => request[r].current[b] > 0
    /\ request[r].verdict[b] = "allowed" => request[r].current[b] \in 1 .. Limit(b)

Recorded(b, k) ==
    /\ admitted[b][k].at <= clock
    /\ admitted[b][k].place \in 1 .. Limit(b)
    /\ admitted[b][k].place <= count[b][WindowOf(admitted[b][k].at)].value

Apart(b) ==
    /\ \A r, s \in Requests :
          r # s /\ request[r].current[b] > 0 /\ request[r].current[b] = request[s].current[b]
            => WindowOf(request[r].at) # WindowOf(request[s].at)
    /\ \A r \in Requests, k \in DOMAIN admitted[b] :
          request[r].current[b] > 0 /\ request[r].current[b] = admitted[b][k].place
            => WindowOf(request[r].at) # WindowOf(admitted[b][k].at)
    /\ \A j, k \in DOMAIN admitted[b] :
          j # k /\ admitted[b][j].place = admitted[b][k].place
            => WindowOf(admitted[b][j].at) # WindowOf(admitted[b][k].at)

Counted ==
    /\ \A r \in Requests, b \in Buckets : Placed(r, b)
    /\ \A b \in Buckets : Apart(b) /\ \A k \in DOMAIN admitted[b] : Recorded(b, k)

CountInv == TypeOK /\ Timed /\ Kept /\ Counted

\* Unless a request counted itself in a window gone by, the counter of the
\* previous window is final, and every request let through was let through for it.
Prior(b, w) == IF w = 0 THEN 0 ELSE count[b][w - 1].value

Within(b, t, place) ==
    Prior(b, WindowOf(t)) * (Window - (t % Window)) + place * Window <= Limit(b) * Window

Weighed ==
    ~ straddled =>
        \A b \in Buckets :
           /\ \A r \in Requests :
                 /\ request[r].stage[b] = "increment" => WindowOf(request[r].at) = WindowOf(clock)
                 /\ request[r].verdict[b] = "allowed"
                      => Within(b, request[r].at, request[r].current[b])
           /\ \A k \in DOMAIN admitted[b] : Within(b, admitted[b][k].at, admitted[b][k].place)

WeightInv == CountInv /\ Weighed

-----------------------------------------------------------------------------
(***************************************************************************)
(* A request is in flight for as long as its counter is kept.              *)
(***************************************************************************)
LEMMA InFlight ==
  ASSUME Timed, NEW r \in Requests, NEW b \in Buckets,
         request[r].stage[b] # "none" \/ request[r].pc # "idle"
  PROVE  /\ request[r].pc # "idle"
         /\ request[r].at <= clock /\ clock <= request[r].at + Stall
  BY DEF Timed, NoRequest

LEMMA TimedStep == TypeOK /\ Timed /\ [Next]_vars => Timed'
<1> SUFFICES ASSUME TypeOK, Timed, [Next]_vars, NEW s \in Requests
    PROVE  /\ request'[s].pc = "idle" => request'[s] = NoRequest
           /\ request'[s].pc # "idle"
                => request'[s].at <= clock' /\ clock' <= request'[s].at + Stall
  BY DEF Timed
<1> DEFINE Goal == /\ request'[s].pc = "idle" => request'[s] = NoRequest
                   /\ request'[s].pc # "idle"
                        => request'[s].at <= clock' /\ clock' <= request'[s].at + Stall
<1>0. /\ clock \in Nat /\ Stall \in Nat
      /\ request[s].pc = "idle" => request[s] = NoRequest
      /\ request[s].pc # "idle" => request[s].at <= clock /\ clock <= request[s].at + Stall
  BY ConstantsAssumption DEF TypeOK, Timed
<1>1. ASSUME request'[s] = request[s] \/ request'[s] = NoRequest, clock' = clock
      PROVE  Goal
  BY <1>0, <1>1 DEF NoRequest
<1>2. ASSUME NEW r \in Requests, NEW named \in Named, Arrive(r, named)
      PROVE  Goal
  <2>1. /\ request'[r].pc = "consume" /\ request'[r].at = clock /\ clock' = clock
        /\ r # s => request'[s] = request[s]
    BY <1>2, ArriveEffect DEF Arrive
  <2> QED BY <1>0, <1>1, <2>1
<1>3. ASSUME NEW r \in Requests, request[r].pc # "idle", clock' = clock,
             request'[r].pc # "idle", request'[r].at = request[r].at,
             \A q \in Requests : q # r => request'[q] = request[q]
      PROVE  Goal
  BY <1>0, <1>1, <1>3
<1>4. ASSUME NEW r \in Requests, NEW b \in Buckets, Increment(r, b)
      PROVE  Goal
  <2>1. request[r].pc # "idle" /\ clock' = clock
    BY <1>4, InFlight DEF Increment
  <2> QED BY <1>3, <1>4, <2>1, IncrementEffect
<1>5. ASSUME NEW r \in Requests, NEW b \in Buckets, Estimate(r, b) \/ StoreFails(r, b)
      PROVE  Goal
  <2>1. request[r].pc # "idle" /\ clock' = clock
    BY <1>5, InFlight DEF Estimate, StoreFails
  <2>2. PICK v \in Verdicts : Judge(r, b, v)
    BY <1>5 DEF Estimate, StoreFails, Verdicts
  <2> QED BY <1>3, <2>1, <2>2, JudgeEffect
<1>6. ASSUME NEW r \in Requests, Admit(r) \/ Refuse(r) \/ Drain(r)
      PROVE  Goal
  <2>1. Done(r) /\ clock' = clock
    BY <1>6 DEF Admit, Refuse, Drain
  <2> QED BY <1>1, <2>1, DoneEffect
<1>7. ASSUME NEW r \in Requests, Reject(r)
      PROVE  Goal
  BY <1>3, <1>7, RejectEffect DEF Reject
<1>8. ASSUME Tick
      PROVE  Goal
  <2>1. /\ request'[s] = request[s] /\ clock' = clock + 1
        /\ request[s].pc # "idle" => clock < request[s].at + Stall
    BY <1>8 DEF Tick
  <2>2. request[s].at \in Nat
    BY RequestType
  <2> QED BY <1>0, <2>1, <2>2
<1>9. ASSUME UNCHANGED vars
      PROVE  Goal
  BY <1>1, <1>9 DEF vars
<1> QED BY <1>2, <1>4, <1>5, <1>6, <1>7, <1>8, <1>9 DEF Next

\* The counter of a request in flight is still there.
LEMMA Live ==
  ASSUME TypeOK, Timed, Kept, Stall <= 2 * Window,
         NEW r \in Requests, request[r].pc # "idle", NEW b \in Buckets
  PROVE  Value(b, WindowOf(request[r].at)) = count[b][WindowOf(request[r].at)].value
<1>1. PICK t \in Nat : t = request[r].at /\ clock <= t + Stall
  BY RequestType DEF Timed
<1>2. PICK w \in Nat, m \in 0 .. Window - 1 : w = WindowOf(t) /\ t = Start(w) + m
  BY WindowArithmetic
<1>3. w \in Windows
  BY <1>1, <1>2, RequestType
<1>4. PICK n \in Nat, u \in Nat : n = count[b][w].value /\ u = count[b][w].until
  BY <1>3, CounterType
<1>5. n > 0 => u >= Start(w) + 3 * Window
  BY <1>3, <1>4 DEF Kept
<1>6. clock \in Nat /\ Stall \in Nat /\ Window \in Nat /\ Start(w) \in Nat
  BY StartType, ClockType, ConstantsAssumption
<1>7. n > 0 => clock < u
  BY <1>1, <1>2, <1>4, <1>5, <1>6
<1>8. Value(b, w) = n
  BY <1>4, <1>6, <1>7 DEF Value
<1> QED BY <1>1, <1>2, <1>4, <1>8

LEMMA CountStep ==
  ASSUME TypeOK, Timed, Kept, Stall <= 2 * Window,
         NEW r \in Requests, request[r].pc # "idle", NEW b \in Buckets,
         NEW w, w = WindowOf(request[r].at),
         CountUp(b, w)
  PROVE  /\ Kept'
         /\ count'[b][w].value = count[b][w].value + 1
         /\ \A c \in Buckets, v \in Windows : c # b \/ v # w => count'[c][v] = count[c][v]
<1>1. PICK t \in Nat : t = request[r].at /\ t <= clock /\ w = WindowOf(t)
  BY RequestType DEF Timed
<1>2. w \in Nat /\ Start(w) <= t /\ w \in Windows
  <2>1. PICK v \in Nat, m \in 0 .. Window - 1 : v = WindowOf(t) /\ t = Start(v) + m
    BY WindowArithmetic
  <2>2. v = w /\ Start(v) \in Nat
    BY <1>1, <2>1, StartType
  <2>3. w \in Windows
    BY <1>1, RequestType
  <2> QED BY <2>1, <2>2, <2>3
<1>3. /\ count'[b][w].value = Value(b, w) + 1
      /\ count'[b][w].until = clock + 3 * Window
      /\ \A c \in Buckets, v \in Windows : c # b \/ v # w => count'[c][v] = count[c][v]
  BY <1>2, CountEffect
<1>4. Value(b, w) = count[b][w].value
  BY Live
<1>5. count'[b][w].until >= Start(w) + 3 * Window
  BY <1>1, <1>2, <1>3, StartType, ClockType, ConstantsAssumption
<1> QED BY <1>3, <1>4, <1>5 DEF Kept

LEMMA KeptStep ==
  ASSUME TypeOK, Timed, Kept, Stall <= 2 * Window, [Next]_vars
  PROVE  Kept'
<1>1. ASSUME UNCHANGED count PROVE Kept'
  BY <1>1 DEF Kept
<1>2. ASSUME NEW r \in Requests, NEW b \in Buckets, Increment(r, b) \/ StoreFails(r, b),
             count' # count
      PROVE  Kept'
  <2>1. request[r].pc # "idle"
    BY <1>2, InFlight DEF Increment, StoreFails
  <2>2. PICK w : w = WindowOf(request[r].at)
    OBVIOUS
  <2>3. CountUp(b, w)
    BY <1>2, <2>2 DEF Increment, StoreFails, CountUp
  <2> QED BY <2>1, <2>2, <2>3, CountStep
<1>3. count' = count \/ \E r \in Requests, b \in Buckets : Increment(r, b) \/ StoreFails(r, b)
  BY DEF Next, vars, Arrive, Estimate, Admit, Refuse, Reject, Drain, Tick
<1> QED BY <1>1, <1>2, <1>3

-----------------------------------------------------------------------------
(***************************************************************************)
(* Places stay apart.                                                      *)
(***************************************************************************)
LEMMA LimitType ==
  ASSUME NEW b \in Buckets
  PROVE  Limit(b) \in Nat
  BY ConstantsAssumption DEF Limit

LEMMA AdmissionType ==
  ASSUME TypeOK, NEW b \in Buckets, NEW k \in DOMAIN admitted[b]
  PROVE  /\ admitted[b][k].at \in 0 .. MaxClock /\ admitted[b][k].at \in Nat
         /\ admitted[b][k].place \in Nat
         /\ WindowOf(admitted[b][k].at) \in Windows
<1>1. admitted[b] \in Seq(Admission)
  BY DEF TypeOK
<1>2. admitted[b][k] \in Admission
  BY <1>1
<1> QED BY <1>2, WindowInRange DEF Admission

\* A step that numbers no request and lets none through: counters may grow and
\* requests be forgotten, or arrive.
LEMMA QuietStep ==
  ASSUME TypeOK, TypeOK', Counted, admitted' = admitted, clock <= clock',
         \A b \in Buckets, w \in Windows : count[b][w].value <= count'[b][w].value,
         \A r \in Requests, b \in Buckets :
            \/ request'[r].current[b] = 0
            \/ request'[r].current[b] = request[r].current[b] /\ request'[r].at = request[r].at,
         \A r \in Requests, b \in Buckets :
            /\ request'[r].stage[b] = "increment" => request'[r].verdict[b] = "none"
            /\ request'[r].stage[b] = "previous" => request'[r].current[b] > 0
            /\ request'[r].verdict[b] = "allowed" => request'[r].current[b] \in 1 .. Limit(b)
  PROVE  Counted'
<1>1. ASSUME NEW r \in Requests, NEW b \in Buckets
      PROVE  Placed(r, b)'
  <2>1. PICK v \in Windows : v = WindowOf(request'[r].at)
    BY RequestTypeNext
  <2>2. PICK w \in Windows : w = WindowOf(request[r].at)
    BY RequestType
  <2>3. /\ count[b][w].value \in Nat /\ count'[b][v].value \in Nat /\ count'[b][w].value \in Nat
        /\ request[r].current[b] \in Nat
    BY CounterType, CounterTypeNext, RequestType
  <2>4. request[r].current[b] <= count[b][w].value
    BY <2>2 DEF Counted, Placed
  <2>5. request'[r].current[b] <= count'[b][v].value
    BY <2>1, <2>2, <2>3, <2>4
  <2> QED BY <2>1, <2>5 DEF Placed
<1>2. ASSUME NEW b \in Buckets, NEW k \in DOMAIN admitted[b]
      PROVE  Recorded(b, k)'
  <2>1. PICK w \in Windows : w = WindowOf(admitted[b][k].at)
    BY AdmissionType
  <2>2. count[b][w].value \in Nat /\ count'[b][w].value \in Nat /\ clock \in Nat /\ clock' \in Nat
    BY CounterType, CounterTypeNext, ClockType DEF TypeOK
  <2>3. Recorded(b, k)
    BY DEF Counted
  <2> QED BY <2>1, <2>2, <2>3, AdmissionType DEF Recorded
<1>3. ASSUME NEW b \in Buckets
      PROVE  Apart(b)'
  <2>1. Apart(b) /\ admitted'[b] = admitted[b]
    BY DEF Counted
  <2>2. ASSUME NEW r \in Requests, request'[r].current[b] > 0
        PROVE  /\ request[r].current[b] > 0
               /\ request'[r].current[b] = request[r].current[b] /\ request'[r].at = request[r].at
    BY <2>2
  <2>3. ASSUME NEW r \in Requests, NEW s \in Requests, r # s,
               request'[r].current[b] > 0, request'[r].current[b] = request'[s].current[b]
        PROVE  WindowOf(request'[r].at) # WindowOf(request'[s].at)
    BY <2>1, <2>2, <2>3 DEF Apart
  <2>4. ASSUME NEW r \in Requests, NEW k \in DOMAIN admitted[b],
               request'[r].current[b] > 0, request'[r].current[b] = admitted[b][k].place
        PROVE  WindowOf(request'[r].at) # WindowOf(admitted[b][k].at)
    BY <2>1, <2>2, <2>4 DEF Apart
  <2> QED BY <2>1, <2>3, <2>4 DEF Apart
<1> QED BY <1>1, <1>2, <1>3 DEF Counted

\* An increment gives the request a place no other has.
LEMMA IncrementStep ==
  ASSUME TypeOK, TypeOK', Timed, Kept, Counted, Stall <= 2 * Window,
         NEW r \in Requests, NEW b \in Buckets, Increment(r, b)
  PROVE  Counted'
<1>1. PICK w \in Windows : w = WindowOf(request[r].at)
  BY RequestType
<1>2. request[r].pc # "idle"
  BY InFlight DEF Increment
<1>3. CountUp(b, w)
  BY <1>1 DEF Increment, CountUp
<1>4. /\ count'[b][w].value = count[b][w].value + 1
      /\ \A c \in Buckets, v \in Windows : c # b \/ v # w => count'[c][v] = count[c][v]
  BY <1>1, <1>2, <1>3, CountStep
<1>5. PICK n \in Nat : n = count[b][w].value
  BY CounterType
<1>6. /\ request'[r].at = request[r].at
      /\ request'[r].verdict = request[r].verdict
      /\ request'[r].stage = [request[r].stage EXCEPT ![b] = "previous"]
      /\ request'[r].current = [request[r].current EXCEPT ![b] = n + 1]
      /\ \A s \in Requests : s # r => request'[s] = request[s]
  BY <1>1, <1>2, <1>5, Live, IncrementEffect
<1>7. admitted' = admitted /\ clock' = clock
  BY DEF Increment
<1>8. /\ request'[r].current[b] = n + 1 /\ request'[r].stage[b] = "previous"
      /\ \A c \in Buckets : c # b => /\ request'[r].current[c] = request[r].current[c]
                                     /\ request'[r].stage[c] = request[r].stage[c]
  BY <1>6, RequestType DEF Record, Stages
<1>9. ASSUME NEW c \in Buckets, NEW v \in Windows
      PROVE  /\ count'[c][v].value \in Nat /\ count[c][v].value \in Nat
             /\ count[c][v].value <= count'[c][v].value
  <2>1. CASE c = b /\ v = w
    BY <1>4, <1>5, <2>1
  <2>2. CASE c # b \/ v # w
    <3>1. count'[c][v] = count[c][v]
      BY <1>4, <2>2
    <3> QED BY <3>1, CounterType
  <2> QED BY <2>1, <2>2
<1>10. ASSUME NEW s \in Requests, NEW c \in Buckets
       PROVE  Placed(s, c)'
  <2>1. PICK v \in Windows, m \in Nat : v = WindowOf(request[s].at) /\ m = request[s].current[c]
    BY RequestType
  <2>2. /\ m <= count[c][v].value
        /\ request[s].stage[c] = "increment" => request[s].verdict[c] = "none"
        /\ request[s].stage[c] = "previous" => m > 0
        /\ request[s].verdict[c] = "allowed" => m \in 1 .. Limit(c)
    BY <2>1 DEF Counted, Placed
  <2>3. m <= count'[c][v].value /\ request'[s].at = request[s].at
    BY <1>6, <1>9, <2>2
  <2>4. CASE s # r \/ c # b
    <3>1. /\ request'[s].current[c] = m /\ request'[s].stage[c] = request[s].stage[c]
          /\ request'[s].verdict[c] = request[s].verdict[c]
      BY <1>6, <1>8, <2>1, <2>4
    <3> QED BY <2>1, <2>2, <2>3, <3>1 DEF Placed
  <2>5. CASE s = r /\ c = b
    <3>1. request'[r].verdict[b] = "none"
      BY <1>6, <2>2, <2>5 DEF Increment
    <3>2. request'[s].current[c] = n + 1 /\ v = w /\ count'[c][v].value = n + 1
      BY <1>1, <1>4, <1>5, <1>8, <2>1, <2>5
    <3> QED BY <1>8, <2>1, <2>3, <2>5, <3>1, <3>2 DEF Placed
  <2> QED BY <2>4, <2>5
<1>11. ASSUME NEW c \in Buckets, NEW k \in DOMAIN admitted[c]
       PROVE  Recorded(c, k)'
  <2>1. Recorded(c, k)
    BY DEF Counted
  <2> QED BY <1>7, <1>9, <2>1, AdmissionType DEF Recorded
<1>12. ASSUME NEW c \in Buckets, c # b
       PROVE  Apart(c)'
  <2>1. Apart(c)
    BY DEF Counted
  <2>2. \A s \in Requests : /\ request'[s].current[c] = request[s].current[c]
                            /\ request'[s].at = request[s].at
    BY <1>6, <1>8, <1>12
  <2> QED BY <1>7, <2>1, <2>2 DEF Apart
<1>13. Apart(b)'
  <2>1. Apart(b)
    BY DEF Counted
  <2>2. ASSUME NEW s \in Requests, s # r, WindowOf(request'[s].at) = w
        PROVE  request'[s].current[b] # n + 1
    <3>1. request[s].current[b] <= n /\ request[s].current[b] \in Nat
      BY <1>5, <1>6, <2>2, RequestType DEF Counted, Placed
    <3> QED BY <1>6, <2>2, <3>1
  <2>3. ASSUME NEW k \in DOMAIN admitted[b], WindowOf(admitted[b][k].at) = w
        PROVE  admitted[b][k].place # n + 1
    <3>1. admitted[b][k].place <= n /\ admitted[b][k].place \in Nat
      BY <1>5, <2>3, AdmissionType DEF Counted, Recorded
    <3> QED BY <3>1
  <2>4. ASSUME NEW p \in Requests, NEW s \in Requests, p # s,
               request'[p].current[b] > 0, request'[p].current[b] = request'[s].current[b]
        PROVE  WindowOf(request'[p].at) # WindowOf(request'[s].at)
    <3>1. CASE p # r /\ s # r
      BY <1>6, <2>1, <2>4, <3>1 DEF Apart
    <3>2. CASE p = r
      BY <1>1, <1>6, <1>8, <2>2, <2>4, <3>2
    <3>3. CASE s = r
      BY <1>1, <1>6, <1>8, <2>2, <2>4, <3>3
    <3> QED BY <3>1, <3>2, <3>3
  <2>5. ASSUME NEW s \in Requests, NEW k \in DOMAIN admitted[b],
               request'[s].current[b] > 0, request'[s].current[b] = admitted[b][k].place
        PROVE  WindowOf(request'[s].at) # WindowOf(admitted[b][k].at)
    <3>1. CASE s # r
      BY <1>6, <2>1, <2>5, <3>1 DEF Apart
    <3>2. CASE s = r
      BY <1>1, <1>6, <1>8, <2>3, <2>5, <3>2
    <3> QED BY <3>1, <3>2
  <2> QED BY <1>7, <2>1, <2>4, <2>5 DEF Apart
<1> QED BY <1>7, <1>10, <1>11, <1>12, <1>13 DEF Counted

LEMMA NoRequestFacts ==
  ASSUME NEW b \in Buckets
  PROVE  /\ NoRequest.stage[b] = "none" /\ NoRequest.current[b] = 0
         /\ NoRequest.verdict[b] = "none" /\ NoRequest.pc = "idle" /\ NoRequest.at = 0
  BY DEF NoRequest

\* What the other requests and buckets keep.
LEMMA CountedFacts ==
  ASSUME Counted, NEW s \in Requests, NEW c \in Buckets
  PROVE  /\ request[s].stage[c] = "increment" => request[s].verdict[c] = "none"
         /\ request[s].stage[c] = "previous" => request[s].current[c] > 0
         /\ request[s].verdict[c] = "allowed" => request[s].current[c] \in 1 .. Limit(c)
  BY DEF Counted, Placed

\* Counters that do not change, as a hypothesis of QuietStep.
LEMMA CountSame ==
  ASSUME TypeOK, count' = count
  PROVE  \A b \in Buckets, w \in Windows : count[b][w].value <= count'[b][w].value
  BY CounterType

LEMMA ClockSame ==
  ASSUME TypeOK, clock' = clock \/ clock' = clock + 1
  PROVE  clock <= clock'
  BY ClockType

LEMMA ArriveStep ==
  ASSUME TypeOK, TypeOK', Counted, NEW r \in Requests, NEW named \in Named, Arrive(r, named)
  PROVE  Counted'
<1>1. count' = count /\ admitted' = admitted /\ clock' = clock
  BY DEF Arrive
<1>2. ASSUME NEW s \in Requests, NEW b \in Buckets
      PROVE  /\ \/ request'[s].current[b] = 0
                \/ request'[s].current[b] = request[s].current[b] /\ request'[s].at = request[s].at
             /\ request'[s].stage[b] = "increment" => request'[s].verdict[b] = "none"
             /\ request'[s].stage[b] = "previous" => request'[s].current[b] > 0
             /\ request'[s].verdict[b] = "allowed" => request'[s].current[b] \in 1 .. Limit(b)
  <2>1. CASE s = r
    BY <2>1, ArriveEffect, NoRequestFacts
  <2>2. CASE s # r
    <3>1. request'[s] = request[s]
      BY <2>2, ArriveEffect
    <3> QED BY <3>1, CountedFacts
  <2> QED BY <2>1, <2>2
<1> QED BY <1>1, <1>2, CountSame, ClockSame, QuietStep

LEMMA DoneStep ==
  ASSUME TypeOK, TypeOK', Counted, NEW r \in Requests, Done(r),
         UNCHANGED <<count, admitted, clock>>
  PROVE  Counted'
<1>1. ASSUME NEW s \in Requests, NEW b \in Buckets
      PROVE  /\ \/ request'[s].current[b] = 0
                \/ request'[s].current[b] = request[s].current[b] /\ request'[s].at = request[s].at
             /\ request'[s].stage[b] = "increment" => request'[s].verdict[b] = "none"
             /\ request'[s].stage[b] = "previous" => request'[s].current[b] > 0
             /\ request'[s].verdict[b] = "allowed" => request'[s].current[b] \in 1 .. Limit(b)
  <2>1. CASE s = r
    BY <2>1, DoneEffect, NoRequestFacts
  <2>2. CASE s # r
    <3>1. request'[s] = request[s]
      BY <2>2, DoneEffect
    <3> QED BY <3>1, CountedFacts
  <2> QED BY <2>1, <2>2
<1> QED BY <1>1, CountSame, ClockSame, QuietStep

\* The estimate is at least the place the increment returned.
LEMMA EstimateBound ==
  ASSUME TypeOK, NEW r \in Requests, NEW b \in Buckets, NEW n \in Nat,
         Weighted(r, n) + request[r].current[b] * Window <= Limit(b) * Window
  PROVE  request[r].current[b] <= Limit(b)
<1>1. PICK t \in Nat : t = request[r].at
  BY RequestType
<1>2. PICK c \in Nat : c = request[r].current[b]
  BY RequestType
<1>3. PICK m \in 0 .. Window - 1 : m = t % Window
  BY WindowArithmetic
<1>4. PICK k \in Nat : k = Window - m
  BY <1>3, ConstantsAssumption
<1>5. PICK l \in Nat : l = Limit(b)
  BY LimitType
<1>6. n * k \in Nat /\ n * k + c * Window <= l * Window
  <2>1. Weighted(r, n) = n * k
    BY <1>1, <1>3, <1>4 DEF Weighted
  <2>2. n * k \in Nat
    BY SMT
  <2> QED BY <1>2, <1>5, <2>1, <2>2
<1>7. c * Window <= l * Window
  <2>1. PICK x \in Nat : x = n * k
    BY <1>6
  <2>2. PICK y \in Nat : y = c * Window
    BY ConstantsAssumption, SMT
  <2>3. PICK z \in Nat : z = l * Window
    BY ConstantsAssumption, SMT
  <2> QED BY <1>6, <2>1, <2>2, <2>3
<1>8. c <= l
  <2>1. ASSUME l < c PROVE FALSE
    <3>1. PICK d \in Nat : c = l + 1 + d
      BY <2>1, SMT
    <3>2. c * Window = l * Window + Window + d * Window
      BY <3>1, ConstantsAssumption, SMT
    <3>3. d * Window \in Nat /\ l * Window \in Nat /\ Window \in Nat \ {0}
      BY ConstantsAssumption, SMT
    <3> QED BY <1>7, <3>2, <3>3
  <2> QED BY <2>1
<1> QED BY <1>2, <1>5, <1>8

LEMMA JudgeStep ==
  ASSUME TypeOK, TypeOK', Counted, NEW r \in Requests, NEW b \in Buckets, NEW v \in Verdicts,
         request[r].stage[b] # "none", Judge(r, b, v),
         v = "allowed" => request[r].current[b] \in 1 .. Limit(b),
         admitted' = admitted, clock' = clock,
         \A c \in Buckets, w \in Windows : count[c][w].value <= count'[c][w].value
  PROVE  Counted'
<1>1. ASSUME NEW s \in Requests, NEW c \in Buckets
      PROVE  /\ request'[s].current[c] = request[s].current[c] /\ request'[s].at = request[s].at
             /\ request'[s].stage[c] = "increment" => request'[s].verdict[c] = "none"
             /\ request'[s].stage[c] = "previous" => request'[s].current[c] > 0
             /\ request'[s].verdict[c] = "allowed" => request'[s].current[c] \in 1 .. Limit(c)
  <2>1. CASE s = r
    <3>1. /\ request'[r].current = request[r].current /\ request'[r].at = request[r].at
          /\ request'[r].stage = [request[r].stage EXCEPT ![b] = "none"]
          /\ request'[r].verdict = [request[r].verdict EXCEPT ![b] = v]
      BY JudgeEffect
    <3>2. /\ c = b => request'[r].stage[c] = "none" /\ request'[r].verdict[c] = v
          /\ c # b => /\ request'[r].stage[c] = request[r].stage[c]
                      /\ request'[r].verdict[c] = request[r].verdict[c]
      BY <3>1, RequestType DEF Record, Stages
    <3>3. CASE c = b
      BY <2>1, <3>1, <3>2, <3>3
    <3>4. CASE c # b
      BY <2>1, <3>1, <3>2, <3>4, CountedFacts
    <3> QED BY <3>3, <3>4
  <2>2. CASE s # r
    <3>1. request'[s] = request[s]
      BY <2>2, JudgeEffect
    <3> QED BY <3>1, CountedFacts
  <2> QED BY <2>1, <2>2
<1> QED BY <1>1, ClockSame, QuietStep

LEMMA EstimateStep ==
  ASSUME TypeOK, TypeOK', Counted, NEW r \in Requests, NEW b \in Buckets, Estimate(r, b)
  PROVE  Counted'
<1>1. PICK n \in Nat : n = Previous(r, b)
  <2>1. PICK w \in Windows : w = WindowOf(request[r].at)
    BY RequestType
  <2> QED BY <2>1, WindowBefore, ValueType DEF Previous
<1>2. PICK v \in Verdicts :
         /\ Judge(r, b, v)
         /\ v = "allowed" => Weighted(r, n) + request[r].current[b] * Window <= Limit(b) * Window
  BY <1>1 DEF Estimate, Verdicts
<1>3. request[r].current[b] > 0 /\ request[r].current[b] \in Nat /\ Limit(b) \in Nat
  BY CountedFacts, RequestType, LimitType DEF Estimate
<1>4. v = "allowed" => request[r].current[b] \in 1 .. Limit(b)
  BY <1>2, <1>3, EstimateBound
<1>5. count' = count /\ admitted' = admitted /\ clock' = clock /\ request[r].stage[b] # "none"
  BY DEF Estimate
<1> QED BY <1>2, <1>4, <1>5, CountSame, JudgeStep

LEMMA StoreFailsStep ==
  ASSUME TypeOK, TypeOK', Timed, Kept, Counted, Stall <= 2 * Window, OnStoreError = "closed",
         NEW r \in Requests, NEW b \in Buckets, StoreFails(r, b)
  PROVE  Counted'
<1>1. Judge(r, b, "error") /\ admitted' = admitted /\ clock' = clock /\ request[r].stage[b] # "none"
  BY DEF StoreFails
<1>2. \A c \in Buckets, v \in Windows : count[c][v].value <= count'[c][v].value
  <2>1. CASE count' = count
    BY <2>1, CountSame
  <2>2. CASE count' # count
    <3>1. PICK w \in Windows : w = WindowOf(request[r].at)
      BY RequestType
    <3>2. CountUp(b, w)
      BY <2>2, <3>1 DEF StoreFails, CountUp
    <3>3. request[r].pc # "idle"
      BY <1>1, InFlight
    <3>4. /\ count'[b][w].value = count[b][w].value + 1
          /\ \A c \in Buckets, v \in Windows : c # b \/ v # w => count'[c][v] = count[c][v]
      BY <3>1, <3>2, <3>3, CountStep
    <3>5. ASSUME NEW c \in Buckets, NEW v \in Windows
          PROVE  count[c][v].value <= count'[c][v].value
      <4>1. CASE c = b /\ v = w
        BY <3>4, <4>1, CounterType
      <4>2. CASE c # b \/ v # w
        <5>1. count'[c][v] = count[c][v]
          BY <3>4, <4>2
        <5> QED BY <5>1, CounterType
      <4> QED BY <4>1, <4>2
    <3> QED BY <3>5
  <2> QED BY <2>1, <2>2
<1>3. "error" \in Verdicts /\ "error" # "allowed"
  BY DEF Verdicts
<1> QED BY <1>1, <1>2, <1>3, JudgeStep

LEMMA SameStep ==
  ASSUME TypeOK, TypeOK', Counted,
         (\E r \in Requests : Reject(r)) \/ Tick \/ UNCHANGED vars
  PROVE  Counted'
<1>1. count' = count /\ admitted' = admitted /\ (clock' = clock \/ clock' = clock + 1)
  BY DEF Reject, Tick, vars
<1>2. ASSUME NEW s \in Requests
      PROVE  /\ request'[s].current = request[s].current /\ request'[s].at = request[s].at
             /\ request'[s].stage = request[s].stage /\ request'[s].verdict = request[s].verdict
  <2>1. ASSUME NEW r \in Requests, Reject(r)
        PROVE  /\ request'[s].current = request[s].current /\ request'[s].at = request[s].at
               /\ request'[s].stage = request[s].stage /\ request'[s].verdict = request[s].verdict
    BY <2>1, RejectEffect
  <2>2. CASE Tick
    <3>1. request' = request
      BY <2>2 DEF Tick
    <3> QED BY <3>1
  <2>3. CASE UNCHANGED vars
    <3>1. request' = request
      BY <2>3 DEF vars
    <3> QED BY <3>1
  <2> QED BY <2>1, <2>2, <2>3
<1>3. ASSUME NEW s \in Requests, NEW b \in Buckets
      PROVE  /\ request'[s].current[b] = request[s].current[b] /\ request'[s].at = request[s].at
             /\ request'[s].stage[b] = "increment" => request'[s].verdict[b] = "none"
             /\ request'[s].stage[b] = "previous" => request'[s].current[b] > 0
             /\ request'[s].verdict[b] = "allowed" => request'[s].current[b] \in 1 .. Limit(b)
  BY <1>2, CountedFacts
<1> QED BY <1>1, <1>3, CountSame, ClockSame, QuietStep

\* A request let through leaves its place with each of its buckets.
LEMMA AdmitEffect ==
  ASSUME TypeOK, NEW r \in Requests, Admit(r), NEW b \in Buckets
  PROVE  \/ /\ request[r].verdict[b] # "allowed"
            /\ admitted'[b] = admitted[b]
         \/ /\ request[r].verdict[b] = "allowed"
            /\ \E n \in Nat :
                  /\ DOMAIN admitted[b] = 1 .. n /\ DOMAIN admitted'[b] = 1 .. n + 1
                  /\ \A k \in 1 .. n : admitted'[b][k] = admitted[b][k]
                  /\ admitted'[b][n + 1].at = request[r].at
                  /\ admitted'[b][n + 1].place = request[r].current[b]
<1>1. admitted[b] \in Seq(Admission)
  BY DEF TypeOK
<1> DEFINE a == [at |-> request[r].at, place |-> request[r].current[b]]
<1>2. admitted'[b] = IF request[r].verdict[b] = "allowed" THEN Append(admitted[b], a)
                     ELSE admitted[b]
  BY DEF Admit, Judged
<1>3. a \in Admission /\ a.at = request[r].at /\ a.place = request[r].current[b]
  BY RequestType DEF Admission
<1> HIDE DEF a
<1>4. PICK n \in Nat : n = Len(admitted[b])
  BY <1>1
<1>5. CASE request[r].verdict[b] = "allowed"
  <2>1. admitted'[b] = Append(admitted[b], a)
    BY <1>2, <1>5
  <2>2. /\ DOMAIN admitted[b] = 1 .. n /\ DOMAIN admitted'[b] = 1 .. n + 1
        /\ admitted'[b][n + 1] = a
    BY <1>1, <1>3, <1>4, <2>1
  <2>3. \A k \in 1 .. n : admitted'[b][k] = admitted[b][k]
    BY <1>1, <1>3, <1>4, <2>1
  <2> QED BY <1>3, <1>5, <2>2, <2>3
<1> QED BY <1>2, <1>5

LEMMA AdmitStep ==
  ASSUME TypeOK, TypeOK', Counted, NEW r \in Requests, Admit(r), Timed
  PROVE  Counted'
<1>1. Done(r) /\ count' = count /\ clock' = clock /\ request[r].pc # "idle"
  BY DEF Admit, Settled
<1>2. /\ request'[r] = NoRequest
      /\ \A s \in Requests : s # r => request'[s] = request[s]
  BY <1>1, DoneEffect
<1>3. ASSUME NEW s \in Requests, NEW b \in Buckets
      PROVE  Placed(s, b)'
  <2>1. CASE s = r
    <3>1. 0 \in Windows /\ WindowOf(0) = 0
      <4>1. 0 \in 0 .. MaxClock
        BY ConstantsAssumption
      <4>2. WindowOf(0) = 0
        BY ConstantsAssumption, SMT DEF WindowOf
      <4> QED BY <4>1, <4>2, WindowInRange
    <3>2. count'[b][0].value \in Nat
      BY <3>1, CounterTypeNext
    <3> QED BY <1>2, <2>1, <3>1, <3>2, NoRequestFacts DEF Placed
  <2>2. CASE s # r
    BY <1>1, <1>2, <2>2 DEF Placed, Counted
  <2> QED BY <2>1, <2>2
<1>4. \A s \in Requests, b \in Buckets :
         request'[s].current[b] > 0 => s # r /\ request'[s] = request[s]
  BY <1>2, NoRequestFacts
<1>5. ASSUME NEW b \in Buckets
      PROVE  Apart(b)' /\ \A k \in DOMAIN admitted'[b] : Recorded(b, k)'
  <2>1. Apart(b) /\ \A k \in DOMAIN admitted[b] : Recorded(b, k)
    BY DEF Counted
  <2>2. CASE admitted'[b] = admitted[b]
    <3>1. \A k \in DOMAIN admitted'[b] : Recorded(b, k)'
      BY <1>1, <2>1, <2>2 DEF Recorded
    <3>2. Apart(b)'
      BY <1>2, <1>4, <2>1, <2>2, NoRequestFacts DEF Apart
    <3> QED BY <3>1, <3>2
  <2>3. CASE admitted'[b] # admitted[b]
    <3>1. PICK n \in Nat :
             /\ DOMAIN admitted[b] = 1 .. n /\ DOMAIN admitted'[b] = 1 .. n + 1
             /\ \A k \in 1 .. n : admitted'[b][k] = admitted[b][k]
             /\ admitted'[b][n + 1].at = request[r].at
             /\ admitted'[b][n + 1].place = request[r].current[b]
      BY <2>3, AdmitEffect
    <3>2. request[r].current[b] \in 1 .. Limit(b) /\ request[r].current[b] > 0
      <4>1. request[r].current[b] \in 1 .. Limit(b)
        BY <2>3, AdmitEffect, CountedFacts
      <4> QED BY <4>1, LimitType
    <3>3. ASSUME NEW k \in DOMAIN admitted'[b]
          PROVE  Recorded(b, k)'
      <4>1. CASE k \in 1 .. n
        <5>1. Recorded(b, k) /\ admitted'[b][k] = admitted[b][k]
          BY <2>1, <3>1, <4>1
        <5> QED BY <1>1, <5>1 DEF Recorded
      <4>2. CASE k = n + 1
        <5>1. /\ request[r].at <= clock
              /\ request[r].current[b] <= count[b][WindowOf(request[r].at)].value
          BY <1>1 DEF Timed, Counted, Placed
        <5> QED BY <1>1, <3>1, <3>2, <4>2, <5>1 DEF Recorded
      <4> QED BY <3>1, <4>1, <4>2
    <3>4. ASSUME NEW s \in Requests, NEW k \in DOMAIN admitted'[b],
                 request'[s].current[b] > 0, request'[s].current[b] = admitted'[b][k].place
          PROVE  WindowOf(request'[s].at) # WindowOf(admitted'[b][k].at)
      <4>1. s # r /\ request'[s] = request[s]
        BY <1>4, <3>4
      <4>2. CASE k \in 1 .. n
        BY <2>1, <3>1, <3>4, <4>1, <4>2 DEF Apart
      <4>3. CASE k = n + 1
        BY <2>1, <3>1, <3>4, <4>1, <4>3 DEF Apart
      <4> QED BY <3>1, <4>2, <4>3
    <3>5. ASSUME NEW j \in DOMAIN admitted'[b], NEW k \in DOMAIN admitted'[b], j # k,
                 admitted'[b][j].place = admitted'[b][k].place
          PROVE  WindowOf(admitted'[b][j].at) # WindowOf(admitted'[b][k].at)
      <4>1. CASE j \in 1 .. n /\ k \in 1 .. n
        <5>1. admitted'[b][j] = admitted[b][j] /\ admitted'[b][k] = admitted[b][k]
          BY <3>1, <4>1
        <5>2. j \in DOMAIN admitted[b] /\ k \in DOMAIN admitted[b]
          BY <3>1, <4>1
        <5>3. j # k /\ admitted[b][j].place = admitted[b][k].place
          BY <3>5, <5>1
        <5> QED BY <2>1, <5>1, <5>2, <5>3 DEF Apart
      <4>2. CASE j = n + 1 /\ k \in 1 .. n
        BY <2>1, <3>1, <3>2, <3>5, <4>2 DEF Apart
      <4>3. CASE j \in 1 .. n /\ k = n + 1
        BY <2>1, <3>1, <3>2, <3>5, <4>3 DEF Apart
      <4> QED BY <3>1, <3>5, <4>1, <4>2, <4>3
    <3>6. \A s, p \in Requests :
             s # p /\ request'[s].current[b] > 0 /\ request'[s].current[b] = request'[p].current[b]
               => WindowOf(request'[s].at) # WindowOf(request'[p].at)
      BY <1>2, <1>4, <2>1, NoRequestFacts DEF Apart
    <3> QED BY <3>3, <3>4, <3>5, <3>6 DEF Apart
  <2> QED BY <2>2, <2>3
<1> QED BY <1>3, <1>5 DEF Counted

LEMMA CountInvInit == Init => CountInv
<1> SUFFICES ASSUME Init PROVE CountInv
  OBVIOUS
<1>1. TypeOK
  BY InitType
<1>2. \A r \in Requests : request[r] = NoRequest
  BY DEF Init
<1>3. \A b \in Buckets, w \in Windows : count[b][w].value = 0
  BY DEF Init
<1>4. \A b \in Buckets : admitted[b] = <<>>
  BY DEF Init
<1>5. Timed /\ Kept
  <2>1. Timed
    BY <1>2 DEF Timed, NoRequest
  <2>2. Kept
    BY <1>3 DEF Kept
  <2> QED BY <2>1, <2>2
<1>6. Counted
  <2>1. ASSUME NEW r \in Requests, NEW b \in Buckets
        PROVE  Placed(r, b)
    BY <1>1, <1>2, <1>3, NoRequestFacts, RequestType DEF Placed
  <2> QED BY <1>2, <1>4, <2>1, NoRequestFacts DEF Counted, Apart
<1> QED BY <1>1, <1>5, <1>6 DEF CountInv

LEMMA CountInvStep ==
  ASSUME Stall <= 2 * Window, OnStoreError = "closed", CountInv, [Next]_vars
  PROVE  CountInv'
<1> USE DEF CountInv
<1>1. TypeOK' /\ Timed' /\ Kept'
  BY TypeStep, TimedStep, KeptStep
<1>2. ASSUME NEW r \in Requests, NEW named \in Named, Arrive(r, named)
      PROVE  Counted'
  BY <1>1, <1>2, ArriveStep
<1>3. ASSUME NEW r \in Requests, NEW b \in Buckets, Increment(r, b)
      PROVE  Counted'
  BY <1>1, <1>3, IncrementStep
<1>4. ASSUME NEW r \in Requests, NEW b \in Buckets, Estimate(r, b)
      PROVE  Counted'
  BY <1>1, <1>4, EstimateStep
<1>5. ASSUME NEW r \in Requests, NEW b \in Buckets, StoreFails(r, b)
      PROVE  Counted'
  BY <1>1, <1>5, StoreFailsStep
<1>6. ASSUME NEW r \in Requests, Admit(r)
      PROVE  Counted'
  BY <1>1, <1>6, AdmitStep
<1>7. ASSUME NEW r \in Requests, Refuse(r) \/ Drain(r)
      PROVE  Counted'
  BY <1>1, <1>7, DoneStep DEF Refuse, Drain
<1>8. ASSUME (\E r \in Requests : Reject(r)) \/ Tick \/ UNCHANGED vars
      PROVE  Counted'
  BY <1>1, <1>8, SameStep
<1> QED BY <1>1, <1>2, <1>3, <1>4, <1>5, <1>6, <1>7, <1>8 DEF Next

-----------------------------------------------------------------------------
(***************************************************************************)
(* What is let through for what the previous window counted.               *)
(***************************************************************************)
\* The counter of the previous window is still there, too.
LEMMA PreviousLive ==
  ASSUME TypeOK, Timed, Kept, Stall <= Window,
         NEW r \in Requests, request[r].pc # "idle", NEW b \in Buckets
  PROVE  /\ Previous(r, b) = Prior(b, WindowOf(request[r].at))
         /\ Previous(r, b) \in Nat
<1>1. PICK t \in Nat : t = request[r].at /\ clock <= t + Stall
  BY RequestType DEF Timed
<1>2. PICK w \in Nat, m \in 0 .. Window - 1 : w = WindowOf(t) /\ t = Start(w) + m
  BY WindowArithmetic
<1>3. CASE w = 0
  BY <1>1, <1>2, <1>3 DEF Previous, Prior
<1>4. CASE w # 0
  <2>1. PICK v \in Nat : v = w - 1 /\ v + 1 = w
    BY <1>4
  <2>2. v \in Windows
    BY <1>1, <1>2, <2>1, <1>4, RequestType, WindowBefore
  <2>3. PICK n \in Nat, u \in Nat : n = count[b][v].value /\ u = count[b][v].until
    BY <2>2, CounterType
  <2>4. n > 0 => u >= Start(v) + 3 * Window
    BY <2>2, <2>3 DEF Kept
  <2>5. Start(w) = Start(v) + Window
    BY <2>1, WindowsApart
  <2>6. clock \in Nat /\ Stall \in Nat /\ Window \in Nat /\ Start(v) \in Nat
    BY StartType, ClockType, ConstantsAssumption
  <2>7. n > 0 => clock < u
    BY <1>1, <1>2, <2>4, <2>5, <2>6
  <2>8. Value(b, v) = n
    BY <2>3, <2>6, <2>7 DEF Value
  <2> QED BY <1>1, <1>2, <1>4, <2>1, <2>3, <2>8 DEF Previous, Prior
<1> QED BY <1>3, <1>4

\* Nobody counts in a window gone by, so what a window found before it stays.
LEMMA PriorKept ==
  ASSUME TypeOK, NEW c \in Buckets, NEW t \in 0 .. MaxClock, t <= clock,
         NEW b \in Buckets, NEW w \in Windows, w = WindowOf(clock),
         count' = count \/ CountUp(b, w)
  PROVE  Prior(c, WindowOf(t))' = Prior(c, WindowOf(t))
<1>1. PICK v \in Windows : v = WindowOf(t)
  BY WindowInRange
<1>2. v <= w /\ v \in Nat /\ w \in Nat
  <2>1. t \in Nat /\ clock \in Nat
    BY ClockType, WindowInRange
  <2>2. WindowOf(t) <= WindowOf(clock)
    BY <2>1, WindowsMonotone
  <2> QED BY <1>1, <2>2 DEF Windows
<1>3. CASE v = 0
  BY <1>1, <1>3 DEF Prior
<1>4. CASE v # 0
  <2>1. v - 1 \in Windows /\ v - 1 # w
    BY <1>2, <1>4, WindowBefore
  <2>2. count'[c][v - 1] = count[c][v - 1]
    BY <2>1, CountEffect
  <2> QED BY <1>1, <1>4, <2>2 DEF Prior
<1> QED BY <1>3, <1>4

LEMMA WithinKept ==
  ASSUME TypeOK, NEW c \in Buckets, NEW t \in 0 .. MaxClock, t <= clock, NEW p \in Nat,
         NEW b \in Buckets, NEW w \in Windows, w = WindowOf(clock),
         count' = count \/ CountUp(b, w), Within(c, t, p)
  PROVE  Within(c, t, p)'
<1>1. Prior(c, WindowOf(t))' = Prior(c, WindowOf(t))
  BY PriorKept
<1> QED BY <1>1 DEF Within

LEMMA WithinStep ==
  ASSUME TypeOK, Timed, Weighed, ~ straddled, [Next]_vars,
         NEW c \in Buckets, NEW t \in 0 .. MaxClock, t <= clock, NEW p \in Nat, Within(c, t, p)
  PROVE  Within(c, t, p)'
<1>1. CASE count' = count
  BY <1>1 DEF Within, Prior
<1>2. CASE count' # count
  <2>1. PICK r \in Requests, b \in Buckets : Increment(r, b) \/ StoreFails(r, b)
    BY <1>2 DEF Next, vars, Arrive, Estimate, Admit, Refuse, Reject, Drain, Tick
  <2>2. request[r].stage[b] = "increment"
    BY <1>2, <2>1 DEF Increment, StoreFails
  <2>3. PICK w \in Windows : w = WindowOf(request[r].at)
    BY RequestType
  <2>4. w = WindowOf(clock)
    BY <2>2, <2>3 DEF Weighed
  <2>5. CountUp(b, w)
    BY <1>2, <2>1, <2>3 DEF Increment, StoreFails, CountUp
  <2> QED BY <2>4, <2>5, WithinKept
<1> QED BY <1>1, <1>2

\* What Weighed says of a request and of an admission.
WeighedRequest(r, b) ==
    /\ request[r].stage[b] = "increment" => WindowOf(request[r].at) = WindowOf(clock)
    /\ request[r].verdict[b] = "allowed" => Within(b, request[r].at, request[r].current[b])

WeighedAdmission(b, k) == Within(b, admitted[b][k].at, admitted[b][k].place)

\* A request that keeps its estimate, and is given no verdict.
LEMMA WeighedKept ==
  ASSUME TypeOK, Timed, Weighed, ~ straddled, [Next]_vars, clock' = clock,
         NEW s \in Requests, NEW c \in Buckets,
         request'[s].at = request[s].at,
         request'[s].stage[c] = "increment" => request[s].stage[c] = "increment",
         request'[s].verdict[c] = "allowed"
           => /\ request[s].verdict[c] = "allowed"
              /\ request'[s].current[c] = request[s].current[c]
  PROVE  WeighedRequest(s, c)'
<1>1. request'[s].stage[c] = "increment" => WindowOf(request'[s].at) = WindowOf(clock')
  BY DEF Weighed
<1>2. ASSUME request'[s].verdict[c] = "allowed"
      PROVE  Within(c, request[s].at, request[s].current[c])'
  <2>1. PICK t \in 0 .. MaxClock, p \in Nat : t = request[s].at /\ p = request[s].current[c]
    BY RequestType
  <2>2. Within(c, t, p)
    BY <1>2, <2>1 DEF Weighed
  <2>3. t <= clock
    BY <1>2, <2>1 DEF Timed, NoRequest
  <2>4. Within(c, t, p)'
    BY <2>2, <2>3, WithinStep
  <2>5. request'[s].at = t /\ request'[s].current[c] = p
    BY <1>2, <2>1
  <2> QED BY <2>4, <2>5 DEF Within
<1> QED BY <1>1, <1>2 DEF WeighedRequest, Within

LEMMA WeighedOf ==
  ASSUME ~ straddled' =>
           \A b \in Buckets : /\ \A r \in Requests : WeighedRequest(r, b)'
                              /\ \A k \in DOMAIN admitted'[b] : WeighedAdmission(b, k)'
  PROVE  Weighed'
  BY DEF Weighed, WeighedRequest, WeighedAdmission, Within

LEMMA AdmissionKept ==
  ASSUME CountInv, Weighed, ~ straddled, [Next]_vars, NEW b \in Buckets, NEW k \in DOMAIN admitted[b],
         admitted'[b][k] = admitted[b][k]
  PROVE  WeighedAdmission(b, k)'
<1> USE DEF CountInv
<1>1. PICK t \in 0 .. MaxClock, p \in Nat : t = admitted[b][k].at /\ p = admitted[b][k].place
  BY AdmissionType
<1>2. t <= clock
  BY <1>1 DEF Counted, Recorded
<1>3. Within(b, t, p)
  BY <1>1 DEF Weighed
<1>4. Within(b, t, p)'
  BY <1>2, <1>3, WithinStep
<1> QED BY <1>1, <1>4 DEF WeighedAdmission, Within

\* Only Admit adds an admission.
LEMMA AdmissionsKept ==
  ASSUME [Next]_vars, admitted' # admitted
  PROVE  \E r \in Requests : Admit(r)
  BY DEF Next, vars, Arrive, Increment, Estimate, StoreFails, Refuse, Reject, Drain, Tick

LEMMA WeighedAdmissions ==
  ASSUME CountInv, Weighed, ~ straddled, [Next]_vars, NEW b \in Buckets,
         NEW k \in DOMAIN admitted'[b]
  PROVE  WeighedAdmission(b, k)'
<1> USE DEF CountInv
<1>1. CASE admitted'[b] = admitted[b]
  BY <1>1, AdmissionKept
<1>2. CASE admitted'[b] # admitted[b]
  <2>1. PICK r \in Requests : Admit(r)
    BY <1>2, AdmissionsKept
  <2>2. request[r].verdict[b] = "allowed"
    BY <1>2, <2>1, AdmitEffect
  <2>3. PICK n \in Nat :
           /\ DOMAIN admitted[b] = 1 .. n /\ DOMAIN admitted'[b] = 1 .. n + 1
           /\ \A j \in 1 .. n : admitted'[b][j] = admitted[b][j]
           /\ admitted'[b][n + 1].at = request[r].at
           /\ admitted'[b][n + 1].place = request[r].current[b]
    BY <1>2, <2>1, AdmitEffect
  <2>4. CASE k \in 1 .. n
    BY <2>3, <2>4, AdmissionKept
  <2>5. CASE k = n + 1
    <3>1. PICK t \in 0 .. MaxClock, p \in Nat : t = request[r].at /\ p = request[r].current[b]
      BY RequestType
    <3>2. Within(b, t, p) /\ t <= clock
      BY <2>1, <2>2, <3>1 DEF Weighed, Timed, Admit, Settled
    <3>3. Within(b, t, p)'
      BY <3>2, WithinStep
    <3> QED BY <2>3, <2>5, <3>1, <3>3 DEF WeighedAdmission, Within
  <2> QED BY <2>3, <2>4, <2>5
<1> QED BY <1>1, <1>2

LEMMA JudgedVerdict ==
  ASSUME TypeOK, NEW r \in Requests, NEW b \in Buckets, NEW v \in Verdicts, Judge(r, b, v),
         NEW c \in Buckets
  PROVE  /\ request'[r].at = request[r].at /\ request'[r].current = request[r].current
         /\ c = b => request'[r].stage[c] = "none" /\ request'[r].verdict[c] = v
         /\ c # b => /\ request'[r].stage[c] = request[r].stage[c]
                     /\ request'[r].verdict[c] = request[r].verdict[c]
<1>1. /\ request'[r].current = request[r].current /\ request'[r].at = request[r].at
      /\ request'[r].stage = [request[r].stage EXCEPT ![b] = "none"]
      /\ request'[r].verdict = [request[r].verdict EXCEPT ![b] = v]
  BY JudgeEffect
<1> QED BY <1>1, RequestType DEF Record, Stages

LEMMA WeighedStep ==
  ASSUME CountInv, Weighed, Stall <= Window, OnStoreError = "closed", [Next]_vars
  PROVE  Weighed'
<1> USE DEF CountInv
<1> SUFFICES ASSUME ~ straddled' PROVE Weighed'
  BY DEF Weighed
<1>0. ~ straddled
  BY DEF Next, vars, Arrive, Increment, Estimate, StoreFails, Admit, Refuse, Reject, Drain, Tick
<1>1. \A b \in Buckets : \A k \in DOMAIN admitted'[b] : WeighedAdmission(b, k)'
  BY <1>0, WeighedAdmissions
<1>2. ASSUME NEW s \in Requests, NEW c \in Buckets, request'[s] = request[s], clock' = clock
      PROVE  WeighedRequest(s, c)'
  BY <1>0, <1>2, WeighedKept
<1>3. ASSUME NEW s \in Requests, NEW c \in Buckets, request'[s] = NoRequest
      PROVE  WeighedRequest(s, c)'
  BY <1>3, NoRequestFacts DEF WeighedRequest
<1>4. ASSUME NEW r \in Requests, NEW named \in Named, Arrive(r, named),
             NEW s \in Requests, NEW c \in Buckets
      PROVE  WeighedRequest(s, c)'
  <2>1. clock' = clock
    BY <1>4 DEF Arrive
  <2>2. CASE s = r
    BY <1>4, <2>1, <2>2, ArriveEffect, NoRequestFacts DEF WeighedRequest
  <2>3. CASE s # r
    BY <1>2, <1>4, <2>1, <2>3, ArriveEffect
  <2> QED BY <2>2, <2>3
<1>5. ASSUME NEW r \in Requests, NEW b \in Buckets, Increment(r, b),
             NEW s \in Requests, NEW c \in Buckets
      PROVE  WeighedRequest(s, c)'
  <2>1. clock' = clock
    BY <1>5 DEF Increment
  <2>2. CASE s # r
    BY <1>2, <1>5, <2>1, <2>2, IncrementEffect
  <2>3. CASE s = r
    <3>1. PICK n \in Nat :
             /\ request'[r].at = request[r].at /\ request'[r].verdict = request[r].verdict
             /\ request'[r].stage = [request[r].stage EXCEPT ![b] = "previous"]
             /\ request'[r].current = [request[r].current EXCEPT ![b] = n]
      <4>1. Value(b, WindowOf(request[r].at)) + 1 \in Nat
        BY RequestType, ValueType
      <4> QED BY <1>5, <4>1, IncrementEffect
    <3>2. request[r].stage[b] = "increment" /\ request[r].verdict[b] = "none"
      BY <1>5, CountedFacts DEF Increment
    <3>3. /\ c # b => /\ request'[r].stage[c] = request[r].stage[c]
                      /\ request'[r].current[c] = request[r].current[c]
          /\ c = b => request'[r].stage[c] = "previous"
      BY <3>1, RequestType DEF Record, Stages
    <3>4. CASE c # b
      BY <1>0, <2>1, <2>3, <3>1, <3>3, <3>4, WeighedKept
    <3>5. CASE c = b
      <4>1. request'[r].verdict[c] # "allowed" /\ request'[r].stage[c] # "increment"
        BY <3>1, <3>2, <3>3, <3>5
      <4> QED BY <2>3, <4>1 DEF WeighedRequest
    <3> QED BY <3>4, <3>5
  <2> QED BY <2>2, <2>3
<1>6. ASSUME NEW r \in Requests, NEW b \in Buckets, StoreFails(r, b),
             NEW s \in Requests, NEW c \in Buckets
      PROVE  WeighedRequest(s, c)'
  <2>1. clock' = clock /\ Judge(r, b, "error") /\ "error" \in Verdicts /\ "error" # "allowed"
    BY <1>6 DEF StoreFails, Verdicts
  <2>2. CASE s # r
    BY <1>2, <2>1, <2>2, JudgeEffect
  <2>3. CASE s = r
    BY <1>0, <2>1, <2>3, JudgedVerdict, WeighedKept
  <2> QED BY <2>2, <2>3
<1>7. ASSUME NEW r \in Requests, NEW b \in Buckets, Estimate(r, b),
             NEW s \in Requests, NEW c \in Buckets
      PROVE  WeighedRequest(s, c)'
  <2>1. request[r].pc # "idle" /\ clock' = clock /\ count' = count
    BY <1>7, InFlight DEF Estimate
  <2>2. PICK n \in Nat : n = Previous(r, b) /\ n = Prior(b, WindowOf(request[r].at))
    BY <2>1, PreviousLive
  <2>3. PICK v \in Verdicts :
           /\ Judge(r, b, v)
           /\ v = "allowed" => Weighted(r, n) + request[r].current[b] * Window <= Limit(b) * Window
    BY <1>7, <2>2 DEF Estimate, Verdicts
  <2>4. CASE s # r
    BY <1>2, <2>1, <2>3, <2>4, JudgeEffect
  <2>5. CASE s = r /\ c # b
    BY <1>0, <2>1, <2>3, <2>5, JudgedVerdict, WeighedKept
  <2>6. CASE s = r /\ c = b
    <3>1. /\ request'[r].stage[b] = "none" /\ request'[r].verdict[b] = v
          /\ request'[r].at = request[r].at /\ request'[r].current = request[r].current
      BY <2>3, JudgedVerdict
    <3>2. v = "allowed" => Within(b, request[r].at, request[r].current[b])
      BY <2>2, <2>3 DEF Within, Weighted
    <3>3. v = "allowed" => Within(b, request[r].at, request[r].current[b])'
      BY <2>1, <3>1, <3>2 DEF Within, Prior
    <3> QED BY <2>6, <3>1, <3>3 DEF WeighedRequest
  <2> QED BY <2>4, <2>5, <2>6
<1>8. ASSUME NEW r \in Requests, Admit(r) \/ Refuse(r) \/ Drain(r),
             NEW s \in Requests, NEW c \in Buckets
      PROVE  WeighedRequest(s, c)'
  <2>1. Done(r) /\ clock' = clock
    BY <1>8 DEF Admit, Refuse, Drain
  <2>2. CASE s = r
    BY <1>3, <2>1, <2>2, DoneEffect
  <2>3. CASE s # r
    BY <1>2, <2>1, <2>3, DoneEffect
  <2> QED BY <2>2, <2>3
<1>9. ASSUME NEW r \in Requests, Reject(r), NEW s \in Requests, NEW c \in Buckets
      PROVE  WeighedRequest(s, c)'
  <2>1. clock' = clock
    BY <1>9 DEF Reject
  <2>2. CASE s = r
    BY <1>0, <1>9, <2>1, <2>2, RejectEffect, WeighedKept
  <2>3. CASE s # r
    BY <1>2, <1>9, <2>1, <2>3, RejectEffect
  <2> QED BY <2>2, <2>3
<1>10. ASSUME Tick, NEW s \in Requests, NEW c \in Buckets
       PROVE  WeighedRequest(s, c)'
  <2>1. /\ clock' = clock + 1 /\ request' = request /\ count' = count
        /\ request[s].stage[c] = "increment" => WindowOf(request[s].at) = WindowOf(clock + 1)
    BY <1>10 DEF Tick
  <2>2. request[s].verdict[c] = "allowed" => Within(c, request[s].at, request[s].current[c])
    BY <1>0 DEF Weighed
  <2> QED BY <2>1, <2>2 DEF WeighedRequest, Within, Prior
<1>11. ASSUME UNCHANGED vars, NEW s \in Requests, NEW c \in Buckets
       PROVE  WeighedRequest(s, c)'
  BY <1>2, <1>11 DEF vars
<1>12. \A s \in Requests, c \in Buckets : WeighedRequest(s, c)'
  BY <1>4, <1>5, <1>6, <1>7, <1>8, <1>9, <1>10, <1>11 DEF Next
<1> QED BY <1>1, <1>12, WeighedOf

-----------------------------------------------------------------------------
(***************************************************************************)
(* Counting: admissions with places of their own are as few as the places. *)
(***************************************************************************)
LEMMA Places ==
  ASSUME TypeOK, Counted, NEW b \in Buckets, NEW from \in Int, NEW to \in Int,
         NEW w \in Nat, NEW n \in Nat,
         \A k \in DOMAIN admitted[b] : admitted[b][k].at \in from .. to =>
            WindowOf(admitted[b][k].at) = w /\ admitted[b][k].place \in 1 .. n
  PROVE  Admitted(b, from, to) \in Nat /\ Admitted(b, from, to) <= n
<1> DEFINE S == {k \in DOMAIN admitted[b] : admitted[b][k].at \in from .. to}
           f == [k \in S |-> admitted[b][k].place]
<1>1. f \in [S -> 1 .. n]
  OBVIOUS
<1>2. ASSUME NEW j \in S, NEW k \in S, f[j] = f[k]
      PROVE  j = k
  <2>1. WindowOf(admitted[b][j].at) = WindowOf(admitted[b][k].at)
    OBVIOUS
  <2>2. admitted[b][j].place = admitted[b][k].place
    BY <1>2
  <2> QED BY <2>1, <2>2 DEF Counted, Apart
<1>3. f \in Injection(S, 1 .. n)
  BY <1>1, <1>2 DEF Injection, IsInjective
<1>4. IsFiniteSet(1 .. n) /\ Cardinality(1 .. n) = n
  BY FS_Interval
<1>5. IsFiniteSet(S) /\ Cardinality(S) <= n
  BY <1>3, <1>4, FS_Injection
<1>6. Cardinality(S) \in Nat
  BY <1>5, FS_CardinalityType
<1> QED BY <1>5, <1>6 DEF Admitted

LEMMA WithinLimit ==
  ASSUME CountInv, NEW b \in Buckets, NEW w \in Windows
  PROVE  Admitted(b, Start(w), End(w)) <= Limit(b)
<1> USE DEF CountInv
<1>1. w \in Nat /\ Start(w) \in Int /\ End(w) \in Int /\ Limit(b) \in Nat
  BY StartType, LimitType, ConstantsAssumption DEF Windows, End
<1>2. ASSUME NEW k \in DOMAIN admitted[b], admitted[b][k].at \in Start(w) .. End(w)
      PROVE  WindowOf(admitted[b][k].at) = w /\ admitted[b][k].place \in 1 .. Limit(b)
  BY <1>1, <1>2, AdmissionType, WindowIs DEF Counted, Recorded
<1> QED BY <1>1, <1>2, Places

\* A window's counter is at least what was let through in it.
LEMMA WithinCounter ==
  ASSUME CountInv, NEW b \in Buckets, NEW w \in Windows
  PROVE  /\ Admitted(b, Start(w), End(w)) \in Nat
         /\ Admitted(b, Start(w), End(w)) <= count[b][w].value
<1> USE DEF CountInv
<1>1. w \in Nat /\ Start(w) \in Int /\ End(w) \in Int /\ count[b][w].value \in Nat
  BY StartType, CounterType, ConstantsAssumption DEF Windows, End
<1>2. ASSUME NEW k \in DOMAIN admitted[b], admitted[b][k].at \in Start(w) .. End(w)
      PROVE  WindowOf(admitted[b][k].at) = w /\ admitted[b][k].place \in 1 .. count[b][w].value
  <2>1. WindowOf(admitted[b][k].at) = w
    BY <1>1, <1>2, AdmissionType, WindowIs
  <2>2. Recorded(b, k) /\ admitted[b][k].place \in Nat
    BY AdmissionType DEF Counted
  <2>3. admitted[b][k].place >= 1
    BY <2>2, LimitType DEF Recorded
  <2> QED BY <1>1, <2>1, <2>2, <2>3 DEF Recorded
<1> QED BY <1>1, <1>2, Places

\* Nothing was let through before the first window.
LEMMA NoneBefore ==
  ASSUME TypeOK, Counted, NEW b \in Buckets
  PROVE  Admitted(b, Start(0 - 1), End(0 - 1)) = 0
<1>1. Start(0 - 1) = 0 - Window /\ End(0 - 1) = 0 - 1
  BY ConstantsAssumption, SMT DEF Start, End
<1>2. \A k \in DOMAIN admitted[b] : admitted[b][k].at \notin Start(0 - 1) .. End(0 - 1)
  BY <1>1, AdmissionType, ConstantsAssumption
<1>3. {k \in DOMAIN admitted[b] : admitted[b][k].at \in Start(0 - 1) .. End(0 - 1)} = {}
  BY <1>2
<1> QED BY <1>3, FS_EmptySet DEF Admitted

\* Products with the window's length keep their order.
LEMMA Scaled ==
  ASSUME NEW a \in Nat, NEW b \in Nat, NEW m \in Nat, a <= b
  PROVE  a * m \in Nat /\ b * m \in Nat /\ a * m <= b * m
<1>1. PICK d \in Nat : b = a + d
  BY SMT
<1>2. b * m = a * m + d * m
  BY <1>1, SMT
<1>3. a * m \in Nat /\ b * m \in Nat /\ d * m \in Nat
  BY SMT
<1> QED BY <1>2, <1>3

\* The largest place within a budget.
LEMMA Budget ==
  ASSUME NEW q \in Nat
  PROVE  \E m \in Nat : m * Window <= q /\ \A p \in Nat : p * Window <= q => p <= m
<1>1. PICK m \in Nat, e \in 0 .. Window - 1 : q = Start(m) + e
  BY WindowArithmetic
<1>2. Start(m) = m * Window /\ Start(m) \in Nat
  BY StartType DEF Start
<1>3. ASSUME NEW p \in Nat, p * Window <= q, m < p
      PROVE  FALSE
  <2>1. Start(m) + Window <= Start(p)
    BY <1>3, WindowsApart
  <2>2. PICK x \in Nat : x = Start(p) /\ x = p * Window
    BY StartType DEF Start
  <2> QED BY <1>1, <1>2, <1>3, <2>1, <2>2, ConstantsAssumption
<1> QED BY <1>1, <1>2, <1>3

LEMMA NotDoubled ==
  ASSUME WeightInv, ~ straddled, NEW b \in Buckets, NEW k \in DOMAIN admitted[b],
         NEW t, t = admitted[b][k].at, NEW w, w = WindowOf(t)
  PROVE  Admitted(b, Start(w - 1), End(w - 1)) * (Window - (t % Window))
           + Admitted(b, Start(w), t) * Window <= Limit(b) * Window
<1> USE DEF WeightInv, CountInv
<1>1. t \in Nat /\ t \in 0 .. MaxClock /\ w \in Windows /\ w \in Nat
  BY AdmissionType, WindowArithmetic
<1>2. PICK e \in 0 .. Window - 1 : e = t % Window /\ t = Start(w) + e
  BY <1>1, WindowArithmetic
<1>3. PICK c \in Nat, a \in Nat :
         /\ c = Prior(b, w) /\ a = Admitted(b, Start(w - 1), End(w - 1)) /\ a <= c
  <2>1. CASE w = 0
    BY <2>1, NoneBefore DEF Prior
  <2>2. CASE w # 0
    <3>1. w - 1 \in Windows
      BY <1>1, <2>2, WindowBefore
    <3> QED BY <2>2, <3>1, WithinCounter, CounterType DEF Prior
  <2> QED BY <2>1, <2>2
<1>4. PICK l \in Nat : l = Limit(b) * Window
  BY LimitType, ConstantsAssumption, SMT
<1>5. PICK m \in Nat : m = Window - e /\ Window \in Nat
  BY <1>2, ConstantsAssumption
\* Whoever was let through up to t was let through for the previous window's counter.
<1>6. ASSUME NEW j \in DOMAIN admitted[b], admitted[b][j].at \in Start(w) .. t
      PROVE  /\ WindowOf(admitted[b][j].at) = w
             /\ admitted[b][j].place \in Nat \ {0}
             /\ c * m + admitted[b][j].place * Window <= l
  <2>1. PICK u \in Nat, p \in Nat : u = admitted[b][j].at /\ p = admitted[b][j].place
    BY AdmissionType
  <2>2. u \in Start(w) .. End(w)
    BY <1>1, <1>2, <1>5, <1>6, <2>1, StartType DEF End
  <2>3. WindowOf(u) = w
    BY <1>1, <2>2, WindowIs
  <2>4. PICK d \in 0 .. Window - 1 : d = u % Window /\ u = Start(w) + d
    BY <2>3, WindowArithmetic
  <2>5. d <= e /\ Window - d \in Nat /\ m <= Window - d
    <3>1. PICK x \in Nat : x = Start(w)
      BY <1>1, StartType
    <3>2. u = x + d /\ t = x + e
      BY <1>2, <2>4, <3>1
    <3>3. u \in x .. t
      BY <1>6, <2>1, <3>1
    <3>4. u <= t
      BY <1>1, <3>1, <3>3
    <3>5. d \in Nat /\ e \in Nat /\ Window \in Nat /\ d < Window
      BY <1>2, <2>4, ConstantsAssumption
    <3> QED BY <1>1, <1>5, <3>2, <3>4, <3>5
  <2>6. c * (Window - d) + p * Window <= l
    BY <1>3, <1>4, <2>1, <2>3, <2>4 DEF Weighed, Within
  <2>7. c * m <= c * (Window - d) /\ c * m \in Nat /\ c * (Window - d) \in Nat
    <3>1. PICK n \in Nat : n = Window - d
      BY <2>5
    <3>2. m * c <= n * c /\ m * c \in Nat /\ n * c \in Nat
      BY <2>5, <3>1, Scaled
    <3>3. m * c = c * m /\ n * c = c * n
      BY SMT
    <3> QED BY <3>1, <3>2, <3>3
  <2>8. p * Window \in Nat
    BY <1>5, SMT
  <2>9. c * m + p * Window <= l
    <3>1. PICK x \in Nat, y \in Nat, z \in Nat : x = c * m /\ y = c * (Window - d) /\ z = p * Window
      BY <2>7, <2>8
    <3> QED BY <2>6, <2>7, <3>1
  <2>10. p > 0
    BY <2>1, LimitType DEF Counted, Recorded
  <2> QED BY <2>1, <2>3, <2>9, <2>10
<1>7. PICK x \in Nat : x = c * m
  BY SMT
<1>8. l - x \in Nat
  <2>1. t \in Start(w) .. t /\ Start(w) \in Nat
    BY <1>1, <1>2, StartType
  <2>2. PICK p \in Nat : p = admitted[b][k].place /\ x + p * Window <= l
    BY <1>6, <1>7, <2>1
  <2>3. PICK z \in Nat : z = p * Window
    BY <1>5, SMT
  <2> QED BY <2>2, <2>3
<1>9. PICK n \in Nat : n * Window <= l - x /\ \A p \in Nat : p * Window <= l - x => p <= n
  BY <1>8, Budget
<1>10. PICK h \in Nat : h = Admitted(b, Start(w), t) /\ h <= n
  <2>1. ASSUME NEW j \in DOMAIN admitted[b], admitted[b][j].at \in Start(w) .. t
        PROVE  WindowOf(admitted[b][j].at) = w /\ admitted[b][j].place \in 1 .. n
    <3>1. PICK p \in Nat : p = admitted[b][j].place /\ p > 0 /\ x + p * Window <= l
      BY <1>6, <1>7, <2>1
    <3>2. PICK z \in Nat : z = p * Window
      BY <1>5, SMT
    <3>3. p <= n
      BY <1>9, <3>1, <3>2
    <3> QED BY <1>6, <2>1, <3>1, <3>3
  <2>2. Start(w) \in Int /\ t \in Int
    BY <1>1, StartType
  <2> QED BY <1>1, <2>1, <2>2, Places
<1>11. a * m \in Nat /\ a * m <= x
  BY <1>3, <1>7, Scaled
<1>12. h * Window \in Nat /\ h * Window <= n * Window /\ n * Window \in Nat
  BY <1>5, <1>10, Scaled
<1>13. a * m + h * Window <= l
  <2>1. PICK y \in Nat, z \in Nat, v \in Nat : y = a * m /\ z = h * Window /\ v = n * Window
    BY <1>11, <1>12
  <2> QED BY <1>9, <1>11, <1>12, <2>1
<1> QED BY <1>2, <1>3, <1>4, <1>5, <1>10, <1>13

-----------------------------------------------------------------------------
(***************************************************************************)
(* The theorems.                                                           *)
(***************************************************************************)
\* Every variable keeps its type, however the limiter treats a failing store.
THEOREM TypeCorrect == Spec => []TypeOK
<1>1. Init => TypeOK
  BY InitType
<1>2. TypeOK /\ [Next]_vars => TypeOK'
  BY TypeStep
<1> QED BY <1>1, <1>2, PTL DEF Spec

\* However many requests race, from however many addresses and with whatever
\* limits, and whichever commands fail, no bucket lets more through in a window
\* than its limit (limiter.ts:69-96), as long as no request is in flight for
\* longer than the two windows its counter outlives its window by.
THEOREM WindowLimitHolds ==
  ASSUME Stall <= 2 * Window
  PROVE  Spec => []WindowLimit
<1>1. CASE OnStoreError = "closed"
  <2>1. Init => CountInv
    BY CountInvInit
  <2>2. CountInv /\ [Next]_vars => CountInv'
    BY <1>1, CountInvStep
  <2>3. CountInv => WindowLimit
    BY WithinLimit DEF WindowLimit
  <2> QED BY <2>1, <2>2, <2>3, PTL DEF Spec
<1>2. CASE OnStoreError # "closed"
  <2>1. WindowLimit
    BY <1>2 DEF WindowLimit
  <2> QED BY <2>1, PTL
<1> QED BY <1>1, <1>2

\* Nor does a bucket let through around a boundary more than its limit, the
\* previous window's share weighed as the code weighs it (limiter.ts:81-87),
\* unless a request counted itself in a window gone by.
THEOREM NoDoublingHolds ==
  ASSUME Stall <= Window
  PROVE  Spec => []NoDoubling
<1>0. Stall <= 2 * Window
  BY ConstantsAssumption
<1>1. CASE OnStoreError = "closed"
  <2>1. Init => WeightInv
    <3>1. Init => Weighed
      BY NoRequestFacts DEF Init, Weighed
    <3> QED BY <3>1, CountInvInit DEF WeightInv
  <2>2. WeightInv /\ [Next]_vars => WeightInv'
    BY <1>0, <1>1, CountInvStep, WeighedStep DEF WeightInv
  <2>3. WeightInv => NoDoubling
    BY NotDoubled DEF NoDoubling
  <2> QED BY <2>1, <2>2, <2>3, PTL DEF Spec
<1>2. CASE OnStoreError # "closed"
  <2>1. NoDoubling
    BY <1>2 DEF NoDoubling
  <2> QED BY <2>1, PTL
<1> QED BY <1>1, <1>2
=============================================================================
