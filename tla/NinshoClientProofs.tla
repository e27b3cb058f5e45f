-------------------------- MODULE NinshoClientProofs --------------------------
(***************************************************************************)
(* One page's identity, for every set of calls and users: a late answer, a *)
(* retry or a sign-in that was overtaken never reaches it.  The argument   *)
(* is the generation counter.  Whatever ends the page's identity opens a   *)
(* new generation, and what a call or a refresh attempt is sent under is   *)
(* never newer; so one that is still current was begun after the last end, *)
(* and there is at most one such sign-in and one such attempt.             *)
(***************************************************************************)
EXTENDS NinshoClient, TLAPS

\* The sign-out that is under way.
Leaving(r) == r.op = "signOut" /\ r.pc \in {"proof", "wire", "clear"}

\* A sign-in that has a generation of its own.
Entering(r) == r.op = "signIn" /\ r.pc \in {"proof", "wire", "body"}

CallOK(c, r) ==
    /\ r.gen <= generation
    /\ logoutInFlight = c <=> Leaving(r)
    /\ logoutInFlight \notin {NoCall, c} /\ Current(r) => r.pc \in {"idle", "awaitLogout"}
    /\ r.op = "fetch" /\ Current(r) => r.born = ends
    /\ Entering(r) /\ Current(r) => r.born = identity

CallsOK == \A c \in Calls : CallOK(c, call[c])

\* Of sign-ins that overlap at most one still counts.
OneSignIn ==
    \A c, d \in Calls :
        /\ Entering(call[c]) /\ Current(call[c])
        /\ Entering(call[d]) /\ Current(call[d])
        => c = d

AttemptOK(c, a) ==
    /\ a.gen <= generation
    /\ (a.pc # "none" /\ Current(a)) <=> refreshInFlight = c
    /\ a.pc # "none" /\ Current(a) => a.born = ends

AttemptsOK == \A c \in Calls : AttemptOK(c, attempt[c])

NoRefreshInLogout == logoutInFlight # NoCall => refreshInFlight = NoCall

IInv == TypeOK /\ CallsOK /\ OneSignIn /\ AttemptsOK /\ NoRefreshInLogout

-----------------------------------------------------------------------------
(***************************************************************************)
(* Types.                                                                  *)
(***************************************************************************)
LEMMA NoneTyped == NoCallRecord \in CallRecords /\ NoAttempt \in Attempts
  BY DEF NoCallRecord, CallRecords, NoAttempt, Attempts, Methods, MaybeUser, MaybeCall

LEMMA RecordTyped ==
  ASSUME TypeOK, NEW op \in Methods, NEW l \in {"proof", "join", "awaitLogout", "clear"},
         NEW g \in Nat, NEW u \in MaybeUser
  PROVE  LET r == Record(op, l, g, u)
         IN  /\ r \in CallRecords
             /\ r.op = op /\ r.pc = l /\ r.gen = g /\ r.user = u
             /\ r.born = IF op = "signIn" THEN identity ELSE ends
  BY NoneTyped DEF Record, NoCallRecord, CallRecords, TypeOK

LEMMA TypeInit == Init => TypeOK
<1> SUFFICES ASSUME Init PROVE TypeOK
  OBVIOUS
<1>1. call \in [Calls -> CallRecords] /\ attempt \in [Calls -> Attempts]
  BY NoneTyped DEF Init
<1>2. identityInvalidated \in BOOLEAN /\ disposed \in BOOLEAN
  BY DEF Init
<1>3. /\ accessToken \in MaybeUser /\ cookie \in MaybeUser
      /\ refreshInFlight \in MaybeCall /\ logoutInFlight \in MaybeCall
  BY DEF Init, MaybeUser, MaybeCall
<1>4. generation \in Nat /\ identity \in Nat /\ ends \in Nat /\ ops \in Nat /\ events \in Nat
  BY DEF Init
<1> QED BY <1>1, <1>2, <1>3, <1>4 DEF TypeOK

LEMMA PutTyped ==
  ASSUME TypeOK, NEW c \in Calls, NEW r \in CallRecords, Put(c, r)
  PROVE  call' \in [Calls -> CallRecords]
  BY DEF Put, TypeOK

LEMMA MoveTyped ==
  ASSUME NEW r \in CallRecords,
         NEW l \in {"wire", "body", "join", "joined", "awaitLogout", "logoutOver", "clear"},
         NEW d \in MaybeCall, NEW b \in BOOLEAN, NEW u \in MaybeUser
  PROVE  /\ [r EXCEPT !.pc = l] \in CallRecords
         /\ [r EXCEPT !.pc = l, !.on = d] \in CallRecords
         /\ [r EXCEPT !.pc = l, !.ok = b] \in CallRecords
         /\ [r EXCEPT !.op = "retry", !.pc = "proof", !.user = u] \in CallRecords
  BY DEF CallRecords, Methods

LEMMA OnTyped ==
  ASSUME NEW r \in CallRecords, NEW d \in MaybeCall
  PROVE  [r EXCEPT !.on = d] \in CallRecords
  BY DEF CallRecords

LEMMA RefreshTyped ==
  ASSUME TypeOK, NEW c \in Calls, NEW r \in CallRecords, RefreshOnce(c, r)
  PROVE  /\ call' \in [Calls -> CallRecords] /\ refreshInFlight' \in MaybeCall
         /\ attempt' \in [Calls -> Attempts]
<1> USE DEF TypeOK, MaybeCall
<1>1. CASE ~MayRefresh
  BY <1>1, NoneTyped, PutTyped DEF RefreshOnce, Return
<1>2. CASE MayRefresh /\ refreshInFlight # NoCall
  BY <1>2, MoveTyped, PutTyped DEF RefreshOnce, MaybeUser
<1>3. CASE MayRefresh /\ refreshInFlight = NoCall
  <2>1. [pc |-> "proof", born |-> ends, gen |-> generation, user |-> NoUser] \in Attempts
    BY DEF Attempts, MaybeUser
  <2> QED BY <1>3, <2>1, MoveTyped, PutTyped DEF RefreshOnce, MaybeUser
<1> QED BY <1>1, <1>2, <1>3

LEMMA SettleTyped ==
  ASSUME TypeOK, NEW c \in Calls, NEW ok \in BOOLEAN, Settle(c, ok)
  PROVE  /\ call' \in [Calls -> CallRecords] /\ refreshInFlight' \in MaybeCall
         /\ attempt' \in [Calls -> Attempts]
<1>1. \A d \in Calls : [call[d] EXCEPT !.pc = "joined", !.ok = ok] \in CallRecords
  BY DEF TypeOK, CallRecords
<1> QED BY <1>1, NoneTyped DEF Settle, TypeOK, MaybeCall

LEMMA TypeNext == ASSUME TypeOK, [Next]_vars PROVE TypeOK'
<1> USE DEF TypeOK, MaybeUser, MaybeCall, Event, Begin, bounds, history, fields, flights
<1> USE ConstantsAssumption
<1>1. ASSUME NEW c \in Calls, CallRefresh(c) PROVE TypeOK'
  <2>1. Record("refresh", "join", generation, NoUser) \in CallRecords
    BY RecordTyped DEF Methods
  <2> QED BY <1>1, <2>1, RefreshTyped DEF CallRefresh
<1>2. ASSUME NEW c \in Calls, CallFetch(c) PROVE TypeOK'
  <2>1. Record("fetch", "proof", generation, accessToken) \in CallRecords
    BY RecordTyped DEF Methods
  <2> QED BY <1>2, <2>1, PutTyped DEF CallFetch
<1>3. ASSUME NEW c \in Calls, CallSignOut(c) PROVE TypeOK'
  <2>1. CASE logoutInFlight # NoCall
    <3>1. Record("signOut", "awaitLogout", generation, NoUser) \in CallRecords
      BY RecordTyped DEF Methods
    <3>2. [Record("signOut", "awaitLogout", generation, NoUser)
             EXCEPT !.on = logoutInFlight] \in CallRecords
      BY <3>1, OnTyped
    <3> QED BY <1>3, <2>1, <3>2, PutTyped DEF CallSignOut
  <2>2. CASE logoutInFlight = NoCall
    <3>1. \A l \in {"clear", "proof"} :
             Record("signOut", l, generation + 1, accessToken) \in CallRecords
      BY RecordTyped DEF Methods
    <3> QED BY <1>3, <2>2, <3>1, PutTyped DEF CallSignOut, NewIdentity
  <2> QED BY <2>1, <2>2
<1>4. ASSUME NEW c \in Calls, NEW u \in Users, CallSignIn(c, u) PROVE TypeOK'
  <2>1. CASE logoutInFlight # NoCall
    <3>1. Record("signIn", "awaitLogout", generation, u) \in CallRecords
      BY RecordTyped DEF Methods
    <3>2. [Record("signIn", "awaitLogout", generation, u)
             EXCEPT !.on = logoutInFlight] \in CallRecords
      BY <3>1, OnTyped
    <3> QED BY <1>4, <2>1, <3>2, PutTyped DEF CallSignIn
  <2>2. CASE logoutInFlight = NoCall
    <3>1. Record("signIn", "proof", generation + 1, u) \in CallRecords
      BY RecordTyped DEF Methods
    <3> QED BY <1>4, <2>2, <3>1, PutTyped DEF CallSignIn, StartSignIn
  <2> QED BY <2>1, <2>2
<1>5. ASSUME NEW c \in Calls, ResumeSignIn(c) PROVE TypeOK'
  <2>1. PICK u \in MaybeUser : u = call[c].user
    BY DEF CallRecords
  <2>2. PICK g \in Nat : g = generation + 1
    OBVIOUS
  <2>3. Record("signIn", "proof", g, u) \in CallRecords
    BY RecordTyped DEF Methods
  <2> QED BY <1>5, <2>1, <2>2, <2>3, PutTyped, NoneTyped DEF ResumeSignIn, StartSignIn, Return
<1>6. ASSUME NEW c \in Calls, FetchRefused(c) PROVE TypeOK'
  BY <1>6, RefreshTyped DEF FetchRefused
<1>7. ASSUME NEW c \in Calls,
             SendFetch(c) \/ FetchAnswered(c) \/ Joined(c) \/ SendSignIn(c) \/ SignInRefused(c)
               \/ SendLogout(c) \/ SignOutJoined(c)
      PROVE  TypeOK'
  BY <1>7, MoveTyped, PutTyped, NoneTyped DEF SendFetch, FetchAnswered, Joined, SendSignIn,
     SignInRefused, SendLogout, SignOutJoined, Return, ReturnOnly
<1>8. ASSUME NEW c \in Calls, SignInGranted(c) \/ LogoutAnswered(c) PROVE TypeOK'
  <2>1. call[c].user \in MaybeUser
    BY DEF CallRecords
  <2>2. [call[c] EXCEPT !.pc = "body"] \in CallRecords
    BY MoveTyped DEF MaybeCall
  <2>3. [call[c] EXCEPT !.pc = "clear"] \in CallRecords
    BY MoveTyped DEF MaybeCall
  <2>4. call' \in [Calls -> CallRecords]
    BY <1>8, <2>2, <2>3, PutTyped, NoneTyped DEF SignInGranted, LogoutAnswered, Return
  <2> QED BY <1>8, <2>1, <2>4 DEF SignInGranted, LogoutAnswered
<1>15. ASSUME NEW c \in Calls, SignInBody(c) PROVE TypeOK'
  <2>1. call[c].user \in MaybeUser
    BY DEF CallRecords
  <2>2. call' \in [Calls -> CallRecords]
    BY <1>15, PutTyped, NoneTyped DEF SignInBody, Return
  <2>3. identityInvalidated' \in BOOLEAN /\ disposed' \in BOOLEAN
    BY <1>15 DEF SignInBody
  <2>4. identity' \in Nat
    BY <1>15 DEF SignInBody
  <2> QED BY <1>15, <2>1, <2>2, <2>3, <2>4 DEF SignInBody
<1>9. ASSUME NEW c \in Calls, LogoutOver(c) PROVE TypeOK'
  <2>1. \A d \in Calls : [call[d] EXCEPT !.pc = "logoutOver"] \in CallRecords
    BY DEF CallRecords
  <2> QED BY <1>9, <2>1, NoneTyped DEF LogoutOver
<1>10. ASSUME NEW c \in Calls, SendAttempt(c) \/ AttemptGranted(c) PROVE TypeOK'
  <2>1. \A u \in MaybeUser : [attempt[c] EXCEPT !.pc = "wire", !.user = u] \in Attempts
    BY DEF Attempts
  <2>2. [attempt[c] EXCEPT !.pc = "body"] \in Attempts
    BY DEF Attempts
  <2> QED BY <1>10, <2>1, <2>2 DEF SendAttempt, AttemptGranted
<1>11. ASSUME NEW c \in Calls, AbandonAttempt(c) \/ AttemptRefused(c) \/ Adopt(c) PROVE TypeOK'
  <2>1. attempt[c].user \in MaybeUser
    BY DEF Attempts
  <2> QED BY <1>11, <2>1, SettleTyped DEF AbandonAttempt, AttemptRefused, Adopt
<1>12. ASSUME NEW u \in MaybeUser, SetAccessToken(u) \/ PeerCookie(u) PROVE TypeOK'
  BY <1>12 DEF SetAccessToken, PeerCookie, NewIdentity
<1>13. CASE Notice \/ Dispose
  <2>1. identityInvalidated' \in BOOLEAN /\ disposed' \in BOOLEAN
    BY <1>13 DEF Notice, Dispose, Invalidate
  <2> QED BY <1>13, <2>1 DEF Notice, Dispose, Invalidate, NewIdentity
<1>14. CASE UNCHANGED vars
  BY <1>14 DEF vars
<1> QED BY <1>1, <1>2, <1>3, <1>4, <1>5, <1>6, <1>7, <1>8, <1>9, <1>10, <1>11, <1>12, <1>13,
        <1>14, <1>15 DEF Next, CallAny, StepOf, AttemptStep

-----------------------------------------------------------------------------
(***************************************************************************)
(* The shapes of a step.                                                   *)
(***************************************************************************)
core == <<generation, flights, call, attempt, history>>

LEMMA CoreStill ==
  ASSUME IInv, TypeOK', UNCHANGED core
  PROVE  IInv'
  BY DEF IInv, core, flights, history, CallsOK, CallOK, OneSignIn, AttemptsOK, AttemptOK,
     NoRefreshInLogout, Current

\* One call moves to r.
LEMMA CallMoves ==
  ASSUME IInv, TypeOK', NEW c \in Calls, NEW r, Put(c, r),
         UNCHANGED <<generation, flights, attempt, history>>,
         CallOK(c, r),
         Entering(r) /\ Current(r) => Entering(call[c]) /\ Current(call[c])
  PROVE  IInv'
<1> USE DEF flights, history
<1>1. call'[c] = r /\ \A d \in Calls \ {c} : call'[d] = call[d]
  BY DEF Put, IInv, TypeOK
<1>2. CallsOK'
  BY <1>1 DEF IInv, CallsOK, CallOK, Current
<1>3. OneSignIn'
  BY <1>1 DEF IInv, OneSignIn, Current
<1>4. AttemptsOK' /\ NoRefreshInLogout'
  BY DEF IInv, AttemptsOK, AttemptOK, NoRefreshInLogout, Current
<1> QED BY <1>2, <1>3, <1>4 DEF IInv

LEMMA NoneOK ==
  ASSUME IInv, NEW c \in Calls, logoutInFlight # c
  PROVE  CallOK(c, NoCallRecord) /\ ~Entering(NoCallRecord)
  BY DEF CallOK, NoCallRecord, Leaving, Entering, IInv, TypeOK

\* A call that is not the sign-out under way is over.
LEMMA CallReturns ==
  ASSUME IInv, TypeOK', NEW c \in Calls, Return(c), ~Leaving(call[c]),
         UNCHANGED <<generation, flights, attempt, history>>
  PROVE  IInv'
<1>1. logoutInFlight # c
  BY DEF IInv, CallsOK, CallOK
<1> QED BY <1>1, NoneOK, CallMoves DEF Return

\* In a new generation nothing begun before counts.
LEMMA NewGeneration ==
  ASSUME IInv, TypeOK', generation' = generation + 1, refreshInFlight' = NoCall,
         UNCHANGED <<logoutInFlight, call, attempt>>
  PROVE  IInv'
<1> USE DEF IInv
<1>1. \A c \in Calls : call[c].gen \in Nat /\ attempt[c].gen \in Nat /\ generation \in Nat
  BY DEF TypeOK, CallRecords, Attempts
<1>2. \A c \in Calls : ~Current(call[c])' /\ ~Current(attempt[c])'
  BY <1>1 DEF Current, CallsOK, CallOK, AttemptsOK, AttemptOK
<1>3. CallsOK'
  BY <1>1, <1>2 DEF CallsOK, CallOK
<1>4. OneSignIn'
  BY <1>2 DEF OneSignIn
<1>5. AttemptsOK' /\ NoRefreshInLogout'
  BY <1>1, <1>2, ConstantsAssumption DEF AttemptsOK, AttemptOK, NoRefreshInLogout
<1> QED BY <1>3, <1>4, <1>5

\* A call opens a generation of its own, with the record r.
LEMMA OwnGeneration ==
  ASSUME IInv, TypeOK', NEW c \in Calls, NEW r, Put(c, r),
         generation' = generation + 1, refreshInFlight' = NoCall, UNCHANGED attempt,
         \A d \in Calls \ {c} : logoutInFlight' = d <=> logoutInFlight = d,
         r.gen = generation + 1,
         logoutInFlight' = c <=> Leaving(r),
         logoutInFlight' \in {NoCall, c},
         r.op # "fetch", Entering(r) => r.born = identity'
  PROVE  IInv'
<1> USE DEF IInv
<1>1. \A d \in Calls : call[d].gen \in Nat /\ attempt[d].gen \in Nat /\ generation \in Nat
  BY DEF TypeOK, CallRecords, Attempts
<1>2. call'[c] = r /\ \A d \in Calls \ {c} : call'[d] = call[d]
  BY DEF Put, TypeOK
<1>3. /\ \A d \in Calls \ {c} : ~Current(call[d])'
      /\ \A d \in Calls : ~Current(attempt[d])'
  BY <1>1, <1>2 DEF Current, CallsOK, CallOK, AttemptsOK, AttemptOK
<1>4. CallsOK'
  <2>1. ASSUME NEW d \in Calls \ {c} PROVE CallOK(d, call[d])'
    BY <1>1, <1>2, <1>3 DEF CallsOK, CallOK
  <2>2. CallOK(c, call[c])'
    BY <1>1, <1>2 DEF CallOK
  <2> QED BY <2>1, <2>2 DEF CallsOK
<1>5. OneSignIn'
  BY <1>3 DEF OneSignIn
<1>6. AttemptsOK' /\ NoRefreshInLogout'
  BY <1>1, <1>3, ConstantsAssumption DEF AttemptsOK, AttemptOK, NoRefreshInLogout
<1> QED BY <1>4, <1>5, <1>6

\* #refreshOnce(), by a call that will wait with r.
LEMMA RefreshOnceOK ==
  ASSUME IInv, TypeOK', NEW c \in Calls, NEW r \in CallRecords, RefreshOnce(c, r),
         UNCHANGED <<generation, logoutInFlight, history>>,
         logoutInFlight # c, r.op \in {"refresh", "fetch"}, r.gen <= generation,
         r.op = "fetch" /\ Current(r) => r.born = ends
  PROVE  IInv'
<1> USE DEF IInv, flights, history
<1>1. CASE ~MayRefresh
  <2>1. Put(c, NoCallRecord) /\ UNCHANGED <<generation, flights, attempt, history>>
    BY <1>1 DEF RefreshOnce, Return
  <2> QED BY <2>1, NoneOK, CallMoves
<1>2. CASE MayRefresh /\ refreshInFlight # NoCall
  <2> DEFINE q == [r EXCEPT !.pc = "join", !.on = refreshInFlight]
  <2>1. q.pc = "join" /\ q.op = r.op /\ q.gen = r.gen /\ q.born = r.born
    BY DEF CallRecords
  <2>2. Put(c, q) /\ UNCHANGED <<generation, flights, attempt, history>>
    BY <1>2 DEF RefreshOnce
  <2> HIDE DEF q
  <2>3. CallOK(c, q) /\ ~Entering(q)
    BY <1>2, <2>1 DEF CallOK, MayRefresh, Leaving, Entering, Current
  <2> QED BY <2>2, <2>3, CallMoves
<1>3. CASE MayRefresh /\ refreshInFlight = NoCall
  <2> DEFINE q == [r EXCEPT !.pc = "join", !.on = c]
             a == [pc |-> "proof", born |-> ends, gen |-> generation, user |-> NoUser]
  <2>1. q.pc = "join" /\ q.op = r.op /\ q.gen = r.gen /\ q.born = r.born
    BY DEF CallRecords
  <2>2. a.pc = "proof" /\ a.born = ends /\ a.gen = generation
    OBVIOUS
  <2>3. Put(c, q) /\ refreshInFlight' = c /\ attempt' = [attempt EXCEPT ![c] = a]
    BY <1>3 DEF RefreshOnce
  <2> HIDE DEF q, a
  <2>4. /\ call'[c] = q /\ \A d \in Calls \ {c} : call'[d] = call[d]
        /\ attempt'[c] = a /\ \A d \in Calls \ {c} : attempt'[d] = attempt[d]
    BY <2>3 DEF Put, TypeOK
  <2>5. CallsOK'
    <3>1. ASSUME NEW d \in Calls \ {c} PROVE CallOK(d, call[d])'
      BY <2>4 DEF CallsOK, CallOK, Current
    <3>2. CallOK(c, call[c])'
      BY <1>3, <2>1, <2>4 DEF CallOK, MayRefresh, Leaving, Entering, Current
    <3> QED BY <3>1, <3>2 DEF CallsOK
  <2>6. OneSignIn'
    BY <2>1, <2>4 DEF OneSignIn, Entering, Current
  <2>7. AttemptsOK'
    <3>1. ASSUME NEW d \in Calls \ {c} PROVE AttemptOK(d, attempt[d])'
      BY <1>3, <2>3, <2>4, ConstantsAssumption DEF AttemptsOK, AttemptOK, Current
    <3>2. AttemptOK(c, attempt[c])'
      BY <2>2, <2>3, <2>4 DEF AttemptOK, Current, TypeOK
    <3> QED BY <3>1, <3>2 DEF AttemptsOK
  <2>8. NoRefreshInLogout'
    BY <1>3 DEF NoRefreshInLogout, MayRefresh
  <2> QED BY <2>5, <2>6, <2>7, <2>8
<1> QED BY <1>1, <1>2, <1>3

\* An attempt ends, and its waiters with it.
LEMMA SettleOK ==
  ASSUME IInv, TypeOK', NEW c \in Calls, NEW ok \in BOOLEAN, Settle(c, ok),
         attempt[c].pc # "none", UNCHANGED <<generation, logoutInFlight, history>>
  PROVE  IInv'
<1> USE DEF IInv, history
<1>1. attempt'[c] = NoAttempt /\ \A d \in Calls \ {c} : attempt'[d] = attempt[d]
  BY DEF Settle, TypeOK
<1>2. ASSUME NEW d \in Calls
      PROVE  \/ call'[d] = call[d]
             \/ /\ call[d].pc = "join" /\ call'[d].pc = "joined"
                /\ call'[d].op = call[d].op /\ call'[d].gen = call[d].gen
                /\ call'[d].born = call[d].born
  <2>1. call[d] \in CallRecords
    BY DEF TypeOK
  <2>2. [call[d] EXCEPT !.pc = "joined", !.ok = ok].pc = "joined"
        /\ [call[d] EXCEPT !.pc = "joined", !.ok = ok].op = call[d].op
        /\ [call[d] EXCEPT !.pc = "joined", !.ok = ok].gen = call[d].gen
        /\ [call[d] EXCEPT !.pc = "joined", !.ok = ok].born = call[d].born
    BY <2>1 DEF CallRecords
  <2> QED BY <2>2 DEF Settle
<1>3. CallsOK'
  <2>1. ASSUME NEW d \in Calls PROVE CallOK(d, call[d])'
    <3>1. CallOK(d, call[d])
      BY DEF CallsOK
    <3> QED BY <1>2, <3>1 DEF CallOK, Leaving, Entering, Current
  <2> QED BY <2>1 DEF CallsOK
<1>4. OneSignIn'
  <2>1. \A d \in Calls : (Entering(call[d]) /\ Current(call[d]))' =>
                              Entering(call[d]) /\ Current(call[d])
    BY <1>2 DEF Entering, Current
  <2> QED BY <2>1 DEF OneSignIn
<1>5. AttemptsOK'
  <2>1. AttemptOK(c, attempt[c])
    BY DEF AttemptsOK
  <2>2. refreshInFlight' # c
    BY <2>1, ConstantsAssumption DEF Settle, AttemptOK
  <2>3. AttemptOK(c, attempt[c])'
    BY <1>1, <2>2 DEF AttemptOK, NoAttempt, TypeOK
  <2>4. ASSUME NEW d \in Calls \ {c} PROVE AttemptOK(d, attempt[d])'
    <3>1. AttemptOK(d, attempt[d])
      BY DEF AttemptsOK
    <3>2. refreshInFlight' = d <=> refreshInFlight = d
      BY <2>1, ConstantsAssumption DEF Settle, AttemptOK
    <3> QED BY <1>1, <3>1, <3>2 DEF AttemptOK, Current
  <2> QED BY <2>3, <2>4 DEF AttemptsOK
<1>6. NoRefreshInLogout'
  BY DEF Settle, NoRefreshInLogout
<1> QED BY <1>3, <1>4, <1>5, <1>6

-----------------------------------------------------------------------------
(***************************************************************************)
(* Every step.                                                             *)
(***************************************************************************)
LEMMA CallHere ==
  ASSUME IInv, NEW c \in Calls
  PROVE  call[c] \in CallRecords /\ CallOK(c, call[c]) /\ generation \in Nat
  BY DEF IInv, TypeOK, CallsOK

\* What a move changes of a record, and what it leaves.
LEMMA Moved ==
  ASSUME NEW r \in CallRecords, NEW l
  PROVE  LET q == [r EXCEPT !.pc = l]
         IN  q.pc = l /\ q.op = r.op /\ q.gen = r.gen /\ q.born = r.born
  BY DEF CallRecords

LEMMA EventsOK ==
  ASSUME IInv, TypeOK',
         Notice \/ Dispose \/ \E u \in MaybeUser : SetAccessToken(u) \/ PeerCookie(u)
  PROVE  IInv'
<1>1. CASE Notice \/ Dispose
  BY <1>1, NewGeneration DEF Notice, Dispose, Invalidate
<1>2. ASSUME NEW u \in MaybeUser, SetAccessToken(u) PROVE IInv'
  BY <1>2, NewGeneration DEF SetAccessToken
<1>3. ASSUME NEW u \in MaybeUser, PeerCookie(u) PROVE IInv'
  BY <1>3, CoreStill DEF PeerCookie, core, fields
<1> QED BY <1>1, <1>2, <1>3

LEMMA StartSignInOK ==
  ASSUME IInv, TypeOK', NEW c \in Calls, NEW u \in MaybeUser, StartSignIn(c, u),
         logoutInFlight = NoCall
  PROVE  IInv'
<1> DEFINE r == Record("signIn", "proof", generation + 1, u)
<1>1. PICK g \in Nat : g = generation + 1
  BY CallHere
<1>2. r.op = "signIn" /\ r.pc = "proof" /\ r.gen = g /\ r.born = identity
  BY <1>1, RecordTyped DEF IInv, Methods
<1>3. /\ Put(c, r) /\ generation' = g /\ refreshInFlight' = NoCall
      /\ UNCHANGED <<attempt, logoutInFlight, identity>>
  BY <1>1 DEF StartSignIn, history
<1> HIDE DEF r
<1>4. ~Leaving(r)
  BY <1>2 DEF Leaving
<1> QED BY <1>1, <1>2, <1>3, <1>4, OwnGeneration, ConstantsAssumption

LEMMA CallSignInOK ==
  ASSUME IInv, TypeOK', NEW c \in Calls, NEW u \in Users, CallSignIn(c, u)
  PROVE  IInv'
<1>1. CASE logoutInFlight = NoCall
  BY <1>1, StartSignInOK DEF CallSignIn, MaybeUser
<1>2. CASE logoutInFlight # NoCall
  <2> DEFINE q == Record("signIn", "awaitLogout", generation, u)
             r == [q EXCEPT !.on = logoutInFlight]
  <2>1. q \in CallRecords /\ q.op = "signIn" /\ q.pc = "awaitLogout" /\ q.gen = generation
    BY RecordTyped, CallHere DEF IInv, Methods, MaybeUser
  <2>2. Put(c, r) /\ UNCHANGED <<generation, flights, attempt, history>>
    BY <1>2 DEF CallSignIn, fields
  <2> HIDE DEF q
  <2>3. r.op = "signIn" /\ r.pc = "awaitLogout" /\ r.gen = generation
    BY <2>1 DEF CallRecords
  <2> HIDE DEF r
  <2>4. CallOK(c, r) /\ ~Entering(r)
    BY <2>3, CallHere DEF CallOK, Leaving, Entering, CallSignIn, Begin
  <2> QED BY <2>2, <2>4, CallMoves
<1> QED BY <1>1, <1>2

LEMMA CallSignOutOK ==
  ASSUME IInv, TypeOK', NEW c \in Calls, CallSignOut(c)
  PROVE  IInv'
<1>1. CASE logoutInFlight # NoCall
  <2> DEFINE q == Record("signOut", "awaitLogout", generation, NoUser)
             r == [q EXCEPT !.on = logoutInFlight]
  <2>1. q \in CallRecords /\ q.op = "signOut" /\ q.pc = "awaitLogout" /\ q.gen = generation
    BY RecordTyped, CallHere DEF IInv, Methods, MaybeUser
  <2>2. Put(c, r) /\ UNCHANGED <<generation, flights, attempt, history>>
    BY <1>1 DEF CallSignOut, fields
  <2> HIDE DEF q
  <2>3. r.op = "signOut" /\ r.pc = "awaitLogout" /\ r.gen = generation
    BY <2>1 DEF CallRecords
  <2> HIDE DEF r
  <2>4. CallOK(c, r) /\ ~Entering(r)
    BY <2>3, CallHere DEF CallOK, Leaving, Entering, CallSignOut, Begin
  <2> QED BY <2>2, <2>4, CallMoves
<1>2. CASE logoutInFlight = NoCall
  <2>1. PICK g \in Nat : g = generation + 1
    BY CallHere
  <2>2. PICK l \in {"clear", "proof"} : Put(c, Record("signOut", l, generation + 1, accessToken))
    BY <1>2 DEF CallSignOut
  <2> DEFINE r == Record("signOut", l, g, accessToken)
  <2>3. r.op = "signOut" /\ r.pc = l /\ r.gen = g
    <3>1. TypeOK /\ accessToken \in MaybeUser
      BY DEF IInv, TypeOK
    <3>2. "signOut" \in Methods /\ l \in {"proof", "join", "awaitLogout", "clear"}
      BY DEF Methods
    <3> QED BY <3>1, <3>2, RecordTyped
  <2>4. Put(c, r)
    BY <2>1, <2>2
  <2>5. /\ generation' = g /\ refreshInFlight' = NoCall /\ logoutInFlight' = c
        /\ UNCHANGED attempt
    BY <1>2, <2>1 DEF CallSignOut
  <2> HIDE DEF r
  <2>6. Leaving(r) /\ ~Entering(r)
    BY <2>3 DEF Leaving, Entering
  <2> QED BY <1>2, <2>1, <2>3, <2>4, <2>5, <2>6, OwnGeneration, ConstantsAssumption
<1> QED BY <1>1, <1>2

LEMMA CallFetchOK ==
  ASSUME IInv, TypeOK', NEW c \in Calls, CallFetch(c)
  PROVE  IInv'
<1> DEFINE r == Record("fetch", "proof", generation, accessToken)
<1>1. r.op = "fetch" /\ r.pc = "proof" /\ r.gen = generation /\ r.born = ends
  <2>1. TypeOK /\ accessToken \in MaybeUser /\ generation \in Nat
    BY DEF IInv, TypeOK
  <2>2. "fetch" \in Methods /\ "fetch" # "signIn"
    BY DEF Methods
  <2> QED BY <2>1, <2>2, RecordTyped
<1>2. Put(c, r) /\ UNCHANGED <<generation, flights, attempt, history>>
  BY DEF CallFetch, fields
<1> HIDE DEF r
<1>3. CallOK(c, r) /\ ~Entering(r)
  BY <1>1, CallHere, ConstantsAssumption DEF CallOK, Leaving, Entering, CallFetch, Begin
<1> QED BY <1>2, <1>3, CallMoves

LEMMA CallRefreshOK ==
  ASSUME IInv, TypeOK', NEW c \in Calls, CallRefresh(c)
  PROVE  IInv'
<1> DEFINE r == Record("refresh", "join", generation, NoUser)
<1>1. r \in CallRecords /\ r.op = "refresh" /\ r.gen = generation
  <2>1. TypeOK /\ NoUser \in MaybeUser /\ generation \in Nat
    BY DEF IInv, TypeOK, MaybeUser
  <2>2. "refresh" \in Methods
    BY DEF Methods
  <2> QED BY <2>1, <2>2, RecordTyped
<1>2. RefreshOnce(c, r) /\ UNCHANGED <<generation, logoutInFlight, history>>
  BY DEF CallRefresh, fields
<1> HIDE DEF r
<1>3. logoutInFlight # c
  BY CallHere DEF CallRefresh, Begin, CallOK, Leaving
<1> QED BY <1>1, <1>2, <1>3, CallHere, RefreshOnceOK

LEMMA FetchOK ==
  ASSUME IInv, TypeOK', NEW c \in Calls,
         SendFetch(c) \/ FetchAnswered(c) \/ FetchRefused(c) \/ Joined(c)
  PROVE  IInv'
<1>1. CASE Return(c) /\ UNCHANGED <<generation, flights, attempt, history>>
                     /\ call[c].op \in {"fetch", "retry", "refresh"}
  BY <1>1, CallReturns DEF Leaving
<1>2. CASE SendFetch(c) /\ Current(call[c])
  <2>1. PICK r : r = [call[c] EXCEPT !.pc = "wire"]
    OBVIOUS
  <2>2. r.pc = "wire" /\ r.op = call[c].op /\ r.gen = call[c].gen /\ r.born = call[c].born
    BY <2>1, CallHere, Moved
  <2>3. Put(c, r) /\ UNCHANGED <<generation, flights, attempt, history>>
    BY <1>2, <2>1 DEF SendFetch, fields
  <2>4. CallOK(c, r) /\ ~Entering(r)
    BY <1>2, <2>2, CallHere DEF CallOK, Leaving, Entering, Current, SendFetch
  <2> QED BY <2>3, <2>4, CallMoves
<1>3. CASE SendFetch(c) /\ ~Current(call[c])
  BY <1>1, <1>3 DEF SendFetch, fields
<1>4. CASE FetchAnswered(c)
  BY <1>1, <1>4 DEF FetchAnswered, ReturnOnly, fields
<1>5. CASE FetchRefused(c)
  <2>1. logoutInFlight # c
    BY <1>5, CallHere DEF FetchRefused, CallOK, Leaving
  <2> QED BY <1>5, <2>1, CallHere, RefreshOnceOK DEF FetchRefused, CallOK, fields
<1>6. CASE Joined(c) /\ call[c].op = "fetch" /\ call[c].ok /\ Current(call[c])
  <2> DEFINE r == [call[c] EXCEPT !.op = "retry", !.pc = "proof", !.user = accessToken]
  <2>1. r.op = "retry" /\ r.pc = "proof" /\ r.gen = call[c].gen
    BY CallHere DEF CallRecords
  <2>2. Put(c, r) /\ UNCHANGED <<generation, flights, attempt, history>>
    BY <1>6 DEF Joined, fields
  <2> HIDE DEF r
  <2>3. CallOK(c, r) /\ ~Entering(r)
    BY <1>6, <2>1, CallHere DEF CallOK, Leaving, Entering, Current, Joined
  <2> QED BY <2>2, <2>3, CallMoves
<1>7. CASE Joined(c) /\ ~(call[c].op = "fetch" /\ call[c].ok /\ Current(call[c]))
  <2>1. ~Leaving(call[c])
    BY <1>7 DEF Leaving, Joined
  <2> QED BY <1>7, <2>1, CallReturns DEF Joined, fields
<1> QED BY <1>2, <1>3, <1>4, <1>5, <1>6, <1>7

LEMMA SignInOK ==
  ASSUME IInv, TypeOK', NEW c \in Calls,
         ResumeSignIn(c) \/ SendSignIn(c) \/ SignInGranted(c) \/ SignInRefused(c)
  PROVE  IInv'
<1> USE DEF fields
<1>1. CASE Return(c) /\ UNCHANGED <<generation, flights, attempt, history>>
                     /\ call[c].op = "signIn"
  BY <1>1, CallReturns DEF Leaving
<1>2. ASSUME NEW l \in {"wire", "body"}, Put(c, [call[c] EXCEPT !.pc = l]),
             UNCHANGED <<generation, flights, attempt, history>>,
             call[c].op = "signIn", call[c].pc \in {"proof", "wire"}, Current(call[c])
      PROVE  IInv'
  <2>1. PICK r : r = [call[c] EXCEPT !.pc = l]
    OBVIOUS
  <2>2. r.pc = l /\ r.op = call[c].op /\ r.gen = call[c].gen /\ r.born = call[c].born
    BY <2>1, CallHere, Moved
  <2>3. CallOK(c, r) /\ Entering(call[c])
    BY <1>2, <2>2, CallHere DEF CallOK, Leaving, Entering, Current
  <2> QED BY <1>2, <2>1, <2>3, CallMoves
<1>3. CASE ResumeSignIn(c)
  <2>1. CASE ~disposed /\ Current(call[c])
    <3>1. logoutInFlight = NoCall
      BY <1>3, <2>1, CallHere DEF ResumeSignIn, CallOK, Leaving
    <3>2. call[c].user \in MaybeUser
      BY CallHere DEF CallRecords
    <3> QED BY <1>3, <2>1, <3>1, <3>2, StartSignInOK DEF ResumeSignIn
  <2>2. CASE ~(~disposed /\ Current(call[c]))
    BY <1>1, <1>3, <2>2 DEF ResumeSignIn
  <2> QED BY <2>1, <2>2
<1>4. CASE SendSignIn(c)
  BY <1>1, <1>2, <1>4 DEF SendSignIn
<1>5. CASE SignInGranted(c)
  BY <1>1, <1>2, <1>5 DEF SignInGranted
<1>6. CASE SignInRefused(c)
  BY <1>1, <1>6 DEF SignInRefused, ReturnOnly
<1> QED BY <1>3, <1>4, <1>5, <1>6

\* The sign-in that counts takes the page.
LEMMA SignInBodyOK ==
  ASSUME IInv, TypeOK', NEW c \in Calls, SignInBody(c)
  PROVE  IInv'
<1> USE DEF IInv, flights
<1>1. CASE ~Current(call[c])
  BY <1>1, CallReturns DEF SignInBody, Leaving, history
<1>2. CASE Current(call[c])
  <2>1. call'[c] = NoCallRecord /\ \A d \in Calls \ {c} : call'[d] = call[d]
    BY DEF SignInBody, Return, Put, TypeOK
  <2>2. Entering(call[c]) /\ ~Leaving(call[c])
    BY DEF SignInBody, Entering, Leaving
  <2>3. \A d \in Calls \ {c} : ~(Entering(call[d]) /\ Current(call[d]))
    BY <1>2, <2>2 DEF OneSignIn
  <2>4. /\ UNCHANGED <<generation, refreshInFlight, logoutInFlight, attempt, ends>>
        /\ logoutInFlight # c
    BY <2>2 DEF SignInBody, CallsOK, CallOK
  <2>5. CallsOK'
    <3>1. ASSUME NEW d \in Calls \ {c} PROVE CallOK(d, call[d])'
      BY <2>1, <2>3, <2>4 DEF CallsOK, CallOK, Current
    <3>2. CallOK(c, call[c])'
      BY <2>1, <2>4 DEF CallOK, NoCallRecord, Leaving, Entering, TypeOK
    <3> QED BY <3>1, <3>2 DEF CallsOK
  <2>6. OneSignIn'
    BY <2>1, <2>3, <2>4 DEF OneSignIn, Current, Entering, NoCallRecord
  <2>7. AttemptsOK' /\ NoRefreshInLogout'
    BY <2>4 DEF AttemptsOK, AttemptOK, NoRefreshInLogout, Current
  <2> QED BY <2>5, <2>6, <2>7
<1> QED BY <1>1, <1>2

LEMMA LogoutOK ==
  ASSUME IInv, TypeOK', NEW c \in Calls, SendLogout(c) \/ LogoutAnswered(c) \/ SignOutJoined(c)
  PROVE  IInv'
<1> USE DEF fields
<1>1. CASE SignOutJoined(c)
  BY <1>1, CallReturns DEF SignOutJoined, ReturnOnly, Leaving
<1>2. CASE SendLogout(c) \/ LogoutAnswered(c)
  <2> PICK l \in {"wire", "clear"} : Put(c, [call[c] EXCEPT !.pc = l])
    BY <1>2 DEF SendLogout, LogoutAnswered
  <2>1. PICK r : r = [call[c] EXCEPT !.pc = l] /\ Put(c, r)
    OBVIOUS
  <2>2. r.pc = l /\ r.op = call[c].op /\ r.gen = call[c].gen /\ r.born = call[c].born
    BY <2>1, CallHere, Moved
  <2>3. UNCHANGED <<generation, flights, attempt, history>> /\ call[c].op = "signOut"
        /\ call[c].pc \in {"proof", "wire"}
    BY <1>2 DEF SendLogout, LogoutAnswered
  <2>4. CallOK(c, r) /\ ~Entering(r)
    BY <2>2, <2>3, CallHere DEF CallOK, Leaving, Entering, Current
  <2> QED BY <2>1, <2>3, <2>4, CallMoves
<1> QED BY <1>1, <1>2

LEMMA LogoutOverOK ==
  ASSUME IInv, TypeOK', NEW c \in Calls, LogoutOver(c)
  PROVE  IInv'
<1> USE DEF IInv
<1>1. /\ UNCHANGED <<generation, refreshInFlight, attempt, identity, ends>>
      /\ logoutInFlight' = NoCall
  BY DEF LogoutOver, fields, history
<1>2. logoutInFlight = c
  BY DEF LogoutOver, CallsOK, CallOK, Leaving
<1>3. call'[c] = NoCallRecord
  BY DEF LogoutOver, TypeOK
<1>4. ASSUME NEW d \in Calls \ {c}
      PROVE  \/ call'[d] = call[d]
             \/ /\ call[d].pc = "awaitLogout" /\ call'[d].pc = "logoutOver"
                /\ call'[d].op = call[d].op /\ call'[d].gen = call[d].gen
                /\ call'[d].born = call[d].born
  BY Moved DEF LogoutOver, TypeOK
<1>5. CallsOK'
  <2>1. ASSUME NEW d \in Calls \ {c} PROVE CallOK(d, call[d])'
    <3>1. CallOK(d, call[d]) /\ logoutInFlight # d
      BY <1>2 DEF CallsOK
    <3> QED BY <1>1, <1>4, <3>1, ConstantsAssumption DEF CallOK, Leaving, Entering, Current
  <2>2. CallOK(c, call[c])'
    BY <1>1, <1>3, ConstantsAssumption DEF CallOK, NoCallRecord, Leaving, Entering, TypeOK
  <2> QED BY <2>1, <2>2 DEF CallsOK
<1>6. OneSignIn'
  <2>1. \A d \in Calls : (Entering(call[d]) /\ Current(call[d]))' =>
                              Entering(call[d]) /\ Current(call[d])
    BY <1>1, <1>3, <1>4 DEF Entering, Current, NoCallRecord
  <2> QED BY <2>1 DEF OneSignIn
<1>7. AttemptsOK' /\ NoRefreshInLogout'
  BY <1>1 DEF AttemptsOK, AttemptOK, NoRefreshInLogout, Current
<1> QED BY <1>5, <1>6, <1>7

LEMMA AttemptStepOK ==
  ASSUME IInv, TypeOK', NEW c \in Calls, AttemptStep(c)
  PROVE  IInv'
<1> USE DEF fields
<1>1. CASE AbandonAttempt(c) \/ AttemptRefused(c) \/ Adopt(c)
  BY <1>1, SettleOK DEF AbandonAttempt, AttemptRefused, Adopt
<1>2. CASE SendAttempt(c) \/ AttemptGranted(c)
  <2>1. attempt[c] \in Attempts
    BY DEF IInv, TypeOK
  <2>2. \E a : /\ attempt' = [attempt EXCEPT ![c] = a]
               /\ a.pc # "none" /\ a.gen = attempt[c].gen /\ a.born = attempt[c].born
    <3>1. CASE SendAttempt(c)
      <4> DEFINE a == [attempt[c] EXCEPT !.pc = "wire", !.user = cookie]
      <4>1. a.pc = "wire" /\ a.gen = attempt[c].gen /\ a.born = attempt[c].born
        BY <2>1 DEF Attempts
      <4>2. attempt' = [attempt EXCEPT ![c] = a]
        BY <3>1 DEF SendAttempt
      <4> HIDE DEF a
      <4> QED BY <4>1, <4>2
    <3>2. CASE AttemptGranted(c)
      <4> DEFINE a == [attempt[c] EXCEPT !.pc = "body"]
      <4>1. a.pc = "body" /\ a.gen = attempt[c].gen /\ a.born = attempt[c].born
        BY <2>1 DEF Attempts
      <4>2. attempt' = [attempt EXCEPT ![c] = a]
        BY <3>2 DEF AttemptGranted
      <4> HIDE DEF a
      <4> QED BY <4>1, <4>2
    <3> QED BY <1>2, <3>1, <3>2
  <2>3. PICK a : /\ attempt' = [attempt EXCEPT ![c] = a]
                 /\ a.pc # "none" /\ a.gen = attempt[c].gen /\ a.born = attempt[c].born
    BY <2>2
  <2>4. attempt'[c] = a /\ \A d \in Calls \ {c} : attempt'[d] = attempt[d]
    BY <2>3 DEF IInv, TypeOK
  <2>5. attempt[c].pc # "none" /\ UNCHANGED <<generation, flights, call, history>>
    BY <1>2 DEF SendAttempt, AttemptGranted
  <2>6. AttemptsOK'
    <3>1. ASSUME NEW d \in Calls PROVE AttemptOK(d, attempt[d])'
      <4>1. AttemptOK(d, attempt[d])
        BY DEF IInv, AttemptsOK
      <4> QED BY <2>3, <2>4, <2>5, <4>1 DEF AttemptOK, Current, flights, history
    <3> QED BY <3>1 DEF AttemptsOK
  <2> QED BY <2>5, <2>6 DEF IInv, CallsOK, CallOK, OneSignIn, NoRefreshInLogout, Current,
          flights, history
<1> QED BY <1>1, <1>2 DEF AttemptStep

LEMMA InvNext == ASSUME IInv, [Next]_vars PROVE IInv'
<1>1. TypeOK'
  BY TypeNext DEF IInv
<1>2. ASSUME NEW c \in Calls, CallAny(c) PROVE IInv'
  BY <1>1, <1>2, CallRefreshOK, CallFetchOK, CallSignOutOK, CallSignInOK DEF CallAny
<1>3. ASSUME NEW c \in Calls, StepOf(c) PROVE IInv'
  BY <1>1, <1>3, FetchOK, SignInOK, SignInBodyOK, LogoutOK, LogoutOverOK DEF StepOf
<1>4. ASSUME NEW c \in Calls, AttemptStep(c) PROVE IInv'
  BY <1>1, <1>4, AttemptStepOK
<1>5. CASE UNCHANGED vars
  BY <1>1, <1>5, CoreStill DEF vars, core, fields
<1> QED BY <1>1, <1>2, <1>3, <1>4, <1>5, EventsOK DEF Next

LEMMA InvInit == Init => IInv
<1> SUFFICES ASSUME Init PROVE IInv
  OBVIOUS
<1>1. TypeOK
  BY TypeInit
<1>2. CallsOK /\ OneSignIn
  BY ConstantsAssumption DEF Init, CallsOK, CallOK, OneSignIn, NoCallRecord, Leaving, Entering
<1>3. AttemptsOK /\ NoRefreshInLogout
  BY ConstantsAssumption DEF Init, AttemptsOK, AttemptOK, NoRefreshInLogout, NoAttempt
<1> QED BY <1>1, <1>2, <1>3 DEF IInv

\* The generation argument, for every number of calls.
THEOREM Invariance == Spec => []IInv
  BY InvInit, InvNext, PTL DEF Spec

\* Every field of the page and of its calls keeps its type.
THEOREM TypeCorrect == Spec => []TypeOK
<1>1. IInv => TypeOK
  BY DEF IInv
<1> QED BY <1>1, Invariance, PTL

-----------------------------------------------------------------------------
(***************************************************************************)
(* The properties.                                                         *)
(***************************************************************************)

\* #refreshInFlight holds exactly the attempt that still counts: joining it
\* never hangs on a dead one, and never races a live one (client.ts:96-104).
THEOREM OneRefresh == Spec => []SingleFlight
<1>1. IInv => SingleFlight
  BY DEF IInv, AttemptsOK, AttemptOK, SingleFlight
<1> QED BY <1>1, Invariance, PTL

\* While a sign-out is under way it is the only request of its generation
\* (client.ts:179, 317, 382).
THEOREM SignOutAlone == Spec => []QuietSignOut
<1>1. IInv => QuietSignOut
  <2> SUFFICES ASSUME IInv, logoutInFlight # NoCall, NEW c \in Calls
               PROVE  /\ ~(attempt[c].pc # "none" /\ Current(attempt[c]))
                      /\ call[c].pc \in {"proof", "wire", "body"} /\ Current(call[c])
                            => c = logoutInFlight
    BY DEF QuietSignOut
  <2>1. refreshInFlight # c
    BY ConstantsAssumption DEF IInv, NoRefreshInLogout
  <2> QED BY <2>1 DEF IInv, AttemptsOK, AttemptOK, CallsOK, CallOK
<1> QED BY <1>1, Invariance, PTL

\* What ends a refresh attempt and touches the access token is its own answer.
LEMMA ResponseStep ==
  ASSUME IInv, [Next]_vars, NEW c \in Calls,
         attempt[c].pc # "none", attempt'[c].pc = "none", accessToken' # accessToken
  PROVE  attempt[c].born = ends
<1> USE DEF fields
<1>1. ASSUME NEW d \in Calls, CallAny(d) PROVE FALSE
  BY <1>1 DEF CallAny, CallRefresh, CallFetch, CallSignOut, CallSignIn, StartSignIn
<1>2. ASSUME NEW d \in Calls, StepOf(d) PROVE FALSE
  BY <1>2 DEF StepOf, SendFetch, FetchAnswered, FetchRefused, Joined, ResumeSignIn, SendSignIn,
     SignInGranted, SignInRefused, SignInBody, SendLogout, LogoutAnswered, LogoutOver,
     SignOutJoined, StartSignIn, ReturnOnly
<1>3. ASSUME NEW d \in Calls, AttemptStep(d) PROVE attempt[c].born = ends
  <2>1. (AttemptRefused(d) \/ Adopt(d)) /\ Current(attempt[d])
    BY <1>3 DEF AttemptStep, SendAttempt, AbandonAttempt, AttemptGranted, AttemptRefused, Adopt
  <2>2. d = c
    BY <2>1 DEF AttemptRefused, Adopt, Settle, IInv, TypeOK
  <2> QED BY <2>1, <2>2 DEF IInv, AttemptsOK, AttemptOK
<1>4. ASSUME NEW u \in MaybeUser, SetAccessToken(u) \/ PeerCookie(u) PROVE FALSE
  BY <1>4 DEF SetAccessToken, PeerCookie
<1>5. CASE Notice \/ Dispose \/ UNCHANGED vars
  BY <1>5 DEF Notice, Dispose, vars
<1> QED BY <1>1, <1>2, <1>3, <1>4, <1>5 DEF Next

\* The answer to a refresh touches the access token only under the identity
\* it was asked for (client.ts:118-119).
THEOREM ResponseStaysHome == Spec => ResponseKeepsIdentity
<1>1. IInv /\ [Next]_vars =>
        [\A c \in Calls :
           attempt[c].pc # "none" /\ attempt'[c].pc = "none"
           /\ accessToken' # accessToken => attempt[c].born = ends]_vars
  BY ResponseStep
<1> QED BY <1>1, Invariance, PTL DEF Spec, ResponseKeepsIdentity

LEMMA RecordNamed ==
  ASSUME NEW op, NEW l, NEW g, NEW u, NEW d
  PROVE  /\ Record(op, l, g, u).op = op
         /\ [Record(op, l, g, u) EXCEPT !.on = d].op = op
  BY DEF Record, NoCallRecord

\* Who takes part in a call of #refreshOnce() keeps its method, or is refused.
LEMMA RefreshNamed ==
  ASSUME IInv, NEW c \in Calls, NEW r \in CallRecords, RefreshOnce(c, r),
         r.op \in {"fetch", "refresh"}
  PROVE  call'[c].op # "retry" /\ \A d \in Calls \ {c} : call'[d] = call[d]
<1>1. \A d \in MaybeCall : [r EXCEPT !.pc = "join", !.on = d].op = r.op
  BY DEF CallRecords
<1>2. refreshInFlight \in MaybeCall /\ c \in MaybeCall
  BY DEF IInv, TypeOK, MaybeCall
<1>3. PICK q : Put(c, q) /\ q.op # "retry"
  <2>1. CASE ~MayRefresh
    <3>1. Put(c, NoCallRecord)
      BY <2>1 DEF RefreshOnce, Return
    <3>2. NoCallRecord.op # "retry"
      BY DEF NoCallRecord
    <3> QED BY <3>1, <3>2
  <2>2. CASE MayRefresh
    <3>1. PICK d \in MaybeCall : Put(c, [r EXCEPT !.pc = "join", !.on = d])
      BY <1>2, <2>2 DEF RefreshOnce
    <3> QED BY <1>1, <3>1
  <2> QED BY <2>1, <2>2
<1> QED BY <1>3 DEF Put, IInv, TypeOK

\* A call that turns into a retry was moved there.
LEMMA PutRetry ==
  ASSUME call \in [Calls -> CallRecords], NEW c \in Calls, NEW d \in Calls, NEW r, Put(d, r),
         call[c].op = "fetch", call'[c].op = "retry"
  PROVE  d = c /\ r.op = "retry"
  BY DEF Put

LEMMA RetryStep ==
  ASSUME IInv, [Next]_vars, NEW c \in Calls, call[c].op = "fetch", call'[c].op = "retry"
  PROVE  call[c].born = ends
<1> USE DEF fields
<1>1. call \in [Calls -> CallRecords] /\ accessToken \in MaybeUser /\ NoUser \in MaybeUser
      /\ generation \in Nat
  BY DEF IInv, TypeOK, MaybeUser
<1>2. ASSUME NEW d \in Calls, CallAny(d) PROVE FALSE
  <2>1. CASE CallRefresh(d)
    <3>1. Record("refresh", "join", generation, NoUser) \in CallRecords
      BY <1>1, RecordTyped DEF IInv, Methods
    <3> QED BY <2>1, <3>1, RecordNamed, RefreshNamed DEF CallRefresh
  <2>2. CASE CallFetch(d)
    BY <1>1, <2>2, RecordNamed DEF CallFetch, Put
  <2>3. CASE CallSignOut(d)
    <3>1. PICK r : Put(d, r) /\ r.op = "signOut"
      <4>1. CASE logoutInFlight # NoCall
        <5>1. PICK l, g, u, e : Put(d, [Record("signOut", l, g, u) EXCEPT !.on = e])
          BY <2>3, <4>1 DEF CallSignOut
        <5> DEFINE r == [Record("signOut", l, g, u) EXCEPT !.on = e]
        <5>2. r.op = "signOut" /\ Put(d, r)
          BY <5>1, RecordNamed
        <5> HIDE DEF r
        <5> QED BY <5>2
      <4>2. CASE logoutInFlight = NoCall
        <5>1. PICK l : Put(d, Record("signOut", l, generation + 1, accessToken))
          BY <2>3, <4>2 DEF CallSignOut
        <5> QED BY <5>1, RecordNamed
      <4> QED BY <4>1, <4>2
    <3> QED BY <1>1, <3>1, PutRetry
  <2>4. ASSUME NEW u \in Users, CallSignIn(d, u) PROVE FALSE
    <3>1. PICK r : Put(d, r) /\ r.op = "signIn"
      <4>1. CASE logoutInFlight # NoCall
        <5>1. PICK l, g, e : Put(d, [Record("signIn", l, g, u) EXCEPT !.on = e])
          BY <2>4, <4>1 DEF CallSignIn
        <5> DEFINE r == [Record("signIn", l, g, u) EXCEPT !.on = e]
        <5>2. r.op = "signIn" /\ Put(d, r)
          BY <5>1, RecordNamed
        <5> HIDE DEF r
        <5> QED BY <5>2
      <4>2. CASE logoutInFlight = NoCall
        <5>1. PICK l, g : Put(d, Record("signIn", l, g, u))
          BY <2>4, <4>2 DEF CallSignIn, StartSignIn
        <5> QED BY <5>1, RecordNamed
      <4> QED BY <4>1, <4>2
    <3> QED BY <1>1, <3>1, PutRetry
  <2> QED BY <1>2, <2>1, <2>2, <2>3, <2>4 DEF CallAny
<1>3. ASSUME NEW d \in Calls, StepOf(d), ~Joined(d) PROVE FALSE
  <2>1. CASE FetchRefused(d)
    BY <1>1, <2>1, RefreshNamed DEF FetchRefused
  <2>2. CASE ResumeSignIn(d)
    BY <1>1, <2>2, RecordNamed DEF ResumeSignIn, StartSignIn, Return, Put, NoCallRecord
  <2>3. CASE SendFetch(d) \/ FetchAnswered(d) \/ SendSignIn(d) \/ SignInGranted(d)
              \/ SignInRefused(d) \/ SignInBody(d) \/ SendLogout(d) \/ LogoutAnswered(d)
              \/ SignOutJoined(d)
    <3>1. Return(d) \/ \E l \in {"wire", "body", "clear"} : Put(d, [call[d] EXCEPT !.pc = l])
      BY <2>3 DEF SendFetch, FetchAnswered, SendSignIn, SignInGranted, SignInRefused, SignInBody,
         SendLogout, LogoutAnswered, SignOutJoined, ReturnOnly
    <3>2. PICK r : Put(d, r) /\ (r.op = "none" \/ r.op = call[d].op)
      <4>1. CASE Return(d)
        BY <4>1 DEF Return, NoCallRecord
      <4>2. ASSUME NEW l, Put(d, [call[d] EXCEPT !.pc = l])
            PROVE  \E r : Put(d, r) /\ (r.op = "none" \/ r.op = call[d].op)
        <5>1. [call[d] EXCEPT !.pc = l].op = call[d].op
          BY <1>1 DEF CallRecords
        <5> QED BY <4>2, <5>1
      <4> QED BY <3>1, <4>1, <4>2
    <3> QED BY <1>1, <3>2, PutRetry
  <2>4. CASE LogoutOver(d)
    BY <1>1, <2>4, Moved DEF LogoutOver, NoCallRecord
  <2> QED BY <1>3, <2>1, <2>2, <2>3, <2>4 DEF StepOf
<1>4. ASSUME NEW d \in Calls, Joined(d) PROVE call[c].born = ends
  <2>1. d = c
    BY <1>1, <1>4 DEF Joined, Return, Put
  <2>2. Current(call[c])
    BY <1>1, <1>4, <2>1 DEF Joined, Return, Put, NoCallRecord
  <2> QED BY <2>2, CallHere DEF CallOK
<1>5. ASSUME NEW d \in Calls, AttemptStep(d) PROVE FALSE
  <2>1. call'[c].op = call[c].op
    <3>1. \A ok \in BOOLEAN : [call[c] EXCEPT !.pc = "joined", !.ok = ok].op = call[c].op
      BY <1>1 DEF CallRecords
    <3>2. UNCHANGED call \/ \E ok \in BOOLEAN : Settle(d, ok)
      BY <1>5 DEF AttemptStep, SendAttempt, AbandonAttempt, AttemptGranted, AttemptRefused, Adopt
    <3> QED BY <3>1, <3>2 DEF Settle
  <2> QED BY <2>1
<1>6. ASSUME NEW u \in MaybeUser, SetAccessToken(u) \/ PeerCookie(u) PROVE FALSE
  BY <1>6 DEF SetAccessToken, PeerCookie
<1>7. CASE Notice \/ Dispose \/ UNCHANGED vars
  BY <1>7 DEF Notice, Dispose, vars
<1> QED BY <1>2, <1>3, <1>4, <1>5, <1>6, <1>7 DEF Next

\* A request is retried only under the identity that issued it
\* (client.ts:278).
THEOREM RetryStaysHome == Spec => RetryKeepsIdentity
<1>1. IInv /\ [Next]_vars =>
        [\A c \in Calls :
           call[c].op = "fetch" /\ call'[c].op = "retry" => call[c].born = ends]_vars
  BY RetryStep
<1> QED BY <1>1, Invariance, PTL DEF Spec, RetryKeepsIdentity

LEMMA SignInStep ==
  ASSUME IInv, [Next]_vars, NEW c \in Calls,
         call[c].op = "signIn", call'[c].op = "none", accessToken' # accessToken
  PROVE  call[c].born = identity
<1> USE DEF fields
<1>1. call \in [Calls -> CallRecords]
  BY DEF IInv, TypeOK
<1>2. ASSUME NEW d \in Calls, CallAny(d) PROVE FALSE
  <2>1. CallSignOut(d)
    BY <1>2 DEF CallAny, CallRefresh, CallFetch, CallSignIn, StartSignIn
  <2> QED BY <1>1, <2>1, RecordNamed DEF CallSignOut, Put
<1>3. ASSUME NEW d \in Calls, StepOf(d) PROVE call[c].born = identity
  <2>1. SignInBody(d) /\ Current(call[d])
    BY <1>3 DEF StepOf, SendFetch, FetchAnswered, FetchRefused, Joined, ResumeSignIn, SendSignIn,
       SignInGranted, SignInRefused, SignInBody, SendLogout, LogoutAnswered, LogoutOver,
       SignOutJoined, StartSignIn, ReturnOnly
  <2>2. d = c
    BY <1>1, <2>1 DEF SignInBody, Return, Put
  <2> QED BY <2>1, <2>2, CallHere DEF SignInBody, CallOK, Entering
<1>4. ASSUME NEW d \in Calls, AttemptStep(d) PROVE FALSE
  <2>1. \A ok \in BOOLEAN : [call[c] EXCEPT !.pc = "joined", !.ok = ok].op = call[c].op
    BY <1>1 DEF CallRecords
  <2>2. UNCHANGED call \/ \E ok \in BOOLEAN : Settle(d, ok)
    BY <1>4 DEF AttemptStep, SendAttempt, AbandonAttempt, AttemptGranted, AttemptRefused, Adopt
  <2> QED BY <2>1, <2>2 DEF Settle
<1>5. ASSUME NEW u \in MaybeUser, SetAccessToken(u) \/ PeerCookie(u) PROVE FALSE
  BY <1>5 DEF SetAccessToken, PeerCookie
<1>6. CASE Notice \/ Dispose \/ UNCHANGED vars
  BY <1>6 DEF Notice, Dispose, vars
<1> QED BY <1>2, <1>3, <1>4, <1>5, <1>6 DEF Next

\* Of sign-ins that overlap one wins, and none survives what ends the identity
\* (client.ts:384-385, 397-400).
THEOREM SignInStaysHome == Spec => SignInKeepsIdentity
<1>1. IInv /\ [Next]_vars =>
        [\A c \in Calls :
           call[c].op = "signIn" /\ call'[c].op = "none"
           /\ accessToken' # accessToken => call[c].born = identity]_vars
  BY SignInStep
<1> QED BY <1>1, Invariance, PTL DEF Spec, SignInKeepsIdentity
=============================================================================
