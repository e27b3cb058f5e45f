---------------------------- MODULE NinshoClient ----------------------------
(***************************************************************************)
(* One NinshoClient (client/src/client.ts) in a page: its identity state   *)
(* and the calls that run on it.  JavaScript runs one piece at a time, so  *)
(* an action is the code from one await to the next.  The server, the      *)
(* cookie jar, and the peers of session-sync.ts, which may post a notice   *)
(* at any time, are the environment.  An access token is named by the user *)
(* it is for.  Waiting for the DPoP key and its signature is one await.    *)
(***************************************************************************)
EXTENDS Naturals, FiniteSets

CONSTANTS
    Calls,      \* calls that may run at the same time
    Users, NoUser, NoCall,
    Sync,       \* options.sessionSync is set
    Menu,       \* the methods the application uses
    MaxOps,     \* bound on the calls of a behaviour
    MaxEvents   \* bound on notices, setAccessToken() and dispose()

ASSUME ConstantsAssumption ==
    /\ NoUser \notin Users /\ NoCall \notin Calls
    /\ Sync \in BOOLEAN
    /\ MaxOps \in Nat /\ MaxEvents \in Nat

VARIABLES
    accessToken, generation, identityInvalidated, disposed,
    refreshInFlight,    \* the call whose #refreshOnce() made the attempt
    logoutInFlight,     \* the call whose signOut() is under way
    cookie,             \* whose refresh token the browser's jar holds
    call,               \* the calls of the application
    attempt,            \* the refresh attempt each call has made
    identity,           \* history: how often the page's identity changed
    ends,               \* history: how often other than by a sign-in's answer
    ops, events

fields == <<accessToken, generation, identityInvalidated, disposed>>
flights == <<refreshInFlight, logoutInFlight>>
bounds == <<ops, events>>
history == <<identity, ends>>
vars == <<fields, flights, cookie, call, attempt, history, bounds>>

MaybeUser == Users \cup {NoUser}
MaybeCall == Calls \cup {NoCall}

Methods == {"none", "fetch", "retry", "refresh", "signIn", "signOut"}
CallRecords ==
    [op : Methods, born : Nat, gen : Nat, user : MaybeUser, on : MaybeCall,
     ok : BOOLEAN,
     pc : {"idle", "proof", "wire", "body", "join", "joined", "awaitLogout",
           "logoutOver", "clear"}]
NoCallRecord == [op |-> "none", pc |-> "idle", born |-> 0, gen |-> 0,
                 user |-> NoUser, on |-> NoCall, ok |-> FALSE]

Attempts == [pc : {"none", "proof", "wire", "body"}, born : Nat, gen : Nat,
             user : MaybeUser]
NoAttempt == [pc |-> "none", born |-> 0, gen |-> 0, user |-> NoUser]

TypeOK ==
    /\ accessToken \in MaybeUser /\ cookie \in MaybeUser
    /\ generation \in Nat /\ identity \in Nat /\ ends \in Nat /\ ops \in Nat /\ events \in Nat
    /\ identityInvalidated \in BOOLEAN /\ disposed \in BOOLEAN
    /\ refreshInFlight \in MaybeCall /\ logoutInFlight \in MaybeCall
    /\ call \in [Calls -> CallRecords]
    /\ attempt \in [Calls -> Attempts]

\* A page may load while the jar still holds somebody's refresh token.
Init ==
    /\ accessToken = NoUser /\ generation = 0
    /\ identityInvalidated = FALSE /\ disposed = FALSE
    /\ refreshInFlight = NoCall /\ logoutInFlight = NoCall
    /\ cookie \in MaybeUser
    /\ call = [c \in Calls |-> NoCallRecord]
    /\ attempt = [c \in Calls |-> NoAttempt]
    /\ identity = 0 /\ ends = 0 /\ ops = 0 /\ events = 0

-----------------------------------------------------------------------------
(***************************************************************************)
(* The page's own identity events.                                         *)
(***************************************************************************)
NewIdentity == identity' = identity + 1 /\ ends' = ends + 1

\* #invalidateIdentity()
Invalidate ==
    /\ generation' = generation + 1
    /\ refreshInFlight' = NoCall
    /\ accessToken' = NoUser
    /\ identityInvalidated' = TRUE
    /\ NewIdentity

Event == events < MaxEvents /\ events' = events + 1

\* The tabs of a browser share one jar: a peer signs in, refreshes or leaves.
PeerCookie(u) ==
    /\ "peers" \in Menu
    /\ Event
    /\ cookie' = u
    /\ UNCHANGED <<fields, flights, call, attempt, history, ops>>

Notice ==
    /\ Sync /\ ~disposed
    /\ Event
    /\ Invalidate
    /\ UNCHANGED <<disposed, logoutInFlight, cookie, call, attempt, ops>>

Dispose ==
    /\ "dispose" \in Menu /\ ~disposed
    /\ Event
    /\ Invalidate
    /\ disposed' = TRUE
    /\ UNCHANGED <<logoutInFlight, cookie, call, attempt, ops>>

SetAccessToken(u) ==
    /\ "setAccessToken" \in Menu
    /\ ~disposed /\ logoutInFlight = NoCall
    /\ Event
    /\ generation' = generation + 1
    /\ refreshInFlight' = NoCall
    /\ accessToken' = u
    /\ identityInvalidated' = (Sync /\ u = NoUser)
    /\ NewIdentity
    /\ UNCHANGED <<disposed, logoutInFlight, cookie, call, attempt, ops>>

-----------------------------------------------------------------------------
(***************************************************************************)
(* Calls.                                                                  *)
(***************************************************************************)
Begin(c, op) ==
    /\ call[c].pc = "idle" /\ op \in Menu
    /\ ops < MaxOps /\ ops' = ops + 1
    /\ UNCHANGED events

Put(c, r) == call' = [call EXCEPT ![c] = r]
Record(op, pc, gen, user) ==
    [NoCallRecord EXCEPT !.op = op, !.pc = pc, !.gen = gen, !.user = user,
                         !.born = IF op = "signIn" THEN identity ELSE ends]
Return(c) == Put(c, NoCallRecord)

Current(r) == r.gen = generation

\* A call is over and the client does not change.
ReturnOnly(c) ==
    /\ Return(c)
    /\ UNCHANGED <<fields, flights, cookie, attempt, history, bounds>>

\* #refreshOnce(): refuse, join the attempt in flight, or make one.
MayRefresh == ~disposed /\ ~identityInvalidated /\ logoutInFlight = NoCall

RefreshOnce(c, r) ==
    IF ~MayRefresh
    THEN Return(c) /\ UNCHANGED <<refreshInFlight, attempt>>
    ELSE IF refreshInFlight # NoCall
    THEN /\ Put(c, [r EXCEPT !.pc = "join", !.on = refreshInFlight])
         /\ UNCHANGED <<refreshInFlight, attempt>>
    ELSE /\ Put(c, [r EXCEPT !.pc = "join", !.on = c])
         /\ refreshInFlight' = c
         /\ attempt' = [attempt EXCEPT ![c] =
                [pc |-> "proof", born |-> ends, gen |-> generation, user |-> NoUser]]

CallRefresh(c) ==
    /\ Begin(c, "refresh")
    /\ RefreshOnce(c, Record("refresh", "join", generation, NoUser))
    /\ UNCHANGED <<fields, logoutInFlight, cookie, history>>

\* fetch() throws on an invalidated identity and during a sign-out.
CallFetch(c) ==
    /\ Begin(c, "fetch")
    /\ ~disposed /\ ~identityInvalidated /\ logoutInFlight = NoCall
    /\ Put(c, Record("fetch", "proof", generation, accessToken))
    /\ UNCHANGED <<fields, flights, cookie, attempt, history>>

\* The proof is ready.  A request whose identity has changed is not sent.
SendFetch(c) ==
    /\ call[c].op \in {"fetch", "retry"} /\ call[c].pc = "proof"
    /\ IF Current(call[c]) THEN Put(c, [call[c] EXCEPT !.pc = "wire"])
                           ELSE Return(c)
    /\ UNCHANGED <<fields, flights, cookie, attempt, history, bounds>>

FetchAnswered(c) ==
    /\ call[c].op \in {"fetch", "retry"} /\ call[c].pc = "wire"
    /\ ReturnOnly(c)

FetchRefused(c) ==
    /\ call[c].op = "fetch" /\ call[c].pc = "wire"
    /\ Current(call[c]) /\ accessToken # NoUser
    /\ RefreshOnce(c, call[c])
    /\ UNCHANGED <<fields, logoutInFlight, cookie, history, bounds>>

\* Mutant: only the outcome of the refresh decides whether to try again.
JoinedAnyway(c) ==
    /\ call[c].pc = "joined"
    /\ IF call[c].op = "fetch" /\ call[c].ok
         THEN Put(c, [call[c] EXCEPT !.op = "retry", !.pc = "proof",
                                     !.user = accessToken, !.gen = generation])
         ELSE Return(c)
    /\ UNCHANGED <<fields, flights, cookie, attempt, history, bounds>>

\* A waiter of the attempt goes on: refresh() returns, fetch() tries again.
Joined(c) ==
    /\ call[c].pc = "joined"
    /\ IF call[c].op = "fetch" /\ call[c].ok /\ Current(call[c])
         THEN Put(c, [call[c] EXCEPT !.op = "retry", !.pc = "proof",
                                     !.user = accessToken])
         ELSE Return(c)
    /\ UNCHANGED <<fields, flights, cookie, attempt, history, bounds>>

-----------------------------------------------------------------------------
(***************************************************************************)
(* The refresh attempt, which its waiters share.                           *)
(***************************************************************************)
\* Mutant: the slot is cleared whichever attempt ends.
SettleAny(c, ok) ==
    /\ attempt' = [attempt EXCEPT ![c] = NoAttempt]
    /\ refreshInFlight' = NoCall
    /\ call' = [d \in Calls |->
                  IF call[d].pc = "join" /\ call[d].on = c
                    THEN [call[d] EXCEPT !.pc = "joined", !.ok = ok]
                    ELSE call[d]]

Settle(c, ok) ==
    /\ attempt' = [attempt EXCEPT ![c] = NoAttempt]
    /\ refreshInFlight' = IF Current(attempt[c]) THEN NoCall ELSE refreshInFlight
    /\ call' = [d \in Calls |->
                  IF call[d].pc = "join" /\ call[d].on = c
                    THEN [call[d] EXCEPT !.pc = "joined", !.ok = ok]
                    ELSE call[d]]

SendAttempt(c) ==
    /\ attempt[c].pc = "proof" /\ Current(attempt[c])
    /\ attempt' = [attempt EXCEPT ![c] = [@ EXCEPT !.pc = "wire", !.user = cookie]]
    /\ UNCHANGED <<fields, flights, cookie, call, history, bounds>>

\* The identity changed, the key failed, or the network did.
AbandonAttempt(c) ==
    /\ \/ attempt[c].pc \in {"proof", "wire", "body"} /\ ~Current(attempt[c])
       \/ attempt[c].pc \in {"proof", "wire"}
    /\ Settle(c, FALSE)
    /\ UNCHANGED <<fields, logoutInFlight, cookie, history, bounds>>

\* 401 or 403, or a body without a token.  An outage leaves the token alone,
\* as AbandonAttempt does.
AttemptRefused(c) ==
    /\ attempt[c].pc \in {"wire", "body"} /\ Current(attempt[c])
    /\ accessToken' = NoUser
    /\ Settle(c, FALSE)
    /\ UNCHANGED <<generation, identityInvalidated, disposed, logoutInFlight,
                   cookie, history, bounds>>

AttemptGranted(c) ==
    /\ attempt[c].pc = "wire" /\ Current(attempt[c])
    /\ attempt[c].user # NoUser
    /\ attempt' = [attempt EXCEPT ![c] = [@ EXCEPT !.pc = "body"]]
    /\ UNCHANGED <<fields, flights, cookie, call, history, bounds>>

\* Mutant: the generation is not compared again after response.json().
AdoptUnchecked(c) ==
    /\ attempt[c].pc = "body"
    /\ accessToken' = attempt[c].user
    /\ Settle(c, TRUE)
    /\ UNCHANGED <<generation, identityInvalidated, disposed, logoutInFlight,
                   cookie, history, bounds>>

Adopt(c) ==
    /\ attempt[c].pc = "body" /\ Current(attempt[c])
    /\ accessToken' = attempt[c].user
    /\ Settle(c, TRUE)
    /\ UNCHANGED <<generation, identityInvalidated, disposed, logoutInFlight,
                   cookie, history, bounds>>

-----------------------------------------------------------------------------
(***************************************************************************)
(* signIn().                                                               *)
(***************************************************************************)
\* Mutant: a sign-in does not open a generation of its own.
StartSignInShared(c, u) ==
    /\ refreshInFlight' = NoCall
    /\ Put(c, Record("signIn", "proof", generation, u))
    /\ UNCHANGED <<fields, logoutInFlight, cookie, attempt, history>>

StartSignIn(c, u) ==
    /\ generation' = generation + 1
    /\ refreshInFlight' = NoCall
    /\ Put(c, Record("signIn", "proof", generation + 1, u))
    /\ UNCHANGED <<accessToken, identityInvalidated, disposed, logoutInFlight,
                   cookie, attempt, history>>

\* Mutant: a sign-in does not wait for the sign-out under way.
CallSignInAtOnce(c, u) ==
    /\ Begin(c, "signIn") /\ ~disposed
    /\ StartSignIn(c, u)

CallSignIn(c, u) ==
    /\ Begin(c, "signIn") /\ ~disposed
    /\ IF logoutInFlight = NoCall
         THEN StartSignIn(c, u)
         ELSE /\ Put(c, [Record("signIn", "awaitLogout", generation, u)
                           EXCEPT !.on = logoutInFlight])
              /\ UNCHANGED <<fields, flights, cookie, attempt, history>>

\* The sign-out it waited for is over.  If another one has begun meanwhile,
\* the generation has changed with it.
ResumeSignIn(c) ==
    /\ call[c].op = "signIn" /\ call[c].pc = "logoutOver"
    /\ IF ~disposed /\ Current(call[c])
         THEN StartSignIn(c, call[c].user)
         ELSE Return(c) /\ UNCHANGED <<fields, flights, cookie, attempt, history>>
    /\ UNCHANGED bounds

SendSignIn(c) ==
    /\ call[c].op = "signIn" /\ call[c].pc = "proof"
    /\ IF Current(call[c]) THEN Put(c, [call[c] EXCEPT !.pc = "wire"])
                           ELSE Return(c)
    /\ UNCHANGED <<fields, flights, cookie, attempt, history, bounds>>

\* The browser stores the cookie whether or not the page still wants it.
SignInGranted(c) ==
    /\ call[c].op = "signIn" /\ call[c].pc = "wire"
    /\ cookie' = call[c].user
    /\ IF Current(call[c]) THEN Put(c, [call[c] EXCEPT !.pc = "body"])
                           ELSE Return(c)
    /\ UNCHANGED <<fields, flights, attempt, history, bounds>>

\* Refused, or no token in the body.
SignInRefused(c) ==
    /\ call[c].op = "signIn" /\ call[c].pc \in {"wire", "body"}
    /\ ReturnOnly(c)

SignInBody(c) ==
    /\ call[c].op = "signIn" /\ call[c].pc = "body"
    /\ Return(c)
    /\ IF Current(call[c])
         THEN /\ accessToken' = call[c].user
              /\ identityInvalidated' = FALSE
              /\ identity' = identity + 1
         ELSE UNCHANGED <<accessToken, identityInvalidated, identity>>
    /\ UNCHANGED <<generation, disposed, flights, cookie, attempt, ends, bounds>>

-----------------------------------------------------------------------------
(***************************************************************************)
(* signOut().                                                              *)
(***************************************************************************)
\* A second sign-out waits for the first.
CallSignOut(c) ==
    /\ Begin(c, "signOut") /\ ~disposed
    /\ IF logoutInFlight # NoCall
         THEN /\ Put(c, [Record("signOut", "awaitLogout", generation, NoUser)
                           EXCEPT !.on = logoutInFlight])
              /\ UNCHANGED <<fields, flights, history>>
         ELSE /\ generation' = generation + 1
              /\ refreshInFlight' = NoCall
              /\ accessToken' = NoUser
              /\ identityInvalidated' = (Sync \/ identityInvalidated)
              /\ NewIdentity
              /\ logoutInFlight' = c
              /\ Put(c, Record("signOut", IF accessToken = NoUser THEN "clear"
                                                                 ELSE "proof",
                              generation + 1, accessToken))
              /\ UNCHANGED disposed
    /\ UNCHANGED <<cookie, attempt>>

SendLogout(c) ==
    /\ call[c].op = "signOut" /\ call[c].pc = "proof"
    /\ Put(c, [call[c] EXCEPT !.pc = IF Current(call[c]) THEN "wire" ELSE "clear"])
    /\ UNCHANGED <<fields, flights, cookie, attempt, history, bounds>>

\* The server ends the session and expires the cookie, or the request fails.
LogoutAnswered(c) ==
    /\ call[c].op = "signOut" /\ call[c].pc = "wire"
    /\ cookie' \in {cookie, NoUser}
    /\ Put(c, [call[c] EXCEPT !.pc = "clear"])
    /\ UNCHANGED <<fields, flights, attempt, history, bounds>>

\* Mutant: the sign-out that ends does not wake who waits for it.
LogoutOverSilent(c) ==
    /\ call[c].op = "signOut" /\ call[c].pc = "clear"
    /\ logoutInFlight' = NoCall
    /\ Return(c)
    /\ UNCHANGED <<fields, refreshInFlight, cookie, attempt, history, bounds>>

\* The key is gone and the sign-out is over; its own await resumes first, so
\* whoever waits for it finds logoutInFlight reset.
LogoutOver(c) ==
    /\ call[c].op = "signOut" /\ call[c].pc = "clear"
    /\ logoutInFlight' = NoCall
    /\ call' = [d \in Calls |->
                  IF d = c THEN NoCallRecord
                  ELSE IF call[d].pc = "awaitLogout" /\ call[d].on = c
                    THEN [call[d] EXCEPT !.pc = "logoutOver"]
                    ELSE call[d]]
    /\ UNCHANGED <<fields, refreshInFlight, cookie, attempt, history, bounds>>

SignOutJoined(c) ==
    /\ call[c].op = "signOut" /\ call[c].pc = "logoutOver"
    /\ ReturnOnly(c)

-----------------------------------------------------------------------------
CallAny(c) ==
    \/ CallRefresh(c) \/ CallFetch(c) \/ CallSignOut(c)
    \/ \E u \in Users : CallSignIn(c, u)

StepOf(c) ==
    \/ SendFetch(c) \/ FetchAnswered(c) \/ FetchRefused(c) \/ Joined(c)
    \/ ResumeSignIn(c) \/ SendSignIn(c) \/ SignInGranted(c)
    \/ SignInRefused(c) \/ SignInBody(c)
    \/ SendLogout(c) \/ LogoutAnswered(c) \/ LogoutOver(c) \/ SignOutJoined(c)

AttemptStep(c) ==
    \/ SendAttempt(c) \/ AbandonAttempt(c) \/ AttemptRefused(c)
    \/ AttemptGranted(c) \/ Adopt(c)

Next ==
    \/ \E c \in Calls : CallAny(c) \/ StepOf(c) \/ AttemptStep(c)
    \/ \E u \in MaybeUser : SetAccessToken(u) \/ PeerCookie(u)
    \/ Notice \/ Dispose

Spec == Init /\ [][Next]_vars

\* The event loop runs every continuation, and a browser's fetch() settles.
FairSpec == Spec /\ \A c \in Calls : WF_vars(StepOf(c)) /\ WF_vars(AttemptStep(c))

-----------------------------------------------------------------------------
(***************************************************************************)
(* Properties.                                                             *)
(***************************************************************************)

\* Single flight: the attempt that still counts, if there is one, is the one
\* in #refreshInFlight, and the slot never outlives its attempt.  A slot kept
\* by a dead attempt would hang every later refresh; a live attempt that lost
\* its slot would race a second one for the rotation of the same cookie, which
\* the server takes for theft (client.ts:96-104).
SingleFlight ==
    \A c \in Calls :
        (attempt[c].pc # "none" /\ Current(attempt[c])) <=> refreshInFlight = c

\* While a sign-out is under way no other request of the new generation is:
\* neither a refresh that would rotate the token being revoked, nor a fetch,
\* nor the sign-in that waits for it (client.ts:179, 317, 382).
QuietSignOut ==
    logoutInFlight # NoCall =>
        \A c \in Calls :
            /\ ~(attempt[c].pc # "none" /\ Current(attempt[c]))
            /\ call[c].pc \in {"proof", "wire", "body"} /\ Current(call[c])
                  => c = logoutInFlight

\* "A response belongs to the identity that started it, not the identity that
\* happens to be current when the network finishes" (client.ts:118-119): the
\* answer to a refresh touches the access token only if nothing has ended the
\* identity meanwhile, a sign-out, a notice, setAccessToken() or dispose().  (A
\* sign-in whose own generation the refresh was begun in may still finish first.)
ResponseKeepsIdentity ==
    [][\A c \in Calls :
          attempt[c].pc # "none" /\ attempt'[c].pc = "none"
          /\ accessToken' # accessToken => attempt[c].born = ends]_vars

\* A request is retried only if nothing has ended the identity that issued it,
\* never with a token adopted after a sign-out or a peer's notice (client.ts:278).
RetryKeepsIdentity ==
    [][\A c \in Calls :
          call[c].op = "fetch" /\ call'[c].op = "retry"
             => call[c].born = ends]_vars

\* A sign-in takes the page only from the identity it was issued under: of
\* sign-ins that overlap one wins, and none survives a sign-out, a notice or
\* setAccessToken() (client.ts:384-385, 397-400).
SignInKeepsIdentity ==
    [][\A c \in Calls :
          call[c].op = "signIn" /\ call'[c].op = "none"
          /\ accessToken' # accessToken => call[c].born = identity]_vars

\* Every call settles: no waiter is left on a refresh or a sign-out that is
\* over, whatever the order of sign-ins, sign-outs, notices and dispose().
EveryCallReturns ==
    \A c \in Calls : call[c].pc # "idle" ~> call[c].pc = "idle"
=============================================================================
