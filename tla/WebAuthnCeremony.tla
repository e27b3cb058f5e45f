-------------------------- MODULE WebAuthnCeremony --------------------------
(***************************************************************************)
(* The registration and sign-in ceremonies of WebAuthnServer (webauthn,    *)
(* server.ts), with ChallengeManager (challenge.ts) and the order of the   *)
(* checks of ceremony.ts.  Every action is one store command and the local *)
(* code up to the next, or one access of the application to the            *)
(* credentials it keeps.  A challenge is its hash; the clock is in ticks.  *)
(***************************************************************************)
EXTENDS Integers

CONSTANTS
    Callers,            \* requests the application serves at a time
    Users, NoUser,
    Challenges,         \* what generateToken() may return
    NoChallenge,
    Credentials,
    Ttl,                \* ttlSeconds, from timeoutMs
    Lenient,            \* onCounterRegression = 'allow'
    MaxClock,           \* bound on the clock
    MaxCount            \* bound on the counts authenticators report

Ceremonies == {"registration", "authentication"}

ASSUME ConstantsAssumption ==
    /\ NoUser \notin Users
    /\ NoChallenge \notin Challenges
    /\ Ttl \in Nat \ {0}
    /\ Lenient \in BOOLEAN
    /\ MaxClock \in Nat /\ MaxCount \in Nat

VARIABLES
    now,
    until,      \* store: when the record of each challenge lapses, 0 if absent
    context,    \* what that record says
    owner,      \* the application's credentials: the user of each,
    signCount,  \* and its counter
    made,       \* environment: the challenge each credential was made for
    pc, loc,    \* where each request is, and the local variables of its call
    tried,      \* history: how often each challenge was taken
    accepted,   \* history: the ceremonies that were completed
    shared      \* history: credentials with which two sign-ins overlapped

vars == <<now, until, context, owner, signCount, made, pc, loc,
          tried, accepted, shared>>

Counts == 0 .. MaxCount
SomeUser == Users \cup {NoUser}

\* ChallengeContext; strict is userVerification = 'required'.
Contexts == [type : Ceremonies \cup {"none"}, user : SomeUser,
             strict : BOOLEAN, expiresAt : Nat]
NoContext == [type |-> "none", user |-> NoUser, strict |-> FALSE, expiresAt |-> 0]

\* What a browser sends back.  sound: the response decodes, its type, origin,
\* RP ID and user presence are right, and its signature verifies.
\* Nothing else is read of one that is not.
Responses == {r \in [challenge : Challenges, credential : Credentials,
                     verified : BOOLEAN, count : Counts, sound : BOOLEAN] :
                 r.sound \/ (~r.verified /\ r.count = 0)}

\* user is expectedUserId in a registration and the owner of the stored
\* credential in a sign-in; count is that credential's counter.
Locals == [type : Ceremonies, response : Responses, user : SomeUser, count : Counts]
Ends == [type : Ceremonies, response : Responses, user : SomeUser, at : Nat]
Places == {"idle", "take", "check", "write"}

TypeOK ==
    /\ now \in Nat
    /\ until \in [Challenges -> Nat]
    /\ context \in [Challenges -> Contexts]
    /\ owner \in [Credentials -> SomeUser]
    /\ signCount \in [Credentials -> Counts]
    /\ made \in [Credentials -> Challenges \cup {NoChallenge}]
    /\ pc \in [Callers -> Places]
    /\ loc \in [Callers -> {NoChallenge} \cup Locals \cup Ends]
    /\ \A c \in Callers :
          /\ pc[c] = "idle" => loc[c] = NoChallenge
          /\ pc[c] \in {"take", "check"} => loc[c] \in Locals
          /\ pc[c] = "write" => loc[c] \in Ends
    /\ tried \in [Challenges -> Nat]
    /\ accepted \subseteq Ends
    /\ shared \subseteq Credentials

Init ==
    /\ now = 0
    /\ until = [h \in Challenges |-> 0]
    /\ context = [h \in Challenges |-> NoContext]
    /\ owner \in [Credentials -> SomeUser]   \* some are registered already
    /\ signCount = [k \in Credentials |-> 0]
    /\ made = [k \in Credentials |-> NoChallenge]
    /\ pc = [c \in Callers |-> "idle"]
    /\ loc = [c \in Callers |-> NoChallenge]
    /\ tried = [h \in Challenges |-> 0]
    /\ accepted = {}
    /\ shared = {}

Goto(c, place, l) ==
    /\ pc' = [pc EXCEPT ![c] = place]
    /\ loc' = [loc EXCEPT ![c] = l]

Return(c) == Goto(c, "idle", NoChallenge)

-----------------------------------------------------------------------------
(***************************************************************************)
(* startRegistration() and startAuthentication(): ChallengeManager.issue() *)
(* makes a challenge, stores what the ceremony is for and hands it out.    *)
(* Its one store command, setIfAbsent(), is the whole step; the timestamps *)
(* come from the clock as it was at some time before.                      *)
(***************************************************************************)
\* Mutant: the record says nothing of when it expires.
IssueUndated(h, type, u, strict) ==
    /\ context[h] = NoContext
    /\ now + Ttl <= MaxClock
    /\ context' = [context EXCEPT ![h] = [type |-> type, user |-> u,
                      strict |-> strict, expiresAt |-> NoChallenge]]
    /\ until' = [until EXCEPT ![h] = now + Ttl]
    /\ UNCHANGED <<now, owner, signCount, made, pc, loc, tried, accepted, shared>>

Issue(h, type, u, strict) ==
    /\ context[h] = NoContext
    /\ now + Ttl <= MaxClock
    /\ \E read \in 0 .. now :
          context' = [context EXCEPT ![h] = [type |-> type, user |-> u,
                         strict |-> strict, expiresAt |-> read + Ttl]]
    /\ until' = [until EXCEPT ![h] = now + Ttl]
    /\ UNCHANGED <<now, owner, signCount, made, pc, loc, tried, accepted, shared>>

\* A challenge is handed out as soon as it is stored.
Issued(h) == context[h] # NoContext

Start(h) == \E strict \in BOOLEAN :
    \/ \E u \in Users : Issue(h, "registration", u, strict)
    \/ \E u \in SomeUser : Issue(h, "authentication", u, strict)

-----------------------------------------------------------------------------
(***************************************************************************)
(* A response arrives, at whichever endpoint.  A browser may send it more  *)
(* than once.  take() comes before any check: whatever they say, the       *)
(* challenge is gone.                                                      *)
(***************************************************************************)
\* The ceremony is part of the key, so a challenge of the other one is not there.
Found(type, h) == context[h].type = type /\ now < until[h]

\* Mutant: the record is read, and deleted by nobody.
TakePeeks(c, l) ==
    LET h == l.response.challenge IN
    IF Found(l.type, h)
    THEN /\ tried' = [tried EXCEPT ![h] = @ + 1]
         /\ Goto(c, "check", l)
         /\ UNCHANGED until
    ELSE Return(c) /\ UNCHANGED <<until, tried>>

Take(c, l) ==
    LET h == l.response.challenge IN
    IF Found(l.type, h)
    THEN /\ until' = [until EXCEPT ![h] = 0]
         /\ tried' = [tried EXCEPT ![h] = @ + 1]
         /\ Goto(c, "check", l)
    ELSE Return(c) /\ UNCHANGED <<until, tried>>

\* An authenticator makes a credential for one challenge, none that the
\* application has already, and none when the response is not sound.
Made(r) == IF r.sound THEN [made EXCEPT ![r.credential] = r.challenge] ELSE made

Enrol(c, r, expected) ==
    /\ pc[c] = "idle" /\ Issued(r.challenge)
    /\ made[r.credential] = r.challenge \/ owner[r.credential] = NoUser
    /\ made[r.credential] \in {NoChallenge, r.challenge}
    /\ made' = Made(r)
    /\ Take(c, [type |-> "registration", response |-> r, user |-> expected, count |-> 0])
    /\ UNCHANGED <<now, context, owner, signCount, accepted, shared>>

SigningIn(c) == pc[c] # "idle" /\ loc[c].type = "authentication"
CredentialOf(c) == loc[c].response.credential

\* The application looks the credential up and hands it to
\* finishAuthentication(); one it does not know is refused before that.
SignIn(c, r) ==
    LET k == r.credential IN
    /\ pc[c] = "idle" /\ Issued(r.challenge)
    /\ owner[k] # NoUser
    /\ shared' = IF \E d \in Callers : SigningIn(d) /\ CredentialOf(d) = k
                 THEN shared \cup {k} ELSE shared
    /\ Goto(c, "take", [type |-> "authentication", response |-> r,
                        user |-> owner[k], count |-> signCount[k]])
    /\ UNCHANGED <<now, until, context, owner, signCount, made, tried, accepted>>

Consume(c) ==
    /\ pc[c] = "take"
    /\ Take(c, loc[c])
    /\ UNCHANGED <<now, context, owner, signCount, made, accepted, shared>>

-----------------------------------------------------------------------------
(***************************************************************************)
(* The checks on what was taken.                                           *)
(***************************************************************************)
\* isExpired(context.expiresAt)
Expired(h) == now > context[h].expiresAt

\* Mutant: a sign-in is for whoever owns the credential.
RightUserIfEnrolling(l) ==
    LET u == context[l.response.challenge].user IN
    l.type = "registration" => u # NoUser /\ l.user \in {NoUser, u}

\* A registration needs a user, and the one expected if any; a sign-in the
\* user the challenge was issued for, if it was issued for one.
RightUser(l) ==
    LET u == context[l.response.challenge].user IN
    IF l.type = "registration" THEN u # NoUser /\ l.user \in {NoUser, u}
                               ELSE u \in {NoUser, l.user}

\* Mutant: a count that stands still is taken for an advance.
CounterHeld(l) == l.type = "registration" \/ l.response.count >= l.count \/ Lenient

\* A count that did not advance hints at a copy; zeros mean no counter.
CounterAdvanced(l) ==
    \/ l.type = "registration"
    \/ (l.count = 0 /\ l.response.count = 0)
    \/ l.response.count > l.count
    \/ Lenient

Passes(l) ==
    /\ ~Expired(l.response.challenge)
    /\ RightUser(l)
    /\ l.response.sound
    /\ context[l.response.challenge].strict => l.response.verified
    /\ CounterAdvanced(l)

\* A registration is for the user of its challenge, a sign-in for the owner of
\* the stored credential.  What the code falls back to when the application
\* stores no owner is left out.
Subject(l) == IF l.type = "registration" THEN context[l.response.challenge].user
                                         ELSE l.user

Check(c) ==
    /\ pc[c] = "check"
    /\ IF Passes(loc[c])
       THEN Goto(c, "write", [type |-> loc[c].type, response |-> loc[c].response,
                              user |-> Subject(loc[c]), at |-> now])
       ELSE Return(c)
    /\ UNCHANGED <<now, until, context, owner, signCount, made, tried,
                   accepted, shared>>

\* The application saves the new credential, or writes the counter back,
\* before anything is granted.
Write(c) ==
    LET l == loc[c]
        k == l.response.credential
    IN
    /\ pc[c] = "write"
    /\ owner' = [owner EXCEPT ![k] = IF l.type = "registration" THEN l.user ELSE @]
    /\ signCount' = [signCount EXCEPT ![k] = l.response.count]
    /\ accepted' = accepted \cup {l}
    /\ Return(c)
    /\ UNCHANGED <<now, until, context, made, tried, shared>>

\* A command throws, or the process goes away.  While a challenge is issued it
\* makes no difference: no browser has it.
Fail(c) ==
    /\ pc[c] # "idle"
    /\ Return(c)
    /\ UNCHANGED <<now, until, context, owner, signCount, made, tried,
                   accepted, shared>>

Tick ==
    /\ now < MaxClock
    /\ now' = now + 1
    /\ UNCHANGED <<until, context, owner, signCount, made, pc, loc, tried,
                   accepted, shared>>

Respond(c) == \E r \in Responses :
    \/ \E u \in SomeUser : Enrol(c, r, u)
    \/ SignIn(c, r)

Next == \/ \E h \in Challenges : Start(h)
        \/ \E c \in Callers :
              \/ Respond(c) \/ Consume(c) \/ Check(c) \/ Write(c) \/ Fail(c)
        \/ Tick

Spec == Init /\ [][Next]_vars

-----------------------------------------------------------------------------
(***************************************************************************)
(* What must hold.                                                         *)
(***************************************************************************)
\* One response per challenge gets past consume(), a failed one included:
\* "a response that fails verification must not leave a live challenge".
TriedOnce == \A h \in Challenges : tried[h] <= 1

\* Across start, consume and finish: a completed ceremony is of the kind, for
\* the user, and under the verification policy the browser was asked for, in
\* time, and for the user who owns the credential.
CompletedAsAsked == \A a \in accepted :
    LET x == context[a.response.challenge] IN
    /\ a.response.sound
    /\ a.type = x.type
    /\ a.at <= x.expiresAt
    /\ x.strict => a.response.verified
    /\ x.user \in {NoUser, a.user}
    /\ owner[a.response.credential] = a.user

\* Of sign-ins that never overlapped with another of the same credential, each
\* reports a higher count than every ceremony before it, or has no counter: a
\* copy of an authenticator that falls behind is told apart at its next use.
CountersAdvance ==
    [][\A a \in accepted' \ accepted, b \in accepted :
          \/ Lenient
          \/ a.response.credential # b.response.credential
          \/ a.response.credential \in shared
          \/ a.response.count > b.response.count
          \/ (a.response.count = 0 /\ b.response.count = 0)]_vars

-----------------------------------------------------------------------------
(***************************************************************************)
(* Why it holds.                                                           *)
(***************************************************************************)
Holding(c) == pc[c] \in {"check", "write"}
Enrolling(c) == /\ Holding(c) /\ loc[c].type = "registration"
                /\ loc[c].response.sound
ChallengeOf(c) == loc[c].response.challenge

\* A challenge is in the store, with the one call that took it, or gone.
HeldByOne ==
    /\ \A h \in Challenges : \/ (until[h] = 0 /\ tried[h] = 0 /\ ~Issued(h))
                             \/ (until[h] # 0 /\ tried[h] = 0 /\ Issued(h))
                             \/ (until[h] = 0 /\ tried[h] = 1 /\ Issued(h))
    /\ \A c \in Callers : Holding(c) =>
          /\ tried[ChallengeOf(c)] = 1
          /\ context[ChallengeOf(c)].type = loc[c].type
          /\ \A d \in Callers : Holding(d) /\ ChallengeOf(d) = ChallengeOf(c) => d = c

\* A credential that is being registered is nobody's; the user of one that was
\* is the user its challenge was issued for.
Ownership ==
    /\ \A k \in Credentials : made[k] # NoChallenge =>
          /\ Issued(made[k])
          /\ owner[k] # NoUser => /\ owner[k] = context[made[k]].user
                                  /\ tried[made[k]] = 1
    /\ \A c \in Callers : Enrolling(c) =>
          /\ made[CredentialOf(c)] = ChallengeOf(c)
          /\ owner[CredentialOf(c)] = NoUser
    /\ \A c \in Callers : SigningIn(c) =>
          loc[c].user = owner[CredentialOf(c)] /\ loc[c].user # NoUser

AsAsked(a) ==
    LET x == context[a.response.challenge] IN
    /\ a.response.sound
    /\ a.type = x.type
    /\ a.at <= x.expiresAt
    /\ x.strict => a.response.verified
    /\ x.user \in {NoUser, a.user}
    /\ a.user # NoUser
    /\ a.type = "registration" => a.user = x.user

Checked ==
    /\ \A c \in Callers : pc[c] = "take" => loc[c].type = "authentication"
    /\ \A c \in Callers : pc[c] = "write" => AsAsked(loc[c])
    /\ \A a \in accepted : AsAsked(a) /\ owner[a.response.credential] = a.user

\* While its sign-ins do not overlap, a credential's stored counter is the
\* highest there was, and the one that every check compares with.
CounterIsHighest == \A k \in Credentials \ shared :
    /\ \A c, d \in Callers :
          /\ SigningIn(c) /\ CredentialOf(c) = k
          /\ SigningIn(d) /\ CredentialOf(d) = k
          => c = d
    /\ \A c \in Callers : SigningIn(c) /\ CredentialOf(c) = k =>
          /\ pc[c] \in {"take", "check"} => loc[c].count = signCount[k]
          /\ pc[c] = "write" => \/ loc[c].response.count > signCount[k]
                                \/ (loc[c].response.count = 0 /\ signCount[k] = 0)
    /\ \A a \in accepted : a.response.credential = k =>
          a.response.count <= signCount[k]

IInv == /\ TypeOK /\ HeldByOne /\ Ownership /\ Checked
        /\ (Lenient \/ CounterIsHighest)
=============================================================================
