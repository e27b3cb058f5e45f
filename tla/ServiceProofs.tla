----------------------------- MODULE ServiceProofs -----------------------------
(***************************************************************************)
(* A request that is answered by its handler is by somebody entitled to    *)
(* it, and whoever may make a request is answered by its handler: for      *)
(* every set of instances, tabs, sites and routes, every lifetime and      *)
(* tolerance, and whatever mishap.                                         *)
(*                                                                         *)
(* The first proof follows a request back from the answer: through the     *)
(* chains of its route to the verdict of verify(), from there to the token *)
(* and the proof that the framework showed it, and from these to what was  *)
(* issued and signed.  Its inductive invariant, Settings, is about what    *)
(* those rest on: the instances, the keys of the tabs, the session and the *)
(* page's token.                                                           *)
(*                                                                         *)
(* The second goes the other way, from a key and a release to the token    *)
(* and the proof that are made with them, what the framework shows of      *)
(* these, the verdict on them and the way through the chains.  It needs    *)
(* more, Dependable: that every instance runs a release that there has     *)
(* been, that the token is from one of them, and that tabs share a key.    *)
(***************************************************************************)
EXTENDS Service, TLAPS, WellFoundedInduction, SequenceTheorems

-----------------------------------------------------------------------------
(***************************************************************************)
(* Induction.                                                              *)
(***************************************************************************)
\* A set of numbers that is not empty has a smallest one.
LEMMA Smallest ==
    ASSUME NEW T, T \subseteq Nat, T # {}
    PROVE  \E n \in T : \A m \in T : n <= m
<1>1. PICK n \in T : \A m \in T : ~(<<m, n>> \in OpToRel(<, Nat))
    BY NatLessThanWellFounded, WFMin
<1>2. \A m \in T : ~(m < n)
    BY <1>1 DEF OpToRel
<1> QED
    BY <1>2

\* Induction over a set of numbers.
LEMMA AllNumbers ==
    ASSUME NEW T, 0 \in T, \A n \in Nat : n \in T => n + 1 \in T
    PROVE  Nat \subseteq T
<1>1. SUFFICES ASSUME Nat \ T # {} PROVE FALSE
    OBVIOUS
<1>2. PICK n \in Nat \ T : \A m \in Nat \ T : n <= m
    BY <1>1, Smallest
<1>3. n # 0 /\ n - 1 \in Nat /\ n - 1 \notin Nat \ T
    BY <1>2
<1>4. n - 1 \in T /\ (n - 1) + 1 = n
    BY <1>3
<1> QED
    BY <1>2, <1>3, <1>4

-----------------------------------------------------------------------------
(***************************************************************************)
(* A chain of middlewares, and the chains of a route, one after the other. *)
(***************************************************************************)
IsRun(f, n, env, req, s, chain) ==
    f = [k \in 0 .. n |-> IF k = 0 THEN s ELSE runOne(env, req, f[k - 1], chain[k])]

\* A run of n middlewares can be continued by one.
LEMMA RunGoesOn ==
    ASSUME NEW env, NEW req, NEW s, NEW chain, NEW n \in Nat, NEW f, IsRun(f, n, env, req, s, chain)
    PROVE  \E g : IsRun(g, n + 1, env, req, s, chain)
<1> DEFINE g == [k \in 0 .. n + 1 |-> IF k <= n THEN f[k] ELSE runOne(env, req, f[n], chain[n + 1])]
<1>1. \A k \in 0 .. n : f[k] = IF k = 0 THEN s ELSE runOne(env, req, f[k - 1], chain[k])
    BY DEF IsRun
<1>2. \A k \in 0 .. n + 1 : g[k] = IF k = 0 THEN s ELSE runOne(env, req, g[k - 1], chain[k])
  <2> TAKE k \in 0 .. n + 1
  <2>1. CASE k = 0
      BY <2>1, <1>1
  <2>2. CASE k \in 1 .. n
      <3>1. g[k] = f[k] /\ g[k - 1] = f[k - 1] /\ k \in 0 .. n
          BY <2>2
      <3> HIDE DEF g
      <3> QED BY <3>1, <1>1, <2>2
  <2>3. CASE k = n + 1
      <3>1. g[k] = runOne(env, req, f[n], chain[n + 1]) /\ g[k - 1] = f[n]
          BY <2>3
      <3> HIDE DEF g
      <3> QED BY <3>1, <2>3
  <2> QED BY <2>1, <2>2, <2>3
<1>3. g = [k \in 0 .. n + 1 |-> IF k = 0 THEN s ELSE runOne(env, req, g[k - 1], chain[k])]
  <2>1. g = [k \in 0 .. n + 1 |-> g[k]]
      OBVIOUS
  <2> HIDE DEF g
  <2> QED BY <1>2, <2>1
<1> HIDE DEF g
<1> QED
    BY <1>3 DEF IsRun

\* There is a run of any length, which the recursion of Run() is.
LEMMA RunExists ==
    ASSUME NEW env, NEW req, NEW s, NEW chain, NEW n \in Nat
    PROVE  \E f : IsRun(f, n, env, req, s, chain)
<1> DEFINE T == {k \in Nat : \E f : IsRun(f, k, env, req, s, chain)}
<1>1. 0 \in T
  <2> DEFINE f == [k \in 0 .. 0 |-> s]
  <2>1. f = [k \in 0 .. 0 |-> IF k = 0 THEN s ELSE runOne(env, req, f[k - 1], chain[k])]
      OBVIOUS
  <2> HIDE DEF f
  <2> QED BY <2>1 DEF IsRun
<1>2. \A k \in Nat : k \in T => k + 1 \in T
    BY RunGoesOn
<1> HIDE DEF T
<1>3. n \in T
    BY <1>1, <1>2, AllNumbers
<1> QED
    BY <1>3 DEF T

\* What the middlewares of a chain do, one by one.
LEMMA RunSteps ==
    ASSUME NEW env, NEW req, NEW s, NEW chain, Len(chain) \in Nat
    PROVE  \E f : /\ f[0] = s
                  /\ \A k \in 1 .. Len(chain) : f[k] = runOne(env, req, f[k - 1], chain[k])
                  /\ Run(env, req, s, chain) = f[Len(chain)]
<1> DEFINE f == CHOOSE f : IsRun(f, Len(chain), env, req, s, chain)
<1>1. IsRun(f, Len(chain), env, req, s, chain)
    BY RunExists
<1>2. Run(env, req, s, chain) = f[Len(chain)]
    BY DEF Run, IsRun
<1> HIDE DEF f
<1>3. \A k \in 0 .. Len(chain) : f[k] = IF k = 0 THEN s ELSE runOne(env, req, f[k - 1], chain[k])
    BY <1>1 DEF IsRun
<1> QED
    BY <1>2, <1>3

IsPassage(f, n, framework, env, req, chains) ==
    f = [k \in 0 .. n |-> IF k = 0 THEN Arrived ELSE Mount(framework, env, req, f[k - 1], chains[k])]

\* So it is with the chains of a route.
LEMMA PassageGoesOn ==
    ASSUME NEW framework, NEW env, NEW req, NEW chains, NEW n \in Nat, NEW f,
           IsPassage(f, n, framework, env, req, chains)
    PROVE  \E g : IsPassage(g, n + 1, framework, env, req, chains)
<1> DEFINE g == [k \in 0 .. n + 1 |->
                    IF k <= n THEN f[k] ELSE Mount(framework, env, req, f[n], chains[n + 1])]
<1>1. \A k \in 0 .. n :
         f[k] = IF k = 0 THEN Arrived ELSE Mount(framework, env, req, f[k - 1], chains[k])
    BY DEF IsPassage
<1>2. \A k \in 0 .. n + 1 :
         g[k] = IF k = 0 THEN Arrived ELSE Mount(framework, env, req, g[k - 1], chains[k])
  <2> TAKE k \in 0 .. n + 1
  <2>1. CASE k = 0
      BY <2>1, <1>1
  <2>2. CASE k \in 1 .. n
      <3>1. g[k] = f[k] /\ g[k - 1] = f[k - 1] /\ k \in 0 .. n
          BY <2>2
      <3> HIDE DEF g
      <3> QED BY <3>1, <1>1, <2>2
  <2>3. CASE k = n + 1
      <3>1. g[k] = Mount(framework, env, req, f[n], chains[n + 1]) /\ g[k - 1] = f[n]
          BY <2>3
      <3> HIDE DEF g
      <3> QED BY <3>1, <2>3
  <2> QED BY <2>1, <2>2, <2>3
<1>3. g = [k \in 0 .. n + 1 |->
              IF k = 0 THEN Arrived ELSE Mount(framework, env, req, g[k - 1], chains[k])]
  <2>1. g = [k \in 0 .. n + 1 |-> g[k]]
      OBVIOUS
  <2> HIDE DEF g
  <2> QED BY <1>2, <2>1
<1> HIDE DEF g
<1> QED
    BY <1>3 DEF IsPassage

\* There is a passage of any length.
LEMMA PassageExists ==
    ASSUME NEW framework, NEW env, NEW req, NEW chains, NEW n \in Nat
    PROVE  \E f : IsPassage(f, n, framework, env, req, chains)
<1> DEFINE T == {k \in Nat : \E f : IsPassage(f, k, framework, env, req, chains)}
<1>1. 0 \in T
  <2> DEFINE f == [k \in 0 .. 0 |-> Arrived]
  <2>1. f = [k \in 0 .. 0 |->
                IF k = 0 THEN Arrived ELSE Mount(framework, env, req, f[k - 1], chains[k])]
      OBVIOUS
  <2> HIDE DEF f
  <2> QED BY <2>1 DEF IsPassage
<1>2. \A k \in Nat : k \in T => k + 1 \in T
    BY PassageGoesOn
<1> HIDE DEF T
<1>3. n \in T
    BY <1>1, <1>2, AllNumbers
<1> QED
    BY <1>3 DEF T

\* What the chains of a route do, one by one.
LEMMA ThroughSteps ==
    ASSUME NEW framework, NEW env, NEW req, NEW chains, Len(chains) \in Nat
    PROVE  \E f : /\ f[0] = Arrived
                  /\ \A k \in 1 .. Len(chains) : f[k] = Mount(framework, env, req, f[k - 1], chains[k])
                  /\ Through(framework, env, req, chains) = f[Len(chains)]
<1> DEFINE f == CHOOSE f : IsPassage(f, Len(chains), framework, env, req, chains)
<1>1. IsPassage(f, Len(chains), framework, env, req, chains)
    BY PassageExists
<1>2. Through(framework, env, req, chains) = f[Len(chains)]
    BY DEF Through, IsPassage
<1> HIDE DEF f
<1>3. \A k \in 0 .. Len(chains) :
         f[k] = IF k = 0 THEN Arrived ELSE Mount(framework, env, req, f[k - 1], chains[k])
    BY <1>1 DEF IsPassage
<1> QED
    BY <1>2, <1>3

-----------------------------------------------------------------------------
(***************************************************************************)
(* What a request has gone through when no error was answered.             *)
(***************************************************************************)
\* Every verify() of a route comes to the same for a request.
Verdict(env, req) == createVerify(env, req, None, extractBearer(req))

Progress(s, done, env, req) ==
    /\ s = [view |-> s.view, context |-> s.context, error |-> s.error, buckets |-> s.buckets]
    /\ s.error \in {None} \cup DOMAIN StatusOf
    /\ s.error = None =>
          /\ s.context = s.view
          /\ s.view # None => Verdict(env, req).error = None /\ s.view = Verdict(env, req).auth
          /\ s.view # None => \E m \in done : m.kind = "verify"
          /\ \A m \in done : m.kind # "rateLimit" => s.view # None
          /\ \A m \in done : m.kind \notin {"rateLimit", "verify"} => Allowed(m, env, req, s.view)
          /\ s.buckets = IF \E m \in done : m.kind = "rateLimit"
                         THEN {clientIp(req, env.trustProxy)} ELSE {}

\* A token is refused with one of two errors.
LEMMA VerifyErrors ==
    ASSUME NEW engine, NEW token_, NEW jkt, NEW now, NEW time
    PROVE  verify(engine, token_, jkt, now, time).error \in {None, "TokenInvalid", "TokenExpired"}
<1>1. VerifyPaseto(engine, token_, jkt, now).error \in {None, "TokenInvalid", "TokenExpired"}
    BY DEF VerifyPaseto, VerifyWith, CheckClaims, Failed
<1>2. VerifyOpaque(engine, token_, jkt, now, time).error \in {None, "TokenInvalid", "TokenExpired"}
    BY DEF VerifyOpaque, Failed
<1> QED
    BY <1>1, <1>2 DEF verify

\* Every verify() decides alike, whoever was known before it.
LEMMA VerifyAlike ==
    ASSUME NEW env, NEW req, NEW auth, NEW o, o = createVerify(env, req, auth, extractBearer(req)),
           None \notin DOMAIN StatusOf
    PROVE  /\ o.error = Verdict(env, req).error
           /\ o.error \in {None} \cup DOMAIN StatusOf
           /\ o.error = None => o.auth = Verdict(env, req).auth
           /\ o.buckets = {}
<1> DEFINE jwt(p) == verify(env.engine, extractBearer(req), p.jkt, env.now, env.clock)
<1>1. \A p : jwt(p).error \in {None, "TokenInvalid", "TokenExpired"}
    BY VerifyErrors
<1>2. PICK p : p = IF env.dpop = None THEN [error |-> None, jkt |-> None]
                   ELSE establishProofOfPossession(env, req, extractBearer(req))
    OBVIOUS
<1>3. p.error \in {None, "TokenMissing", "TokenInvalid"}
    BY <1>2 DEF establishProofOfPossession, Possession
<1>4. PICK v : v = jwt(p)
    OBVIOUS
<1>5. \A a : createVerify(env, req, a, extractBearer(req)) =
                IF extractBearer(req) = None THEN Refusal("TokenMissing", a)
                ELSE IF p.error # None THEN Refusal(p.error, a)
                ELSE IF v.error # None THEN Refusal(v.error, a) ELSE Pass(v.auth)
    BY <1>2, <1>4 DEF createVerify, WithProof, WithToken
<1>6. v.error \in {None, "TokenInvalid", "TokenExpired"}
    BY <1>1, <1>4
<1> HIDE DEF jwt
<1>7. PICK w : w = Verdict(env, req)
    OBVIOUS
<1>8. w = createVerify(env, req, None, extractBearer(req))
    BY <1>7 DEF Verdict
<1>9. {"TokenMissing", "TokenInvalid", "TokenExpired"} \subseteq DOMAIN StatusOf
    BY DEF StatusOf
<1>10. CASE extractBearer(req) = None
  <2>1. o = Refusal("TokenMissing", auth) /\ w = Refusal("TokenMissing", None)
      BY <1>5, <1>8, <1>10
  <2> QED BY <2>1, <1>7, <1>9 DEF Refusal
<1>11. CASE extractBearer(req) # None /\ p.error # None
  <2>1. o = Refusal(p.error, auth) /\ w = Refusal(p.error, None)
      BY <1>5, <1>8, <1>11
  <2> QED BY <2>1, <1>3, <1>7, <1>9, <1>11 DEF Refusal
<1>12. CASE extractBearer(req) # None /\ p.error = None /\ v.error # None
  <2>1. o = Refusal(v.error, auth) /\ w = Refusal(v.error, None)
      BY <1>5, <1>8, <1>12
  <2> QED BY <2>1, <1>6, <1>7, <1>9, <1>12 DEF Refusal
<1>13. CASE extractBearer(req) # None /\ p.error = None /\ v.error = None
  <2>1. o = Pass(v.auth) /\ w = Pass(v.auth)
      BY <1>5, <1>8, <1>13
  <2> QED BY <2>1, <1>7 DEF Pass
<1> QED
    BY <1>10, <1>11, <1>12, <1>13

\* A middleware adds itself to what a request has gone through.
LEMMA MiddlewareGoesOn ==
    ASSUME NEW env, NEW req, NEW s, NEW done, NEW m, Progress(s, done, env, req),
           None \notin DOMAIN StatusOf,
           Verdict(env, req).error = None => Verdict(env, req).auth # None
    PROVE  Progress(runOne(env, req, s, m), done \cup {m}, env, req)
<1>1. CASE s.error # None
    BY <1>1 DEF runOne, Progress
<1>2. CASE s.error = None
  <2>1. PICK o : o = Middleware(m, env, req, s.view)
      OBVIOUS
  <2>2. runOne(env, req, s, m) = Outcome(s, o)
      BY <1>2, <2>1 DEF runOne
  <2>3. CASE m.kind = "verify"
    <3>1. o = createVerify(env, req, s.view, extractBearer(req))
        BY <2>1, <2>3 DEF Middleware
    <3>2. /\ o.error = Verdict(env, req).error
          /\ o.error \in {None} \cup DOMAIN StatusOf
          /\ o.error = None => o.auth = Verdict(env, req).auth
          /\ o.buckets = {}
        BY <3>1, VerifyAlike
    <3> QED BY <1>2, <2>2, <2>3, <3>2 DEF Progress, Outcome
  <2>4. CASE m.kind = "rateLimit"
    <3>1. o = createRateLimit(req, s.view, env.trustProxy)
        BY <2>1, <2>4 DEF Middleware
    <3> QED BY <1>2, <2>2, <2>4, <3>1 DEF Progress, Outcome, createRateLimit
  <2>5. CASE m.kind \notin {"verify", "rateLimit"}
    <3>1. o = authorize(m, env, req, s.view)
        BY <2>1, <2>5 DEF Middleware
    <3>2. /\ o.auth = s.view /\ o.buckets = {}
          /\ o.error \in {None} \cup DOMAIN StatusOf
          /\ o.error = None => s.view # None /\ Allowed(m, env, req, s.view)
        BY <3>1 DEF authorize, Refusal, Pass, StatusOf
    <3> QED BY <1>2, <2>2, <2>5, <3>2 DEF Progress, Outcome
  <2> QED BY <2>3, <2>4, <2>5
<1> QED BY <1>1, <1>2

Frameworks == {"express", "fastify", "koa", "hono"}
PassedIn(chain, n) == {chain[k] : k \in 1 .. n}
Passed(chains, n) == UNION {PassedIn(chains[k], Len(chains[k])) : k \in 1 .. n}

\* So does a chain, middleware by middleware.
LEMMA ChainGoesOn ==
    ASSUME NEW env, NEW req, NEW s, NEW done, NEW chain, Len(chain) \in Nat,
           Progress(s, done, env, req),
           None \notin DOMAIN StatusOf,
           Verdict(env, req).error = None => Verdict(env, req).auth # None
    PROVE  Progress(Run(env, req, s, chain), done \cup PassedIn(chain, Len(chain)), env, req)
<1>1. PICK f : /\ f[0] = s
               /\ \A k \in 1 .. Len(chain) : f[k] = runOne(env, req, f[k - 1], chain[k])
               /\ Run(env, req, s, chain) = f[Len(chain)]
    BY RunSteps
<1> DEFINE Fine(k) == Progress(f[k], done \cup PassedIn(chain, k), env, req)
           T == {k \in Nat : k <= Len(chain) => Fine(k)}
<1>2. 0 \in T
  <2>1. done \cup PassedIn(chain, 0) = done
      BY DEF PassedIn
  <2> QED BY <1>1, <2>1
<1>3. ASSUME NEW k \in Nat, k \in T PROVE k + 1 \in T
  <2>1. SUFFICES ASSUME k + 1 <= Len(chain) PROVE Fine(k + 1)
      OBVIOUS
  <2>2. Fine(k)
      BY <1>3, <2>1
  <2>3. f[k + 1] = runOne(env, req, f[k], chain[k + 1])
      BY <1>1, <2>1
  <2>4. done \cup PassedIn(chain, k + 1) = (done \cup PassedIn(chain, k)) \cup {chain[k + 1]}
    <3>1. 1 .. k + 1 = (1 .. k) \cup {k + 1}
        OBVIOUS
    <3> QED BY <3>1 DEF PassedIn
  <2>5. PICK t : t = f[k]
      OBVIOUS
  <2>6. PICK m : m = chain[k + 1]
      OBVIOUS
  <2>7. PICK d : d = done \cup PassedIn(chain, k)
      OBVIOUS
  <2>8. Progress(t, d, env, req)
      BY <2>2, <2>5, <2>7
  <2>9. Progress(runOne(env, req, t, m), d \cup {m}, env, req)
      BY <2>8, MiddlewareGoesOn
  <2> QED BY <2>3, <2>4, <2>5, <2>6, <2>7, <2>9
<1> HIDE DEF T
<1>4. Len(chain) \in T
    BY <1>2, <1>3, AllNumbers
<1> QED
    BY <1>1, <1>4 DEF T

\* So does a mounted chain, on every framework.
LEMMA MountGoesOn ==
    ASSUME NEW framework \in Frameworks, NEW env, NEW req, NEW s, NEW done, NEW chain,
           Len(chain) \in Nat, Progress(s, done, env, req),
           None \notin DOMAIN StatusOf,
           Verdict(env, req).error = None => Verdict(env, req).auth # None
    PROVE  Progress(Mount(framework, env, req, s, chain), done \cup PassedIn(chain, Len(chain)), env, req)
<1>1. PICK d : d = done \cup PassedIn(chain, Len(chain))
    OBVIOUS
<1>2. Progress(Run(env, req, s, chain), d, env, req)
    BY <1>1, ChainGoesOn
<1>3. ASSUME s.error = None
      PROVE  Progress(Run(env, req, [s EXCEPT !.view = s.context], chain), d, env, req)
  <2>1. [s EXCEPT !.view = s.context] = s
      BY <1>3, Zenon DEF Progress
  <2> QED BY <1>2, <2>1
<1>4. ASSUME s.error # None PROVE Progress(s, d, env, req)
    BY <1>4 DEF Progress
<1>5. CASE framework \in {"hono", "koa"}
  <2>1. Mount(framework, env, req, s, chain) =
           IF s.error # None THEN s ELSE Run(env, req, [s EXCEPT !.view = s.context], chain)
      BY <1>5 DEF Mount, toHono, toKoa
  <2> QED BY <2>1, <1>1, <1>3, <1>4
<1>6. CASE framework \in {"fastify", "express"}
  <2>1. Mount(framework, env, req, s, chain) = Run(env, req, s, chain)
      BY <1>6 DEF Mount, toFastifyChain
  <2> QED BY <2>1, <1>1, <1>2
<1> QED
    BY <1>5, <1>6 DEF Frameworks

\* A request that no error answered has gone through every middleware of its route.
LEMMA ThroughAll ==
    ASSUME NEW framework \in Frameworks, NEW env, NEW req, NEW chains, Len(chains) \in Nat,
           \A k \in 1 .. Len(chains) : Len(chains[k]) \in Nat,
           None \notin DOMAIN StatusOf,
           Verdict(env, req).error = None => Verdict(env, req).auth # None
    PROVE  Progress(Through(framework, env, req, chains), Passed(chains, Len(chains)), env, req)
<1>1. PICK f : /\ f[0] = Arrived
               /\ \A k \in 1 .. Len(chains) : f[k] = Mount(framework, env, req, f[k - 1], chains[k])
               /\ Through(framework, env, req, chains) = f[Len(chains)]
    BY ThroughSteps
<1> DEFINE Fine(k) == Progress(f[k], Passed(chains, k), env, req)
           T == {k \in Nat : k <= Len(chains) => Fine(k)}
<1>2. 0 \in T
  <2>1. Passed(chains, 0) = {}
      BY DEF Passed
  <2>2. Progress(Arrived, {}, env, req)
      BY DEF Progress, Arrived
  <2> QED BY <1>1, <2>1, <2>2
<1>3. ASSUME NEW k \in Nat, k \in T PROVE k + 1 \in T
  <2>1. SUFFICES ASSUME k + 1 <= Len(chains) PROVE Fine(k + 1)
      OBVIOUS
  <2>2. PICK t, d, chain : t = f[k] /\ d = Passed(chains, k) /\ chain = chains[k + 1]
      OBVIOUS
  <2>3. Progress(t, d, env, req)
      BY <1>3, <2>1, <2>2
  <2>4. f[k + 1] = Mount(framework, env, req, t, chain)
      BY <1>1, <2>1, <2>2
  <2>5. Len(chain) \in Nat
      BY <2>1, <2>2
  <2>6. Progress(Mount(framework, env, req, t, chain), d \cup PassedIn(chain, Len(chain)), env, req)
      BY <2>3, <2>5, MountGoesOn
  <2>7. Passed(chains, k + 1) = d \cup PassedIn(chain, Len(chain))
    <3>1. 1 .. k + 1 = (1 .. k) \cup {k + 1}
        OBVIOUS
    <3> QED BY <2>2, <3>1 DEF Passed
  <2> QED BY <2>4, <2>6, <2>7
<1> HIDE DEF T
<1>4. Len(chains) \in T
    BY <1>2, <1>3, AllNumbers
<1> QED
    BY <1>1, <1>4 DEF T

\* What the middlewares in all have let through as r.
LetThrough(all, env, req, r) ==
    /\ Verdict(env, req).error = None
    /\ r.auth = Verdict(env, req).auth
    /\ \E m \in all : m.kind = "verify"
    /\ \A m \in all : m.kind \notin {"rateLimit", "verify"} => Allowed(m, env, req, r.auth)
    /\ r.buckets = IF \E m \in all : m.kind = "rateLimit"
                   THEN {clientIp(req, env.trustProxy)} ELSE {}

\* A request that is answered by its handler was admitted and allowed.
LEMMA HandledMeansAdmitted ==
    ASSUME NEW framework \in Frameworks, NEW env, NEW wire, NEW chains, Len(chains) \in Nat,
           \A k \in 1 .. Len(chains) : Len(chains[k]) \in Nat,
           None \notin DOMAIN StatusOf,
           NEW req, req = HttpRequest(framework, wire),
           Verdict(env, req).error = None => Verdict(env, req).auth # None,
           NEW r, r = Handled(framework, env, wire, chains), r.status = 200,
           \E m \in Passed(chains, Len(chains)) : m.kind # "rateLimit"
    PROVE  LetThrough(Passed(chains, Len(chains)), env, req, r)
<1>1. PICK s : s = Through(framework, env, req, chains)
    OBVIOUS
<1>2. PICK all : all = Passed(chains, Len(chains))
    OBVIOUS
<1>3. Progress(s, all, env, req)
    BY <1>1, <1>2, ThroughAll
<1>4. r = [status |-> toErrorResponse(s.error), buckets |-> s.buckets,
           auth |-> IF framework \in {"hono", "koa"} THEN s.context ELSE s.view]
    BY <1>1 DEF Handled
<1>5. toErrorResponse(s.error) = 200
    BY <1>4
<1>6. s.error = None
  <2>1. \A e \in DOMAIN StatusOf : StatusOf[e] # 200
      BY DEF StatusOf
  <2> QED BY <1>3, <1>5, <2>1 DEF Progress, toErrorResponse
<1>7. s.context = s.view /\ r.auth = s.view /\ r.buckets = s.buckets
    BY <1>3, <1>4, <1>6 DEF Progress
<1>8. s.view # None
    BY <1>2, <1>3, <1>6 DEF Progress
<1> QED
    BY <1>2, <1>3, <1>6, <1>7, <1>8 DEF Progress, LetThrough

-----------------------------------------------------------------------------
(***************************************************************************)
(* What a framework's request says of the one on the wire.                 *)
(***************************************************************************)
\* The members of a request that the frameworks agree on, and how they do not.
LEMMA RequestOf ==
    ASSUME NEW framework \in Frameworks, NEW wire, NEW req, req = HttpRequest(framework, wire)
    PROVE  /\ req.method = wire.method /\ req.params = wire.params /\ req.host = wire.host
           /\ req.dpop = Joined(wire.dpop)
           /\ req.forwardedProto = Joined(wire.forwardedProto)
           /\ req.forwardedFor = Joined(wire.forwardedFor)
           /\ req.socket = wire.peer /\ req.ip \in {wire.peer, None}
           /\ req.protocol \in {wire.scheme, None}
           /\ req.authorization = Kept(wire)
           /\ req.raw = IF framework = "hono" THEN None ELSE RawLines(wire)
<1>1. CASE framework = "hono"
    BY <1>1 DEF HttpRequest, HonoRequest, View
<1>2. CASE framework \in {"express", "fastify", "koa"}
  <2>1. req = NodeRequest(wire)
      BY <1>2 DEF HttpRequest, FastifyRequest, KoaRequest
  <2>2. /\ req.method = wire.method /\ req.params = wire.params /\ req.host = wire.host
        /\ req.dpop = Joined(wire.dpop)
        /\ req.forwardedProto = Joined(wire.forwardedProto)
        /\ req.forwardedFor = Joined(wire.forwardedFor)
      BY <2>1 DEF NodeRequest, View
  <2>3. req.socket = wire.peer /\ req.ip = wire.peer /\ req.protocol = wire.scheme
      BY <2>1 DEF NodeRequest, View
  <2>4. /\ req.raw = RawLines(wire)
        /\ req.authorization = Kept(wire)
      BY <2>1 DEF NodeRequest, View
  <2>5. req.ip \in {wire.peer, None} /\ req.protocol \in {wire.scheme, None}
      BY <2>3
  <2>6. req.raw = IF framework = "hono" THEN None ELSE RawLines(wire)
      BY <1>2, <2>4
  <2> QED BY <2>2, <2>3, <2>4, <2>5, <2>6, Zenon
<1> QED
    BY <1>1, <1>2 DEF Frameworks

FewLines(lines) == lines = <<>> \/ (\E x : lines = <<x>>) \/ (\E x, y : lines = <<x, y>>)

\* The token that verify() is given is the only one, or on Hono the first.
LEMMA OneCredential ==
    ASSUME NEW framework \in Frameworks, NEW wire, NEW req, req = HttpRequest(framework, wire),
           FewLines(wire.authorization), FewLines(wire.dpop),
           extractBearer(req) # None
    PROVE  \/ extractBearer(req) = Garbled
           \/ /\ Unambiguous(framework, wire)
              /\ extractBearer(req) = wire.authorization[1].token
<1>1. PICK lines, shown : lines = wire.authorization /\ shown = req.authorization
    OBVIOUS
<1>2. shown = Kept(wire) /\ req.raw = IF framework = "hono" THEN None ELSE RawLines(wire)
    BY <1>1, RequestOf
<1>3. shown # None
    BY <1>1 DEF extractBearer
<1>4. lines # <<>> /\ shown = IF wire.joined THEN lines ELSE <<lines[1]>>
    BY <1>1, <1>2, <1>3, Zenon DEF Kept
<1>5. Len(shown) = 1 => extractBearer(req) = shown[1].token
    BY <1>1, <1>3 DEF extractBearer
<1>6. Len(shown) = 2 => extractBearer(req) = Garbled
  <2>1. SUFFICES ASSUME Len(shown) = 2 PROVE extractBearer(req) = Garbled
      OBVIOUS
  <2> QED BY <1>1, <1>3, <2>1 DEF extractBearer
<1>7. CASE \E x : lines = <<x>>
  <2>1. Len(lines) = 1 /\ shown = lines
      BY <1>4, <1>7
  <2> QED BY <1>1, <1>4, <1>5, <2>1 DEF Unambiguous
<1>8. CASE \E x, y : lines = <<x, y>>
  <2>1. Len(lines) = 2
      BY <1>8
  <2>2. CASE wire.joined
      BY <1>4, <1>6, <2>1, <2>2
  <2>3. CASE ~wire.joined
    <3>1. Len(shown) = 1 /\ shown[1] = lines[1]
        BY <1>4, <2>3
    <3>2. framework = "hono"
      <4>1. SUFFICES ASSUME framework # "hono" PROVE FALSE
          OBVIOUS
      <4>2. RawLines(wire).authorization = 2
          BY <1>1, <2>1, <2>3 DEF RawLines, Came
      <4>3. Came(wire, wire.authorization) \in Nat /\ Came(wire, wire.dpop) \in Nat
          BY <1>1, <2>1, <2>3 DEF Came, FewLines
      <4>4. RawLines(wire) # None
          BY <4>3, NoneAssumption DEF RawLines
      <4>5. req.raw = RawLines(wire)
          BY <1>2, <4>1
      <4> QED BY <4>2, <4>4, <4>5 DEF extractBearer
    <3> QED BY <1>1, <1>4, <1>5, <2>3, <3>1, <3>2 DEF Unambiguous, Unnoticed
  <2> QED BY <2>2, <2>3
<1> QED
    BY <1>1, <1>4, <1>7, <1>8 DEF FewLines

\* So is the proof.
LEMMA OneProof ==
    ASSUME NEW framework \in Frameworks, NEW wire, NEW req, req = HttpRequest(framework, wire),
           FewLines(wire.dpop),
           extractProofHeader(req) # None
    PROVE  Len(wire.dpop) = 1 /\ extractProofHeader(req) = wire.dpop[1]
<1>1. PICK lines : lines = wire.dpop
    OBVIOUS
<1>2. req.dpop = Joined(lines)
    BY <1>1, RequestOf
<1>3. req.dpop # None /\ ~(Len(req.dpop) > 1) /\ extractProofHeader(req) = req.dpop[1]
    BY DEF extractProofHeader
<1>4. req.dpop = lines /\ lines # <<>>
    BY <1>2, <1>3, Zenon DEF Joined
<1>5. Len(lines) = 1
  <2>1. CASE \E x : lines = <<x>>
      BY <2>1
  <2>2. CASE \E x, y : lines = <<x, y>>
    <3>1. Len(lines) = 2
        BY <2>2
    <3> QED BY <1>3, <1>4, <3>1
  <2> QED BY <1>1, <1>4, <2>1, <2>2 DEF FewLines
<1> QED
    BY <1>1, <1>3, <1>4, <1>5

\* A sequence of two.
LEMMA PairOf ==
    ASSUME NEW S, NEW x \in S, NEW y \in S
    PROVE  /\ <<x, y>> \in Seq(S) /\ <<x, y>> # <<>>
           /\ Len(<<x, y>>) = 2 /\ <<x, y>>[2] = y
OBVIOUS

\* The rate limit counts the address of the caller.
SeenByProxies(proxies, caller) ==
    IF proxies = 0 THEN <<>> ELSE <<AddressOf("made up"), AddressOf(caller)>>
SeenAtSocket(proxies, caller) ==
    IF proxies = 0 THEN [ip |-> caller, form |-> "mapped"] ELSE AddressOf("proxy")

\* The address that a request is counted for is the one it came from.
LEMMA CountedAddress ==
    ASSUME NEW framework \in Frameworks, NEW wire, NEW req, req = HttpRequest(framework, wire),
           NEW caller \in {"page", "program"}, NEW proxies \in {0, 1},
           wire.forwardedFor = SeenByProxies(proxies, caller), wire.peer = SeenAtSocket(proxies, caller)
    PROVE  clientIp(req, proxies) = AddressOf(caller)
<1>1. req.forwardedFor = Joined(wire.forwardedFor) /\ req.socket = wire.peer /\ req.ip \in {wire.peer, None}
    BY RequestOf
<1>2. CASE proxies = 0
  <2>0. [ip |-> caller, form |-> "mapped"] \in Addresses
      BY DEF Addresses
  <2>1. peerAddress(req) = [ip |-> caller, form |-> "mapped"]
      BY <1>1, <1>2 DEF peerAddress, SeenAtSocket
  <2>2. peerAddress(req) # None
      BY <2>0, <2>1, NoneAssumption
  <2>3. normalise([ip |-> caller, form |-> "mapped"]) = [ip |-> caller, form |-> "plain"]
      BY DEF normalise
  <2> QED BY <1>2, <2>1, <2>2, <2>3 DEF clientIp, Peer, AddressOf, SeenByProxies
<1>3. CASE proxies = 1
  <2>1. PICK line : line = <<AddressOf("made up"), AddressOf(caller)>>
      OBVIOUS
  <2>2. AddressOf("made up") \in Addresses /\ AddressOf(caller) \in Addresses
      BY DEF AddressOf, Addresses
  <2>3. line \in Seq(Addresses) /\ Len(line) = 2 /\ line[2] = AddressOf(caller) /\ line # <<>>
      BY <2>1, <2>2, PairOf
  <2>6. line # None
      BY <2>3, NoneAssumption
  <2>4. req.forwardedFor = line
    <3>1. wire.forwardedFor = line
      <4>0. 1 # 0
          OBVIOUS
      <4>1. SeenByProxies(1, caller) = line
          BY <2>1, <4>0, Zenon DEF SeenByProxies
      <4> QED BY <1>3, <4>1
    <3> QED BY <1>1, <2>3, <3>1 DEF Joined
  <2>5. normalise(AddressOf(caller)) = AddressOf(caller)
      BY DEF normalise, AddressOf
  <2>7. clientIp(req, 1) = normalise(line[2])
    <3>1. PICK n : n = Len(req.forwardedFor)
        OBVIOUS
    <3>2. n = 2 /\ req.forwardedFor # None
        BY <2>3, <2>4, <2>6, <3>1
    <3>3. clientIp(req, 1) = normalise(req.forwardedFor[n - 1 + 1])
        BY <3>1, <3>2 DEF clientIp
    <3> QED BY <2>4, <3>2, <3>3
  <2> QED BY <1>3, <2>3, <2>5, <2>7
<1> QED
    BY <1>2, <1>3

-----------------------------------------------------------------------------
(***************************************************************************)
(* What a token that is taken says.                                        *)
(***************************************************************************)
ClaimedBy(claims) ==
    [userId |-> claims.sub, roles |-> claims.roles, scopes |-> claims.scopes,
     tenant |-> claims.tenant, sessionId |-> claims.sid,
     authenticatedAt |-> claims.auth_time, confirmationKey |-> claims.cnf]

\* Claims that are taken name this issuer and audience and have not expired.
LEMMA ClaimsRead ==
    ASSUME NEW engine, NEW claims, NEW jkt, NEW now, NEW o, o = CheckClaims(engine, claims, jkt, now),
           o.error = None
    PROVE  /\ claims # None /\ o.auth = ClaimedBy(claims)
           /\ ~isExpired(claims.exp, engine.clockToleranceSeconds, now)
           /\ assertConfirmationKey(claims.cnf, jkt)
<1>1. None # "TokenInvalid" /\ None # "TokenExpired"
    BY NoneAssumption DEF Texts, StatusOf
<1>2. o # Failed("TokenInvalid") /\ o # Failed("TokenExpired")
    BY <1>1 DEF Failed
<1> QED
    BY <1>2 DEF CheckClaims, ClaimedBy

\* A footer that is taken has a key id and nothing else.
LEMMA FooterRead ==
    ASSUME NEW t, NEW key, NEW kid, kid = readKid(readFooterUnverified(t)), kid # None,
           NEW message, message = verifyV4Public(t, key), message # None
    PROVE  /\ t.header = V4_PUBLIC_HEADER /\ Len(t.parts) = 2
           /\ t.parts[1].canonical /\ t.parts[2].canonical
           /\ t.parts[1].value.message = message
           /\ t.parts[1].value.over = pae(<<V4_PUBLIC_HEADER, message, t.parts[2].value>>)
<1>1. t.header = V4_PUBLIC_HEADER /\ Len(t.parts) = 2
    BY DEF readKid, readFooterUnverified
<1>2. PICK body, footer : body = b64uDecode(t.parts[1]) /\ footer = b64uDecode(t.parts[2])
    OBVIOUS
<1>3. footer # None /\ message = Opened(body, footer, key)
    BY <1>1, <1>2 DEF verifyV4Public
<1>4. /\ body # None /\ body.message = message
      /\ body.over = pae(<<V4_PUBLIC_HEADER, body.message, footer>>)
    BY <1>3, Zenon DEF Opened
<1>5. t.parts[1].canonical /\ t.parts[1].value = body /\ t.parts[2].canonical /\ t.parts[2].value = footer
    BY <1>2, <1>3, <1>4 DEF b64uDecode
<1> QED
    BY <1>1, <1>4, <1>5, Zenon

PasetoTaken(engine, t, jkt, now, o) ==
    /\ t.header = V4_PUBLIC_HEADER /\ Len(t.parts) = 2
    /\ t.parts[1].canonical /\ t.parts[2].canonical
    /\ t.parts[1].value.over =
          pae(<<V4_PUBLIC_HEADER, t.parts[1].value.message, t.parts[2].value>>)
    /\ o.auth = ClaimedBy(t.parts[1].value.message)
    /\ ~isExpired(t.parts[1].value.message.exp, engine.clockToleranceSeconds, now)
    /\ assertConfirmationKey(t.parts[1].value.message.cnf, jkt)

\* A signed token that is taken is whole.
LEMMA PasetoRead ==
    ASSUME NEW engine, NEW t, NEW jkt, NEW now, NEW o, o = VerifyPaseto(engine, t, jkt, now),
           o.error = None
    PROVE  PasetoTaken(engine, t, jkt, now, o)
<1>1. o # Failed("TokenInvalid")
    BY NoneAssumption DEF Failed, Texts, StatusOf
<1>2. PICK kid : kid = readKid(readFooterUnverified(t))
    OBVIOUS
<1>3. PICK key : key = resolve(engine.ring, kid)
    OBVIOUS
<1>4. kid # None /\ key # None /\ o = CheckClaims(engine, parseClaims(verifyV4Public(t, key)), jkt, now)
    BY <1>1, <1>2, <1>3 DEF VerifyPaseto, VerifyWith
<1>5. PICK message : message = verifyV4Public(t, key)
    OBVIOUS
<1>6. PICK claims : claims = parseClaims(message)
    OBVIOUS
<1>7. /\ claims # None /\ o.auth = ClaimedBy(claims)
      /\ ~isExpired(claims.exp, engine.clockToleranceSeconds, now)
      /\ assertConfirmationKey(claims.cnf, jkt)
    BY <1>4, <1>5, <1>6, ClaimsRead
<1>8. message # None /\ claims = message
    BY <1>6, <1>7 DEF parseClaims
<1>9. /\ t.header = V4_PUBLIC_HEADER /\ Len(t.parts) = 2
      /\ t.parts[1].canonical /\ t.parts[2].canonical
      /\ t.parts[1].value.message = message
      /\ t.parts[1].value.over = pae(<<V4_PUBLIC_HEADER, message, t.parts[2].value>>)
    BY <1>2, <1>4, <1>5, <1>8, FooterRead
<1> QED
    BY <1>7, <1>8, <1>9, Zenon DEF PasetoTaken

\* The record behind an opaque token, as an input of issue().
LEMMA OpaqueRead ==
    ASSUME NEW engine, NEW t, NEW jkt, NEW now, NEW time, NEW o,
           o = VerifyOpaque(engine, t, jkt, now, time), o.error = None
    PROVE  /\ t.header = "opaque" /\ t.record # None
           /\ o.auth = [userId |-> t.record.principal.userId,
                        roles |-> t.record.principal.roles,
                        scopes |-> t.record.principal.scopes,
                        tenant |-> t.record.principal.tenant,
                        sessionId |-> t.record.sessionId,
                        authenticatedAt |-> t.record.authenticatedAt,
                        confirmationKey |-> t.record.confirmationKey]
           /\ ~isExpired(t.record.expiresAt, engine.clockToleranceSeconds, now)
           /\ assertConfirmationKey(t.record.confirmationKey, jkt)
<1>1. None # "TokenInvalid" /\ None # "TokenExpired"
    BY NoneAssumption DEF Texts, StatusOf
<1>2. o # Failed("TokenInvalid") /\ o # Failed("TokenExpired")
    BY <1>1 DEF Failed
<1> QED
    BY <1>2, Zenon DEF VerifyOpaque

-----------------------------------------------------------------------------
(***************************************************************************)
(* Tokens that were issued, and what a mishap may have made of them.       *)
(***************************************************************************)
IdentityOf(input) ==
    [userId |-> input.principal.userId, roles |-> input.principal.roles,
     scopes |-> input.principal.scopes, tenant |-> input.principal.tenant,
     sessionId |-> input.sessionId, authenticatedAt |-> input.authenticatedAt,
     confirmationKey |-> input.confirmationKey]

\* A part is respelled, or it is not.
LEMMA OneAndOne ==
    ASSUME NEW x, NEW y
    PROVE  <<x>> \o <<y>> = <<x, y>>
<1>1. <<x>> \in Seq({x, y}) /\ <<y>> \in Seq({x, y}) /\ <<x, y>> \in Seq({x, y})
    OBVIOUS
<1>2. Len(<<x>>) = 1 /\ Len(<<y>>) = 1 /\ Len(<<x, y>>) = 2
    OBVIOUS
<1>3. PICK s : s = <<x>> \o <<y>>
    OBVIOUS
<1>4. s \in Seq({x, y}) /\ Len(s) = 2 /\ s[1] = x /\ s[2] = y
  <2>1. s \in Seq({x, y}) /\ Len(s) = Len(<<x>>) + Len(<<y>>)
        /\ \A i \in 1 .. Len(<<x>>) + Len(<<y>>) :
               s[i] = IF i <= Len(<<x>>) THEN <<x>>[i] ELSE <<y>>[i - Len(<<x>>)]
      BY <1>1, <1>3, ConcatProperties
  <2> QED BY <1>2, <2>1
<1>5. PICK t : t = <<x, y>>
    OBVIOUS
<1>6. t \in Seq({x, y}) /\ Len(t) = 2 /\ t[1] = x /\ t[2] = y
    BY <1>1, <1>2, <1>5
<1>7. s = t
    BY <1>4, <1>6, SeqEqual
<1> QED
    BY <1>3, <1>5, <1>7

\* A token is written in two segments.
LEMMA SignedParts ==
    ASSUME NEW payload, NEW key, NEW footer, footer # None
    PROVE  signV4Public(payload, key, footer) =
              [header |-> V4_PUBLIC_HEADER,
               parts |-> <<b64uEncode([message |-> payload, by |-> key,
                                       over |-> pae(<<V4_PUBLIC_HEADER, payload, footer>>)]),
                           b64uEncode(footer)>>]
<1>1. PICK body : body = b64uEncode([message |-> payload, by |-> key,
                                     over |-> pae(<<V4_PUBLIC_HEADER, payload, footer>>)])
    OBVIOUS
<1>2. PICK f : f = b64uEncode(footer)
    OBVIOUS
<1>3. signV4Public(payload, key, footer) = [header |-> V4_PUBLIC_HEADER, parts |-> <<body>> \o <<f>>]
    BY <1>1, <1>2 DEF signV4Public
<1>4. <<body>> \o <<f>> = <<body, f>>
    BY OneAndOne
<1> QED
    BY <1>1, <1>2, <1>3, <1>4

PasetoWritten(engine, input, then, t) ==
    /\ t.header = V4_PUBLIC_HEADER /\ DOMAIN t.parts = 1 .. 2
    /\ t = [header |-> t.header, parts |-> t.parts]
    /\ t.parts[1] = [value |-> t.parts[1].value, canonical |-> TRUE]
    /\ t.parts[2] = [value |-> t.parts[2].value, canonical |-> TRUE]
    /\ t.parts[2].value = [kid |-> engine.ring.signingKid]
    /\ t.parts[1].value.over =
          pae(<<V4_PUBLIC_HEADER, t.parts[1].value.message, [kid |-> engine.ring.signingKid]>>)
    /\ ClaimedBy(t.parts[1].value.message) = IdentityOf(input)
    /\ t.parts[1].value.message.cnf = input.confirmationKey
    /\ t.parts[1].value.message.exp = then + engine.accessTokenTtl

\* An issued token is written in two segments.
LEMMA IssuedPaseto ==
    ASSUME NEW engine, NEW input, NEW then, NEW t, t = IssuePaseto(engine, input, then),
           engine.ring.signingKid \in Kids
    PROVE  PasetoWritten(engine, input, then, t)
<1>1. PICK payload : payload =
        [jti |-> "jti", sub |-> input.principal.userId, iss |-> engine.issuer,
         aud |-> engine.audience, iat |-> then, nbf |-> then,
         auth_time |-> input.authenticatedAt, exp |-> then + engine.accessTokenTtl,
         sid |-> input.sessionId, roles |-> input.principal.roles,
         scopes |-> input.principal.scopes, tenant |-> input.principal.tenant,
         cnf |-> input.confirmationKey]
    OBVIOUS
<1>2. PICK footer : footer = [kid |-> engine.ring.signingKid]
    OBVIOUS
<1>3. PICK over : over = pae(<<V4_PUBLIC_HEADER, payload, footer>>)
    OBVIOUS
<1>4. t = signV4Public(payload, engine.ring.privateKey, footer)
    BY <1>1, <1>2 DEF IssuePaseto
<1>5. PICK one, two :
        /\ one = b64uEncode([message |-> payload, by |-> engine.ring.privateKey, over |-> over])
        /\ two = b64uEncode(footer)
    OBVIOUS
<1>6. t = [header |-> V4_PUBLIC_HEADER, parts |-> <<one, two>>]
  <2>1. footer # None
      BY <1>2, NoneAssumption DEF Footers
  <2> QED BY <1>3, <1>4, <1>5, <2>1, SignedParts
<1>7. t.header = V4_PUBLIC_HEADER /\ t.parts = <<one, two>> /\ t = [header |-> t.header, parts |-> t.parts]
    BY <1>6
<1>8. DOMAIN t.parts = 1 .. 2 /\ t.parts[1] = one /\ t.parts[2] = two
    BY <1>7
<1>9. /\ one = [value |-> one.value, canonical |-> TRUE]
      /\ two = [value |-> two.value, canonical |-> TRUE]
      /\ one.value.over = over /\ one.value.message = payload /\ two.value = footer
    BY <1>5 DEF b64uEncode
<1>10. /\ ClaimedBy(payload) = IdentityOf(input)
       /\ payload.cnf = input.confirmationKey
       /\ payload.exp = then + engine.accessTokenTtl
    BY <1>1 DEF ClaimedBy, IdentityOf
<1> QED
    BY <1>2, <1>3, <1>7, <1>8, <1>9, <1>10, Zenon DEF PasetoWritten

\* A token that an engine issued says who it was issued to, until it expires.
LEMMA GenuineTaken ==
    ASSUME NEW e, NEW input, NEW then, NEW before, NEW t, t = issue(e, input, then, before),
           NEW engine, engine.strategy = e.strategy,
           e.strategy = "paseto" => e.ring.signingKid \in Kids,
           NEW jkt, NEW now, NEW time, NEW o, o = verify(engine, t, jkt, now, time), o.error = None
    PROVE  /\ o.auth = IdentityOf(input)
           /\ ~isExpired(then + e.accessTokenTtl, engine.clockToleranceSeconds, now)
           /\ assertConfirmationKey(input.confirmationKey, jkt)
<1>1. CASE e.strategy = "paseto"
  <2>1. t = IssuePaseto(e, input, then) /\ o = VerifyPaseto(engine, t, jkt, now)
      BY <1>1 DEF issue, verify
  <2>0. PasetoWritten(e, input, then, t) /\ PasetoTaken(engine, t, jkt, now, o)
      BY <1>1, <2>1, IssuedPaseto, PasetoRead
  <2>2. PICK m : m = t.parts[1].value.message
      OBVIOUS
  <2>3. /\ ClaimedBy(m) = IdentityOf(input) /\ m.cnf = input.confirmationKey
        /\ m.exp = then + e.accessTokenTtl
      BY <2>0, <2>2, Zenon DEF PasetoWritten
  <2>4. /\ o.auth = ClaimedBy(m)
        /\ ~isExpired(m.exp, engine.clockToleranceSeconds, now)
        /\ assertConfirmationKey(m.cnf, jkt)
      BY <2>0, <2>2, Zenon DEF PasetoTaken
  <2> QED BY <2>3, <2>4
<1>2. CASE e.strategy # "paseto"
  <2>1. t = IssueOpaque(e, input, then, before) /\ o = VerifyOpaque(engine, t, jkt, now, time)
      BY <1>2 DEF issue, verify
  <2>2. PICK r : r = t.record
      OBVIOUS
  <2>3. r = [sessionId |-> input.sessionId, principal |-> input.principal, issuedAt |-> then,
             authenticatedAt |-> input.authenticatedAt,
             expiresAt |-> then + e.accessTokenTtl,
             confirmationKey |-> input.confirmationKey]
      BY <2>1, <2>2 DEF IssueOpaque
  <2>4. /\ o.auth = [userId |-> r.principal.userId, roles |-> r.principal.roles,
                     scopes |-> r.principal.scopes, tenant |-> r.principal.tenant,
                     sessionId |-> r.sessionId, authenticatedAt |-> r.authenticatedAt,
                     confirmationKey |-> r.confirmationKey]
        /\ ~isExpired(r.expiresAt, engine.clockToleranceSeconds, now)
        /\ assertConfirmationKey(r.confirmationKey, jkt)
      BY <2>1, <2>2, OpaqueRead
  <2>5. /\ r.principal = input.principal /\ r.sessionId = input.sessionId
        /\ r.authenticatedAt = input.authenticatedAt
        /\ r.confirmationKey = input.confirmationKey
        /\ r.expiresAt = then + e.accessTokenTtl
      BY <2>3
  <2> QED BY <2>4, <2>5 DEF IdentityOf
<1> QED
    BY <1>1, <1>2

\* A damaged token is not taken.
LEMMA DamagedRefused ==
    ASSUME NEW e, NEW input, NEW then, NEW before, NEW t, t = issue(e, input, then, before),
           NEW engine, engine.strategy = e.strategy, e.strategy = site.strategy,
           e.strategy = "paseto" => e.ring.signingKid \in Kids,
           e.strategy \in {"paseto", "opaque"},
           NEW mishap, NEW d, d = Damaged(mishap, t),
           NEW jkt, NEW now, NEW time, NEW o, o = verify(engine, d, jkt, now, time), o.error = None
    PROVE  d = t
<1>1. CASE e.strategy = "paseto" /\ mishap = "badToken"
  <2>1. t = IssuePaseto(e, input, then) /\ o = VerifyPaseto(engine, d, jkt, now)
      BY <1>1 DEF issue, verify
  <2>0. PasetoWritten(e, input, then, t) /\ PasetoTaken(engine, d, jkt, now, o)
      BY <1>1, <2>1, IssuedPaseto, PasetoRead
  <2>2. d = [t EXCEPT !.parts = Respelled(t.parts, 1)]
      BY <1>1 DEF Damaged
  <2>3. /\ t = [header |-> t.header, parts |-> t.parts] /\ DOMAIN t.parts = 1 .. 2
        /\ t.parts[1] = [value |-> t.parts[1].value, canonical |-> TRUE]
      BY <2>0, Zenon DEF PasetoWritten
  <2>4. PICK p : p = t.parts
      OBVIOUS
  <2>5. d.parts = [p EXCEPT ![1].canonical = FALSE]
      BY <2>2, <2>3, <2>4 DEF Respelled
  <2>6. 1 \in DOMAIN p /\ p[1] = [value |-> p[1].value, canonical |-> TRUE]
      BY <2>3, <2>4
  <2>7. d.parts[1] = [p[1] EXCEPT !.canonical = FALSE]
      BY <2>5, <2>6
  <2>8. ~d.parts[1].canonical
      BY <2>6, <2>7, Zenon
  <2>9. d.parts[1].canonical
      BY <2>0, Zenon DEF PasetoTaken
  <2> QED BY <2>8, <2>9
<1>2. CASE e.strategy = "opaque" /\ mishap = "badToken"
  <2>1. t = IssueOpaque(e, input, then, before) /\ o = VerifyOpaque(engine, d, jkt, now, time)
      BY <1>2 DEF issue, verify
  <2>2. d = [t EXCEPT !.record = None]
      BY <1>2 DEF Damaged
  <2>3. d.record = None
      BY <2>1, <2>2 DEF IssueOpaque
  <2>4. d.record # None
      BY <2>1, OpaqueRead
  <2> QED BY <2>3, <2>4
<1>3. CASE e.strategy = "paseto" /\ mishap = "footer"
  <2>1. t = IssuePaseto(e, input, then) /\ o = VerifyPaseto(engine, d, jkt, now)
      BY <1>3 DEF issue, verify
  <2>0. PasetoWritten(e, input, then, t) /\ PasetoTaken(engine, d, jkt, now, o)
      BY <1>3, <2>1, IssuedPaseto, PasetoRead
  <2>2. PICK kid : kid = t.parts[2].value.kid
      OBVIOUS
  <2>3. PICK other : other = [kid |-> kid, note |-> "more"]
      OBVIOUS
  <2>4. d = [t EXCEPT !.parts[2].value = other]
      BY <1>3, <2>2, <2>3 DEF Damaged
  <2>5. /\ t = [header |-> t.header, parts |-> t.parts] /\ DOMAIN t.parts = 1 .. 2
        /\ t.parts[2] = [value |-> t.parts[2].value, canonical |-> TRUE]
        /\ t.parts[1].value.over =
              pae(<<V4_PUBLIC_HEADER, t.parts[1].value.message, [kid |-> e.ring.signingKid]>>)
      BY <2>0, Zenon DEF PasetoWritten
  <2>6. PICK p : p = t.parts
      OBVIOUS
  <2>7. d.parts = [p EXCEPT ![2].value = other]
      BY <2>4, <2>5, <2>6
  <2>8. 1 \in DOMAIN p /\ 2 \in DOMAIN p /\ 1 # 2
      BY <2>5, <2>6
  <2>9. d.parts[1] = p[1] /\ d.parts[2].value = other
    <3>1. p[2] = [value |-> p[2].value, canonical |-> TRUE]
        BY <2>5, <2>6
    <3>2. d.parts[2] = [p[2] EXCEPT !.value = other]
        BY <2>7, <2>8
    <3>3. d.parts[2].value = other
        BY <3>1, <3>2, Zenon
    <3>4. d.parts[1] = p[1]
        BY <2>7, <2>8
    <3> QED BY <3>3, <3>4
  <2>10. d.parts[1].value.over =
            pae(<<V4_PUBLIC_HEADER, d.parts[1].value.message, d.parts[2].value>>)
      BY <2>0, Zenon DEF PasetoTaken
  <2>11. PICK m, signed : m = p[1].value.message /\ signed = [kid |-> e.ring.signingKid]
      OBVIOUS
  <2>12. pae(<<V4_PUBLIC_HEADER, m, signed>>) = pae(<<V4_PUBLIC_HEADER, m, other>>)
      BY <2>5, <2>6, <2>9, <2>10, <2>11
  <2>13. signed = other
      BY <2>12 DEF pae
  <2>14. DOMAIN signed = {"kid"} /\ DOMAIN other = {"kid", "note"}
      BY <2>3, <2>11
  <2> QED BY <2>13, <2>14
<1>4. CASE mishap \notin {"badToken", "footer"} \/ (mishap = "footer" /\ e.strategy = "opaque")
    BY <1>4 DEF Damaged
<1> QED
    BY <1>1, <1>2, <1>3, <1>4

-----------------------------------------------------------------------------
(***************************************************************************)
(* What a proof that is taken shows.                                       *)
(***************************************************************************)
ProofTaken(proof, options, jkt) ==
    /\ Len(proof) = 3
    /\ proof[1].canonical /\ proof[2].canonical /\ proof[3].canonical
    /\ proof[1].value.alg = algorithmForJwk(proof[1].value.jwk)
    /\ proof[1].value.jwk.private = {}
    /\ proof[3].value.by = jkt[3].of
    /\ jkt = jwkThumbprint(proof[1].value.jwk)
    /\ ClaimsMatch(proof[2].value, options)

\* A proof that is taken is whole, and shows its thumbprint.
LEMMA ProofRead ==
    ASSUME NEW proof, NEW options, NEW jkt, jkt = verifyDpopProof(proof, options), jkt # None
    PROVE  ProofTaken(proof, options, jkt)
<1>1. PICK header, jwk : header = decodeCanonical(proof[1]) /\ jwk = ProofKey(header)
    OBVIOUS
<1>2. Len(proof) = 3 /\ jkt = Verified(proof, jwk, options)
    BY <1>1 DEF verifyDpopProof
<1>3. PICK payload, signature :
         payload = decodeCanonical(proof[2]) /\ signature = decodeCanonical(proof[3])
    OBVIOUS
<1>4. /\ jwk # None /\ SignedBy(proof, jwk, signature) /\ ClaimsMatch(payload, options)
      /\ jkt = jwkThumbprint(jwk)
    BY <1>2, <1>3, Zenon DEF Verified
<1>5. /\ header # None /\ payload # None /\ signature # None
      /\ signature.by = importPublicKey(jwk)
    BY <1>1, <1>4, Zenon DEF ProofKey, SignedBy, ClaimsMatch
<1>6. /\ proof[1].canonical /\ proof[1].value = header
      /\ proof[2].canonical /\ proof[2].value = payload
      /\ proof[3].canonical /\ proof[3].value = signature
    BY <1>1, <1>3, <1>5, Zenon DEF decodeCanonical
<1>7. PICK key : key = header.jwk
    OBVIOUS
<1>8. jwk = KeyUnder(parseJwk(key), header.alg)
    BY <1>1, <1>4, <1>7, Zenon DEF ProofKey
<1>9. /\ jwk = parseJwk(key) /\ algorithmForJwk(jwk) = header.alg /\ importPublicKey(jwk) # None
    BY <1>4, <1>8, Zenon DEF KeyUnder
<1>10. /\ key.private = {}
       /\ jwk = [kty |-> key.kty, crv |-> key.crv, x |-> key.x,
                 y |-> IF key.kty = "EC" THEN key.y ELSE None]
    BY <1>4, <1>9 DEF parseJwk
<1>11. jwk.kty = key.kty /\ jwk.x = key.x
    BY <1>10
<1>12. header.alg = algorithmForJwk(key)
    BY <1>9, <1>11 DEF algorithmForJwk
<1>13. importPublicKey(jwk) = jwk.x.of
    BY <1>9, Zenon DEF importPublicKey
<1>14. jkt[3] = jwk.x
    BY <1>4 DEF jwkThumbprint
<1>15. jkt = jwkThumbprint(key)
  <2>1. CASE key.kty = "EC"
    <3>1. jwk.y = key.y /\ jwk.crv = key.crv
        BY <1>10, <2>1
    <3> QED BY <1>4, <1>11, <2>1, <3>1, Zenon DEF jwkThumbprint
  <2>2. CASE key.kty # "EC"
    <3>1. jwk.crv = key.crv
        BY <1>10
    <3> QED BY <1>4, <1>11, <2>2, <3>1, Zenon DEF jwkThumbprint
  <2> QED BY <2>1, <2>2
<1> QED
    BY <1>2, <1>4, <1>5, <1>6, <1>7, <1>10, <1>11, <1>12, <1>13, <1>14, <1>15, Zenon DEF ProofTaken

-----------------------------------------------------------------------------
(***************************************************************************)
(* URLs.                                                                   *)
(***************************************************************************)
Place(scheme, host, port, path, query) ==
    [scheme |-> scheme, host |-> host, port |-> port, path |-> path, query |-> query]

\* new URL() on a place.
LEMMA ParsedPlace ==
    ASSUME NEW scheme \in {"http", "https"}, NEW host, NEW port, NEW path, NEW query
    PROVE  parseUrl(Place(scheme, host, port, path, query)) =
              Place(scheme, host, IF port = ImpliedPort[scheme] THEN None ELSE port, path, query)
<1>1. PICK u : u = Place(scheme, host, port, path, query)
    OBVIOUS
<1>2. u.scheme = scheme /\ u.port = port
    BY <1>1 DEF Place
<1>3. scheme \in DOMAIN ImpliedPort
    BY DEF ImpliedPort
<1>4. parseUrl(u) = [u EXCEPT !.port = IF u.port = ImpliedPort[u.scheme] THEN None ELSE u.port]
    BY <1>2, <1>3 DEF parseUrl
<1>5. PICK p : p = IF port = ImpliedPort[scheme] THEN None ELSE port
    OBVIOUS
<1>6. parseUrl(u) = [u EXCEPT !.port = p]
    BY <1>2, <1>4, <1>5
<1>7. [u EXCEPT !.port = p] = Place(scheme, host, p, path, query)
    BY <1>1 DEF Place
<1> QED
    BY <1>1, <1>5, <1>6, <1>7

\* A place is compared without its query.
LEMMA NormalPlace ==
    ASSUME NEW scheme \in {"http", "https"}, NEW host, NEW port, NEW path, NEW query,
           NEW n, n = normaliseHtu(Place(scheme, host, port, path, query)), n # None
    PROVE  n = Place(scheme, host, IF port = ImpliedPort[scheme] THEN None ELSE port, path, None)
<1>1. PICK p : p = IF port = ImpliedPort[scheme] THEN None ELSE port
    OBVIOUS
<1>2. PICK u : u = Place(scheme, host, p, path, query)
    OBVIOUS
<1>3. n = [u EXCEPT !.query = None]
    BY <1>1, <1>2, ParsedPlace DEF normaliseHtu
<1>4. [u EXCEPT !.query = None] = Place(scheme, host, p, path, None)
    BY <1>2 DEF Place
<1> QED
    BY <1>1, <1>3, <1>4

\* The URL that a proof is compared with has the service's host and the
\* request's path, whatever became of the rest.
LEMMA ComparedUrl ==
    ASSUME NEW req, NEW origin, NEW path, NEW query, NEW target, target = req.originalUrl,
           target.path = path, target.query = query,
           origin = None \/ (origin.scheme \in {"http", "https"} /\ origin.host = "api"),
           req.host.host = "api",
           req.forwardedProto \in {None, <<"https">>}, req.protocol \in {"http", "https", None},
           NEW url, url = IF origin # None THEN builtRequestUrl(origin, req) ELSE defaultRequestUrl(req),
           NEW n, n = normaliseHtu(url), n # None
    PROVE  n.host \in {"api", "localhost"} /\ n.path = path
<1>1. ASSUME NEW scheme \in {"http", "https"}, NEW host, NEW port,
             url = Place(scheme, host, port, path, query)
      PROVE  n.host = host /\ n.path = path
  <2>1. n = Place(scheme, host, IF port = ImpliedPort[scheme] THEN None ELSE port, path, None)
      BY <1>1, NormalPlace
  <2> QED BY <2>1 DEF Place
<1>2. CASE origin # None
  <2>1. url = Place(origin.scheme, origin.host, origin.port, path, query)
      BY <1>2 DEF builtRequestUrl, Place
  <2>2. n.host = origin.host /\ n.path = path
      BY <1>1, <1>2, <2>1
  <2> QED BY <1>2, <2>2
<1>3. CASE origin = None
  <2>1. PICK scheme : scheme = IF req.forwardedProto # None THEN req.forwardedProto[1]
                               ELSE IF req.protocol # None THEN req.protocol ELSE "http"
      OBVIOUS
  <2>2. scheme \in {"http", "https"}
    <3>1. CASE req.forwardedProto # None
      <4>1. req.forwardedProto = <<"https">>
          BY <3>1
      <4>2. req.forwardedProto[1] = "https"
          BY <4>1
      <4> QED BY <2>1, <3>1, <4>2
    <3>2. CASE req.forwardedProto = None
        BY <2>1, <3>2
    <3> QED BY <3>1, <3>2
  <2>3. PICK port : port = req.host.port
      OBVIOUS
  <2>4. PICK u : u = Place(scheme, "api", port, path, query)
      OBVIOUS
  <2>5. url = Reconstructed(u)
      BY <1>3, <2>1, <2>3, <2>4 DEF defaultRequestUrl, Place
  <2>6. u.path = path /\ u.query = query
      BY <2>4 DEF Place
  <2>7. CASE parseUrl(u) = None
    <3>1. url = Place("http", "localhost", None, path, query)
        BY <2>5, <2>6, <2>7 DEF Reconstructed, Place
    <3> QED BY <1>1, <3>1
  <2>8. CASE parseUrl(u) # None
    <3>1. url = parseUrl(u)
        BY <2>5, <2>8 DEF Reconstructed
    <3>2. url = Place(scheme, "api", IF port = ImpliedPort[scheme] THEN None ELSE port, path, query)
        BY <2>2, <2>4, <3>1, ParsedPlace
    <3> QED BY <1>1, <2>2, <3>2
  <2> QED BY <2>7, <2>8
<1> QED
    BY <1>2, <1>3

\* The claims of a proof for a request to a place.
LEMMA MadeClaims ==
    ASSUME NEW scheme \in {"http", "https"}, NEW host, NEW path, NEW query,
           NEW request, request.url = Place(scheme, host, ImpliedPort[scheme], path, query),
           NEW at, NEW c, c = Claims(request, at)
    PROVE  /\ c.htu = Place(scheme, host, None, path, None)
           /\ c.iat = at
<1>1. PICK u : u = Place(scheme, host, None, path, query)
    OBVIOUS
<1>2. PICK port : port = ImpliedPort[scheme]
    OBVIOUS
<1>3. parseUrl(request.url) = u
    BY <1>1, <1>2, ParsedPlace
<1>4. [u EXCEPT !.query = None] = Place(scheme, host, None, path, None)
    BY <1>1 DEF Place
<1>5. c.htu = [parseUrl(request.url) EXCEPT !.query = None] /\ c.iat = at
    BY DEF Claims
<1> QED
    BY <1>3, <1>4, <1>5

\* A proof for another host or path does not match.
LEMMA SamePlace ==
    ASSUME NEW scheme \in {"http", "https"}, NEW host \in {"api", "elsewhere"}, NEW path,
           NEW n, n = normaliseHtu(Place(scheme, host, None, path, None)), n # None,
           NEW there, n.host \in {"api", "localhost"} /\ n.path = there
    PROVE  host = "api" /\ path = there
<1>1. PICK p : p = IF None = ImpliedPort[scheme] THEN None ELSE None
    OBVIOUS
<1>2. n = Place(scheme, host, p, path, None)
    BY <1>1, NormalPlace
<1>3. n.host = host /\ n.path = path
    BY <1>2 DEF Place
<1> QED
    BY <1>3

\* What establishProofOfPossession() compares a proof with.
Expected(env, req, accessToken) ==
    [method |-> req.method, accessToken |-> accessToken, now |-> env.now,
     url |-> IF env.origin # None THEN builtRequestUrl(env.origin, req) ELSE defaultRequestUrl(req),
     maxAgeSeconds |-> env.dpop.maxAgeSeconds,
     clockToleranceSeconds |-> env.dpop.clockToleranceSeconds]

Established(env, req, accessToken, jkt) ==
    /\ extractProofHeader(req) # None /\ jkt # None
    /\ jkt = verifyDpopProof(extractProofHeader(req), Expected(env, req, accessToken))

\* A proof of possession that is established was read and has a thumbprint.
LEMMA Establishing ==
    ASSUME NEW env, NEW req, NEW accessToken, NEW p,
           p = establishProofOfPossession(env, req, accessToken), p.error = None
    PROVE  Established(env, req, accessToken, p.jkt)
<1>1. None # "TokenMissing" /\ None # "TokenInvalid"
    BY NoneAssumption DEF Texts, StatusOf
<1>2. extractProofHeader(req) # None
    BY <1>1 DEF establishProofOfPossession
<1>3. PICK jkt : jkt = verifyDpopProof(extractProofHeader(req), Expected(env, req, accessToken))
    OBVIOUS
<1>4. p = Possession(jkt)
    BY <1>2, <1>3 DEF establishProofOfPossession, Expected
<1>5. p.jkt = jkt /\ jkt # None
    BY <1>1, <1>4 DEF Possession
<1> QED
    BY <1>2, <1>3, <1>5 DEF Established

\* A request that verify() admits has a token that the engine takes.
LEMMA Admission ==
    ASSUME NEW env, NEW req, NEW v, v = Verdict(env, req), v.error = None
    PROVE  /\ extractBearer(req) # None
           /\ \E jkt, o : /\ o = verify(env.engine, extractBearer(req), jkt, env.now, env.clock)
                          /\ o.error = None /\ v.auth = o.auth
                          /\ env.dpop # None => Established(env, req, extractBearer(req), jkt)
<1>1. None # "TokenMissing"
    BY NoneAssumption DEF Texts, StatusOf
<1>2. extractBearer(req) # None
    BY <1>1 DEF Verdict, createVerify, Refusal
<1>3. PICK p : p = IF env.dpop = None THEN [error |-> None, jkt |-> None]
                   ELSE establishProofOfPossession(env, req, extractBearer(req))
    OBVIOUS
<1>4. v = WithProof(env, extractBearer(req), None, p)
    BY <1>2, <1>3 DEF Verdict, createVerify
<1>5. PICK o : o = verify(env.engine, extractBearer(req), p.jkt, env.now, env.clock)
    OBVIOUS
<1>6. p.error = None /\ o.error = None /\ v.auth = o.auth
    BY <1>4, <1>5 DEF WithProof, WithToken, Refusal, Pass
<1>7. env.dpop # None => Established(env, req, extractBearer(req), p.jkt)
    BY <1>3, <1>6, Establishing
<1> QED
    BY <1>2, <1>5, <1>6, <1>7

-----------------------------------------------------------------------------
(***************************************************************************)
(* What is sent.                                                           *)
(***************************************************************************)
LEMMA RequestTarget ==
    ASSUME NEW framework \in Frameworks, NEW wire, NEW req, req = HttpRequest(framework, wire),
           NEW scheme, NEW host, NEW port, NEW path, NEW query,
           wire.target = Place(scheme, host, port, path, query)
    PROVE  req.originalUrl.path = path /\ req.originalUrl.query = query
<1>1. PICK u : u = Place(scheme, host, port, path, query)
    OBVIOUS
<1>2. u.path = path /\ u.query = query
    BY <1>1 DEF Place
<1>3. CASE framework \in {"express", "fastify", "koa"}
  <2>1. req = NodeRequest(wire)
      BY <1>3 DEF HttpRequest, FastifyRequest, KoaRequest
  <2>2. req.originalUrl = wire.target
      BY <2>1 DEF NodeRequest, View
  <2> QED BY <1>1, <1>2, <2>2
<1>4. CASE framework = "hono"
  <2>1. req = HonoRequest(wire)
      BY <1>4 DEF HttpRequest
  <2>2. req.originalUrl = IF u.scheme # None THEN u
                          ELSE [scheme |-> wire.scheme, host |-> wire.host.host, port |-> u.port,
                                path |-> u.path, query |-> u.query]
      BY <1>1, <2>1 DEF HonoRequest, View
  <2>6. CASE u.scheme # None
      BY <1>2, <2>2, <2>6
  <2>7. CASE u.scheme = None
      BY <1>2, <2>2, <2>7
  <2> QED BY <2>6, <2>7
<1> QED
    BY <1>3, <1>4 DEF Frameworks

\* The Authorization lines of a request, mishap by mishap.
LEMMA CredentialLines ==
    ASSUME NEW mishap, NEW own, NEW other, NEW lines, lines = Authorization(mishap, own, other)
    PROVE  /\ FewLines(lines)
           /\ lines # <<>> =>
                 lines[1].token = IF mishap \in {"otherToken", "secondTokenFirst"} THEN other
                                  ELSE Damaged(mishap, own)
<1>1. PICK mine : mine = Damaged(mishap, own)
    OBVIOUS
<1>2. \A value : Line(value).token = value
    BY DEF Line
<1>3. CASE mishap \in {"secondToken", "secondScheme"}
  <2>1. mine = own
      BY <1>1, <1>3 DEF Damaged
  <2>2. \E y : lines = <<Line(own), y>>
      BY <1>3 DEF Authorization
  <2>3. FewLines(lines) /\ lines[1] = Line(own)
      BY <2>2 DEF FewLines
  <2> QED BY <1>1, <1>2, <1>3, <2>1, <2>3
<1>4. CASE mishap = "secondTokenFirst"
  <2>1. lines = <<Line(other), Line(own)>>
      BY <1>4 DEF Authorization
  <2>2. FewLines(lines) /\ lines[1] = Line(other)
      BY <2>1 DEF FewLines
  <2> QED BY <1>2, <1>4, <2>2
<1>5. CASE mishap = "noToken"
  <2>1. lines = <<>>
      BY <1>5 DEF Authorization
  <2> QED BY <2>1 DEF FewLines
<1>6. CASE mishap = "otherToken"
  <2>1. lines = <<Line(other)>>
      BY <1>6 DEF Authorization
  <2>2. FewLines(lines) /\ lines[1] = Line(other)
      BY <2>1 DEF FewLines
  <2> QED BY <1>2, <1>6, <2>2
<1>7. CASE mishap \notin {"secondToken", "secondTokenFirst", "secondScheme", "noToken", "otherToken"}
  <2>1. lines = <<Line(mine)>>
      BY <1>1, <1>7 DEF Authorization
  <2>2. FewLines(lines) /\ lines[1] = Line(mine)
      BY <2>1 DEF FewLines
  <2> QED BY <1>1, <1>2, <1>7, <2>2
<1> QED
    BY <1>3, <1>4, <1>5, <1>6, <1>7

\* No mishap changes the claims of a proof that is there.
LEMMA ProofLines ==
    ASSUME NEW mishap, NEW proof, NEW a, NEW b, NEW c, proof = <<a, b, c>>,
           NEW lines, lines = Spoilt(mishap, proof)
    PROVE  FewLines(lines) /\ (Len(lines) = 1 => lines[1][2] = b)
<1>1. proof[2] = b /\ DOMAIN proof = 1 .. 3
    OBVIOUS
<1>2. ASSUME NEW p, lines = <<p>>, p[2] = b PROVE FewLines(lines) /\ (Len(lines) = 1 => lines[1][2] = b)
  <2>1. lines[1] = p
      BY <1>2
  <2> QED BY <1>2, <2>1 DEF FewLines
<1>3. CASE mishap = "noProof"
  <2>1. lines = <<>>
      BY <1>3 DEF Spoilt
  <2> QED BY <2>1 DEF FewLines
<1>4. CASE mishap = "secondProof"
  <2>1. lines = <<proof, proof>>
      BY <1>4 DEF Spoilt
  <2> QED BY <2>1 DEF FewLines
<1>5. CASE mishap = "respelled"
  <2>1. PICK p : p = [proof EXCEPT ![3].canonical = FALSE]
      OBVIOUS
  <2>2. lines = <<p>>
      BY <1>5, <2>1 DEF Spoilt, Respelled
  <2>3. p[2] = b
      BY <1>1, <2>1
  <2> QED BY <1>2, <2>2, <2>3
<1>6. CASE mishap = "otherAlgorithm"
  <2>1. PICK p : p = [proof EXCEPT ![1].value.alg = IF @ = "ES256" THEN "EdDSA" ELSE "ES256"]
      OBVIOUS
  <2>2. lines = <<p>>
      BY <1>6, <2>1 DEF Spoilt
  <2>3. p[2] = b
      BY <1>1, <2>1
  <2> QED BY <1>2, <2>2, <2>3
<1>7. CASE mishap = "privateMember"
  <2>1. PICK p : p = [proof EXCEPT ![1].value.jwk.private = {"d"}]
      OBVIOUS
  <2>2. lines = <<p>>
      BY <1>7, <2>1 DEF Spoilt
  <2>3. p[2] = b
      BY <1>1, <2>1
  <2> QED BY <1>2, <2>2, <2>3
<1>8. CASE mishap \notin {"noProof", "secondProof", "respelled", "otherAlgorithm", "privateMember"}
  <2>1. lines = <<proof>>
      BY <1>8 DEF Spoilt
  <2> QED BY <1>1, <1>2, <2>1
<1> QED
    BY <1>3, <1>4, <1>5, <1>6, <1>7, <1>8

-----------------------------------------------------------------------------
(***************************************************************************)
(* The invariant.                                                          *)
(***************************************************************************)
\* What the two callers are issued tokens for.
PageInput ==
    [sessionId |-> "page", principal |-> Page, authenticatedAt |-> session.authenticatedAt,
     confirmationKey |-> session.jkt]
ProgramInput(i) ==
    [sessionId |-> "program", principal |-> Program, authenticatedAt |-> clock + Skew[i],
     confirmationKey |-> IF process[i].dpop = None THEN None
                         ELSE jwkThumbprint(parseJwk(PublicJwk(Pair.key)))]

ThumbprintOf(t) == jwkThumbprint(Jwk("EC", "P-256", t))

TypesOK ==
    /\ clock \in Nat /\ site \in Sites /\ release \in Nat
    /\ page \in Tabs

\* Every instance runs a configuration of this site.
EngineOK(e) ==
    /\ e.strategy = site.strategy /\ e.accessTokenTtl = Ttl
    /\ e.strategy = "paseto" => e.ring.signingKid \in Kids
InstanceOK(p) ==
    /\ EngineOK(p.engine) /\ p.engine.clockToleranceSeconds = Tolerance
    /\ p.dpop = IF site.binding = "dpop"
                THEN [maxAgeSeconds |-> MaxAge, clockToleranceSeconds |-> Tolerance] ELSE None
InstancesOK == \A i \in Instances : InstanceOK(process[i])

\* A tab that is ready signs with a key that some tab generated.
KeyOfTab(t) == [id |-> t, crv |-> "P-256", extractable |-> FALSE]
Described(t) ==
    [key |-> KeyOfTab(t), publicJwk |-> PublicJwk(KeyOfTab(t)),
     thumbprint |-> jwkThumbprint(PublicJwk(KeyOfTab(t)))]
KeysOK ==
    /\ DOMAIN tab = Tabs
    /\ stored \in {None, Keys!Legacy} \cup {KeyOfTab(t) : t \in Tabs}
    /\ \A t \in Tabs : tab[t].pc = "ready" => \E u \in Tabs : tab[t].key = Described(u)

\* A session is bound to a tab's key, where sessions are bound.
SessionOK ==
    session # None =>
        /\ session.authenticatedAt \in Int
        /\ IF site.binding = "dpop" THEN \E t \in Tabs : session.jkt = ThumbprintOf(t)
           ELSE session.jkt = None

\* The page's token is one that some instance issued for the session, in the
\* tab that is in use, which signs with the session's key.
HandedOver(e, then, before) ==
    /\ EngineOK(e) /\ then \in Int
    /\ token.value = issue(e, PageInput, then, before)
    /\ token.until = then + Ttl
TokenOK ==
    token # None =>
        /\ session # None /\ tab[page].pc = "ready"
        /\ site.binding = "dpop" => session.jkt = ThumbprintOf(tab[page].key.key.id)
        /\ \E e, then, before : HandedOver(e, then, before)

Settings == TypesOK /\ InstancesOK /\ KeysOK /\ SessionOK /\ TokenOK

-----------------------------------------------------------------------------
(***************************************************************************)
(* The token that a request carries.                                       *)
(***************************************************************************)
LEMMA ProgramIssued ==
    ASSUME NEW i \in Instances
    PROVE  ProgramToken(i) = issue(process[i].engine, ProgramInput(i), clock + Skew[i], clock)
BY DEF ProgramToken, ProgramInput

\* What is no token is refused.
LEMMA GarbledRefused ==
    ASSUME NEW engine, NEW jkt, NEW now, NEW time
    PROVE  verify(engine, Garbled, jkt, now, time).error # None
<1>1. PICK o : o = verify(engine, Garbled, jkt, now, time)
    OBVIOUS
<1>2. Garbled.header = None
    BY DEF Garbled
<1>3. None # V4_PUBLIC_HEADER /\ None # "opaque"
    BY NoneAssumption DEF Texts, V4_PUBLIC_HEADER
<1>4. SUFFICES ASSUME o.error = None PROVE FALSE
    BY <1>1
<1>5. CASE engine.strategy = "paseto"
  <2>1. o = VerifyPaseto(engine, Garbled, jkt, now)
      BY <1>1, <1>5 DEF verify
  <2>2. PasetoTaken(engine, Garbled, jkt, now, o)
      BY <1>4, <2>1, PasetoRead
  <2> QED BY <1>2, <1>3, <2>2 DEF PasetoTaken
<1>6. CASE engine.strategy # "paseto"
  <2>1. o = VerifyOpaque(engine, Garbled, jkt, now, time)
      BY <1>1, <1>6 DEF verify
  <2>2. Garbled.header = "opaque"
      BY <1>4, <2>1, OpaqueRead
  <2> QED BY <1>2, <1>3, <2>2
<1> QED
    BY <1>5, <1>6

\* The token of the program at instance i, or the page's before it ran out.
OfProgram(t, i, jkt, auth) ==
    /\ t = ProgramToken(i) /\ auth = IdentityOf(ProgramInput(i))
    /\ assertConfirmationKey(ProgramInput(i).confirmationKey, jkt)
OfPage(t, i, jkt, auth) ==
    /\ token # None /\ t = token.value /\ auth = IdentityOf(PageInput)
    /\ clock + Skew[i] <= token.until + Tolerance
    /\ assertConfirmationKey(session.jkt, jkt)

\* The program's token, damaged or not, is taken only as it was issued.
LEMMA ProgramTaken ==
    ASSUME Settings, NEW i \in Instances, NEW mishap, NEW d, d = Damaged(mishap, ProgramToken(i)),
           NEW jkt, NEW o, o = verify(process[i].engine, d, jkt, clock + Skew[i], clock), o.error = None
    PROVE  OfProgram(d, i, jkt, o.auth)
<1>1. PICK e, input, now : e = process[i].engine /\ input = ProgramInput(i) /\ now = clock + Skew[i]
    OBVIOUS
<1>2. /\ e.strategy = site.strategy
      /\ e.strategy \in {"paseto", "opaque"}
      /\ e.strategy = "paseto" => e.ring.signingKid \in Kids
    BY <1>1, SitesAssumption DEF Settings, TypesOK, InstancesOK, InstanceOK, EngineOK
<1>3. PICK t : t = ProgramToken(i)
    OBVIOUS
<1>4. t = issue(e, input, now, clock) /\ d = Damaged(mishap, t) /\ o = verify(e, d, jkt, now, clock)
    BY <1>1, <1>3, ProgramIssued
<1>5. d = t
    BY <1>2, <1>4, DamagedRefused
<1>6. o.auth = IdentityOf(input) /\ assertConfirmationKey(input.confirmationKey, jkt)
    BY <1>2, <1>4, <1>5, GenuineTaken
<1> QED
    BY <1>1, <1>3, <1>5, <1>6 DEF OfProgram

\* So is the page's, and only until it runs out.
LEMMA PageTaken ==
    ASSUME Settings, NEW i \in Instances, NEW mishap, token # None, NEW d, d = Damaged(mishap, token.value),
           NEW jkt, NEW o, o = verify(process[i].engine, d, jkt, clock + Skew[i], clock), o.error = None
    PROVE  OfPage(d, i, jkt, o.auth)
<1>1. PICK engine, now, input, t :
         /\ engine = process[i].engine /\ now = clock + Skew[i]
         /\ input = PageInput /\ t = token.value
    OBVIOUS
<1>2. PICK e, then, before : HandedOver(e, then, before)
    BY DEF Settings, TokenOK
<1>3. /\ e.strategy = site.strategy /\ engine.strategy = site.strategy
      /\ e.strategy \in {"paseto", "opaque"}
      /\ e.strategy = "paseto" => e.ring.signingKid \in Kids
    BY <1>1, <1>2, SitesAssumption DEF HandedOver, Settings, TypesOK, InstancesOK, InstanceOK, EngineOK
<1>4. t = issue(e, input, then, before) /\ d = Damaged(mishap, t) /\ o = verify(engine, d, jkt, now, clock)
    BY <1>1, <1>2 DEF HandedOver
<1>5. d = t
    BY <1>3, <1>4, DamagedRefused
<1>6. o.auth = IdentityOf(input) /\ assertConfirmationKey(input.confirmationKey, jkt)
      /\ ~isExpired(then + e.accessTokenTtl, engine.clockToleranceSeconds, now)
    BY <1>3, <1>4, <1>5, GenuineTaken
<1>7. clock + Skew[i] <= token.until + Tolerance
  <2>1. /\ e.accessTokenTtl = Ttl /\ engine.clockToleranceSeconds = Tolerance
        /\ token.until = then + Ttl /\ then \in Int
      BY <1>1, <1>2 DEF HandedOver, EngineOK, Settings, InstancesOK, InstanceOK
  <2>2. now \in Int /\ Ttl \in Int /\ Tolerance \in Int
      BY <1>1, ServiceAssumption DEF Settings, TypesOK
  <2> QED BY <1>1, <1>6, <2>1, <2>2 DEF isExpired
<1>8. input.confirmationKey = session.jkt
    BY <1>1 DEF PageInput
<1> QED
    BY <1>1, <1>5, <1>6, <1>7, <1>8 DEF OfPage

Callers == {"page", "program"}
OthersFirst == {"otherToken", "secondTokenFirst"}
CredentialOf(caller, i, mishap) ==
    IF mishap \in OthersFirst THEN OtherToken(caller, i) ELSE Damaged(mishap, TokenOf(caller, i))
ProofSent(caller, i, route, mishap) ==
    ProofOf(IF mishap = "otherKey" THEN Other(caller) ELSE caller,
            Intended(mishap, route.method, route.path, TokenOf(caller, i), OtherToken(caller, i)),
            Moment(mishap))

\* The parts of a request that is sent.
LEMMA SentForm ==
    ASSUME NEW caller, NEW i, NEW route, NEW mishap, NEW wire, wire = Sent(caller, i, route, mishap)
    PROVE  /\ wire.method = toUpperCase[route.method] /\ wire.params = route.params
           /\ wire.host.host = "api"
           /\ wire.authorization = Authorization(mishap, TokenOf(caller, i), OtherToken(caller, i))
           /\ wire.dpop = Spoilt(mishap, ProofSent(caller, i, route, mishap))
           /\ wire.scheme \in {"http", "https"}
           /\ wire.forwardedProto \in {<<>>, <<"https">>}
           /\ wire.forwardedFor = SeenByProxies(site.proxies, caller)
           /\ wire.peer = SeenAtSocket(site.proxies, caller)
           /\ \E scheme, host, port : wire.target = Place(scheme, host, port, route.path, "q")
<1>1. PICK target : target = CASE mishap = "absolute" -> Url(Origin, route.path)
                               [] mishap = "elsewhere" -> Url(Elsewhere, route.path)
                               [] OTHER -> Target(route.path)
    OBVIOUS
<1>2. PICK lines, proofs :
         /\ lines = Authorization(mishap, TokenOf(caller, i), OtherToken(caller, i))
         /\ proofs = Spoilt(mishap, ProofSent(caller, i, route, mishap))
    OBVIOUS
<1>3. wire = Wire(caller, route.method, target, lines, proofs, route.params)
    BY <1>1, <1>2 DEF Sent, ProofSent
<1>4. PICK scheme, proto, joins :
         /\ scheme = IF site.tls /\ site.proxies = 0 THEN "https" ELSE "http"
         /\ proto = IF site.tls /\ site.proxies > 0 THEN <<"https">> ELSE <<>>
         /\ joins = site.joins
    OBVIOUS
<1>5. scheme \in {"http", "https"} /\ proto \in {<<>>, <<"https">>}
    BY <1>4, Zenon
<1>6. PICK through, peer : through = SeenByProxies(site.proxies, caller) /\ peer = SeenAtSocket(site.proxies, caller)
    OBVIOUS
<1>7. wire = [method |-> toUpperCase[route.method], target |-> target,
              host |-> [host |-> "api", port |-> None],
              authorization |-> lines, dpop |-> proofs, params |-> route.params, scheme |-> scheme,
              joined |-> joins, forwardedProto |-> proto, forwardedFor |-> through, peer |-> peer]
    BY <1>3, <1>4, <1>6, Zenon DEF Wire, SeenByProxies, SeenAtSocket
<1>8. /\ wire.method = toUpperCase[route.method] /\ wire.params = route.params
      /\ wire.host.host = "api" /\ wire.authorization = lines /\ wire.dpop = proofs
      /\ wire.scheme = scheme /\ wire.forwardedProto = proto
      /\ wire.forwardedFor = through /\ wire.peer = peer /\ wire.target = target
    BY <1>7
<1>9. \E s, host, port : target = Place(s, host, port, route.path, "q")
  <2>1. \A origin : Url(origin, route.path) = Place(origin.scheme, origin.host, origin.port, route.path, "q")
      BY DEF Url, Place
  <2>2. Target(route.path) = Place(None, None, None, route.path, "q")
      BY DEF Target, Place
  <2>3. CASE mishap = "absolute"
    <3>1. target = Url(Origin, route.path)
        BY <1>1, <2>3
    <3> QED BY <2>1, <3>1
  <2>4. CASE mishap = "elsewhere"
    <3>1. target = Url(Elsewhere, route.path)
        BY <1>1, <2>4
    <3> QED BY <2>1, <3>1
  <2>5. CASE mishap \notin {"absolute", "elsewhere"}
    <3>1. target = Target(route.path)
        BY <1>1, <2>5
    <3> QED BY <2>2, <3>1
  <2> QED BY <2>3, <2>4, <2>5
<1> QED
    BY <1>2, <1>5, <1>6, <1>8, <1>9, Zenon

\* A proof is three segments, of which the second has the claims.
LEMMA ProofForm ==
    ASSUME NEW caller, NEW request, NEW at
    PROVE  \E a, c : ProofOf(caller, request, at) = <<a, Segment(Claims(request, at)), c>>
BY DEF ProofOf, createProof, createDpopProof, Jws

\* The lines of a request that is sent.
LEMMA SentLines ==
    ASSUME NEW caller, NEW i, NEW route, NEW mishap, NEW wire, wire = Sent(caller, i, route, mishap)
    PROVE  /\ FewLines(wire.authorization) /\ FewLines(wire.dpop)
           /\ wire.authorization # <<>> =>
                 wire.authorization[1].token = CredentialOf(caller, i, mishap)
           /\ Len(wire.dpop) = 1 =>
                 wire.dpop[1][2].value =
                    Claims(Intended(mishap, route.method, route.path, TokenOf(caller, i), OtherToken(caller, i)),
                           Moment(mishap))
<1>1. PICK claims : claims =
              Claims(Intended(mishap, route.method, route.path, TokenOf(caller, i), OtherToken(caller, i)),
                     Moment(mishap))
    OBVIOUS
<1>2. PICK proof : proof = ProofSent(caller, i, route, mishap)
    OBVIOUS
<1>3. PICK a, c : proof = <<a, Segment(claims), c>>
    BY <1>1, <1>2, ProofForm DEF ProofSent
<1>4. wire.dpop = Spoilt(mishap, proof)
    BY <1>2, SentForm
<1>5. FewLines(wire.dpop) /\ (Len(wire.dpop) = 1 => wire.dpop[1][2] = Segment(claims))
    BY <1>3, <1>4, ProofLines
<1>6. Segment(claims).value = claims
    BY DEF Segment
<1>7. wire.authorization = Authorization(mishap, TokenOf(caller, i), OtherToken(caller, i))
    BY SentForm
<1>8. /\ FewLines(wire.authorization)
      /\ wire.authorization # <<>> => wire.authorization[1].token = CredentialOf(caller, i, mishap)
    BY <1>7, CredentialLines DEF CredentialOf, OthersFirst
<1> QED
    BY <1>1, <1>5, <1>6, <1>8

Possible(caller, framework, route, mishap) ==
    /\ caller \in Callers /\ framework \in Frameworks /\ route \in Routes /\ mishap \in Mishaps
    /\ Befalls(mishap, caller, framework, route)
    /\ caller = "page" => token # None

\* The instance that a request is sent to.
LEMMA EnvOf ==
    ASSUME Settings, NEW i \in Instances
    PROVE  /\ Env(i).engine = process[i].engine /\ Env(i).now = clock + Skew[i] /\ Env(i).clock = clock
           /\ Env(i).dpop = process[i].dpop /\ Env(i).trustProxy = site.proxies
           /\ Env(i).origin = IF site.told THEN Origin ELSE None
BY DEF Env

\* A request that verify() admits carries a genuine token, first and mostly alone.
LEMMA CarriesOne ==
    ASSUME Settings, NEW i \in Instances, NEW caller, NEW framework, NEW route, NEW mishap,
           Possible(caller, framework, route, mishap),
           NEW wire, wire = Sent(caller, i, route, mishap),
           NEW req, req = HttpRequest(framework, wire),
           NEW v, v = Verdict(Env(i), req), v.error = None
    PROVE  /\ Unambiguous(framework, wire) /\ wire.authorization[1].token # None
           /\ \E jkt :
                 /\ \/ OfProgram(wire.authorization[1].token, i, jkt, v.auth)
                    \/ OfPage(wire.authorization[1].token, i, jkt, v.auth)
                 /\ process[i].dpop # None => Established(Env(i), req, wire.authorization[1].token, jkt)
<1>1. PICK env : env = Env(i)
    OBVIOUS
<1>2. /\ env.engine = process[i].engine /\ env.now = clock + Skew[i] /\ env.clock = clock
      /\ env.dpop = process[i].dpop
    BY <1>1, EnvOf
<1>3. extractBearer(req) # None
    BY <1>1, Admission
<1>4. PICK jkt, o : /\ o = verify(env.engine, extractBearer(req), jkt, env.now, env.clock)
                    /\ o.error = None /\ v.auth = o.auth
                    /\ env.dpop # None => Established(env, req, extractBearer(req), jkt)
    BY <1>1, Admission
<1>5. FewLines(wire.authorization) /\ FewLines(wire.dpop)
    BY SentLines
<1>6. extractBearer(req) # Garbled
    BY <1>4, GarbledRefused
<1>7. Unambiguous(framework, wire) /\ extractBearer(req) = wire.authorization[1].token
    BY <1>3, <1>5, <1>6, OneCredential DEF Possible
<1>8. PICK t : t = wire.authorization[1].token
    OBVIOUS
<1>9. t = CredentialOf(caller, i, mishap)
    BY <1>7, <1>8, SentLines DEF Unambiguous
<1>10. o = verify(process[i].engine, t, jkt, clock + Skew[i], clock)
    BY <1>2, <1>4, <1>7, <1>8
<1>11. OfProgram(t, i, jkt, o.auth) \/ OfPage(t, i, jkt, o.auth)
  <2>1. CASE mishap \in OthersFirst
    <3>1. t = ProgramToken(i)
      <4>1. caller = "page"
          BY <2>1 DEF Possible, Befalls, OthersFirst
      <4> QED BY <1>9, <2>1, <4>1 DEF CredentialOf, OtherToken
    <3>2. t = Damaged("none", ProgramToken(i))
        BY <3>1 DEF Damaged
    <3> QED BY <1>4, <1>10, <3>2, ProgramTaken
  <2>2. CASE mishap \notin OthersFirst /\ caller = "page"
    <3>1. t = Damaged(mishap, token.value) /\ token # None
        BY <1>9, <2>2 DEF CredentialOf, TokenOf, Possible
    <3> QED BY <1>4, <1>10, <3>1, PageTaken
  <2>3. CASE mishap \notin OthersFirst /\ caller # "page"
    <3>1. t = Damaged(mishap, ProgramToken(i))
        BY <1>9, <2>3 DEF CredentialOf, TokenOf
    <3> QED BY <1>4, <1>10, <3>1, ProgramTaken
  <2> QED BY <2>1, <2>2, <2>3
<1> QED
    BY <1>1, <1>2, <1>3, <1>4, <1>7, <1>8, <1>11

-----------------------------------------------------------------------------
(***************************************************************************)
(* Who it is.                                                              *)
(***************************************************************************)
LEMMA ProgramThumbprint ==
    /\ jwkThumbprint(parseJwk(PublicJwk(Pair.key))) = jwkThumbprint(PublicJwk(Pair.key))
    /\ jwkThumbprint(PublicJwk(Pair.key))[3].of = "program" /\ Pair.key.id = "program"
<1>1. PICK key : key = PublicJwk(Pair.key)
    OBVIOUS
<1>2. Pair.key.id = "program" /\ Pair.key.crv = "Ed25519"
    BY DEF Pair, generateDpopKeyPair
<1>3. PICK point : point = Coordinate("program")
    OBVIOUS
<1>4. key = [kty |-> "OKP", crv |-> "Ed25519", x |-> point, y |-> None,
             private |-> {}, use |-> None, key_ops |-> None]
    BY <1>1, <1>2, <1>3 DEF PublicJwk, Jwk
<1>5. /\ key.kty = "OKP" /\ key.crv = "Ed25519" /\ key.x = point /\ key.y = None
      /\ key.private = {} /\ key.use = None /\ key.key_ops = None
    BY <1>4
<1>6. key # None /\ point # None
    BY <1>1, <1>3, NoneAssumption DEF Jwks, Points
<1>7. parseJwk(key) = [kty |-> "OKP", crv |-> "Ed25519", x |-> point, y |-> None]
    BY <1>5, <1>6 DEF parseJwk
<1>8. parseJwk(key).kty = "OKP" /\ parseJwk(key).crv = "Ed25519" /\ parseJwk(key).x = point
    BY <1>7
<1>9. jwkThumbprint(parseJwk(key)) = <<"Ed25519", "OKP", point>>
    BY <1>8 DEF jwkThumbprint
<1>10. jwkThumbprint(key) = <<"Ed25519", "OKP", point>>
    BY <1>5 DEF jwkThumbprint
<1>11. point.of = "program"
    BY <1>3 DEF Coordinate
<1>12. jwkThumbprint(key)[3] = point
    BY <1>10
<1> QED
    BY <1>1, <1>2, <1>9, <1>10, <1>11, <1>12

\* The thumbprint of a tab's key names the tab.
LEMMA TabThumbprint ==
    ASSUME NEW t
    PROVE  /\ ThumbprintOf(t) = jwkThumbprint(PublicJwk(KeyOfTab(t)))
           /\ ThumbprintOf(t)[3].of = t
<1>1. PublicJwk(KeyOfTab(t)) = Jwk("EC", "P-256", t)
    BY DEF PublicJwk, KeyOfTab
<1>2. PICK point : point = Coordinate(t)
    OBVIOUS
<1>3. PICK key : key = Jwk("EC", "P-256", t)
    OBVIOUS
<1>4. key.kty = "EC" /\ key.crv = "P-256" /\ key.x = point /\ key.y = point
    BY <1>2, <1>3 DEF Jwk
<1>5. jwkThumbprint(key) = <<"P-256", "EC", point, point>>
    BY <1>4 DEF jwkThumbprint
<1>6. jwkThumbprint(key)[3] = point
    BY <1>5
<1>7. point.of = t
    BY <1>2 DEF Coordinate
<1> QED
    BY <1>1, <1>3, <1>6, <1>7 DEF ThumbprintOf

\* The page or the program, as a principal.
LEMMA SomebodysIdentity ==
    ASSUME NEW input, NEW p \in {Page, Program}, input.principal = p, input.sessionId = p.userId,
           input.authenticatedAt \in Int, input.confirmationKey \in {None} \cup Thumbprints,
           NEW auth, auth = IdentityOf(input)
    PROVE  /\ auth # None
           /\ auth.userId = p.userId /\ auth.roles = p.roles /\ auth.scopes = p.scopes
           /\ auth.tenant = p.tenant /\ auth.authenticatedAt = input.authenticatedAt
<1>1. /\ p.userId \in {"page", "program"} /\ p.roles \in SUBSET {"user", "editor"}
      /\ p.scopes \in SUBSET {"read", "write"} /\ p.tenant \in {None, "one"}
    BY DEF Page, Program
<1>2. PICK at, key, session_ : /\ at = input.authenticatedAt /\ key = input.confirmationKey
                               /\ session_ = input.sessionId
    OBVIOUS
<1>3. auth = [userId |-> p.userId, roles |-> p.roles, scopes |-> p.scopes, tenant |-> p.tenant,
              sessionId |-> session_, authenticatedAt |-> at, confirmationKey |-> key]
    BY <1>2 DEF IdentityOf
<1>4. auth \in Identities
    BY <1>1, <1>2, <1>3 DEF Identities
<1> QED
    BY <1>2, <1>3, <1>4, NoneAssumption

\* What the two callers are issued tokens for.
LEMMA InputsOK ==
    ASSUME Settings, NEW i \in Instances
    PROVE  /\ ProgramInput(i).principal = Program /\ ProgramInput(i).sessionId = Program.userId
           /\ ProgramInput(i).authenticatedAt \in Int
           /\ ProgramInput(i).authenticatedAt = clock + Skew[i]
           /\ ProgramInput(i).confirmationKey \in {None} \cup Thumbprints
           /\ PageInput.principal = Page /\ PageInput.sessionId = Page.userId
           /\ PageInput.authenticatedAt = session.authenticatedAt
           /\ token # None => /\ PageInput.authenticatedAt \in Int
                              /\ PageInput.confirmationKey \in {None} \cup Thumbprints
<1>1. clock + Skew[i] \in Int
    BY ServiceAssumption DEF Settings, TypesOK
<1>2. PICK now, key : /\ now = clock + Skew[i]
                      /\ key = IF process[i].dpop = None THEN None
                               ELSE jwkThumbprint(parseJwk(PublicJwk(Pair.key)))
    OBVIOUS
<1>3. key \in {None} \cup Thumbprints
    BY <1>2, ProgramThumbprint DEF Thumbprints
<1>4. ProgramInput(i) = [sessionId |-> "program", principal |-> Program, authenticatedAt |-> now,
                         confirmationKey |-> key]
    BY <1>2 DEF ProgramInput
<1>5. /\ ProgramInput(i).principal = Program /\ ProgramInput(i).sessionId = Program.userId
      /\ ProgramInput(i).authenticatedAt = now /\ ProgramInput(i).confirmationKey = key
    BY <1>4 DEF Program
<1>6. /\ PageInput.principal = Page /\ PageInput.sessionId = Page.userId
      /\ PageInput.authenticatedAt = session.authenticatedAt
      /\ PageInput.confirmationKey = session.jkt
    BY DEF PageInput, Page
<1>7. ASSUME token # None
      PROVE  session.authenticatedAt \in Int /\ session.jkt \in {None} \cup Thumbprints
  <2>1. session # None
      BY <1>7 DEF Settings, TokenOK
  <2>2. session.authenticatedAt \in Int
      BY <2>1 DEF Settings, SessionOK
  <2>3. session.jkt = None \/ \E t \in Tabs : session.jkt = ThumbprintOf(t)
      BY <2>1 DEF Settings, SessionOK
  <2>4. \A t \in Tabs : ThumbprintOf(t) \in Thumbprints
      BY DEF Thumbprints, ThumbprintOf
  <2> QED BY <2>2, <2>3, <2>4
<1> QED
    BY <1>1, <1>2, <1>3, <1>5, <1>6, <1>7

-----------------------------------------------------------------------------
(***************************************************************************)
(* Whose proof it is, and what for.                                        *)
(***************************************************************************)
Scheme == IF site.tls THEN "https" ELSE "http"

\* The URLs of the service are places.
LEMMA ServicePlace ==
    /\ Scheme \in {"http", "https"}
    /\ \A path : Url(Origin, path) = Place(Scheme, "api", ImpliedPort[Scheme], path, "q")
    /\ \A path : Url(Elsewhere, path) = Place(Scheme, "elsewhere", ImpliedPort[Scheme], path, "q")
    /\ \A path : [Url([Origin EXCEPT !.port = None], path) EXCEPT !.query = None]
                    = Place(Scheme, "api", None, path, None)
    /\ Origin.scheme = Scheme /\ Origin.host = "api"
<1>1. PICK s, port : s = Scheme /\ port = ImpliedPort[Scheme]
    OBVIOUS
<1>2. s \in {"http", "https"}
    BY <1>1, Zenon DEF Scheme
<1>3. Origin = [scheme |-> s, host |-> "api", port |-> port]
  <2>1. CASE site.tls
    <3>1. Scheme = "https" /\ ImpliedPort["https"] = 443
        BY <2>1 DEF Scheme, ImpliedPort
    <3> QED BY <1>1, <2>1, <3>1 DEF Origin
  <2>2. CASE ~site.tls
    <3>1. Scheme = "http" /\ ImpliedPort["http"] = 80
        BY <2>2 DEF Scheme, ImpliedPort
    <3> QED BY <1>1, <2>2, <3>1 DEF Origin
  <2> QED BY <2>1, <2>2
<1>4. Elsewhere = [scheme |-> s, host |-> "elsewhere", port |-> port]
    BY <1>3 DEF Elsewhere
<1>5. [Origin EXCEPT !.port = None] = [scheme |-> s, host |-> "api", port |-> None]
    BY <1>3
<1>6. ASSUME NEW host, NEW p, NEW path
      PROVE  Url([scheme |-> s, host |-> host, port |-> p], path) = Place(s, host, p, path, "q")
    BY DEF Url, Place
<1>7. ASSUME NEW path
      PROVE  [Place(s, "api", None, path, "q") EXCEPT !.query = None] = Place(s, "api", None, path, None)
    BY DEF Place
<1>8. Origin.scheme = s /\ Origin.host = "api"
    BY <1>3
<1> QED
    BY <1>1, <1>2, <1>3, <1>4, <1>5, <1>6, <1>7, <1>8

\* So is the URL that a proof is made for.
LEMMA IntendedPlace ==
    ASSUME NEW mishap, NEW method, NEW path, NEW own, NEW other
    PROVE  \E host \in {"api", "elsewhere"} : \E p :
              Intended(mishap, method, path, own, other).url
                 = Place(Scheme, host, ImpliedPort[Scheme], p, "q")
<1>1. PICK url : url = Intended(mishap, method, path, own, other).url
    OBVIOUS
<1>2. CASE mishap = "otherPath"
  <2>1. url = Url(Origin, "other")
      BY <1>1, <1>2 DEF Intended
  <2> QED BY <1>1, <2>1, ServicePlace
<1>3. CASE mishap \in {"otherOrigin", "elsewhere"}
  <2>1. url = Url(Elsewhere, path)
      BY <1>1, <1>3 DEF Intended
  <2> QED BY <1>1, <2>1, ServicePlace
<1>4. CASE mishap \notin {"otherPath", "otherOrigin", "elsewhere"}
  <2>1. url = Url(Origin, path)
      BY <1>1, <1>4 DEF Intended
  <2> QED BY <1>1, <2>1, ServicePlace
<1> QED
    BY <1>2, <1>3, <1>4

\* A proof is made at some time.
LEMMA MomentIsTime ==
    ASSUME Settings, NEW mishap
    PROVE  Moment(mishap) \in Int
<1>1. clock \in Int /\ MaxAge \in Int /\ Tolerance \in Int /\ Skew["page"] \in Int
    BY ServiceAssumption DEF Settings, TypesOK
<1>2. Now \in Int
    BY <1>1 DEF Now
<1>3. CASE mishap = "late"
    BY <1>1, <1>3 DEF Moment
<1>4. CASE mishap = "early"
    BY <1>1, <1>4 DEF Moment
<1>5. CASE mishap \notin {"late", "early"}
    BY <1>2, <1>5 DEF Moment
<1> QED
    BY <1>3, <1>4, <1>5

\* What a service makes of the request's URL ends at its host and path.
LEMMA ExpectedUrl ==
    ASSUME Settings, NEW i \in Instances, NEW caller, NEW framework \in Frameworks, NEW route, NEW mishap,
           NEW wire, wire = Sent(caller, i, route, mishap),
           NEW req, req = HttpRequest(framework, wire),
           NEW t, NEW n, n = normaliseHtu(Expected(Env(i), req, t).url), n # None
    PROVE  n.host \in {"api", "localhost"} /\ n.path = route.path
<1>1. PICK origin : origin = Env(i).origin
    OBVIOUS
<1>2. origin = None \/ (origin.scheme \in {"http", "https"} /\ origin.host = "api")
    BY <1>1, ServicePlace DEF Env
<1>3. PICK scheme, host, port : wire.target = Place(scheme, host, port, route.path, "q")
    BY SentForm
<1>4. req.originalUrl.path = route.path /\ req.originalUrl.query = "q"
    BY <1>3, RequestTarget
<1>5. req.host.host = "api"
    BY SentForm, RequestOf
<1>6. req.forwardedProto \in {None, <<"https">>}
  <2>1. req.forwardedProto = Joined(wire.forwardedProto) /\ wire.forwardedProto \in {<<>>, <<"https">>}
      BY SentForm, RequestOf
  <2> QED BY <2>1, Zenon DEF Joined
<1>7. req.protocol \in {"http", "https", None}
    BY SentForm, RequestOf
<1>8. PICK url : url = IF origin # None THEN builtRequestUrl(origin, req) ELSE defaultRequestUrl(req)
    OBVIOUS
<1>9. Expected(Env(i), req, t).url = url
    BY <1>1, <1>8 DEF Expected
<1>10. PICK target : target = req.originalUrl
    OBVIOUS
<1> QED
    BY <1>2, <1>4, <1>5, <1>6, <1>7, <1>8, <1>9, <1>10, ComparedUrl

\* A method in capitals stays as it is.
LEMMA UpperCaseOnce ==
    ASSUME NEW method \in DOMAIN toUpperCase
    PROVE  toUpperCase[toUpperCase[method]] = toUpperCase[method]
BY DEF toUpperCase

\* An established proof is the one that was sent, and was made for this.
LEMMA EstablishedFor ==
    ASSUME Settings, NEW i \in Instances, NEW caller, NEW framework, NEW route, NEW mishap,
           Possible(caller, framework, route, mishap), site.binding = "dpop",
           NEW wire, wire = Sent(caller, i, route, mishap),
           NEW req, req = HttpRequest(framework, wire),
           NEW t, t # None, NEW jkt, Established(Env(i), req, t, jkt),
           NEW x, x.instance = i, x.route = route
    PROVE  Len(wire.dpop) = 1 /\ MadeFor(wire.dpop[1], jkt[3].of, x, wire, t)
<1>1. PICK proof : proof = wire.dpop[1]
    OBVIOUS
<1>2. Len(wire.dpop) = 1 /\ extractProofHeader(req) = proof
    BY <1>1, SentLines, OneProof DEF Established, Possible
<1>3. PICK options : options = Expected(Env(i), req, t)
    OBVIOUS
<1>4. ProofTaken(proof, options, jkt)
    BY <1>2, <1>3, ProofRead DEF Established
<1>5. PICK request, at, payload :
         /\ request = Intended(mishap, route.method, route.path, TokenOf(caller, i), OtherToken(caller, i))
         /\ at = Moment(mishap) /\ payload = Claims(request, at)
    OBVIOUS
<1>6. proof[2].value = payload
    BY <1>1, <1>2, <1>5, SentLines
<1>7. ClaimsMatch(payload, options)
    BY <1>4, <1>6 DEF ProofTaken
<1>8. PICK host, path :
         /\ host \in {"api", "elsewhere"}
         /\ request.url = Place(Scheme, host, ImpliedPort[Scheme], path, "q")
    BY <1>5, IntendedPlace
<1>9. payload.htu = Place(Scheme, host, None, path, None) /\ payload.iat = at
    BY <1>5, <1>8, MadeClaims, ServicePlace
<1>10. PICK n : n = normaliseHtu(payload.htu)
    OBVIOUS
<1>11. n # None /\ n = normaliseHtu(options.url)
    BY <1>7, <1>10, Zenon DEF ClaimsMatch
<1>12. n.host \in {"api", "localhost"} /\ n.path = route.path
    BY <1>3, <1>11, ExpectedUrl DEF Possible
<1>13. host = "api" /\ path = route.path
  <2>1. n = normaliseHtu(Place(Scheme, host, None, path, None))
      BY <1>9, <1>10
  <2> QED BY <1>8, <1>11, <1>12, <2>1, SamePlace, ServicePlace
<1>14. payload.htu = [Url([Origin EXCEPT !.port = None], route.path) EXCEPT !.query = None]
    BY <1>9, <1>13, ServicePlace
<1>15. payload.htm = wire.method
  <2>1. payload.htm = toUpperCase[options.method]
      BY <1>7, Zenon DEF ClaimsMatch
  <2>2. options.method = wire.method
      BY <1>3, RequestOf DEF Expected, Possible
  <2>3. wire.method = toUpperCase[route.method]
      BY SentForm
  <2>4. route.method \in DOMAIN toUpperCase
      BY RoutesAssumption DEF Possible
  <2> QED BY <2>1, <2>2, <2>3, <2>4, UpperCaseOnce
<1>16. payload.ath = t
  <2>1. options.accessToken = t
      BY <1>3 DEF Expected
  <2>2. payload.ath = accessTokenHash(options.accessToken)
      BY <1>7, <2>1, Zenon DEF ClaimsMatch
  <2> QED BY <2>1, <2>2 DEF accessTokenHash
<1>17. clock + Skew[i] - payload.iat \in -Tolerance .. MaxAge + Tolerance
  <2>1. /\ options.now = clock + Skew[i]
        /\ options.maxAgeSeconds = process[i].dpop.maxAgeSeconds
        /\ options.clockToleranceSeconds = process[i].dpop.clockToleranceSeconds
      BY <1>3, EnvOf DEF Expected
  <2>2. process[i].dpop.maxAgeSeconds = MaxAge /\ process[i].dpop.clockToleranceSeconds = Tolerance
      BY DEF Settings, InstancesOK, InstanceOK
  <2>3. /\ payload.iat <= options.now + options.clockToleranceSeconds
        /\ payload.iat >= options.now - options.maxAgeSeconds - options.clockToleranceSeconds
      BY <1>7, Zenon DEF ClaimsMatch
  <2>4. clock \in Int /\ Skew[i] \in Int /\ MaxAge \in Int /\ Tolerance \in Int
      BY ServiceAssumption DEF Settings, TypesOK
  <2>5. payload.iat \in Int
      BY <1>5, <1>9, MomentIsTime
  <2> QED BY <2>1, <2>2, <2>3, <2>4, <2>5
<1>18. /\ proof[1].canonical /\ proof[2].canonical /\ proof[3].canonical
       /\ proof[1].value.alg = algorithmForJwk(proof[1].value.jwk)
       /\ proof[1].value.jwk.private = {}
       /\ proof[3].value.by = jkt[3].of
    BY <1>4, Zenon DEF ProofTaken
<1>19. \A k \in 1 .. 3 : proof[k].canonical
    BY <1>18
<1>20. MadeFor(proof, jkt[3].of, x, wire, t)
    BY <1>6, <1>14, <1>15, <1>16, <1>17, <1>18, <1>19, Zenon DEF MadeFor
<1> QED
    BY <1>1, <1>2, <1>20

\* The one who is served holds the key that the token is bound to.
LEMMA ServedPossesses ==
    ASSUME Settings, NEW i \in Instances, NEW caller, NEW framework, NEW route, NEW mishap,
           Possible(caller, framework, route, mishap), site.binding = "dpop",
           NEW wire, wire = Sent(caller, i, route, mishap),
           NEW req, req = HttpRequest(framework, wire),
           NEW t, t # None, NEW jkt, Established(Env(i), req, t, jkt),
           NEW x, x.instance = i, x.route = route,
           \/ OfProgram(t, i, jkt, x.auth) /\ x.auth.userId = "program"
           \/ OfPage(t, i, jkt, x.auth) /\ x.auth.userId = "page"
    PROVE  Possessing(x, wire, t)
<1>1. Len(wire.dpop) = 1 /\ MadeFor(wire.dpop[1], jkt[3].of, x, wire, t)
    BY EstablishedFor
<1>2. CASE OfProgram(t, i, jkt, x.auth) /\ x.auth.userId = "program"
  <2>1. process[i].dpop = [maxAgeSeconds |-> MaxAge, clockToleranceSeconds |-> Tolerance]
      BY DEF Settings, InstancesOK, InstanceOK
  <2>2. process[i].dpop # None
      BY <2>1, NoneAssumption, ServiceAssumption
  <2>3. ProgramInput(i).confirmationKey = jwkThumbprint(PublicJwk(Pair.key))
      BY <2>2, ProgramThumbprint DEF ProgramInput
  <2>4. jwkThumbprint(PublicJwk(Pair.key)) # None
      BY NoneAssumption DEF Thumbprints
  <2>5. jkt = jwkThumbprint(PublicJwk(Pair.key))
      BY <1>2, <2>3, <2>4 DEF OfProgram, assertConfirmationKey
  <2>6. jkt[3].of = Pair.key.id
      BY <2>5, ProgramThumbprint
  <2> QED BY <1>1, <1>2, <2>6, Zenon DEF Possessing
<1>3. CASE OfPage(t, i, jkt, x.auth) /\ x.auth.userId = "page"
  <2>1. token # None
      BY <1>3 DEF OfPage
  <2>2. session.jkt = ThumbprintOf(tab[page].key.key.id) /\ session # None
      BY <2>1 DEF Settings, TokenOK
  <2>3. \E u \in Tabs : session.jkt = ThumbprintOf(u)
      BY <2>2 DEF Settings, SessionOK
  <2>4. session.jkt # None
      BY <2>3, NoneAssumption DEF Thumbprints, ThumbprintOf
  <2>5. jkt = ThumbprintOf(tab[page].key.key.id)
      BY <1>3, <2>2, <2>4 DEF OfPage, assertConfirmationKey
  <2>6. jkt[3].of = tab[page].key.key.id
      BY <2>5, TabThumbprint
  <2> QED BY <1>1, <1>3, <2>6, Zenon DEF Possessing
<1> QED
    BY <1>2, <1>3

-----------------------------------------------------------------------------
(***************************************************************************)
(* A request that is served.                                               *)
(***************************************************************************)
\* Identity auth is what a token says of user p who signed in at that time.
Says(auth, p, at) ==
    /\ auth # None /\ at \in Int
    /\ auth.userId = p.userId /\ auth.roles = p.roles /\ auth.scopes = p.scopes
    /\ auth.tenant = p.tenant /\ auth.authenticatedAt = at

\* What the program's token says.
LEMMA ProgramSays ==
    ASSUME Settings, NEW i \in Instances, NEW t, NEW jkt, NEW auth, OfProgram(t, i, jkt, auth)
    PROVE  Says(auth, Program, clock + Skew[i]) /\ auth.userId = "program"
<1>1. PICK input : input = ProgramInput(i)
    OBVIOUS
<1>2. /\ input.principal = Program /\ input.sessionId = Program.userId
      /\ input.authenticatedAt \in Int /\ input.authenticatedAt = clock + Skew[i]
      /\ input.confirmationKey \in {None} \cup Thumbprints
    BY <1>1, InputsOK
<1>3. auth = IdentityOf(input)
    BY <1>1 DEF OfProgram
<1>4. /\ auth # None
      /\ auth.userId = Program.userId /\ auth.roles = Program.roles /\ auth.scopes = Program.scopes
      /\ auth.tenant = Program.tenant /\ auth.authenticatedAt = input.authenticatedAt
    BY <1>2, <1>3, SomebodysIdentity
<1>5. Program.userId = "program"
    BY DEF Program
<1> QED
    BY <1>2, <1>4, <1>5 DEF Says

\* What the page's token says.
LEMMA PageSays ==
    ASSUME Settings, NEW i \in Instances, NEW t, NEW jkt, NEW auth, OfPage(t, i, jkt, auth)
    PROVE  Says(auth, Page, session.authenticatedAt) /\ auth.userId = "page"
<1>1. PICK input : input = PageInput
    OBVIOUS
<1>2. /\ input.principal = Page /\ input.sessionId = Page.userId
      /\ input.authenticatedAt \in Int /\ input.authenticatedAt = session.authenticatedAt
      /\ input.confirmationKey \in {None} \cup Thumbprints
    BY <1>1, InputsOK DEF OfPage
<1>3. auth = IdentityOf(input)
    BY <1>1 DEF OfPage
<1>4. /\ auth # None
      /\ auth.userId = Page.userId /\ auth.roles = Page.roles /\ auth.scopes = Page.scopes
      /\ auth.tenant = Page.tenant /\ auth.authenticatedAt = input.authenticatedAt
    BY <1>2, <1>3, SomebodysIdentity
<1>5. Page.userId = "page"
    BY DEF Page
<1> QED
    BY <1>2, <1>4, <1>5 DEF Says

\* What the middlewares allow an identity, they allow the user.
LEMMA AllowedAlike ==
    ASSUME NEW m, m.kind \in {"role", "allRoles", "scope", "owner", "tenant"},
           NEW env, NEW req, NEW route, req.params = route.params,
           NEW auth, NEW p, NEW at, Says(auth, p, at), Allowed(m, env, req, auth)
    PROVE  Allowed(m, [now |-> 0], [params |-> route.params], p)
<1>1. PICK brief : brief = [params |-> route.params]
    OBVIOUS
<1>2. brief.params = req.params
    BY <1>1
<1>3. CASE m.kind = "role"
    BY <1>3 DEF Allowed, Says, requireRole
<1>4. CASE m.kind = "allRoles"
    BY <1>4 DEF Allowed, Says, requireAllRoles
<1>5. CASE m.kind = "scope"
    BY <1>5 DEF Allowed, Says, requireScope
<1>6. CASE m.kind = "owner"
    BY <1>1, <1>2, <1>6 DEF Allowed, Says, requireOwner
<1>7. CASE m.kind = "tenant"
    BY <1>1, <1>2, <1>7 DEF Allowed, Says, requireTenant
<1> QED
    BY <1>3, <1>4, <1>5, <1>6, <1>7

\* A request that is answered by its handler is by somebody entitled to it.
LEMMA RequestEntitled ==
    ASSUME Settings, NEW i \in Instances, NEW caller, NEW framework, NEW route, NEW mishap,
           Possible(caller, framework, route, mishap),
           NEW wire, wire = Sent(caller, i, route, mishap),
           NEW r, r = Handled(framework, Env(i), wire, route.chains), r.status = 200,
           NEW x, x.caller = caller, x.instance = i, x.framework = framework, x.route = route,
           x.auth = r.auth, x.buckets = r.buckets
    PROVE  Entitled(x, wire)
<1>1. PICK env, req : env = Env(i) /\ req = HttpRequest(framework, wire)
    OBVIOUS
<1>2. PICK v : v = Verdict(env, req)
    OBVIOUS
<1>3. PICK t : t = wire.authorization[1].token
    OBVIOUS
<1>4. framework \in Frameworks /\ caller \in {"page", "program"} /\ route \in Routes
    BY DEF Possible, Callers
<1>5. ASSUME v.error = None
      PROVE  /\ Unambiguous(framework, wire) /\ t # None
             /\ \E jkt : /\ OfProgram(t, i, jkt, v.auth) \/ OfPage(t, i, jkt, v.auth)
                         /\ process[i].dpop # None => Established(Env(i), req, t, jkt)
    BY <1>1, <1>2, <1>3, <1>5, CarriesOne
<1>6. v.error = None => v.auth # None
  <2>1. SUFFICES ASSUME v.error = None PROVE v.auth # None
      OBVIOUS
  <2>2. PICK jkt : OfProgram(t, i, jkt, v.auth) \/ OfPage(t, i, jkt, v.auth)
      BY <1>5, <2>1
  <2> QED BY <2>2, ProgramSays, PageSays DEF Says
<1>7. PICK chains : chains = route.chains
    OBVIOUS
<1>8. Passed(chains, Len(chains)) = Asked(route)
    BY <1>7 DEF Passed, PassedIn, Asked
<1>9. /\ Len(chains) \in Nat /\ \A k \in 1 .. Len(chains) : Len(chains[k]) \in Nat
      /\ \E m \in Passed(chains, Len(chains)) : m.kind # "rateLimit"
  <2>1. /\ Len(route.chains) \in Nat
        /\ \A c \in 1 .. Len(route.chains) : Len(route.chains[c]) \in Nat
        /\ \E m \in Asked(route) : m.kind # "rateLimit"
      BY <1>4, RoutesAssumption, Zenon
  <2> QED BY <1>7, <1>8, <2>1, Zenon
<1>10. None \notin DOMAIN StatusOf
    BY NoneAssumption DEF Texts
<1>11. /\ v.error = None /\ r.auth = v.auth
       /\ \E m \in Asked(route) : m.kind = "verify"
       /\ \A m \in Asked(route) : m.kind \notin {"rateLimit", "verify"} => Allowed(m, env, req, r.auth)
       /\ r.buckets = IF \E m \in Asked(route) : m.kind = "rateLimit"
                      THEN {clientIp(req, env.trustProxy)} ELSE {}
  <2>1. r = Handled(framework, env, wire, chains)
      BY <1>1, <1>7
  <2>2. req = HttpRequest(framework, wire) /\ r.status = 200
      BY <1>1
  <2>3. /\ Verdict(env, req).error = None => Verdict(env, req).auth # None
        /\ \A k \in 1 .. Len(chains) : Len(chains[k]) \in Nat
      BY <1>2, <1>6, <1>9
  <2>4. LetThrough(Passed(chains, Len(chains)), env, req, r)
      BY <1>4, <1>9, <1>10, <2>1, <2>2, <2>3, HandledMeansAdmitted
  <2>5. LetThrough(Asked(route), env, req, r)
      BY <1>8, <2>4
  <2> QED BY <1>2, <2>5, Zenon DEF LetThrough
<1>12. PICK jkt : /\ OfProgram(t, i, jkt, x.auth) \/ OfPage(t, i, jkt, x.auth)
                  /\ process[i].dpop # None => Established(Env(i), req, t, jkt)
    BY <1>5, <1>11
<1>13. Unambiguous(framework, wire) /\ t # None
    BY <1>5, <1>11
<1>14. PICK p, at : p \in {Page, Program} /\ Says(x.auth, p, at) /\ at = Since(x)
  <2>1. CASE OfProgram(t, i, jkt, x.auth)
    <3>1. Says(x.auth, Program, clock + Skew[i]) /\ x.auth.userId = "program"
        BY <2>1, ProgramSays
    <3> QED BY <3>1 DEF Since
  <2>2. CASE OfPage(t, i, jkt, x.auth)
    <3>1. Says(x.auth, Page, session.authenticatedAt) /\ x.auth.userId = "page"
        BY <2>2, PageSays
    <3> QED BY <3>1 DEF Since
  <2> QED BY <1>12, <2>1, <2>2
<1>15. Owned(x, t)
  <2>1. CASE OfProgram(t, i, jkt, x.auth)
    <3>1. x.auth.userId = "program" /\ t = ProgramToken(i)
        BY <2>1, ProgramSays DEF OfProgram
    <3> QED BY <3>1 DEF Owned
  <2>2. CASE OfPage(t, i, jkt, x.auth)
    <3>1. /\ x.auth.userId = "page" /\ token # None /\ t = token.value
          /\ clock + Skew[i] <= token.until + Tolerance
        BY <2>2, PageSays DEF OfPage
    <3> QED BY <3>1 DEF Owned
  <2> QED BY <1>12, <2>1, <2>2
<1>16. x.auth.userId \in x.route.users
  <2>1. ASSUME NEW m \in Asked(route), m.kind \notin {"rateLimit", "verify", "fresh"}
        PROVE  Allowed(m, [now |-> 0], [params |-> route.params], p)
    <3>1. m.kind \in {"role", "allRoles", "scope", "owner", "tenant"}
        BY <1>4, <2>1, RoutesAssumption
    <3>2. Allowed(m, env, req, x.auth)
        BY <1>11, <2>1
    <3>3. req.params = route.params
        BY <1>1, <1>4, SentForm, RequestOf
    <3> QED BY <1>14, <3>1, <3>2, <3>3, AllowedAlike
  <2>2. AllowedUser(route, p)
      BY <1>11, <2>1 DEF AllowedUser
  <2>3. p.userId \in route.users
      BY <1>4, <1>14, <2>2, RoutesAssumption
  <2> QED BY <1>14, <2>3 DEF Says
<1>17. x.route.freshFor # None => clock + Skew[x.instance] - Since(x) <= x.route.freshFor
  <2>1. SUFFICES ASSUME route.freshFor # None
                 PROVE  clock + Skew[i] - at <= route.freshFor
      BY <1>14
  <2>2. PICK m \in Asked(route) :
           m.kind = "fresh" /\ m.maxAgeSeconds \in Int /\ m.maxAgeSeconds <= route.freshFor
      BY <1>4, <2>1, RoutesAssumption
  <2>3. route.freshFor \in Int
      BY <1>4, <2>1, RoutesAssumption
  <2>4. Allowed(m, env, req, x.auth)
      BY <1>11, <2>2
  <2>5. env.now - x.auth.authenticatedAt <= m.maxAgeSeconds
      BY <2>2, <2>4 DEF Allowed, requireFreshAuth
  <2>6. env.now = clock + Skew[i] /\ clock + Skew[i] \in Int
      BY <1>1, EnvOf, ServiceAssumption DEF Settings, TypesOK
  <2>7. x.auth.authenticatedAt = at /\ at \in Int
      BY <1>14 DEF Says
  <2>8. clock \in Int /\ Skew[i] \in Int
      BY ServiceAssumption DEF Settings, TypesOK
  <2> QED BY <2>2, <2>3, <2>5, <2>6, <2>7, <2>8
<1>18. x.buckets = IF x.route.limited THEN {AddressOf(x.caller)} ELSE {}
  <2>1. site.proxies \in {0, 1} /\ env.trustProxy = site.proxies
      BY <1>1, EnvOf, SitesAssumption DEF Settings, TypesOK
  <2>2. wire.forwardedFor = SeenByProxies(site.proxies, caller) /\ wire.peer = SeenAtSocket(site.proxies, caller)
      BY SentForm
  <2>3. clientIp(req, env.trustProxy) = AddressOf(caller)
      BY <1>1, <1>4, <2>1, <2>2, CountedAddress
  <2>4. route.limited = \E m \in Asked(route) : m.kind = "rateLimit"
      BY <1>4, RoutesAssumption
  <2> QED BY <1>11, <2>3, <2>4, Zenon
<1>19. site.binding = "dpop" => Possessing(x, wire, t)
  <2>1. SUFFICES ASSUME site.binding = "dpop" PROVE Possessing(x, wire, t)
      OBVIOUS
  <2>2. process[i].dpop # None
    <3>1. process[i].dpop = [maxAgeSeconds |-> MaxAge, clockToleranceSeconds |-> Tolerance]
        BY <2>1 DEF Settings, InstancesOK, InstanceOK
    <3> QED BY <3>1, NoneAssumption, ServiceAssumption
  <2>3. Established(Env(i), req, t, jkt)
      BY <1>12, <2>2
  <2>4. \/ OfProgram(t, i, jkt, x.auth) /\ x.auth.userId = "program"
        \/ OfPage(t, i, jkt, x.auth) /\ x.auth.userId = "page"
      BY <1>12, ProgramSays, PageSays
  <2> QED BY <1>1, <1>13, <2>1, <2>3, <2>4, ServedPossesses
<1> QED
    BY <1>3, <1>13, <1>15, <1>16, <1>17, <1>18, <1>19 DEF Entitled

-----------------------------------------------------------------------------
(***************************************************************************)
(* Deployments.                                                            *)
(***************************************************************************)
\* What no slip changes, or not to anything that is accepted.
OfSite(c) ==
    /\ {"strategy", "binding", "accessTokenTtl", "clockToleranceSeconds", "dpopProofMaxAgeSeconds"}
          \subseteq DOMAIN c
    /\ c.strategy = site.strategy /\ c.binding = site.binding /\ c.accessTokenTtl = Ttl
    /\ c.clockToleranceSeconds \in {Tolerance, Ttl + 1}
    /\ c.dpopProofMaxAgeSeconds = IF site.binding = "dpop" THEN MaxAge ELSE None

\* Whatever slips into a configuration, it is for this site.
LEMMA SlipsAreOfSite ==
    ASSUME NEW r, NEW c \in Slips(ConfigOf(site, r))
    PROVE  OfSite(c)
<1>1. PICK base : base = ConfigOf(site, r)
    OBVIOUS
<1>2. PICK issuer, audience, keys :
         /\ issuer = IF site.strategy = "paseto" THEN "issuer" ELSE None
         /\ audience = IF site.strategy = "paseto" THEN "audience" ELSE None
         /\ keys = IF site.strategy = "paseto"
                   THEN [active |-> SigningKeyOf(r),
                         previous |-> [i \in 1 .. r - 1 |->
                             [kid |-> KidOf[i], publicKey |-> SigningKeyOf(i).publicKey]]]
                   ELSE None
    OBVIOUS
<1>3. PICK store, mode, age, strategy, binding :
         /\ store = REQUIRED_STORE_METHODS /\ mode = site.onStoreError
         /\ age = IF site.binding = "dpop" THEN MaxAge ELSE None
         /\ strategy = site.strategy /\ binding = site.binding
    OBVIOUS
<1>4. base = [store |-> store, strategy |-> strategy, binding |-> binding,
               issuer |-> issuer, audience |-> audience, keys |-> keys,
               accessTokenTtl |-> Ttl, refreshTokenTtl |-> None, refreshGraceSeconds |-> None,
               clockToleranceSeconds |-> Tolerance, onStoreError |-> mode,
               dpopProofMaxAgeSeconds |-> age, audit |-> None]
    BY <1>1, <1>2, <1>3, Zenon DEF ConfigOf
<1>5. OfSite(base)
    BY <1>3, <1>4 DEF OfSite
<1>6. ASSUME NEW k PROVE OfSite([base EXCEPT !.keys = k])
    BY <1>3, <1>4 DEF OfSite
<1>7. ASSUME NEW k PROVE OfSite([base EXCEPT !.audience = k])
    BY <1>3, <1>4 DEF OfSite
<1>8. OfSite([base EXCEPT !.clockToleranceSeconds = Ttl + 1])
    BY <1>3, <1>4 DEF OfSite
<1>9. ASSUME NEW k PROVE OfSite([base EXCEPT !.onStoreError = k])
    BY <1>3, <1>4 DEF OfSite
<1>10. ASSUME NEW k PROVE OfSite([base EXCEPT !.store = k])
    BY <1>3, <1>4 DEF OfSite
<1>11. \/ c = base
      \/ (\E text : c = [base EXCEPT !.audience = text])
      \/ c = [base EXCEPT !.clockToleranceSeconds = Ttl + 1]
      \/ (\E other : c = [base EXCEPT !.onStoreError = other])
      \/ (\E methods : c = [base EXCEPT !.store = methods])
      \/ (\E pair : c = [base EXCEPT !.keys = pair])
    BY <1>1, Zenon DEF Slips
<1> QED
    BY <1>5, <1>6, <1>7, <1>8, <1>9, <1>10, <1>11

\* What new Ninsho() makes of a configuration of this site is an instance of it.
LEMMA ComesUp ==
    ASSUME site \in Sites, NEW c, OfSite(c), NEW p, p = Ninsho(c), p # None
    PROVE  InstanceOK(p)
<1>1. /\ site.strategy \in {"paseto", "opaque"} /\ site.binding \in {"none", "dpop"}
      /\ Ttl \in Int /\ Tolerance \in Int /\ MaxAge \in Int
    BY SitesAssumption, ServiceAssumption
<1>2. /\ None \notin {"paseto", "opaque", "none", "dpop"}
      /\ None # Ttl /\ None # Tolerance /\ None # Ttl + 1 /\ None # MaxAge
    BY <1>1, NoneAssumption DEF Texts
<1>3. PICK d : d = WithDefaults(c)
    OBVIOUS
<1>4. ASSUME NEW f \in DOMAIN c, c[f] # None PROVE d[f] = c[f]
    BY <1>3, <1>4 DEF WithDefaults
<1>5. /\ d.strategy = site.strategy /\ d.binding = site.binding /\ d.accessTokenTtl = Ttl
      /\ d.clockToleranceSeconds \in {Tolerance, Ttl + 1}
      /\ site.binding = "dpop" => d.dpopProofMaxAgeSeconds = MaxAge
    BY <1>1, <1>2, <1>4 DEF OfSite
<1>6. p = WithConfig(Resolved(d, c))
    BY <1>3 DEF Ninsho, resolveConfig
<1>7. Resolved(d, c) # None
    BY <1>6 DEF WithConfig
<1>8. Resolved(d, c) = d /\ TimesAreWhole(d)
    BY <1>7 DEF Resolved
<1>9. d.clockToleranceSeconds = Tolerance
    BY <1>1, <1>5, <1>8 DEF TimesAreWhole
<1>10. PICK ring : ring = IF d.strategy = "paseto" THEN KeyRing(d.keys) ELSE None
    OBVIOUS
<1>11. p = Instance(d, ring)
    BY <1>6, <1>7, <1>8, <1>10 DEF WithConfig
<1>12. d.strategy = "paseto" => ring # None
    BY <1>11 DEF Instance
<1>13. d.strategy = "paseto" => ring.signingKid \in Kids
  <2>1. SUFFICES ASSUME d.strategy = "paseto" PROVE ring.signingKid \in Kids
      OBVIOUS
  <2>2. KeyRing(d.keys) # None /\ ring = KeyRing(d.keys)
      BY <1>10, <1>12, <2>1
  <2>3. assertKid(d.keys.active.kid) /\ ring.signingKid = d.keys.active.kid
      BY <2>2 DEF KeyRing
  <2> QED BY <2>3 DEF assertKid
<1>14. PICK engine, dpop : /\ engine = Engine(d, ring)
                          /\ dpop = IF d.binding = "dpop"
                                    THEN [maxAgeSeconds |-> d.dpopProofMaxAgeSeconds,
                                          clockToleranceSeconds |-> d.clockToleranceSeconds]
                                    ELSE None
    OBVIOUS
<1>15. p = [engine |-> engine, dpop |-> dpop, emitted |-> warnings(d)]
    BY <1>11, <1>12, <1>14 DEF Instance
<1>16. p.engine = engine /\ p.dpop = dpop
    BY <1>15
<1>17. /\ engine.strategy = d.strategy /\ engine.ring = ring /\ engine.accessTokenTtl = d.accessTokenTtl
       /\ engine.clockToleranceSeconds = d.clockToleranceSeconds
    BY <1>14 DEF Engine
<1>18. EngineOK(engine)
    BY <1>5, <1>13, <1>17 DEF EngineOK
<1>19. dpop = IF site.binding = "dpop"
              THEN [maxAgeSeconds |-> MaxAge, clockToleranceSeconds |-> Tolerance] ELSE None
    BY <1>5, <1>9, <1>14, Zenon
<1> QED
    BY <1>9, <1>16, <1>17, <1>18, <1>19, Zenon DEF InstanceOK

-----------------------------------------------------------------------------
(***************************************************************************)
(* The start, and what stays as it is.                                     *)
(***************************************************************************)
LEMMA StartsWell ==
    ASSUME Init
    PROVE  Settings
<1>1. TypesOK
    BY DEF Init, TypesOK
<1>2. ASSUME NEW i \in Instances PROVE InstanceOK(process[i])
  <2>1. PICK c, p : c = ConfigOf(site, 1) /\ p = Ninsho(c)
      OBVIOUS
  <2>2. process[i] = p
      BY <2>1 DEF Init
  <2>3. p # None
      BY <1>1, <2>1, FirstAssumption DEF TypesOK
  <2>4. c \in Slips(ConfigOf(site, 1))
      BY <2>1, Zenon DEF Slips
  <2>5. OfSite(c)
      BY <2>4, SlipsAreOfSite
  <2> QED BY <1>1, <2>1, <2>2, <2>3, <2>5, ComesUp DEF TypesOK
<1>3. KeysOK
    BY DEF Init, KeysOK, Keys!KeysInit
<1>4. SessionOK /\ TokenOK
    BY DEF Init, SessionOK, TokenOK
<1> QED
    BY <1>1, <1>2, <1>3, <1>4 DEF Settings, InstancesOK

\* The parts of the invariant, where nothing they are about changes.
LEMMA InstancesStay ==
    ASSUME InstancesOK, UNCHANGED <<site, process>>
    PROVE  InstancesOK'
BY DEF InstancesOK, InstanceOK, EngineOK

\* Keys, when no tab does anything.
LEMMA KeysStay ==
    ASSUME KeysOK, UNCHANGED <<stored, tab>>
    PROVE  KeysOK'
BY DEF KeysOK

\* The session, when nobody signs in.
LEMMA SessionStays ==
    ASSUME SessionOK, UNCHANGED <<site, session>>
    PROVE  SessionOK'
BY DEF SessionOK

\* The token, when its tab keeps its key.
LEMMA TokenStays ==
    ASSUME TokenOK, UNCHANGED <<site, session, token, page>>,
           tab[page].pc = "ready" => tab'[page] = tab[page]
    PROVE  TokenOK'
<1>1. SUFFICES ASSUME token # None PROVE TokenOK'
    BY DEF TokenOK
<1>2. PICK e, then, before : HandedOver(e, then, before)
    BY <1>1 DEF TokenOK
<1>3. HandedOver(e, then, before)'
    BY <1>2 DEF HandedOver, EngineOK, PageInput
<1>4. /\ session # None /\ tab[page].pc = "ready" /\ tab'[page] = tab[page]
      /\ site.binding = "dpop" => session.jkt = ThumbprintOf(tab[page].key.key.id)
    BY <1>1 DEF TokenOK
<1> QED
    BY <1>3, <1>4 DEF TokenOK

-----------------------------------------------------------------------------
(***************************************************************************)
(* The keys of the tabs.                                                   *)
(***************************************************************************)
LEMMA KeyDescribed ==
    ASSUME NEW t
    PROVE  /\ generateDpopKey(t) = KeyOfTab(t) /\ describeKey(KeyOfTab(t)) = Described(t)
           /\ KeyOfTab(t).extractable = FALSE
           /\ Described(t).key.id = t /\ Described(t).key = KeyOfTab(t)
           /\ Described(t).publicJwk = PublicJwk(KeyOfTab(t))
<1>1. generateDpopKey(t) = KeyOfTab(t)
    BY DEF generateDpopKey, KeyOfTab
<1>2. PICK key : key = KeyOfTab(t)
    OBVIOUS
<1>3. key.id = t /\ key.crv = "P-256" /\ key.extractable = FALSE
    BY <1>2 DEF KeyOfTab
<1>4. describeKey(key) = [key |-> key, publicJwk |-> PublicJwk(key), thumbprint |-> jwkThumbprint(PublicJwk(key))]
    BY <1>3, Zenon DEF describeKey
<1>5. Described(t) = [key |-> key, publicJwk |-> PublicJwk(key), thumbprint |-> jwkThumbprint(PublicJwk(key))]
    BY <1>2, Zenon DEF Described
<1>6. Described(t).key = key /\ Described(t).publicJwk = PublicJwk(key)
    BY <1>5
<1> QED
    BY <1>1, <1>2, <1>3, <1>4, <1>5, <1>6

\* BrowserKeys and the page describe a key alike.
LEMMA SameDescription ==
    ASSUME NEW key
    PROVE  Keys!describeKey(key) = describeKey(key)
BY DEF Keys!describeKey, describeKey, Keys!PublicJwk, PublicJwk, Keys!Jwk, Jwk, Keys!Coordinate, Coordinate,
       Keys!KEY_BYTES, KEY_BYTES, Keys!jwkThumbprint, jwkThumbprint

\* A tab that is not ready becomes ready with a key of a tab.
LEMMA TabBecomes ==
    ASSUME KeysOK, NEW t \in Tabs, NEW pc, NEW key, Keys!Become(t, pc, key), tab[t].pc # "ready",
           pc = "ready" => \E u \in Tabs : key = Described(u),
           stored' \in {None, Keys!Legacy} \cup {KeyOfTab(u) : u \in Tabs}
    PROVE  KeysOK' /\ \A u \in Tabs : tab[u].pc = "ready" => tab'[u] = tab[u]
<1>1. tab' = [tab EXCEPT ![t] = [pc |-> pc, key |-> key]]
    BY DEF Keys!Become
<1>2. DOMAIN tab' = Tabs /\ \A u \in Tabs : tab'[u] = IF u = t THEN [pc |-> pc, key |-> key] ELSE tab[u]
    BY <1>1 DEF KeysOK
<1>3. ASSUME NEW u \in Tabs, tab'[u].pc = "ready" PROVE \E w \in Tabs : tab'[u].key = Described(w)
  <2>1. CASE u = t
      BY <1>2, <1>3, <2>1
  <2>2. CASE u # t
      BY <1>2, <1>3, <2>2 DEF KeysOK
  <2> QED BY <2>1, <2>2
<1>4. KeysOK'
    BY <1>2, <1>3 DEF KeysOK
<1> QED
    BY <1>2, <1>4

\* Tabs that open come to keys that were generated in one, and keep them.
LEMMA TabsOpen ==
    ASSUME KeysOK, Keys!KeysNext
    PROVE  KeysOK' /\ \A u \in Tabs : tab[u].pc = "ready" => tab'[u] = tab[u]
<1>1. PICK t \in Tabs : Keys!Load(t) \/ Keys!Clear(t) \/ Keys!GetOrCreate(t)
    BY DEF Keys!KeysNext
<1>2. stored \in {None, Keys!Legacy} \cup {KeyOfTab(u) : u \in Tabs}
    BY DEF KeysOK
<1>3. Keys!Legacy.extractable = TRUE
    BY DEF Keys!Legacy
<1>4. ASSUME stored # None, ~stored.extractable
      PROVE  \E u \in Tabs : stored = KeyOfTab(u)
    BY <1>2, <1>3, <1>4
<1>5. CASE Keys!Load(t)
  <2>1. tab[t].pc = "load" /\ stored' = stored
      BY <1>5 DEF Keys!Load
  <2>2. CASE stored = None
    <3>1. Keys!Become(t, "create", None)
        BY <1>5, <2>2 DEF Keys!Load
    <3> QED BY <1>2, <2>1, <3>1, TabBecomes
  <2>3. CASE stored # None /\ stored.extractable
    <3>1. Keys!Become(t, "clear", None)
        BY <1>5, <2>3 DEF Keys!Load
    <3> QED BY <1>2, <2>1, <3>1, TabBecomes
  <2>4. CASE stored # None /\ ~stored.extractable
    <3>1. Keys!Become(t, "ready", describeKey(stored))
        BY <1>5, <2>4, SameDescription DEF Keys!Load
    <3>2. \E u \in Tabs : describeKey(stored) = Described(u)
        BY <1>4, <2>4, KeyDescribed
    <3> QED BY <1>2, <2>1, <3>1, <3>2, TabBecomes
  <2> QED BY <2>2, <2>3, <2>4
<1>6. CASE Keys!Clear(t)
  <2>1. tab[t].pc = "clear" /\ stored' = None /\ Keys!Become(t, "create", None)
      BY <1>6 DEF Keys!Clear
  <2> QED BY <2>1, TabBecomes
<1>7. CASE Keys!GetOrCreate(t)
  <2>1. PICK candidate, winner :
           /\ candidate = generateDpopKey(t)
           /\ winner = IF (IF stored = None THEN FALSE ELSE ~stored.extractable)
                       THEN stored ELSE candidate
      OBVIOUS
  <2>2. tab[t].pc = "create" /\ stored' = winner /\ Keys!Become(t, "ready", describeKey(winner))
    <3>1. candidate = Keys!generateDpopKey(t)
        BY <2>1 DEF Keys!generateDpopKey, generateDpopKey
    <3> QED BY <1>7, <2>1, <3>1, SameDescription DEF Keys!GetOrCreate
  <2>3. \E u \in Tabs : winner = KeyOfTab(u)
      BY <1>4, <2>1, KeyDescribed
  <2>4. \E u \in Tabs : describeKey(winner) = Described(u)
      BY <2>3, KeyDescribed
  <2> QED BY <2>2, <2>3, <2>4, TabBecomes
<1> QED
    BY <1>1, <1>5, <1>6, <1>7

-----------------------------------------------------------------------------
(***************************************************************************)
(* Sign-ins and refreshes.                                                 *)
(***************************************************************************)
\* The key that is signed with in the tab in use.
KeyInUse == tab[page].key.key.id

\* An instance asks for proofs where tokens are bound.
LEMMA DpopWhereBound ==
    ASSUME Settings, NEW i \in Instances
    PROVE  process[i].dpop = None <=> site.binding # "dpop"
<1>1. process[i].dpop = IF site.binding = "dpop"
                        THEN [maxAgeSeconds |-> MaxAge, clockToleranceSeconds |-> Tolerance] ELSE None
    BY DEF Settings, InstancesOK, InstanceOK
<1>2. [maxAgeSeconds |-> MaxAge, clockToleranceSeconds |-> Tolerance] # None
    BY NoneAssumption, ServiceAssumption
<1> QED
    BY <1>1, <1>2

\* Whoever shows possession in a tab shows that of its key.
LEMMA PossessionOfTab ==
    ASSUME Settings, NEW i \in Instances, NEW framework \in Frameworks, NEW path, Keys!Ready(page),
           NEW p, p = Possessed(i, framework, path), p.error = None
    PROVE  /\ KeyInUse \in Tabs
           /\ p.jkt = IF site.binding = "dpop" THEN ThumbprintOf(KeyInUse) ELSE None
<1>1. PICK u \in Tabs : tab[page].key = Described(u)
    BY DEF Settings, TypesOK, KeysOK, Keys!Ready
<1>2. KeyInUse = u
    BY <1>1, KeyDescribed DEF KeyInUse
<1>3. CASE site.binding # "dpop"
  <2>1. p = [error |-> None, jkt |-> None]
      BY <1>3, DpopWhereBound DEF Possessed
  <2> QED BY <1>2, <1>3, <2>1
<1>4. CASE site.binding = "dpop"
  <2>1. p = Confirmed(i, framework, path)
      BY <1>4, DpopWhereBound DEF Possessed
  <2>2. PICK described, request : /\ described = Described(u)
                                  /\ request = [method |-> "post", url |-> Url(Origin, path), accessToken |-> None]
      OBVIOUS
  <2>3. PICK proof : proof = ProofOf("page", request, Now)
      OBVIOUS
  <2>4. PICK wire : wire = Wire("page", "post", Target(path), <<>>, <<proof>>, None)
      OBVIOUS
  <2>5. PICK req : req = HttpRequest(framework, wire)
      OBVIOUS
  <2>6. p = establishProofOfPossession(Env(i), req, None)
      BY <2>1, <2>2, <2>3, <2>4, <2>5 DEF Confirmed
  <2>7. PICK jkt : jkt = p.jkt
      OBVIOUS
  <2>8. Established(Env(i), req, None, jkt)
      BY <2>6, <2>7, Establishing
  <2>9. wire.dpop = <<proof>>
      BY <2>4 DEF Wire
  <2>10. extractProofHeader(req) = proof
    <3>1. FewLines(wire.dpop) /\ wire.dpop[1] = proof
        BY <2>9 DEF FewLines
    <3> QED BY <2>5, <2>8, <3>1, OneProof DEF Established
  <2>11. PICK options : options = Expected(Env(i), req, None)
      OBVIOUS
  <2>12. ProofTaken(proof, options, jkt)
      BY <2>8, <2>10, <2>11, ProofRead DEF Established
  <2>13. proof[1].value.jwk = PublicJwk(KeyOfTab(u))
    <3>1. proof = createProof(described, request, Now)
        BY <1>1, <2>2, <2>3 DEF ProofOf
    <3>2. PICK header : header = [typ |-> "dpop+jwt", alg |-> "ES256", jwk |-> described.publicJwk]
        OBVIOUS
    <3>3. proof[1] = Segment(header)
        BY <3>1, <3>2 DEF createProof, Jws
    <3>4. proof[1].value = header
        BY <3>3 DEF Segment
    <3>5. header.jwk = described.publicJwk
        BY <3>2
    <3> QED BY <2>2, <3>4, <3>5, KeyDescribed
  <2>14. jkt = jwkThumbprint(PublicJwk(KeyOfTab(u)))
      BY <2>12, <2>13 DEF ProofTaken
  <2> QED BY <1>2, <1>4, <2>7, <2>14, TabThumbprint
<1> QED
    BY <1>3, <1>4

\* A token that is handed over is the tab's, for the session there then is.
LEMMA HandedToTab ==
    ASSUME Settings, NEW i \in Instances, Keys!Ready(page),
           NEW jkt, NEW at, Hand(i, jkt, at),
           session'.jkt = jkt, session'.authenticatedAt = at, session' # None,
           site.binding = "dpop" => jkt = ThumbprintOf(KeyInUse),
           UNCHANGED <<site, tab, page>>
    PROVE  TokenOK'
<1>1. PICK e, now, before : e = process[i].engine /\ now = clock + Skew[i] /\ before = clock
    OBVIOUS
<1>2. PICK input : input = [sessionId |-> "page", principal |-> Page, authenticatedAt |-> at,
                            confirmationKey |-> jkt]
    OBVIOUS
<1>3. token' = [at |-> clock, until |-> now + Ttl, value |-> issue(e, input, now, before)]
  <2>1. PICK until : until = now + Ttl
      OBVIOUS
  <2>2. clock + Skew[i] + Ttl = until
      BY <1>1, <2>1
  <2> QED BY <1>1, <1>2, <2>1, <2>2 DEF Hand
<1>4. token'.until = now + Ttl /\ token'.value = issue(e, input, now, before)
    BY <1>3
<1>5. PageInput' = input
    BY <1>2 DEF PageInput
<1>6. EngineOK(e) /\ now \in Int
    BY <1>1, ServiceAssumption DEF Settings, TypesOK, InstancesOK, InstanceOK
<1>7. HandedOver(e, now, before)'
    BY <1>4, <1>5, <1>6 DEF HandedOver, EngineOK
<1>8. \E from, since : HandedOver(e, from, since)'
    BY <1>7
<1> QED
    BY <1>8 DEF TokenOK, KeyInUse, Keys!Ready

-----------------------------------------------------------------------------
(***************************************************************************)
(* What every action keeps.                                                *)
(***************************************************************************)
\* An instance is replaced by one of the same site.
LEMMA DeployKeeps ==
    ASSUME Settings, NEW i \in Instances, NEW c \in Slips(ConfigOf(site, release)), Deploy(i, c)
    PROVE  Settings'
<1>1. UNCHANGED <<clock, site, release, stored, tab, found, page, token, session, exchange>>
    BY DEF Deploy, Quiet
<1>2. PICK p : p = Ninsho(c)
    OBVIOUS
<1>3. process' = [process EXCEPT ![i] = IF p = None THEN @ ELSE p]
    BY <1>2 DEF Deploy
<1>4. site \in Sites /\ InstancesOK
    BY DEF Settings, TypesOK
<1>5. p # None => InstanceOK(p)
    BY <1>2, <1>4, SlipsAreOfSite, ComesUp
<1>6. ASSUME NEW j \in Instances PROVE InstanceOK(process'[j])
  <2>1. process'[j] = process[j] \/ (p # None /\ process'[j] = p)
      BY <1>3
  <2> QED BY <1>4, <1>5, <2>1 DEF InstancesOK
<1>7. \A q : InstanceOK(q) => InstanceOK(q)'
    BY <1>1 DEF InstanceOK, EngineOK
<1>8. InstancesOK'
    BY <1>6, <1>7 DEF InstancesOK
<1>9. TypesOK' /\ KeysOK' /\ SessionOK' /\ TokenOK'
    BY <1>1, KeysStay, SessionStays, TokenStays DEF Settings, TypesOK
<1> QED
    BY <1>8, <1>9 DEF Settings

\* A new release changes nothing that runs.
LEMMA RotateKeeps ==
    ASSUME Settings, Rotate
    PROVE  Settings'
<1>1. /\ UNCHANGED <<clock, site, process, stored, tab, found, page, token, session, exchange>>
      /\ release' = release + 1
    BY DEF Rotate, Quiet
<1> QED
    BY <1>1, InstancesStay, KeysStay, SessionStays, TokenStays DEF Settings, TypesOK

\* Time passes.
LEMMA TickKeeps ==
    ASSUME Settings, Tick
    PROVE  Settings'
<1>1. /\ UNCHANGED <<site, release, process, stored, tab, found, page, token, session, exchange>>
      /\ clock' = clock + 1
    BY DEF Tick, Quiet
<1> QED
    BY <1>1, InstancesStay, KeysStay, SessionStays, TokenStays DEF Settings, TypesOK

\* A tab that opens disturbs no tab that is ready.
LEMMA OpenTabKeeps ==
    ASSUME Settings, OpenTab
    PROVE  Settings'
<1>1. UNCHANGED <<clock, site, release, process, found, page, token, session, exchange>>
    BY DEF OpenTab
<1>2. KeysOK' /\ \A u \in Tabs : tab[u].pc = "ready" => tab'[u] = tab[u]
    BY TabsOpen DEF OpenTab, Settings
<1>3. TokenOK'
    BY <1>1, <1>2, TokenStays DEF Settings, TypesOK
<1> QED
    BY <1>1, <1>2, <1>3, InstancesStay, SessionStays DEF Settings, TypesOK

\* The other tab has no token.
LEMMA SwitchKeeps ==
    ASSUME Settings, NEW t \in Tabs, Switch(t)
    PROVE  Settings'
<1>1. /\ UNCHANGED <<clock, site, release, process, stored, tab, found, session, exchange>>
      /\ page' = t /\ token' = None
    BY DEF Switch
<1>2. TokenOK'
    BY <1>1 DEF TokenOK
<1> QED
    BY <1>1, <1>2, InstancesStay, KeysStay, SessionStays DEF Settings, TypesOK

\* Only an exchange changes.
LEMMA QuietKeeps ==
    ASSUME Settings, UNCHANGED <<clock, site, release, process, stored, tab, found, page, token, session>>
    PROVE  Settings'
BY InstancesStay, KeysStay, SessionStays, TokenStays DEF Settings, TypesOK

\* A page signs in with the key of its tab.
LEMMA SignInKeeps ==
    ASSUME Settings, NEW i \in Instances, NEW framework \in Frameworks, SignIn(i, framework)
    PROVE  Settings'
<1>1. /\ UNCHANGED <<clock, site, release, process, stored, tab, found, page>>
      /\ Keys!Ready(page)
    BY DEF SignIn
<1>2. PICK p : p = Possessed(i, framework, "login")
    OBVIOUS
<1>3. CASE p.error # None
  <2>1. UNCHANGED <<token, session>>
      BY <1>2, <1>3 DEF SignIn
  <2> QED BY <1>1, <2>1, QuietKeeps
<1>4. CASE p.error = None
  <2>1. PICK jkt, at : jkt = p.jkt /\ at = clock + Skew[i]
      OBVIOUS
  <2>2. session' = [jkt |-> jkt, authenticatedAt |-> at] /\ Hand(i, jkt, at)
      BY <1>2, <1>4, <2>1 DEF SignIn
  <2>3. KeyInUse \in Tabs /\ jkt = IF site.binding = "dpop" THEN ThumbprintOf(KeyInUse) ELSE None
      BY <1>1, <1>2, <1>4, <2>1, PossessionOfTab
  <2>4. at \in Int
      BY <2>1, ServiceAssumption DEF Settings, TypesOK
  <2>5. session'.jkt = jkt /\ session'.authenticatedAt = at
      BY <2>2
  <2>6. jkt \in {None} \cup Thumbprints
      BY <2>3 DEF Thumbprints, ThumbprintOf
  <2>7. session' # None
      BY <2>2, <2>4, <2>6, NoneAssumption
  <2>8. TokenOK'
      BY <1>1, <2>2, <2>3, <2>5, <2>7, HandedToTab
  <2>9. SessionOK'
      BY <1>1, <2>3, <2>4, <2>5 DEF SessionOK
  <2> QED BY <1>1, <2>8, <2>9, InstancesStay, KeysStay DEF Settings, TypesOK
<1> QED
    BY <1>3, <1>4

\* A session is renewed in a tab that has its key.
LEMMA RefreshKeeps ==
    ASSUME Settings, NEW i \in Instances, NEW framework \in Frameworks, Refresh(i, framework)
    PROVE  Settings'
<1>1. /\ UNCHANGED <<clock, site, release, process, stored, tab, found, page, session>>
      /\ Keys!Ready(page) /\ session # None
    BY DEF Refresh
<1>2. PICK p : p = Possessed(i, framework, "refresh")
    OBVIOUS
<1>3. PICK error :
         error = IF p.error # None THEN p.error
                 ELSE IF session.jkt # None /\ session.jkt # p.jkt THEN "TokenInvalid" ELSE None
    OBVIOUS
<1>4. IF error # None THEN UNCHANGED token ELSE Hand(i, session.jkt, session.authenticatedAt)
    BY <1>2, <1>3 DEF Refresh
<1>5. CASE error # None
  <2>1. UNCHANGED token
      BY <1>4, <1>5
  <2> QED BY <1>1, <2>1, QuietKeeps
<1>6. CASE error = None
  <2>1. None # "TokenInvalid"
      BY NoneAssumption DEF Texts, StatusOf
  <2>2. p.error = None /\ (session.jkt = None \/ session.jkt = p.jkt)
      BY <1>3, <1>6, <2>1
  <2>3. KeyInUse \in Tabs /\ p.jkt = IF site.binding = "dpop" THEN ThumbprintOf(KeyInUse) ELSE None
      BY <1>1, <1>2, <2>2, PossessionOfTab
  <2>4. PICK jkt, at : jkt = session.jkt /\ at = session.authenticatedAt
      OBVIOUS
  <2>5. site.binding = "dpop" => jkt = ThumbprintOf(KeyInUse)
    <3>1. SUFFICES ASSUME site.binding = "dpop" PROVE jkt = ThumbprintOf(KeyInUse)
        OBVIOUS
    <3>2. PICK t \in Tabs : session.jkt = ThumbprintOf(t)
        BY <1>1, <3>1 DEF Settings, SessionOK
    <3>3. session.jkt # None
        BY <3>2, NoneAssumption DEF Thumbprints, ThumbprintOf
    <3> QED BY <2>2, <2>3, <2>4, <3>1, <3>3
  <2>6. Hand(i, jkt, at)
      BY <1>4, <1>6, <2>4
  <2>7. session'.jkt = jkt /\ session'.authenticatedAt = at /\ session' # None
      BY <1>1, <2>4
  <2>8. TokenOK'
      BY <1>1, <2>5, <2>6, <2>7, HandedToTab
  <2> QED BY <1>1, <2>8, InstancesStay, KeysStay, SessionStays DEF Settings, TypesOK
<1> QED
    BY <1>5, <1>6

\* Every step keeps the settings.
LEMMA StepKeeps ==
    ASSUME Settings, [Next]_vars
    PROVE  Settings'
<1>1. CASE Answer
    BY <1>1, QuietKeeps DEF Answer
<1>2. CASE OpenTab
    BY <1>2, OpenTabKeeps
<1>3. CASE Rotate
    BY <1>3, RotateKeeps
<1>4. CASE Tick
    BY <1>4, TickKeeps
<1>5. CASE \E t \in Tabs : Switch(t)
    BY <1>5, SwitchKeeps
<1>6. CASE \E i \in Instances : \E c \in Slips(ConfigOf(site, release)) : Deploy(i, c)
    BY <1>6, DeployKeeps
<1>7. CASE \E i \in Instances : \E f \in Frameworks : Call(i, f)
  <2>1. PICK i \in Instances, f \in Frameworks : Call(i, f)
      BY <1>7
  <2>2. CASE SignIn(i, f)
      BY <2>2, SignInKeeps
  <2>3. CASE Refresh(i, f)
      BY <2>3, RefreshKeeps
  <2>4. CASE \E caller \in {"page", "program"}, r \in Routes, m \in Mishaps :
                Befalls(m, caller, f, r) /\ Request(caller, i, f, r, m)
      BY <2>4, QuietKeeps DEF Request
  <2> QED BY <2>1, <2>2, <2>3, <2>4 DEF Call
<1>8. CASE UNCHANGED vars
    BY <1>8, QuietKeeps DEF vars
<1> QED
    BY <1>1, <1>2, <1>3, <1>4, <1>5, <1>6, <1>7, <1>8 DEF Next, Frameworks

-----------------------------------------------------------------------------
(***************************************************************************)
(* Exchanges.                                                              *)
(***************************************************************************)
Still == UNCHANGED <<clock, site, release, process, stored, tab, found, page, token, session>>

\* What is sent, and who is entitled to what, is the same after a request.
LEMMA SentStays ==
    ASSUME Still, NEW caller, NEW i, NEW route, NEW mishap
    PROVE  Sent(caller, i, route, mishap)' = Sent(caller, i, route, mishap)
<1>1. TokenOf(caller, i)' = TokenOf(caller, i) /\ OtherToken(caller, i)' = OtherToken(caller, i)
    BY DEF Still, TokenOf, OtherToken, ProgramToken
<1>2. PICK own, other : own = TokenOf(caller, i) /\ other = OtherToken(caller, i)
    OBVIOUS
<1>3. Origin' = Origin /\ Elsewhere' = Elsewhere /\ Now' = Now /\ Moment(mishap)' = Moment(mishap)
    BY DEF Still, Origin, Elsewhere, Now, Moment
<1>4. Authorization(mishap, own, other)' = Authorization(mishap, own, other)
    BY DEF Still, Authorization, Damaged
<1>5. Intended(mishap, route.method, route.path, own, other)'
         = Intended(mishap, route.method, route.path, own, other)
    BY <1>3 DEF Still, Intended, Damaged
<1>6. PICK request, at, lines :
         /\ request = Intended(mishap, route.method, route.path, own, other) /\ at = Moment(mishap)
         /\ lines = Authorization(mishap, own, other)
    OBVIOUS
<1>7. PICK signer : signer = IF mishap = "otherKey" THEN Other(caller) ELSE caller
    OBVIOUS
<1>8. ProofOf(signer, request, at)' = ProofOf(signer, request, at)
    BY DEF Still, ProofOf
<1>9. PICK proofs : proofs = Spoilt(mishap, ProofOf(signer, request, at))
    OBVIOUS
<1>10. PICK target : target = CASE mishap = "absolute" -> Url(Origin, route.path)
                                [] mishap = "elsewhere" -> Url(Elsewhere, route.path)
                                [] OTHER -> Target(route.path)
    OBVIOUS
<1>11. Wire(caller, route.method, target, lines, proofs, route.params)'
          = Wire(caller, route.method, target, lines, proofs, route.params)
    BY DEF Still, Wire
<1>12. Sent(caller, i, route, mishap) = Wire(caller, route.method, target, lines, proofs, route.params)
    BY <1>2, <1>6, <1>7, <1>9, <1>10, Zenon DEF Sent
<1>13. Sent(caller, i, route, mishap)' = Wire(caller, route.method, target, lines, proofs, route.params)'
    BY <1>1, <1>2, <1>3, <1>4, <1>5, <1>6, <1>7, <1>8, <1>9, <1>10, Zenon DEF Sent
<1> QED
    BY <1>11, <1>12, <1>13

\* Who is entitled to what is the same after a request.
LEMMA EntitledStays ==
    ASSUME Still, NEW x, NEW wire, Entitled(x, wire)
    PROVE  Entitled(x, wire)'
<1>1. PICK t : t = wire.authorization[1].token
    OBVIOUS
<1>2. Owned(x, t)' = Owned(x, t)
    BY DEF Still, Owned, ProgramToken
<1>3. Since(x)' = Since(x)
    BY DEF Still, Since
<1>4. Possessing(x, wire, t)' = Possessing(x, wire, t)
    BY DEF Still, Possessing, MadeFor, Origin
<1> QED
    BY <1>1, <1>2, <1>3, <1>4 DEF Still, Entitled

\* A request is answered by its handler only when the sender is entitled to it.
LEMMA RequestServes ==
    ASSUME Settings, NEW i \in Instances, NEW caller \in {"page", "program"}, NEW framework \in Frameworks,
           NEW route \in Routes, NEW mishap \in Mishaps,
           Befalls(mishap, caller, framework, route), Request(caller, i, framework, route, mishap)
    PROVE  ServedMeansEntitled'
<1>1. Still
    BY DEF Request, Still
<1>2. PICK wire, r : /\ wire = Sent(caller, i, route, mishap)
                     /\ r = Handled(framework, Env(i), wire, route.chains)
    OBVIOUS
<1>3. PICK auth, buckets, status : /\ auth = IF r.status = 200 THEN r.auth ELSE None
                                   /\ buckets = r.buckets /\ status = r.status
    OBVIOUS
<1>4. PICK x : x = [kind |-> "request", caller |-> caller, instance |-> i, framework |-> framework,
                    route |-> route, mishap |-> mishap, status |-> status, auth |-> auth, buckets |-> buckets]
    OBVIOUS
<1>5. exchange' = x
    BY <1>2, <1>3, <1>4 DEF Request
<1>6. /\ x.caller = caller /\ x.instance = i /\ x.framework = framework
      /\ x.route = route /\ x.mishap = mishap
      /\ x.status = status /\ x.auth = auth /\ x.buckets = buckets
    BY <1>4
<1>7. ASSUME status = 200 PROVE Entitled(x, wire)
  <2>1. Possible(caller, framework, route, mishap)
      BY DEF Possible, Callers, Request
  <2>2. x.auth = r.auth /\ x.buckets = r.buckets /\ r.status = 200
      BY <1>3, <1>6, <1>7
  <2> QED BY <1>2, <1>6, <2>1, <2>2, RequestEntitled
<1>8. ASSUME status = 200 PROVE Entitled(x, Sent(x.caller, x.instance, x.route, x.mishap))'
  <2>1. Entitled(x, wire)'
      BY <1>1, <1>7, <1>8, EntitledStays
  <2>2. Sent(caller, i, route, mishap)' = wire
      BY <1>1, <1>2, SentStays
  <2> QED BY <1>6, <2>1, <2>2
<1> QED
    BY <1>5, <1>6, <1>8 DEF ServedMeansEntitled

\* So it is with every step.
LEMMA StepServes ==
    ASSUME Settings, ServedMeansEntitled, [Next]_vars
    PROVE  ServedMeansEntitled'
<1>1. CASE exchange' = None
    BY <1>1 DEF ServedMeansEntitled
<1>2. CASE UNCHANGED vars
  <2>1. PICK x : x = exchange
      OBVIOUS
  <2>2. Still /\ exchange' = x
      BY <1>2, <2>1 DEF vars, Still
  <2>3. PICK wire : wire = Sent(x.caller, x.instance, x.route, x.mishap)
      OBVIOUS
  <2>4. Sent(x.caller, x.instance, x.route, x.mishap)' = wire
      BY <2>2, <2>3, SentStays
  <2> QED BY <2>1, <2>2, <2>3, <2>4, EntitledStays DEF ServedMeansEntitled
<1>3. CASE Answer
    BY <1>1, <1>3 DEF Answer
<1>4. CASE exchange = None /\ (OpenTab \/ Rotate \/ Tick \/ \E t \in Tabs : Switch(t))
    BY <1>1, <1>4 DEF OpenTab, Rotate, Tick, Switch, Quiet
<1>5. CASE /\ exchange = None
           /\ \E i \in Instances : \E c \in Slips(ConfigOf(site, release)) : Deploy(i, c)
    BY <1>1, <1>5 DEF Deploy, Quiet
<1>6. CASE \E i \in Instances : \E f \in Frameworks : Call(i, f)
  <2>1. PICK i \in Instances, f \in Frameworks : Call(i, f)
      BY <1>6
  <2>2. ASSUME NEW kind \in {"signIn", "refresh"}, NEW error, Ended(kind, i, f, error)
        PROVE  ServedMeansEntitled'
    <3>1. PICK status : status = toErrorResponse(error)
        OBVIOUS
    <3>2. exchange' = [kind |-> kind, instance |-> i, framework |-> f, status |-> status]
        BY <2>2, <3>1 DEF Ended
    <3>3. exchange'.kind # "request"
        BY <3>2
    <3> QED BY <3>3 DEF ServedMeansEntitled
  <2>3. CASE SignIn(i, f)
    <3>1. \E error : Ended("signIn", i, f, error)
        BY <2>3 DEF SignIn
    <3> QED BY <2>2, <3>1
  <2>4. CASE Refresh(i, f)
    <3>1. \E error : Ended("refresh", i, f, error)
        BY <2>4 DEF Refresh
    <3> QED BY <2>2, <3>1
  <2>5. CASE \E caller \in {"page", "program"}, r \in Routes, m \in Mishaps :
                Befalls(m, caller, f, r) /\ Request(caller, i, f, r, m)
      BY <2>5, RequestServes
  <2> QED BY <2>1, <2>3, <2>4, <2>5 DEF Call
<1> QED
    BY <1>2, <1>3, <1>4, <1>5, <1>6 DEF Next, Frameworks

-----------------------------------------------------------------------------
(***************************************************************************)
(* What the sender of a request can count on: releases and their rings.    *)
(***************************************************************************)
\* The ring of a release: it signs with the key of the release and knows those
\* of the releases before it.
PairNamed(kid) == [pair |-> kid, meant |-> TRUE]
RingOf(r) ==
    [signingKid |-> KidOf[r], privateKey |-> PairNamed(KidOf[r]),
     publicKeys |-> [kid \in {KidOf[j] : j \in 1 .. r} |-> PairNamed(kid)]]

\* The keys of a release.
KeysOfRelease(r) ==
    [active |-> SigningKeyOf(r),
     previous |-> [j \in 1 .. r - 1 |-> [kid |-> KidOf[j], publicKey |-> SigningKeyOf(j).publicKey]]]

\* A generated key is read as what it is.
LEMMA RawRead ==
    ASSUME NEW r
    PROVE  /\ SigningKeyOf(r) = [kid |-> KidOf[r], privateKey |-> Raw("private", KidOf[r]),
                                 publicKey |-> Raw("public", KidOf[r])]
           /\ \A id : /\ KeyOf(Raw("private", id), "private") = PairNamed(id)
                      /\ KeyOf(Raw("public", id), "public") = PairNamed(id)
                      /\ Raw("public", id).bytes = RAW_KEY_BYTES /\ Raw("public", id).hex
                      /\ Raw("private", id).bytes = RAW_KEY_BYTES /\ Raw("private", id).hex
BY DEF SigningKeyOf, generateKeyPair, Raw, KeyOf, PairNamed

\* The key ids of releases, which are different.
LEMMA KidTexts ==
    ASSUME NEW r \in DOMAIN KidOf
    PROVE  KidOf[r] \in {"k1", "k2", "k3"} /\ r \in 1 .. 3
<1>1. DOMAIN KidOf = 1 .. 3 /\ KidOf[1] = "k1" /\ KidOf[2] = "k2" /\ KidOf[3] = "k3"
    BY DEF KidOf
<1> QED
    BY <1>1

\* A key id is of one release.
LEMMA KidsDiffer ==
    ASSUME NEW q \in DOMAIN KidOf, NEW r \in DOMAIN KidOf, KidOf[q] = KidOf[r]
    PROVE  q = r
<1>1. DOMAIN KidOf = 1 .. 3 /\ KidOf[1] = "k1" /\ KidOf[2] = "k2" /\ KidOf[3] = "k3"
    BY DEF KidOf
<1> QED
    BY <1>1

\* A generated key that is loaded is what its text is.
LEMMA GeneratedLoaded ==
    ASSUME NEW id
    PROVE  /\ loadPublicKey(Raw("public", id)) \in {None, PairNamed(id)}
           /\ loadPrivateKey(Raw("private", id)) \in {None, PairNamed(id)}
<1>1. PICK public, private : public = Raw("public", id) /\ private = Raw("private", id)
    OBVIOUS
<1>2. /\ public.hex /\ public.bytes = RAW_KEY_BYTES /\ KeyOf(public, "public") = PairNamed(id)
      /\ private.hex /\ private.bytes = RAW_KEY_BYTES /\ KeyOf(private, "private") = PairNamed(id)
    BY <1>1, RawRead
<1>3. loadPublicKey(public) \in {None, PairNamed(id)}
    BY <1>2 DEF loadPublicKey
<1>4. loadPrivateKey(private) \in {None, PairNamed(id)}
    BY <1>2 DEF loadPrivateKey
<1> QED
    BY <1>1, <1>3, <1>4

\* What a slip makes of the active key: a pair that is refused, or this one.
SlippedKey(a, active) ==
    \/ a = active
    \/ a = [active EXCEPT !.publicKey = Raw("public", "another")]
    \/ a = [active EXCEPT !.publicKey = active.privateKey]
    \/ a = [active EXCEPT !.privateKey = [active.privateKey EXCEPT !.bytes = PASETO_SECRET_BYTES]]
    \/ a = [active EXCEPT !.kid = KidOf[1]]
    \/ a = [active EXCEPT !.kid = "not a kid"]

\* The halves of an active key that is taken are those of its release.
LEMMA ActiveLoaded ==
    ASSUME NEW r \in DOMAIN KidOf, NEW a, SlippedKey(a, SigningKeyOf(r)),
           assertPair(loadPrivateKey(a.privateKey), loadPublicKey(a.publicKey))
    PROVE  /\ loadPrivateKey(a.privateKey) = PairNamed(KidOf[r])
           /\ loadPublicKey(a.publicKey) = PairNamed(KidOf[r])
<1>1. PICK active, id : active = SigningKeyOf(r) /\ id = KidOf[r]
    OBVIOUS
<1>2. PICK public, private : public = Raw("public", id) /\ private = Raw("private", id)
    OBVIOUS
<1>3. active = [kid |-> id, privateKey |-> private, publicKey |-> public]
    BY <1>1, <1>2, RawRead
<1>4. PICK x, y : x = loadPrivateKey(a.privateKey) /\ y = loadPublicKey(a.publicKey)
    OBVIOUS
<1>5. x # None /\ y # None /\ x.meant /\ y.meant /\ x.pair = y.pair
    BY <1>4 DEF assertPair
<1>6. /\ loadPublicKey(public) \in {None, PairNamed(id)}
      /\ loadPrivateKey(private) \in {None, PairNamed(id)}
    BY <1>2, GeneratedLoaded
<1>7. CASE a.privateKey = private /\ a.publicKey = public
    BY <1>1, <1>4, <1>5, <1>6, <1>7
<1>8. CASE a = [active EXCEPT !.publicKey = Raw("public", "another")]
  <2>1. PICK another : another = Raw("public", "another")
      OBVIOUS
  <2>2. a.privateKey = private /\ a.publicKey = another
      BY <1>3, <1>8, <2>1
  <2>3. x = PairNamed(id) /\ y = PairNamed("another")
      BY <1>4, <1>5, <1>6, <2>1, <2>2, GeneratedLoaded
  <2>4. id = "another"
      BY <1>5, <2>3 DEF PairNamed
  <2> QED BY <1>1, <2>4, KidTexts
<1>9. CASE a = [active EXCEPT !.publicKey = active.privateKey]
  <2>1. a.publicKey = private
      BY <1>3, <1>9
  <2>2. private.half = "private" /\ private.bytes = RAW_KEY_BYTES /\ private.hex
      BY <1>2 DEF Raw
  <2>3. y = KeyOf(private, "public")
      BY <1>4, <1>5, <2>1, <2>2 DEF loadPublicKey
  <2>4. ~y.meant
      BY <2>2, <2>3 DEF KeyOf
  <2> QED BY <1>5, <2>4
<1>10. CASE a = [active EXCEPT !.privateKey = [active.privateKey EXCEPT !.bytes = PASETO_SECRET_BYTES]]
  <2>1. PICK long : long = [private EXCEPT !.bytes = PASETO_SECRET_BYTES]
      OBVIOUS
  <2>2. a.privateKey = long /\ a.publicKey = public
      BY <1>3, <1>10, <2>1
  <2>3. long.hex /\ long.bytes = PASETO_SECRET_BYTES /\ KeyOf(long, "private") = PairNamed(id)
      BY <1>2, <2>1 DEF Raw, KeyOf, PairNamed
  <2>4. x = PairNamed(id)
      BY <1>4, <1>5, <2>2, <2>3 DEF loadPrivateKey
  <2>5. y = PairNamed(id)
      BY <1>4, <1>5, <1>6, <2>2
  <2> QED BY <1>1, <1>4, <2>4, <2>5
<1>11. CASE a = active \/ a = [active EXCEPT !.kid = KidOf[1]] \/ a = [active EXCEPT !.kid = "not a kid"]
  <2>0. a = active \/ \E kid : a = [active EXCEPT !.kid = kid]
      BY <1>11, Zenon
  <2>1. a.privateKey = private /\ a.publicKey = public
      BY <1>3, <2>0
  <2> QED BY <1>7, <2>1
<1> QED
    BY <1>1, <1>8, <1>9, <1>10, <1>11 DEF SlippedKey

\* So is its key id.
LEMMA ActiveKid ==
    ASSUME NEW r \in DOMAIN KidOf, NEW a, SlippedKey(a, SigningKeyOf(r)), assertKid(a.kid),
           Unique(a, KeysOfRelease(r).previous)
    PROVE  a.kid = KidOf[r]
<1>1. PICK active, id, private, public :
         /\ active = SigningKeyOf(r) /\ id = KidOf[r]
         /\ public = Raw("public", id) /\ private = Raw("private", id)
    OBVIOUS
<1>2. active = [kid |-> id, privateKey |-> private, publicKey |-> public]
    BY <1>1, RawRead
<1>3. a.kid = id \/ a.kid = KidOf[1] \/ a.kid = "not a kid"
  <2>1. \/ a = active
        \/ (\E key : a = [active EXCEPT !.publicKey = key])
        \/ (\E key : a = [active EXCEPT !.privateKey = key])
        \/ (\E kid \in {KidOf[1], "not a kid"} : a = [active EXCEPT !.kid = kid])
      BY <1>1, Zenon DEF SlippedKey
  <2>2. ASSUME NEW key, a = [active EXCEPT !.publicKey = key] PROVE a.kid = id
      BY <1>2, <2>2
  <2>3. ASSUME NEW key, a = [active EXCEPT !.privateKey = key] PROVE a.kid = id
      BY <1>2, <2>3
  <2>4. ASSUME NEW kid, a = [active EXCEPT !.kid = kid] PROVE a.kid = kid
      BY <1>2, <2>4
  <2>5. a = active => a.kid = id
      BY <1>2
  <2> QED BY <2>1, <2>2, <2>3, <2>4, <2>5, Zenon
<1>4. a.kid # "not a kid"
    BY ReleasesAssumption DEF assertKid
<1>5. CASE r # 1 /\ a.kid = KidOf[1]
  <2>1. PICK previous : previous = KeysOfRelease(r).previous
      OBVIOUS
  <2>2. previous = [j \in 1 .. r - 1 |-> [kid |-> KidOf[j], publicKey |-> SigningKeyOf(j).publicKey]]
      BY <2>1 DEF KeysOfRelease
  <2>3. 1 \in 1 .. r - 1
      BY <1>5 DEF KidOf
  <2>4. 1 \in DOMAIN previous /\ previous[1].kid = KidOf[1]
      BY <2>2, <2>3
  <2>5. previous[1].kid # a.kid
      BY <2>1, <2>4 DEF Unique
  <2> QED BY <1>5, <2>4, <2>5
<1> QED
    BY <1>1, <1>3, <1>4, <1>5

\* The ring knows the public keys of the releases so far.
LEMMA RingKnows ==
    ASSUME NEW r \in DOMAIN KidOf, NEW a, a.kid = KidOf[r], loadPublicKey(a.publicKey) = PairNamed(KidOf[r]),
           NEW previous, previous = KeysOfRelease(r).previous,
           \A j \in DOMAIN previous : loadPublicKey(previous[j].publicKey) # None
    PROVE  PublicKeys(a, previous) = RingOf(r).publicKeys
<1>1. previous = [j \in 1 .. r - 1 |-> [kid |-> KidOf[j], publicKey |-> SigningKeyOf(j).publicKey]]
    BY DEF KeysOfRelease
<1>2. ASSUME NEW j \in 1 .. r - 1
      PROVE  previous[j].kid = KidOf[j] /\ loadPublicKey(previous[j].publicKey) = PairNamed(KidOf[j])
  <2>1. PICK public : public = SigningKeyOf(j).publicKey
      OBVIOUS
  <2>2. previous[j] = [kid |-> KidOf[j], publicKey |-> public] /\ j \in DOMAIN previous
      BY <1>1, <2>1
  <2>3. previous[j].kid = KidOf[j] /\ previous[j].publicKey = public
      BY <2>2
  <2>4. public = Raw("public", KidOf[j])
      BY <2>1, RawRead
  <2> QED BY <2>2, <2>3, <2>4, GeneratedLoaded
<1>3. DOMAIN previous = 1 .. r - 1 /\ r \in Nat \ {0} /\ r \in 1 .. r
    BY <1>1 DEF KidOf
<1>4. {KidOf[r]} \cup {previous[j].kid : j \in DOMAIN previous} = {KidOf[j] : j \in 1 .. r}
  <2>1. \A j \in DOMAIN previous : previous[j].kid = KidOf[j] /\ j \in 1 .. r
      BY <1>2, <1>3
  <2>2. \A j \in 1 .. r : j = r \/ (j \in DOMAIN previous /\ previous[j].kid = KidOf[j])
      BY <1>2, <1>3
  <2> QED BY <1>3, <2>1, <2>2
<1>5. ASSUME NEW kid \in {KidOf[j] : j \in 1 .. r}, kid # KidOf[r]
      PROVE  loadPublicKey(previous[CHOOSE j \in DOMAIN previous : previous[j].kid = kid].publicKey) = PairNamed(kid)
  <2>1. PICK k \in 1 .. r : kid = KidOf[k]
      OBVIOUS
  <2>2. k \in DOMAIN previous /\ previous[k].kid = kid
      BY <1>2, <1>3, <1>5, <2>1
  <2>3. PICK n : n = CHOOSE j \in DOMAIN previous : previous[j].kid = kid
      OBVIOUS
  <2>4. n \in DOMAIN previous /\ previous[n].kid = kid
      BY <2>2, <2>3
  <2>5. loadPublicKey(previous[n].publicKey) = PairNamed(kid)
      BY <1>2, <1>3, <2>4
  <2> QED BY <2>3, <2>5
<1>6. PICK S, ring : S = {KidOf[j] : j \in 1 .. r} /\ ring = [kid \in S |-> PairNamed(kid)]
    OBVIOUS
<1>7. PICK keys : keys = PublicKeys(a, previous)
    OBVIOUS
<1>8. keys = [kid \in S |-> IF kid = a.kid THEN loadPublicKey(a.publicKey)
                 ELSE loadPublicKey(previous[CHOOSE i \in DOMAIN previous : previous[i].kid = kid].publicKey)]
  <2>1. S = {a.kid} \cup {previous[i].kid : i \in DOMAIN previous}
      BY <1>4, <1>6
  <2> QED BY <1>7, <2>1, Zenon DEF PublicKeys
<1>9. keys = ring
  <2>1. ASSUME NEW kid \in S PROVE keys[kid] = PairNamed(kid)
    <3>1. CASE kid = KidOf[r]
        BY <1>8, <3>1
    <3>2. CASE kid # KidOf[r]
      <4>1. keys[kid] = loadPublicKey(previous[CHOOSE j \in DOMAIN previous : previous[j].kid = kid].publicKey)
          BY <1>8, <3>2
      <4> QED BY <1>5, <1>6, <3>2, <4>1
    <3> QED BY <3>1, <3>2
  <2>2. keys = [kid \in S |-> keys[kid]]
      BY <1>8
  <2> QED BY <1>6, <2>1, <2>2
<1>10. RingOf(r).publicKeys = ring
    BY <1>6 DEF RingOf
<1> QED
    BY <1>7, <1>9, <1>10

\* A ring that is made of the keys of a release is its ring, slip or no slip.
LEMMA RingMade ==
    ASSUME NEW r \in DOMAIN KidOf, NEW keys, SlippedKey(keys.active, SigningKeyOf(r)),
           keys.previous = KeysOfRelease(r).previous,
           NEW ring, ring = KeyRing(keys), ring # None
    PROVE  ring = RingOf(r)
<1>1. PICK a, previous : a = keys.active /\ previous = keys.previous
    OBVIOUS
<1>2. /\ assertKid(a.kid) /\ assertPair(loadPrivateKey(a.privateKey), loadPublicKey(a.publicKey))
      /\ \A j \in DOMAIN previous : loadPublicKey(previous[j].publicKey) # None
      /\ Unique(a, previous)
      /\ ring = [signingKid |-> a.kid, privateKey |-> loadPrivateKey(a.privateKey),
                 publicKeys |-> PublicKeys(a, previous)]
    BY <1>1, Zenon DEF KeyRing
<1>3. /\ loadPrivateKey(a.privateKey) = PairNamed(KidOf[r])
      /\ loadPublicKey(a.publicKey) = PairNamed(KidOf[r])
    BY <1>1, <1>2, ActiveLoaded
<1>4. a.kid = KidOf[r]
    BY <1>1, <1>2, ActiveKid
<1>5. PublicKeys(a, previous) = RingOf(r).publicKeys
    BY <1>1, <1>2, <1>3, <1>4, RingKnows
<1>6. RingOf(r) = [signingKid |-> KidOf[r], privateKey |-> PairNamed(KidOf[r]),
                   publicKeys |-> RingOf(r).publicKeys]
    BY DEF RingOf
<1> QED
    BY <1>2, <1>3, <1>4, <1>5, <1>6, Zenon

-----------------------------------------------------------------------------
(***************************************************************************)
(* What comes up for a release.                                            *)
(***************************************************************************)
\* What no slip changes of a release's configuration, or not unnoticed.
OfRelease(c, r) ==
    /\ {"strategy", "issuer", "audience", "keys"} \subseteq DOMAIN c
    /\ c.strategy = "paseto" /\ c.issuer = "issuer" /\ c.audience \in {"audience", ""}
    /\ SlippedKey(c.keys.active, SigningKeyOf(r)) /\ c.keys.previous = KeysOfRelease(r).previous

\* Whatever slips into a configuration, it is for this release.
LEMMA SlipsAreOfRelease ==
    ASSUME site.strategy = "paseto", NEW r, NEW c \in Slips(ConfigOf(site, r))
    PROVE  OfRelease(c, r)
<1>1. PICK base, keys, active : /\ base = ConfigOf(site, r) /\ keys = KeysOfRelease(r)
                                /\ active = SigningKeyOf(r)
    OBVIOUS
<1>2. PICK previous : previous = keys.previous
    OBVIOUS
<1>3. keys = [active |-> active, previous |-> previous]
    BY <1>1, <1>2 DEF KeysOfRelease
<1>4. PICK store, mode, age, binding :
         /\ store = REQUIRED_STORE_METHODS /\ mode = site.onStoreError
         /\ age = IF site.binding = "dpop" THEN MaxAge ELSE None
         /\ binding = site.binding
    OBVIOUS
<1>5. base = [store |-> store, strategy |-> "paseto", binding |-> binding,
              issuer |-> "issuer", audience |-> "audience", keys |-> keys,
              accessTokenTtl |-> Ttl, refreshTokenTtl |-> None, refreshGraceSeconds |-> None,
              clockToleranceSeconds |-> Tolerance, onStoreError |-> mode,
              dpopProofMaxAgeSeconds |-> age, audit |-> None]
    BY <1>1, <1>4, Zenon DEF ConfigOf, KeysOfRelease
<1>6. OfRelease(base, r)
  <2>1. SlippedKey(active, active) /\ keys.active = active
      BY <1>3, Zenon DEF SlippedKey
  <2> QED BY <1>1, <1>2, <1>5, <2>1 DEF OfRelease
<1>7. ASSUME NEW a, SlippedKey(a, active), c = [base EXCEPT !.keys = [keys EXCEPT !.active = a]]
      PROVE  OfRelease(c, r)
  <2>1. PICK k : k = [keys EXCEPT !.active = a]
      OBVIOUS
  <2>2. k.active = a /\ k.previous = previous
      BY <1>3, <2>1
  <2>3. /\ {"strategy", "issuer", "audience", "keys"} \subseteq DOMAIN c
        /\ c.strategy = "paseto" /\ c.issuer = "issuer" /\ c.audience = "audience" /\ c.keys = k
      BY <1>5, <1>7, <2>1
  <2> QED BY <1>1, <1>2, <1>7, <2>2, <2>3 DEF OfRelease
<1>8. ASSUME NEW text \in {"audience", ""}, c = [base EXCEPT !.audience = text]
      PROVE  OfRelease(c, r)
    BY <1>1, <1>2, <1>3, <1>5, <1>6, <1>8 DEF OfRelease
<1>9. ASSUME c = [base EXCEPT !.clockToleranceSeconds = Ttl + 1] PROVE OfRelease(c, r)
    BY <1>1, <1>2, <1>3, <1>5, <1>6, <1>9 DEF OfRelease
<1>10. ASSUME NEW k, c = [base EXCEPT !.onStoreError = k] PROVE OfRelease(c, r)
    BY <1>1, <1>2, <1>3, <1>5, <1>6, <1>10 DEF OfRelease
<1>11. ASSUME NEW k, c = [base EXCEPT !.store = k] PROVE OfRelease(c, r)
    BY <1>1, <1>2, <1>3, <1>5, <1>6, <1>11 DEF OfRelease
<1>12. base.keys = keys /\ keys.active = active /\ KidOf[1] = KidOf[1]
    BY <1>3, <1>5
<1>13. \/ c = base
       \/ (\E text \in {"audience", ""} : c = [base EXCEPT !.audience = text])
       \/ c = [base EXCEPT !.clockToleranceSeconds = Ttl + 1]
       \/ (\E other : c = [base EXCEPT !.onStoreError = other])
       \/ (\E methods : c = [base EXCEPT !.store = methods])
       \/ (\E a : SlippedKey(a, active) /\ c = [base EXCEPT !.keys = [keys EXCEPT !.active = a]])
  <2>1. \/ c = base
        \/ c = [base EXCEPT !.audience = IF base.audience = None THEN "audience" ELSE ""]
        \/ c = [base EXCEPT !.clockToleranceSeconds = Ttl + 1]
        \/ (\E other : c = [base EXCEPT !.onStoreError = other])
        \/ (\E methods : c = [base EXCEPT !.store = methods])
        \/ (\E a : SlippedKey(a, active) /\ c = [base EXCEPT !.keys = [base.keys EXCEPT !.active = a]])
      BY <1>1, <1>12, Zenon DEF Slips, SlippedKey
  <2> QED BY <1>12, <2>1, Zenon
<1> QED
    BY <1>6, <1>7, <1>8, <1>9, <1>10, <1>11, <1>13

\* An engine of a release: its ring is the one of the release.
ReleasedEngine(e, r) == e.issuer = "issuer" /\ e.audience = "audience" /\ e.ring = RingOf(r)

\* What comes up with a configuration of a release runs the release.
LEMMA ReleaseComesUp ==
    ASSUME NEW r \in DOMAIN KidOf, NEW c, OfRelease(c, r), NEW p, p = Ninsho(c), p # None
    PROVE  ReleasedEngine(p.engine, r)
<1>1. PICK d : d = WithDefaults(c)
    OBVIOUS
<1>2. ASSUME NEW f \in DOMAIN c, c[f] # None \/ f \notin DOMAIN DEFAULTS PROVE d[f] = c[f]
    BY <1>1, <1>2 DEF WithDefaults
<1>3. d.issuer = "issuer" /\ d.audience \in {"audience", ""} /\ d.keys = c.keys
  <2>1. "issuer" \notin DOMAIN DEFAULTS /\ "audience" \notin DOMAIN DEFAULTS /\ "keys" \notin DOMAIN DEFAULTS
      BY DEF DEFAULTS
  <2> QED BY <1>2, <2>1 DEF OfRelease
<1>4. d.strategy = "paseto"
  <2>1. c.strategy # None
      BY NoneAssumption DEF OfRelease, Texts
  <2> QED BY <1>2, <2>1 DEF OfRelease
<1>5. p = WithConfig(Resolved(d, c))
    BY <1>1 DEF Ninsho, resolveConfig
<1>6. Resolved(d, c) # None
    BY <1>5 DEF WithConfig
<1>7. Resolved(d, c) = d /\ StrategyIsWhole(d)
    BY <1>6 DEF Resolved
<1>8. d.audience = "audience"
    BY <1>3, <1>4, <1>7 DEF StrategyIsWhole, requireNonEmptyString
<1>9. PICK ring : ring = KeyRing(d.keys)
    OBVIOUS
<1>10. p = Instance(d, ring)
    BY <1>4, <1>5, <1>6, <1>7, <1>9 DEF WithConfig
<1>11. ring # None
    BY <1>4, <1>10 DEF Instance
<1>12. ring = RingOf(r)
    BY <1>3, <1>9, <1>11, RingMade DEF OfRelease
<1>13. PICK engine : engine = Engine(d, ring)
    OBVIOUS
<1>14. p.engine = engine
    BY <1>10, <1>11, <1>13 DEF Instance
<1>15. engine.issuer = d.issuer /\ engine.audience = d.audience /\ engine.ring = ring
    BY <1>13 DEF Engine
<1> QED
    BY <1>3, <1>8, <1>12, <1>14, <1>15 DEF ReleasedEngine

-----------------------------------------------------------------------------
(***************************************************************************)
(* Tokens that were issued are taken.                                      *)
(***************************************************************************)
InputOK(input) ==
    /\ input.principal \in {Page, Program} /\ input.sessionId \in {"page", "program"}
    /\ input.authenticatedAt \in Int /\ input.confirmationKey \in {None} \cup Thumbprints

PayloadOf(engine, input, then) ==
    [jti |-> "jti", sub |-> input.principal.userId, iss |-> engine.issuer,
     aud |-> engine.audience, iat |-> then, nbf |-> then,
     auth_time |-> input.authenticatedAt, exp |-> then + engine.accessTokenTtl,
     sid |-> input.sessionId, roles |-> input.principal.roles,
     scopes |-> input.principal.scopes, tenant |-> input.principal.tenant,
     cnf |-> input.confirmationKey]
FooterOf(engine) == [kid |-> engine.ring.signingKid]
BodyOf(engine, payload) ==
    [message |-> payload, by |-> engine.ring.privateKey,
     over |-> pae(<<V4_PUBLIC_HEADER, payload, FooterOf(engine)>>)]

\* A signed token is a body and a footer.
LEMMA SignedForm ==
    ASSUME NEW e, e.ring.signingKid \in Kids, NEW input, NEW then,
           NEW body, body = BodyOf(e, PayloadOf(e, input, then)), NEW footer, footer = FooterOf(e)
    PROVE  IssuePaseto(e, input, then) =
              [header |-> V4_PUBLIC_HEADER, parts |-> <<b64uEncode(body), b64uEncode(footer)>>]
<1>1. PICK payload, key : payload = PayloadOf(e, input, then) /\ key = e.ring.privateKey
    OBVIOUS
<1>2. footer # None
    BY NoneAssumption DEF Footers, FooterOf
<1>3. IssuePaseto(e, input, then) = signV4Public(payload, key, footer)
    BY <1>1 DEF IssuePaseto, PayloadOf, FooterOf
<1>4. body = [message |-> payload, by |-> key, over |-> pae(<<V4_PUBLIC_HEADER, payload, footer>>)]
    BY <1>1 DEF BodyOf
<1> QED
    BY <1>2, <1>3, <1>4, SignedParts

\* What a release's engine signs.
LEMMA SignedTyped ==
    ASSUME NEW e, e.ring.signingKid \in Kids, e.accessTokenTtl = Ttl,
           NEW q \in DOMAIN KidOf, ReleasedEngine(e, q),
           NEW input, InputOK(input), NEW then \in Int
    PROVE  /\ PayloadOf(e, input, then) \in Payloads
           /\ BodyOf(e, PayloadOf(e, input, then)) \in Bodies
           /\ FooterOf(e) \in Footers
<1>1. PICK p : p = input.principal
    OBVIOUS
<1>2. /\ p.userId \in {"page", "program"} /\ p.roles \in SUBSET {"user", "editor"}
      /\ p.scopes \in SUBSET {"read", "write"} /\ p.tenant \in {None, "one"}
  <2>1. p = Page \/ p = Program
      BY <1>1 DEF InputOK
  <2> QED BY <2>1 DEF Page, Program
<1>3. PICK exp : exp = then + Ttl
    OBVIOUS
<1>4. exp \in Int
    BY <1>3, ServiceAssumption
<1>5. PICK at, sid, cnf : at = input.authenticatedAt /\ sid = input.sessionId /\ cnf = input.confirmationKey
    OBVIOUS
<1>6. at \in Int /\ sid \in {"page", "program"} /\ cnf \in {None} \cup Thumbprints
    BY <1>5 DEF InputOK
<1>7. PICK payload : payload = PayloadOf(e, input, then)
    OBVIOUS
<1>8. payload = [jti |-> "jti", sub |-> p.userId, iss |-> "issuer", aud |-> "audience",
                 iat |-> then, nbf |-> then, auth_time |-> at, exp |-> exp, sid |-> sid,
                 roles |-> p.roles, scopes |-> p.scopes, tenant |-> p.tenant, cnf |-> cnf]
    BY <1>1, <1>3, <1>5, <1>7, Zenon DEF PayloadOf, ReleasedEngine
<1>9. payload \in Payloads
    BY <1>2, <1>4, <1>6, <1>8 DEF Payloads
<1>10. PICK footer : footer = FooterOf(e)
    OBVIOUS
<1>11. footer \in Footers
    BY <1>10 DEF FooterOf, Footers
<1>12. e.ring.privateKey \in RingKeys
  <2>1. e.ring.privateKey = PairNamed(KidOf[q])
      BY DEF ReleasedEngine, RingOf
  <2> QED BY <2>1 DEF PairNamed, RingKeys
<1>13. pae(<<V4_PUBLIC_HEADER, payload, footer>>) \in {3} \X ({V4_PUBLIC_HEADER} \X Payloads \X Footers)
  <2>1. PICK pieces : pieces = <<V4_PUBLIC_HEADER, payload, footer>>
      OBVIOUS
  <2>2. Len(pieces) = 3
      BY <2>1
  <2>3. pieces \in {V4_PUBLIC_HEADER} \X Payloads \X Footers
      BY <1>9, <1>11, <2>1
  <2> QED BY <2>1, <2>2, <2>3 DEF pae
<1>14. PICK by, over : by = e.ring.privateKey /\ over = pae(<<V4_PUBLIC_HEADER, payload, footer>>)
    OBVIOUS
<1>15. BodyOf(e, payload) = [message |-> payload, by |-> by, over |-> over]
    BY <1>10, <1>14 DEF BodyOf
<1>16. BodyOf(e, payload) \in Bodies
    BY <1>9, <1>12, <1>13, <1>14, <1>15 DEF Bodies
<1> QED
    BY <1>7, <1>9, <1>10, <1>11, <1>16

\* The release of a key id is the one whose key it is.
LEMMA ReleaseOfKid ==
    ASSUME NEW r \in DOMAIN KidOf
    PROVE  ReleaseOf(KidOf[r]) = r
<1>1. PICK n : n = ReleaseOf(KidOf[r])
    OBVIOUS
<1>2. n \in DOMAIN KidOf /\ KidOf[n] = KidOf[r]
    BY <1>1 DEF ReleaseOf
<1> QED
    BY <1>1, <1>2, KidsDiffer

\* A ring finds the keys of the releases so far.
LEMMA Resolving ==
    ASSUME NEW r \in DOMAIN KidOf, NEW q \in 1 .. r
    PROVE  resolve(RingOf(r), KidOf[q]) = PairNamed(KidOf[q])
<1>1. PICK S, keys : /\ S = {KidOf[j] : j \in 1 .. r} /\ keys = [kid \in S |-> PairNamed(kid)]
    OBVIOUS
<1>2. RingOf(r).publicKeys = keys
    BY <1>1 DEF RingOf
<1>3. KidOf[q] \in S /\ DOMAIN keys = S /\ keys[KidOf[q]] = PairNamed(KidOf[q])
    BY <1>1
<1> QED
    BY <1>2, <1>3 DEF resolve

\* Claims in their time are taken.
LEMMA ClaimsTaken ==
    ASSUME NEW e, NEW engine, e.accessTokenTtl = Ttl, engine.clockToleranceSeconds = Tolerance,
           engine.issuer = e.issuer, engine.audience = e.audience,
           NEW input, NEW then \in Int, NEW now \in Int,
           then - Tolerance <= now, now <= then + Ttl + Tolerance,
           NEW jkt, assertConfirmationKey(input.confirmationKey, jkt),
           NEW claims, claims = PayloadOf(e, input, then), claims # None
    PROVE  CheckClaims(engine, claims, jkt, now).error = None
<1>1. /\ claims.iss = engine.issuer /\ claims.aud = engine.audience /\ claims.nbf = then /\ claims.iat = then
      /\ claims.exp = then + Ttl /\ claims.cnf = input.confirmationKey
    BY DEF PayloadOf
<1>2. Ttl \in Int /\ Tolerance \in Int
    BY ServiceAssumption
<1>3. ~isNotYetValid(then, Tolerance, now) /\ ~isExpired(then + Ttl, Tolerance, now)
    BY <1>2 DEF isNotYetValid, isExpired
<1>4. PICK auth : auth = ClaimedBy(claims)
    OBVIOUS
<1>5. CheckClaims(engine, claims, jkt, now) = [error |-> None, auth |-> auth]
    BY <1>1, <1>3, <1>4, Zenon DEF CheckClaims, ClaimedBy
<1> QED
    BY <1>5

\* A signed token is taken by every release that is not older.
LEMMA SignedTaken ==
    ASSUME NEW e, e.ring.signingKid \in Kids, e.accessTokenTtl = Ttl,
           NEW r \in DOMAIN KidOf, NEW q \in 1 .. r, ReleasedEngine(e, q),
           NEW engine, ReleasedEngine(engine, r), engine.clockToleranceSeconds = Tolerance,
           NEW input, InputOK(input), NEW then \in Int, NEW now \in Int,
           then - Tolerance <= now, now <= then + Ttl + Tolerance,
           NEW jkt, assertConfirmationKey(input.confirmationKey, jkt),
           NEW t, t = IssuePaseto(e, input, then)
    PROVE  t \in Tokens /\ VerifyPaseto(engine, t, jkt, now).error = None
<1>1. PICK payload : payload = PayloadOf(e, input, then)
    OBVIOUS
<1>2. PICK body, footer : body = BodyOf(e, payload) /\ footer = FooterOf(e)
    OBVIOUS
<1>3. q \in DOMAIN KidOf
    BY DEF KidOf
<1>4. payload \in Payloads /\ body \in Bodies /\ footer \in Footers
    BY <1>1, <1>2, <1>3, SignedTyped
<1>5. payload # None /\ body # None /\ footer # None
    BY <1>4, NoneAssumption
<1>6. PICK one, two : one = b64uEncode(body) /\ two = b64uEncode(footer)
    OBVIOUS
<1>7. t = [header |-> V4_PUBLIC_HEADER, parts |-> <<one, two>>]
    BY <1>1, <1>2, <1>6, SignedForm
<1>8. one \in Segments(Bodies) /\ two \in Segments(Footers)
    BY <1>4, <1>6 DEF b64uEncode, Segments
<1>9. t \in Tokens
    BY <1>7, <1>8 DEF Tokens
<1>10. b64uDecode(one) = body /\ b64uDecode(two) = footer
    BY <1>6 DEF b64uEncode, b64uDecode
<1>11. t.header = V4_PUBLIC_HEADER /\ t.parts = <<one, two>>
    BY <1>7
<1>12. Len(t.parts) = 2 /\ t.parts[1] = one /\ t.parts[2] = two
    BY <1>11
<1>13. readFooterUnverified(t) = footer
    BY <1>10, <1>11, <1>12 DEF readFooterUnverified
<1>14. readKid(footer) = KidOf[q] /\ KidOf[q] # None
  <2>1. footer.kid = KidOf[q] /\ e.ring.signingKid = KidOf[q]
      BY <1>2 DEF FooterOf, ReleasedEngine, RingOf
  <2>2. KidOf[q] # None
      BY <2>1, NoneAssumption
  <2> QED BY <1>5, <2>1, <2>2 DEF readKid
<1>15. PICK key : key = PairNamed(KidOf[q])
    OBVIOUS
<1>16. resolve(engine.ring, KidOf[q]) = key
    BY <1>15, Resolving DEF ReleasedEngine
<1>17. key # None
  <2>1. key \in RingKeys
      BY <1>3, <1>15 DEF RingKeys, PairNamed
  <2> QED BY <2>1, NoneAssumption
<1>18. body.by = key /\ body.message = payload /\ body.over = pae(<<V4_PUBLIC_HEADER, payload, footer>>)
    BY <1>2, <1>15 DEF BodyOf, ReleasedEngine, RingOf
<1>19. Opened(body, footer, key) = payload
    BY <1>5, <1>18 DEF Opened
<1>20. verifyV4Public(t, key) = payload
    BY <1>5, <1>10, <1>11, <1>12, <1>19 DEF verifyV4Public
<1>21. parseClaims(payload) = payload
  <2>1. CLAIMS \subseteq DOMAIN payload
      BY <1>1 DEF PayloadOf, CLAIMS
  <2> QED BY <1>5, <2>1 DEF parseClaims
<1>22. VerifyPaseto(engine, t, jkt, now) = CheckClaims(engine, payload, jkt, now)
    BY <1>13, <1>14, <1>16, <1>17, <1>20, <1>21, Zenon DEF VerifyPaseto, VerifyWith
<1>23. engine.issuer = e.issuer /\ engine.audience = e.audience
    BY DEF ReleasedEngine
<1>24. CheckClaims(engine, payload, jkt, now).error = None
    BY <1>1, <1>5, <1>23, ClaimsTaken
<1> QED
    BY <1>9, <1>22, <1>24

\* An opaque token is taken while its record is kept.
LEMMA OpaqueTaken ==
    ASSUME NEW e, e.accessTokenTtl = Ttl, NEW engine, engine.clockToleranceSeconds = Tolerance,
           NEW input, InputOK(input), NEW then \in Int, NEW now \in Int, NEW before \in Int, NEW time \in Int,
           now <= then + Ttl + Tolerance, time < before + Ttl,
           NEW jkt, assertConfirmationKey(input.confirmationKey, jkt),
           NEW t, t = IssueOpaque(e, input, then, before)
    PROVE  t \in Tokens /\ VerifyOpaque(engine, t, jkt, now, time).error = None
<1>1. PICK until, expires : until = before + Ttl /\ expires = then + Ttl
    OBVIOUS
<1>2. until \in Int /\ expires \in Int /\ Ttl \in Int /\ Tolerance \in Int
    BY <1>1, ServiceAssumption
<1>3. PICK p, at, sid, cnf : /\ p = input.principal /\ at = input.authenticatedAt
                             /\ sid = input.sessionId /\ cnf = input.confirmationKey
    OBVIOUS
<1>4. /\ p \in {Page, Program} /\ at \in Int /\ sid \in {"page", "program"}
      /\ cnf \in {None} \cup Thumbprints
    BY <1>3 DEF InputOK
<1>5. PICK record : record = [sessionId |-> sid, principal |-> p, issuedAt |-> then, authenticatedAt |-> at,
                              expiresAt |-> expires, confirmationKey |-> cnf]
    OBVIOUS
<1>6. t = [header |-> "opaque", record |-> record, until |-> until]
    BY <1>1, <1>3, <1>5 DEF IssueOpaque
<1>7. record \in Records
    BY <1>2, <1>4, <1>5 DEF Records
<1>8. record # None
    BY <1>7, NoneAssumption
<1>9. t \in Tokens
    BY <1>2, <1>6, <1>7 DEF Tokens
<1>10. t.header = "opaque" /\ t.record = record /\ t.until = until
    BY <1>6
<1>11. record.expiresAt = expires /\ record.confirmationKey = cnf
    BY <1>5
<1>12. ~(time >= until) /\ ~isExpired(expires, Tolerance, now)
    BY <1>1, <1>2 DEF isExpired
<1>13. assertConfirmationKey(cnf, jkt)
    BY <1>3
<1>14. \E auth : VerifyOpaque(engine, t, jkt, now, time) = [error |-> None, auth |-> auth]
    BY <1>8, <1>10, <1>11, <1>12, <1>13, Zenon DEF VerifyOpaque
<1> QED
    BY <1>9, <1>14

Served(e) == site.strategy = "paseto" => \E r \in 1 .. release : ReleasedEngine(e, r)
NotOlder(engine, e) ==
    site.strategy = "paseto" =>
        \E r \in DOMAIN KidOf : \E q \in 1 .. r : ReleasedEngine(engine, r) /\ ReleasedEngine(e, q)

\* Whatever the strategy, an issued token is taken in its time.
LEMMA IssuedTaken ==
    ASSUME site \in Sites, NEW e, EngineOK(e), NEW engine, EngineOK(engine),
           engine.clockToleranceSeconds = Tolerance, NotOlder(engine, e),
           NEW input, InputOK(input), NEW then \in Int, NEW now \in Int, NEW before \in Int, NEW time \in Int,
           then - Tolerance <= now, now <= then + Ttl + Tolerance, time < before + Ttl,
           NEW jkt, assertConfirmationKey(input.confirmationKey, jkt),
           NEW t, t = issue(e, input, then, before)
    PROVE  t \in Tokens /\ verify(engine, t, jkt, now, time).error = None
<1>1. e.strategy = site.strategy /\ engine.strategy = site.strategy /\ e.accessTokenTtl = Ttl
    BY DEF EngineOK
<1>2. CASE site.strategy = "paseto"
  <2>1. t = IssuePaseto(e, input, then)
        /\ verify(engine, t, jkt, now, time) = VerifyPaseto(engine, t, jkt, now)
      BY <1>1, <1>2 DEF issue, verify
  <2>2. PICK r \in DOMAIN KidOf : \E q \in 1 .. r : ReleasedEngine(engine, r) /\ ReleasedEngine(e, q)
      BY <1>2 DEF NotOlder
  <2>3. PICK q \in 1 .. r : ReleasedEngine(engine, r) /\ ReleasedEngine(e, q)
      BY <2>2
  <2>4. e.ring.signingKid \in Kids
      BY <1>1, <1>2 DEF EngineOK
  <2> QED BY <1>1, <2>1, <2>2, <2>3, <2>4, SignedTaken
<1>3. CASE site.strategy # "paseto"
  <2>1. t = IssueOpaque(e, input, then, before)
        /\ verify(engine, t, jkt, now, time) = VerifyOpaque(engine, t, jkt, now, time)
      BY <1>1, <1>3 DEF issue, verify
  <2> QED BY <1>1, <2>1, OpaqueTaken
<1> QED
    BY <1>2, <1>3

-----------------------------------------------------------------------------
(***************************************************************************)
(* Proofs that were made are taken.                                        *)
(***************************************************************************)
\* The key of a JWK in a proof's header, under this algorithm, and whose it is.
Reads(jwk, alg, id, jkt) ==
    /\ jwk \in Jwks /\ alg \in ALLOWED_DPOP_ALGORITHMS /\ id \in Tabs \cup {"program"}
    /\ parseJwk(jwk) # None /\ algorithmForJwk(parseJwk(jwk)) = alg
    /\ importPublicKey(parseJwk(jwk)) = id /\ jwkThumbprint(parseJwk(jwk)) = jkt

\* The key of a tab is one, and so is the program's.
LEMMA TabKeyReads ==
    ASSUME NEW u \in Tabs
    PROVE  Reads(PublicJwk(KeyOfTab(u)), "ES256", u, ThumbprintOf(u))
<1>1. PublicJwk(KeyOfTab(u)) = Jwk("EC", "P-256", u)
    BY DEF PublicJwk, KeyOfTab
<1>2. PICK point, key : point = Coordinate(u) /\ key = Jwk("EC", "P-256", u)
    OBVIOUS
<1>3. point \in Points /\ key \in Jwks
    BY <1>2 DEF Points, Jwks
<1>4. /\ key.kty = "EC" /\ key.crv = "P-256" /\ key.x = point /\ key.y = point
      /\ key.private = {} /\ key.use = None /\ key.key_ops = None
    BY <1>2 DEF Jwk
<1>5. key # None /\ point # None
    BY <1>3, NoneAssumption
<1>6. PICK m : m = [kty |-> "EC", crv |-> "P-256", x |-> point, y |-> point]
    OBVIOUS
<1>7. parseJwk(key) = m
    BY <1>4, <1>5, <1>6 DEF parseJwk
<1>8. m \in Members
    BY <1>3, <1>6 DEF Members
<1>9. m.kty = "EC" /\ m.crv = "P-256" /\ m.x = point /\ m.y = point
    BY <1>6
<1>10. point.of = u /\ point.bytes = KEY_BYTES
    BY <1>2 DEF Coordinate
<1>11. importPublicKey(m) = u /\ algorithmForJwk(m) = "ES256"
    BY <1>9, <1>10 DEF importPublicKey, algorithmForJwk
<1>12. jwkThumbprint(m) = <<"P-256", "EC", point, point>> /\ jwkThumbprint(key) = <<"P-256", "EC", point, point>>
    BY <1>4, <1>9 DEF jwkThumbprint
<1>13. ThumbprintOf(u) = jwkThumbprint(key)
    BY <1>2 DEF ThumbprintOf
<1>14. m # None
    BY <1>8, NoneAssumption
<1> QED
    BY <1>1, <1>2, <1>3, <1>7, <1>11, <1>12, <1>13, <1>14 DEF Reads, ALLOWED_DPOP_ALGORITHMS

\* The program's key is read as the key it is.
LEMMA ProgramKeyReads ==
    Reads(PublicJwk(Pair.key), "EdDSA", "program", jwkThumbprint(parseJwk(PublicJwk(Pair.key))))
<1>1. PICK key, point : key = PublicJwk(Pair.key) /\ point = Coordinate("program")
    OBVIOUS
<1>2. Pair.key.id = "program" /\ Pair.key.crv = "Ed25519"
    BY DEF Pair, generateDpopKeyPair
<1>3. /\ key.kty = "OKP" /\ key.crv = "Ed25519" /\ key.x = point
      /\ key.private = {} /\ key.use = None /\ key.key_ops = None
    BY <1>1, <1>2 DEF PublicJwk, Jwk
<1>4. point \in Points /\ key \in Jwks
    BY <1>1 DEF Points, Jwks
<1>5. key # None /\ point # None
    BY <1>4, NoneAssumption
<1>6. PICK m : m = [kty |-> "OKP", crv |-> "Ed25519", x |-> point, y |-> None]
    OBVIOUS
<1>7. parseJwk(key) = m
    BY <1>3, <1>5, <1>6 DEF parseJwk
<1>8. m \in Members
    BY <1>4, <1>6 DEF Members
<1>9. m # None
    BY <1>8, NoneAssumption
<1>10. point.of = "program" /\ point.bytes = KEY_BYTES
    BY <1>1 DEF Coordinate
<1>11. m.kty = "OKP" /\ m.x = point
    BY <1>6
<1>12. importPublicKey(m) = "program" /\ algorithmForJwk(m) = "EdDSA"
    BY <1>10, <1>11 DEF importPublicKey, algorithmForJwk
<1> QED
    BY <1>1, <1>4, <1>7, <1>9, <1>12 DEF Reads, ALLOWED_DPOP_ALGORITHMS

Names(jwk, alg, key, jkt) == Reads(jwk, alg, key.id, jkt)
ByKey(key, alg, jwk, claims) == Jws(key, [typ |-> "dpop+jwt", alg |-> alg, jwk |-> jwk], claims)

\* A proof by such a key, with claims that match, shows its thumbprint.
LEMMA MadeTaken ==
    ASSUME NEW jwk, NEW alg, NEW jkt, NEW key, Names(jwk, alg, key, jkt),
           NEW claims \in ProofClaims, NEW options, ClaimsMatch(claims, options),
           NEW proof, proof = ByKey(key, alg, jwk, claims)
    PROVE  proof \in Proofs /\ verifyDpopProof(proof, options) = jkt
<1>1. PICK header, id : header = [typ |-> "dpop+jwt", alg |-> alg, jwk |-> jwk] /\ id = key.id
    OBVIOUS
<1>2. header \in Headers
    BY <1>1 DEF Names, Reads, Headers
<1>3. header # None /\ header.typ = "dpop+jwt" /\ header.alg = alg /\ header.jwk = jwk
    BY <1>1, <1>2, NoneAssumption
<1>4. PICK one, two : one = Segment(header) /\ two = Segment(claims)
    OBVIOUS
<1>5. one \in Segments(Headers) /\ two \in Segments(ProofClaims)
    BY <1>2, <1>4 DEF Segment, Segments
<1>6. PICK over : over = <<one, two>>
    OBVIOUS
<1>7. over \in Segments(Headers) \X Segments(ProofClaims)
    BY <1>5, <1>6
<1>8. PICK signature : signature = [by |-> id, over |-> over]
    OBVIOUS
<1>9. signature \in Signatures
    BY <1>1, <1>7, <1>8 DEF Signatures, Names, Reads
<1>10. PICK three : three = Segment(signature)
    OBVIOUS
<1>11. three \in Segments(Signatures)
    BY <1>9, <1>10 DEF Segment, Segments
<1>12. proof = <<one, two, three>>
    BY <1>1, <1>4, <1>6, <1>8, <1>10 DEF ByKey, Jws
<1>13. proof \in Proofs
    BY <1>5, <1>11, <1>12 DEF Proofs
<1>14. Len(proof) = 3 /\ proof[1] = one /\ proof[2] = two /\ proof[3] = three
    BY <1>12
<1>15. decodeCanonical(one) = header /\ decodeCanonical(two) = claims /\ decodeCanonical(three) = signature
    BY <1>4, <1>10 DEF decodeCanonical, Segment
<1>16. PICK m : m = parseJwk(jwk)
    OBVIOUS
<1>17. m # None /\ algorithmForJwk(m) = alg /\ importPublicKey(m) = id /\ jwkThumbprint(m) = jkt
       /\ alg \in ALLOWED_DPOP_ALGORITHMS /\ id # None
    BY <1>1, <1>16, NoneAssumption DEF Names, Reads, Texts
<1>18. ProofKey(header) = m
    BY <1>3, <1>16, <1>17 DEF ProofKey, KeyUnder
<1>19. SubSeq(proof, 1, 2) = over
  <2>1. PICK S, part : S = {one, two} /\ part = SubSeq(proof, 1, 2)
      OBVIOUS
  <2>2. \A k \in 1 .. 2 : proof[k] \in S
      BY <1>14, <2>1
  <2>3. /\ part \in Seq(S) /\ Len(part) = IF 1 <= 2 THEN 2 - 1 + 1 ELSE 0
        /\ \A k \in 1 .. 2 - 1 + 1 : part[k] = proof[1 + k - 1]
      BY <2>1, <2>2, SubSeqProperties
  <2>4. Len(part) = 2 /\ part[1] = one /\ part[2] = two
      BY <1>14, <2>3
  <2>5. over \in Seq(S) /\ Len(over) = 2 /\ over[1] = one /\ over[2] = two
      BY <1>6, <2>1
  <2>6. \A k \in 1 .. Len(part) : part[k] = over[k]
      BY <2>4, <2>5
  <2> QED BY <2>1, <2>3, <2>4, <2>5, <2>6, SeqEqual
<1>20. signature # None /\ signature.by = id /\ signature.over = over
    BY <1>8, <1>9, NoneAssumption
<1>21. SignedBy(proof, m, signature)
    BY <1>17, <1>19, <1>20 DEF SignedBy
<1>22. Verified(proof, m, options) = jkt
    BY <1>14, <1>15, <1>17, <1>21 DEF Verified
<1> QED
    BY <1>13, <1>14, <1>15, <1>18, <1>22 DEF verifyDpopProof

Paths == {r.path : r \in Routes} \cup {"login", "refresh"}

\* A place of the service, however it is written, is compared as one.
LEMMA PlaceCompared ==
    ASSUME NEW scheme \in {"http", "https"}, NEW port \in {None, ImpliedPort[scheme]},
           NEW path \in Paths, NEW query \in {None, "q"},
           NEW n, n = normaliseHtu(Place(scheme, "api", port, path, query))
    PROVE  n = Place(scheme, "api", None, path, None) /\ n # None
<1>1. PICK p : p = IF port = ImpliedPort[scheme] THEN None ELSE port
    OBVIOUS
<1>2. p = None
    BY <1>1
<1>3. PICK u : u = Place(scheme, "api", None, path, query)
    OBVIOUS
<1>4. parseUrl(Place(scheme, "api", port, path, query)) = u
    BY <1>1, <1>2, <1>3, ParsedPlace
<1>5. \A q \in {None, "q"} : Place(scheme, "api", None, path, q) # None
  <2>1. \A q \in {None, "q"} : Place(scheme, "api", None, path, q) \in Places
      BY DEF Place, Places, Paths
  <2> QED BY <2>1, NoneAssumption
<1>6. u # None
    BY <1>3, <1>5
<1>7. n = [u EXCEPT !.query = None]
    BY <1>4, <1>6 DEF normaliseHtu
<1>8. [u EXCEPT !.query = None] = Place(scheme, "api", None, path, None)
    BY <1>3 DEF Place
<1> QED
    BY <1>5, <1>7, <1>8

ClaimsFor(c, method, path, at, accessToken) ==
    /\ c \in ProofClaims
    /\ c.jti = "jti" /\ c.htm = toUpperCase[method] /\ c.htu = Place(Scheme, "api", None, path, None)
    /\ c.iat = at /\ c.ath = accessToken

\* The claims of a proof for a request to the service.
LEMMA ClaimsMade ==
    ASSUME NEW method \in DOMAIN toUpperCase, NEW path \in Paths, NEW accessToken \in {None} \cup Tokens,
           NEW request, request = [method |-> method, url |-> Url(Origin, path), accessToken |-> accessToken],
           NEW at \in Int
    PROVE  ClaimsFor(Claims(request, at), method, path, at, accessToken)
<1>1. PICK url, scheme, htm : url = Url(Origin, path) /\ scheme = Scheme /\ htm = toUpperCase[method]
    OBVIOUS
<1>2. /\ request.url = url /\ request.method = method /\ request.accessToken = accessToken
      /\ url = Place(scheme, "api", ImpliedPort[scheme], path, "q") /\ scheme \in {"http", "https"}
    BY <1>1, ServicePlace
<1>3. PICK c : c = Claims(request, at)
    OBVIOUS
<1>4. c.htu = Place(scheme, "api", None, path, None)
    BY <1>2, <1>3, MadeClaims
<1>5. PICK htu : htu = [parseUrl(request.url) EXCEPT !.query = None]
    OBVIOUS
<1>6. c = [jti |-> "jti", htm |-> htm, htu |-> htu, iat |-> at, ath |-> accessToken]
  <2>1. (IF request.accessToken = None THEN None ELSE accessTokenHash(request.accessToken)) = accessToken
      BY <1>2 DEF accessTokenHash
  <2> QED BY <1>1, <1>2, <1>3, <1>5, <2>1, Zenon DEF Claims
<1>7. c.jti = "jti" /\ c.htm = htm /\ c.htu = htu /\ c.iat = at /\ c.ath = accessToken
    BY <1>6
<1>8. htm \in {"GET", "POST"}
    BY <1>1 DEF toUpperCase
<1>9. htu \in Places
  <2>1. Place(scheme, "api", None, path, None) \in Places
      BY <1>2 DEF Place, Places, Paths
  <2> QED BY <1>4, <1>7, <2>1
<1>10. c \in ProofClaims
    BY <1>6, <1>8, <1>9 DEF ProofClaims
<1> QED
    BY <1>1, <1>3, <1>4, <1>7, <1>10 DEF ClaimsFor

\* A request on the wire, whatever it is.
LEMMA WireForm ==
    ASSUME NEW caller, NEW method, NEW target, NEW authorization, NEW proofs, NEW params,
           NEW wire, wire = Wire(caller, method, target, authorization, proofs, params)
    PROVE  /\ wire.method = toUpperCase[method] /\ wire.target = target /\ wire.params = params
           /\ wire.host = [host |-> "api", port |-> None]
           /\ wire.authorization = authorization /\ wire.dpop = proofs
           /\ wire.scheme = IF site.tls /\ site.proxies = 0 THEN "https" ELSE "http"
           /\ wire.forwardedProto = IF site.tls /\ site.proxies > 0 THEN <<"https">> ELSE <<>>
<1>1. PICK scheme, proto, through, peer, capital, host, joins :
         /\ scheme = IF site.tls /\ site.proxies = 0 THEN "https" ELSE "http"
         /\ proto = IF site.tls /\ site.proxies > 0 THEN <<"https">> ELSE <<>>
         /\ through = IF site.proxies = 0 THEN <<>> ELSE <<AddressOf("made up"), AddressOf(caller)>>
         /\ peer = IF site.proxies = 0 THEN [ip |-> caller, form |-> "mapped"] ELSE AddressOf("proxy")
         /\ capital = toUpperCase[method] /\ host = [host |-> "api", port |-> None]
         /\ joins = site.joins
    OBVIOUS
<1>2. wire = [method |-> capital, target |-> target, host |-> host, authorization |-> authorization,
              dpop |-> proofs, params |-> params, scheme |-> scheme, joined |-> joins,
              forwardedProto |-> proto, forwardedFor |-> through, peer |-> peer]
    BY <1>1, Zenon DEF Wire
<1>3. /\ wire.method = capital /\ wire.target = target /\ wire.params = params /\ wire.host = host
      /\ wire.authorization = authorization /\ wire.dpop = proofs
      /\ wire.scheme = scheme /\ wire.forwardedProto = proto
    BY <1>2
<1> QED
    BY <1>1, <1>3, Zenon

\* The scheme of the service is seen, unless nothing tells Hono.
LEMMA SchemeSeen ==
    ASSUME Settings, NEW framework \in Frameworks, site.binding = "dpop", ~Unseen(framework), ~site.told,
           NEW caller, NEW method, NEW target, NEW authorization, NEW proofs, NEW params,
           NEW wire, wire = Wire(caller, method, target, authorization, proofs, params),
           NEW req, req = HttpRequest(framework, wire)
    PROVE  (IF req.forwardedProto # None THEN req.forwardedProto[1]
            ELSE IF req.protocol # None THEN req.protocol ELSE "http") = Scheme
<1>1. site.tls \in BOOLEAN /\ site.proxies \in {0, 1}
    BY SitesAssumption DEF Settings, TypesOK
<1>2. req.forwardedProto = Joined(wire.forwardedProto) /\ req.protocol \in {wire.scheme, None}
    BY RequestOf
<1>3. framework # "hono" => req.protocol = wire.scheme
  <2>1. SUFFICES ASSUME framework # "hono" PROVE req.protocol = wire.scheme
      OBVIOUS
  <2>2. req = NodeRequest(wire)
      BY <2>1 DEF HttpRequest, FastifyRequest, KoaRequest, Frameworks
  <2> QED BY <2>2 DEF NodeRequest, View
<1>4. CASE site.tls /\ site.proxies = 1
  <2>1. PICK line : line = <<"https">>
      OBVIOUS
  <2>2. wire.forwardedProto = line
      BY <1>4, <2>1, WireForm
  <2>3. line # <<>> /\ line \in Seq({"https"}) /\ line[1] = "https"
      BY <2>1
  <2>4. req.forwardedProto = line
      BY <1>2, <2>2, <2>3 DEF Joined
  <2>5. line # None
      BY <2>3, NoneAssumption
  <2> QED BY <1>4, <2>3, <2>4, <2>5 DEF Scheme
<1>5. CASE site.tls /\ site.proxies = 0
  <2>1. wire.forwardedProto = <<>> /\ wire.scheme = "https"
      BY <1>5, WireForm
  <2>2. req.forwardedProto = None
      BY <1>2, <2>1 DEF Joined
  <2>3. req.protocol = "https"
      BY <1>3, <1>5, <2>1 DEF Unseen
  <2>4. "https" # None
      BY NoneAssumption DEF Texts
  <2> QED BY <1>5, <2>2, <2>3, <2>4 DEF Scheme
<1>6. CASE ~site.tls
  <2>1. wire.forwardedProto = <<>> /\ wire.scheme = "http"
      BY <1>6, WireForm
  <2>2. req.forwardedProto = None
      BY <1>2, <2>1 DEF Joined
  <2> QED BY <1>2, <1>6, <2>1, <2>2 DEF Scheme
<1> QED
    BY <1>1, <1>4, <1>5, <1>6

\* So the URL that a proof is compared with is the one it was made for.
LEMMA UrlSeen ==
    ASSUME Settings, NEW i \in Instances, NEW framework \in Frameworks, site.binding = "dpop", ~Unseen(framework),
           NEW path \in Paths, NEW target, NEW s, NEW h, NEW p, target = Place(s, h, p, path, "q"),
           NEW caller, NEW method, NEW authorization, NEW proofs, NEW params,
           NEW wire, wire = Wire(caller, method, target, authorization, proofs, params),
           NEW req, req = HttpRequest(framework, wire),
           NEW accessToken, NEW url, url = Expected(Env(i), req, accessToken).url
    PROVE  normaliseHtu(url) = Place(Scheme, "api", None, path, None) /\ normaliseHtu(url) # None
<1>1. wire.target = target /\ wire.host = [host |-> "api", port |-> None]
    BY WireForm
<1>2. req.originalUrl.path = path /\ req.originalUrl.query = "q"
    BY <1>1, RequestTarget
<1>3. req.host.host = "api" /\ req.host.port = None
    BY <1>1, RequestOf
<1>4. PICK env, origin : env = Env(i) /\ origin = Env(i).origin
    OBVIOUS
<1>5. url = IF origin # None THEN builtRequestUrl(origin, req) ELSE defaultRequestUrl(req)
    BY <1>4 DEF Expected
<1>6. PICK scheme : scheme = Scheme
    OBVIOUS
<1>7. scheme \in {"http", "https"}
    BY <1>6, ServicePlace
<1>8. CASE site.told
  <2>1. origin = Origin
      BY <1>4, <1>8, EnvOf
  <2>2. /\ Origin.scheme = scheme /\ Origin.host = "api" /\ Origin.port = ImpliedPort[scheme]
        /\ Origin \in Origins
    <3>1. CASE site.tls
      <4>1. Origin = [scheme |-> "https", host |-> "api", port |-> 443] /\ scheme = "https"
          BY <1>6, <3>1 DEF Origin, Scheme
      <4> QED BY <4>1 DEF ImpliedPort, Origins
    <3>2. CASE ~site.tls
      <4>1. Origin = [scheme |-> "http", host |-> "api", port |-> 80] /\ scheme = "http"
          BY <1>6, <3>2 DEF Origin, Scheme
      <4> QED BY <4>1 DEF ImpliedPort, Origins
    <3> QED BY <3>1, <3>2
  <2>3. Origin # None
      BY <2>2, NoneAssumption
  <2>4. url = Place(scheme, "api", ImpliedPort[scheme], path, "q")
      BY <1>2, <1>5, <2>1, <2>2, <2>3 DEF builtRequestUrl, Place
  <2> QED BY <1>6, <1>7, <2>4, PlaceCompared
<1>9. CASE ~site.told
  <2>1. origin = None
      BY <1>4, <1>9, EnvOf
  <2>2. (IF req.forwardedProto # None THEN req.forwardedProto[1]
         ELSE IF req.protocol # None THEN req.protocol ELSE "http") = scheme
      BY <1>6, <1>9, SchemeSeen
  <2>3. PICK u : u = Place(scheme, "api", None, path, "q")
      OBVIOUS
  <2>4. url = Reconstructed(u)
      BY <1>2, <1>3, <1>5, <2>1, <2>2, <2>3 DEF defaultRequestUrl, Place
  <2>5. PICK port : port = IF None = ImpliedPort[scheme] THEN None ELSE None
      OBVIOUS
  <2>6. port = None /\ parseUrl(u) = Place(scheme, "api", port, path, "q")
      BY <1>7, <2>3, <2>5, ParsedPlace
  <2>7. u # None
    <3>1. u \in Places
        BY <1>7, <2>3 DEF Place, Places, Paths
    <3> QED BY <3>1, NoneAssumption
  <2>8. url = u
      BY <2>3, <2>4, <2>6, <2>7 DEF Reconstructed
  <2> QED BY <1>6, <1>7, <2>3, <2>8, PlaceCompared
<1> QED
    BY <1>8, <1>9, SitesAssumption DEF Settings, TypesOK

\* Claims for a request match it, wherever they are checked.
LEMMA ClaimsMatched ==
    ASSUME Settings, NEW i \in Instances, site.binding = "dpop",
           NEW method \in DOMAIN toUpperCase, NEW path \in Paths, NEW accessToken \in {None} \cup Tokens,
           NEW claims, ClaimsFor(claims, method, path, Now, accessToken),
           NEW options, options.method = toUpperCase[method], options.accessToken = accessToken,
           options.now = clock + Skew[i], options.maxAgeSeconds = MaxAge,
           options.clockToleranceSeconds = Tolerance,
           normaliseHtu(options.url) = Place(Scheme, "api", None, path, None)
    PROVE  ClaimsMatch(claims, options)
<1>1. PICK scheme, htu : scheme = Scheme /\ htu = Place(Scheme, "api", None, path, None)
    OBVIOUS
<1>2. scheme \in {"http", "https"}
    BY <1>1, ServicePlace
<1>3. PICK n : n = normaliseHtu(htu)
    OBVIOUS
<1>4. n = htu /\ n # None
    BY <1>1, <1>2, <1>3, PlaceCompared
<1>5. claims # None /\ claims.jti # None /\ claims.htu = htu
    BY <1>1, NoneAssumption DEF ClaimsFor, Texts
<1>6. claims.htm = toUpperCase[options.method]
    BY DEF ClaimsFor, toUpperCase
<1>7. claims.iat <= options.now + options.clockToleranceSeconds
      /\ claims.iat >= options.now - options.maxAgeSeconds - options.clockToleranceSeconds
  <2>1. PICK here, there, at : here = Skew[i] /\ there = Skew["page"] /\ at = clock + there
      OBVIOUS
  <2>2. here \in Int /\ there \in Int /\ there - here <= Tolerance /\ here - there <= Tolerance
      BY <2>1, ServiceAssumption
  <2>3. clock \in Int /\ Tolerance \in Nat /\ MaxAge \in Nat
      BY ServiceAssumption DEF Settings, TypesOK
  <2>4. claims.iat = at
      BY <2>1 DEF ClaimsFor, Now
  <2>5. at <= (clock + here) + Tolerance /\ at >= (clock + here) - MaxAge - Tolerance
      BY <2>1, <2>2, <2>3
  <2> QED BY <2>1, <2>4, <2>5
<1>8. options.accessToken = None \/ (claims.ath # None /\ claims.ath = accessTokenHash(options.accessToken))
    BY DEF ClaimsFor, accessTokenHash
<1> QED
    BY <1>1, <1>3, <1>4, <1>5, <1>6, <1>7, <1>8, Zenon DEF ClaimsMatch

\* One proof is the one that is looked at.
LEMMA ProofSeen ==
    ASSUME NEW framework \in Frameworks, NEW wire, NEW proof \in Proofs, wire.dpop = <<proof>>,
           FewLines(wire.authorization), NEW req, req = HttpRequest(framework, wire)
    PROVE  extractProofHeader(req) = proof /\ proof # None
<1>1. PICK line : line = <<proof>>
    OBVIOUS
<1>2. line \in Seq(Proofs) /\ line # <<>> /\ Len(line) = 1 /\ line[1] = proof
    BY <1>1
<1>3. line # None /\ proof # None
    BY <1>2, NoneAssumption
<1>4. req.dpop = line
  <2>1. req.dpop = Joined(wire.dpop) /\ wire.dpop = line
      BY <1>1, RequestOf
  <2> QED BY <1>2, <2>1 DEF Joined
<1>5. req.raw = None \/ req.raw = RawLines(wire)
    BY RequestOf
<1>6. RawLines(wire).dpop = 1
    BY <1>1, <1>2 DEF RawLines, Came
<1>7. ~(req.raw # None /\ req.raw.dpop > 1)
    BY <1>5, <1>6
<1>8. extractProofHeader(req) = req.dpop[1]
    BY <1>2, <1>3, <1>4, <1>7 DEF extractProofHeader
<1> QED
    BY <1>2, <1>3, <1>4, <1>8

\* A target at a path of the service.
To(target, path) == \E scheme, host, port : target = Place(scheme, host, port, path, "q")

\* Whoever sends a proof of now for a request shows possession of its key.
LEMMA ShowsPossession ==
    ASSUME Settings, NEW i \in Instances, NEW framework \in Frameworks, site.binding = "dpop", ~Unseen(framework),
           NEW method \in DOMAIN toUpperCase, NEW path \in Paths, NEW accessToken \in {None} \cup Tokens,
           NEW jwk, NEW alg, NEW jkt, NEW key, Names(jwk, alg, key, jkt), jkt # None,
           NEW request, request = [method |-> method, url |-> Url(Origin, path), accessToken |-> accessToken],
           NEW proof, proof = ByKey(key, alg, jwk, Claims(request, Now)),
           NEW target, To(target, path),
           NEW caller, NEW authorization, FewLines(authorization), NEW params,
           NEW wire, wire = Wire(caller, method, target, authorization, <<proof>>, params),
           NEW req, req = HttpRequest(framework, wire)
    PROVE  establishProofOfPossession(Env(i), req, accessToken) = [error |-> None, jkt |-> jkt]
<1>1. PICK claims, options, at, url :
         /\ claims = Claims(request, Now) /\ at = Now
         /\ options = Expected(Env(i), req, accessToken) /\ url = Expected(Env(i), req, accessToken).url
    OBVIOUS
<1>2. at \in Int
    BY <1>1, ServiceAssumption DEF Now, Settings, TypesOK
<1>3. ClaimsFor(claims, method, path, Now, accessToken)
    BY <1>1, <1>2, ClaimsMade
<1>4. PICK proofs : proofs = <<proof>>
    OBVIOUS
<1>5. /\ wire.method = toUpperCase[method] /\ wire.dpop = proofs /\ wire.authorization = authorization
    BY <1>4, WireForm
<1>6. normaliseHtu(url) = Place(Scheme, "api", None, path, None)
  <2>1. PICK s, h, p : target = Place(s, h, p, path, "q")
      BY DEF To
  <2> QED BY <1>1, <1>4, <2>1, UrlSeen
<1>7. PICK env : env = Env(i)
    OBVIOUS
<1>8. env.dpop = [maxAgeSeconds |-> MaxAge, clockToleranceSeconds |-> Tolerance] /\ env.now = clock + Skew[i]
    BY <1>7, EnvOf DEF Settings, InstancesOK, InstanceOK
<1>9. /\ options.method = toUpperCase[method] /\ options.accessToken = accessToken
      /\ options.now = clock + Skew[i] /\ options.url = url
      /\ options.maxAgeSeconds = MaxAge /\ options.clockToleranceSeconds = Tolerance
  <2>1. req.method = toUpperCase[method]
      BY <1>5, RequestOf
  <2>2. options = [method |-> req.method, accessToken |-> accessToken, now |-> env.now, url |-> url,
                   maxAgeSeconds |-> env.dpop.maxAgeSeconds,
                   clockToleranceSeconds |-> env.dpop.clockToleranceSeconds]
      BY <1>1, <1>7 DEF Expected
  <2> QED BY <1>8, <2>1, <2>2
<1>10. ClaimsMatch(claims, options)
  <2>1. normaliseHtu(options.url) = Place(Scheme, "api", None, path, None)
      BY <1>6, <1>9
  <2> QED BY <1>3, <1>9, <2>1, ClaimsMatched
<1>11. claims \in ProofClaims
    BY <1>3 DEF ClaimsFor
<1>12. proof \in Proofs /\ verifyDpopProof(proof, options) = jkt
  <2>1. proof = ByKey(key, alg, jwk, claims)
      BY <1>1
  <2> QED BY <1>10, <1>11, <2>1, MadeTaken
<1>13. extractProofHeader(req) = proof /\ proof # None
    BY <1>4, <1>5, <1>12, ProofSeen
<1>14. establishProofOfPossession(Env(i), req, accessToken) = Possession(verifyDpopProof(proof, options))
    BY <1>1, <1>13, Zenon DEF establishProofOfPossession, Expected
<1> QED
    BY <1>12, <1>14 DEF Possession

\* A key of the page or of the program.
SignsAs(caller, key, alg, jwk, jkt) ==
    /\ Names(jwk, alg, key, jkt) /\ jkt # None
    /\ \A request, at :
          ProofOf(caller, request, at) =
              ByKey(key, alg, jwk, Claims(request, at))

\* The page signs with the key of its tab.
LEMMA PageSigns ==
    ASSUME Settings, Keys!Ready(page)
    PROVE  /\ KeyInUse \in Tabs
           /\ SignsAs("page", KeyOfTab(KeyInUse), "ES256", PublicJwk(KeyOfTab(KeyInUse)), ThumbprintOf(KeyInUse))
<1>1. PICK u \in Tabs : tab[page].key = Described(u)
    BY DEF Settings, TypesOK, KeysOK, Keys!Ready
<1>2. KeyInUse = u /\ Described(u).key = KeyOfTab(u) /\ Described(u).publicJwk = PublicJwk(KeyOfTab(u))
    BY <1>1, KeyDescribed DEF KeyInUse
<1>3. PICK key, jwk, jkt : key = KeyOfTab(u) /\ jwk = PublicJwk(KeyOfTab(u)) /\ jkt = ThumbprintOf(u)
    OBVIOUS
<1>4. key.id = u
    BY <1>3 DEF KeyOfTab
<1>5. Reads(jwk, "ES256", key.id, jkt)
    BY <1>3, <1>4, TabKeyReads
<1>6. jkt # None
  <2>1. jkt \in Thumbprints
      BY <1>3 DEF Thumbprints, ThumbprintOf
  <2> QED BY <2>1, NoneAssumption
<1>7. ASSUME NEW request, NEW at
      PROVE  ProofOf("page", request, at) =
                ByKey(key, "ES256", jwk, Claims(request, at))
  <2>1. PICK described : described = Described(u)
      OBVIOUS
  <2>2. described.key = key /\ described.publicJwk = jwk
      BY <1>2, <1>3, <2>1
  <2>3. ProofOf("page", request, at) = createProof(described, request, at)
      BY <1>1, <2>1 DEF ProofOf
  <2> QED BY <2>2, <2>3 DEF createProof, ByKey
<1>8. SignsAs("page", key, "ES256", jwk, jkt)
    BY <1>5, <1>6, <1>7 DEF SignsAs, Names
<1> QED
    BY <1>2, <1>3, <1>8

\* The program signs with its own.
LEMMA ProgramSigns ==
    SignsAs("program", Pair.key, "EdDSA", PublicJwk(Pair.key), jwkThumbprint(parseJwk(PublicJwk(Pair.key))))
<1>1. PICK key, jwk, jkt : /\ key = Pair.key /\ jwk = PublicJwk(Pair.key)
                           /\ jkt = jwkThumbprint(parseJwk(PublicJwk(Pair.key)))
    OBVIOUS
<1>2. key.id = "program" /\ Pair.algorithm = "EdDSA"
    BY <1>1 DEF Pair, generateDpopKeyPair
<1>3. Reads(jwk, "EdDSA", key.id, jkt)
    BY <1>1, <1>2, ProgramKeyReads
<1>4. jkt # None
  <2>1. jkt \in Thumbprints
      BY <1>1, ProgramThumbprint DEF Thumbprints
  <2> QED BY <2>1, NoneAssumption
<1>5. ASSUME NEW request, NEW at
      PROVE  ProofOf("program", request, at) =
                ByKey(key, "EdDSA", jwk, Claims(request, at))
  <2>1. ProofOf("program", request, at) = createDpopProof(Pair, request, at)
      BY DEF ProofOf
  <2> QED BY <1>1, <1>2, <2>1 DEF createDpopProof, ByKey
<1>6. SignsAs("program", key, "EdDSA", jwk, jkt)
    BY <1>3, <1>4, <1>5 DEF SignsAs, Names
<1> QED
    BY <1>1, <1>6

\* A page that signs in or refreshes shows possession of its tab's key.
LEMMA PageShows ==
    ASSUME Settings, NEW i \in Instances, NEW framework \in Frameworks, ~Unseen(framework),
           NEW path \in {"login", "refresh"}, Keys!Ready(page)
    PROVE  Possessed(i, framework, path) =
              [error |-> None, jkt |-> IF site.binding = "dpop" THEN ThumbprintOf(KeyInUse) ELSE None]
<1>1. CASE site.binding # "dpop"
    BY <1>1, DpopWhereBound DEF Possessed
<1>2. CASE site.binding = "dpop"
  <2>1. Possessed(i, framework, path) = Confirmed(i, framework, path)
      BY <1>2, DpopWhereBound DEF Possessed
  <2>2. PICK request : request = [method |-> "post", url |-> Url(Origin, path), accessToken |-> None]
      OBVIOUS
  <2>3. PICK key, jwk, jkt : /\ key = KeyOfTab(KeyInUse) /\ jwk = PublicJwk(KeyOfTab(KeyInUse))
                             /\ jkt = ThumbprintOf(KeyInUse)
      OBVIOUS
  <2>4. SignsAs("page", key, "ES256", jwk, jkt)
      BY <2>3, PageSigns
  <2>5. PICK proof : proof = ByKey(key, "ES256", jwk, Claims(request, Now))
      OBVIOUS
  <2>6. ProofOf("page", request, Now) = proof
      BY <2>4, <2>5 DEF SignsAs
  <2>7. PICK target, lines : target = Target(path) /\ lines = <<>>
      OBVIOUS
  <2>8. PICK wire : wire = Wire("page", "post", target, lines, <<proof>>, None)
      OBVIOUS
  <2>9. PICK req : req = HttpRequest(framework, wire)
      OBVIOUS
  <2>10. Confirmed(i, framework, path) = establishProofOfPossession(Env(i), req, None)
      BY <2>2, <2>6, <2>7, <2>8, <2>9 DEF Confirmed
  <2>11. path \in Paths /\ "post" \in DOMAIN toUpperCase /\ FewLines(lines)
      BY <2>7 DEF Paths, toUpperCase, FewLines
  <2>12. To(target, path)
    <3>1. target = Place(None, None, None, path, "q")
        BY <2>7 DEF Target, Place
    <3> QED BY <3>1 DEF To
  <2>13. Names(jwk, "ES256", key, jkt) /\ jkt # None
      BY <2>4 DEF SignsAs
  <2>14. PICK method, t, none, caller : method = "post" /\ t = None /\ none = None /\ caller = "page"
      OBVIOUS
  <2>15. /\ request = [method |-> method, url |-> Url(Origin, path), accessToken |-> t]
         /\ wire = Wire(caller, method, target, lines, <<proof>>, none)
         /\ method \in DOMAIN toUpperCase /\ t \in {None} \cup Tokens
      BY <2>2, <2>8, <2>11, <2>14
  <2>16. establishProofOfPossession(Env(i), req, t) = [error |-> None, jkt |-> jkt]
      BY <1>2, <2>5, <2>9, <2>11, <2>12, <2>13, <2>15, ShowsPossession
  <2> QED BY <1>2, <2>1, <2>3, <2>10, <2>14, <2>16
<1> QED
    BY <1>1, <1>2

-----------------------------------------------------------------------------
(***************************************************************************)
(* What the sender can count on, besides the settings.                     *)
(***************************************************************************)
\* An instance runs a release that there has been.
ReleasesOK == release \in 1 .. MaxRelease /\ \A i \in Instances : Served(process[i].engine)

\* The page's token was handed over not after now, by an instance of a release.
HandedBy(e, j) ==
    /\ Served(e) /\ token.at \in 0 .. clock
    /\ HandedOver(e, token.at + Skew[j], token.at)
PageTokenOK == token # None => \E e : \E j \in Instances : HandedBy(e, j)

\* A release that there has been has a key.
LEMMA ReleaseNumbers ==
    ASSUME ReleasesOK, NEW r \in 1 .. release
    PROVE  r \in DOMAIN KidOf /\ r \in Nat
<1>1. DOMAIN KidOf = 1 .. 3
    BY DEF KidOf
<1>2. PICK m : m = MaxRelease
    OBVIOUS
<1>3. m \in 1 .. 3 /\ release \in 1 .. m
    BY <1>1, <1>2, ReleasesAssumption DEF ReleasesOK
<1> QED
    BY <1>1, <1>3

\* The program's token is taken by the instance that issued it just now.
LEMMA ProgramIsTaken ==
    ASSUME Settings, ReleasesOK, NEW i \in Instances,
           NEW jkt, assertConfirmationKey(ProgramInput(i).confirmationKey, jkt),
           NEW t, t = ProgramToken(i)
    PROVE  /\ t \in Tokens
           /\ verify(process[i].engine, t, jkt, clock + Skew[i], clock).error = None
<1>1. PICK e, input, now : e = process[i].engine /\ input = ProgramInput(i) /\ now = clock + Skew[i]
    OBVIOUS
<1>2. site \in Sites /\ EngineOK(e) /\ e.clockToleranceSeconds = Tolerance /\ Served(e) /\ clock \in Int
    BY <1>1 DEF Settings, TypesOK, InstancesOK, InstanceOK, ReleasesOK
<1>3. NotOlder(e, e)
  <2>1. SUFFICES ASSUME site.strategy = "paseto"
                 PROVE  \E r \in DOMAIN KidOf : \E q \in 1 .. r : ReleasedEngine(e, r) /\ ReleasedEngine(e, q)
      BY DEF NotOlder
  <2>2. PICK r \in 1 .. release : ReleasedEngine(e, r)
      BY <1>2, <2>1 DEF Served
  <2>3. r \in DOMAIN KidOf /\ r \in 1 .. r
      BY ReleaseNumbers
  <2> QED BY <2>2, <2>3
<1>4. InputOK(input)
    BY <1>1, InputsOK DEF InputOK, Program
<1>5. now \in Int /\ now - Tolerance <= now /\ now <= now + Ttl + Tolerance /\ clock < clock + Ttl
  <2>1. Skew[i] \in Int /\ Tolerance \in Nat /\ Ttl \in Nat \ {0}
      BY ServiceAssumption
  <2> QED BY <1>1, <1>2, <2>1
<1>6. t = issue(e, input, now, clock)
    BY <1>1, ProgramIssued
<1>7. assertConfirmationKey(input.confirmationKey, jkt)
    BY <1>1
<1>8. t \in Tokens /\ verify(e, t, jkt, now, clock).error = None
    BY <1>2, <1>3, <1>4, <1>5, <1>6, <1>7, IssuedTaken
<1> QED
    BY <1>1, <1>8

\* The release that a page's token is of is known where the token is current.
LEMMA NotOlderThanIssuer ==
    ASSUME Settings, ReleasesOK, token # None, NEW i \in Instances,
           site.strategy = "paseto" => Knows(process[i].engine.ring, token.value),
           NEW e, NEW j \in Instances, HandedBy(e, j)
    PROVE  NotOlder(process[i].engine, e)
<1>1. SUFFICES ASSUME site.strategy = "paseto"
               PROVE  \E r \in DOMAIN KidOf : \E q \in 1 .. r :
                          ReleasedEngine(process[i].engine, r) /\ ReleasedEngine(e, q)
    BY DEF NotOlder
<1>2. PICK engine, t, input, then, before :
         /\ engine = process[i].engine /\ t = token.value /\ input = PageInput
         /\ then = token.at + Skew[j] /\ before = token.at
    OBVIOUS
<1>3. /\ Served(engine) /\ Served(e) /\ t = issue(e, input, then, before)
      /\ e.strategy = "paseto" /\ e.ring.signingKid \in Kids
    BY <1>1, <1>2 DEF ReleasesOK, HandedBy, HandedOver, EngineOK
<1>4. PICK r \in 1 .. release : ReleasedEngine(engine, r)
    BY <1>1, <1>3 DEF Served
<1>5. PICK q \in 1 .. release : ReleasedEngine(e, q)
    BY <1>1, <1>3 DEF Served
<1>6. t = IssuePaseto(e, input, then)
    BY <1>3 DEF issue
<1>7. t.parts[2].value = [kid |-> e.ring.signingKid]
  <2>1. PasetoWritten(e, input, then, t)
      BY <1>3, <1>6, IssuedPaseto
  <2> QED BY <2>1, Zenon DEF PasetoWritten
<1>8. t.parts[2].value.kid = KidOf[q] /\ engine.ring.signingKid = KidOf[r]
    BY <1>4, <1>5, <1>7 DEF ReleasedEngine, RingOf
<1>9. r \in DOMAIN KidOf /\ q \in DOMAIN KidOf /\ r \in Nat /\ q \in Nat
    BY ReleaseNumbers
<1>10. ReleaseOf(KidOf[q]) = q /\ ReleaseOf(KidOf[r]) = r
    BY <1>9, ReleaseOfKid
<1>11. q <= r
    BY <1>1, <1>2, <1>8, <1>10 DEF Knows
<1>12. q \in 1 .. r
    BY <1>9, <1>11
<1> QED
    BY <1>2, <1>4, <1>5, <1>9, <1>12

\* The page's token is taken while it is current.
LEMMA PageIsTaken ==
    ASSUME Settings, ReleasesOK, PageTokenOK, token # None, NEW i \in Instances,
           clock < token.at + Ttl,
           site.strategy = "paseto" => Knows(process[i].engine.ring, token.value),
           NEW jkt, assertConfirmationKey(PageInput.confirmationKey, jkt),
           NEW t, t = token.value
    PROVE  /\ t \in Tokens
           /\ verify(process[i].engine, t, jkt, clock + Skew[i], clock).error = None
<1>1. PICK e : \E j \in Instances : HandedBy(e, j)
    BY DEF PageTokenOK
<1>2. PICK j \in Instances : HandedBy(e, j)
    BY <1>1
<1>3. PICK engine, input, now, then, before :
         /\ engine = process[i].engine /\ input = PageInput /\ now = clock + Skew[i]
         /\ before = token.at /\ then = before + Skew[j]
    OBVIOUS
<1>4. site \in Sites /\ EngineOK(engine) /\ engine.clockToleranceSeconds = Tolerance /\ clock \in Int
    BY <1>3 DEF Settings, TypesOK, InstancesOK, InstanceOK
<1>5. EngineOK(e) /\ t = issue(e, input, then, before) /\ before \in 0 .. clock
    BY <1>2, <1>3 DEF HandedBy, HandedOver
<1>6. NotOlder(engine, e)
    BY <1>2, <1>3, NotOlderThanIssuer
<1>7. InputOK(input)
    BY <1>3, InputsOK DEF InputOK, Page
<1>8. /\ then \in Int /\ now \in Int /\ before \in Int
      /\ then - Tolerance <= now /\ now <= then + Ttl + Tolerance /\ clock < before + Ttl
  <2>1. PICK here, there : here = Skew[i] /\ there = Skew[j]
      OBVIOUS
  <2>2. here \in Int /\ there \in Int /\ here - there <= Tolerance /\ there - here <= Tolerance
      BY <2>1, ServiceAssumption
  <2>3. Tolerance \in Nat /\ Ttl \in Nat
      BY ServiceAssumption
  <2>4. before \in Int /\ before <= clock /\ clock < before + Ttl
      BY <1>3, <1>4, <1>5
  <2>5. now = clock + here /\ then = before + there
      BY <1>3, <2>1
  <2> QED BY <1>4, <2>2, <2>3, <2>4, <2>5
<1>9. assertConfirmationKey(input.confirmationKey, jkt)
    BY <1>3
<1>10. t \in Tokens /\ verify(engine, t, jkt, now, clock).error = None
    BY <1>4, <1>5, <1>6, <1>7, <1>8, <1>9, IssuedTaken
<1> QED
    BY <1>3, <1>10

InputOf(caller, i) == IF caller = "page" THEN PageInput ELSE ProgramInput(i)

\* The page has a token that instance i can be expected to take.
PageCurrent(i) ==
    /\ token # None /\ clock < token.at + Ttl
    /\ site.strategy = "paseto" => Knows(process[i].engine.ring, token.value)
CallerCurrent(caller, i) == caller \in Callers /\ (caller = "page" => PageCurrent(i))

\* So the token of either is taken, for what it was issued for.
LEMMA CallerIsTaken ==
    ASSUME Settings, ReleasesOK, PageTokenOK, NEW i \in Instances, NEW caller, CallerCurrent(caller, i),
           NEW jkt, assertConfirmationKey(InputOf(caller, i).confirmationKey, jkt),
           NEW t, t = TokenOf(caller, i),
           NEW o, o = verify(process[i].engine, t, jkt, clock + Skew[i], clock)
    PROVE  t \in Tokens /\ o.error = None /\ o.auth = IdentityOf(InputOf(caller, i))
<1>1. CASE caller = "page"
  <2>1. t = token.value /\ token # None /\ clock < token.at + Ttl /\ InputOf(caller, i) = PageInput
        /\ (site.strategy = "paseto" => Knows(process[i].engine.ring, token.value))
      BY <1>1 DEF CallerCurrent, PageCurrent, TokenOf, InputOf
  <2>2. t \in Tokens /\ o.error = None
      BY <2>1, PageIsTaken
  <2>3. PICK d : d = Damaged("none", token.value)
      OBVIOUS
  <2>4. d = t
      BY <2>1, <2>3 DEF Damaged
  <2>5. OfPage(d, i, jkt, o.auth)
      BY <2>1, <2>2, <2>3, <2>4, PageTaken
  <2> QED BY <2>1, <2>2, <2>5 DEF OfPage
<1>2. CASE caller = "program"
  <2>1. t = ProgramToken(i) /\ InputOf(caller, i) = ProgramInput(i)
      BY <1>2 DEF TokenOf, InputOf
  <2>2. t \in Tokens /\ o.error = None
      BY <2>1, ProgramIsTaken
  <2>3. PICK d : d = Damaged("none", ProgramToken(i))
      OBVIOUS
  <2>4. d = t
      BY <2>1, <2>3 DEF Damaged
  <2>5. OfProgram(d, i, jkt, o.auth)
      BY <2>2, <2>3, <2>4, ProgramTaken
  <2> QED BY <2>1, <2>2, <2>5 DEF OfProgram
<1> QED
    BY <1>1, <1>2 DEF CallerCurrent, Callers

\* Either signs with the key that its tokens are bound to.
LEMMA CallerSigns ==
    ASSUME Settings, NEW i \in Instances, NEW caller, CallerCurrent(caller, i)
    PROVE  \E key, alg, jwk, jkt :
              /\ SignsAs(caller, key, alg, jwk, jkt)
              /\ InputOf(caller, i).confirmationKey = IF site.binding = "dpop" THEN jkt ELSE None
<1>1. CASE caller = "page"
  <2>1. token # None /\ InputOf(caller, i) = PageInput
      BY <1>1 DEF CallerCurrent, PageCurrent, InputOf
  <2>2. /\ session # None /\ Keys!Ready(page)
        /\ site.binding = "dpop" => session.jkt = ThumbprintOf(KeyInUse)
      BY <2>1 DEF Settings, TokenOK, Keys!Ready, KeyInUse
  <2>3. site.binding # "dpop" => session.jkt = None
      BY <2>2 DEF Settings, SessionOK
  <2>4. PICK key, jwk, jkt : /\ key = KeyOfTab(KeyInUse) /\ jwk = PublicJwk(KeyOfTab(KeyInUse))
                             /\ jkt = ThumbprintOf(KeyInUse)
      OBVIOUS
  <2>5. SignsAs(caller, key, "ES256", jwk, jkt)
      BY <1>1, <2>2, <2>4, PageSigns
  <2>6. InputOf(caller, i).confirmationKey = IF site.binding = "dpop" THEN jkt ELSE None
      BY <2>1, <2>2, <2>3, <2>4 DEF PageInput
  <2> QED BY <2>5, <2>6
<1>2. CASE caller = "program"
  <2>1. InputOf(caller, i) = ProgramInput(i)
      BY <1>2 DEF InputOf
  <2>2. PICK key, jwk, jkt : /\ key = Pair.key /\ jwk = PublicJwk(Pair.key)
                             /\ jkt = jwkThumbprint(parseJwk(PublicJwk(Pair.key)))
      OBVIOUS
  <2>3. SignsAs(caller, key, "EdDSA", jwk, jkt)
      BY <1>2, <2>2, ProgramSigns
  <2>4. InputOf(caller, i).confirmationKey = IF site.binding = "dpop" THEN jkt ELSE None
      BY <2>1, <2>2, DpopWhereBound DEF ProgramInput
  <2> QED BY <2>3, <2>4
<1> QED
    BY <1>1, <1>2 DEF CallerCurrent, Callers

\* The only credential of a request is the one that verify() is given.
LEMMA BearerSeen ==
    ASSUME NEW framework \in Frameworks, NEW wire, NEW t \in Tokens, wire.authorization = <<Line(t)>>,
           NEW proof, wire.dpop = <<proof>>, NEW req, req = HttpRequest(framework, wire)
    PROVE  extractBearer(req) = t /\ t # None
<1>1. PICK lines, line : lines = <<line>> /\ line = Line(t)
    OBVIOUS
<1>2. line.scheme = "DPoP" /\ line.token = t /\ line \in [scheme : {"DPoP"}, token : Tokens]
    BY <1>1 DEF Line
<1>3. /\ lines \in Seq([scheme : {"DPoP"}, token : Tokens])
      /\ lines # <<>> /\ Len(lines) = 1 /\ lines[1] = line
    BY <1>1, <1>2
<1>4. lines # None /\ t # None
    BY <1>3, NoneAssumption
<1>5. req.authorization = lines
  <2>1. wire.authorization = lines
      BY <1>1
  <2>2. <<lines[1]>> = lines
      BY <1>1
  <2>3. Kept(wire) = lines
      BY <1>3, <2>1, <2>2, Zenon DEF Kept
  <2> QED BY <2>3, RequestOf
<1>6. req.raw = None \/ req.raw = RawLines(wire)
    BY RequestOf
<1>7. RawLines(wire).authorization = 1
    BY <1>1, <1>3 DEF RawLines, Came
<1>8. ~(req.raw # None /\ req.raw.authorization > 1)
    BY <1>6, <1>7
<1>9. PICK shown : shown = req.authorization
    OBVIOUS
<1>10. shown # None /\ Len(shown) = 1 /\ shown[1].token = t /\ shown[1].scheme \in Schemes
    BY <1>2, <1>3, <1>4, <1>5, <1>9 DEF Schemes
<1>11. extractBearer(req) = shown[1].token
    BY <1>8, <1>9, <1>10 DEF extractBearer
<1> QED
    BY <1>4, <1>10, <1>11

\* What is sent when nothing that matters happens to it.
LEMMA HonestSent ==
    ASSUME NEW caller, NEW i, NEW route, NEW mishap \in {"none", "absolute"},
           NEW own, own = TokenOf(caller, i),
           NEW request, request = [method |-> route.method, url |-> Url(Origin, route.path), accessToken |-> own],
           NEW proof, proof = ProofOf(caller, request, Now),
           NEW wire, wire = Sent(caller, i, route, mishap)
    PROVE  \E target : /\ To(target, route.path)
                       /\ wire = Wire(caller, route.method, target, <<Line(own)>>, <<proof>>, route.params)
<1>1. PICK other : other = OtherToken(caller, i)
    OBVIOUS
<1>2. Damaged(mishap, own) = own
    BY DEF Damaged
<1>3. Authorization(mishap, own, other) = <<Line(own)>>
    BY <1>2 DEF Authorization
<1>4. Intended(mishap, route.method, route.path, own, other) = request
    BY <1>2 DEF Intended
<1>5. Moment(mishap) = Now
    BY DEF Moment
<1>6. Spoilt(mishap, proof) = <<proof>>
    BY DEF Spoilt
<1>7. PICK target : target = CASE mishap = "absolute" -> Url(Origin, route.path)
                               [] mishap = "elsewhere" -> Url(Elsewhere, route.path)
                               [] OTHER -> Target(route.path)
    OBVIOUS
<1>8. To(target, route.path)
  <2>1. CASE mishap = "absolute"
    <3>1. target = Url(Origin, route.path)
        BY <1>7, <2>1
    <3> QED BY <3>1, ServicePlace DEF To
  <2>2. CASE mishap = "none"
    <3>1. target = Target(route.path)
        BY <1>7, <2>2
    <3>2. target = Place(None, None, None, route.path, "q")
        BY <3>1 DEF Target, Place
    <3> QED BY <3>2 DEF To
  <2> QED BY <2>1, <2>2
<1>9. PICK signer : signer = IF mishap = "otherKey" THEN Other(caller) ELSE caller
    OBVIOUS
<1>10. signer = caller
    BY <1>9
<1>11. wire = Wire(caller, route.method, target, <<Line(own)>>, <<proof>>, route.params)
    BY <1>1, <1>3, <1>4, <1>5, <1>6, <1>7, <1>9, <1>10, Zenon DEF Sent
<1> QED
    BY <1>8, <1>11

\* Such a request is admitted, as whoever sent it.
LEMMA HonestAdmitted ==
    ASSUME Settings, ReleasesOK, PageTokenOK, NEW i \in Instances, NEW caller, CallerCurrent(caller, i),
           NEW framework \in Frameworks, ~Unseen(framework),
           NEW route \in Routes, NEW mishap \in {"none", "absolute"},
           NEW wire, wire = Sent(caller, i, route, mishap),
           NEW req, req = HttpRequest(framework, wire),
           NEW v, v = Verdict(Env(i), req)
    PROVE  v.error = None /\ v.auth = IdentityOf(InputOf(caller, i))
<1>1. PICK key, alg, jwk, jkt :
         /\ SignsAs(caller, key, alg, jwk, jkt)
         /\ InputOf(caller, i).confirmationKey = IF site.binding = "dpop" THEN jkt ELSE None
    BY CallerSigns
<1>2. PICK shown : shown = IF site.binding = "dpop" THEN jkt ELSE None
    OBVIOUS
<1>3. assertConfirmationKey(InputOf(caller, i).confirmationKey, shown)
    BY <1>1, <1>2 DEF assertConfirmationKey
<1>4. PICK own, o : own = TokenOf(caller, i) /\ o = verify(process[i].engine, own, shown, clock + Skew[i], clock)
    OBVIOUS
<1>5. own \in Tokens /\ o.error = None /\ o.auth = IdentityOf(InputOf(caller, i))
    BY <1>3, <1>4, CallerIsTaken
<1>6. PICK method, path, params :
         method = route.method /\ path = route.path /\ params = route.params
    OBVIOUS
<1>7. method \in DOMAIN toUpperCase /\ path \in Paths
    BY <1>6, RoutesAssumption DEF Paths
<1>8. PICK request : request = [method |-> method, url |-> Url(Origin, path), accessToken |-> own]
    OBVIOUS
<1>9. PICK proof : proof = ProofOf(caller, request, Now)
    OBVIOUS
<1>10. PICK target : /\ To(target, path)
                     /\ wire = Wire(caller, method, target, <<Line(own)>>, <<proof>>, params)
    BY <1>4, <1>6, <1>8, <1>9, HonestSent
<1>11. PICK lines, proofs : lines = <<Line(own)>> /\ proofs = <<proof>>
    OBVIOUS
<1>12. wire = Wire(caller, method, target, lines, proofs, params)
    BY <1>10, <1>11
<1>13. wire.authorization = lines /\ wire.dpop = proofs
    BY <1>12, WireForm
<1>14. extractBearer(req) = own /\ own # None
    BY <1>5, <1>11, <1>13, BearerSeen
<1>15. PICK env, p : env = Env(i) /\ p = IF env.dpop = None THEN [error |-> None, jkt |-> None]
                                         ELSE establishProofOfPossession(env, req, own)
    OBVIOUS
<1>16. env.dpop = process[i].dpop /\ env.engine = process[i].engine
       /\ env.now = clock + Skew[i] /\ env.clock = clock
    BY <1>15, EnvOf
<1>17. p = [error |-> None, jkt |-> shown]
  <2>1. CASE site.binding # "dpop"
      BY <1>2, <1>15, <1>16, <2>1, DpopWhereBound
  <2>2. CASE site.binding = "dpop"
    <3>1. p = establishProofOfPossession(Env(i), req, own)
        BY <1>15, <1>16, <2>2, DpopWhereBound
    <3>2. Names(jwk, alg, key, jkt) /\ jkt # None /\ proof = ByKey(key, alg, jwk, Claims(request, Now))
        BY <1>1, <1>9 DEF SignsAs, Names, ByKey
    <3>3. FewLines(lines) /\ own \in {None} \cup Tokens /\ To(target, path)
        BY <1>5, <1>10, <1>11 DEF FewLines
    <3>4. wire = Wire(caller, method, target, lines, <<proof>>, params)
        BY <1>11, <1>12
    <3>5. establishProofOfPossession(Env(i), req, own) = [error |-> None, jkt |-> jkt]
        BY <1>7, <1>8, <2>2, <3>2, <3>3, <3>4, ShowsPossession
    <3> QED BY <1>2, <2>2, <3>1, <3>5
  <2> QED BY <2>1, <2>2
<1>18. v = WithProof(env, own, None, p)
    BY <1>14, <1>15 DEF Verdict, createVerify
<1>19. p.error = None /\ p.jkt = shown
    BY <1>17
<1>20. v = WithToken(env, None, o)
    BY <1>4, <1>16, <1>18, <1>19 DEF WithProof
<1> QED
    BY <1>5, <1>20 DEF WithToken, Pass

-----------------------------------------------------------------------------
(***************************************************************************)
(* The way of a request that every middleware lets through.                *)
(***************************************************************************)
\* So far it has been let through, as auth from the first verify() on.
OnItsWay(s, done, auth) ==
    /\ s = [view |-> s.view, context |-> s.context, error |-> s.error, buckets |-> s.buckets]
    /\ s.error = None /\ s.context = s.view /\ s.view \in {None, auth}
    /\ (\E m \in done : m.kind = "verify") => s.view = auth

\* A middleware that has nothing against auth.
Lets(m, done, env, req, auth) ==
    \/ m.kind \in {"verify", "rateLimit"}
    \/ (\E d \in done : d.kind = "verify") /\ Allowed(m, env, req, auth)

Admits(env, req, auth) ==
    auth # None /\ Verdict(env, req).error = None /\ Verdict(env, req).auth = auth

\* A request goes on when a middleware has nothing against it.
LEMMA GoesOnFrom ==
    ASSUME NEW s, NEW auth, s.context = s.view, s.view \in {None, auth},
           NEW done, (\E d \in done : d.kind = "verify") => s.view = auth,
           NEW m, NEW o, o.error = None, o.auth = auth \/ (o.auth = s.view /\ m.kind # "verify"),
           NEW r, r = Outcome(s, o)
    PROVE  OnItsWay(r, done \cup {m}, auth)
<1>1. PICK view, context, buckets : /\ view = o.auth /\ buckets = s.buckets \cup o.buckets
                                    /\ context = IF o.error = None /\ o.auth # None THEN o.auth ELSE s.context
    OBVIOUS
<1>2. r = [view |-> view, context |-> context, error |-> o.error, buckets |-> buckets]
    BY <1>1 DEF Outcome
<1>3. r = [view |-> view, context |-> context, error |-> None, buckets |-> buckets]
    BY <1>2
<1>4. r.view = view /\ r.context = context /\ r.buckets = buckets /\ r.error = None
    BY <1>3
<1>5. r = [view |-> r.view, context |-> r.context, error |-> r.error, buckets |-> r.buckets]
    BY <1>3, <1>4
<1>6. context = view /\ view \in {None, auth}
    BY <1>1
<1>7. (\E d \in done \cup {m} : d.kind = "verify") => view = auth
    BY <1>1
<1> QED
    BY <1>4, <1>5, <1>6, <1>7 DEF OnItsWay

\* Such a middleware lets it through.
LEMMA MiddlewareLets ==
    ASSUME NEW env, NEW req, NEW auth, Admits(env, req, auth), None \notin DOMAIN StatusOf,
           NEW s, NEW done, OnItsWay(s, done, auth), NEW m, Lets(m, done, env, req, auth)
    PROVE  OnItsWay(runOne(env, req, s, m), done \cup {m}, auth)
<1>1. PICK o, r : o = Middleware(m, env, req, s.view) /\ r = Outcome(s, o)
    OBVIOUS
<1>2. s.error = None /\ s.context = s.view /\ s.view \in {None, auth}
      /\ ((\E d \in done : d.kind = "verify") => s.view = auth)
    BY Zenon DEF OnItsWay
<1>3. runOne(env, req, s, m) = r
    BY <1>1, <1>2 DEF runOne
<1>4. o.error = None /\ (o.auth = auth \/ (o.auth = s.view /\ m.kind # "verify"))
  <2>1. CASE m.kind = "verify"
    <3>1. o = createVerify(env, req, s.view, extractBearer(req))
        BY <1>1, <2>1 DEF Middleware
    <3>2. o.error = Verdict(env, req).error /\ (o.error = None => o.auth = Verdict(env, req).auth)
        BY <3>1, VerifyAlike
    <3> QED BY <3>2 DEF Admits
  <2>2. CASE m.kind = "rateLimit"
    <3>1. o = createRateLimit(req, s.view, env.trustProxy)
        BY <1>1, <2>2 DEF Middleware
    <3> QED BY <2>2, <3>1 DEF createRateLimit
  <2>3. CASE m.kind \notin {"verify", "rateLimit"}
    <3>1. o = authorize(m, env, req, s.view)
        BY <1>1, <2>3 DEF Middleware
    <3>2. s.view = auth /\ auth # None /\ Allowed(m, env, req, auth)
        BY <1>2, <2>3 DEF Lets, Admits
    <3>3. o = Pass(auth)
        BY <3>1, <3>2 DEF authorize
    <3> QED BY <3>3 DEF Pass
  <2> QED BY <2>1, <2>2, <2>3
<1>5. OnItsWay(r, done \cup {m}, auth)
    BY <1>1, <1>2, <1>4, GoesOnFrom
<1> QED
    BY <1>3, <1>5

\* A chain all of whose middlewares let a request through.
ChainLets(chain, done, env, req, auth) ==
    \A k \in 1 .. Len(chain) : Lets(chain[k], done \cup PassedIn(chain, k - 1), env, req, auth)

\* So does a chain of them, one after the other.
LEMMA ChainLetsThrough ==
    ASSUME NEW env, NEW req, NEW auth, Admits(env, req, auth), None \notin DOMAIN StatusOf,
           NEW s, NEW done, OnItsWay(s, done, auth), NEW chain, Len(chain) \in Nat,
           ChainLets(chain, done, env, req, auth)
    PROVE  OnItsWay(Run(env, req, s, chain), done \cup PassedIn(chain, Len(chain)), auth)
<1>1. PICK f : /\ f[0] = s
               /\ \A k \in 1 .. Len(chain) : f[k] = runOne(env, req, f[k - 1], chain[k])
               /\ Run(env, req, s, chain) = f[Len(chain)]
    BY RunSteps
<1> DEFINE Fine(k) == OnItsWay(f[k], done \cup PassedIn(chain, k), auth)
           T == {k \in Nat : k <= Len(chain) => Fine(k)}
<1>2. 0 \in T
  <2>1. done \cup PassedIn(chain, 0) = done
      BY DEF PassedIn
  <2> QED BY <1>1, <2>1
<1>3. ASSUME NEW k \in Nat, k \in T PROVE k + 1 \in T
  <2>1. SUFFICES ASSUME k + 1 <= Len(chain) PROVE Fine(k + 1)
      OBVIOUS
  <2>2. Fine(k)
      BY <1>3, <2>1
  <2>3. f[k + 1] = runOne(env, req, f[k], chain[k + 1])
      BY <1>1, <2>1
  <2>4. done \cup PassedIn(chain, k + 1) = (done \cup PassedIn(chain, k)) \cup {chain[k + 1]}
    <3>1. 1 .. k + 1 = (1 .. k) \cup {k + 1}
        OBVIOUS
    <3> QED BY <3>1 DEF PassedIn
  <2>5. PICK t, m, d, n : t = f[k] /\ m = chain[k + 1] /\ d = done \cup PassedIn(chain, k) /\ n = k + 1
      OBVIOUS
  <2>6. OnItsWay(t, d, auth)
      BY <2>2, <2>5
  <2>7. Lets(m, d, env, req, auth)
    <3>1. n \in 1 .. Len(chain) /\ n - 1 = k
        BY <2>1, <2>5
    <3>2. Lets(chain[n], done \cup PassedIn(chain, n - 1), env, req, auth)
        BY <3>1 DEF ChainLets
    <3> QED BY <2>5, <3>1, <3>2
  <2>8. OnItsWay(runOne(env, req, t, m), d \cup {m}, auth)
      BY <2>6, <2>7, MiddlewareLets
  <2> QED BY <2>3, <2>4, <2>5, <2>8
<1> HIDE DEF T
<1>4. Len(chain) \in T
    BY <1>2, <1>3, AllNumbers
<1> QED
    BY <1>1, <1>4 DEF T

\* So it is whichever framework the chain is mounted on.
LEMMA MountLetsThrough ==
    ASSUME NEW framework \in Frameworks,
           NEW env, NEW req, NEW auth, Admits(env, req, auth), None \notin DOMAIN StatusOf,
           NEW s, NEW done, OnItsWay(s, done, auth), NEW chain, Len(chain) \in Nat,
           ChainLets(chain, done, env, req, auth)
    PROVE  OnItsWay(Mount(framework, env, req, s, chain), done \cup PassedIn(chain, Len(chain)), auth)
<1>1. PICK r : r = Run(env, req, s, chain)
    OBVIOUS
<1>2. OnItsWay(r, done \cup PassedIn(chain, Len(chain)), auth)
    BY <1>1, ChainLetsThrough
<1>3. s.error = None /\ s.context = s.view
    BY Zenon DEF OnItsWay
<1>4. [s EXCEPT !.view = s.context] = s
    BY <1>3, Zenon DEF OnItsWay
<1>5. Mount(framework, env, req, s, chain) = r
  <2>1. CASE framework \in {"hono", "koa"}
      BY <1>1, <1>3, <1>4, <2>1 DEF Mount, toHono, toKoa
  <2>2. CASE framework \in {"fastify", "express"}
      BY <1>1, <2>2 DEF Mount, toFastifyChain
  <2> QED BY <2>1, <2>2 DEF Frameworks
<1> QED
    BY <1>2, <1>5

\* Chains all of which let a request through.
ChainsLet(chains, env, req, auth) ==
    \A k \in 1 .. Len(chains) :
        Len(chains[k]) \in Nat /\ ChainLets(chains[k], Passed(chains, k - 1), env, req, auth)

\* Past all the chains, the handler answers.
LEMMA LetsThrough ==
    ASSUME NEW framework \in Frameworks,
           NEW env, NEW wire, NEW req, req = HttpRequest(framework, wire),
           NEW auth, Admits(env, req, auth), None \notin DOMAIN StatusOf,
           NEW chains, Len(chains) \in Nat, ChainsLet(chains, env, req, auth)
    PROVE  Handled(framework, env, wire, chains).status = 200
<1>1. PICK f : /\ f[0] = Arrived
               /\ \A k \in 1 .. Len(chains) : f[k] = Mount(framework, env, req, f[k - 1], chains[k])
               /\ Through(framework, env, req, chains) = f[Len(chains)]
    BY ThroughSteps
<1> DEFINE Fine(k) == OnItsWay(f[k], Passed(chains, k), auth)
           T == {k \in Nat : k <= Len(chains) => Fine(k)}
<1>2. 0 \in T
  <2>1. Passed(chains, 0) = {}
      BY DEF Passed
  <2>2. OnItsWay(Arrived, {}, auth)
      BY DEF OnItsWay, Arrived
  <2> QED BY <1>1, <2>1, <2>2
<1>3. ASSUME NEW k \in Nat, k \in T PROVE k + 1 \in T
  <2>1. SUFFICES ASSUME k + 1 <= Len(chains) PROVE Fine(k + 1)
      OBVIOUS
  <2>2. PICK t, d, chain, n : t = f[k] /\ d = Passed(chains, k) /\ chain = chains[k + 1] /\ n = k + 1
      OBVIOUS
  <2>3. OnItsWay(t, d, auth)
      BY <1>3, <2>1, <2>2
  <2>4. f[k + 1] = Mount(framework, env, req, t, chain)
      BY <1>1, <2>1, <2>2
  <2>5. Len(chain) \in Nat /\ ChainLets(chain, d, env, req, auth)
    <3>1. n \in 1 .. Len(chains) /\ n - 1 = k
        BY <2>1, <2>2
    <3>2. Len(chains[n]) \in Nat /\ ChainLets(chains[n], Passed(chains, n - 1), env, req, auth)
        BY <3>1 DEF ChainsLet
    <3> QED BY <2>2, <3>1, <3>2
  <2>6. OnItsWay(Mount(framework, env, req, t, chain), d \cup PassedIn(chain, Len(chain)), auth)
      BY <2>3, <2>5, MountLetsThrough
  <2>7. Passed(chains, k + 1) = d \cup PassedIn(chain, Len(chain))
    <3>1. 1 .. k + 1 = (1 .. k) \cup {k + 1}
        OBVIOUS
    <3> QED BY <2>2, <3>1 DEF Passed
  <2> QED BY <2>4, <2>6, <2>7
<1> HIDE DEF T
<1>4. Len(chains) \in T
    BY <1>2, <1>3, AllNumbers
<1>5. PICK s : s = f[Len(chains)]
    OBVIOUS
<1>6. OnItsWay(s, Passed(chains, Len(chains)), auth)
    BY <1>4, <1>5 DEF T
<1>7. s.error = None
    BY <1>6, Zenon DEF OnItsWay
<1> QED
    BY <1>1, <1>5, <1>7 DEF Handled, toErrorResponse

\* A request that an honest client sends is answered by its handler.
SignedInAt(caller, i) == InputOf(caller, i).authenticatedAt
UserOf(caller) == IF caller = "page" THEN Page ELSE Program

\* What the token of either says of its user.
LEMMA CallerSays ==
    ASSUME Settings, NEW i \in Instances, NEW caller, CallerCurrent(caller, i),
           NEW auth, auth = IdentityOf(InputOf(caller, i))
    PROVE  /\ Says(auth, UserOf(caller), SignedInAt(caller, i))
           /\ UserOf(caller) \in {Page, Program} /\ UserOf(caller).userId = caller
<1>1. PICK p, input : p = UserOf(caller) /\ input = InputOf(caller, i)
    OBVIOUS
<1>2. p \in {Page, Program} /\ p.userId = caller
    BY <1>1 DEF UserOf, CallerCurrent, Callers, Page, Program
<1>3. /\ input.principal = p /\ input.sessionId = p.userId
      /\ input.authenticatedAt \in Int /\ input.confirmationKey \in {None} \cup Thumbprints
  <2>1. CASE caller = "page"
    <3>1. input = PageInput /\ p = Page /\ token # None
        BY <1>1, <2>1 DEF InputOf, UserOf, CallerCurrent, PageCurrent
    <3> QED BY <3>1, InputsOK
  <2>2. CASE caller = "program"
    <3>1. input = ProgramInput(i) /\ p = Program
        BY <1>1, <2>2 DEF InputOf, UserOf
    <3> QED BY <3>1, InputsOK
  <2> QED BY <2>1, <2>2 DEF CallerCurrent, Callers
<1>4. /\ auth # None
      /\ auth.userId = p.userId /\ auth.roles = p.roles /\ auth.scopes = p.scopes
      /\ auth.tenant = p.tenant /\ auth.authenticatedAt = input.authenticatedAt
    BY <1>1, <1>2, <1>3, SomebodysIdentity
<1> QED
    BY <1>1, <1>2, <1>3, <1>4 DEF Says, SignedInAt

\* What the middlewares allow a user, they allow the user's identity.
LEMMA AllowedBack ==
    ASSUME NEW m, m.kind \in {"role", "allRoles", "scope", "owner", "tenant"},
           NEW env, NEW req, NEW route, req.params = route.params,
           NEW auth, NEW p, NEW at, Says(auth, p, at),
           Allowed(m, [now |-> 0], [params |-> route.params], p)
    PROVE  Allowed(m, env, req, auth)
<1>1. PICK brief, params : params = req.params /\ brief = [params |-> params]
    OBVIOUS
<1>2. brief.params = params /\ Allowed(m, [now |-> 0], brief, p)
    BY <1>1
<1>3. CASE m.kind = "role"
    BY <1>2, <1>3 DEF Allowed, Says, requireRole
<1>4. CASE m.kind = "allRoles"
    BY <1>2, <1>4 DEF Allowed, Says, requireAllRoles
<1>5. CASE m.kind = "scope"
    BY <1>2, <1>5 DEF Allowed, Says, requireScope
<1>6. CASE m.kind = "owner"
    BY <1>1, <1>2, <1>6 DEF Allowed, Says, requireOwner
<1>7. CASE m.kind = "tenant"
    BY <1>1, <1>2, <1>7 DEF Allowed, Says, requireTenant
<1> QED
    BY <1>3, <1>4, <1>5, <1>6, <1>7

\* The middlewares of a route let its users through.
RecentFor(freshFor, caller, i) ==
    freshFor = None \/ clock + Skew[i] - SignedInAt(caller, i) <= freshFor

\* Every middleware of a route allows its users.
LEMMA UserAllowed ==
    ASSUME Settings, NEW i \in Instances, NEW caller, CallerCurrent(caller, i),
           NEW route \in Routes, caller \in route.users, RecentFor(route.freshFor, caller, i),
           NEW auth, auth = IdentityOf(InputOf(caller, i)),
           NEW env, env.now = clock + Skew[i], NEW req, req.params = route.params,
           NEW m \in Asked(route), m.kind \notin {"verify", "rateLimit"}
    PROVE  Allowed(m, env, req, auth)
<1>1. PICK p, at : p = UserOf(caller) /\ at = SignedInAt(caller, i)
    OBVIOUS
<1>2. Says(auth, p, at) /\ p \in {Page, Program} /\ p.userId = caller
    BY <1>1, CallerSays
<1>3. CASE m.kind = "fresh"
  <2>1. route.freshFor # None /\ m.maxAgeSeconds \in Int /\ route.freshFor <= m.maxAgeSeconds
      BY <1>3, RoutesAssumption
  <2>2. route.freshFor \in Int
      BY <2>1, RoutesAssumption
  <2>3. PICK limit, age, now : limit = route.freshFor /\ age = m.maxAgeSeconds /\ now = clock + Skew[i]
      OBVIOUS
  <2>4. now \in Int
      BY <2>3, ServiceAssumption DEF Settings, TypesOK
  <2>6. at \in Int /\ auth.authenticatedAt = at
      BY <1>2 DEF Says
  <2>5. now - at <= limit
    <3>1. PICK here : here = Skew[i]
        OBVIOUS
    <3>2. clock + here - at <= limit /\ now = clock + here
        BY <1>1, <2>1, <2>3, <3>1, Zenon DEF RecentFor
    <3>3. clock \in Int /\ here \in Int
        BY <3>1, ServiceAssumption DEF Settings, TypesOK
    <3>4. clock + here - at = now - at
        BY <2>6, <3>2, <3>3
    <3> QED BY <3>2, <3>4, Zenon
  <2>7. now - at <= age
      BY <2>1, <2>2, <2>3, <2>4, <2>5, <2>6
  <2> QED BY <1>3, <2>3, <2>6, <2>7 DEF Allowed, requireFreshAuth
<1>4. CASE m.kind # "fresh"
  <2>1. m.kind \in {"role", "allRoles", "scope", "owner", "tenant"}
      BY <1>4, RoutesAssumption
  <2>2. AllowedUser(route, p)
      BY <1>2, RoutesAssumption
  <2>3. Allowed(m, [now |-> 0], [params |-> route.params], p)
      BY <1>4, <2>2, Zenon DEF AllowedUser
  <2> QED BY <1>2, <2>1, <2>3, AllowedBack
<1> QED
    BY <1>3, <1>4

\* In their order, they come after a verify().
LEMMA ChainsLetUser ==
    ASSUME NEW route \in Routes, route.users # {}, NEW env, NEW req, NEW auth,
           \A m \in Asked(route) : m.kind \notin {"verify", "rateLimit"} => Allowed(m, env, req, auth)
    PROVE  ChainsLet(route.chains, env, req, auth)
<1>1. PICK chains : chains = route.chains
    OBVIOUS
<1>2. Len(chains) \in Nat /\ \A c \in 1 .. Len(chains) : Len(chains[c]) \in Nat
    BY <1>1, RoutesAssumption, Zenon
<1>3. InOrder(route)
    BY RoutesAssumption
<1>4. SUFFICES ASSUME NEW c \in 1 .. Len(chains), NEW k \in 1 .. Len(chains[c]),
                      NEW m, m = chains[c][k], NEW done, done = Passed(chains, c - 1) \cup PassedIn(chains[c], k - 1)
               PROVE  Lets(m, done, env, req, auth)
    BY <1>1, <1>2 DEF ChainsLet, ChainLets
<1>5. CASE m.kind \in {"verify", "rateLimit"}
    BY <1>5 DEF Lets
<1>6. CASE m.kind \notin {"verify", "rateLimit"}
  <2>1. m \in Asked(route)
      BY <1>1, <1>4 DEF Asked
  <2>2. Allowed(m, env, req, auth)
      BY <1>6, <2>1
  <2>3. VerifiedBefore(route, c, k)
      BY <1>1, <1>3, <1>4, <1>6 DEF InOrder
  <2>4. \E d \in done : d.kind = "verify"
    <3>1. CASE \E b \in 1 .. c - 1 : \E j \in 1 .. Len(chains[b]) : chains[b][j].kind = "verify"
      <4>1. PICK b \in 1 .. c - 1 : \E j \in 1 .. Len(chains[b]) : chains[b][j].kind = "verify"
          BY <3>1
      <4>2. PICK j \in 1 .. Len(chains[b]) : chains[b][j].kind = "verify"
          BY <4>1
      <4>3. chains[b][j] \in PassedIn(chains[b], Len(chains[b]))
          BY DEF PassedIn
      <4>4. chains[b][j] \in Passed(chains, c - 1)
          BY <4>3 DEF Passed
      <4> QED BY <1>4, <4>2, <4>4
    <3>2. CASE \E j \in 1 .. k - 1 : chains[c][j].kind = "verify"
      <4>1. PICK j \in 1 .. k - 1 : chains[c][j].kind = "verify"
          BY <3>2
      <4>2. chains[c][j] \in PassedIn(chains[c], k - 1)
          BY DEF PassedIn
      <4> QED BY <1>4, <4>1, <4>2
    <3> QED BY <1>1, <2>3, <3>1, <3>2 DEF VerifiedBefore
  <2> QED BY <2>2, <2>4 DEF Lets
<1> QED
    BY <1>5, <1>6

\* So an honest request reaches its handler.
LEMMA HonestRequest ==
    ASSUME Settings, ReleasesOK, PageTokenOK, NEW i \in Instances, NEW caller, CallerCurrent(caller, i),
           NEW framework \in Frameworks, ~Unseen(framework),
           NEW route \in Routes, caller \in route.users, RecentFor(route.freshFor, caller, i),
           NEW mishap \in {"none", "absolute"},
           NEW wire, wire = Sent(caller, i, route, mishap)
    PROVE  Handled(framework, Env(i), wire, route.chains).status = 200
<1>1. PICK env, req, auth, chains :
         /\ env = Env(i) /\ req = HttpRequest(framework, wire)
         /\ auth = IdentityOf(InputOf(caller, i)) /\ chains = route.chains
    OBVIOUS
<1>2. Verdict(env, req).error = None /\ Verdict(env, req).auth = auth
    BY <1>1, HonestAdmitted
<1>3. auth # None
    BY <1>1, CallerSays DEF Says
<1>4. req.params = route.params
    BY <1>1, SentForm, RequestOf
<1>5. env.now = clock + Skew[i]
    BY <1>1, EnvOf
<1>6. \A m \in Asked(route) : m.kind \notin {"verify", "rateLimit"} => Allowed(m, env, req, auth)
    BY <1>1, <1>4, <1>5, UserAllowed
<1>7. ChainsLet(chains, env, req, auth)
    BY <1>1, <1>6, ChainsLetUser
<1>8. Len(chains) \in Nat
    BY <1>1, RoutesAssumption
<1>9. None \notin DOMAIN StatusOf
    BY NoneAssumption DEF Texts
<1>10. Admits(env, req, auth)
    BY <1>2, <1>3 DEF Admits
<1> QED
    BY <1>1, <1>7, <1>8, <1>9, <1>10, LetsThrough

-----------------------------------------------------------------------------
(***************************************************************************)
(* What the sender can count on stays so.                                  *)
(***************************************************************************)
\* A session is bound to the key of a tab that is open.
SessionKeyOK ==
    session # None /\ site.binding = "dpop" =>
        \E t \in Tabs : tab[t].pc = "ready" /\ session.jkt = ThumbprintOf(tab[t].key.key.id)

\* Where no readable key was found, all the tabs that are open sign with the stored one.
SharedKeyOK ==
    found # Keys!Legacy =>
        /\ stored \in {None} \cup {KeyOfTab(t) : t \in Tabs}
        /\ \A t \in Tabs : /\ tab[t].pc # "clear"
                           /\ tab[t].pc = "ready" => stored # None /\ tab[t].key = Described(stored.id)

Dependable == ReleasesOK /\ PageTokenOK /\ SessionKeyOK /\ SharedKeyOK

\* There are no more releases than keys.
LEMMA ReleaseCount ==
    MaxRelease \in 1 .. 3
<1>1. DOMAIN KidOf = 1 .. 3
    BY DEF KidOf
<1> QED
    BY <1>1, ReleasesAssumption

\* The first release is the one that every instance starts with.
LEMMA StartsDependable ==
    ASSUME Init
    PROVE  Dependable
<1>1. site \in Sites /\ release = 1 /\ MaxRelease \in 1 .. 3
    BY ReleaseCount DEF Init
<1>2. ASSUME NEW i \in Instances PROVE Served(process[i].engine)
  <2>1. SUFFICES ASSUME site.strategy = "paseto"
                 PROVE  \E r \in 1 .. release : ReleasedEngine(process[i].engine, r)
      BY DEF Served
  <2>2. PICK c, p : c = ConfigOf(site, 1) /\ p = Ninsho(c)
      OBVIOUS
  <2>3. process[i] = p /\ p # None
      BY <1>1, <2>2, FirstAssumption DEF Init
  <2>4. c \in Slips(ConfigOf(site, 1))
      BY <2>2, Zenon DEF Slips
  <2>5. OfRelease(c, 1)
      BY <2>1, <2>4, SlipsAreOfRelease
  <2>6. 1 \in DOMAIN KidOf
      BY DEF KidOf
  <2>7. ReleasedEngine(p.engine, 1)
      BY <2>2, <2>3, <2>5, <2>6, ReleaseComesUp
  <2> QED BY <1>1, <2>3, <2>7
<1>3. ReleasesOK
    BY <1>1, <1>2 DEF ReleasesOK
<1>4. PageTokenOK /\ SessionKeyOK
    BY DEF Init, PageTokenOK, SessionKeyOK
<1>5. SharedKeyOK
    BY DEF Init, SharedKeyOK, Keys!KeysInit
<1> QED
    BY <1>3, <1>4, <1>5 DEF Dependable

\* A release that there has been is not forgotten.
LEMMA ServedStays ==
    ASSUME NEW e, Served(e), site' = site, release \in Nat, release' \in Nat, release <= release'
    PROVE  Served(e)'
<1>1. SUFFICES ASSUME site.strategy = "paseto"
               PROVE  \E r \in 1 .. release' : ReleasedEngine(e, r)
    BY DEF Served, ReleasedEngine
<1>2. PICK r \in 1 .. release : ReleasedEngine(e, r)
    BY <1>1 DEF Served
<1>3. r \in 1 .. release'
    BY <1>2
<1> QED
    BY <1>2, <1>3

\* Nor does an instance change that is not replaced.
LEMMA ReleasesStay ==
    ASSUME ReleasesOK, UNCHANGED <<site, process>>,
           release' \in 1 .. MaxRelease, release <= release'
    PROVE  ReleasesOK'
<1>1. release \in Nat /\ release' \in Nat
  <2>1. MaxRelease \in Nat
      BY ReleaseCount
  <2> QED BY <2>1 DEF ReleasesOK
<1>2. ASSUME NEW i \in Instances PROVE Served(process[i].engine)'
  <2>1. PICK e : e = process[i].engine
      OBVIOUS
  <2>2. Served(e)'
      BY <1>1, <2>1, ServedStays DEF ReleasesOK
  <2>3. process'[i].engine = e
      BY <2>1
  <2> QED BY <2>2, <2>3 DEF Served
<1> QED
    BY <1>2 DEF ReleasesOK

\* Nor is it which instance handed over the token.
LEMMA PageTokenStays ==
    ASSUME PageTokenOK, UNCHANGED <<site, session, token>>,
           release \in Nat, release' \in Nat, release <= release',
           clock \in Nat, clock' \in Nat, clock <= clock'
    PROVE  PageTokenOK'
<1>1. SUFFICES ASSUME token # None PROVE PageTokenOK'
    BY DEF PageTokenOK
<1>2. PICK e : \E j \in Instances : HandedBy(e, j)
    BY <1>1 DEF PageTokenOK
<1>3. PICK j \in Instances : HandedBy(e, j)
    BY <1>2
<1>4. Served(e)'
    BY <1>3, ServedStays DEF HandedBy
<1>5. token'.at \in 0 .. clock'
    BY <1>3 DEF HandedBy
<1>6. PICK then, before : then = token.at + Skew[j] /\ before = token.at
    OBVIOUS
<1>7. HandedOver(e, then, before)
    BY <1>3, <1>6 DEF HandedBy
<1>8. HandedOver(e, then, before)'
    BY <1>7 DEF HandedOver, EngineOK, PageInput
<1>9. HandedBy(e, j)'
    BY <1>4, <1>5, <1>6, <1>8 DEF HandedBy
<1> QED
    BY <1>9 DEF PageTokenOK

\* The session's key, when open tabs keep theirs.
LEMMA SessionKeyStays ==
    ASSUME SessionKeyOK, UNCHANGED <<site, session>>,
           \A t \in Tabs : tab[t].pc = "ready" => tab'[t] = tab[t]
    PROVE  SessionKeyOK'
<1>1. SUFFICES ASSUME session # None, site.binding = "dpop" PROVE SessionKeyOK'
    BY DEF SessionKeyOK
<1>2. PICK t \in Tabs : tab[t].pc = "ready" /\ session.jkt = ThumbprintOf(tab[t].key.key.id)
    BY <1>1 DEF SessionKeyOK
<1>3. tab'[t] = tab[t]
    BY <1>2
<1> QED
    BY <1>2, <1>3 DEF SessionKeyOK

\* The shared key, when no tab does anything.
LEMMA SharedKeyStays ==
    ASSUME SharedKeyOK, UNCHANGED <<found, stored, tab>>
    PROVE  SharedKeyOK'
BY DEF SharedKeyOK

\* The first tab's key is every tab's.
LEMMA TabShares ==
    ASSUME SharedKeyOK, KeysOK, found # Keys!Legacy, found' = found,
           NEW t \in Tabs, NEW pc, NEW key, Keys!Become(t, pc, key), pc # "clear",
           stored' \in {None} \cup {KeyOfTab(u) : u \in Tabs},
           stored # None => stored' = stored,
           pc = "ready" => stored' # None /\ key = Described(stored'.id)
    PROVE  SharedKeyOK'
<1>1. tab' = [tab EXCEPT ![t] = [pc |-> pc, key |-> key]]
    BY DEF Keys!Become
<1>2. \A u \in Tabs : tab'[u] = IF u = t THEN [pc |-> pc, key |-> key] ELSE tab[u]
    BY <1>1 DEF KeysOK
<1>3. ASSUME NEW u \in Tabs
      PROVE  /\ tab'[u].pc # "clear"
             /\ tab'[u].pc = "ready" => stored' # None /\ tab'[u].key = Described(stored'.id)
  <2>1. CASE u = t
    <3>1. PICK record : record = [pc |-> pc, key |-> key]
        OBVIOUS
    <3>2. record.pc = pc /\ record.key = key
        BY <3>1
    <3>3. tab'[u] = record
        BY <1>2, <2>1, <3>1
    <3> QED BY <3>2, <3>3
  <2>2. CASE u # t
    <3>1. tab'[u] = tab[u]
        BY <1>2, <2>2
    <3> QED BY <3>1 DEF SharedKeyOK
  <2> QED BY <2>1, <2>2
<1>4. Keys!Legacy' = Keys!Legacy
    BY DEF Keys!Legacy
<1> QED
    BY <1>3, <1>4 DEF SharedKeyOK

\* Tabs that open come to the stored key.
LEMMA TabsShare ==
    ASSUME SharedKeyOK, KeysOK, Keys!KeysNext, found' = found
    PROVE  SharedKeyOK'
<1>1. PICK t \in Tabs : Keys!Load(t) \/ Keys!Clear(t) \/ Keys!GetOrCreate(t)
    BY DEF Keys!KeysNext
<1>2. SUFFICES ASSUME found # Keys!Legacy PROVE SharedKeyOK'
    BY DEF SharedKeyOK, Keys!Legacy
<1>3. stored \in {None} \cup {KeyOfTab(u) : u \in Tabs}
    BY <1>2 DEF SharedKeyOK
<1>4. stored # None => ~stored.extractable /\ describeKey(stored) = Described(stored.id)
  <2>1. SUFFICES ASSUME stored # None
                 PROVE  ~stored.extractable /\ describeKey(stored) = Described(stored.id)
      OBVIOUS
  <2>2. PICK u \in Tabs : stored = KeyOfTab(u)
      BY <1>3, <2>1
  <2>3. Described(u).key.id = u /\ Described(u).key = KeyOfTab(u)
        /\ KeyOfTab(u).extractable = FALSE /\ describeKey(KeyOfTab(u)) = Described(u)
      BY KeyDescribed
  <2> QED BY <2>2, <2>3
<1>5. CASE Keys!Load(t)
  <2>1. stored' = stored
      BY <1>5 DEF Keys!Load
  <2>2. CASE stored = None
    <3>1. Keys!Become(t, "create", None)
        BY <1>5, <2>2 DEF Keys!Load
    <3> QED BY <1>2, <1>3, <2>1, <3>1, TabShares
  <2>3. CASE stored # None
    <3>1. Keys!Become(t, "ready", describeKey(stored))
        BY <1>4, <1>5, <2>3, SameDescription DEF Keys!Load
    <3>2. PICK key : key = describeKey(stored)
        OBVIOUS
    <3>3. key = Described(stored'.id) /\ stored' # None
        BY <1>4, <2>1, <2>3, <3>2
    <3> QED BY <1>2, <1>3, <2>1, <3>1, <3>2, <3>3, TabShares
  <2> QED BY <2>2, <2>3
<1>6. CASE Keys!Clear(t)
    BY <1>2, <1>6 DEF Keys!Clear, SharedKeyOK
<1>7. CASE Keys!GetOrCreate(t)
  <2>1. PICK candidate, winner :
           /\ candidate = generateDpopKey(t)
           /\ winner = IF (IF stored = None THEN FALSE ELSE ~stored.extractable)
                       THEN stored ELSE candidate
      OBVIOUS
  <2>2. stored' = winner /\ Keys!Become(t, "ready", describeKey(winner))
    <3>1. candidate = Keys!generateDpopKey(t)
        BY <2>1 DEF Keys!generateDpopKey, generateDpopKey
    <3> QED BY <1>7, <2>1, <3>1, SameDescription DEF Keys!GetOrCreate
  <2>3. \/ stored # None /\ winner = stored
        \/ stored = None /\ winner = KeyOfTab(t)
      BY <1>4, <2>1, KeyDescribed
  <2>4. KeyOfTab(t) # None /\ describeKey(KeyOfTab(t)) = Described(t) /\ KeyOfTab(t).id = t
    <3>1. KeyOfTab(t) \in [id : Tabs, crv : {"P-256"}, extractable : {FALSE}]
        BY DEF KeyOfTab
    <3>2. Described(t).key.id = t /\ Described(t).key = KeyOfTab(t) /\ describeKey(KeyOfTab(t)) = Described(t)
        BY KeyDescribed
    <3> QED BY <3>1, <3>2, NoneAssumption
  <2>5. winner # None /\ describeKey(winner) = Described(winner.id)
      BY <1>4, <2>3, <2>4
  <2>6. PICK key : key = describeKey(winner)
      OBVIOUS
  <2>7. key = Described(stored'.id) /\ stored' # None
      BY <2>2, <2>5, <2>6
  <2>8. stored' \in {None} \cup {KeyOfTab(u) : u \in Tabs} /\ (stored # None => stored' = stored)
      BY <1>3, <2>2, <2>3
  <2>9. Keys!Become(t, "ready", key)
      BY <2>2, <2>6
  <2> QED BY <1>2, <2>7, <2>8, <2>9, TabShares
<1> QED
    BY <1>1, <1>5, <1>6, <1>7

\* Nothing that the sender counts on changes.
LEMMA QuietDependable ==
    ASSUME Settings, Dependable,
           UNCHANGED <<clock, site, release, process, stored, tab, found, token, session>>
    PROVE  Dependable'
<1>1. release \in Nat /\ clock \in Nat /\ release \in 1 .. MaxRelease /\ release <= release /\ clock <= clock
    BY DEF Settings, TypesOK, Dependable, ReleasesOK
<1>2. ReleasesOK' /\ PageTokenOK'
    BY <1>1, ReleasesStay, PageTokenStays DEF Dependable
<1> QED
    BY <1>2, SessionKeyStays, SharedKeyStays DEF Dependable

\* What is deployed is the release.
LEMMA DeployDependable ==
    ASSUME Settings, Dependable, NEW i \in Instances, NEW c \in Slips(ConfigOf(site, release)), Deploy(i, c)
    PROVE  Dependable'
<1>1. UNCHANGED <<clock, site, release, stored, tab, found, page, token, session>>
    BY DEF Deploy, Quiet
<1>2. PICK p : p = Ninsho(c)
    OBVIOUS
<1>3. process' = [process EXCEPT ![i] = IF p = None THEN @ ELSE p]
    BY <1>2 DEF Deploy
<1>4. release \in Nat /\ clock \in Nat /\ release \in 1 .. MaxRelease /\ release <= release /\ clock <= clock
    BY DEF Settings, TypesOK, Dependable, ReleasesOK
<1>5. ASSUME p # None PROVE Served(p.engine)
  <2>1. SUFFICES ASSUME site.strategy = "paseto" PROVE \E r \in 1 .. release : ReleasedEngine(p.engine, r)
      BY DEF Served
  <2>2. release \in 1 .. release
      BY <1>4
  <2>3. release \in DOMAIN KidOf
      BY <2>2, ReleaseNumbers DEF Dependable
  <2>4. OfRelease(c, release)
      BY <2>1, SlipsAreOfRelease
  <2>5. ReleasedEngine(p.engine, release)
      BY <1>2, <1>5, <2>3, <2>4, ReleaseComesUp
  <2> QED BY <2>2, <2>5
<1>6. ASSUME NEW j \in Instances PROVE Served(process[j].engine)'
  <2>1. process'[j] = process[j] \/ (p # None /\ process'[j] = p)
      BY <1>3
  <2>2. PICK e : e = process'[j].engine
      OBVIOUS
  <2>3. Served(e)
    <3>1. CASE process'[j] = process[j]
        BY <2>2, <3>1 DEF Dependable, ReleasesOK
    <3>2. CASE p # None /\ process'[j] = p
        BY <1>5, <2>2, <3>2
    <3> QED BY <2>1, <3>1, <3>2
  <2>4. Served(e)'
      BY <1>1, <1>4, <2>3, ServedStays
  <2> QED BY <2>2, <2>4 DEF Served
<1>7. ReleasesOK'
    BY <1>1, <1>4, <1>6 DEF ReleasesOK
<1>8. PageTokenOK'
    BY <1>1, <1>4, PageTokenStays DEF Dependable
<1> QED
    BY <1>1, <1>7, <1>8, SessionKeyStays, SharedKeyStays DEF Dependable

\* A release more, and what runs is one that there has been.
LEMMA RotateDependable ==
    ASSUME Settings, Dependable, Rotate
    PROVE  Dependable'
<1>1. /\ UNCHANGED <<clock, site, process, stored, tab, found, page, token, session>>
      /\ release' = release + 1 /\ release < MaxRelease
    BY DEF Rotate, Quiet
<1>2. MaxRelease \in Nat
    BY ReleaseCount
<1>3. /\ release \in Nat /\ clock \in Nat /\ release' \in Nat
      /\ release <= release' /\ clock <= clock /\ release' \in 1 .. MaxRelease
    BY <1>1, <1>2 DEF Settings, TypesOK, Dependable, ReleasesOK
<1>4. ReleasesOK' /\ PageTokenOK'
    BY <1>1, <1>3, ReleasesStay, PageTokenStays DEF Dependable
<1> QED
    BY <1>1, <1>4, SessionKeyStays, SharedKeyStays DEF Dependable

\* Time passes, and the token is from before.
LEMMA TickDependable ==
    ASSUME Settings, Dependable, Tick
    PROVE  Dependable'
<1>1. /\ UNCHANGED <<site, release, process, stored, tab, found, page, token, session>>
      /\ clock' = clock + 1
    BY DEF Tick, Quiet
<1>2. /\ release \in Nat /\ clock \in Nat /\ clock' \in Nat /\ release \in 1 .. MaxRelease
      /\ release <= release /\ clock <= clock'
    BY <1>1 DEF Settings, TypesOK, Dependable, ReleasesOK
<1>3. ReleasesOK' /\ PageTokenOK'
    BY <1>1, <1>2, ReleasesStay, PageTokenStays DEF Dependable
<1> QED
    BY <1>1, <1>3, SessionKeyStays, SharedKeyStays DEF Dependable

\* A tab that opens signs with the stored key, and those that are open go on.
LEMMA OpenTabDependable ==
    ASSUME Settings, Dependable, OpenTab
    PROVE  Dependable'
<1>1. UNCHANGED <<clock, site, release, process, found, page, token, session>> /\ Keys!KeysNext
    BY DEF OpenTab
<1>2. /\ release \in Nat /\ clock \in Nat /\ release \in 1 .. MaxRelease
      /\ release <= release /\ clock <= clock
    BY DEF Settings, TypesOK, Dependable, ReleasesOK
<1>3. ReleasesOK' /\ PageTokenOK'
    BY <1>1, <1>2, ReleasesStay, PageTokenStays DEF Dependable
<1>4. SessionKeyOK'
    BY <1>1, TabsOpen, SessionKeyStays DEF Settings, Dependable
<1>5. SharedKeyOK'
    BY <1>1, TabsShare DEF Settings, Dependable
<1> QED
    BY <1>3, <1>4, <1>5 DEF Dependable

\* The other tab has no token, and the session stays.
LEMMA SwitchDependable ==
    ASSUME Settings, Dependable, NEW t \in Tabs, Switch(t)
    PROVE  Dependable'
<1>1. /\ UNCHANGED <<clock, site, release, process, stored, tab, found, session>>
      /\ token' = None
    BY DEF Switch
<1>2. release \in 1 .. MaxRelease /\ release <= release
    BY DEF Settings, TypesOK, Dependable, ReleasesOK
<1>3. ReleasesOK'
    BY <1>1, <1>2, ReleasesStay DEF Dependable
<1>4. PageTokenOK'
    BY <1>1 DEF PageTokenOK
<1> QED
    BY <1>1, <1>3, <1>4, SessionKeyStays, SharedKeyStays DEF Dependable

\* A token that is handed over is an instance's of a release.
LEMMA HandedByInstance ==
    ASSUME Settings, ReleasesOK, NEW i \in Instances, NEW jkt, NEW at, Hand(i, jkt, at),
           session'.jkt = jkt, session'.authenticatedAt = at,
           UNCHANGED <<clock, site, release>>
    PROVE  PageTokenOK'
<1>1. PICK e, now, before : e = process[i].engine /\ now = clock + Skew[i] /\ before = clock
    OBVIOUS
<1>2. PICK input : input = [sessionId |-> "page", principal |-> Page, authenticatedAt |-> at,
                            confirmationKey |-> jkt]
    OBVIOUS
<1>3. token' = [at |-> before, until |-> now + Ttl, value |-> issue(e, input, now, before)]
  <2>1. PICK until : until = now + Ttl
      OBVIOUS
  <2>2. clock + Skew[i] + Ttl = until
      BY <1>1, <2>1
  <2> QED BY <1>1, <1>2, <2>1, <2>2 DEF Hand
<1>4. token'.at = before /\ token'.until = now + Ttl /\ token'.value = issue(e, input, now, before)
    BY <1>3
<1>5. PageInput' = input
    BY <1>2 DEF PageInput
<1>6. EngineOK(e) /\ now \in Int /\ before \in 0 .. clock /\ Served(e)
    BY <1>1, ServiceAssumption DEF Settings, TypesOK, InstancesOK, InstanceOK, ReleasesOK
<1>7. HandedOver(e, now, before)'
    BY <1>4, <1>5, <1>6 DEF HandedOver, EngineOK
<1>8. token'.at + Skew[i] = now
    BY <1>1, <1>4
<1>9. Served(e)'
    BY <1>6 DEF Served, ReleasedEngine
<1>10. HandedBy(e, i)'
    BY <1>4, <1>6, <1>7, <1>8, <1>9 DEF HandedBy
<1> QED
    BY <1>10 DEF PageTokenOK

\* A sign-in binds the session to the key of the tab in use.
LEMMA SignInDependable ==
    ASSUME Settings, Dependable, NEW i \in Instances, NEW framework \in Frameworks, SignIn(i, framework)
    PROVE  Dependable'
<1>1. /\ UNCHANGED <<clock, site, release, process, stored, tab, found, page>>
      /\ Keys!Ready(page)
    BY DEF SignIn
<1>2. PICK p : p = Possessed(i, framework, "login")
    OBVIOUS
<1>3. CASE p.error # None
  <2>1. UNCHANGED <<token, session>>
      BY <1>2, <1>3 DEF SignIn
  <2> QED BY <1>1, <2>1, QuietDependable
<1>4. CASE p.error = None
  <2>1. PICK jkt, at : jkt = p.jkt /\ at = clock + Skew[i]
      OBVIOUS
  <2>2. session' = [jkt |-> jkt, authenticatedAt |-> at] /\ Hand(i, jkt, at)
      BY <1>2, <1>4, <2>1 DEF SignIn
  <2>3. KeyInUse \in Tabs /\ jkt = IF site.binding = "dpop" THEN ThumbprintOf(KeyInUse) ELSE None
      BY <1>1, <1>2, <1>4, <2>1, PossessionOfTab
  <2>4. session'.jkt = jkt /\ session'.authenticatedAt = at
      BY <2>2
  <2>5. PageTokenOK'
      BY <1>1, <2>2, <2>4, HandedByInstance DEF Dependable
  <2>6. SessionKeyOK'
    <3>1. SUFFICES ASSUME site.binding = "dpop"
                   PROVE  \E t \in Tabs : /\ tab[t].pc = "ready"
                                          /\ session'.jkt = ThumbprintOf(tab[t].key.key.id)
        BY <1>1 DEF SessionKeyOK
    <3>2. page \in Tabs
        BY DEF Settings, TypesOK
    <3> QED BY <1>1, <2>3, <2>4, <3>1, <3>2 DEF Keys!Ready, KeyInUse
  <2>7. release \in 1 .. MaxRelease /\ release <= release
      BY DEF Settings, TypesOK, Dependable, ReleasesOK
  <2>8. ReleasesOK'
      BY <1>1, <2>7, ReleasesStay DEF Dependable
  <2> QED BY <1>1, <2>5, <2>6, <2>8, SharedKeyStays DEF Dependable
<1> QED
    BY <1>3, <1>4

\* A refresh leaves the session as it is.
LEMMA RefreshDependable ==
    ASSUME Settings, Dependable, NEW i \in Instances, NEW framework \in Frameworks, Refresh(i, framework)
    PROVE  Dependable'
<1>1. UNCHANGED <<clock, site, release, process, stored, tab, found, page, session>>
    BY DEF Refresh
<1>2. PICK p, jkt, at : /\ p = Possessed(i, framework, "refresh")
                        /\ jkt = session.jkt /\ at = session.authenticatedAt
    OBVIOUS
<1>3. UNCHANGED token \/ Hand(i, jkt, at)
  <2>1. PICK error :
           error = IF p.error # None THEN p.error
                   ELSE IF session.jkt # None /\ session.jkt # p.jkt THEN "TokenInvalid" ELSE None
      OBVIOUS
  <2>2. IF error # None THEN UNCHANGED token ELSE Hand(i, session.jkt, session.authenticatedAt)
      BY <1>2, <2>1 DEF Refresh
  <2> QED BY <1>2, <2>2
<1>4. CASE UNCHANGED token
    BY <1>1, <1>4, QuietDependable
<1>5. CASE Hand(i, jkt, at)
  <2>1. session'.jkt = jkt /\ session'.authenticatedAt = at
      BY <1>1, <1>2
  <2>2. PageTokenOK'
      BY <1>1, <1>5, <2>1, HandedByInstance DEF Dependable
  <2>3. release \in 1 .. MaxRelease /\ release <= release
      BY DEF Settings, TypesOK, Dependable, ReleasesOK
  <2>4. ReleasesOK'
      BY <1>1, <2>3, ReleasesStay DEF Dependable
  <2> QED BY <1>1, <2>2, <2>4, SessionKeyStays, SharedKeyStays DEF Dependable
<1> QED
    BY <1>3, <1>4, <1>5

\* Every step keeps what the sender counts on.
LEMMA StepDependable ==
    ASSUME Settings, Dependable, [Next]_vars
    PROVE  Dependable'
<1>1. CASE Answer
    BY <1>1, QuietDependable DEF Answer
<1>2. CASE OpenTab
    BY <1>2, OpenTabDependable
<1>3. CASE Rotate
    BY <1>3, RotateDependable
<1>4. CASE Tick
    BY <1>4, TickDependable
<1>5. CASE \E t \in Tabs : Switch(t)
    BY <1>5, SwitchDependable
<1>6. CASE \E i \in Instances : \E c \in Slips(ConfigOf(site, release)) : Deploy(i, c)
    BY <1>6, DeployDependable
<1>7. CASE \E i \in Instances : \E f \in Frameworks : Call(i, f)
  <2>1. PICK i \in Instances, f \in Frameworks : Call(i, f)
      BY <1>7
  <2>2. CASE SignIn(i, f)
      BY <2>2, SignInDependable
  <2>3. CASE Refresh(i, f)
      BY <2>3, RefreshDependable
  <2>4. CASE \E caller \in {"page", "program"}, r \in Routes, m \in Mishaps :
                Befalls(m, caller, f, r) /\ Request(caller, i, f, r, m)
      BY <2>4, QuietDependable DEF Request
  <2> QED BY <2>1, <2>2, <2>3, <2>4 DEF Call
<1>8. CASE UNCHANGED vars
    BY <1>8, QuietDependable DEF vars
<1> QED
    BY <1>1, <1>2, <1>3, <1>4, <1>5, <1>6, <1>7, <1>8 DEF Next, Frameworks

\* Who is honest is the same after an exchange.
LEMMA HonestStays ==
    ASSUME Still, NEW x
    PROVE  Honest(x)' = Honest(x)
<1>1. Unseen(x.framework)' = Unseen(x.framework) /\ Parted' = Parted
    BY DEF Still, Unseen, Parted, Keys!Legacy
<1>2. Current(x)' = Current(x)
    BY DEF Still, Current
<1>3. Recent(x, x.route.freshFor)' = Recent(x, x.route.freshFor)
    BY DEF Still, Recent, AuthenticatedAt
<1> QED
    BY <1>1, <1>2, <1>3 DEF Honest

\* Statuses of the errors and of none.
LEMMA StatusOfNone ==
    toErrorResponse(None) = 200
BY DEF toErrorResponse

\* A page that signs in is let in.
LEMMA SignInHonest ==
    ASSUME Settings, NEW i \in Instances, NEW framework \in Frameworks, ~Unseen(framework),
           SignIn(i, framework)
    PROVE  exchange'.status = 200
<1>1. Keys!Ready(page)
    BY DEF SignIn
<1>2. PICK p, jkt : /\ p = Possessed(i, framework, "login")
                    /\ jkt = IF site.binding = "dpop" THEN ThumbprintOf(KeyInUse) ELSE None
    OBVIOUS
<1>3. p = [error |-> None, jkt |-> jkt]
    BY <1>1, <1>2, PageShows
<1>4. p.error = None
    BY <1>3
<1>5. Ended("signIn", i, framework, None)
    BY <1>2, <1>4 DEF SignIn
<1>6. exchange' = [kind |-> "signIn", instance |-> i, framework |-> framework, status |-> 200]
    BY <1>5, StatusOfNone DEF Ended
<1> QED
    BY <1>6

\* Tabs that have not parted sign with one key, the session's.
LEMMA SessionKeyInUse ==
    ASSUME Settings, SessionKeyOK, SharedKeyOK, ~Parted, Keys!Ready(page), session # None,
           site.binding = "dpop"
    PROVE  session.jkt = ThumbprintOf(KeyInUse)
<1>1. PICK t \in Tabs : tab[t].pc = "ready" /\ session.jkt = ThumbprintOf(tab[t].key.key.id)
    BY DEF SessionKeyOK
<1>2. page \in Tabs /\ tab[page].pc = "ready"
    BY DEF Settings, TypesOK, Keys!Ready
<1>3. tab[t].key = tab[page].key
  <2>1. CASE found = Keys!Legacy
      BY <1>2, <2>1 DEF Parted
  <2>2. CASE found # Keys!Legacy
      BY <1>1, <1>2, <2>2 DEF SharedKeyOK
  <2> QED BY <2>1, <2>2
<1> QED
    BY <1>1, <1>3 DEF KeyInUse

\* A page that renews its session is let go on.
LEMMA RefreshHonest ==
    ASSUME Settings, Dependable, NEW i \in Instances, NEW framework \in Frameworks, ~Unseen(framework),
           ~Parted, Refresh(i, framework)
    PROVE  exchange'.status = 200
<1>1. Keys!Ready(page) /\ session # None
    BY DEF Refresh
<1>2. PICK p, jkt : /\ p = Possessed(i, framework, "refresh")
                    /\ jkt = IF site.binding = "dpop" THEN ThumbprintOf(KeyInUse) ELSE None
    OBVIOUS
<1>3. p = [error |-> None, jkt |-> jkt]
    BY <1>1, <1>2, PageShows
<1>4. p.error = None /\ p.jkt = jkt
    BY <1>3
<1>5. session.jkt = jkt
  <2>1. CASE site.binding = "dpop"
      BY <1>1, <1>2, <2>1, SessionKeyInUse DEF Dependable
  <2>2. CASE site.binding # "dpop"
      BY <1>1, <1>2, <2>2 DEF Settings, SessionOK
  <2> QED BY <2>1, <2>2
<1>6. PICK error :
         error = IF p.error # None THEN p.error
                 ELSE IF session.jkt # None /\ session.jkt # p.jkt THEN "TokenInvalid" ELSE None
    OBVIOUS
<1>7. error = None
    BY <1>4, <1>5, <1>6
<1>8. Ended("refresh", i, framework, error)
    BY <1>2, <1>6 DEF Refresh
<1>9. exchange' = [kind |-> "refresh", instance |-> i, framework |-> framework, status |-> 200]
    BY <1>7, <1>8, StatusOfNone DEF Ended
<1> QED
    BY <1>9

\* A request of somebody who may make it reaches its handler.
LEMMA RequestHonest ==
    ASSUME Settings, Dependable, NEW i \in Instances, NEW caller \in {"page", "program"},
           NEW framework \in Frameworks, NEW route \in Routes, NEW mishap,
           Request(caller, i, framework, route, mishap)
    PROVE  HonestIsServed'
<1>1. Still
    BY DEF Request, Still
<1>2. PICK wire, r : /\ wire = Sent(caller, i, route, mishap)
                     /\ r = Handled(framework, Env(i), wire, route.chains)
    OBVIOUS
<1>3. PICK auth, buckets, status : /\ auth = IF r.status = 200 THEN r.auth ELSE None
                                   /\ buckets = r.buckets /\ status = r.status
    OBVIOUS
<1>4. PICK x : x = [kind |-> "request", caller |-> caller, instance |-> i, framework |-> framework,
                    route |-> route, mishap |-> mishap, status |-> status, auth |-> auth, buckets |-> buckets]
    OBVIOUS
<1>5. exchange' = x
    BY <1>2, <1>3, <1>4 DEF Request
<1>6. /\ x.kind = "request" /\ x.caller = caller /\ x.instance = i /\ x.framework = framework
      /\ x.route = route /\ x.mishap = mishap /\ x.status = status
    BY <1>4
<1>7. ASSUME Honest(x) PROVE status = 200
  <2>1. /\ ~Unseen(framework) /\ mishap \in {"none", "absolute"} /\ caller \in route.users
        /\ Current(x) /\ Recent(x, route.freshFor)
      BY <1>6, <1>7 DEF Honest
  <2>2. CallerCurrent(caller, i)
      BY <1>6, <2>1 DEF Current, CallerCurrent, PageCurrent, Callers, Request
  <2>3. RecentFor(route.freshFor, caller, i)
    <3>1. AuthenticatedAt(x) = SignedInAt(caller, i)
      <4>1. CASE caller = "program"
          BY <1>6, <4>1, InputsOK DEF AuthenticatedAt, SignedInAt, InputOf
      <4>2. CASE caller = "page"
          BY <1>6, <4>2, InputsOK DEF AuthenticatedAt, SignedInAt, InputOf
      <4> QED BY <4>1, <4>2
    <3> QED BY <1>6, <2>1, <3>1 DEF Recent, RecentFor
  <2>4. Handled(framework, Env(i), wire, route.chains).status = 200
      BY <1>2, <2>1, <2>2, <2>3, HonestRequest DEF Dependable
  <2> QED BY <1>2, <1>3, <2>4
<1>8. Honest(x)' = Honest(x)
    BY <1>1, HonestStays
<1> QED
    BY <1>5, <1>6, <1>7, <1>8 DEF HonestIsServed

\* So it is with every step.
LEMMA StepHonest ==
    ASSUME Settings, Dependable, HonestIsServed, [Next]_vars
    PROVE  HonestIsServed'
<1>1. CASE exchange' = None
    BY <1>1 DEF HonestIsServed
<1>2. CASE UNCHANGED vars
  <2>1. PICK x : x = exchange
      OBVIOUS
  <2>2. Still /\ exchange' = x
      BY <1>2, <2>1 DEF vars, Still
  <2>3. Honest(x)' = Honest(x)
      BY <2>2, HonestStays
  <2> QED BY <2>1, <2>2, <2>3 DEF HonestIsServed
<1>3. CASE Answer
    BY <1>1, <1>3 DEF Answer
<1>4. CASE exchange = None /\ (OpenTab \/ Rotate \/ Tick \/ \E t \in Tabs : Switch(t))
    BY <1>1, <1>4 DEF OpenTab, Rotate, Tick, Switch, Quiet
<1>5. CASE /\ exchange = None
           /\ \E i \in Instances : \E c \in Slips(ConfigOf(site, release)) : Deploy(i, c)
    BY <1>1, <1>5 DEF Deploy, Quiet
<1>6. CASE \E i \in Instances : \E f \in Frameworks : Call(i, f)
  <2>1. PICK i \in Instances, f \in Frameworks : Call(i, f)
      BY <1>6
  <2>2. CASE SignIn(i, f)
    <3>1. PICK error : Ended("signIn", i, f, error)
        BY <2>2 DEF SignIn
    <3>2. PICK status : status = toErrorResponse(error)
        OBVIOUS
    <3>3. PICK x : x = [kind |-> "signIn", instance |-> i, framework |-> f, status |-> status]
        OBVIOUS
    <3>4. exchange' = x
        BY <3>1, <3>2, <3>3 DEF Ended
    <3>5. x.framework = f
        BY <3>3
    <3>6. Honest(x)' => ~Unseen(f)
        BY <2>2, <3>5 DEF Honest, SignIn, Unseen
    <3> QED BY <2>2, <3>4, <3>6, SignInHonest DEF HonestIsServed
  <2>3. CASE Refresh(i, f)
    <3>1. PICK error : Ended("refresh", i, f, error)
        BY <2>3 DEF Refresh
    <3>2. PICK status : status = toErrorResponse(error)
        OBVIOUS
    <3>3. PICK x : x = [kind |-> "refresh", instance |-> i, framework |-> f, status |-> status]
        OBVIOUS
    <3>4. exchange' = x
        BY <3>1, <3>2, <3>3 DEF Ended
    <3>5. x.framework = f /\ x.kind = "refresh"
        BY <3>3
    <3>6. Honest(x)' => ~Unseen(f)
        BY <2>3, <3>5 DEF Honest, Refresh, Unseen
    <3>7. Honest(x)' => ~Parted
        BY <2>3, <3>5 DEF Honest, Refresh, Parted, Keys!Legacy
    <3> QED BY <2>3, <3>4, <3>6, <3>7, RefreshHonest DEF HonestIsServed
  <2>4. CASE \E caller \in {"page", "program"}, r \in Routes, m \in Mishaps :
                Befalls(m, caller, f, r) /\ Request(caller, i, f, r, m)
      BY <2>4, RequestHonest
  <2> QED BY <2>1, <2>2, <2>3, <2>4 DEF Call
<1> QED
    BY <1>2, <1>3, <1>4, <1>5, <1>6 DEF Next, Frameworks

-----------------------------------------------------------------------------
\* Whatever was deployed, rotated, signed in and renewed, and whatever happened
\* to a request on its way: every instance runs the site's configuration, every
\* tab signs with a key that was generated in one, and the page's token is one
\* that an instance issued for the session, bound to the key of the tab in use.
THEOREM SettingsHold == Spec => []Settings
<1>1. Init => Settings
    BY StartsWell
<1>2. Settings /\ [Next]_vars => Settings'
    BY StepKeeps
<1> QED
    BY <1>1, <1>2, PTL DEF Spec

\* A request that reached its handler carried one credential: a token that was
\* issued to a user whom the route is for, whose sign-in is as recent as the
\* route wants, and where tokens are bound one proof, made a moment ago by this
\* user's key for this token, method and URL.  It was counted for its address.
THEOREM ServedIsEntitled == Spec => []ServedMeansEntitled
<1>1. Init => ServedMeansEntitled
    BY DEF Init, ServedMeansEntitled
<1>2. Settings /\ ServedMeansEntitled /\ [Next]_vars => ServedMeansEntitled'
    BY StepServes
<1> QED
    BY <1>1, <1>2, SettingsHold, PTL DEF Spec

\* Every instance runs a release there has been; the page's token was handed
\* over by one; its session is bound to the key of a tab that is open; and
\* where no readable key was found, all open tabs sign with the stored key.
THEOREM DependableHolds == Spec => []Dependable
<1>1. Init => Dependable
    BY StartsDependable
<1>2. Settings /\ Dependable /\ [Next]_vars => Dependable'
    BY StepDependable
<1> QED
    BY <1>1, <1>2, SettingsHold, PTL DEF Spec

\* What the two clients make, the server takes, on every framework, whatever
\* was deployed and rotated: whoever may make a request reaches its handler at
\* every instance not older than the issuer of the token, however many clocks
\* are ahead within the tolerance, and sign-ins and refreshes succeed.
THEOREM HonestAreServed == Spec => []HonestIsServed
<1>1. Init => HonestIsServed
    BY DEF Init, HonestIsServed
<1>2. Settings /\ Dependable /\ HonestIsServed /\ [Next]_vars => HonestIsServed'
    BY StepHonest
<1> QED
    BY <1>1, <1>2, SettingsHold, DependableHolds, PTL DEF Spec
=============================================================================
