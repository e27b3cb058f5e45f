------------------------------- MODULE Service -------------------------------
(***************************************************************************)
(* A service end to end: a page in two tabs and a program, instances that  *)
(* are deployed with configurations and rotate their signing keys, and the *)
(* requests between them, of which some meet with a mishap.  The modules   *)
(* it is made of say what each part does; here they work on what the other *)
(* parts produced.                                                         *)
(***************************************************************************)
EXTENDS Gateway

CONSTANTS
    Tabs,
    Instances,
    Sites,      \* how a service is set up: strategy, binding, failure mode, TLS, proxies,
                \* and whether pages may still have the readable key of an earlier client
    Routes,     \* what it serves: chains of middlewares, and who may use it
    Skew,       \* how far the clocks of instances and page are ahead
    Ttl, Tolerance, MaxAge,     \* of the configuration
    MaxClock, MaxRelease        \* bounds on time and on rotations

ASSUME ServiceAssumption ==
    /\ Ttl \in Nat \ {0} /\ Tolerance \in 0 .. Ttl /\ MaxAge \in Nat \ {0}
    /\ Skew \in [Instances \cup {"page"} -> Int]
    /\ \A a, b \in DOMAIN Skew : Skew[a] - Skew[b] <= Tolerance

VARIABLES
    clock,
    site,
    release,    \* the configuration that is to be deployed
    process,    \* the instances: what new Ninsho() made, or None
    stored, tab,    \* BrowserKeys
    found,      \* what the page found in its store at first
    page,       \* the tab in use
    token,      \* its access token and when it was issued
    session,    \* the session behind the page's cookie
    exchange    \* the exchange under way

Keys == INSTANCE BrowserKeys

vars == <<clock, site, release, process, stored, tab, found, page, token, session, exchange>>

-----------------------------------------------------------------------------
(***************************************************************************)
(* Deployments.                                                            *)
(***************************************************************************)
KidOf == <<"k1", "k2", "k3">>
SigningKeyOf(r) == generateKeyPair(KidOf[r], KidOf[r])

\* The configuration of a site's release: a new active key, and the public halves of
\* the ones before it.
ConfigOf(s, r) ==
    [store |-> REQUIRED_STORE_METHODS, strategy |-> s.strategy, binding |-> s.binding,
     issuer |-> IF s.strategy = "paseto" THEN "issuer" ELSE None,
     audience |-> IF s.strategy = "paseto" THEN "audience" ELSE None,
     keys |-> IF s.strategy = "paseto"
              THEN [active |-> SigningKeyOf(r),
                    previous |-> [i \in 1 .. r - 1 |->
                        [kid |-> KidOf[i], publicKey |-> SigningKeyOf(i).publicKey]]]
              ELSE None,
     accessTokenTtl |-> Ttl, refreshTokenTtl |-> None, refreshGraceSeconds |-> None,
     clockToleranceSeconds |-> Tolerance, onStoreError |-> s.onStoreError,
     dpopProofMaxAgeSeconds |-> IF s.binding = "dpop" THEN MaxAge ELSE None,
     audit |-> None]

\* What may be wrong with a configuration that somebody wrote, or only other.
Slips(c) ==
    {c, [c EXCEPT !.audience = IF @ = None THEN "audience" ELSE ""],
     [c EXCEPT !.clockToleranceSeconds = Ttl + 1],
     [c EXCEPT !.onStoreError = IF c.strategy = "opaque" THEN "open" ELSE @],
     [c EXCEPT !.store = @ \ {"take"}]}
    \cup (IF c.keys = None THEN {}
          ELSE {[c EXCEPT !.keys.active.publicKey = Raw("public", "another")],
                [c EXCEPT !.keys.active.publicKey = c.keys.active.privateKey],
                [c EXCEPT !.keys.active.privateKey.bytes = PASETO_SECRET_BYTES],
                [c EXCEPT !.keys.active.kid = KidOf[1]],
                [c EXCEPT !.keys.active.kid = "not a kid"]})

Quiet == UNCHANGED <<stored, tab, found, page, token, session, exchange>>

\* An instance is replaced by one with the configuration of the release; the
\* old one goes on when the new one does not come up.
Deploy(i, c) ==
    /\ Keys!Settled
    /\ process' = [process EXCEPT ![i] = IF Ninsho(c) = None THEN @ ELSE Ninsho(c)]
    /\ UNCHANGED <<clock, site, release>> /\ Quiet

Rotate ==
    /\ Keys!Settled
    /\ release < MaxRelease /\ site.strategy = "paseto"
    /\ release' = release + 1
    /\ UNCHANGED <<clock, site, process>> /\ Quiet

-----------------------------------------------------------------------------
(***************************************************************************)
(* Who sends what.  The page signs in the browser, the program with the    *)
(* server package's signer.                                                *)
(***************************************************************************)
Page == [userId |-> "page", roles |-> {"user", "editor"}, scopes |-> {"read"}, tenant |-> "one"]
Program == [userId |-> "program", roles |-> {"user"}, scopes |-> {"write"}, tenant |-> None]
Pair == generateDpopKeyPair("program", "EdDSA")

Origin == [scheme |-> IF site.tls THEN "https" ELSE "http", host |-> "api",
           port |-> IF site.tls THEN 443 ELSE 80]
Url(origin, path) ==
    [scheme |-> origin.scheme, host |-> origin.host, port |-> origin.port, path |-> path, query |-> "q"]
Elsewhere == [Origin EXCEPT !.host = "elsewhere"]

Env(i) ==
    [engine |-> process[i].engine, dpop |-> process[i].dpop, now |-> clock + Skew[i], clock |-> clock,
     trustProxy |-> site.proxies, origin |-> IF site.told THEN Origin ELSE None]

\* The program signed in at this instance a moment ago.
ProgramToken(i) ==
    issue(process[i].engine,
          [sessionId |-> "program", principal |-> Program, authenticatedAt |-> clock + Skew[i],
           confirmationKey |-> IF process[i].dpop = None THEN None
                               ELSE jwkThumbprint(parseJwk(PublicJwk(Pair.key)))],
          clock + Skew[i], clock)

TokenOf(caller, i) == IF caller = "page" THEN token.value ELSE ProgramToken(i)
OtherToken(caller, i) ==
    IF caller = "page" THEN ProgramToken(i)
    ELSE IF token = None THEN Garbled ELSE token.value

Now == clock + Skew["page"]
ProofOf(caller, request, at) ==
    IF caller = "page" THEN createProof(tab[page].key, request, at) ELSE createDpopProof(Pair, request, at)

AddressOf(caller) == [ip |-> caller, form |-> "plain"]

\* A request to the service, through its proxies.
Wire(caller, method, target, authorization, proofs, params) ==
    [method |-> toUpperCase[method], target |-> target, host |-> [host |-> "api", port |-> None],
     authorization |-> authorization, dpop |-> proofs, params |-> params,
     scheme |-> IF site.tls /\ site.proxies = 0 THEN "https" ELSE "http",
     joined |-> site.joins,
     forwardedProto |-> IF site.tls /\ site.proxies > 0 THEN <<"https">> ELSE <<>>,
     forwardedFor |-> IF site.proxies = 0 THEN <<>> ELSE <<AddressOf("made up"), AddressOf(caller)>>,
     peer |-> IF site.proxies = 0 THEN [ip |-> caller, form |-> "mapped"] ELSE AddressOf("proxy")]

Target(path) == [scheme |-> None, host |-> None, port |-> None, path |-> path, query |-> "q"]

Mishaps ==
    {"none", "secondToken", "secondTokenFirst", "secondScheme", "noToken", "otherToken", "badToken",
     "footer", "noProof", "secondProof", "otherKey", "otherMethod", "otherPath", "otherOrigin",
     "proofOfOtherToken", "proofOfNoToken", "late", "early", "respelled", "otherAlgorithm",
     "privateMember", "absolute", "elsewhere"}

Line(value) == [scheme |-> "DPoP", token |-> value]
Respelled(parts, i) == [parts EXCEPT ![i].canonical = FALSE]

\* What a damaged token is: a segment respelled, or a footer added to.
Damaged(mishap, own) ==
    CASE mishap = "badToken" /\ site.strategy = "paseto" -> [own EXCEPT !.parts = Respelled(own.parts, 1)]
      [] mishap = "badToken" /\ site.strategy = "opaque" -> [own EXCEPT !.record = None]
      [] mishap = "footer" /\ site.strategy = "paseto" ->
            [own EXCEPT !.parts[2].value = [kid |-> own.parts[2].value.kid, note |-> "more"]]
      [] OTHER -> own

Authorization(mishap, own, other) ==
    CASE mishap = "secondToken" -> <<Line(own), Line(other)>>
      [] mishap = "secondTokenFirst" -> <<Line(other), Line(own)>>
      [] mishap = "secondScheme" -> <<Line(own), [scheme |-> "Basic", token |-> "password"]>>
      [] mishap = "noToken" -> <<>>
      [] mishap = "otherToken" -> <<Line(other)>>
      [] OTHER -> <<Line(Damaged(mishap, own))>>

\* The request a proof is made for and the time it is made at.
Intended(mishap, method, path, own, other) ==
    [method |-> IF mishap = "otherMethod" THEN "post" ELSE method,
     url |-> CASE mishap = "otherPath" -> Url(Origin, "other")
               [] mishap \in {"otherOrigin", "elsewhere"} -> Url(Elsewhere, path)
               [] OTHER -> Url(Origin, path),
     accessToken |-> CASE mishap \in {"otherToken", "proofOfOtherToken"} -> other
                       [] mishap = "proofOfNoToken" -> None
                       [] OTHER -> Damaged(mishap, own)]
Moment(mishap) ==
    CASE mishap = "late" -> clock - MaxAge - Tolerance - 2
      [] mishap = "early" -> clock + Tolerance + 2
      [] OTHER -> Now

Spoilt(mishap, proof) ==
    CASE mishap = "noProof" -> <<>>
      [] mishap = "secondProof" -> <<proof, proof>>
      [] mishap = "respelled" -> <<Respelled(proof, 3)>>
      [] mishap = "otherAlgorithm" ->
            <<[proof EXCEPT ![1].value.alg = IF @ = "ES256" THEN "EdDSA" ELSE "ES256"]>>
      [] mishap = "privateMember" -> <<[proof EXCEPT ![1].value.jwk.private = {"d"}]>>
      [] OTHER -> <<proof>>

Other(caller) == IF caller = "page" THEN "program" ELSE "page"

\* Mishaps befall the page's requests to the routes that are troubled, and on
\* their way to Hono those that it sees differently.
SeenDifferently == {"secondToken", "secondTokenFirst", "secondScheme", "secondProof", "absolute", "elsewhere"}
Befalls(mishap, caller, framework, route) ==
    /\ caller = "program" => framework \in {"express", "hono"}
    /\ mishap # "none" => /\ caller = "page" /\ route.troubled
                          /\ \/ framework = "express"
                             \/ framework = "hono" /\ mishap \in SeenDifferently

\* The request that a caller sends to a route, with a mishap.
Sent(caller, i, route, mishap) ==
    Wire(caller, route.method,
         CASE mishap = "absolute" -> Url(Origin, route.path)
           [] mishap = "elsewhere" -> Url(Elsewhere, route.path)
           [] OTHER -> Target(route.path),
         Authorization(mishap, TokenOf(caller, i), OtherToken(caller, i)),
         Spoilt(mishap,
            ProofOf(IF mishap = "otherKey" THEN Other(caller) ELSE caller,
                    Intended(mishap, route.method, route.path, TokenOf(caller, i), OtherToken(caller, i)),
                    Moment(mishap))),
         route.params)

-----------------------------------------------------------------------------
(***************************************************************************)
(* Exchanges.                                                              *)
(***************************************************************************)
Answer ==
    /\ exchange # None
    /\ exchange' = None
    /\ UNCHANGED <<clock, site, release, process, stored, tab, found, page, token, session>>

Request(caller, i, framework, route, mishap) ==
    /\ caller = "page" => token # None
    /\ LET response == Handled(framework, Env(i), Sent(caller, i, route, mishap), route.chains) IN
       exchange' = [kind |-> "request", caller |-> caller, instance |-> i, framework |-> framework,
                    route |-> route, mishap |-> mishap, status |-> response.status,
                    auth |-> IF response.status = 200 THEN response.auth ELSE None,
                    buckets |-> response.buckets]
    /\ UNCHANGED <<clock, site, release, process, stored, tab, found, page, token, session>>

\* The proof that comes with a sign-in or a refresh is for no token.
Confirmed(i, framework, path) ==
    establishProofOfPossession(Env(i),
        HttpRequest(framework,
            Wire("page", "post", Target(path), <<>>,
                 <<ProofOf("page", [method |-> "post", url |-> Url(Origin, path), accessToken |-> None], Now)>>,
                 None)),
        None)

Possessed(i, framework, path) ==
    IF process[i].dpop = None THEN [error |-> None, jkt |-> None] ELSE Confirmed(i, framework, path)

\* The tokens of a session go to the page.
Hand(i, jkt, authenticatedAt) ==
    token' = [at |-> clock, until |-> clock + Skew[i] + Ttl,
              value |-> issue(process[i].engine,
                  [sessionId |-> "page", principal |-> Page, authenticatedAt |-> authenticatedAt,
                   confirmationKey |-> jkt], clock + Skew[i], clock)]

Ended(kind, i, framework, error) ==
    exchange' = [kind |-> kind, instance |-> i, framework |-> framework, status |-> toErrorResponse(error)]

\* The login route: confirmProofOfPossession() and createSession().
SignIn(i, framework) ==
    /\ Keys!Ready(page) /\ session = None
    /\ LET possession == Possessed(i, framework, "login") IN
       IF possession.error # None
       THEN Ended("signIn", i, framework, possession.error) /\ UNCHANGED <<token, session>>
       ELSE /\ session' = [jkt |-> possession.jkt, authenticatedAt |-> clock + Skew[i]]
            /\ Hand(i, possession.jkt, clock + Skew[i])
            /\ Ended("signIn", i, framework, None)
    /\ UNCHANGED <<clock, site, release, process, stored, tab, found, page>>

\* The refresh route: confirmProofOfPossession() and refresh().  A session is
\* renewed with the key it began with.
Refresh(i, framework) ==
    /\ Keys!Ready(page) /\ session # None
    /\ LET possession == Possessed(i, framework, "refresh")
           wrong == session.jkt # None /\ session.jkt # possession.jkt
           error == IF possession.error # None THEN possession.error
                    ELSE IF wrong THEN "TokenInvalid" ELSE None IN
       /\ IF error # None THEN UNCHANGED token ELSE Hand(i, session.jkt, session.authenticatedAt)
       /\ Ended("refresh", i, framework, error)
    /\ UNCHANGED <<clock, site, release, process, stored, tab, found, page, session>>

\* The user goes to the other tab, which has no token yet.
Switch(t) ==
    /\ t # page /\ session # None
    /\ page' = t /\ token' = None
    /\ UNCHANGED <<clock, site, release, process, stored, tab, found, session, exchange>>

OpenTab ==
    /\ Keys!KeysNext
    /\ UNCHANGED <<clock, site, release, process, found, page, token, session, exchange>>

Tick ==
    /\ Keys!Settled
    /\ clock < MaxClock
    /\ clock' = clock + 1
    /\ UNCHANGED <<site, release, process>> /\ Quiet

-----------------------------------------------------------------------------
(***************************************************************************)
(* What is taken for granted of the sites, of the routes and of None.      *)
(***************************************************************************)
ASSUME SitesAssumption ==
    \A s \in Sites :
        /\ s.strategy \in {"paseto", "opaque"} /\ s.binding \in {"none", "dpop"}
        /\ s.tls \in BOOLEAN /\ s.told \in BOOLEAN /\ s.proxies \in {0, 1}
        /\ s.joins \in BOOLEAN /\ (s.joins => s.proxies = 1)

\* The first configuration of a site is one that comes up.
ASSUME FirstAssumption == \A s \in Sites : Ninsho(ConfigOf(s, 1)) # None

\* There is a key for every release, and what no key id looks like is none.
ASSUME ReleasesAssumption == MaxRelease \in DOMAIN KidOf /\ "not a kid" \notin Kids

\* The users of a route are those whom its chains let through.
Asked(r) == UNION {{r.chains[c][k] : k \in 1 .. Len(r.chains[c])} : c \in 1 .. Len(r.chains)}
AllowedUser(r, p) ==
    /\ \E m \in Asked(r) : m.kind = "verify"
    /\ \A m \in Asked(r) :
          m.kind \notin {"rateLimit", "verify", "fresh"} =>
              Allowed(m, [now |-> 0], [params |-> r.params], p)

\* Before a middleware that asks who it is, in its chain or in one mounted
\* before, comes a verify().
VerifiedBefore(r, c, k) ==
    \/ \E b \in 1 .. c - 1 : \E j \in 1 .. Len(r.chains[b]) : r.chains[b][j].kind = "verify"
    \/ \E j \in 1 .. k - 1 : r.chains[c][j].kind = "verify"
InOrder(r) ==
    \A c \in 1 .. Len(r.chains) : \A k \in 1 .. Len(r.chains[c]) :
        r.chains[c][k].kind \in {"verify", "rateLimit"} \/ VerifiedBefore(r, c, k)

\* freshFor is the shortest age that a requireFreshAuth() of the route allows.
ASSUME RoutesAssumption ==
    \A r \in Routes :
        /\ r.method \in DOMAIN toUpperCase
        /\ Len(r.chains) \in Nat /\ \A c \in 1 .. Len(r.chains) : Len(r.chains[c]) \in Nat
        /\ \A m \in Asked(r) :
              m.kind \in {"verify", "rateLimit", "role", "allRoles", "scope", "fresh", "owner", "tenant"}
        /\ \E m \in Asked(r) : m.kind # "rateLimit"
        /\ \A p \in {Page, Program} : p.userId \in r.users <=> AllowedUser(r, p)
        /\ r.users # {} => InOrder(r)
        /\ \A m \in Asked(r) :
              m.kind = "fresh" =>
                  r.freshFor # None /\ m.maxAgeSeconds \in Int /\ r.freshFor <= m.maxAgeSeconds
        /\ r.freshFor # None =>
              /\ r.freshFor \in Int
              /\ \E m \in Asked(r) : m.kind = "fresh" /\ m.maxAgeSeconds <= r.freshFor
        /\ r.limited = \E m \in Asked(r) : m.kind = "rateLimit"

-----------------------------------------------------------------------------
(***************************************************************************)
(* What the parts hand to one another.  None is nothing of it.             *)
(***************************************************************************)
Texts == DOMAIN StatusOf \cup
         {V4_PUBLIC_HEADER, "opaque", "paseto", "none", "dpop", "page", "program", "EC", "OKP", "jti",
          "http", "https"}
Addresses == [ip : {"page", "program", "made up", "proxy"}, form : {"plain", "mapped", "port"}]
Origins == [scheme : {"http", "https"}, host : {"api"}, port : {80, 443}]
Places ==
    [scheme : {"http", "https"}, host : {"api"}, port : {None, 80, 443},
     path : {r.path : r \in Routes} \cup {"login", "refresh"}, query : {None, "q"}]
Segments(S) == [value : S, canonical : {TRUE}]

Points == {Coordinate(id) : id \in Tabs \cup {"program"}}
Jwks == {Jwk("EC", "P-256", t) : t \in Tabs} \cup {PublicJwk(Pair.key)}
Members == [kty : {"EC", "OKP"}, crv : {"P-256", "Ed25519"}, x : Points, y : {None} \cup Points]
Thumbprints ==
    {jwkThumbprint(Jwk("EC", "P-256", t)) : t \in Tabs} \cup {jwkThumbprint(PublicJwk(Pair.key))}

Identities ==
    [userId : {"page", "program"}, roles : SUBSET {"user", "editor"},
     scopes : SUBSET {"read", "write"}, tenant : {None, "one"}, sessionId : {"page", "program"},
     authenticatedAt : Int, confirmationKey : {None} \cup Thumbprints]

\* Tokens, signed and opaque.
RingKeys == [pair : {KidOf[r] : r \in DOMAIN KidOf}, meant : {TRUE}]
Footers == [kid : Kids]
Payloads ==
    [jti : {"jti"}, sub : {"page", "program"}, iss : {"issuer"}, aud : {"audience"},
     iat : Int, nbf : Int, auth_time : Int, exp : Int, sid : {"page", "program"},
     roles : SUBSET {"user", "editor"}, scopes : SUBSET {"read", "write"}, tenant : {None, "one"},
     cnf : {None} \cup Thumbprints]
Bodies ==
    [message : Payloads, by : RingKeys, over : {3} \X ({V4_PUBLIC_HEADER} \X Payloads \X Footers)]
Records ==
    [sessionId : {"page", "program"}, principal : {Page, Program}, issuedAt : Int,
     authenticatedAt : Int, expiresAt : Int, confirmationKey : {None} \cup Thumbprints]
Tokens ==
    [header : {V4_PUBLIC_HEADER}, parts : Segments(Bodies) \X Segments(Footers)]
    \cup [header : {"opaque"}, record : Records, until : Int]

\* Proofs.
Headers == [typ : {"dpop+jwt"}, alg : ALLOWED_DPOP_ALGORITHMS, jwk : Jwks]
ProofClaims ==
    [jti : {"jti"}, htm : {"GET", "POST"}, htu : Places, iat : Int, ath : {None} \cup Tokens]
Signatures == [by : Tabs \cup {"program"}, over : Segments(Headers) \X Segments(ProofClaims)]
Proofs == Segments(Headers) \X Segments(ProofClaims) \X Segments(Signatures)

ASSUME NoneAssumption ==
    /\ None \notin Texts /\ None \notin Int /\ None \notin Kids /\ None \notin Tabs
    /\ None \notin Addresses /\ None \notin Seq(Addresses) /\ None \notin Seq({"https"})
    /\ None \notin Origins /\ None \notin Places
    /\ None \notin [id : Tabs, crv : {"P-256"}, extractable : {FALSE}]
    /\ None \notin Points /\ None \notin Jwks /\ None \notin Members /\ None \notin Thumbprints
    /\ None \notin Identities /\ None \notin [jkt : {None} \cup Thumbprints, authenticatedAt : Int]
    /\ None \notin [authorization : Nat, dpop : Nat]
    /\ None \notin [maxAgeSeconds : Int, clockToleranceSeconds : Int]
    /\ None \notin RingKeys /\ None \notin Footers /\ None \notin Payloads /\ None \notin Bodies
    /\ None \notin Records /\ None \notin Tokens /\ None \notin Seq([scheme : {"DPoP"}, token : Tokens])
    /\ None \notin Headers /\ None \notin ProofClaims /\ None \notin Signatures
    /\ None \notin Proofs /\ None \notin Seq(Proofs)

-----------------------------------------------------------------------------
Init ==
    /\ clock = 0 /\ release = 1 /\ exchange = None
    /\ site \in Sites
    /\ process = [i \in Instances |-> Ninsho(ConfigOf(site, 1))]
    /\ Keys!KeysInit
    /\ found = stored
    /\ found # None => site.upgraded
    /\ page \in Tabs
    /\ token = None /\ session = None

\* A page or a program at work, with the instance that it is sent to.
Call(i, f) ==
    \/ SignIn(i, f)
    \/ Refresh(i, f)
    \/ \E caller \in {"page", "program"}, r \in Routes, m \in Mishaps :
          Befalls(m, caller, f, r) /\ Request(caller, i, f, r, m)

Next ==
    \/ Answer
    \/ /\ exchange = None
       /\ \/ OpenTab \/ Rotate \/ Tick
          \/ \E t \in Tabs : Switch(t)
          \/ \E i \in Instances :
                \/ \E c \in Slips(ConfigOf(site, release)) : Deploy(i, c)
                \/ \E f \in {"express", "fastify", "koa", "hono"} : Call(i, f)

Spec == Init /\ [][Next]_vars

-----------------------------------------------------------------------------
(***************************************************************************)
(* Properties.                                                             *)
(***************************************************************************)

\* The release that an instance runs, by the key it signs with.
ReleaseOf(kid) == CHOOSE r \in DOMAIN KidOf : KidOf[r] = kid
Knows(ring, signed) == ReleaseOf(signed.parts[2].value.kid) <= ReleaseOf(ring.signingKid)

\* The token of a request is one that its instance can be expected to take.
Current(x) ==
    \/ x.caller = "program"
    \/ /\ clock < token.at + Ttl
       /\ site.strategy = "paseto" => Knows(process[x.instance].engine.ring, token.value)

AuthenticatedAt(x) ==
    IF x.caller = "program" THEN clock + Skew[x.instance] ELSE session.authenticatedAt
Recent(x, freshFor) ==
    freshFor = None \/ clock + Skew[x.instance] - AuthenticatedAt(x) <= freshFor

\* Hono does not see that the connection to it is TLS.
Unseen(framework) ==
    /\ framework = "hono" /\ site.binding = "dpop"
    /\ site.tls /\ site.proxies = 0 /\ ~site.told

\* The tabs have come to sign with different keys.
Parted ==
    /\ found = Keys!Legacy
    /\ \E t, u \in Tabs : tab[t].key # tab[u].key

Honest(x) ==
    /\ ~Unseen(x.framework)
    /\ CASE x.kind = "request" -> /\ x.mishap \in {"none", "absolute"}
                                  /\ x.caller \in x.route.users
                                  /\ Current(x) /\ Recent(x, x.route.freshFor)
         [] x.kind = "signIn" -> TRUE
         [] x.kind = "refresh" -> ~Parted

\* What the two clients make, the server takes: on every framework, at every
\* instance whose release is not older than the one that issued the token,
\* whatever was deployed and whichever clock is ahead, a request by somebody
\* who may make it is answered by its handler, and so are the page's sign-ins
\* and refreshes.  Over TLS without a proxy, Hono has to be told the origin,
\* and two tabs that replaced a readable key together may not share one.
HonestIsServed == exchange # None => (Honest(exchange) => exchange.status = 200)

\* A proof made with this key for this request and token, just now.
MadeFor(proof, key, x, wire, carried) ==
    /\ \A n \in 1 .. 3 : proof[n].canonical
    /\ proof[3].value.by = key
    /\ proof[1].value.alg = algorithmForJwk(proof[1].value.jwk)
    /\ proof[1].value.jwk.private = {}
    /\ proof[2].value.htm = wire.method
    /\ proof[2].value.htu = [Url([Origin EXCEPT !.port = None], x.route.path) EXCEPT !.query = None]
    /\ proof[2].value.ath = carried
    /\ clock + Skew[x.instance] - proof[2].value.iat \in -Tolerance .. MaxAge + Tolerance

Possessing(x, wire, carried) ==
    /\ Len(wire.dpop) = 1
    /\ MadeFor(wire.dpop[1], IF x.auth.userId = "page" THEN tab[page].key.key.id ELSE Pair.key.id,
               x, wire, carried)

\* The token of a request is its owner's, unchanged and not run out.
Owned(x, carried) ==
    \/ x.auth.userId = "program" /\ carried = ProgramToken(x.instance)
    \/ /\ x.auth.userId = "page" /\ token # None
       /\ carried = token.value
       /\ clock + Skew[x.instance] <= token.until + Tolerance

Since(x) == IF x.auth.userId = "page" THEN session.authenticatedAt ELSE clock + Skew[x.instance]

\* Hono is shown the first of several Authorization lines as if it were alone.
Unnoticed(framework, wire) == framework = "hono" /\ ~wire.joined
Unambiguous(framework, wire) ==
    /\ wire.authorization # <<>>
    /\ Len(wire.authorization) > 1 => Unnoticed(framework, wire)

Entitled(x, wire) ==
    /\ Unambiguous(x.framework, wire)
    /\ Owned(x, wire.authorization[1].token)
    /\ x.auth.userId \in x.route.users
    /\ x.route.freshFor # None => clock + Skew[x.instance] - Since(x) <= x.route.freshFor
    /\ x.buckets = IF x.route.limited THEN {AddressOf(x.caller)} ELSE {}
    /\ site.binding = "dpop" => Possessing(x, wire, wire.authorization[1].token)

\* A request that reached its handler carried one credential, or on Hono, which
\* does not notice that several lines came, one that was its first: a token that
\* was issued to a user whom the route is for, whose sign-in is as recent as the
\* route wants, even after a refresh and at another instance; where tokens are
\* bound, with one proof that this user's key signed a moment ago for this
\* token, method and URL.  Its rate was counted for the address it came from.
ServedMeansEntitled ==
    exchange # None =>
        (exchange.kind = "request" /\ exchange.status = 200 =>
            Entitled(exchange, Sent(exchange.caller, exchange.instance, exchange.route, exchange.mishap)))
=============================================================================
