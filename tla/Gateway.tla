------------------------------- MODULE Gateway -------------------------------
(***************************************************************************)
(* A request on its way through an instance (server): what each framework  *)
(* makes of it and how its adapter runs a chain of middlewares (hono.ts,   *)
(* koa.ts, fastify.ts), what the middlewares decide (http/middleware.ts,   *)
(* http/dpop-middleware.ts, ratelimit/), and the response.                 *)
(*                                                                         *)
(* A wire request is a record of method, target (a URL whose scheme and    *)
(* host may be missing), host, peer (an address) and of the lines of some  *)
(* headers: authorization (credentials [scheme, token]), dpop (proofs),    *)
(* forwardedProto (schemes) and forwardedFor (addresses), each a sequence. *)
(* It is joined when a proxy makes one line of a header's several lines.   *)
(***************************************************************************)
EXTENDS Engines, Configuration

INSTANCE Dpop

\* core, errors.ts: the status that an error is answered with.
StatusOf == [TokenMissing |-> 401, TokenInvalid |-> 401, TokenExpired |-> 401,
             Forbidden |-> 403, Internal |-> 500]
toErrorResponse(error) == IF error = None THEN 200 ELSE StatusOf[error]

-----------------------------------------------------------------------------
(***************************************************************************)
(* The frameworks.  All run on Node, which keeps the first of several      *)
(* Authorization lines and joins those of the other headers with commas;   *)
(* rawHeaders has a line for each that came, and Hono does not show it.    *)
(***************************************************************************)
Joined(lines) == IF lines = <<>> THEN None ELSE lines
Kept(wire) ==
    IF wire.authorization = <<>> THEN None
    ELSE IF wire.joined THEN wire.authorization ELSE <<wire.authorization[1]>>

Came(wire, lines) == IF wire.joined /\ lines # <<>> THEN 1 ELSE Len(lines)
RawLines(wire) ==
    [authorization |-> Came(wire, wire.authorization), dpop |-> Came(wire, wire.dpop)]

View(wire, raw, url, protocol, ip) ==
    [method |-> wire.method, params |-> wire.params, host |-> wire.host, dpop |-> Joined(wire.dpop),
     forwardedProto |-> Joined(wire.forwardedProto), forwardedFor |-> Joined(wire.forwardedFor),
     authorization |-> Kept(wire), raw |-> raw, originalUrl |-> url, protocol |-> protocol,
     ip |-> ip, socket |-> wire.peer]

\* Express's request, Fastify's with Node's lines added to it and Koa's view.
NodeRequest(wire) == View(wire, RawLines(wire), wire.target, wire.scheme, wire.peer)
FastifyRequest(wire) == NodeRequest(wire)
KoaRequest(wire) == NodeRequest(wire)

\* Hono's URL is absolute; its view has no raw lines and no protocol.
HonoRequest(wire) ==
    View(wire, None,
         IF wire.target.scheme # None THEN wire.target
         ELSE [scheme |-> wire.scheme, host |-> wire.host.host, port |-> wire.target.port,
               path |-> wire.target.path, query |-> wire.target.query],
         None, None)

HttpRequest(framework, wire) ==
    CASE framework = "express" -> NodeRequest(wire)
      [] framework = "fastify" -> FastifyRequest(wire)
      [] framework = "koa" -> KoaRequest(wire)
      [] framework = "hono" -> HonoRequest(wire)

-----------------------------------------------------------------------------
(* http/middleware.ts and http/dpop-middleware.ts: credential and proof *)

Schemes == {"Bearer", "DPoP"}
Garbled == [header |-> None, parts |-> <<>>]

\* Mutant: only what Node made of the lines is looked at, not how many came.
extractBearerUncounted(req) ==
    IF req.authorization = None \/ Len(req.authorization) > 1 THEN None
    ELSE IF req.authorization[1].scheme \notin Schemes THEN None
    ELSE req.authorization[1].token

\* The token of the one credential there is, None when there is none or more.
\* Of a joined line that goes on otherwise the whole is taken for the token.
extractBearer(req) ==
    IF req.raw # None /\ req.raw.authorization > 1 THEN None
    ELSE IF req.authorization = None THEN None
    ELSE IF \E i \in 2 .. Len(req.authorization) : req.authorization[i].scheme \in Schemes THEN None
    ELSE IF req.authorization[1].scheme \notin Schemes THEN None
    ELSE IF Len(req.authorization) > 1 THEN Garbled
    ELSE req.authorization[1].token

extractProofHeader(req) ==
    IF req.raw # None /\ req.raw.dpop > 1 THEN None
    ELSE IF req.dpop = None THEN None
    ELSE IF Len(req.dpop) > 1 THEN None
    ELSE req.dpop[1]

\* Only path and query are taken from the request's target.
Reconstructed(url) ==
    IF parseUrl(url) = None
    THEN [scheme |-> "http", host |-> "localhost", port |-> None, path |-> url.path, query |-> url.query]
    ELSE parseUrl(url)

defaultRequestUrl(req) ==
    Reconstructed(
        [scheme |-> IF req.forwardedProto # None THEN req.forwardedProto[1]
                    ELSE IF req.protocol # None THEN req.protocol ELSE "http",
         host |-> req.host.host, port |-> req.host.port,
         path |-> req.originalUrl.path, query |-> req.originalUrl.query])

\* What an application gives setRequestUrlBuilder(): its own origin.
builtRequestUrl(origin, req) ==
    [scheme |-> origin.scheme, host |-> origin.host, port |-> origin.port,
     path |-> req.originalUrl.path, query |-> req.originalUrl.query]

Possession(thumbprint) ==
    [error |-> IF thumbprint = None THEN "TokenInvalid" ELSE None, jkt |-> thumbprint]

\* env is the instance: engine, dpop, the origin it was told, its time and the
\* store's.  ProtectedRequest has the claim of the proof that comes next.
establishProofOfPossession(env, req, accessToken) ==
    IF extractProofHeader(req) = None THEN [error |-> "TokenMissing", jkt |-> None]
    ELSE Possession(
        verifyDpopProof(extractProofHeader(req),
            [method |-> req.method, accessToken |-> accessToken, now |-> env.now,
             url |-> IF env.origin # None THEN builtRequestUrl(env.origin, req)
                     ELSE defaultRequestUrl(req),
             maxAgeSeconds |-> env.dpop.maxAgeSeconds,
             clockToleranceSeconds |-> env.dpop.clockToleranceSeconds]))

-----------------------------------------------------------------------------
(***************************************************************************)
(* The middlewares: records of a kind and what they were made with.  What  *)
(* one does to a request is an error or none, the identity afterwards and  *)
(* the rate limit's buckets it counted.                                    *)
(***************************************************************************)
Pass(auth) == [error |-> None, auth |-> auth, buckets |-> {}]
Refusal(error, auth) == [error |-> error, auth |-> auth, buckets |-> {}]

WithToken(env, auth, verdict) ==
    IF verdict.error # None THEN Refusal(verdict.error, auth) ELSE Pass(verdict.auth)

WithProof(env, token, auth, possession) ==
    IF possession.error # None THEN Refusal(possession.error, auth)
    ELSE WithToken(env, auth, verify(env.engine, token, possession.jkt, env.now, env.clock))

createVerify(env, req, auth, token) ==
    IF token = None THEN Refusal("TokenMissing", auth)
    ELSE WithProof(env, token, auth,
            IF env.dpop = None THEN [error |-> None, jkt |-> None]
            ELSE establishProofOfPossession(env, req, token))

requireRole(auth, roles) == roles \cap auth.roles # {}
requireAllRoles(auth, roles) == roles \subseteq auth.roles
requireScope(auth, scopes) == scopes \cap auth.scopes # {}
requireFreshAuth(auth, maxAgeSeconds, now) == now - auth.authenticatedAt <= maxAgeSeconds
requireOwner(auth, owner) == owner # None /\ owner = auth.userId
requireTenant(auth, tenant) == auth.tenant # None /\ tenant # None /\ tenant = auth.tenant

Allowed(m, env, req, auth) ==
    CASE m.kind = "role" -> requireRole(auth, m.required)
      [] m.kind = "allRoles" -> requireAllRoles(auth, m.required)
      [] m.kind = "scope" -> requireScope(auth, m.required)
      [] m.kind = "fresh" -> requireFreshAuth(auth, m.maxAgeSeconds, env.now)
      [] m.kind = "owner" -> requireOwner(auth, req.params.owner)
      [] m.kind = "tenant" -> requireTenant(auth, req.params.tenant)

\* getAuth() comes first: without verify() before it nothing is decided.
authorize(m, env, req, auth) ==
    IF auth = None THEN Refusal("Internal", auth)
    ELSE IF Allowed(m, env, req, auth) THEN Pass(auth) ELSE Refusal("Forbidden", auth)

\* ratelimit/client-ip.ts.  An address is an ip and how it is written.
normalise(address) ==
    IF address.form \in {"mapped", "port"} THEN [address EXCEPT !.form = "plain"] ELSE address
peerAddress(req) == IF req.ip # None THEN req.ip ELSE req.socket
Peer(req) == IF peerAddress(req) = None THEN "unknown" ELSE normalise(peerAddress(req))

\* trustProxy is a number of proxies, 0 for false, or -1 for 'all'.
clientIp(req, trustProxy) ==
    IF trustProxy = 0 \/ req.forwardedFor = None THEN Peer(req)
    ELSE IF trustProxy = -1 THEN normalise(req.forwardedFor[1])
    ELSE IF trustProxy > Len(req.forwardedFor) THEN Peer(req)
    ELSE normalise(req.forwardedFor[Len(req.forwardedFor) - trustProxy + 1])

\* Requests within the limits: RateLimiter has the counting.
createRateLimit(req, auth, trustProxy) ==
    [error |-> None, auth |-> auth, buckets |-> {clientIp(req, trustProxy)}]

Middleware(m, env, req, auth) ==
    CASE m.kind = "verify" -> createVerify(env, req, auth, extractBearer(req))
      [] m.kind = "rateLimit" -> createRateLimit(req, auth, env.trustProxy)
      [] OTHER -> authorize(m, env, req, auth)

-----------------------------------------------------------------------------
(***************************************************************************)
(* The adapters.  s is how far a request has come: the identity on the     *)
(* view the middlewares see and on the framework's own context, the error  *)
(* that was answered and the buckets counted.                              *)
(***************************************************************************)
Outcome(s, o) ==
    [view |-> o.auth, context |-> IF o.error = None /\ o.auth # None THEN o.auth ELSE s.context,
     error |-> o.error, buckets |-> s.buckets \cup o.buckets]

\* One middleware, unless one before it has answered.
runOne(env, req, s, m) ==
    IF s.error # None THEN s ELSE Outcome(s, Middleware(m, env, req, s.view))

Run(env, req, s, chain) ==
    LET after[n \in 0 .. Len(chain)] ==
            IF n = 0 THEN s ELSE runOne(env, req, after[n - 1], chain[n])
    IN  after[Len(chain)]

\* Hono and Koa make a view per mounted chain, with the identity of the context.
toHono(env, req, s, chain) ==
    IF s.error # None THEN s ELSE Run(env, req, [s EXCEPT !.view = s.context], chain)
toKoa(env, req, s, chain) ==
    IF s.error # None THEN s ELSE Run(env, req, [s EXCEPT !.view = s.context], chain)

\* Fastify and Express have one request for all.
toFastifyChain(env, req, s, chain) == Run(env, req, s, chain)

Mount(framework, env, req, s, chain) ==
    CASE framework = "hono" -> toHono(env, req, s, chain)
      [] framework = "koa" -> toKoa(env, req, s, chain)
      [] framework = "fastify" -> toFastifyChain(env, req, s, chain)
      [] framework = "express" -> Run(env, req, s, chain)

\* What the chains of a route do to a request: the handler runs when no error
\* was answered, with the identity that getAuth() gives it.
Arrived == [view |-> None, context |-> None, error |-> None, buckets |-> {}]
Through(framework, env, req, chains) ==
    LET after[n \in 0 .. Len(chains)] ==
            IF n = 0 THEN Arrived ELSE Mount(framework, env, req, after[n - 1], chains[n])
    IN  after[Len(chains)]

Handled(framework, env, wire, chains) ==
    LET s == Through(framework, env, HttpRequest(framework, wire), chains) IN
    [status |-> toErrorResponse(s.error), buckets |-> s.buckets,
     auth |-> IF framework \in {"hono", "koa"} THEN s.context ELSE s.view]
=============================================================================
