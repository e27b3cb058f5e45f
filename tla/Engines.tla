------------------------------- MODULE Engines -------------------------------
(***************************************************************************)
(* What the token engines put into an access token and what they read out  *)
(* of it (server, engine/paseto.ts, engine/opaque.ts and paseto/v4.ts).    *)
(* Revocation is ProtectedRequest's subject.                               *)
(*                                                                         *)
(* An engine is a record of the options it was built with.  A signed token *)
(* is the header it begins with and its segments; an opaque one stands for *)
(* the record kept under its hash and the time the store keeps it until.   *)
(***************************************************************************)
EXTENDS KeyRing

V4_PUBLIC_HEADER == "v4.public."

b64uEncode(value) == [value |-> value, canonical |-> TRUE]
b64uDecode(segment) == IF segment.canonical THEN segment.value ELSE None

\* Pieces with their number and their lengths: no two lists of pieces are one.
pae(pieces) == <<Len(pieces), pieces>>

signV4Public(payload, privateKey, footer) ==
    [header |-> V4_PUBLIC_HEADER,
     parts |-> <<b64uEncode([message |-> payload, by |-> privateKey,
                             over |-> pae(<<V4_PUBLIC_HEADER, payload, footer>>)])>>
               \o (IF footer = None THEN <<>> ELSE <<b64uEncode(footer)>>)]

readFooterUnverified(token) ==
    IF token.header # V4_PUBLIC_HEADER \/ Len(token.parts) # 2 THEN None
    ELSE b64uDecode(token.parts[2])

\* The payload under this body and footer.
Opened(body, footer, publicKey) ==
    IF /\ body # None
       /\ body.by = publicKey
       /\ body.over = pae(<<V4_PUBLIC_HEADER, body.message, footer>>)
    THEN body.message ELSE None

verifyV4Public(token, publicKey) ==
    IF token.header # V4_PUBLIC_HEADER \/ Len(token.parts) > 2 THEN None
    ELSE IF Len(token.parts) = 1 THEN Opened(b64uDecode(token.parts[1]), None, publicKey)
    ELSE IF b64uDecode(token.parts[2]) = None THEN None
    ELSE Opened(b64uDecode(token.parts[1]), b64uDecode(token.parts[2]), publicKey)

-----------------------------------------------------------------------------
(* core, time.ts *)

isExpired(at, tolerance, now) == now > at + tolerance
isNotYetValid(at, tolerance, now) == now < at - tolerance

-----------------------------------------------------------------------------
(* engine/paseto.ts *)

\* Present and not empty.
CLAIMS == {"jti", "sub", "iss", "aud", "iat", "nbf", "exp", "sid", "auth_time"}
parseClaims(payload) ==
    IF payload = None THEN None
    ELSE IF CLAIMS \subseteq DOMAIN payload THEN payload ELSE None

readKid(footer) == IF footer = None THEN None ELSE footer.kid

\* input: sessionId, principal, authenticatedAt, confirmationKey.
IssuePaseto(engine, input, now) ==
    signV4Public(
        [jti |-> "jti", sub |-> input.principal.userId, iss |-> engine.issuer,
         aud |-> engine.audience, iat |-> now, nbf |-> now,
         auth_time |-> input.authenticatedAt, exp |-> now + engine.accessTokenTtl,
         sid |-> input.sessionId, roles |-> input.principal.roles,
         scopes |-> input.principal.scopes, tenant |-> input.principal.tenant,
         cnf |-> input.confirmationKey],
        engine.ring.privateKey, [kid |-> engine.ring.signingKid])

Failed(error) == [error |-> error, auth |-> None]

\* A bound token takes a proof by its key, an unbound one none.
assertConfirmationKey(bound, presented) == bound = None \/ bound = presented

CheckClaims(engine, claims, confirmationKey, now) ==
    IF claims = None THEN Failed("TokenInvalid")
    ELSE IF claims.iss # engine.issuer \/ claims.aud # engine.audience THEN Failed("TokenInvalid")
    ELSE IF \/ isNotYetValid(claims.nbf, engine.clockToleranceSeconds, now)
            \/ isNotYetValid(claims.iat, engine.clockToleranceSeconds, now)
         THEN Failed("TokenInvalid")
    ELSE IF isExpired(claims.exp, engine.clockToleranceSeconds, now) THEN Failed("TokenExpired")
    ELSE IF ~assertConfirmationKey(claims.cnf, confirmationKey) THEN Failed("TokenInvalid")
    ELSE [error |-> None,
          auth |-> [userId |-> claims.sub, roles |-> claims.roles, scopes |-> claims.scopes,
                    tenant |-> claims.tenant, sessionId |-> claims.sid,
                    authenticatedAt |-> claims.auth_time, confirmationKey |-> claims.cnf]]

VerifyWith(engine, token, publicKey, confirmationKey, now) ==
    IF publicKey = None THEN Failed("TokenInvalid")
    ELSE CheckClaims(engine, parseClaims(verifyV4Public(token, publicKey)), confirmationKey, now)

VerifyPaseto(engine, token, confirmationKey, now) ==
    IF readKid(readFooterUnverified(token)) = None THEN Failed("TokenInvalid")
    ELSE VerifyWith(engine, token, resolve(engine.ring, readKid(readFooterUnverified(token))),
                    confirmationKey, now)

-----------------------------------------------------------------------------
(* engine/opaque.ts *)

\* The record, and the time by the store's clock at which it is gone.
IssueOpaque(engine, input, now, clock) ==
    [header |-> "opaque",
     record |-> [sessionId |-> input.sessionId, principal |-> input.principal, issuedAt |-> now,
                 authenticatedAt |-> input.authenticatedAt,
                 expiresAt |-> now + engine.accessTokenTtl,
                 confirmationKey |-> input.confirmationKey],
     until |-> clock + engine.accessTokenTtl]

VerifyOpaque(engine, token, confirmationKey, now, clock) ==
    IF token.header # "opaque" THEN Failed("TokenInvalid")
    ELSE IF token.record = None \/ clock >= token.until THEN Failed("TokenInvalid")
    ELSE IF isExpired(token.record.expiresAt, engine.clockToleranceSeconds, now)
         THEN Failed("TokenExpired")
    ELSE IF ~assertConfirmationKey(token.record.confirmationKey, confirmationKey)
         THEN Failed("TokenInvalid")
    ELSE [error |-> None,
          auth |-> [userId |-> token.record.principal.userId,
                    roles |-> token.record.principal.roles,
                    scopes |-> token.record.principal.scopes,
                    tenant |-> token.record.principal.tenant,
                    sessionId |-> token.record.sessionId,
                    authenticatedAt |-> token.record.authenticatedAt,
                    confirmationKey |-> token.record.confirmationKey]]

-----------------------------------------------------------------------------
(* TokenEngine *)

issue(engine, input, now, clock) ==
    IF engine.strategy = "paseto" THEN IssuePaseto(engine, input, now)
    ELSE IssueOpaque(engine, input, now, clock)

verify(engine, token, confirmationKey, now, clock) ==
    IF engine.strategy = "paseto" THEN VerifyPaseto(engine, token, confirmationKey, now)
    ELSE VerifyOpaque(engine, token, confirmationKey, now, clock)
=============================================================================
