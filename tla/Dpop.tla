-------------------------------- MODULE Dpop --------------------------------
(***************************************************************************)
(* DPoP proofs: the keys that sign them (client, keys.ts; server,          *)
(* dpop/sign.ts), how they are made (client, proof.ts) and how they are    *)
(* verified (server, dpop/jwk.ts and dpop/proof.ts).                       *)
(*                                                                         *)
(* A hash is the value it is taken of, a signature names the key that made *)
(* it and what it is over, and a part of a token is a segment: a value and *)
(* whether it is spelled the one canonical way.  A URL is a record of      *)
(* scheme, host, port, path and query.  What throws is None.               *)
(***************************************************************************)
EXTENDS Integers, Sequences

CONSTANT None

Segment(value) == [value |-> value, canonical |-> TRUE]
toUpperCase == [get |-> "GET", GET |-> "GET", post |-> "POST", POST |-> "POST"]

\* new URL(): the port that a scheme implies is not written.
ImpliedPort == [http |-> 80, https |-> 443]
parseUrl(u) ==
    IF u.scheme \notin DOMAIN ImpliedPort THEN None
    ELSE [u EXCEPT !.port = IF @ = ImpliedPort[u.scheme] THEN None ELSE @]

-----------------------------------------------------------------------------
(* jwk.ts: a JWK, with the private members found in it. *)

ALLOWED_DPOP_ALGORITHMS == {"ES256", "EdDSA"}
KEY_BYTES == 32

Coordinate(id) == [of |-> id, bytes |-> KEY_BYTES]
Jwk(kty, crv, id) ==
    [kty |-> kty, crv |-> crv, x |-> Coordinate(id),
     y |-> IF kty = "EC" THEN Coordinate(id) ELSE None,
     private |-> {}, use |-> None, key_ops |-> None]
PublicJwk(key) ==
    Jwk(IF key.crv = "Ed25519" THEN "OKP" ELSE "EC", key.crv, key.id)

\* The members that make a public key, of a key for signatures.
parseJwk(jwk) ==
    IF /\ jwk # None
       /\ jwk.private = {}
       /\ jwk.use \in {None, "sig"}
       /\ jwk.key_ops = None \/ "verify" \in jwk.key_ops
       /\ \/ jwk.kty = "EC" /\ jwk.crv = "P-256" /\ jwk.y # None
          \/ jwk.kty = "OKP" /\ jwk.crv = "Ed25519"
       /\ jwk.x # None
    THEN [kty |-> jwk.kty, crv |-> jwk.crv, x |-> jwk.x,
          y |-> IF jwk.kty = "EC" THEN jwk.y ELSE None]
    ELSE None

algorithmForJwk(jwk) == IF jwk.kty = "EC" THEN "ES256" ELSE "EdDSA"

\* The hash of the members that RFC 7638 requires.
jwkThumbprint(jwk) ==
    IF jwk.kty = "EC" THEN <<jwk.crv, "EC", jwk.x, jwk.y>> ELSE <<jwk.crv, "OKP", jwk.x>>

\* The key with these coordinates, when they are a point.
importPublicKey(jwk) ==
    IF jwk.x.bytes # KEY_BYTES THEN None
    ELSE IF jwk.kty = "EC" /\ jwk.y # jwk.x THEN None
    ELSE jwk.x.of

-----------------------------------------------------------------------------
(* The keys and the signing of the two clients. *)

\* client, keys.ts.  The id is a fresh random key.
generateDpopKey(id) == [id |-> id, crv |-> "P-256", extractable |-> FALSE]

\* A key to be used must not be readable and must be what ES256 takes.
describeKey(key) ==
    IF key.extractable \/ key.crv # "P-256" THEN None
    ELSE [key |-> key, publicJwk |-> PublicJwk(key), thumbprint |-> jwkThumbprint(PublicJwk(key))]

\* server, dpop/sign.ts.
generateDpopKeyPair(id, algorithm) ==
    [algorithm |-> algorithm,
     key |-> [id |-> id, crv |-> IF algorithm = "ES256" THEN "P-256" ELSE "Ed25519"]]

Jws(key, header, payload) ==
    <<Segment(header), Segment(payload),
      Segment([by |-> key.id, over |-> <<Segment(header), Segment(payload)>>])>>

accessTokenHash(token) == token

\* The claims of a proof for a request [method, url, accessToken].
Claims(request, now) ==
    [jti |-> "jti", htm |-> toUpperCase[request.method],
     htu |-> [parseUrl(request.url) EXCEPT !.query = None],
     iat |-> now,
     ath |-> IF request.accessToken = None THEN None ELSE accessTokenHash(request.accessToken)]

createProof(described, request, now) ==
    Jws(described.key,
        [typ |-> "dpop+jwt", alg |-> "ES256", jwk |-> described.publicJwk],
        Claims(request, now))

createDpopProof(pair, request, now) ==
    Jws(pair.key,
        [typ |-> "dpop+jwt", alg |-> pair.algorithm, jwk |-> PublicJwk(pair.key)],
        Claims(request, now))

-----------------------------------------------------------------------------
(* dpop/proof.ts *)

decodeCanonical(segment) == IF segment.canonical THEN segment.value ELSE None

normaliseHtu(url) ==
    IF parseUrl(url) = None THEN None ELSE [parseUrl(url) EXCEPT !.query = None]

\* The key in the header of a proof, None when the header is not acceptable.
KeyUnder(jwk, alg) ==
    IF jwk = None THEN None
    ELSE IF algorithmForJwk(jwk) # alg \/ importPublicKey(jwk) = None THEN None ELSE jwk

ProofKey(header) ==
    IF header = None THEN None
    ELSE IF header.typ # "dpop+jwt" \/ header.alg \notin ALLOWED_DPOP_ALGORITHMS THEN None
    ELSE KeyUnder(parseJwk(header.jwk), header.alg)

SignedBy(proof, jwk, signature) ==
    /\ signature # None
    /\ signature.by = importPublicKey(jwk)
    /\ signature.over = SubSeq(proof, 1, 2)

\* Mutant: the method and the URL are not compared.
ClaimsMatchAnyRequest(payload, options) ==
    /\ payload # None
    /\ payload.iat <= options.now + options.clockToleranceSeconds
    /\ payload.iat >= options.now - options.maxAgeSeconds - options.clockToleranceSeconds
    /\ \/ options.accessToken = None
       \/ payload.ath # None /\ payload.ath = accessTokenHash(options.accessToken)

\* The claims are for the request of options: method, url, accessToken, now,
\* maxAgeSeconds and clockToleranceSeconds.
ClaimsMatch(payload, options) ==
    /\ payload # None
    /\ payload.jti # None
    /\ payload.htm = toUpperCase[options.method]
    /\ payload.htu # None
    /\ normaliseHtu(payload.htu) # None
    /\ normaliseHtu(payload.htu) = normaliseHtu(options.url)
    /\ payload.iat <= options.now + options.clockToleranceSeconds
    /\ payload.iat >= options.now - options.maxAgeSeconds - options.clockToleranceSeconds
    /\ \/ options.accessToken = None
       \/ payload.ath # None /\ payload.ath = accessTokenHash(options.accessToken)

Verified(proof, jwk, options) ==
    IF jwk = None THEN None
    ELSE IF ~SignedBy(proof, jwk, decodeCanonical(proof[3])) THEN None
    ELSE IF ~ClaimsMatch(decodeCanonical(proof[2]), options) THEN None
    ELSE jwkThumbprint(jwk)

\* The thumbprint of the key that a proof shows possession of, or None.
verifyDpopProof(proof, options) ==
    IF Len(proof) # 3 THEN None
    ELSE Verified(proof, ProofKey(decodeCanonical(proof[1])), options)
=============================================================================
