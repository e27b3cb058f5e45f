------------------------- MODULE AuthenticatorData -------------------------
(***************************************************************************)
(* Authenticator data (webauthn, authdata.ts) and credential public keys   *)
(* (cose.ts), read from bytes, with the builders of testing.ts.  The       *)
(* widths of the fields are parameters, so that small data shows what the  *)
(* long fields of WebAuthn do.                                             *)
(***************************************************************************)
EXTENDS Cbor

CONSTANTS
    RP_ID_HASH_BYTES,           \* 32
    SIGN_COUNT_BYTES,           \* 4
    AAGUID_BYTES,               \* 16
    MAX_CREDENTIAL_ID_BYTES,    \* 1023
    COORDINATE_BYTES,           \* 32, of P-256 and of Ed25519
    MIN_RSA_MODULUS_BITS,       \* 2048
    MAX_RSA_MODULUS_BITS        \* 8192

ASSUME WidthsAssumption ==
    /\ {RP_ID_HASH_BYTES, SIGN_COUNT_BYTES, AAGUID_BYTES, MAX_CREDENTIAL_ID_BYTES,
        COORDINATE_BYTES, MIN_RSA_MODULUS_BITS, MAX_RSA_MODULUS_BITS} \subseteq Nat \ {0}
    /\ MIN_RSA_MODULUS_BITS <= MAX_RSA_MODULUS_BITS

HEADER_BYTES == RP_ID_HASH_BYTES + 1 + SIGN_COUNT_BYTES

\* The flags set in a byte.
Bits == [userPresent |-> 1, userVerified |-> 4, backupEligible |-> 8, backedUp |-> 16,
         attestedCredentialData |-> 64, extensionData |-> 128]
parseFlags(raw) == {f \in DOMAIN Bits : (raw \div Bits[f]) % 2 = 1}

\* n bytes after the first at, None when they are not there.
Part(b, at, n) == IF at + n > Len(b) THEN None ELSE SubSeq(b, at + 1, at + n)
From1(b, at) == SubSeq(b, at + 1, Len(b))

\* Mutant: the key is taken to be what is left.
CredentialRest(b, at, length, key) ==
    IF key = None THEN None
    ELSE [aaguid |-> Part(b, HEADER_BYTES, AAGUID_BYTES), credentialId |-> Part(b, at, length),
          publicKey |-> From1(b, at + length), end |-> Len(b)]

CredentialOf(b, at, length, key) ==
    IF key = None THEN None
    ELSE [aaguid |-> Part(b, HEADER_BYTES, AAGUID_BYTES), credentialId |-> Part(b, at, length),
          publicKey |-> Part(b, at + length, key.bytesRead), end |-> at + length + key.bytesRead]

\* The attested credential after the header, with the place it ends at.
Attested(b) ==
    LET at == HEADER_BYTES + AAGUID_BYTES + 2
        length == Number(Part(b, at - 2, 2)) IN
    IF at > Len(b) THEN None
    ELSE IF length = 0 \/ length > MAX_CREDENTIAL_ID_BYTES \/ at + length > Len(b) THEN None
    ELSE CredentialOf(b, at, length, decodeCborPrefix(From1(b, at + length)))

NoCredential == [aaguid |-> <<>>, credentialId |-> <<>>, publicKey |-> <<>>, end |-> HEADER_BYTES]

\* The parts read so far and the value decoded where the extensions begin.
WithExtensions(b, flags, credential, decoded) ==
    IF decoded = None THEN None
    ELSE IF "extensionData" \in flags /\ decoded.value.type # "map" THEN None
    ELSE IF credential.end + decoded.bytesRead # Len(b) THEN None
    ELSE [rpIdHash |-> Part(b, 0, RP_ID_HASH_BYTES),
          rawFlags |-> b[RP_ID_HASH_BYTES + 1], flags |-> flags,
          signCount |-> Part(b, RP_ID_HASH_BYTES + 1, SIGN_COUNT_BYTES),
          credential |-> credential, extensions |-> From1(b, credential.end)]

WithCredential(b, flags, credential) ==
    IF credential = None THEN None
    ELSE WithExtensions(b, flags, credential,
            IF "extensionData" \in flags THEN decodeCborPrefix(From1(b, credential.end))
            ELSE [bytesRead |-> 0])

WithFlags(b, flags) ==
    IF "backedUp" \in flags /\ "backupEligible" \notin flags THEN None
    ELSE WithCredential(b, flags,
            IF "attestedCredentialData" \in flags THEN Attested(b) ELSE NoCredential)

parseAuthenticatorData(b) ==
    IF Len(b) < HEADER_BYTES THEN None
    ELSE WithFlags(b, parseFlags(b[RP_ID_HASH_BYTES + 1]))

-----------------------------------------------------------------------------
(* cose.ts *)

ES256 == Value("neg", <<6>>)
EdDSA == Value("neg", <<7>>)
RS256 == Value("neg", <<1, 0>>)
Label(n) == IF n = 0 THEN Value("int", <<>>)
            ELSE IF n > 0 THEN Value("int", <<n>>) ELSE Value("neg", Digits(<<-n - 1>>))

\* What a map has at a label, None when nothing is there.
Get(map, label) ==
    LET at == {k \in DOMAIN map.v : map.v[k][1] = Label(label)} IN
    IF at = {} THEN None ELSE map.v[Min(at)][2]

requireBytes(map, label) ==
    LET value == Get(map, label) IN
    IF value = None THEN None ELSE IF value.type = "bytes" THEN value.v ELSE None

requireInteger(map, label) ==
    LET value == Get(map, label) IN
    IF value = None THEN None
    ELSE IF value.type \in {"int", "neg"} /\ SafeInteger(value.v) THEN value ELSE None

bitLength(bytes) ==
    LET used == Digits(bytes) IN
    IF used = <<>> THEN 0
    ELSE 8 * (Len(used) - 1) + Min({n \in 1 .. 8 : used[1] < 2 ^ n})

Coordinate(bytes) == IF bytes = None THEN FALSE ELSE Len(bytes) = COORDINATE_BYTES

ec2Material(map) ==
    LET x == requireBytes(map, -2)  y == requireBytes(map, -3) IN
    IF requireInteger(map, -1) = Label(1) /\ Coordinate(x) /\ Coordinate(y)
    THEN <<x, y>> ELSE None

okpMaterial(map) ==
    LET x == requireBytes(map, -2) IN
    IF requireInteger(map, -1) = Label(6) /\ Coordinate(x) THEN <<x>> ELSE None

rsaMaterial(map) ==
    LET n == requireBytes(map, -1)  e == requireBytes(map, -2) IN
    IF n = None \/ e = None THEN None
    ELSE IF /\ bitLength(n) \in MIN_RSA_MODULUS_BITS .. MAX_RSA_MODULUS_BITS
            /\ bitLength(e) \in 2 .. 64 /\ e[Len(e)] % 2 = 1
         THEN <<n, e>> ELSE None

\* Key type and material are those of the algorithm, which must be allowed.
KeyOf(map, alg, kty, material) ==
    IF requireInteger(map, 1) # Label(kty) \/ material = None THEN None
    ELSE [alg |-> alg, material |-> material]

KeyOfAlgorithm(map, alg, allowed) ==
    IF alg \notin allowed THEN None
    ELSE CASE alg = ES256 -> KeyOf(map, alg, 2, ec2Material(map))
           [] alg = EdDSA -> KeyOf(map, alg, 1, okpMaterial(map))
           [] alg = RS256 -> KeyOf(map, alg, 3, rsaMaterial(map))
           [] OTHER -> None

KeyInMap(map, allowed) ==
    IF map = None THEN None
    ELSE IF map.type # "map" THEN None
    ELSE KeyOfAlgorithm(map, requireInteger(map, 3), allowed)

parseCoseKey(b, allowed) == KeyInMap(decodeCbor(b), allowed)

-----------------------------------------------------------------------------
(* testing.ts *)

\* The key map an authenticator writes.
coseKeyFromJwk(k) ==
    LET m == [i \in DOMAIN k.material |-> Value("bytes", k.material[i])] IN
    encodeCbor(Value("map",
        IF k.alg = ES256
        THEN << <<Label(1), Label(2)>>, <<Label(3), k.alg>>, <<Label(-1), Label(1)>>,
                <<Label(-2), m[1]>>, <<Label(-3), m[2]>> >>
        ELSE IF k.alg = EdDSA
        THEN << <<Label(1), Label(1)>>, <<Label(3), k.alg>>, <<Label(-1), Label(6)>>,
                <<Label(-2), m[1]>> >>
        ELSE << <<Label(1), Label(3)>>, <<Label(3), k.alg>>, <<Label(-1), m[1]>>,
                <<Label(-2), m[2]>> >>))

buildAuthenticatorData(p) ==
    p.rpIdHash \o <<p.rawFlags>> \o p.signCount
      \o (IF p.credential.credentialId = <<>> THEN <<>>
          ELSE p.credential.aaguid
                 \o <<Len(p.credential.credentialId) \div 256, Len(p.credential.credentialId) % 256>>
                 \o p.credential.credentialId \o p.credential.publicKey)
      \o p.extensions
=============================================================================
