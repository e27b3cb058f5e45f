---------------------------- MODULE Attestation ----------------------------
(***************************************************************************)
(* What verifyAttestation() (webauthn, attestation.ts) accepts, with the   *)
(* checks of tpm.ts, android-key.ts and safetynet.ts.  All errors end a    *)
(* registration the same way, so a check is a conjunct.  A hash is its     *)
(* input wrapped in a record, a signature names its key and what it is     *)
(* over; bytes that do not parse are None or a flag of what holds them.    *)
(*                                                                         *)
(* A certificate is a record of                                            *)
(*   name, issuer   distinguished names, None when empty                   *)
(*   key, signer    the subject's key and the key its signature is by      *)
(*   ca, valid      basic constraints; whether now is in its window        *)
(*   ext            the one extension that the format at hand reads        *)
(* and a key of id and alg.  What a response claims is a record auth of    *)
(* rpId, aaguid, id (of the credential) and key, and the hash cdh of its   *)
(* client data.                                                            *)
(***************************************************************************)
EXTENDS Integers, Sequences, FiniteSets

CONSTANTS
    None,
    MAX_CHAIN_DEPTH,        \* 6
    MAX_X5C_ENTRIES,        \* 8
    SAFETYNET_MAX_AGE,      \* 10 minutes, in the ticks of the clock
    SAFETYNET_MAX_SKEW      \* 60 seconds

ASSUME LimitsAssumption ==
    /\ MAX_CHAIN_DEPTH \in Nat \ {0} /\ MAX_X5C_ENTRIES \in Nat \ {0}
    /\ SAFETYNET_MAX_AGE \in Nat /\ SAFETYNET_MAX_SKEW \in Nat

VERIFIABLE_FORMATS == {"none", "packed", "apple", "tpm", "fido-u2f",
                       "android-key", "android-safetynet"}

Digest(data) == [sha256 |-> data]
SignedData(auth, cdh) == [auth |-> auth, cdh |-> cdh]

verifySignature(alg, key, data, sig) ==
    sig # None /\ key.alg = alg /\ sig.by = key /\ sig.over = data

-----------------------------------------------------------------------------
(* Chains *)

\* checkIssued() and verify(): external, of node:crypto.
IssuedBy(cert, by) == cert.issuer = by.name /\ cert.signer = by.key

\* The certificates of the statement that may have issued its i-th.
Issuers(chain, i) ==
    {j \in DOMAIN chain \ {i} : /\ chain[j].ca /\ chain[j].valid
                                /\ IssuedBy(chain[i], chain[j])}

EndsAt(cert, anchors) == \E a \in anchors : a.valid /\ IssuedBy(cert, a)

\* The first issuer found is the one followed.
Follows(chain, i, j) ==
    j \in Issuers(chain, i) /\ \A k \in Issuers(chain, i) : j <= k

\* Mutant: the first certificate uses up a step of its own.
chainReachesAnchorShort(chain, anchors) ==
    /\ chain # <<>> /\ chain[1].valid
    /\ \E n \in 1 .. MAX_CHAIN_DEPTH - 1 : \E walk \in [1 .. n -> DOMAIN chain] :
        /\ walk[1] = 1
        /\ \A k \in 1 .. n - 1 : Follows(chain, walk[k], walk[k + 1])
        /\ EndsAt(chain[walk[n]], anchors)

chainReachesAnchor(chain, anchors) ==
    /\ chain # <<>> /\ chain[1].valid
    /\ \E n \in 1 .. MAX_CHAIN_DEPTH : \E walk \in [1 .. n -> DOMAIN chain] :
        /\ walk[1] = 1
        /\ \A k \in 1 .. n - 1 : Follows(chain, walk[k], walk[k + 1])
        /\ EndsAt(chain[walk[n]], anchors)

\* A chain that is there and readable; packed alone does without one.
readX5c(st) ==
    st.x5c # None /\ st.x5c # <<>> /\ Len(st.x5c) <= MAX_X5C_ENTRIES

\* Mutant: any trusted vendor speaks for any model.
anchorsForAny(policy, auth) == policy.trustAnchors

anchorsForModel(policy, auth) ==
    IF auth.aaguid \in DOMAIN policy.modelAnchors
    THEN policy.modelAnchors[auth.aaguid] ELSE policy.trustAnchors

Allowed(policy, auth) == policy.aaguids = None \/ auth.aaguid \in policy.aaguids

certificateHoldsCredentialKey(cert, auth) == cert.key = auth.key

-----------------------------------------------------------------------------
(* apple, 8.8 *)

verifyAppleAttestation(in, anchors) ==
    LET cert == in.st.x5c[1] IN
    /\ cert.ext.kind = "apple"
    /\ cert.ext.value = Digest(SignedData(in.auth, in.cdh))
    /\ certificateHoldsCredentialKey(cert, in.auth)
    /\ chainReachesAnchor(in.st.x5c, anchors)

Apple(in, policy, anchors) ==
    /\ readX5c(in.st) /\ anchors # {}
    /\ verifyAppleAttestation(in, anchors)
    /\ Allowed(policy, in.auth)

-----------------------------------------------------------------------------
(* tpm, 8.3 *)

\* pubArea: type, curve and key, and whether it was read to its last byte.
parseTpmPublic(pub) == pub.exact /\ pub.type \in {"RSA", "ECC"}

verifyPublicKeyMatches(pub, key) ==
    /\ pub.key = key
    /\ IF pub.type = "RSA" THEN key.alg = "RS256"
       ELSE key.alg = "ES256" /\ pub.curve = "P-256"

parseTpmAttest(info) == info.generated /\ info.certify

verifyAttestedName(name, pub) ==
    name.alg \in {"SHA-256", "SHA-384", "SHA-512"} /\ name.digest = Digest(pub)

\* parseCoseKey() is told to accept the statement's algorithm alone.
credentialKeyMaterial(key, alg) == key.alg = alg

hasExtendedKeyUsage(cert) == cert.ext.kind = "aik"

verifyTpmAttestation(in, anchors) ==
    LET st == in.st  aik == in.st.x5c[1] IN
    /\ st.ver = "2.0" /\ st.sig # None /\ st.certInfo # None /\ st.pubArea # None
    /\ parseTpmPublic(st.pubArea)
    /\ credentialKeyMaterial(in.auth.key, st.alg)
    /\ verifyPublicKeyMatches(st.pubArea, in.auth.key)
    /\ parseTpmAttest(st.certInfo)
    /\ st.certInfo.extraData = Digest(SignedData(in.auth, in.cdh))
    /\ verifyAttestedName(st.certInfo.name, st.pubArea)
    /\ verifySignature(st.alg, aik.key, st.certInfo, st.sig)
    /\ ~aik.ca /\ aik.name = None /\ hasExtendedKeyUsage(aik)
    /\ chainReachesAnchor(st.x5c, anchors)

Tpm(in, policy, anchors) ==
    /\ in.st.alg \in {"ES256", "RS256"}
    /\ readX5c(in.st) /\ anchors # {}
    /\ verifyTpmAttestation(in, anchors)
    /\ Allowed(policy, in.auth)

-----------------------------------------------------------------------------
(* android-key, 8.4 *)

KM_ORIGIN_GENERATED == 0
KM_PURPOSE_SIGN == 2

\* Of an authorization list: its purposes and origin, None when absent, and
\* whether it holds allApplications.
verifyAuthorizations(d, useSoftware) ==
    LET Read(tee, soft) == IF tee # None \/ ~useSoftware THEN tee ELSE soft
        purposes == Read(d.tee.purposes, d.software.purposes)
    IN  /\ ~d.software.all /\ ~d.tee.all
        /\ Read(d.tee.origin, d.software.origin) = KM_ORIGIN_GENERATED
        /\ purposes # None /\ KM_PURPOSE_SIGN \in purposes

parseKeyDescription(d) == d.fields >= 8

verifyAndroidKeyAttestation(in, anchors, allowSoftware) ==
    LET cert == in.st.x5c[1] IN
    /\ verifySignature(in.st.alg, cert.key, SignedData(in.auth, in.cdh), in.st.sig)
    /\ certificateHoldsCredentialKey(cert, in.auth)
    /\ cert.ext.kind = "android"
    /\ parseKeyDescription(cert.ext.value)
    /\ verifyAuthorizations(cert.ext.value, allowSoftware)
    /\ cert.ext.value.challenge = in.cdh
    /\ chainReachesAnchor(in.st.x5c, anchors)

AndroidKey(in, policy, anchors) ==
    /\ in.st.alg \in {"ES256", "RS256"}
    /\ readX5c(in.st) /\ anchors # {}
    /\ verifyAndroidKeyAttestation(in, anchors, policy.softwareKeys)
    /\ Allowed(policy, in.auth)

-----------------------------------------------------------------------------
(* android-safetynet, 8.5 *)

\* The parts of the JWS that are signed.
SigningInput(r) == [alg |-> r.alg, x5c |-> r.x5c, nonce |-> r.nonce, stamp |-> r.stamp,
                    cts |-> r.cts, basic |-> r.basic]

parseSafetyNetResponse(r) ==
    /\ r.alg = "RS256"
    /\ r.x5c # <<>> /\ Len(r.x5c) <= 8
    /\ r.nonce # None

verifySafetyNetVerdicts(r, now) ==
    /\ r.cts
    /\ now - r.stamp <= SAFETYNET_MAX_AGE
    /\ now - r.stamp >= - SAFETYNET_MAX_SKEW

SafetyNet(in, policy, anchors) ==
    LET r == in.st.response IN
    /\ in.st.ver # None /\ r # None /\ anchors # {}
    /\ parseSafetyNetResponse(r)
    /\ r.x5c[1].ext.kind = "host"
    /\ verifySignature("RS256", r.x5c[1].key, SigningInput(r), r.sig)
    /\ r.nonce = Digest(SignedData(in.auth, in.cdh))
    /\ verifySafetyNetVerdicts(r, in.now)
    /\ chainReachesAnchor(r.x5c, anchors)
    /\ policy.aaguids = None

-----------------------------------------------------------------------------
(* fido-u2f, 8.6 *)

u2fPublicKey(key) == key.alg = "ES256"

\* 0x00 || rpIdHash || clientDataHash || credentialId || publicKeyU2F
VerificationData(auth, cdh) ==
    [rpId |-> auth.rpId, cdh |-> cdh, id |-> auth.id, key |-> auth.key]

verifyU2fAttestation(in, anchors) ==
    LET cert == in.st.x5c[1] IN
    /\ in.st.sig # None
    /\ Len(in.st.x5c) = 1
    /\ cert.key.alg = "ES256"
    /\ u2fPublicKey(in.auth.key)
    /\ verifySignature("ES256", cert.key, VerificationData(in.auth, in.cdh), in.st.sig)
    /\ chainReachesAnchor(in.st.x5c, anchors)

U2f(in, policy, anchors) ==
    /\ readX5c(in.st) /\ anchors # {}
    /\ verifyU2fAttestation(in, anchors)
    /\ policy.aaguids = None

-----------------------------------------------------------------------------
(* packed, 8.2 *)

\* certificateAaguid(): an extension that cannot be read refuses.
AaguidAgrees(cert, auth) ==
    /\ cert.ext.kind # "unreadable"
    /\ cert.ext.kind = "aaguid" => cert.ext.value.aaguid = auth.aaguid

SelfAttested(in, policy) ==
    /\ in.st.x5c = None
    /\ policy.selfAttestation
    /\ in.st.alg = in.auth.key.alg
    /\ policy.aaguids = None
    /\ verifySignature(in.st.alg, in.auth.key, SignedData(in.auth, in.cdh), in.st.sig)

PackedBasic(in, policy, anchors) ==
    /\ readX5c(in.st) /\ anchors # {}
    /\ ~in.st.x5c[1].ca
    /\ verifySignature(in.st.alg, in.st.x5c[1].key, SignedData(in.auth, in.cdh), in.st.sig)
    /\ AaguidAgrees(in.st.x5c[1], in.auth)
    /\ chainReachesAnchor(in.st.x5c, anchors)
    /\ Allowed(policy, in.auth)

Packed(in, policy, anchors) ==
    /\ in.st.alg \in {"ES256", "EdDSA", "RS256"} /\ in.st.sig # None
    /\ SelfAttested(in, policy) \/ PackedBasic(in, policy, anchors)

-----------------------------------------------------------------------------

EmptyStatement == [alg |-> None, sig |-> None, x5c |-> None, ver |-> None,
                   certInfo |-> None, pubArea |-> None, response |-> None]

NoneAccepted(in, policy) == in.st = EmptyStatement /\ policy.aaguids = None

Accepts(in, policy) ==
    LET anchors == anchorsForModel(policy, in.auth) IN
    /\ in.fmt \in policy.formats \cap VERIFIABLE_FORMATS
    /\ CASE in.fmt = "none" -> NoneAccepted(in, policy)
         [] in.fmt = "apple" -> Apple(in, policy, anchors)
         [] in.fmt = "tpm" -> Tpm(in, policy, anchors)
         [] in.fmt = "android-safetynet" -> SafetyNet(in, policy, anchors)
         [] in.fmt = "android-key" -> AndroidKey(in, policy, anchors)
         [] in.fmt = "fido-u2f" -> U2f(in, policy, anchors)
         [] in.fmt = "packed" -> Packed(in, policy, anchors)

\* AttestationResult: what an accepted statement is said to establish.
verifyAttestation(in, policy) ==
    [type |-> IF ~Accepts(in, policy) THEN "refused"
              ELSE IF in.fmt = "none" THEN "none"
              ELSE IF in.fmt = "packed" /\ in.st.x5c = None THEN "self" ELSE "basic",
     aaguidVerified |-> /\ in.fmt \in {"apple", "tpm", "android-key", "packed"}
                        /\ Accepts(in, policy)
                        /\ in.fmt = "packed" => in.st.x5c # None]
=============================================================================
