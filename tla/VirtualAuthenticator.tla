------------------------ MODULE VirtualAuthenticator ------------------------
(***************************************************************************)
(* The authenticators, certificates and metadata BLOBs that the package    *)
(* itself can make (webauthn, testing.ts and x509-fixtures.ts), in the     *)
(* terms of Attestation.  Used as the authenticators of Metadata.          *)
(***************************************************************************)
EXTENDS Attestation

CONSTANTS RpId, ZeroAaguid

IsSequence(s) == s \in Seq({s[i] : i \in DOMAIN s})
IsKey(k) == k = [id |-> k.id, alg |-> k.alg]

NoExtension == [kind |-> "none", value |-> None]

\* Without an issuer a certificate is its own.
createCertificate(subject, issuer, key, ca, ext) ==
    [name |-> subject, issuer |-> IF issuer = None THEN subject ELSE issuer.name,
     key |-> key, signer |-> IF issuer = None THEN key ELSE issuer.key,
     ca |-> ca, valid |-> TRUE, ext |-> ext]

Sign(key, data) == [by |-> key, over |-> data]

buildTpmPublic(key) == [type |-> "ECC", curve |-> "P-256", key |-> key, exact |-> TRUE]

buildTpmCertInfo(pub, data) ==
    [generated |-> TRUE, certify |-> TRUE, extraData |-> Digest(data),
     name |-> [alg |-> "SHA-256", digest |-> Digest(pub)]]

\* authorizationList() and keyDescription(): what Keystore writes of a key that
\* was made in hardware, in software, imported, or shared between applications.
authorizationList(purposes, all, origin) ==
    [purposes |-> purposes, all |-> all, origin |-> origin]

keyDescription(kept, cdh) ==
    LET absent == authorizationList(None, FALSE, None)
        made == authorizationList({KM_PURPOSE_SIGN}, FALSE, KM_ORIGIN_GENERATED) IN
    [challenge |-> cdh, fields |-> 8,
     software |-> IF kept = "software" THEN made
                  ELSE IF kept = "shared" THEN authorizationList(None, TRUE, None) ELSE absent,
     tee |-> IF kept = "software" THEN absent
             ELSE IF kept = "imported"
                  THEN authorizationList({KM_PURPOSE_SIGN}, FALSE, KM_ORIGIN_GENERATED + 2)
             ELSE made]

buildAuthenticatorData(r) ==
    [rpId |-> RpId, aaguid |-> IF r.format = "fido-u2f" THEN ZeroAaguid ELSE r.aaguid,
     id |-> r.id, key |-> r.key]

-----------------------------------------------------------------------------
(***************************************************************************)
(* VirtualAuthenticator.register(), one operator per kind of attestation.  *)
(* A registration r has the format, the model aaguid, the credential's id  *)
(* and key, the client data hash cdh, the issuer and the key of the        *)
(* attestation certificate, the intermediates sent along, kept (see        *)
(* keyDescription), and at and cts, which Google says of the device.       *)
(***************************************************************************)

Attested(r) == SignedData(buildAuthenticatorData(r), r.cdh)

RegisterApple(r) ==
    [EmptyStatement EXCEPT
        !.x5c = <<createCertificate("credential", r.issuer, r.key, FALSE,
                     [kind |-> "apple", value |-> Digest(Attested(r))])>>]

RegisterSafetyNet(r) ==
    LET key == [r.attestationKey EXCEPT !.alg = "RS256"]
        leaf == createCertificate("google", r.issuer, key, FALSE,
                                  [kind |-> "host", value |-> None])
        jws == [alg |-> "RS256", x5c |-> <<leaf>>, nonce |-> Digest(Attested(r)),
                stamp |-> r.at, cts |-> r.cts, basic |-> TRUE]
    IN  [EmptyStatement EXCEPT !.ver = "224714037",
            !.response = [f \in DOMAIN jws \cup {"sig"} |->
                             IF f = "sig" THEN Sign(key, jws) ELSE jws[f]]]

RegisterAndroidKey(r) ==
    [EmptyStatement EXCEPT
        !.alg = r.key.alg, !.sig = Sign(r.key, Attested(r)),
        !.x5c = <<createCertificate("keystore", r.issuer, r.key, FALSE,
                     [kind |-> "android", value |-> keyDescription(r.kept, r.cdh)])>>]

RegisterU2f(r) ==
    [EmptyStatement EXCEPT
        !.sig = Sign(r.attestationKey, VerificationData(buildAuthenticatorData(r), r.cdh)),
        !.x5c = <<createCertificate("u2f", r.issuer, r.attestationKey, FALSE, NoExtension)>>]

RegisterTpm(r) ==
    LET pub == buildTpmPublic(r.key)
        info == buildTpmCertInfo(pub, Attested(r)) IN
    [EmptyStatement EXCEPT
        !.ver = "2.0", !.alg = "ES256", !.sig = Sign(r.attestationKey, info),
        !.certInfo = info, !.pubArea = pub,
        !.x5c = <<createCertificate(None, r.issuer, r.attestationKey, FALSE,
                     [kind |-> "aik", value |-> None])>>]

RegisterPacked(r) ==
    [EmptyStatement EXCEPT
        !.alg = "ES256", !.sig = Sign(r.attestationKey, Attested(r)),
        !.x5c = <<createCertificate("leaf", r.issuer, r.attestationKey, FALSE,
                     [kind |-> "aaguid", value |-> [aaguid |-> r.aaguid]])>>
                \o r.intermediates]

RegisterSelf(r) ==
    [EmptyStatement EXCEPT !.alg = r.key.alg, !.sig = Sign(r.key, Attested(r))]

register(r) ==
    CASE r.format = "apple" -> RegisterApple(r)
      [] r.format = "android-safetynet" -> RegisterSafetyNet(r)
      [] r.format = "android-key" -> RegisterAndroidKey(r)
      [] r.format = "fido-u2f" -> RegisterU2f(r)
      [] r.format = "tpm" -> RegisterTpm(r)
      [] r.format = "packed" -> IF r.self THEN RegisterSelf(r) ELSE RegisterPacked(r)
      [] OTHER -> EmptyStatement

-----------------------------------------------------------------------------

\* buildMetadataBlob(): signed by a certificate that root issued.
buildMetadataBlob(root, key, number, nextUpdate, entries) ==
    LET payload == [no |-> number, nextUpdate |-> nextUpdate, entries |-> entries] IN
    [alg |-> "RS256", payload |-> payload, sig |-> Sign(key, payload),
     x5c |-> <<createCertificate("metadata signer", root, key, FALSE, NoExtension)>>]
=============================================================================
