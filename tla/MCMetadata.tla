----------------------------- MODULE MCMetadata -----------------------------
(***************************************************************************)
(* A small instance of Metadata for TLC: two vendors with a model and a    *)
(* root each, one of them with intermediate authorities.                   *)
(***************************************************************************)
EXTENDS Metadata

Key(name) == [id |-> name, alg |-> "ES256"]

root1 == createCertificate("root 1", None, Key("r1"), TRUE, NoExtension)
root2 == createCertificate("root 2", None, Key("r2"), TRUE, NoExtension)
fido == createCertificate("FIDO", None, Key("f"), TRUE, NoExtension)
other == createCertificate("another service", None, Key("o"), TRUE, NoExtension)
signer == [id |-> "s", alg |-> "RS256"]
signer2 == [id |-> "t", alg |-> "RS256"]

\* An authority, one that lapsed and one that is none, of one name and key, and
\* an authority below the first, too deep to be followed.
ica == createCertificate("ica", root1, Key("i"), TRUE, NoExtension)
icaLapsed == [ica EXCEPT !.valid = FALSE]
icaNone == [ica EXCEPT !.ca = FALSE]
deep == createCertificate("deep", ica, Key("d"), TRUE, NoExtension)

Entry(aaguid, root, reports) == [aaguid |-> aaguid, roots |-> {root}, reports |-> reports]
OldReport(status) == [status |-> status, date |-> None]
TwoModels ==
    {Entry("m1", root1, <<[status |-> "FIDO_CERTIFIED_L1", date |-> 0]>>),
     Entry("m2", root2, <<[status |-> "FIDO_CERTIFIED", date |-> 0],
                          OldReport("NOT_FIDO_CERTIFIED"), OldReport("NOT_FIDO_CERTIFIED")>>),
     Entry(None, root2, <<OldReport("FIDO_CERTIFIED"), OldReport("FIDO_CERTIFIED"),
                          OldReport("FIDO_CERTIFIED")>>)}

ByHand(formats, aaguids, anchors, lenient) ==
    [formats |-> formats, trustAnchors |-> anchors, aaguids |-> aaguids,
     modelAnchors |-> <<>>, selfAttestation |-> lenient, softwareKeys |-> lenient]
Policies == {ByHand({"none"}, None, {}, FALSE),
             ByHand(VERIFIABLE_FORMATS, None, {root1}, TRUE),
             ByHand(VERIFIABLE_FORMATS, None, {root1, root2}, FALSE),
             ByHand(VERIFIABLE_FORMATS, {"m1"}, {root1, root2}, TRUE)}

Made(format) ==
    [format |-> format, self |-> FALSE, aaguid |-> "m1", id |-> "c1", key |-> Key("k1"),
     cdh |-> "h1", issuer |-> root1, attestationKey |-> Key("a1"), intermediates |-> <<>>,
     kept |-> "hardware", at |-> 0, cts |-> TRUE]

Below(r, issuer, chain) == [r EXCEPT !.issuer = issuer, !.intermediates = chain]

Vendors(r) ==
    {r, [r EXCEPT !.aaguid = "m2", !.issuer = root2, !.attestationKey = Key("a2")],
     [r EXCEPT !.aaguid = "m2", !.attestationKey = Key("a2")]}

Kinds(r) ==
    CASE r.format = "packed" ->
            {r, [r EXCEPT !.self = TRUE], Below(r, ica, <<ica>>), Below(r, ica, <<>>),
             Below(r, ica, <<icaNone>>), Below(r, ica, <<icaLapsed>>),
             Below(r, ica, <<icaLapsed, ica>>), Below(r, deep, <<deep, ica>>)}
      [] r.format = "android-key" ->
            {[r EXCEPT !.kept = k] : k \in {"hardware", "software", "imported", "shared"}}
      [] r.format = "android-safetynet" ->
            {r, [r EXCEPT !.cts = FALSE], [r EXCEPT !.at = 2]}
      [] OTHER -> {r}

MCRegistrations == UNION {UNION {Kinds(v) : v \in Vendors(Made(f))} : f \in VERIFIABLE_FORMATS}

\* Itself; what the first model makes may be mixed with another ceremony, credential,
\* model, algorithm or statement.
MCVariants(r) ==
    IF r.aaguid # "m1" THEN {r}
    ELSE {r, [r EXCEPT !.cdh = "h2"], [r EXCEPT !.key = Key("k2"), !.id = "c2"],
          [r EXCEPT !.aaguid = "m2", !.issuer = root2, !.attestationKey = Key("a2")],
          [r EXCEPT !.key.alg = "RS256"], [r EXCEPT !.format = "packed", !.self = TRUE]}
=============================================================================
