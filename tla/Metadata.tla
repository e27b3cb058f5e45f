------------------------------ MODULE Metadata ------------------------------
(***************************************************************************)
(* A relying party that registers authenticators under an attestation      *)
(* policy (webauthn, attestation.ts) that is written by hand or drawn from *)
(* the FIDO metadata service (mds.ts), while the service publishes BLOBs   *)
(* and reports compromises.                                                *)
(***************************************************************************)
EXTENDS VirtualAuthenticator

CONSTANTS
    Entries,                \* what FIDO lists at first
    HandPolicies,           \* policies that do not come from metadata
    FidoRoot, OtherRoot,    \* roots that sign BLOBs; FIDO's is configured
    SignerKey, SignerKey2,
    Registrations,          \* what authenticators make
    Variants(_),            \* the registrations a response may be mixed with
    Period,                 \* the time to a BLOB's nextUpdate, at most
    Reported,               \* the statuses that may be reported
    MaxReports, MaxBlobs, MaxTime

ASSUME MetadataAssumption ==
    /\ Period \in Nat /\ MaxReports \in Nat /\ MaxBlobs \in Nat /\ MaxTime \in Nat
    /\ FidoRoot # None /\ OtherRoot # None /\ FidoRoot.key # OtherRoot.key
    /\ None \notin Nat

\* FIDO lists a model once; a report of its own has a date or none.
ASSUME EntriesAssumption ==
    /\ \A e \in Entries :
        /\ e = [aaguid |-> e.aaguid, roots |-> e.roots, reports |-> e.reports]
        /\ IsSequence(e.reports)
        /\ \A i \in DOMAIN e.reports : e.reports[i].date \in Nat \cup {None}
    /\ \A e, f \in Entries : e.aaguid = f.aaguid /\ e.aaguid # None => e = f
    /\ \A models \in SUBSET {e.aaguid : e \in Entries} : models # None

AllMade == Registrations \cup UNION {Variants(r) : r \in Registrations}

\* A key is never an attestation key as well, and is kept where it was made.
ASSUME RegistrationsAssumption ==
    /\ \A r \in AllMade :
        /\ r.format \in VERIFIABLE_FORMATS
        /\ IsKey(r.key) /\ IsKey(r.attestationKey)
        /\ r.attestationKey.alg = "ES256" /\ r.attestationKey # r.key
        /\ IsSequence(r.intermediates)
        /\ r.kept \in {"hardware", "software", "imported", "shared"}
        /\ r.at \in Int
    /\ \A r \in Registrations : \A s \in Variants(r) : r.key = s.key => r.kept = s.kept

\* None is nothing that a statement carries.
ASSUME StatementsAssumption ==
    /\ None # {KM_PURPOSE_SIGN}
    /\ \A r \in AllMade :
        /\ register(r).x5c = None =>
               r.format \in {"none", "android-safetynet"} \/ (r.format = "packed" /\ r.self)
        /\ register(r).sig = None => r.format \in {"none", "apple", "android-safetynet"}
        /\ r.format = "tpm" => register(r).certInfo # None /\ register(r).pubArea # None

DISQUALIFYING_STATUSES ==
    {"ATTESTATION_KEY_COMPROMISE", "USER_VERIFICATION_BYPASS",
     "USER_KEY_REMOTE_COMPROMISE", "USER_KEY_PHYSICAL_COMPROMISE", "REVOKED"}

DEFAULT_ACCEPTED_STATUSES ==
    {"FIDO_CERTIFIED", "FIDO_CERTIFIED_L1", "FIDO_CERTIFIED_L1plus", "FIDO_CERTIFIED_L2",
     "FIDO_CERTIFIED_L2plus", "FIDO_CERTIFIED_L3", "FIDO_CERTIFIED_L3plus"}

VARIABLES
    clock,
    registry,   \* FIDO's entries: aaguid, roots, reports of status and date
    blobs,      \* the BLOBs published, by FIDO and by another service
    policy,     \* the attestation policy in force
    loaded,     \* when its BLOB was read, None for a policy by hand
    verdict     \* the registration under way: what its input was mixed from
                \* and the result

metadataVars == <<clock, registry, blobs, policy, loaded, verdict>>

-----------------------------------------------------------------------------

\* An undated report sorts before every dated one, and last in the list.
Date(report) == IF report.date = None THEN -1 ELSE report.date

\* The first of readStatusReports(): the newest, of those the first listed.
CurrentStatus(reports) ==
    LET newest == {i \in DOMAIN reports :
                      \A j \in DOMAIN reports : Date(reports[j]) <= Date(reports[i])}
    IN  reports[CHOOSE i \in newest : \A j \in newest : i <= j].status

\* Mutant: only the current status counts.
DisqualifiedNow(entry) ==
    entry.reports # <<>> /\ CurrentStatus(entry.reports) \in DISQUALIFYING_STATUSES

Disqualified(entry) ==
    \E i \in DOMAIN entry.reports : entry.reports[i].status \in DISQUALIFYING_STATUSES

Admitted(entry) ==
    /\ entry.aaguid # None /\ entry.roots # {}
    /\ ~Disqualified(entry)
    /\ entry.reports # <<>> /\ CurrentStatus(entry.reports) \in DEFAULT_ACCEPTED_STATUSES

toAttestationPolicy(entries) ==
    LET in == {e \in entries : Admitted(e)}  aaguids == {e.aaguid : e \in in} IN
    [formats |-> {"packed", "apple", "tpm", "fido-u2f", "android-key"},
     trustAnchors |-> UNION {e.roots : e \in in},
     aaguids |-> aaguids,
     modelAnchors |-> [m \in aaguids |-> UNION {e.roots : e \in {f \in in : f.aaguid = m}}],
     selfAttestation |-> FALSE, softwareKeys |-> FALSE]

Stale(blob, now) == now > blob.payload.nextUpdate

parseMetadataBlob(blob, now) ==
    /\ blob.alg = "RS256"
    /\ blob.x5c # <<>> /\ Len(blob.x5c) <= 8
    /\ verifySignature("RS256", blob.x5c[1].key, blob.payload, blob.sig)
    /\ chainReachesAnchor(blob.x5c, {FidoRoot})
    /\ ~Stale(blob, now)

-----------------------------------------------------------------------------

MetadataInit ==
    /\ clock = 0
    /\ registry = Entries
    /\ blobs = {}
    /\ policy \in HandPolicies
    /\ loaded = None
    /\ verdict = None

\* FIDO adds a report to an entry.
Report ==
    /\ verdict = None
    /\ \E e \in registry, s \in Reported :
        /\ Len(e.reports) < MaxReports
        /\ registry' = (registry \ {e}) \cup
                         {[e EXCEPT !.reports = Append(@, [status |-> s, date |-> clock])]}
        /\ UNCHANGED <<clock, blobs, policy, loaded, verdict>>

\* FIDO publishes its entries; another service publishes what it likes.
Publish ==
    /\ verdict = None /\ Cardinality(blobs) < MaxBlobs
    /\ \E due \in clock .. clock + Period, fido \in BOOLEAN :
           blobs' = blobs \cup
               {IF fido THEN buildMetadataBlob(FidoRoot, SignerKey, Cardinality(blobs), due, registry)
                ELSE buildMetadataBlob(OtherRoot, SignerKey2, Cardinality(blobs), due, Entries)}
    /\ UNCHANGED <<clock, registry, policy, loaded, verdict>>

\* The application reads a BLOB, a kept one or a new one, and draws its policy.
Load ==
    /\ verdict = None
    /\ \E b \in blobs :
        /\ parseMetadataBlob(b, clock)
        /\ policy' = toAttestationPolicy(b.payload.entries)
        /\ loaded' = clock
        /\ UNCHANGED <<clock, registry, blobs, verdict>>

\* What a registration r arrives as, with one part of another's.
Mixed(r, s, part) ==
    LET a == buildAuthenticatorData(r)  b == buildAuthenticatorData(s)
        st == register(r)  tt == register(s) IN
    [fmt |-> IF part = "fmt" THEN s.format ELSE r.format,
     auth |-> IF part = "auth" THEN b ELSE [a EXCEPT !.key = IF part = "key" THEN b.key ELSE @],
     cdh |-> IF part = "cdh" THEN s.cdh ELSE r.cdh,
     st |-> [f \in DOMAIN st |-> IF f = part THEN tt[f] ELSE st[f]],
     now |-> clock]

Parts == {"none", "fmt", "auth", "key", "cdh", "alg", "sig", "x5c", "certInfo", "pubArea", "response"}

Register ==
    /\ verdict = None
    /\ \E r \in Registrations : \E s \in Variants(r) : \E part \in Parts :
           /\ part = "none" \/ Mixed(r, s, part) # Mixed(r, r, "none")
           /\ verdict' = [of |-> r, mixed |-> s, part |-> part,
                          result |-> verifyAttestation(Mixed(r, s, part), policy)]
    /\ UNCHANGED <<clock, registry, blobs, policy, loaded>>

\* The application has stored the credential or shown the error.
Settle == verdict # None /\ verdict' = None
          /\ UNCHANGED <<clock, registry, blobs, policy, loaded>>

MetadataTick ==
    /\ clock < MaxTime /\ verdict = None
    /\ clock' = clock + 1
    /\ UNCHANGED <<registry, blobs, policy, loaded, verdict>>

MetadataNext == Report \/ Publish \/ Load \/ Register \/ Settle \/ MetadataTick

MetadataSpec == MetadataInit /\ [][MetadataNext]_metadataVars

-----------------------------------------------------------------------------
(* Properties *)

\* The response claims what r says: it is of r's ceremony and credential, and
\* of its model, which fido-u2f does not name.
Says(r, in) ==
    /\ r.cdh = in.cdh /\ r.id = in.auth.id /\ r.key = in.auth.key
    /\ in.fmt # "fido-u2f" => r.aaguid = in.auth.aaguid

\* A path of issuers, each a valid authority among the certificates c, connects
\* x to an anchor, within the depth that is walked.
Vouched(x, c, anchors) ==
    \E n \in 1 .. MAX_CHAIN_DEPTH : \E path \in [1 .. n -> c] :
        /\ path[1] = x
        /\ \A k \in 1 .. n - 1 : /\ path[k + 1].ca /\ path[k + 1].valid
                                 /\ IssuedBy(path[k], path[k + 1])
        /\ EndsAt(path[n], anchors)

Certificates(in) ==
    IF in.fmt = "android-safetynet" THEN in.st.response.x5c
    ELSE IF in.st.x5c # None THEN in.st.x5c ELSE <<>>

Input == Mixed(verdict.of, verdict.mixed, verdict.part)

Rooted(in, anchors) ==
    LET x5c == Certificates(in) IN
    x5c # <<>> /\ x5c[1].valid
    /\ Vouched(x5c[1], {x5c[i] : i \in DOMAIN x5c}, anchors)

\* Every root a policy trusts, for some model.
Trusted(p) == p.trustAnchors \cup UNION {p.modelAnchors[m] : m \in DOMAIN p.modelAnchors}

\* No two certificates of the chain are for one name and key, which is when the
\* first issuer found may be the wrong one to follow.
OneEach(x5c) ==
    \A i, j \in DOMAIN x5c :
        x5c[i].name = x5c[j].name /\ x5c[i].key = x5c[j].key => i = j

\* attestation.ts: an accepted attestation was made by an authenticator for just
\* this ceremony and credential, and nothing pieced together of two passes.  The
\* certificate is for a key of that authenticator, and authorities connect it to
\* a root, under metadata to one of the model's own; its key is kept in hardware,
\* unless the policy says otherwise, and Google's word is fresh.
AcceptedMeansMade ==
    (verdict # None /\ verdict.result.type \in {"basic", "self"}) =>
        \E r \in {verdict.of, verdict.mixed} :
            /\ Says(r, Input)
            /\ IF verdict.result.type = "self" THEN r.self
               ELSE /\ Certificates(Input)[1].key.id \in {r.key.id, r.attestationKey.id}
                    /\ Rooted(Input, Trusted(policy))
            /\ (verdict.result.aaguidVerified /\ loaded # None) =>
                   \E e \in Entries :
                       e.aaguid = r.aaguid /\ Rooted(Input, e.roots)
            /\ (Input.fmt = "android-key" /\ ~policy.softwareKeys) => r.kept = "hardware"
            /\ Input.fmt = "android-safetynet" =>
                   r.cts /\ clock <= r.at + SAFETYNET_MAX_AGE

\* attestation.ts, testing.ts: what an authenticator of an admitted model makes,
\* in a format that names models, is accepted when its certificates lead to
\* the model's roots.
GenuineAccepted ==
    (verdict # None /\ verdict.part = "none") =>
        LET r == verdict.of  in == Input IN
        (/\ r.format \in {"packed", "apple", "tpm", "android-key"}
         /\ r.format \in {"tpm", "android-key"} => r.key.alg = "ES256"
         /\ loaded # None /\ r.aaguid \in policy.aaguids
         /\ ~r.self /\ r.kept = "hardware"
         /\ OneEach(in.st.x5c) /\ Len(in.st.x5c) <= MAX_X5C_ENTRIES
         /\ Rooted(in, policy.modelAnchors[r.aaguid])) => verdict.result.type = "basic"

\* mds.ts: once a compromise has been public for the life of a BLOB, no policy
\* that is drawn from metadata admits the model, whatever BLOB it was drawn
\* from and whatever was reported since.
CompromiseTakesEffect ==
    loaded # None =>
        \A e \in registry : \A i \in DOMAIN e.reports :
            (/\ e.reports[i].status \in DISQUALIFYING_STATUSES
             /\ Date(e.reports[i]) + Period < loaded) => e.aaguid \notin policy.aaguids
=============================================================================
