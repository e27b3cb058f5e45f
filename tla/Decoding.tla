------------------------------ MODULE Decoding ------------------------------
(***************************************************************************)
(* What arrives at the decoders of the package webauthn: encoded values,   *)
(* authenticator data, certificates and signatures, as they were built or  *)
(* with some bytes lost, changed or added on the way.                      *)
(***************************************************************************)
EXTENDS AuthenticatorData

INSTANCE Der

CONSTANTS Sources,      \* what is encoded: a kind and a datum
          Bytes(_),     \* the bytes that may turn up in a kind
          MaxDamage,    \* how many bytes suffer
          MaxLength     \* longer data arrives as it was

VARIABLES source, bytes, damage

vars == <<source, bytes, damage>>

Oid == <<1, 3, 200>>

encode(s) ==
    CASE s.kind = "cbor" -> encodeCbor(s.datum)
      [] s.kind = "authData" -> buildAuthenticatorData(s.datum)
      [] s.kind = "key" -> coseKeyFromJwk(s.datum)
      [] s.kind = "signature" -> rawToDerSignature(s.datum)
      [] s.kind = "certificate" ->
            Certificate([i \in DOMAIN s.datum |->
                extension(encodeOid(s.datum[i].oid), s.datum[i].value, s.datum[i].critical)])

\* What the decoder of the kind makes of b.
decode(kind, b) ==
    CASE kind = "cbor" -> decodeCbor(b)
      [] kind = "authData" -> parseAuthenticatorData(b)
      [] kind = "key" -> parseCoseKey(b, {ES256, EdDSA, RS256})
      [] kind = "signature" -> derToRawSignature(b, COORDINATE_BYTES)
      [] kind = "certificate" -> findExtension(b, encodeOid(Oid))

Init ==
    /\ source \in Sources
    /\ bytes = encode(source)
    /\ damage = 0

Damage(b) == damage < MaxDamage /\ Len(bytes) <= MaxLength /\ damage' = damage + 1 /\ bytes' = b /\ UNCHANGED source

Lose == \E i \in DOMAIN bytes : Damage(RemoveAt(bytes, i))
Change == \E i \in DOMAIN bytes, x \in Bytes(source.kind) : Damage([bytes EXCEPT ![i] = x])
Add == \E i \in 1 .. Len(bytes) + 1, x \in Bytes(source.kind) : Damage(InsertAt(bytes, i, x))

Next == Lose \/ Change \/ Add

Spec == Init /\ [][Next]_vars

-----------------------------------------------------------------------------
(* Properties *)

Decoded == decode(source.kind, bytes)

\* What the datum says to its reader: of a certificate the extension looked for.
Said ==
    CASE source.kind = "certificate" ->
            LET at == {i \in DOMAIN source.datum : source.datum[i].oid = Oid} IN
            IF at = {} THEN Absent ELSE source.datum[Min(at)].value
      [] source.kind = "authData" ->
            source.datum @@ [flags |-> parseFlags(source.datum.rawFlags)]
      [] OTHER -> source.datum

\* testing.ts, x509-fixtures.ts: what is encoded and arrives whole decodes to
\* itself, across every length form and sign bit.
RoundTrip == damage = 0 => Decoded = Said

\* authdata.ts: of authenticator data that is accepted, each byte belongs to one
\* part and none is left over; the credential key, which is stored apart, is
\* one CBOR value that reads the same alone.
Whole(key) == key = <<>> \/ decodeCbor(key) # None
Partitioned(data) ==
    data # None => buildAuthenticatorData(data) = bytes /\ Whole(data.credential.publicKey)

EveryByteOnce == source.kind = "authData" => Partitioned(parseAuthenticatorData(bytes))

Only(signature) == signature # None => rawToDerSignature(signature) = bytes

RECURSIVE Unambiguous(_)
Unambiguous(value) ==
    /\ value.type = "array" => \A i \in DOMAIN value.v : Unambiguous(value.v[i])
    /\ value.type = "map" =>
          \A i \in DOMAIN value.v :
              /\ Unambiguous(value.v[i][2])
              /\ \A j \in DOMAIN value.v : value.v[i][1] = value.v[j][1] => i = j

Clear(value) == value # None => Unambiguous(value)

\* What is accepted has one reading.  der.ts: a signature has one encoding, so
\* that no other bytes verify in its place.  cbor.ts: a map, however deep inside,
\* means the same to a reader that takes a key's first entry and to one that
\* takes its last.
OneReading ==
    /\ source.kind = "signature" => Only(derToRawSignature(bytes, COORDINATE_BYTES))
    /\ source.kind = "cbor" => Clear(decodeCbor(bytes))
=============================================================================
