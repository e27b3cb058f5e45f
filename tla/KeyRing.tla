------------------------------- MODULE KeyRing -------------------------------
(***************************************************************************)
(* The keys that sign and verify PASETO tokens (server, keys/keyring.ts).  *)
(* The text of a key is a record: whether it is hex, how many bytes it     *)
(* has, which half it is, of what type and of which pair.  Raw bytes say   *)
(* neither half nor type, DER says both.  What throws is None.             *)
(***************************************************************************)
EXTENDS Integers, Sequences

CONSTANTS None,
          Kids  \* the key ids that match KID_PATTERN

RAW_KEY_BYTES == 32
PASETO_SECRET_BYTES == 64

Raw(half, id) ==
    [hex |-> TRUE, bytes |-> RAW_KEY_BYTES, half |-> half, type |-> "ed25519", of |-> id]

\* Thirty-two bytes are a key whatever they were meant to be: those of the
\* other half are some other key's.
KeyOf(text, half) == [pair |-> text.of, meant |-> text.half = half /\ text.type = "ed25519"]

\* Other lengths must parse as DER of that half.
Parsed(text, half) == IF KeyOf(text, half).meant THEN KeyOf(text, half) ELSE None

loadPrivateKey(text) ==
    IF text = None THEN None
    ELSE IF ~text.hex THEN None
    ELSE IF text.bytes \in {RAW_KEY_BYTES, PASETO_SECRET_BYTES} THEN KeyOf(text, "private")
    ELSE Parsed(text, "private")

loadPublicKey(text) ==
    IF text = None THEN None
    ELSE IF ~text.hex THEN None
    ELSE IF text.bytes = RAW_KEY_BYTES THEN KeyOf(text, "public")
    ELSE Parsed(text, "public")

generateKeyPair(kid, id) ==
    [kid |-> kid, privateKey |-> Raw("private", id), publicKey |-> Raw("public", id)]

\* The active key's halves must belong together: a probe is signed and verified.
assertPair(privateKey, publicKey) ==
    /\ privateKey # None /\ publicKey # None
    /\ privateKey.meant /\ publicKey.meant
    /\ privateKey.pair = publicKey.pair

assertKid(kid) == kid \in Kids

\* Every key id is there once.
Unique(active, previous) ==
    \A i \in DOMAIN previous :
        /\ previous[i].kid # active.kid
        /\ \A j \in 1 .. i - 1 : previous[j].kid # previous[i].kid

\* Mutant: the previous keys are not kept.
PublicKeysActive(active, previous) == [kid \in {active.kid} |-> loadPublicKey(active.publicKey)]

PublicKeys(active, previous) ==
    [kid \in {active.kid} \cup {previous[i].kid : i \in DOMAIN previous} |->
        IF kid = active.kid THEN loadPublicKey(active.publicKey)
        ELSE loadPublicKey(previous[CHOOSE i \in DOMAIN previous : previous[i].kid = kid].publicKey)]

\* new KeyRing()
KeyRing(keys) ==
    IF /\ keys.active # None
       /\ assertKid(keys.active.kid)
       /\ assertPair(loadPrivateKey(keys.active.privateKey), loadPublicKey(keys.active.publicKey))
       /\ \A i \in DOMAIN keys.previous :
             assertKid(keys.previous[i].kid) /\ loadPublicKey(keys.previous[i].publicKey) # None
       /\ Unique(keys.active, keys.previous)
    THEN [signingKid |-> keys.active.kid,
          privateKey |-> loadPrivateKey(keys.active.privateKey),
          publicKeys |-> PublicKeys(keys.active, keys.previous)]
    ELSE None

resolve(ring, kid) ==
    IF kid \in DOMAIN ring.publicKeys THEN ring.publicKeys[kid] ELSE None
=============================================================================
