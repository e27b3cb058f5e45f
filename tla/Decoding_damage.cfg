\* Every form of a value, with up to two bytes lost, changed or added.
SPECIFICATION Spec
CONSTANTS
    None = None
    MAX_DEPTH = 1
    RP_ID_HASH_BYTES = 1
    SIGN_COUNT_BYTES = 1
    AAGUID_BYTES = 1
    MAX_CREDENTIAL_ID_BYTES = 2
    COORDINATE_BYTES = 1
    MIN_RSA_MODULUS_BITS = 8
    MAX_RSA_MODULUS_BITS = 8
    Sources <- MCSources
    Bytes <- MCBytes
    MaxDamage = 2
    MaxLength = 20
INVARIANTS
    RoundTrip
    EveryByteOnce
    OneReading
\* Damage is bounded: nothing happens after it.
CHECK_DEADLOCK FALSE
