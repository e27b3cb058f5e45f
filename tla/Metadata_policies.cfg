\* Two models, a compromise, BLOBs that go stale, and every way to mix two
\* registrations.
SPECIFICATION MetadataSpec
CONSTANTS
    None = None
    MAX_CHAIN_DEPTH = 2
    MAX_X5C_ENTRIES = 3
    SAFETYNET_MAX_AGE = 1
    SAFETYNET_MAX_SKEW = 1
    RpId = "rp"
    ZeroAaguid = "zero"
    Entries <- TwoModels
    HandPolicies <- Policies
    FidoRoot <- fido
    OtherRoot <- other
    SignerKey <- signer
    SignerKey2 <- signer2
    Registrations <- MCRegistrations
    Variants <- MCVariants
    Period = 1
    Reported = {"REVOKED", "FIDO_CERTIFIED_L2"}
    MaxReports = 3
    MaxBlobs = 1
    MaxTime = 2
INVARIANTS
    AcceptedMeansMade
    GenuineAccepted
    CompromiseTakesEffect
