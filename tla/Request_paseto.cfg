\* Signed tokens, with and without a proof, revoked one by one and with their
\* session, and a proof presented twice anywhere in its window.
SPECIFICATION Spec
CONSTANTS
    r1 = r1  r2 = r2  v1 = v1  v2 = v2  t1 = t1  t2 = t2  s1 = s1  p1 = p1
    Requests = {r1, r2}
    Revokers = {v1}
    Tokens = {t1}
    Sessions = {s1}
    Proofs = {p1}
    NoToken = NoToken
    NoSession = NoSession
    NoProof = NoProof
    Strategy = "paseto"
    OnStoreError = "open"
    Bound = {}
    AccessTtl = 1
    Tolerance = 1
    MaxAge = 1
    Second = 2
    IndexSlack = 2
    Stall = 1
    MaxClock = 5
    MaxFailures = 1
SYMMETRY Symmetry
INVARIANTS
    TypeOK
    RevokedIsRefused
    ProofUsedOnce
\* Tokens, proofs and the clock run out: the system may come to rest.
CHECK_DEADLOCK FALSE
