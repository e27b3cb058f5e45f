\* A sign out everywhere that fails part way, then a listing.
SPECIFICATION Spec
CONSTANTS
    c1 = c1  c2 = c2  c3 = c3  s1 = s1  s2 = s2  alice = alice
    Callers = {c1}
    Sessions = {s1}
    Users = {alice}
    UserOf <- OneUser
    Bound = {}
    RefreshTokens = {1, 2, 3, 4}
    AccessTokens = {1, 2, 3, 4}
    NoSession = NoSession  NoToken = 0  NoAccess = 0  NoUser = NoUser
    Strategy = "opaque"
    GraceOn = TRUE
    Backoffs = 1
    Menu = {"create", "revokeAll", "list"}
    MaxOps = 3
    MaxFails = 1
    Ageing = FALSE
SYMMETRY Symmetry
INVARIANTS
    FailedStaysListed
