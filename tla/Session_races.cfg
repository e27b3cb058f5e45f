\* Two concurrent callers, one session, opaque tokens: create, refresh and revoke
\* in every interleaving of their store commands, under fair scheduling.
SPECIFICATION FairSpec
CONSTANTS
    c1 = c1  c2 = c2  c3 = c3  s1 = s1  s2 = s2  alice = alice
    Callers = {c1, c2}
    Sessions = {s1}
    Users = {alice}
    UserOf <- OneUser
    Bound = {s1}
    RefreshTokens = {1, 2, 3, 4}
    AccessTokens = {1, 2, 3, 4}
    NoSession = NoSession  NoToken = 0  NoAccess = 0  NoUser = NoUser
    Strategy = "opaque"
    GraceOn = TRUE
    Backoffs = 1
    Menu = {"create", "refresh", "revoke"}
    MaxOps = 4
    MaxFails = 0
    Ageing = TRUE
INVARIANTS
    TypeOK
    EndedSessionsAreDead
    OneLiveRefreshToken
    RotationIsLinear
    
PROPERTIES
    ReuseOnlyPastGrace
    WrongKeyIsInert
    RevocationDrains
