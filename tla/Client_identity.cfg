\* Sign-ins, sign-outs, refreshes, requests and identity events that overlap,
\* under the event loop's fairness.
SPECIFICATION FairSpec
CONSTANTS
    c1 = c1  c2 = c2  c3 = c3
    ann = ann  bob = bob
    Calls = {c1, c2, c3}
    Users = {ann}
    NoUser = NoUser
    NoCall = NoCall
    Sync = TRUE
    Menu = {"refresh", "fetch", "signIn", "signOut", "setAccessToken", "dispose", "peers"}
    MaxOps = 3
    MaxEvents = 1
INVARIANTS
    SingleFlight
    QuietSignOut
PROPERTIES
    ResponseKeepsIdentity
    RetryKeepsIdentity
    SignInKeepsIdentity
    EveryCallReturns
\* The calls and the events are bounded: a behaviour ends when they are used up.
CHECK_DEADLOCK FALSE
