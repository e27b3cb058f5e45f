\* One credential, registered or not, of one of two users, two ceremonies, two
\* requests at a time, past the lapse of the challenges.
SPECIFICATION Spec
CONSTANTS
    a = a  b = b  ann = ann  bob = bob  h1 = h1  h2 = h2  k1 = k1
    Callers = {a, b}
    Users = {ann, bob}
    NoUser = NoUser
    Challenges = {h1, h2}
    NoChallenge = NoChallenge
    Credentials = {k1}
    Ttl = 1
    Lenient = FALSE
    MaxClock = 2
    MaxCount = 1
SYMMETRY Symmetry
CHECK_DEADLOCK FALSE
INVARIANTS
    TypeOK
    TriedOnce
    CompletedAsAsked
PROPERTIES
    CountersAdvance
