\* Issues that replace for one purpose and keep for the other, two calls at a time:
\* the link a user follows is the newest, up to the lapse of the generation counter.
SPECIFICATION Spec
CONSTANTS
    a = a  b = b  t1 = t1  t2 = t2 
    Callers = {a, b}
    Purposes = {reset, invite}
    reset = reset  invite = invite
    Subjects = {ann}
    ann = ann
    Tokens = {t1, t2}
    NoToken = NoToken
    Replacing = {reset}
    MaxTtl = 1
    Slack = 3
    Stall = 1
    MaxClock = 4
    MaxEpoch <- Bounds
SYMMETRY Symmetry
INVARIANTS
    SpentOnce
PROPERTIES
    RevocationSticks
    LatestHonoured
    KeepsPromise
