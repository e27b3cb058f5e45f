\* Two tabs, two instances whose clocks are a tolerance apart, one rotation of
\* the signing key, and one mishap at a time.
SPECIFICATION Spec
CONSTANTS
    None = None
    t1 = t1
    t2 = t2
    i1 = i1
    i2 = i2
    Kids = {"k1", "k2", "k3"}
    Tabs = {t1, t2}
    Instances = {i1, i2}
    Sites <- MCSites
    Routes <- MCRoutes
    Skew <- MCSkew
    Ttl = 1
    Tolerance = 1
    MaxAge = 1
    MaxClock = 2
    MaxRelease = 2
SYMMETRY MCSymmetry
INVARIANTS
    HonestIsServed
    ServedMeansEntitled
