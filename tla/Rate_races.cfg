\* One account tried from two addresses, requests in flight across a boundary.
SPECIFICATION Spec
CONSTANTS
    r1 = r1  r2 = r2  i1 = i1  i2 = i2  acct = acct
    Requests = {r1, r2}
    Ips = {i1, i2}
    Accounts = {acct}
    PerIp = 2
    PerAccount = 1
    Window = 2
    OnStoreError = "closed"
    Stall = 1
    MaxClock = 3
    MaxRequests = 3
    MaxFailures = 1
SYMMETRY Symmetry
INVARIANTS
    WindowLimit
    NoDoubling
\* Requests and the clock run out: the system may come to rest.
CHECK_DEADLOCK FALSE
