\* Two callers, every method, connections that drop, fail and come back.
SPECIFICATION FairSpec
CONSTANTS
    a = a  b = b
    Callers = {a, b}
    Commands <- Menu
    Probes <- AllCommands
    Null = Null
    Never = Never
    NoCommand = NoCommand
    RetryLimit = 1
    PerRequest = 0
    MaxOps = 3
    MaxDrops = 1
    MaxClock = 1
INVARIANTS
    StoresAgree
    AnswersAreExclusive
PROPERTIES
    EveryCommandSettles
\* The calls, the drops and the clock are bounded.
CHECK_DEADLOCK FALSE
