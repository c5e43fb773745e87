SPECIFICATION FairSpec
CONSTANTS
    CRs = {c1, c2}
    Events <- NoEvents
    Interval = "zero"
    Once = TRUE
    WarmUp = TRUE
    MaxReconciles = 1
    UserOps <- EditOnly
    Results <- OkOnly
    MaxGen = 2
    MaxFaults = 2
    Reconciler = Reconciler
    Warmer = Warmer
INVARIANTS
    TypeOK
    RunLimit
    WarmUpFirst
    NoPanic
PROPERTIES
    KeepsRunOnce
    OnceStops
CHECK_DEADLOCK FALSE
