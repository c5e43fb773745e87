SPECIFICATION FairSpec
CONSTANTS
    CRs = {c1}
    Events <- NoEvents
    Interval = "positive"
    Once = FALSE
    WarmUp = TRUE
    MaxReconciles = 1
    UserOps <- AllOps
    Results <- OkOrPartial
    MaxGen = 3
    MaxFaults = 2
    Reconciler = Reconciler
    Warmer = Warmer
INVARIANTS
    MetricsBacked
    ReconcilingExact
PROPERTIES
    FinalizerReleased
    SpecChecked
    ReconcilingSettles
CHECK_DEADLOCK FALSE
