SPECIFICATION FairSpec
CONSTANTS
    CRs = {c1}
    Events = {e1, e2}
    Interval = "positive"
    Once = FALSE
    WarmUp = FALSE
    MaxReconciles = 1
    UserOps <- LifeCycle
    Results <- OkOnly
    MaxGen = 2
    MaxFaults = 0
    Reconciler = Reconciler
    Warmer = Warmer
PROPERTIES
    ObservedMonotone
    WebhooksDrain
    FinalizerReleased
CHECK_DEADLOCK FALSE
