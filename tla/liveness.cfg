SPECIFICATION MCSpec
CONSTANTS
    Machines = {"controller", "agent", "bootstrap", "cache", "care", "join"}
    Deleted = Deleted
    RequeueAfter = "no"
    MaxEdits = 2
    MaxFaults = 1
    MaxRetry = 2
    Nil = Nil
    Mixed = Mixed
    Foreign = Foreign
    r1 = r1
    r2 = r2
    k = k
    x = x
INVARIANT
    StatusIsTrue
PROPERTIES
    StatusSettles
    AgentConverges
    BootstrapJoins
    CacheRendersEnd
    CareFollows
    JoinSendReturns
CHECK_DEADLOCK FALSE
