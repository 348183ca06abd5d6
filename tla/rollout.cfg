SPECIFICATION MCSpec
CONSTANTS
    Machines = {"rollout", "bootstrap", "history", "object", "hosts", "host"}
    h1 = h1
    h2 = h2
    h3 = h3
    k1 = k1
    k2 = k2
    k3 = k3
    NoSnapshot = NoSnapshot
    Hosts <- ThreeHosts
    Components = 2
    MaxSize = 2
INVARIANTS
    HistoryIsRecentSuccesses
    ObjectDriftSound
PROPERTIES
    RolloutSound
    BootstrapSound
    HostDriftSound
CHECK_DEADLOCK FALSE
