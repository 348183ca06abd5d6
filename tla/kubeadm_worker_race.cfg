SPECIFICATION MCSpec
CONSTANTS
    Machines = {"join"}
    Master0 = m0
    Masters = {m0, m1}
    Names = {"a", "b"}
    Files = {"admin", "kubelet"}
    Faults = {"fail", "kill", "crash"}
    MaxCommands = 4
    w1 = w1
    Workers = {w1, w2}
    None = None
    Rotate = FALSE
    JoinFaults = {"worker", "kill"}
    JoinCommands = 1
    MaxTokens = 1
    MaxVersion = 3
    Upgrades = 3
    UpgradeFaults = {}
INVARIANT WorkersReported
