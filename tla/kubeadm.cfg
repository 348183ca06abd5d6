SPECIFICATION MCSpec
CONSTANTS
    Machines = {"join", "single", "rotate", "upgrade", "first", "certs"}
    Master0 = m0
    Masters = {m0, m1}
    Names = {"a", "b"}
    Files = {"admin", "kubelet"}
    Faults = {"fail", "kill", "crash"}
    MaxCommands = 4
    w1 = w1
    Workers = {w1, w2}
    None = None
    Rotate = FALSE
    JoinFaults = {"cmd", "kill"}
    JoinCommands = 3
    MaxTokens = 3
    MaxVersion = 3
    Upgrades = 3
    UpgradeFaults = {"cmd", "batch", "kill", "api"}
INVARIANTS
    JoinSound
    UpgradeSound
    CertsSound
