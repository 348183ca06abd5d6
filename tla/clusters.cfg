SPECIFICATION MCSpec
CONSTANTS
    Machines = {"plain", "faulty", "killed", "care", "commands"}
    Masters = {m0, m1}
    Nodes = {n1}
    Master0 = m0
    m0 = m0
    m1 = m1
    n1 = n1
    Rootfs <- MCRootfs
    Apps = {"app"}
    RunImages <- MCRunImages
    FileImages <- MCFileImages
    FileKinds = {"edited"}
    Commands = {"run", "apply", "add", "delete", "reset"}
    Careful = TRUE
    Faults = {}
    MaxCommands = 5
INVARIANT FailuresSound
PROPERTIES
    InstallSound
    CareSound
CHECK_DEADLOCK FALSE
