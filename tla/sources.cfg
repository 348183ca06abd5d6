SPECIFICATION MCSpec
CONSTANTS
    Machines = {"plan", "repo", "render", "apply"}
    Listed <- MCListed
    Unlisted <- MCUnlisted
    Declarations <- MCDeclarations
INVARIANTS
    DependenciesFirst
    WorklistExact
    PlanSound
    GateSound
    PreflightSound
PROPERTIES
    RepoSound
CHECK_DEADLOCK FALSE
