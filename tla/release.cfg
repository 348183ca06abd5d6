SPECIFICATION MCSpec
CONSTANTS
    Machines = {"store", "race", "order", "report", "hand", "repeats"}
    Channels = {"alpha", "beta"}
    Promoters = {p1, p2}
    Clients = {k1}
    Revisions = {r1, r2}
    Contents = {b1, b2}
    First = r1
    r1 = r1
    r2 = r2
    DeriveChannels = {"alpha"}
    None = None
    MaxPromotions = 2
    MaxRewrites = 1
    MaxFaults = 1
SYMMETRY Interchangeable
INVARIANTS
    StoreResolvedIsApproved
    PromotionSound
PROPERTIES
    HistorySound
    ProofSound
CHECK_DEADLOCK FALSE
