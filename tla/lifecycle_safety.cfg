SPECIFICATION Spec
CONSTANTS
    None = None
    Mixed = Mixed
    Foreign = Foreign
    r1 = r1
    r2 = r2
    k = k
    x = x
    Digest = {r1, r2, k, x}
    Rendered = {r1, r2}
    Committed = {k}
    HookFixed <- R1NeedsChmod
    Components = 2
    MaxFaults = 2
    MaxCommands = 2
INVARIANTS
    TypeOK
    LastSuccessfulConverged
    ExecutesRecordedRevision
    FinishedApplyAgrees
    RenderedRevisionsRetained
    IInv
PROPERTIES
    RecordKept
    ImplementsLedger
