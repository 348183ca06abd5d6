SPECIFICATION MCSpec
CONSTANTS
    Machines = {"mirror", "alone", "cache", "shared", "content", "faults"}
    r1 = r1
    r2 = r2
    bundle1 = bundle1
    x = x
    y = y
    NoBundle = NoBundle
    Revisions = {r1, r2}
    Procs = {"agent"}
    FilesOf <- MCFilesOf
    MaxStarts = 4
    Digests = {"d1", "d2"}
    Unlisted = {"d2"}
    CacheProcs = {"agent", "sync"}
    Leaves = {"x", "y"}
    Shared = FALSE
    IncludeValid = FALSE
    MaxRenders = 3
    MaxCollections = 1
INVARIANTS
    RevisionsWhole
    AloneSound
    ContentSound
PROPERTIES
    CacheSound
CHECK_DEADLOCK FALSE
