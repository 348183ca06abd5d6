SPECIFICATION ConcurrentSpec
CONSTANTS
    None = None
    Mixed = Mixed
    Foreign = Foreign
    r1 = r1
    r2 = r2
    Digest = {r1, r2}
    Rendered = {r1, r2}
    Committed = {}
    HookFixed <- AllExecutable
    Components = 2
    MaxFaults = 0
    MaxCommands = 1
INVARIANTS
    MarkedRevisionConverged
