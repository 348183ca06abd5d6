SPECIFICATION FairSpec
CONSTANTS
    None = None
    Mixed = Mixed
    Foreign = Foreign
    r1 = r1
    r2 = r2
    k = k
    x = x
    Digest = {r1, r2, k, x}
    Rendered = {r1, r2}
    Committed = {}
    HookFixed <- R1NeedsChmod
    Components = 1
    MaxFaults = 2
    MaxCommands = 0
PROPERTIES
    Converges
