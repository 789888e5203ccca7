SPECIFICATION FairCSpec
CONSTANTS
    a = a
    b = b
    r = r
    m0 = m0
    m1 = m1
    Foreign = Foreign
    Malformed = Malformed
    Clone = {a, b}
    Record = {r}
    Meta = {m0, m1}
    SeedMeta = m0
    Kinds <- KindsApart
    Seeded = TRUE
    Local <- LocalNone
    BootMeta <- BootApart
    Contributions <- NoContributions
    Edits <- EditsOne
    LedgerEvidence = {}
    LocalRoute = {}
    Oversized = {}
    BatchLimit = 1
    MaxRetries = 0
    MaxFaults = 1
    MaxTampers = 0
    MaxHistory = 2
INVARIANTS
    UncertaintyKept
PROPERTIES
    DriftRepaired
