SPECIFICATION Spec
CONSTANTS
    a = a
    b = b
    r = r
    m0 = m0
    m1 = m1
    Foreign = Foreign
    Malformed = Malformed
    Clone = {a, b}
    Record = {r}
    Meta = {m0, m1}
    SeedMeta = m0
    Kinds <- KindsManual
    Seeded = FALSE
    Local <- LocalOne
    BootMeta <- BootApart
    Contributions <- NoContributions
    Edits <- NoEdits
    LedgerEvidence = {}
    LocalRoute = {}
    Oversized = {}
    BatchLimit = 1
    MaxRetries = 1
    MaxFaults = 1
    MaxTampers = 1
    MaxHistory = 0
INVARIANTS
    TypeOK
    AcceptedIsAnchored
    NoReseed
    NoOverride
    AcknowledgedIsAccepted
PROPERTIES
    AcceptanceAdvances
