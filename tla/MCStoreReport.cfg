SPECIFICATION Spec
CONSTANTS
    k1 = k1
    r1 = r1
    u1 = u1
    Record = {r1}
    Control = {}
    Unit = {u1}
    UnitOf <- PlainUnitOf
    Reporter = TRUE
    BatchEntries = 1
    ReceiptSize = 1
    MaxEntries = 1
    MaxFaults = 1
    MaxTampers = 1
INVARIANTS
    ReportExact
    VanishedNoticed
