SPECIFICATION FairSpec
CONSTANTS
    r1 = r1
    k1 = k1
    u1 = u1
    Record = {r1, k1}
    Control = {k1}
    Unit = {u1}
    UnitOf <- OneUnitOf
    Reporter = FALSE
    BatchEntries = 1
    ReceiptSize = 1
    MaxEntries = 2
    MaxFaults = 2
    MaxTampers = 0
INVARIANTS
    IndexAgrees
    PublishedAgrees
    DerivedNeverBlocks
PROPERTIES
    ImplementsPrivateStore
    RebuildCompletes
