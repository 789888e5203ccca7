SPECIFICATION FairSpec
CONSTANTS
    u1 = u1
    u2 = u2
    home = home
    github = github
    gitlab = gitlab
    Unit = {u1, u2}
    Cwd = {home}
    Remote = {github, gitlab}
    Source = {1, 2}
    Facts <- Copied
    StartPolicy <- Plain
    Edits <- PolicyEdits
    StartFiles <- FirstFile
    StartPlaces <- AllMembers
    Places <- MovedPlaces
    Modes <- SomeModes
    MaxSources = 1
    ScanLimit = 1
    Patient = TRUE
    Settled = TRUE
    MaxLines = 2
    MaxChanges = 1
    MaxEdits = 2
    MaxStops = 1
INVARIANTS
    CursorCovered
    IncludedCaptured
    UserDecisionHolds
PROPERTIES
    EverythingCollected
    ReplayKeepsExclusion
    ReconcileHonest
