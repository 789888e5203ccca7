SPECIFICATION Spec
CONSTANTS
    u1 = u1
    u2 = u2
    home = home
    github = github
    gitlab = gitlab
    Unit = {u1}
    Cwd = {home}
    Remote = {github, gitlab}
    Source = {1}
    Facts <- Copied
    StartPolicy <- Plain
    Edits <- NoEdits
    StartFiles <- FirstFile
    StartPlaces <- AllMembers
    Places <- NoMoves
    Modes <- SomeModes
    MaxSources = 1
    ScanLimit = 1
    Patient = FALSE
    Settled = FALSE
    MaxLines = 2
    MaxChanges = 0
    MaxEdits = 1
    MaxStops = 0
PROPERTIES
    ReplayKeepsExclusion
