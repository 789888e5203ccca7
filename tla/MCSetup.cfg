SPECIFICATION SetupSpec
CONSTANTS
    s = s
    u = u
    x = x
    t = t
    blank = blank
    Script = {x}
    Executable = {x}
    Refused = {}
    Version = {1, 2}
    Release = {1, 2}
    Provider = {"codex"}
    Text = {blank, t}
    Blank = blank
    Given = {blank}
    Shared = {1}
    Process = {s, u}
    Kinds <- SetupAndUninstall
    MaxRuns = 3
    MaxOverlap = 2
    MaxCrashes = 1
    MaxEdits = 1
INVARIANTS
    UserHookServed
    HookRecorded
    ProviderEditsKept
    GroupsRecorded
    EntryApproved
    FoundingNotForgotten
CHECK_DEADLOCK FALSE
