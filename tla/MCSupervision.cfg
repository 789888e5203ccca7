SPECIFICATION FairSSpec
CONSTANTS
    p1 = p1
    p2 = p2
    p3 = p3
    s1 = s1
    t1 = t1
    t2 = t2
    t3 = t3
    Pid = {p1, p2}
    Supervisor = {s1}
    Token = {t1, t2}
    Reused = {p1}
    MaxDeaths = 1
    MaxCalls = 1
INVARIANTS
    KeptUnlessOvertaken
    GroupGoneFirst
PROPERTIES
    AnswerIsFinal
    DeadOwnerReclaimed
