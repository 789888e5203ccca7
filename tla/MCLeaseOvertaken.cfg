SPECIFICATION SSpec
CONSTANTS
    p1 = p1
    p2 = p2
    p3 = p3
    s1 = s1
    t1 = t1
    t2 = t2
    t3 = t3
    Pid = {p1, p2, p3}
    Supervisor = {s1}
    Token = {t1, t2, t3}
    Reused = {}
    MaxDeaths = 0
    MaxCalls = 0
SYMMETRY LeaseSymmetry
INVARIANTS
    HolderKeepsLease
