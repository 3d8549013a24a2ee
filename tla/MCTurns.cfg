\* Two containers, each started and stopped in turn.
SPECIFICATION Safety
CONSTANTS
    None = None
    a = a  b = b  r1 = r1  r2 = r2  r3 = r3  k1 = k1  k2 = k2  k3 = k3
    IDs = {a, b}
    Reqs = {r1, r2}
    Pids = {k1, k2}
    Serial = TRUE
    HandleC2CEnable = TRUE
    Faults = {"child", "exec", "signal", "wait"}
SYMMETRY AllSymmetry
INVARIANTS TypeOK EntryIsChild NoOrphan ServedIsReachable
