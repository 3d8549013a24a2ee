\* Requests for one container that overlap, and calls that fail.
SPECIFICATION Spec
CONSTANTS
    None = None
    a = a  b = b  r1 = r1  r2 = r2  r3 = r3  k1 = k1  k2 = k2  k3 = k3
    IDs = {a}
    Reqs = {r1, r2}
    Pids = {k1, k2}
    Serial = FALSE
    HandleC2CEnable = FALSE
    Faults = {"child", "exec", "pipe", "signal"}
INVARIANTS EntryIsChild
PROPERTIES ActsAtOnce EveryRequestAnswered
