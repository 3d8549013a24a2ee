\* An interface is posted after its container was stopped.
SPECIFICATION Safety
CONSTANTS
    None = None
    a = a  b = b  r1 = r1  r2 = r2  r3 = r3  k1 = k1  k2 = k2  k3 = k3
    IDs = {a}
    Reqs = {r1}
    Pids = {k1}
    Serial = TRUE
    HandleC2CEnable = TRUE
    Faults = {}
INVARIANT InterfacesRemoved
