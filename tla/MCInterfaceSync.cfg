\* A container whose map is followed, two that share an address, calls that fail.
SPECIFICATION Spec
CONSTANTS
    None = None
    c1 = c1  c2 = c2  c3 = c3  a1 = a1  a2 = a2
    Conts = {c1, c2, c3}
    Published = {c2, c3}
    Watched = {c1}
    Addrs = {a1, a2}
    Subnet <- MCSubnet
    Period = 2
    MaxRound = 1
    Drift = 0
    TracerEnable = TRUE
    Faults = {"ip", "daemon"}
    MaxFailures = 1
INVARIANTS TypeOK StaleEntriesGo
PROPERTIES MapsConverge
