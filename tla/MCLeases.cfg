\* Two containers that get one address in turn, two ports, and calls that fail
\* or are late; a lease leaves the calls as many time-outs as in the code.
SPECIFICATION Spec
CONSTANTS
    None = None
    c1 = c1  c2 = c2  a1 = a1  port1 = port1  port2 = port2
    Conts = {c1, c2}
    Addrs = {a1}
    Subnet <- MCSubnet
    Ports = {port1, port2}
    Period = 1
    TTL = 4
    CallTimeout = 1
    Drift = 0
    Faults = {"ip"}
    MaxFailures = 1
INVARIANTS TypeOK KeysStay StoppedKeysGo
PROPERTIES KeysReturn
