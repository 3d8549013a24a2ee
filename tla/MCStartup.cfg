\* Start-up of two containers under every command line, and reloads and lookups.
\* The process may end.
CHECK_DEADLOCK FALSE
SPECIFICATION MCSpec
CONSTANTS
    None = None
    h1 = h1
    h2 = h2
    static = static
    first = first
    second = second
    Handlers <- MCHandlers
    IPs <- MCIPs
    Static = {static}
    Lists <- MCLists
    Spare = 1
    Faults = {"watch", "inspect", "message", "etcd", "tracer", "probe", "task", "ping", "daemon"}
    Bounds <- MCBounds
    Configs <- MCConfigs
INVARIANTS
    TypeOK
    ReloadKept
    AnswersRight
PROPERTIES
    Served
    ReloadReaches
