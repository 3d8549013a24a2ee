\* Two processes that fork, signals, and memory that cannot be read.
SPECIFICATION Safety
CONSTANTS
    None = None   Invalid = Invalid   ContainerID = ContainerID
    lo = lo  own = own  ext = ext  ign = ign
    p1 = p1  p2 = p2  t1 = t1
    n1 = n1  n2 = n2  n3 = n3  n4 = n4  n5 = n5
    f1 = f1  f2 = f2
    optA = optA  optBad = optBad  optEmpty = optEmpty
    IPs <- MCIPs
    Ports <- MCPorts
    LoopbackIPs = {lo}
    PrivateIPs = {own}
    HostLoopback = lo
    StaticList = {ign}
    ForwardingPorts <- MCForwardingPorts
    IgnoreBind = FALSE
    C2CEnable = FALSE
    EtcdAddrs <- OverlayAddrs
    MultinodeEnable = TRUE
    Procs = {p1, p2}
    Tids = {p1, p2}
    Tgid <- TwoProcesses
    Fds = {f1}
    FileIds = {n1, n2, n3}
    Kinds <- ForkKinds
    Calls <- ThreadCalls
    SocketFlags <- NoFlag
    Opts = {}
    BadOpts = {}
    EmptyOpts = {}
    FcntlArgs <- NoFcntlArgs
    ConnAddrs <- OwnConnAddrs
    BindAddrs <- NoAddrs
    InterfaceMaps <- MCInterfaceMaps
    DynamicLists = {}
    Faults = {"mem"}
    Untrapped = {"fork"}
    MaxMM = 2
    MaxOpts = 0
    MaxSignals = 1
SYMMETRY ProcessSymmetry
INVARIANTS RegistryMatchesKernel CachesCurrent RewrittenOnlyOnHost
PROPERTIES BypassedEntryFrozen
