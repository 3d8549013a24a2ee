\* A socket made with SOCK_CLOEXEC is switched.
SPECIFICATION Safety
CONSTANTS
    None = None   Invalid = Invalid   ContainerID = ContainerID
    lo = lo  own = own  ext = ext  ign = ign
    p1 = p1  p2 = p2  t1 = t1
    n1 = n1  n2 = n2  n3 = n3  n4 = n4  n5 = n5
    f1 = f1  f2 = f2
    optA = optA  optBad = optBad  optEmpty = optEmpty
    IPs <- MCIPs
    Ports <- MCPorts
    LoopbackIPs = {lo}
    PrivateIPs = {own}
    HostLoopback = lo
    StaticList = {ign}
    ForwardingPorts <- MCForwardingPorts
    IgnoreBind = FALSE
    C2CEnable = FALSE
    EtcdAddrs <- NoAddrs
    MultinodeEnable = FALSE
    Procs = {p1}
    Tids = {p1}
    Tgid <- OneProcess
    Fds = {f1}
    FileIds = {n1, n2}
    Kinds <- ForkKinds
    Calls <- Nr
    SocketFlags <- BothFlags
    Opts = {}
    BadOpts = {}
    EmptyOpts = {}
    FcntlArgs <- NoFcntlArgs
    ConnAddrs <- LoopbackConnAddrs
    BindAddrs <- NoAddrs
    InterfaceMaps <- MCInterfaceMaps
    DynamicLists = {}
    Faults = {}
    Untrapped = {}
    MaxMM = 2
    MaxOpts = 1
    MaxSignals = 0
PROPERTIES CloexecKept
