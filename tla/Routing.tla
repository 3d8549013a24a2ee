------------------------------ MODULE Routing ------------------------------
(***************************************************************************)
(* Where handleSysConnect sends a connection: through the container's own  *)
(* network stack, through a host socket to the address the application     *)
(* asked for, or through a host socket to a rewritten address.  Pure       *)
(* definitions over the handler's configuration, no state of their own.    *)
(* A definition whose comment begins "A slip" is no part of this           *)
(* specification: put in place of the definition that follows it, it shows *)
(* that a property notices the mistake.                                    *)
(***************************************************************************)
EXTENDS Integers

CONSTANTS
    None,              \* "no such thing", in every optional field
    Invalid,           \* an etcd answer with no key, or one that does not parse
    IPs, Ports,
    LoopbackIPs,       \* net.IP.IsLoopback
    PrivateIPs,        \* net.IP.IsPrivate
    HostLoopback,      \* 127.0.0.1 (or ::1), where published ports listen
    StaticList,        \* the addresses that --ignore covers
    ForwardingPorts,   \* published container port -> host port
    IgnoreBind,        \* --ignore-bind
    C2CEnable, MultinodeEnable,
    EtcdAddrs,         \* the host addresses that etcd may hold
    ContainerID        \* the container this handler serves

Addr == [ip : IPs, port : Ports]

\* One entry of the container-to-container map, keyed by Addr.
Interface == [containerID : {ContainerID, None}, hostPort : Ports]
Interfaces == [Addr -> Interface \cup {None}]

ASSUME RoutingAssumption ==
    /\ HostLoopback \in IPs
    /\ LoopbackIPs \subseteq IPs /\ PrivateIPs \subseteq IPs /\ StaticList \subseteq IPs
    /\ ForwardingPorts \in [DOMAIN ForwardingPorts -> Ports]
    /\ {IgnoreBind, C2CEnable, MultinodeEnable} \subseteq BOOLEAN
    /\ EtcdAddrs \subseteq Addr
    /\ None \notin Addr \cup Interface
    /\ Invalid \notin Addr \cup {None}

Published(dest) == ~IgnoreBind /\ dest.port \in DOMAIN ForwardingPorts

ToLoopback(dest) == Published(dest) /\ dest.ip \in LoopbackIPs

ToInterface(dest, ifs) ==
    /\ Published(dest)
    /\ dest.ip \notin LoopbackIPs
    /\ ifs[dest] # None
    /\ ifs[dest].containerID = ContainerID

\* etcd is asked instead of the container-to-container map, never besides it.
AsksEtcd(dest) == MultinodeEnable /\ dest.ip \in PrivateIPs

\* What etcd may answer; None when the request fails.
Replies(dest) == IF AsksEtcd(dest) THEN EtcdAddrs \cup {None, Invalid} ELSE {None}

\* The host-side address of another bypassed container, or None.
OtherHost(dest, ifs, reply) ==
    IF AsksEtcd(dest) THEN reply
    ELSE IF C2CEnable /\ ifs[dest] # None
         THEN [ip |-> HostLoopback, port |-> ifs[dest].hostPort]
         ELSE None

Redirected(dest, ifs, reply) ==
    \/ ToLoopback(dest)
    \/ ToInterface(dest, ifs)
    \/ OtherHost(dest, ifs, reply) # None

RewritesIP(dest, ifs, reply) ==
    ToInterface(dest, ifs) \/ OtherHost(dest, ifs, reply) # None

\* A slip: the port is written in the host's byte order.
PortInHostOrder(dest, ifs, reply) ==
    LET other == OtherHost(dest, ifs, reply)
        port  == IF other # None THEN other.port ELSE ForwardingPorts[dest.port] IN
    [dest EXCEPT !.port = (port % 256) * 256 + port \div 256]

\* The port bytes are rewritten first, the address bytes after them.
PortRewritten(dest, ifs, reply) ==
    LET other == OtherHost(dest, ifs, reply) IN
    [dest EXCEPT !.port = IF other # None THEN other.port
                          ELSE ForwardingPorts[dest.port]]

Target(dest, ifs, reply) ==
    LET other == OtherHost(dest, ifs, reply) IN
    IF ~Redirected(dest, ifs, reply) THEN dest
    ELSE IF RewritesIP(dest, ifs, reply)
         THEN [PortRewritten(dest, ifs, reply) EXCEPT
                  !.ip = IF other # None THEN other.ip ELSE HostLoopback]
         ELSE PortRewritten(dest, ifs, reply)

\* The non-bypassable list: what was configured and what was last seen.
Contains(ip, dyn) == ip \in StaticList \cup dyn

StaysInside(dest, ifs, reply, dyn) ==
    ~Redirected(dest, ifs, reply) /\ Contains(dest.ip, dyn)
=============================================================================
