--------------------------- MODULE MCSocketSwitch ---------------------------
(* Instances of SocketSwitch for TLC. *)
EXTENDS SocketSwitch, TLC

CONSTANTS lo, own, ext, ign, p1, p2, t1, n1, n2, n3, n4, n5, f1, f2, optA, optBad, optEmpty

MCIPs == {lo, own, ext, ign}
MCPorts == {80, 8080}
MCForwardingPorts == 80 :> 8080

At(ip) == [ip |-> ip, port |-> 80]

\* The container's own published address, as the background task learns it.
MCInterfaceMaps ==
    {[a \in Addr |-> IF a = At(own)
                     THEN [containerID |-> ContainerID, hostPort |-> 8080] ELSE None]}

TCP == [domain |-> 2, type |-> 1]
UDP == [domain |-> 2, type |-> 2]
Plain == [domain |-> 0, type |-> 0]

OneProcess == p1 :> p1
TwoProcesses == p1 :> p1 @@ p2 :> p2
TwoThreads == p1 :> p1 @@ t1 :> p1

SeqKinds == {TCP, UDP}
SeqFcntlArgs == {[cmd |-> "F_SETFL", on |-> TRUE]}
SeqConnAddrs == {At(lo), At(own), At(ext), At(ign)}
SeqBindAddrs == {At(ext), [ip |-> ext, port |-> 8080]}

ForkKinds == {TCP}
NoFcntlArgs == {}
OwnConnAddrs == {At(own)}
OverlayAddrs == {[ip |-> ext, port |-> 8080]}
LoopbackConnAddrs == {At(lo)}
ExternalConnAddrs == {At(ext), At(ign)}
NoAddrs == {}

NoFlag == {[nonblock |-> FALSE, cloexec |-> FALSE]}
BothFlags == NoFlag \cup {[nonblock |-> TRUE, cloexec |-> TRUE]}

HostileCalls == {"connect", "setsockopt", "exit_group"}
ThreadCalls == {"connect", "close", "exit_group"}

FileSymmetry == Permutations(FileIds)
ProcessSymmetry == FileSymmetry \cup Permutations({p1, p2})
=============================================================================
