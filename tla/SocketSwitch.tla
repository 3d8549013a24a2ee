---------------------------- MODULE SocketSwitch ----------------------------
(***************************************************************************)
(* The notification handler: handle() takes one notification at a time,    *)
(* handleReq() decides from its books what to do, and a socket that may    *)
(* leave the container is replaced, under the stopped call, by one of the  *)
(* host's.                                                                 *)
(* A definition whose comment begins "A slip" is no part of this           *)
(* specification: put in place of the definition that follows it, it shows *)
(* that a property notices the mistake.                                    *)
(***************************************************************************)
EXTENDS Container

-----------------------------------------------------------------------------
(* Looking at the process: pidfds, memory, descriptors *)

\* The results of getPidFdInfo(t): the cache afterwards, which has no entry
\* for t when it failed.  A cached pidfd is returned whatever became of it.
GetPidFdInfo(t, infos) ==
    {IF infos[t] = None /\ Alive(Tgid[t])
     THEN [infos EXCEPT ![t] = life[Tgid[t]]] ELSE infos}
    \cup (IF "pidfd" \in Faults THEN {infos} ELSE {})

\* openMem and one pread or pwrite: a cached file of an address space that
\* is gone reads and writes nothing.
MemAccess(p) ==
    LET open == IF memfds[p] # None THEN memfds[p]
                ELSE IF Alive(p) THEN mm[p] ELSE None IN
    {[memfd |-> open, ok |-> open # None /\ Alive(p) /\ open = mm[p]]}
    \cup (IF "mem" \in Faults
          THEN {[memfd |-> m, ok |-> FALSE] : m \in {memfds[p], open}} ELSE {})

AF_INET == 2
AF_INET6 == 10
SOCK_STREAM == 1
HasBit(n, bit) == (n \div bit) % 2 = 1

\* A descriptor that pidfd_getfd returns is always close-on-exec: F_GETFD
\* yields 1, and it is the bit O_CLOEXEC that getSocketArgs tests.
F_GETFD == 1
O_CLOEXEC == 524288

IsSocket(file) == file.kind.domain # 0

\* A slip: nobody asks whether the socket has a peer.
ClassifyByKind(file) ==
    IF /\ IsSocket(file)
       /\ file.kind.domain \in {AF_INET, AF_INET6}
       /\ HasBit(file.kind.type, SOCK_STREAM)
    THEN "NotBypassed" ELSE "NotBypassable"

\* A connected socket was accepted or inherited; it stays as it is.
Classify(file) ==
    IF /\ IsSocket(file)
       /\ file.kind.domain \in {AF_INET, AF_INET6}
       /\ HasBit(file.kind.type, SOCK_STREAM)
       /\ file.peer = None
    THEN "NotBypassed" ELSE "NotBypassable"

NewSock(file) ==
    [state |-> Classify(file), addr |-> None, kind |-> file.kind,
     nonblock |-> file.nonblock, cloexec |-> HasBit(F_GETFD, O_CLOEXEC),
     socketOptions |-> <<>>, fcntlOptions |-> <<>>]

\* The results of registerSocket: the pidfd cache, and an entry or None.
RegisterSocket(p, f, infos) ==
    UNION {{[infos |-> i,
             sock  |-> IF i[p] = None \/ i[p] # life[p] \/ fdt[p][f] = None THEN None
                       ELSE NewSock(files[fdt[p][f]])]}
           \cup (IF "getfd" \in Faults THEN {[infos |-> i, sock |-> None]} ELSE {})
           : i \in GetPidFdInfo(p, infos)}

\* A slip: an entry is dispatched unless it is not bypassable.
FoundUnlessInside(t, f, nr) ==
    LET p == Tgid[t]
        known == processes[p][f] IN
    UNION {IF i[t] = None THEN {[infos |-> i, sock |-> known, go |-> FALSE]}
           ELSE IF known = None
           THEN {[infos |-> r.infos, sock |-> r.sock,
                  go |-> r.sock # None /\ r.sock.state # "NotBypassable"]
                 : r \in RegisterSocket(p, f, i)}
           ELSE {[infos |-> i, sock |-> known, go |-> known.state # "NotBypassable"]}
           : i \in GetPidFdInfo(t, pidInfos)}

\* What handleReq finds or registers before it dispatches a call on f.  An
\* entry that is not bypassable is registered again when connect is called.
Found(t, f, nr) ==
    LET p == Tgid[t]
        known == processes[p][f] IN
    UNION {IF i[t] = None THEN {[infos |-> i, sock |-> known, go |-> FALSE]}
           ELSE IF known = None \/ (known.state = "NotBypassable" /\ nr = "connect")
           THEN {[infos |-> r.infos, sock |-> r.sock,
                  go |-> r.sock # None /\ r.sock.state = "NotBypassed"]
                 : r \in RegisterSocket(p, f, i)}
           ELSE {[infos |-> i, sock |-> known,
                  go |-> known.state \in {"NotBypassed", "Error"}]}
           : i \in GetPidFdInfo(t, pidInfos)}

-----------------------------------------------------------------------------
(* The notification loop *)

\* NotifReceive hands out the oldest notification.
Receive(t) ==
    /\ up /\ cur = None
    /\ t \in Waiting /\ ahead[t] = {}
    /\ sc' = [sc EXCEPT ![t].st = "received"]
    /\ ahead' = [u \in Tids |-> ahead[u] \ {t}]
    /\ cur' = [tid |-> t, call |-> [sc[t] EXCEPT !.st = "received"],
               valid |-> TRUE, resp |-> "none"]
    /\ UNCHANGED <<signals, kernel, processes, pidInfos, memfds, up, env>>

\* A slip: a request is dropped whatever became of its notification.
DropAny ==
    /\ up /\ cur # None /\ cur.resp = "none"
    /\ cur' = None
    /\ UNCHANGED <<kernel, calls, processes, pidInfos, memfds, up, env>>

\* NotifIDValid fails.  A signal after that check goes unnoticed until the
\* handler uses the notification.
DropInvalid ==
    /\ up /\ cur # None /\ cur.resp = "none" /\ ~cur.valid
    /\ cur' = None
    /\ UNCHANGED <<kernel, calls, processes, pidInfos, memfds, up, env>>

\* A slip: an answer is tried until it is taken.
RespondUntilTaken ==
    /\ up /\ cur # None /\ cur.resp # "none" /\ cur.valid
    /\ sc' = IF cur.resp = "answer" THEN [sc EXCEPT ![cur.tid] = None]
             ELSE [sc EXCEPT ![cur.tid].st = "resume"]
    /\ cur' = None
    /\ UNCHANGED <<ahead, signals, kernel, processes, pidInfos, memfds, up, env>>

\* NotifRespond; the answer to an invalid notification is lost.
Respond ==
    /\ up /\ cur # None /\ cur.resp # "none"
    /\ sc' = IF ~cur.valid THEN sc
             ELSE IF cur.resp = "answer" THEN [sc EXCEPT ![cur.tid] = None]
             ELSE [sc EXCEPT ![cur.tid].st = "resume"]
    /\ cur' = None
    /\ UNCHANGED <<ahead, signals, kernel, processes, pidInfos, memfds, up, env>>

Handling(nr) == up /\ cur # None /\ cur.resp = "none" /\ cur.call.nr = nr
Answer(resp) == cur' = [cur EXCEPT !.resp = resp]
Record(p, f, sock) == processes' = [processes EXCEPT ![p][f] = sock]

-----------------------------------------------------------------------------
(* handleReq, one action per trapped call *)

\* A slip: the memory file of an exited process stays open.
ExitKeepsMemory ==
    LET t == cur.tid
        p == Tgid[t] IN
    /\ Handling("exit_group")
    /\ \E infos \in GetPidFdInfo(t, pidInfos) :
          /\ pidInfos' = [infos EXCEPT ![t] = None]
          /\ IF infos[t] # None /\ t = p THEN processes' = [processes EXCEPT ![p] = NoFds]
             ELSE UNCHANGED processes
    /\ Answer("continue")
    /\ UNCHANGED <<kernel, calls, memfds, up, env>>

HandleExit ==
    LET t == cur.tid
        p == Tgid[t] IN
    /\ Handling("exit_group")
    /\ \E infos \in GetPidFdInfo(t, pidInfos) :
          /\ pidInfos' = [infos EXCEPT ![t] = None]
          /\ IF infos[t] # None /\ t = p
             THEN /\ processes' = [processes EXCEPT ![p] = NoFds]
                  /\ memfds' = [memfds EXCEPT ![p] = None]
             ELSE UNCHANGED <<processes, memfds>>
    /\ Answer("continue")
    /\ UNCHANGED <<kernel, calls, up, env>>

\* A slip: only descriptors that were switched are forgotten.
CloseForgetsSwitched ==
    LET p == Tgid[cur.tid]
        f == cur.call.fd IN
    /\ Handling("close")
    /\ \E infos \in GetPidFdInfo(cur.tid, pidInfos) :
          /\ pidInfos' = infos
          /\ IF infos[cur.tid] # None /\ processes[p][f] # None
                /\ processes[p][f].state = "Bypassed"
             THEN Record(p, f, None) ELSE UNCHANGED processes
    /\ Answer("continue")
    /\ UNCHANGED <<kernel, calls, memfds, up, env>>

HandleClose ==
    LET t == cur.tid IN
    /\ Handling("close")
    /\ \E infos \in GetPidFdInfo(t, pidInfos) :
          /\ pidInfos' = infos
          /\ IF infos[t] # None THEN Record(Tgid[t], cur.call.fd, None)
             ELSE UNCHANGED processes
    /\ Answer("continue")
    /\ UNCHANGED <<kernel, calls, memfds, up, env>>

\* The option is recorded before the kernel has judged it; a failed read
\* records an empty value.
HandleSetsockopt ==
    LET p == Tgid[cur.tid]
        f == cur.call.fd
        opt == cur.call.arg IN
    /\ Handling("setsockopt")
    /\ \E r \in Found(cur.tid, f, "setsockopt") :
          /\ pidInfos' = r.infos
          /\ \/ /\ ~r.go /\ Record(p, f, r.sock) /\ UNCHANGED memfds
             \/ /\ r.go
                /\ \E m \in MemAccess(p) :
                      /\ memfds' = [memfds EXCEPT ![p] = m.memfd]
                      /\ Record(p, f, [r.sock EXCEPT !.socketOptions =
                            Append(@, IF m.ok /\ opt \notin EmptyOpts THEN opt ELSE None)])
    /\ Answer("continue")
    /\ UNCHANGED <<kernel, calls, up, env>>

\* F_SETFD is let through without being recorded.
HandleFcntl ==
    LET f == cur.call.fd
        arg == cur.call.arg IN
    /\ Handling("fcntl")
    /\ \E r \in Found(cur.tid, f, "fcntl") :
          /\ pidInfos' = r.infos
          /\ Record(Tgid[cur.tid], f,
                IF r.go /\ arg.cmd = "F_SETFL"
                THEN [r.sock EXCEPT !.fcntlOptions = Append(@, arg.on)] ELSE r.sock)
    /\ Answer("continue")
    /\ UNCHANGED <<kernel, calls, memfds, up, env>>

\* configureSocket replays the options in order: it fails at one the kernel
\* refuses, and the handler panics at an empty one.
Replays(opts) == \A i \in DOMAIN opts : opts[i] \notin BadOpts \cup {None}
ReplayPanics(opts) ==
    \E i \in DOMAIN opts : opts[i] = None /\ \A j \in 1..(i - 1) : opts[j] \notin BadOpts

\* A slip: the new socket is not configured.
HostFileUnconfigured(sock, bound) ==
    [NewFile("host", sock.kind, sock.nonblock) EXCEPT !.bound = bound]

\* A host socket made and configured like the one it is to replace.
HostFile(sock, bound) ==
    [NewFile("host", sock.kind,
             IF sock.fcntlOptions = <<>> THEN sock.nonblock
             ELSE sock.fcntlOptions[Len(sock.fcntlOptions)])
        EXCEPT !.opts = sock.socketOptions, !.bound = bound]

\* SECCOMP_IOCTL_NOTIF_ADDFD with SETFD: the descriptor becomes the host's.
AddFd(p, f, sock, bound) ==
    \E id \in FreeId :
        /\ fdt' = [fdt EXCEPT ![p][f] = id]
        /\ files' = KeepLive([files EXCEPT ![id] = HostFile(sock, bound)], fdt')
        /\ cloexec' = [cloexec EXCEPT ![p][f] = sock.cloexec]
        /\ UNCHANGED <<life, mm>>

\* socket(2), configureSocket or the ioctl fails: nothing is replaced.
CannotSwitch(sock) ==
    \/ "socket" \in Faults
    \/ /\ ~ReplayPanics(sock.socketOptions)
       /\ ~cur.valid \/ ~Replays(sock.socketOptions) \/ "addfd" \in Faults

CanSwitch(sock) == cur.valid /\ Replays(sock.socketOptions)

\* The rest of handleSysConnect once the socket is in place: the port, then
\* the address are written over what the application passed.
RewriteDestination(t, dest, reply, sock, p, f) ==
    LET Mem(a) == sc' = [sc EXCEPT ![t].mem = a]
        fails == "memwrite" \in Faults IN
    \/ /\ Mem(Target(dest, interfaces, reply))
       /\ Record(p, f, [sock EXCEPT !.state = "Bypassed"])
    \/ /\ fails /\ Redirected(dest, interfaces, reply)
       /\ UNCHANGED sc
       /\ Record(p, f, [sock EXCEPT !.state = "Error"])
    \/ /\ fails /\ RewritesIP(dest, interfaces, reply)
       /\ Mem(PortRewritten(dest, interfaces, reply))
       /\ Record(p, f, [sock EXCEPT !.state = "Error"])

\* A slip: the destination is written over although nothing was switched.
ConnectAnyway(t, p, f, found, dest) ==
    LET sock == [found EXCEPT !.addr = dest] IN
    \E reply \in Replies(dest) :
        /\ reply # Invalid
        /\ ~StaysInside(dest, interfaces, reply, dynamicList)
        /\ \/ CannotSwitch(sock) /\ UNCHANGED kernel
           \/ CanSwitch(sock) /\ AddFd(p, f, sock, None)
        /\ sc[t] # None /\ sc[t].nr = "connect"
        /\ RewriteDestination(t, dest, reply, sock, p, f)

\* handleSysConnect, when the destination was read as dest.
ConnectTo(t, p, f, found, dest) ==
    LET sock == [found EXCEPT !.addr = dest] IN
    \E reply \in Replies(dest) :
        \/ /\ reply = Invalid
           /\ Record(p, f, [sock EXCEPT !.state = "Error"])
           /\ UNCHANGED <<kernel, sc>>
        \/ /\ reply # Invalid
           /\ \/ StaysInside(dest, interfaces, reply, dynamicList)
              \/ CannotSwitch(sock)
           /\ Record(p, f, [sock EXCEPT !.state = "NotBypassable"])
           /\ UNCHANGED <<kernel, sc>>
        \/ /\ reply # Invalid
           /\ ~StaysInside(dest, interfaces, reply, dynamicList)
           /\ CanSwitch(sock)
           /\ AddFd(p, f, sock, None)
           /\ RewriteDestination(t, dest, reply, sock, p, f)

HandleConnect ==
    LET t == cur.tid
        p == Tgid[t]
        f == cur.call.fd IN
    /\ Handling("connect")
    /\ \E r \in Found(t, f, "connect") :
          /\ pidInfos' = r.infos
          /\ \/ /\ ~r.go /\ Record(p, f, r.sock)
                /\ UNCHANGED <<kernel, sc, memfds>>
             \/ /\ r.go
                /\ \E m \in MemAccess(p) :
                      /\ memfds' = [memfds EXCEPT ![p] = m.memfd]
                      /\ \/ /\ ~m.ok /\ Record(p, f, r.sock)
                            /\ UNCHANGED <<kernel, sc>>
                         \/ m.ok /\ ConnectTo(t, p, f, r.sock, cur.call.mem)
    /\ Answer("continue")
    /\ UNCHANGED <<ahead, signals, up, env>>

HostAddr(sa) == [sa EXCEPT !.port = ForwardingPorts[sa.port]]

\* bind(2) on the host: another program may have the address, or a socket
\* that was switched before.
HostBindMayFail(sa) ==
    \/ "hostbind" \in Faults
    \/ \E i \in FileIds :
          files[i] # None /\ files[i].ns = "host" /\ files[i].bound = HostAddr(sa)

\* handleSysBind, when the address was read as sa.  The host socket is bound
\* by the handler, and the application's own bind(2) never runs.
BindTo(p, f, found, sa) ==
    LET sock == [found EXCEPT !.addr = sa]
        forwarded == sa.port \in DOMAIN ForwardingPorts IN
    \/ /\ \/ ~forwarded
          \/ CannotSwitch(sock)
          \/ forwarded /\ Replays(sock.socketOptions) /\ HostBindMayFail(sa)
       /\ Record(p, f, [sock EXCEPT !.state = "NotBypassable"])
       /\ Answer("continue") /\ UNCHANGED kernel
    \/ /\ forwarded /\ CanSwitch(sock)
       /\ AddFd(p, f, sock, HostAddr(sa))
       /\ Record(p, f, [sock EXCEPT !.state = "Bypassed"])
       /\ Answer("answer")

HandleBind ==
    LET p == Tgid[cur.tid]
        f == cur.call.fd
        Inside(sock) == /\ Record(p, f, [sock EXCEPT !.state = "NotBypassable"])
                        /\ Answer("continue") /\ UNCHANGED kernel IN
    /\ Handling("bind")
    /\ \E r \in Found(cur.tid, f, "bind") :
          /\ pidInfos' = r.infos
          /\ \/ /\ ~r.go /\ Record(p, f, r.sock) /\ Answer("continue")
                /\ UNCHANGED <<kernel, memfds>>
             \/ r.go /\ IgnoreBind /\ Inside(r.sock) /\ UNCHANGED memfds
             \/ /\ r.go /\ ~IgnoreBind
                /\ \E m \in MemAccess(p) :
                      /\ memfds' = [memfds EXCEPT ![p] = m.memfd]
                      /\ \/ ~m.ok /\ Inside(r.sock)
                         \/ m.ok /\ BindTo(p, f, r.sock, cur.call.mem)
    /\ UNCHANGED <<calls, up, env>>

\* A replaced socket answers with the address the application used.
HandleGetpeername ==
    LET p == Tgid[cur.tid]
        f == cur.call.fd IN
    /\ Handling("getpeername")
    /\ \E r \in Found(cur.tid, f, "getpeername") :
          /\ pidInfos' = r.infos
          /\ Record(p, f, r.sock)
          /\ \/ /\ r.infos[cur.tid] # None /\ r.sock # None
                /\ r.sock.state = "Bypassed" /\ r.sock.addr # None
                /\ \E m \in MemAccess(p) :
                      /\ memfds' = [memfds EXCEPT ![p] = m.memfd]
                      /\ Answer(IF m.ok THEN "answer" ELSE "continue")
             \/ /\ ~ (/\ r.infos[cur.tid] # None /\ r.sock # None
                      /\ r.sock.state = "Bypassed" /\ r.sock.addr # None)
                /\ UNCHANGED memfds /\ Answer("continue")
    /\ UNCHANGED <<kernel, calls, up, env>>

\* configureSocket takes the address of the first byte of an empty value:
\* the handler's process ends, and its books with it.
ConfigurePanic ==
    LET t == cur.tid
        p == Tgid[t]
        dest == cur.call.mem IN
    /\ Handling("connect") \/ Handling("bind")
    /\ \E r \in Found(t, cur.call.fd, cur.call.nr), m \in MemAccess(p) :
          r.go /\ m.ok /\ ReplayPanics(r.sock.socketOptions)
    /\ IF cur.call.nr = "connect"
       THEN \E reply \in Replies(dest) :
               reply # Invalid /\ ~StaysInside(dest, interfaces, reply, dynamicList)
       ELSE ~IgnoreBind /\ dest.port \in DOMAIN ForwardingPorts
    /\ up' = FALSE
    /\ processes' = [q \in Procs |-> NoFds]
    /\ pidInfos' = [u \in Tids |-> None]
    /\ memfds' = [q \in Procs |-> None]
    /\ cur' = None
    /\ UNCHANGED <<kernel, calls, env>>

-----------------------------------------------------------------------------
(* The whole system *)

\* startBackgroundC2CConnectionHandleTask installs a new map, WatchNS a new
\* list, at any time.
RefreshInterfaces ==
    /\ C2CEnable
    /\ \E m \in InterfaceMaps : m # interfaces /\ interfaces' = m
    /\ UNCHANGED <<kernel, calls, handler, dynamicList>>

RefreshDynamicList ==
    /\ \E l \in DynamicLists : l # dynamicList /\ dynamicList' = l
    /\ UNCHANGED <<kernel, calls, handler, interfaces>>

HandlerStep ==
    \/ \E t \in Tids : Receive(t)
    \/ DropInvalid \/ Respond
    \/ HandleExit \/ HandleClose \/ HandleSetsockopt \/ HandleFcntl
    \/ HandleConnect \/ HandleBind \/ HandleGetpeername
    \/ ConfigurePanic

AppStep ==
    \/ \E p \in Procs : Spawn(p) \/ Kill(p)
    \/ \E t \in Tids : Execve(t) \/ Interrupt(t)
    \/ \E t \in Tids, f \in Fds : NewFd(t, f) \/ CloseUnseen(t, f)
    \/ \E t \in Tids, nr \in Nr, f \in Fds : Trap(t, nr, f)

KernelStep(t) == Resume(t) \/ Enosys(t)

Next ==
    \/ HandlerStep
    \/ AppStep
    \/ \E t \in Tids : KernelStep(t)
    \/ RefreshInterfaces \/ RefreshDynamicList

Safety == Init /\ [][Next]_vars

\* The handler's goroutine and the kernel keep running; the application may
\* stop anywhere, and no signal has to come.
Fairness == WF_vars(HandlerStep) /\ \A t \in Tids : WF_vars(KernelStep(t))

Spec == Safety /\ Fairness

-----------------------------------------------------------------------------
(* Properties *)

\* The books describe the process: an entry is of an open descriptor, and one
\* called Bypassed is of a host socket (processes, handleReq).
RegistryMatchesKernel ==
    \A p \in Procs, f \in Fds :
        processes[p][f] # None =>
            /\ fdt[p][f] # None
            /\ processes[p][f].state = "Bypassed" => files[fdt[p][f]].ns = "host"

\* Cached pidfds and memory files are of the process that has the id now,
\* and none is kept of a process that is gone (pidInfos, memfds).
CachesCurrent ==
    /\ \A t \in Tids : pidInfos[t] # None => Alive(Tgid[t]) /\ pidInfos[t] = life[Tgid[t]]
    /\ \A p \in Procs : memfds[p] # None => Alive(p) /\ memfds[p] = mm[p]

\* A connect whose destination was rewritten meets a host socket, however
\* often signals restart it: on a socket left inside, the host's port would
\* be looked for in the container (handleSysConnect).
RewrittenOnlyOnHost ==
    \A t \in Tids :
        sc[t] # None /\ sc[t].mem # None /\ sc[t].mem # sc[t].arg =>
            /\ CalledFile(t) # None
            /\ files[CalledFile(t)].ns = "host"

Switches(p, f) == fdt[p][f] # None /\ fdt'[p][f] \notin {None, fdt[p][f]}

\* The socket that replaces another is of its kind and has its options and its
\* O_NONBLOCK; only one that was once found not bypassable has its options
\* forgotten (handleSysSetsockopt, handleSysFcntl, configureSocket,
\* registerSocket).
OptionsSurviveSwitch ==
    [][\A p \in Procs, f \in Fds :
          Switches(p, f) =>
              LET old == files[fdt[p][f]]
                  new == files'[fdt'[p][f]] IN
              /\ new.kind = old.kind /\ new.nonblock = old.nonblock
              /\ \/ new.opts = old.opts
                 \/ processes[p][f] # None /\ processes[p][f].state = "NotBypassable"]_vars

\* A switch costs no connection: what is replaced has no peer, unless a failure
\* left it in Error (registerSocket, handleSysConnect, handleSysBind).
ConnectionsSurvive ==
    [][\A p \in Procs, f \in Fds :
          Switches(p, f) =>
              \/ files[fdt[p][f]].peer = None
              \/ processes[p][f] # None /\ processes[p][f].state = "Error"]_vars

\* While the handler is up, a call whose notification was received is the one it
\* is about to answer: none waits for an answer that nobody owes it (handle).
NoCallForgotten ==
    \A t \in Tids :
        up /\ sc[t] # None /\ sc[t].st = "received" =>
            cur # None /\ cur.valid /\ cur.tid = t

\* What was recorded of a bypassed socket is final: its entry changes only
\* by being removed (handleReq).
BypassedEntryFrozen ==
    [][\A p \in Procs, f \in Fds :
          processes[p][f] # None /\ processes[p][f].state = "Bypassed"
              => processes'[p][f] \in {None, processes[p][f]}]_vars

\* No thread stays stopped in a trapped call, whatever fails on the way
\* (handle, handleReq).
EveryTrapResumes == \A t \in Tids : sc[t] # None ~> sc[t] = None

\* socket.go:257 "SOCK_CLOEXEC must be configured in this flag": the socket
\* that replaces another keeps its close-on-exec flag.
CloexecKept ==
    [][\A p \in Procs, f \in Fds :
          Switches(p, f) => cloexec'[p][f] = cloexec[p][f]]_vars

\* README.md: the CIDRs of --ignore cannot be bypassed.  No host socket is
\* connected to an ignored address it was asked for.
IgnoredNotBypassed ==
    \A i \in FileIds :
        files[i] # None /\ files[i].ns = "host" /\ files[i].peer # None =>
            LET peer == files[i].peer IN
            peer.asked # None /\ peer.to = peer.asked => peer.asked.ip \notin StaticList

\* socket.go:43 "Nothing can be done to recover from this state": an entry in
\* Error leaves it only by being removed.
ErrorIsFinal ==
    [][\A p \in Procs, f \in Fds :
          processes[p][f] # None /\ processes[p][f].state = "Error" =>
              processes'[p][f] = None \/ processes'[p][f].state = "Error"]_vars
=============================================================================
