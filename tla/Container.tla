------------------------------ MODULE Container -----------------------------
(***************************************************************************)
(* What surrounds the notification handler: the processes of a container,  *)
(* and the kernel that keeps their descriptors, stops a trapped call,      *)
(* queues its notification and resumes it.  The handler's own variables    *)
(* are declared here because both sides see them; its steps are in         *)
(* SocketSwitch.                                                           *)
(***************************************************************************)
EXTENDS Routing, Sequences, FiniteSets

CONSTANTS
    Procs,          \* process ids; the main thread of p has thread id p
    Tids, Tgid,     \* thread ids, and the process each belongs to
    Fds, FileIds,   \* descriptor numbers, open file descriptions
    Kinds,          \* what a descriptor can be: [domain, type]
    SocketFlags,    \* what it can be made with: [nonblock, cloexec]
    Calls,          \* which of the trapped calls the application makes
    Opts,           \* what setsockopt is called with
    BadOpts,        \* those the kernel refuses
    EmptyOpts,      \* those with optlen 0
    FcntlArgs,      \* what fcntl is called with: [cmd, on]
    ConnAddrs, BindAddrs,
    InterfaceMaps, DynamicLists,   \* what the two background updaters install
    Faults,         \* calls of the handler that may fail
    Untrapped,      \* what processes do unseen: fork, dup2, execve, kill
    MaxMM,          \* bound: address spaces per process id
    MaxOpts,        \* bound: options per socket
    MaxSignals      \* bound: signals that interrupt a trapped call

Nr == {"connect", "bind", "setsockopt", "fcntl", "close", "getpeername",
       "exit_group"}
Kind == [domain : Nat, type : Nat]
FcntlArg == [cmd : {"F_SETFD", "F_SETFL"}, on : BOOLEAN]

ASSUME SocketAssumption ==
    /\ Procs \subseteq Tids
    /\ Tgid \in [Tids -> Procs] /\ \A p \in Procs : Tgid[p] = p
    /\ IsFiniteSet(Fds) /\ IsFiniteSet(Procs)
    /\ Kinds \subseteq Kind /\ Calls \subseteq Nr
    /\ SocketFlags \subseteq [nonblock : BOOLEAN, cloexec : BOOLEAN]
    /\ FcntlArgs \subseteq FcntlArg
    /\ BadOpts \subseteq Opts /\ EmptyOpts \subseteq Opts
    /\ ConnAddrs \subseteq Addr /\ BindAddrs \subseteq Addr
    /\ InterfaceMaps \subseteq Interfaces /\ DynamicLists \subseteq SUBSET IPs
    /\ {MaxMM, MaxOpts, MaxSignals} \subseteq Nat
    /\ None \notin FileIds \cup Opts \cup Nat \cup FcntlArg

VARIABLES
    files,       \* the kernel's open file descriptions
    fdt,         \* each process's descriptor table
    cloexec,     \* the close-on-exec flag of each descriptor
    life,        \* incarnation of each process id, 0 when there is no process
    mm,          \* the process's address space, renewed by fork and execve
    sc,          \* the trapped call each thread is stopped in
    ahead,       \* the notifications that were queued before a thread's own
    signals,     \* signals delivered so far
    processes,   \* the handler's books, processes[p].sockets[fd]
    pidInfos,    \* its cached pidfds
    memfds,      \* its cached /proc/<pid>/mem files
    cur,         \* the request it is serving
    up,          \* its process runs
    interfaces,  \* containerInterfaces, kept by the background task
    dynamicList  \* NonBypassable.dynamicList, kept by WatchNS

kernel  == <<files, fdt, cloexec, life, mm>>
calls   == <<sc, ahead, signals>>
handler == <<processes, pidInfos, memfds, cur, up>>
env     == <<interfaces, dynamicList>>
vars    == <<kernel, calls, handler, env>>

-----------------------------------------------------------------------------
(* Data *)

Peer == [to : Addr \cup {None}, asked : Addr \cup {None}]

\* "asked" is what the application passed to connect, kept to state properties.
File == [ns : {"container", "host"}, kind : Kinds, nonblock : BOOLEAN,
         opts : Seq(Opts), bound : Addr \cup {None}, peer : Peer \cup {None}]

State == {"NotBypassable", "NotBypassed", "Bypassed", "Error"}

\* An option recorded as None has an empty optval.
Sock == [state : State, addr : Addr \cup {None}, kind : Kinds,
         nonblock : BOOLEAN, cloexec : BOOLEAN,
         socketOptions : Seq(Opts \cup {None}), fcntlOptions : Seq(BOOLEAN)]

\* "mem" is the address in the process's memory that "arg" was passed in.
CallWith(nrs, args, mems) ==
    [nr : nrs, fd : Fds, arg : args, mem : mems, st : {"queued", "received", "resume"}]

Call == UNION {CallWith({"connect", "bind"}, Addr, Addr),
               CallWith({"setsockopt"}, Opts, {None}),
               CallWith({"fcntl"}, FcntlArg, {None}),
               CallWith({"close", "getpeername", "exit_group"}, {None}, {None})}

Request == [tid : Tids, call : Call, valid : BOOLEAN,
            resp : {"none", "continue", "answer"}]

\* "None" is none of the values it stands in for.
ASSUME NoneAssumption ==
    None \notin File \cup Sock \cup Call \cup Request \cup Peer

NoFds == [f \in Fds |-> None]

TypeOK ==
    /\ files \in [FileIds -> File \cup {None}]
    /\ fdt \in [Procs -> [Fds -> FileIds \cup {None}]]
    /\ cloexec \in [Procs -> [Fds -> BOOLEAN]]
    /\ life \in [Procs -> Nat] /\ mm \in [Procs -> Nat]
    /\ sc \in [Tids -> Call \cup {None}]
    /\ ahead \in [Tids -> SUBSET Tids]
    /\ signals \in Nat
    /\ processes \in [Procs -> [Fds -> Sock \cup {None}]]
    /\ pidInfos \in [Tids -> Nat \cup {None}]
    /\ memfds \in [Procs -> Nat \cup {None}]
    /\ cur \in Request \cup {None}
    /\ up \in BOOLEAN
    /\ interfaces \in Interfaces /\ dynamicList \in SUBSET IPs

Init ==
    /\ files = [i \in FileIds |-> None]
    /\ fdt = [p \in Procs |-> NoFds]
    /\ cloexec = [p \in Procs |-> [f \in Fds |-> FALSE]]
    /\ life = [p \in Procs |-> 0] /\ mm = [p \in Procs |-> 0]
    /\ sc = [t \in Tids |-> None]
    /\ ahead = [t \in Tids |-> {}]
    /\ signals = 0
    /\ processes = [p \in Procs |-> NoFds]
    /\ pidInfos = [t \in Tids |-> None]
    /\ memfds = [p \in Procs |-> None]
    /\ cur = None
    /\ up = TRUE
    /\ interfaces = [a \in Addr |-> None] /\ dynamicList = {}

-----------------------------------------------------------------------------
(* The kernel's side *)

Alive(p) == life[p] # 0
Threads(p) == {t \in Tids : Tgid[t] = p}
Running(t) == Alive(Tgid[t]) /\ sc[t] = None
Waiting == {t \in Tids : sc[t] # None /\ sc[t].st = "queued"}
FreeId == {i \in FileIds : files[i] = None}

\* A file lives as long as some descriptor refers to it.
Referenced(table) == {i \in FileIds : \E p \in Procs, f \in Fds : table[p][f] = i}
KeepLive(fs, table) == [i \in FileIds |-> IF i \in Referenced(table) THEN fs[i] ELSE None]

NewFile(ns, k, on) == [ns |-> ns, kind |-> k, nonblock |-> on, opts |-> <<>>,
                   bound |-> None, peer |-> None]

\* The calls of the threads in ts end without a result.
Abandon(ts) ==
    /\ sc' = [t \in Tids |-> IF t \in ts THEN None ELSE sc[t]]
    /\ ahead' = [t \in Tids |-> IF t \in ts THEN {} ELSE ahead[t] \ ts]
    /\ cur' = IF cur # None /\ cur.tid \in ts THEN [cur EXCEPT !.valid = FALSE] ELSE cur

NoFlags == [f \in Fds |-> FALSE]

Dies(p) ==
    /\ fdt' = [fdt EXCEPT ![p] = NoFds]
    /\ cloexec' = [cloexec EXCEPT ![p] = NoFlags]
    /\ files' = KeepLive(files, fdt')
    /\ life' = [life EXCEPT ![p] = 0]
    /\ Abandon(Threads(p))
    /\ UNCHANGED <<mm, signals, processes, pidInfos, memfds, up, env>>

-----------------------------------------------------------------------------
(* Steps of the application that no filter traps *)

\* The runtime starts a process, or p forks: q gets p's descriptors.
Spawn(q) ==
    /\ ~Alive(q) /\ mm[q] < MaxMM
    /\ \E p \in (IF "fork" \in Untrapped THEN {x \in Procs : Alive(x)} ELSE {}) \cup {None} :
          /\ fdt' = [fdt EXCEPT ![q] = IF p = None THEN NoFds ELSE fdt[p]]
          /\ cloexec' = [cloexec EXCEPT ![q] = IF p = None THEN NoFlags
                                              ELSE cloexec[p]]
    /\ mm' = [mm EXCEPT ![q] = @ + 1]
    /\ life' = [life EXCEPT ![q] = mm[q] + 1]
    /\ UNCHANGED <<files, calls, handler, env>>

\* A new descriptor f of the running thread t: socket(2), or accept(2) on a
\* bound socket, which returns a connected one of the same namespace.
NewFd(t, f) ==
    LET p == Tgid[t] IN
    /\ Running(t) /\ fdt[p][f] = None
    /\ \E id \in FreeId, flags \in SocketFlags :
          /\ \/ \E k \in Kinds :
                   files' = [files EXCEPT ![id] = NewFile("container", k, flags.nonblock)]
             \/ \E g \in Fds :
                   /\ fdt[p][g] # None
                   /\ files[fdt[p][g]].bound # None
                   /\ files' = [files EXCEPT ![id] =
                         [NewFile(files[fdt[p][g]].ns, files[fdt[p][g]].kind, flags.nonblock)
                             EXCEPT !.peer = [to |-> None, asked |-> None]]]
          /\ fdt' = [fdt EXCEPT ![p][f] = id]
          /\ cloexec' = [cloexec EXCEPT ![p][f] = flags.cloexec]
    /\ UNCHANGED <<life, mm, calls, handler, env>>

\* close_range(2), or a dup2(2) over f with a NewFd after it, takes descriptor
\* f away without a close(2) that the handler would see.
CloseUnseen(t, f) ==
    LET p == Tgid[t] IN
    /\ "dup2" \in Untrapped
    /\ Running(t) /\ fdt[p][f] # None
    /\ fdt' = [fdt EXCEPT ![p][f] = None]
    /\ files' = KeepLive(files, fdt')
    /\ cloexec' = [cloexec EXCEPT ![p][f] = FALSE]
    /\ UNCHANGED <<life, mm, calls, handler, env>>

\* execve renews the address space, closes what is close-on-exec, and ends
\* the other threads.
Execve(t) ==
    LET p == Tgid[t] IN
    /\ "execve" \in Untrapped
    /\ Running(t) /\ mm[p] < MaxMM
    /\ mm' = [mm EXCEPT ![p] = @ + 1]
    /\ fdt' = [fdt EXCEPT ![p] = [f \in Fds |-> IF cloexec[p][f] THEN None ELSE fdt[p][f]]]
    /\ files' = KeepLive(files, fdt')
    /\ cloexec' = [cloexec EXCEPT ![p] = NoFlags]
    /\ Abandon(Threads(p))
    /\ UNCHANGED <<life, signals, processes, pidInfos, memfds, up, env>>

\* SIGKILL: the process is gone and no exit_group is trapped.
Kill(p) ==
    /\ "kill" \in Untrapped
    /\ Alive(p) /\ mm[p] < MaxMM
    /\ Dies(p)

-----------------------------------------------------------------------------
(* A trapped call, from its entry to its end *)

Args(nr) == CASE nr = "connect"    -> ConnAddrs
              [] nr = "bind"       -> BindAddrs
              [] nr = "setsockopt" -> Opts
              [] nr = "fcntl"      -> FcntlArgs
              [] OTHER             -> {None}

\* Bounds: the last incarnation does not exit; a socket gets few options.
Bounded(p, f, nr) ==
    /\ nr = "exit_group" => mm[p] < MaxMM
    /\ nr = "setsockopt" =>
          /\ fdt[p][f] # None => Len(files[fdt[p][f]].opts) < MaxOpts
          /\ processes[p][f] # None => Len(processes[p][f].socketOptions) < MaxOpts
    /\ nr = "fcntl" /\ processes[p][f] # None =>
          Len(processes[p][f].fcntlOptions) < MaxOpts

\* The filter stops thread t and queues a notification.
Trap(t, nr, f) ==
    /\ nr \in Calls /\ Running(t) /\ Bounded(Tgid[t], f, nr)
    /\ nr = "exit_group" => f = CHOOSE x \in Fds : TRUE   \* it has no descriptor
    /\ \E arg \in Args(nr) :
          sc' = [sc EXCEPT ![t] =
             [nr |-> nr, fd |-> f, arg |-> arg,
              mem |-> IF nr \in {"connect", "bind"} THEN arg ELSE None, st |-> "queued"]]
    /\ ahead' = [ahead EXCEPT ![t] = Waiting]
    /\ UNCHANGED <<signals, kernel, handler, env>>

\* A signal takes t out of its call: it restarts as a new notification, or
\* fails with EINTR.  The notification being served is no longer valid.
Interrupt(t) ==
    /\ signals < MaxSignals
    /\ sc[t] # None /\ sc[t].st # "resume"
    /\ signals' = signals + 1
    /\ \/ /\ sc' = [sc EXCEPT ![t].st = "queued"]
          /\ ahead' = [u \in Tids |-> IF u = t THEN Waiting \ {t} ELSE ahead[u] \ {t}]
          /\ cur' = IF cur # None /\ cur.tid = t THEN [cur EXCEPT !.valid = FALSE] ELSE cur
       \/ Abandon({t})
    /\ UNCHANGED <<kernel, processes, pidInfos, memfds, up, env>>

Resumed(t, nr) == sc[t] # None /\ sc[t].st = "resume" /\ sc[t].nr = nr
Return(t) == sc' = [sc EXCEPT ![t] = None] /\ UNCHANGED <<ahead, signals, handler, env>>
CalledFile(t) == fdt[Tgid[t]][sc[t].fd]

\* The kernel executes a call the handler let continue, on the descriptor
\* and the memory as they are by then.
ResumeConnect(t) ==
    LET id == CalledFile(t) IN
    /\ Resumed(t, "connect")
    /\ \/ UNCHANGED files   \* refused, unreachable, not a socket
       \/ /\ id # None
          /\ files[id].peer = None
          /\ files' = [files EXCEPT ![id].peer = [to |-> sc[t].mem, asked |-> sc[t].arg]]
    /\ UNCHANGED <<fdt, cloexec, life, mm>> /\ Return(t)

ResumeBind(t) ==
    LET id == CalledFile(t) IN
    /\ Resumed(t, "bind")
    /\ \/ UNCHANGED files
       \/ /\ id # None
          /\ files[id].bound = None
          /\ files' = [files EXCEPT ![id].bound = sc[t].mem]
    /\ UNCHANGED <<fdt, cloexec, life, mm>> /\ Return(t)

ResumeSetsockopt(t) ==
    LET id == CalledFile(t) IN
    /\ Resumed(t, "setsockopt")
    /\ files' = IF id = None \/ sc[t].arg \in BadOpts THEN files
                ELSE [files EXCEPT ![id].opts = Append(@, sc[t].arg)]
    /\ UNCHANGED <<fdt, cloexec, life, mm>> /\ Return(t)

ResumeFcntl(t) ==
    LET p == Tgid[t]
        id == CalledFile(t)
        arg == sc[t].arg IN
    /\ Resumed(t, "fcntl")
    /\ files' = IF id # None /\ arg.cmd = "F_SETFL"
                THEN [files EXCEPT ![id].nonblock = arg.on] ELSE files
    /\ cloexec' = IF id # None /\ arg.cmd = "F_SETFD"
                  THEN [cloexec EXCEPT ![p][sc[t].fd] = arg.on] ELSE cloexec
    /\ UNCHANGED <<fdt, life, mm>> /\ Return(t)

ResumeClose(t) ==
    /\ Resumed(t, "close")
    /\ fdt' = [fdt EXCEPT ![Tgid[t]][sc[t].fd] = None]
    /\ files' = KeepLive(files, fdt')
    /\ cloexec' = [cloexec EXCEPT ![Tgid[t]][sc[t].fd] = FALSE]
    /\ UNCHANGED <<life, mm>> /\ Return(t)

ResumeGetpeername(t) ==
    Resumed(t, "getpeername") /\ UNCHANGED kernel /\ Return(t)

ResumeExit(t) ==
    Resumed(t, "exit_group") /\ Dies(Tgid[t])

Resume(t) ==
    \/ ResumeConnect(t) \/ ResumeBind(t) \/ ResumeSetsockopt(t) \/ ResumeFcntl(t)
    \/ ResumeClose(t) \/ ResumeGetpeername(t) \/ ResumeExit(t)

\* With the notification descriptor closed the kernel answers ENOSYS; an
\* exit_group that fails still ends the process.
Enosys(t) ==
    /\ ~up
    /\ sc[t] # None /\ sc[t].st # "resume"
    /\ IF sc[t].nr = "exit_group" THEN Dies(Tgid[t])
       ELSE Abandon({t}) /\ UNCHANGED <<kernel, signals, processes, pidInfos, memfds, up, env>>

=============================================================================
