----------------------------- MODULE SwitchProofs -----------------------------
(***************************************************************************)
(* What the replacement of a socket keeps, proved for the containers of    *)
(* RegistryProofs: its connection, since one that has a peer is not        *)
(* replaced, and its kind, flag and options, when nothing gets in between  *)
(* the record of a call and its execution.                                 *)
(***************************************************************************)
EXTENDS RegistryProofs

\* A descriptor that is shared by fork has its calls recorded for one of its
\* processes only; a signal takes a call back that was recorded; an option
\* that cannot be recorded is executed all the same; and where etcd is asked,
\* an address that does not parse gives the options of a refused socket up.
Undisturbed ==
    /\ Untrapped = {} /\ MaxSignals = 0
    /\ "getfd" \notin Faults /\ "mem" \notin Faults
    /\ \A dest \in Addr : ~AsksEtcd(dest)

-----------------------------------------------------------------------------
(* The inductive invariant *)

\* handleReq dispatches calls on such an entry.
Dispatched(sock) == sock # None /\ sock.state \in {"NotBypassed", "Error"}

\* The O_NONBLOCK that configureSocket gives the replacement.
FlagOf(sock) ==
    IF sock.fcntlOptions = <<>> THEN sock.nonblock
    ELSE sock.fcntlOptions[Len(sock.fcntlOptions)]

\* The entry makes a socket of this kind, flag and options, if any.
Replica(sock, kind, on, opts) ==
    /\ sock.kind = kind
    /\ FlagOf(sock) = on
    /\ Replays(sock.socketOptions) => sock.socketOptions = opts

\* The handler is done with a call of p on f that p has yet to execute.
Being(p, f, nr) == Handled(p) /\ sc[p].nr = nr /\ sc[p].fd = f

Leaving(p, f) == Being(p, f, "close") \/ (Handled(p) /\ sc[p].nr = "exit_group")

FileOf(p, f) == files[fdt[p][f]]

\* What the kernel keeps of the socket once p has executed that call.
OptsSoon(p, f) ==
    IF Being(p, f, "setsockopt") THEN Append(FileOf(p, f).opts, sc[p].arg)
    ELSE FileOf(p, f).opts

FlagSoon(p, f) ==
    IF Being(p, f, "fcntl") /\ sc[p].arg.cmd = "F_SETFL" THEN sc[p].arg.on
    ELSE FileOf(p, f).nonblock

\* An entry that is dispatched can stand in for its socket.
EntryRight(p, f) ==
    Dispatched(processes[p][f]) =>
        Replica(processes[p][f], FileOf(p, f).kind, FlagSoon(p, f), OptsSoon(p, f))

\* A socket the books do not know has no options yet.
BareRight(p, f) ==
    up /\ processes[p][f] = None /\ fdt[p][f] # None =>
        \/ FileOf(p, f).opts = <<>> /\ ~Being(p, f, "setsockopt")
        \/ Leaving(p, f)

SocketRight(p, f) == EntryRight(p, f) /\ BareRight(p, f)

Unshared ==
    \A p, q \in Procs, f, g \in Fds :
        fdt[p][f] # None /\ fdt[p][f] = fdt[q][g] => p = q /\ f = g

\* No signal spoils the request, its thread is stopped in the call it is about,
\* and only two calls are answered in place of being executed.
ServedOnce ==
    cur # None =>
        /\ cur.valid
        /\ cur.call.arg = sc[cur.tid].arg
        /\ cur.resp = "answer" => cur.call.nr \in {"bind", "getpeername"}

OptionsInv ==
    /\ Unshared /\ ServedOnce
    /\ \A p \in Procs, f \in Fds : SocketRight(p, f)

\* What OptionsSurviveSwitch says of a step, for one descriptor.
SwitchKeeps(p, f) ==
    Switches(p, f) =>
        LET old == files[fdt[p][f]]
            new == files'[fdt'[p][f]] IN
        /\ new.kind = old.kind /\ new.nonblock = old.nonblock
        /\ \/ new.opts = old.opts
           \/ processes[p][f] # None /\ processes[p][f].state = "NotBypassable"

StepKeeps == \A p \in Procs, f \in Fds : SwitchKeeps(p, f)

-----------------------------------------------------------------------------
(* Entries and the sockets they make *)

LEMMA NewReplica ==
    ASSUME NEW file \in File
    PROVE  /\ NewSock(file).socketOptions = <<>>
           /\ NewSock(file).kind = file.kind
           /\ FlagOf(NewSock(file)) = file.nonblock
BY DEF NewSock, FlagOf

LEMMA ReplicaMoves ==
    ASSUME NEW sock \in Sock, NEW kind, NEW on, NEW opts, Replica(sock, kind, on, opts),
           NEW state, NEW addr
    PROVE  /\ Replica([sock EXCEPT !.state = state], kind, on, opts)
           /\ Replica([sock EXCEPT !.addr = addr], kind, on, opts)
BY DEF Replica, FlagOf, Sock

\* An option that was recorded as it was read is the next one.
LEMMA ReplicaOption ==
    ASSUME NEW sock \in Sock, NEW kind, NEW on, NEW opts, Replica(sock, kind, on, opts),
           NEW o \in Opts, NEW rec \in {o, None}
    PROVE  Replica([sock EXCEPT !.socketOptions = Append(@, rec)], kind, on, Append(opts, o))
<1> DEFINE so == sock.socketOptions
           Values == Opts \cup {None}
           next == [sock EXCEPT !.socketOptions = Append(@, rec)]
<1>1. so \in Seq(Values) /\ rec \in Values
  BY DEF Sock
<1>2. /\ next.socketOptions = Append(so, rec)
      /\ next.kind = sock.kind /\ FlagOf(next) = FlagOf(sock)
  BY DEF Sock, FlagOf
<1>3. Replays(Append(so, rec)) => Replays(so) /\ rec # None
  <2> HIDE DEF so, Values
  <2>1. /\ DOMAIN Append(so, rec) = 1..(Len(so) + 1)
        /\ DOMAIN so = 1..Len(so) /\ Len(so) \in Nat
        /\ Append(so, rec)[Len(so) + 1] = rec
        /\ \A i \in 1..Len(so) : Append(so, rec)[i] = so[i]
    BY <1>1
  <2>2. Len(so) + 1 \in 1..(Len(so) + 1) /\ 1..Len(so) \subseteq 1..(Len(so) + 1)
    BY <2>1
  <2> QED
    BY <2>1, <2>2 DEF Replays
<1> QED
  BY <1>2, <1>3 DEF Replica

LEMMA ReplicaFlag ==
    ASSUME NEW sock \in Sock, NEW kind, NEW on, NEW opts, Replica(sock, kind, on, opts),
           NEW new \in BOOLEAN
    PROVE  Replica([sock EXCEPT !.fcntlOptions = Append(@, new)], kind, new, opts)
<1> DEFINE fo == sock.fcntlOptions
           next == [sock EXCEPT !.fcntlOptions = Append(@, new)]
<1>1. fo \in Seq(BOOLEAN)
  BY DEF Sock
<1>2. /\ next.fcntlOptions = Append(fo, new)
      /\ next.kind = sock.kind /\ next.socketOptions = sock.socketOptions
  BY DEF Sock
<1>3. Append(fo, new) # <<>> /\ Append(fo, new)[Len(Append(fo, new))] = new
  BY <1>1
<1> QED
  BY <1>2, <1>3 DEF Replica, FlagOf

\* configureSocket gives the host socket what was recorded.
LEMMA HostFileFields ==
    ASSUME NEW sock \in Sock, NEW bound
    PROVE  /\ HostFile(sock, bound).kind = sock.kind
           /\ HostFile(sock, bound).nonblock = FlagOf(sock)
           /\ HostFile(sock, bound).opts = sock.socketOptions
BY DEF HostFile, NewFile, FlagOf

-----------------------------------------------------------------------------
(* What a step leaves alone *)

SameCall(p, f) ==
    /\ Being(p, f, "setsockopt")' <=> Being(p, f, "setsockopt")
    /\ Being(p, f, "fcntl")' <=> Being(p, f, "fcntl")
    /\ Being(p, f, "setsockopt") \/ Being(p, f, "fcntl") => sc'[p].arg = sc[p].arg
    /\ Leaving(p, f) => Leaving(p, f)'

SameSocket(p, f) ==
    /\ fdt'[p][f] = fdt[p][f]
    /\ fdt[p][f] # None =>
          /\ FileOf(p, f)'.kind = FileOf(p, f).kind
          /\ FileOf(p, f)'.opts = FileOf(p, f).opts
          /\ FileOf(p, f)'.nonblock = FileOf(p, f).nonblock

LEMMA SameRight ==
    ASSUME BooksInv, NEW p \in Procs, NEW f \in Fds, SocketRight(p, f),
           SameCall(p, f), SameSocket(p, f), processes'[p][f] = processes[p][f],
           up' => up
    PROVE  SocketRight(p, f)'
<1>1. EntryRight(p, f)'
  <2> SUFFICES ASSUME Dispatched(processes'[p][f])
               PROVE  Replica(processes'[p][f], FileOf(p, f)'.kind, FlagSoon(p, f)', OptsSoon(p, f)')
    BY DEF EntryRight
  <2>1. Replica(processes[p][f], FileOf(p, f).kind, FlagSoon(p, f), OptsSoon(p, f))
    BY DEF SocketRight, EntryRight
  <2>2. fdt[p][f] # None
    BY DEF BooksInv, RegistryMatchesKernel, Dispatched
  <2>3. FlagSoon(p, f)' = FlagSoon(p, f) /\ OptsSoon(p, f)' = OptsSoon(p, f)
    BY <2>2 DEF SameCall, SameSocket, FlagSoon, OptsSoon
  <2> QED
    BY <2>1, <2>2, <2>3 DEF SameSocket
<1>2. BareRight(p, f)'
  BY DEF SocketRight, BareRight, SameCall, SameSocket
<1> QED
  BY <1>1, <1>2 DEF SocketRight

\* A process whose pending call stays as it is.
LEMMA SameHandled ==
    ASSUME NEW p \in Procs, NEW f \in Fds, Handled(p)' <=> Handled(p),
           Handled(p) => sc'[p].nr = sc[p].nr /\ sc'[p].fd = sc[p].fd /\ sc'[p].arg = sc[p].arg
    PROVE  SameCall(p, f)
BY DEF SameCall, Being, Leaving

\* A call about other descriptors, or one that changes no option, comes or goes.
LEMMA OtherHandled ==
    ASSUME NEW p \in Procs, NEW f \in Fds,
           Handled(p) => /\ sc[p].nr # "exit_group"
                         /\ sc[p].fd # f \/ sc[p].nr \notin {"setsockopt", "fcntl", "close"},
           Handled(p)' => sc'[p].fd # f \/ sc'[p].nr \notin {"setsockopt", "fcntl"}
    PROVE  SameCall(p, f)
BY DEF SameCall, Being, Leaving

\* Descriptors that at most go away are not switched, nor shared.
LEMMA TablesShrink ==
    ASSUME Unshared, \A p \in Procs, f \in Fds : fdt'[p][f] \in {None, fdt[p][f]}
    PROVE  Unshared' /\ StepKeeps
BY DEF Unshared, StepKeeps, SwitchKeeps, Switches

\* A step that changes nothing of a socket, an entry or a pending call.
LEMMA NothingOptions ==
    ASSUME BooksInv, OptionsInv, UNCHANGED <<fdt, files, processes>>, up' => up,
           \A p \in Procs, f \in Fds : SameCall(p, f),
           ServedOnce'
    PROVE  OptionsInv' /\ StepKeeps
<1>1. Unshared' /\ StepKeeps
  BY TablesShrink DEF OptionsInv
<1>2. \A p \in Procs, f \in Fds : SameSocket(p, f)
  BY DEF SameSocket, FileOf
<1>3. \A p \in Procs, f \in Fds : SocketRight(p, f)'
  BY <1>2, SameRight DEF OptionsInv
<1> QED
  BY <1>1, <1>3 DEF OptionsInv

\* The request is of one of the container's threads.
LEMMA ServedTid ==
    ASSUME BooksInv, cur # None
    PROVE  cur.tid \in Tids
<1>1. cur \in Request
  BY DEF BooksInv, TypeInv, TypeOK
<1> QED
  BY <1>1, RequestFields

-----------------------------------------------------------------------------
(* Steps of the application *)

LEMMA SpawnOptions ==
    ASSUME Ordinary, Undisturbed, BooksInv, OptionsInv, NEW q \in Procs, Spawn(q)
    PROVE  OptionsInv' /\ StepKeeps
<1>0. fdt \in [Procs -> [Fds -> FileIds \cup {None}]]
  BY DEF BooksInv, TypeInv, TypeOK
<1>1. /\ fdt' = [fdt EXCEPT ![q] = NoFds]
      /\ UNCHANGED <<files, sc, processes, cur, up>>
  BY DEF Spawn, Undisturbed, calls, handler
<1>2. \A f \in Fds : fdt[q][f] = None
  BY DEF Spawn, BooksInv, CallsInv, DeadHasNothing
<1>3. \A p \in Procs, f \in Fds : fdt'[p][f] = fdt[p][f]
  BY <1>0, <1>1, <1>2 DEF NoFds
<1>4. Unshared' /\ StepKeeps
  BY <1>3, TablesShrink DEF OptionsInv
<1>5. ServedOnce'
  BY <1>1 DEF OptionsInv, ServedOnce
<1>6. \A p \in Procs, f \in Fds : SameCall(p, f) /\ SameSocket(p, f)
  BY <1>1, <1>3 DEF SameCall, SameSocket, FileOf, Being, Leaving, Handled
<1> QED
  BY <1>1, <1>4, <1>5, <1>6, SameRight DEF OptionsInv

\* A descriptor that is given a file nobody refers to is shared with nobody.
LEMMA FreshDescriptor ==
    ASSUME TypeInv, Unshared, NEW t \in Procs, NEW f \in Fds, fdt'[t][f] \in FreeId,
           \A q \in Procs, g \in Fds : q # t \/ g # f => fdt'[q][g] = fdt[q][g]
    PROVE  Unshared' /\ \A q \in Procs, g \in Fds : fdt[q][g] # fdt'[t][f]
<1>1. \A q \in Procs, g \in Fds : fdt[q][g] # fdt'[t][f]
  <2>1. fdt'[t][f] \in FileIds /\ files[fdt'[t][f]] = None
    BY DEF FreeId
  <2> QED
    BY <2>1, SocketAssumption DEF TypeInv, NoDangling
<1>2. Unshared'
  <2> SUFFICES ASSUME NEW p \in Procs, NEW q \in Procs, NEW g \in Fds, NEW h \in Fds,
                      fdt'[p][g] # None, fdt'[p][g] = fdt'[q][h]
               PROVE  p = q /\ g = h
    BY DEF Unshared
  <2>1. (p = t /\ g = f) \/ fdt'[p][g] = fdt[p][g]
    OBVIOUS
  <2>2. (q = t /\ h = f) \/ fdt'[q][h] = fdt[q][h]
    OBVIOUS
  <2> QED
    BY <1>1, <2>1, <2>2 DEF Unshared
<1> QED
  BY <1>1, <1>2

\* What a new descriptor changes.
LEMMA NewFdChanges ==
    ASSUME Ordinary, BooksInv, NEW t \in Tids, NEW f \in Fds, NewFd(t, f)
    PROVE  /\ t \in Procs /\ sc[t] = None /\ fdt[t][f] = None /\ processes'[t][f] = None
           /\ UNCHANGED <<sc, processes, cur, up>>
           /\ fdt'[t][f] \in FreeId /\ files'[fdt'[t][f]].opts = <<>>
           /\ \A p \in Procs, g \in Fds : p # t \/ g # f =>
                 /\ fdt'[p][g] = fdt[p][g]
                 /\ fdt[p][g] # None => files'[fdt[p][g]] = files[fdt[p][g]]
<1>0. /\ fdt \in [Procs -> [Fds -> FileIds \cup {None}]]
      /\ files \in [FileIds -> File \cup {None}]
  BY DEF BooksInv, TypeInv, TypeOK
<1>1. /\ t \in Procs /\ Tgid[t] = t /\ sc[t] = None /\ fdt[t][f] = None
      /\ UNCHANGED <<sc, processes, cur, up>>
  BY OwnProcess DEF NewFd, Running, calls, handler
<1>2. PICK id \in FreeId, flags \in SocketFlags :
        /\ \/ \E k \in Kinds :
                files' = [files EXCEPT ![id] = NewFile("container", k, flags.nonblock)]
           \/ \E g \in Fds :
                /\ fdt[Tgid[t]][g] # None
                /\ files[fdt[Tgid[t]][g]].bound # None
                /\ files' = [files EXCEPT ![id] =
                      [NewFile(files[fdt[Tgid[t]][g]].ns, files[fdt[Tgid[t]][g]].kind,
                               flags.nonblock)
                          EXCEPT !.peer = [to |-> None, asked |-> None]]]
        /\ fdt' = [fdt EXCEPT ![Tgid[t]][f] = id]
  BY DEF NewFd
<1>3. id \in FileIds /\ files[id] = None
  BY DEF FreeId
<1>4. \A p \in Procs, g \in Fds : fdt[p][g] # id
  BY <1>0, <1>3, SocketAssumption DEF BooksInv, TypeInv, NoDangling
<1>5. /\ fdt'[t][f] = id
      /\ \A p \in Procs, g \in Fds : p # t \/ g # f => fdt'[p][g] = fdt[p][g]
  BY <1>0, <1>1, <1>2
<1>6. files'[id].opts = <<>> /\ \A i \in FileIds : i # id => files'[i] = files[i]
  <2>1. ASSUME NEW file, files' = [files EXCEPT ![id] = file], file.opts = <<>>
        PROVE  files'[id].opts = <<>> /\ \A i \in FileIds : i # id => files'[i] = files[i]
    BY <1>0, <1>3, <2>1
  <2>2. \A ns, k, on, peer : /\ NewFile(ns, k, on).opts = <<>>
                             /\ [NewFile(ns, k, on) EXCEPT !.peer = peer].opts = <<>>
    BY DEF NewFile
  <2>3. CASE \E k \in Kinds :
                files' = [files EXCEPT ![id] = NewFile("container", k, flags.nonblock)]
    <3>1. PICK k \in Kinds :
             files' = [files EXCEPT ![id] = NewFile("container", k, flags.nonblock)]
      BY <2>3
    <3> DEFINE file == NewFile("container", k, flags.nonblock)
    <3>2. file.opts = <<>> /\ files' = [files EXCEPT ![id] = file]
      BY <2>2, <3>1
    <3> HIDE DEF file
    <3> QED
      BY <2>1, <3>2
  <2>4. CASE \E g \in Fds :
                files' = [files EXCEPT ![id] =
                   [NewFile(files[fdt[Tgid[t]][g]].ns, files[fdt[Tgid[t]][g]].kind,
                            flags.nonblock)
                       EXCEPT !.peer = [to |-> None, asked |-> None]]]
    <3>1. PICK g \in Fds :
             files' = [files EXCEPT ![id] =
                [NewFile(files[fdt[Tgid[t]][g]].ns, files[fdt[Tgid[t]][g]].kind, flags.nonblock)
                    EXCEPT !.peer = [to |-> None, asked |-> None]]]
      BY <2>4
    <3> DEFINE listener == files[fdt[Tgid[t]][g]]
               file == [NewFile(listener.ns, listener.kind, flags.nonblock)
                           EXCEPT !.peer = [to |-> None, asked |-> None]]
    <3>2. file.opts = <<>> /\ files' = [files EXCEPT ![id] = file]
      BY <2>2, <3>1
    <3> HIDE DEF file
    <3> QED
      BY <2>1, <3>2
  <2> QED
    BY <1>2, <2>3, <2>4
<1>7. processes'[t][f] = None
  BY <1>1 DEF BooksInv, RegistryMatchesKernel
<1>8. \A p \in Procs, g \in Fds : fdt[p][g] # None => files'[fdt[p][g]] = files[fdt[p][g]]
  BY <1>0, <1>4, <1>6
<1> QED
  BY <1>1, <1>3, <1>5, <1>6, <1>7, <1>8

LEMMA NewFdOptions ==
    ASSUME Ordinary, BooksInv, OptionsInv, NEW t \in Tids, NEW f \in Fds, NewFd(t, f)
    PROVE  OptionsInv' /\ StepKeeps
<1>1. /\ t \in Procs /\ sc[t] = None /\ fdt[t][f] = None /\ processes'[t][f] = None
      /\ UNCHANGED <<sc, processes, cur, up>>
      /\ fdt'[t][f] \in FreeId /\ files'[fdt'[t][f]].opts = <<>>
      /\ \A p \in Procs, g \in Fds : p # t \/ g # f =>
            /\ fdt'[p][g] = fdt[p][g]
            /\ fdt[p][g] # None => files'[fdt[p][g]] = files[fdt[p][g]]
  BY NewFdChanges
<1>2. Unshared'
  BY <1>1, FreshDescriptor DEF OptionsInv, BooksInv
<1>3. StepKeeps
  BY <1>1 DEF StepKeeps, SwitchKeeps, Switches
<1>4. ServedOnce'
  BY <1>1 DEF OptionsInv, ServedOnce
<1>5. SocketRight(t, f)'
  <2>1. FileOf(t, f)'.opts = <<>>
    BY <1>1 DEF FileOf
  <2>2. ~Handled(t)'
    BY <1>1 DEF Handled
  <2> QED
    BY <1>1, <2>1, <2>2 DEF SocketRight, EntryRight, BareRight, Dispatched, Being
<1>6. ASSUME NEW p \in Procs, NEW g \in Fds, p # t \/ g # f
      PROVE  SocketRight(p, g)'
  <2>1. SameCall(p, g)
    BY <1>1 DEF SameCall, Being, Leaving, Handled
  <2>2. SameSocket(p, g)
    BY <1>1, <1>6 DEF SameSocket, FileOf
  <2> QED
    BY <1>1, <2>1, <2>2, SameRight DEF OptionsInv
<1> QED
  BY <1>2, <1>3, <1>4, <1>5, <1>6 DEF OptionsInv

LEMMA TrapOptions ==
    ASSUME Ordinary, Undisturbed, BooksInv, OptionsInv,
           NEW t \in Tids, NEW nr \in Nr, NEW f \in Fds, Trap(t, nr, f)
    PROVE  OptionsInv' /\ StepKeeps
<1>1. /\ Tids = Procs /\ sc[t] = None
      /\ UNCHANGED <<files, fdt, processes, cur, up>>
  BY OwnProcess DEF Trap, Running, kernel, handler
<1>2. /\ \A u \in Tids : u # t => sc'[u] = sc[u]
      /\ sc'[t].st = "queued"
  BY DEF Trap, BooksInv, TypeInv, TypeOK
<1>3. cur # None => cur.tid # t
  BY <1>1 DEF OptionsInv, ServedOnce, BooksInv, TypeInv, ServedIsStopped
<1>4. \A p \in Procs, g \in Fds : SameCall(p, g)
  <2> SUFFICES ASSUME NEW p \in Procs, NEW g \in Fds PROVE SameCall(p, g)
    OBVIOUS
  <2>1. CASE p = t
    BY <1>1, <1>2, <1>3, <2>1, OtherHandled DEF Handled
  <2>2. CASE p # t
    BY <1>1, <1>2, <2>2, SameHandled DEF Handled
  <2> QED
    BY <2>1, <2>2
<1>5. ServedOnce'
  BY <1>1, <1>2, <1>3, ServedTid DEF OptionsInv, ServedOnce
<1> QED
  BY <1>1, <1>4, <1>5, NothingOptions

-----------------------------------------------------------------------------
(* Steps of the kernel *)

\* A call is executed: what it changes of its own socket is what was to come.
LEMMA ExecutedOptions ==
    ASSUME Ordinary, BooksInv, OptionsInv, NEW t \in Tids, NEW f \in Fds,
           sc[t] # None, sc[t].st = "resume", sc[t].nr # "exit_group", sc[t].fd = f,
           sc' = [sc EXCEPT ![t] = None],
           UNCHANGED <<processes, cur, up>>,
           \A p \in Procs, g \in Fds :
              /\ fdt'[p][g] \in {None, fdt[p][g]}
              /\ p # t \/ g # f => SameSocket(p, g),
           SocketRight(t, f)'
    PROVE  OptionsInv' /\ StepKeeps
<1>1. t \in Procs
  BY OwnProcess
<1>2. sc'[t] = None /\ \A u \in Tids : u # t => sc'[u] = sc[u]
  BY DEF BooksInv, TypeInv, TypeOK
<1>3. Unshared' /\ StepKeeps
  BY TablesShrink DEF OptionsInv
<1>4. ServedOnce'
  BY <1>2, ServedTid DEF OptionsInv, ServedOnce, BooksInv, CallsInv, ResumedIsNotServed
<1>5. ASSUME NEW p \in Procs, NEW g \in Fds, p # t \/ g # f
      PROVE  SocketRight(p, g)'
  <2>1. SameCall(p, g)
    <3>1. CASE p = t
      BY <1>2, <1>5, <3>1, OtherHandled DEF Handled
    <3>2. CASE p # t
      BY <1>2, <3>2, SameHandled, OwnProcess DEF Handled
    <3> QED
      BY <3>1, <3>2
  <2> QED
    BY <1>5, <2>1, SameRight DEF OptionsInv
<1> QED
  BY <1>3, <1>4, <1>5 DEF OptionsInv

\* A descriptor with nothing in the books that is closed.
LEMMA ClosedRight ==
    ASSUME NEW p \in Procs, NEW f \in Fds, processes'[p][f] = None, fdt'[p][f] = None
    PROVE  SocketRight(p, f)'
BY DEF SocketRight, EntryRight, BareRight, Dispatched

\* A connect, a bind or a getpeername changes nothing that an entry records.
LEMMA ResumePlainOptions ==
    ASSUME Ordinary, BooksInv, OptionsInv, NEW t \in Tids,
           ResumeConnect(t) \/ ResumeBind(t) \/ ResumeGetpeername(t)
    PROVE  OptionsInv' /\ StepKeeps
<1>0. /\ TypeInv /\ files \in [FileIds -> File \cup {None}]
      /\ fdt \in [Procs -> [Fds -> FileIds \cup {None}]]
  BY DEF BooksInv, TypeInv, TypeOK
<1>1. /\ sc[t] # None /\ sc[t].st = "resume" /\ sc[t].nr \in {"connect", "bind", "getpeername"}
      /\ sc' = [sc EXCEPT ![t] = None]
      /\ UNCHANGED <<fdt, processes, cur, up>>
  BY DEF ResumeConnect, ResumeBind, ResumeGetpeername, Resumed, Return, kernel, handler
<1>2. t \in Procs /\ sc[t].fd \in Fds
  BY <1>0, <1>1, CalledFileType, OwnProcess
<1>3. PICK f \in Fds : f = sc[t].fd
  BY <1>2
<1>4. \A i \in FileIds : files[i] # None =>
         /\ files'[i].kind = files[i].kind /\ files'[i].opts = files[i].opts
         /\ files'[i].nonblock = files[i].nonblock
  <2>1. CalledFile(t) # None => CalledFile(t) \in FileIds /\ files[CalledFile(t)] \in File
    BY <1>0, <1>1, CalledFileType
  <2>2. CASE ResumeConnect(t)
    <3>1. PICK peer : \/ files' = files
                      \/ /\ CalledFile(t) # None
                         /\ files' = [files EXCEPT ![CalledFile(t)].peer = peer]
      BY <2>2 DEF ResumeConnect
    <3> QED
      BY <1>0, <2>1, <3>1 DEF File
  <2>3. CASE ResumeBind(t)
    <3>1. PICK bound : \/ files' = files
                       \/ /\ CalledFile(t) # None
                          /\ files' = [files EXCEPT ![CalledFile(t)].bound = bound]
      BY <2>3 DEF ResumeBind
    <3> QED
      BY <1>0, <2>1, <3>1 DEF File
  <2>4. CASE ResumeGetpeername(t)
    BY <2>4 DEF ResumeGetpeername, kernel
  <2> QED
    BY <2>2, <2>3, <2>4
<1>5. \A p \in Procs, g \in Fds : SameSocket(p, g)
  BY <1>0, <1>1, <1>4 DEF SameSocket, FileOf, TypeInv, NoDangling
<1>6. SameCall(t, f)
  <2>1. sc'[t] = None
    BY <1>0, <1>1 DEF TypeInv, TypeOK
  <2> QED
    BY <1>1, <1>2, <2>1, OtherHandled DEF Handled
<1>7. SocketRight(t, f)'
  BY <1>1, <1>2, <1>5, <1>6, SameRight DEF OptionsInv
<1> QED
  BY <1>1, <1>3, <1>5, <1>7, ExecutedOptions

\* The kernel appends the option that the handler has appended, or refuses
\* one that cannot be replayed.
LEMMA ResumeSetsockoptOptions ==
    ASSUME Ordinary, BooksInv, OptionsInv, NEW t \in Tids, ResumeSetsockopt(t)
    PROVE  OptionsInv' /\ StepKeeps
<1>0. /\ TypeInv /\ files \in [FileIds -> File \cup {None}]
      /\ fdt \in [Procs -> [Fds -> FileIds \cup {None}]]
      /\ sc \in [Tids -> Call \cup {None}]
  BY DEF BooksInv, TypeInv, TypeOK
<1>1. /\ sc[t] # None /\ sc[t].st = "resume" /\ sc[t].nr = "setsockopt"
      /\ sc' = [sc EXCEPT ![t] = None]
      /\ UNCHANGED <<fdt, processes, cur, up>>
  BY DEF ResumeSetsockopt, Resumed, Return, handler
<1>2. /\ t \in Procs /\ Tgid[t] = t /\ sc[t].fd \in Fds
      /\ sc[t] \in Call /\ sc[t].arg \in Opts
  BY <1>0, <1>1, CalledFileType, CallFields, OwnProcess
<1>3. PICK f \in Fds : f = sc[t].fd
  BY <1>2
<1>4. /\ Being(t, f, "setsockopt") /\ ~Being(t, f, "fcntl") /\ ~Leaving(t, f)
      /\ sc'[t] = None
  BY <1>0, <1>1, <1>3 DEF Being, Leaving, Handled
<1>5. files' = IF fdt[t][f] = None \/ sc[t].arg \in BadOpts THEN files
               ELSE [files EXCEPT ![fdt[t][f]].opts = Append(@, sc[t].arg)]
  BY <1>2, <1>3 DEF ResumeSetsockopt, CalledFile
<1>6. \A p \in Procs, g \in Fds : p # t \/ g # f => SameSocket(p, g)
  <2>1. \A i \in FileIds : i # fdt[t][f] => files'[i] = files[i]
    BY <1>0, <1>5
  <2>2. \A p \in Procs, g \in Fds : (p # t \/ g # f) /\ fdt[p][g] # None => fdt[p][g] # fdt[t][f]
    BY <1>2 DEF OptionsInv, Unshared
  <2> QED
    BY <1>0, <1>1, <2>1, <2>2 DEF SameSocket, FileOf
<1>7. SocketRight(t, f)'
  <2>1. BareRight(t, f)'
    BY <1>1, <1>2, <1>4 DEF OptionsInv, SocketRight, BareRight
  <2>2. EntryRight(t, f)'
    <3> DEFINE sock == processes[t][f]
               file == FileOf(t, f)
    <3> SUFFICES ASSUME Dispatched(sock)
                 PROVE  Replica(sock, FileOf(t, f)'.kind, FlagSoon(t, f)', OptsSoon(t, f)')
      BY <1>1 DEF EntryRight
    <3>1. fdt[t][f] # None /\ sock \in Sock
      BY <1>2 DEF BooksInv, TypeInv, TypeOK, RegistryMatchesKernel, Dispatched
    <3>2. file \in File /\ fdt[t][f] \in FileIds
      BY <1>0, <1>2, <3>1 DEF TypeInv, NoDangling, FileOf
    <3>3. Replica(sock, file.kind, file.nonblock, Append(file.opts, sc[t].arg))
      BY <1>2, <1>4 DEF OptionsInv, SocketRight, EntryRight, FlagSoon, OptsSoon
    <3>4. /\ FlagSoon(t, f)' = FileOf(t, f)'.nonblock
          /\ OptsSoon(t, f)' = FileOf(t, f)'.opts
      BY <1>4 DEF FlagSoon, OptsSoon, Being, Handled
    <3>5. CASE sc[t].arg \in BadOpts
      <4>1. FileOf(t, f)' = file
        BY <1>1, <1>5, <3>5 DEF FileOf
      <4>2. ~Replays(Append(file.opts, sc[t].arg))
        <5>1. file.opts \in Seq(Opts)
          BY <3>2 DEF File
        <5>2. /\ Len(file.opts) + 1 \in DOMAIN Append(file.opts, sc[t].arg)
              /\ Append(file.opts, sc[t].arg)[Len(file.opts) + 1] = sc[t].arg
          BY <1>2, <5>1
        <5> QED
          BY <3>5, <5>2 DEF Replays
      <4> QED
        BY <3>3, <3>4, <4>1, <4>2 DEF Replica
    <3>6. CASE sc[t].arg \notin BadOpts
      <4>1. FileOf(t, f)' = [file EXCEPT !.opts = Append(@, sc[t].arg)]
        BY <1>0, <1>1, <1>5, <3>1, <3>2, <3>6 DEF FileOf
      <4>2. /\ FileOf(t, f)'.kind = file.kind /\ FileOf(t, f)'.nonblock = file.nonblock
            /\ FileOf(t, f)'.opts = Append(file.opts, sc[t].arg)
        BY <3>2, <4>1 DEF File
      <4> QED
        BY <3>3, <3>4, <4>2
    <3> QED
      BY <3>5, <3>6
  <2> QED
    BY <2>1, <2>2 DEF SocketRight
<1> QED
  BY <1>1, <1>3, <1>6, <1>7, ExecutedOptions DEF SameSocket

\* F_SETFL sets the flag that the handler has recorded.
LEMMA ResumeFcntlOptions ==
    ASSUME Ordinary, BooksInv, OptionsInv, NEW t \in Tids, ResumeFcntl(t)
    PROVE  OptionsInv' /\ StepKeeps
<1>0. /\ TypeInv /\ files \in [FileIds -> File \cup {None}]
      /\ fdt \in [Procs -> [Fds -> FileIds \cup {None}]]
      /\ sc \in [Tids -> Call \cup {None}]
  BY DEF BooksInv, TypeInv, TypeOK
<1>1. /\ sc[t] # None /\ sc[t].st = "resume" /\ sc[t].nr = "fcntl"
      /\ sc' = [sc EXCEPT ![t] = None]
      /\ UNCHANGED <<fdt, processes, cur, up>>
  BY DEF ResumeFcntl, Resumed, Return, handler
<1>2. t \in Procs /\ Tgid[t] = t /\ sc[t].fd \in Fds
  BY <1>0, <1>1, CalledFileType, OwnProcess
<1>3. PICK f \in Fds : f = sc[t].fd
  BY <1>2
<1>4. /\ Being(t, f, "fcntl") /\ ~Being(t, f, "setsockopt") /\ ~Leaving(t, f)
      /\ sc'[t] = None
  BY <1>0, <1>1, <1>3 DEF Being, Leaving, Handled
<1>5. files' = IF fdt[t][f] # None /\ sc[t].arg.cmd = "F_SETFL"
               THEN [files EXCEPT ![fdt[t][f]].nonblock = sc[t].arg.on] ELSE files
  BY <1>2, <1>3 DEF ResumeFcntl, CalledFile
<1>6. \A p \in Procs, g \in Fds : p # t \/ g # f => SameSocket(p, g)
  <2>1. \A i \in FileIds : i # fdt[t][f] => files'[i] = files[i]
    BY <1>0, <1>5
  <2>2. \A p \in Procs, g \in Fds : (p # t \/ g # f) /\ fdt[p][g] # None => fdt[p][g] # fdt[t][f]
    BY <1>2 DEF OptionsInv, Unshared
  <2> QED
    BY <1>0, <1>1, <2>1, <2>2 DEF SameSocket, FileOf
<1>7. fdt[t][f] # None =>
         /\ FileOf(t, f)'.kind = FileOf(t, f).kind
         /\ FileOf(t, f)'.opts = FileOf(t, f).opts
         /\ FileOf(t, f)'.nonblock = FlagSoon(t, f)
  <2> SUFFICES ASSUME fdt[t][f] # None
               PROVE  /\ FileOf(t, f)'.kind = FileOf(t, f).kind
                      /\ FileOf(t, f)'.opts = FileOf(t, f).opts
                      /\ FileOf(t, f)'.nonblock = FlagSoon(t, f)
    OBVIOUS
  <2>1. FileOf(t, f) \in File /\ fdt[t][f] \in FileIds
    BY <1>0, <1>2 DEF TypeInv, NoDangling, FileOf
  <2>2. CASE sc[t].arg.cmd = "F_SETFL"
    BY <1>0, <1>1, <1>4, <1>5, <2>1, <2>2 DEF FileOf, FlagSoon, File
  <2>3. CASE sc[t].arg.cmd # "F_SETFL"
    BY <1>1, <1>5, <2>3 DEF FileOf, FlagSoon
  <2> QED
    BY <2>2, <2>3
<1>8. SocketRight(t, f)'
  <2>1. BareRight(t, f)'
    BY <1>1, <1>2, <1>4, <1>7 DEF OptionsInv, SocketRight, BareRight, Being, Handled
  <2>2. EntryRight(t, f)'
    <3> SUFFICES ASSUME Dispatched(processes[t][f])
                 PROVE  Replica(processes[t][f], FileOf(t, f)'.kind, FlagSoon(t, f)', OptsSoon(t, f)')
      BY <1>1 DEF EntryRight
    <3>1. fdt[t][f] # None
      BY <1>2 DEF BooksInv, RegistryMatchesKernel, Dispatched
    <3>2. Replica(processes[t][f], FileOf(t, f).kind, FlagSoon(t, f), FileOf(t, f).opts)
      BY <1>2, <1>4 DEF OptionsInv, SocketRight, EntryRight, OptsSoon
    <3>3. /\ FlagSoon(t, f)' = FileOf(t, f)'.nonblock
          /\ OptsSoon(t, f)' = FileOf(t, f)'.opts
      BY <1>4 DEF FlagSoon, OptsSoon, Being, Handled
    <3> QED
      BY <1>7, <3>1, <3>2, <3>3
  <2> QED
    BY <2>1, <2>2 DEF SocketRight
<1> QED
  BY <1>1, <1>3, <1>6, <1>8, ExecutedOptions DEF SameSocket

LEMMA ResumeCloseOptions ==
    ASSUME Ordinary, BooksInv, BooksInv', OptionsInv, NEW t \in Tids, ResumeClose(t)
    PROVE  OptionsInv' /\ StepKeeps
<1>0. /\ TypeInv /\ files \in [FileIds -> File \cup {None}]
      /\ fdt \in [Procs -> [Fds -> FileIds \cup {None}]]
      /\ fdt' \in [Procs -> [Fds -> FileIds \cup {None}]]
  BY DEF BooksInv, TypeInv, TypeOK
<1>1. /\ sc[t] # None /\ sc[t].st = "resume" /\ sc[t].nr = "close"
      /\ sc' = [sc EXCEPT ![t] = None]
      /\ UNCHANGED <<processes, cur, up>>
      /\ files' = KeepLive(files, fdt')
  BY DEF ResumeClose, Resumed, Return, handler
<1>2. t \in Procs /\ Tgid[t] = t /\ sc[t].fd \in Fds
  BY <1>0, <1>1, CalledFileType, OwnProcess
<1>3. PICK f \in Fds : f = sc[t].fd
  BY <1>2
<1>4. /\ fdt'[t][f] = None
      /\ \A p \in Procs, g \in Fds : p # t \/ g # f => fdt'[p][g] = fdt[p][g]
  BY <1>0, <1>2, <1>3 DEF ResumeClose
<1>5. \A p \in Procs, g \in Fds : fdt'[p][g] # None => files'[fdt'[p][g]] = files[fdt'[p][g]]
  <2>1. \A p \in Procs, g \in Fds : fdt'[p][g] # None =>
           KeepLive(files, fdt')[fdt'[p][g]] = files[fdt'[p][g]]
    BY <1>0, KeepLiveType
  <2> QED
    BY <1>1, <2>1
<1>6. \A p \in Procs, g \in Fds : p # t \/ g # f => SameSocket(p, g)
  BY <1>4, <1>5 DEF SameSocket, FileOf
<1>7. processes'[t][f] = None
  BY <1>1, <1>3 DEF BooksInv, CallsInv, CloseForgotten, Handled
<1>8. SocketRight(t, f)'
  BY <1>2, <1>4, <1>7, ClosedRight
<1>9. \A p \in Procs, g \in Fds : fdt'[p][g] \in {None, fdt[p][g]}
  BY <1>4
<1> QED
  BY <1>1, <1>3, <1>6, <1>8, <1>9, ExecutedOptions

\* A process that is not in the books and not being served can go.
LEMMA DiesOptions ==
    ASSUME Ordinary, BooksInv, BooksInv', OptionsInv, NEW p \in Procs, Dies(p),
           \A f \in Fds : processes[p][f] = None,
           cur = None \/ cur.tid # p
    PROVE  OptionsInv' /\ StepKeeps
<1>0. /\ TypeInv /\ files \in [FileIds -> File \cup {None}]
      /\ fdt \in [Procs -> [Fds -> FileIds \cup {None}]]
      /\ fdt' \in [Procs -> [Fds -> FileIds \cup {None}]]
  BY DEF BooksInv, TypeInv, TypeOK
<1>1. /\ Tids = Procs /\ Threads(p) = {p}
      /\ UNCHANGED <<processes, up>>
      /\ files' = KeepLive(files, fdt')
  BY OwnProcess DEF Dies
<1>2. /\ sc'[p] = None /\ \A u \in Tids : u # p => sc'[u] = sc[u]
      /\ cur' = cur
  BY <1>0, <1>1 DEF Dies, Abandon, BooksInv, TypeInv, TypeOK
<1>3. /\ \A f \in Fds : fdt'[p][f] = None
      /\ \A q \in Procs : q # p => fdt'[q] = fdt[q]
  BY <1>0 DEF Dies, NoFds
<1>4. \A q \in Procs, g \in Fds : fdt'[q][g] # None => files'[fdt'[q][g]] = files[fdt'[q][g]]
  <2>1. \A q \in Procs, g \in Fds : fdt'[q][g] # None =>
           KeepLive(files, fdt')[fdt'[q][g]] = files[fdt'[q][g]]
    BY <1>0, KeepLiveType
  <2> QED
    BY <1>1, <2>1
<1>5. Unshared' /\ StepKeeps
  <2>1. \A q \in Procs, g \in Fds : fdt'[q][g] \in {None, fdt[q][g]}
    BY <1>3
  <2> QED
    BY <2>1, TablesShrink DEF OptionsInv
<1>6. ServedOnce'
  BY <1>2, ServedTid DEF OptionsInv, ServedOnce
<1>7. ASSUME NEW q \in Procs, NEW g \in Fds
      PROVE  SocketRight(q, g)'
  <2>1. CASE q = p
    BY <1>1, <1>3, <2>1, ClosedRight
  <2>2. CASE q # p
    <3>1. SameSocket(q, g)
      BY <1>3, <1>4, <2>2 DEF SameSocket, FileOf
    <3>2. SameCall(q, g)
      BY <1>1, <1>2, <2>2, SameHandled DEF Handled
    <3> QED
      BY <1>1, <3>1, <3>2, SameRight DEF OptionsInv
  <2> QED
    BY <2>1, <2>2
<1> QED
  BY <1>5, <1>6, <1>7 DEF OptionsInv

LEMMA ResumeOptions ==
    ASSUME Ordinary, BooksInv, BooksInv', OptionsInv, NEW t \in Tids, Resume(t)
    PROVE  OptionsInv' /\ StepKeeps
<1>1. CASE ResumeExit(t)
  <2>1. t \in Procs /\ Dies(t) /\ sc[t] # None /\ sc[t].st = "resume" /\ sc[t].nr = "exit_group"
    BY <1>1, OwnProcess DEF ResumeExit, Resumed
  <2>2. \A f \in Fds : processes[t][f] = None
    BY <2>1 DEF BooksInv, CallsInv, ExitForgotten, Handled
  <2>3. cur = None \/ cur.tid # t
    BY <2>1 DEF BooksInv, CallsInv, ResumedIsNotServed
  <2> QED
    BY <2>1, <2>2, <2>3, DiesOptions
<1>2. CASE ~ResumeExit(t)
  BY <1>2, ResumePlainOptions, ResumeSetsockoptOptions, ResumeFcntlOptions, ResumeCloseOptions
     DEF Resume
<1> QED
  BY <1>1, <1>2

\* When the handler is gone there are no books to be right.
LEMMA DownOptions ==
    ASSUME BooksInv', ~up', Unshared', ServedOnce'
    PROVE  OptionsInv'
BY DEF OptionsInv, SocketRight, EntryRight, BareRight, Dispatched, BooksInv, CallsInv,
       DownHasNothing

LEMMA EnosysOptions ==
    ASSUME Ordinary, BooksInv, BooksInv', OptionsInv, NEW t \in Tids, Enosys(t)
    PROVE  OptionsInv' /\ StepKeeps
<1>1. /\ t \in Procs /\ Tgid[t] = t /\ ~up /\ up' = up /\ cur = None
      /\ \A f \in Fds : processes[t][f] = None
  BY OwnProcess DEF Enosys, Dies, BooksInv, CallsInv, DownHasNothing
<1>2. CASE Dies(t)
  BY <1>1, <1>2, DiesOptions
<1>3. CASE Abandon({t}) /\ UNCHANGED <<kernel, signals, processes, pidInfos, memfds, up, env>>
  <2>1. UNCHANGED fdt /\ cur' = None
    BY <1>1, <1>3 DEF Abandon, kernel
  <2>2. Unshared' /\ StepKeeps
    BY <2>1, TablesShrink DEF OptionsInv
  <2> QED
    BY <1>1, <2>1, <2>2, DownOptions DEF ServedOnce
<1> QED
  BY <1>1, <1>2, <1>3 DEF Enosys

-----------------------------------------------------------------------------
(* Steps of the handler *)

LEMMA LoopOptions ==
    ASSUME Ordinary, Undisturbed, BooksInv, OptionsInv,
           (\E t \in Tids : Receive(t)) \/ DropInvalid \/ Respond
    PROVE  OptionsInv' /\ StepKeeps
<1>0. /\ Tids = Procs /\ sc \in [Tids -> Call \cup {None}]
      /\ UNCHANGED <<fdt, files, processes, up>>
  BY OwnProcess DEF BooksInv, TypeInv, TypeOK, Receive, DropInvalid, Respond, kernel
<1>1. ASSUME NEW t \in Tids, Receive(t)
      PROVE  OptionsInv' /\ StepKeeps
  <2> DEFINE call == sc[t]
             moved == [call EXCEPT !.st = "received"]
  <2>1. /\ cur = None /\ sc[t] # None /\ sc[t].st = "queued" /\ sc[t] \in Call
        /\ sc' = [sc EXCEPT ![t] = moved]
        /\ cur' = [tid |-> t, call |-> moved, valid |-> TRUE, resp |-> "none"]
    BY <1>0, <1>1 DEF Receive, Waiting
  <2>2. moved.st = "received"
    <3> HIDE DEF call
    <3>1. call \in Call
      BY <2>1 DEF call
    <3> QED
      BY <3>1, CallMoves
  <2> HIDE DEF moved
  <2>3. sc'[t] = moved /\ \A u \in Tids : u # t => sc'[u] = sc[u]
    BY <1>0, <2>1
  <2>4. cur'.resp = "none" /\ cur'.valid
    BY <2>1
  <2>5. \A p \in Procs, f \in Fds : SameCall(p, f)
    <3> SUFFICES ASSUME NEW p \in Procs, NEW f \in Fds PROVE SameCall(p, f)
      OBVIOUS
    <3>1. CASE p = t
      BY <2>1, <2>2, <2>3, <2>4, <3>1, OtherHandled DEF Handled
    <3>2. CASE p # t
      BY <1>0, <2>1, <2>3, <2>4, <3>2, SameHandled DEF Handled
    <3> QED
      BY <3>1, <3>2
  <2>6. ServedOnce'
    BY <2>1, <2>3, <2>4 DEF ServedOnce
  <2> QED
    BY <1>0, <2>5, <2>6, NothingOptions
<1>2. ~DropInvalid
  BY DEF DropInvalid, OptionsInv, ServedOnce
<1>3. CASE Respond
  <2> DEFINE t == cur.tid
             call == sc[t]
             moved == [call EXCEPT !.st = "resume"]
  <2>1. /\ cur # None /\ cur.valid /\ cur.resp # "none" /\ cur' = None
        /\ cur.resp = "answer" => cur.call.nr \in {"bind", "getpeername"}
    BY <1>3 DEF Respond, OptionsInv, ServedOnce
  <2>2. t \in Tids /\ sc[t] # None /\ sc[t] \in Call /\ sc[t].nr = cur.call.nr
    <3>1. cur \in Request
      BY <2>1 DEF BooksInv, TypeInv, TypeOK
    <3>2. t \in Tids
      BY <3>1, RequestFields
    <3> QED
      BY <1>0, <2>1, <3>2 DEF BooksInv, TypeInv, ServedIsStopped
  <2>3. /\ moved.st = "resume" /\ moved.nr = call.nr /\ moved.fd = call.fd
        /\ moved.arg = call.arg /\ moved # None
    <3> HIDE DEF call
    <3>1. call \in Call
      BY <2>2 DEF call
    <3> QED
      BY <3>1, CallMoves, NoneAssumption
  <2>4. /\ sc'[t] = IF cur.resp = "answer" THEN None ELSE moved
        /\ \A u \in Tids : u # t => sc'[u] = sc[u]
    BY <1>0, <1>3, <2>1, <2>2 DEF Respond
  <2> HIDE DEF moved
  <2>5. Handled(t)
    BY <2>1, <2>2 DEF Handled
  <2> HIDE DEF t
  <2>6. \A p \in Procs, f \in Fds : SameCall(p, f)
    <3> SUFFICES ASSUME NEW p \in Procs, NEW f \in Fds PROVE SameCall(p, f)
      OBVIOUS
    <3>1. CASE p = t /\ cur.resp = "answer"
      BY <2>1, <2>2, <2>4, <3>1, OtherHandled DEF Handled
    <3>2. CASE p = t /\ cur.resp # "answer"
      <4>1. Handled(p)' /\ sc'[p].nr = sc[p].nr /\ sc'[p].fd = sc[p].fd /\ sc'[p].arg = sc[p].arg
        BY <2>3, <2>4, <3>2 DEF Handled
      <4>2. Handled(p)
        BY <2>5, <3>2
      <4> QED
        BY <4>1, <4>2, SameHandled
    <3>3. CASE p # t
      <4>1. cur.tid # p
        BY <3>3 DEF t
      <4> QED
        BY <1>0, <2>1, <2>4, <3>3, <4>1, SameHandled DEF Handled
    <3> QED
      BY <3>1, <3>2, <3>3
  <2>7. ServedOnce'
    BY <2>1 DEF ServedOnce
  <2> QED
    BY <1>0, <2>6, <2>7, NothingOptions
<1> QED
  BY <1>1, <1>2, <1>3

LEMMA PanicOptions ==
    ASSUME BooksInv, BooksInv', OptionsInv, ConfigurePanic
    PROVE  OptionsInv' /\ StepKeeps
<1>1. ~up' /\ cur' = None /\ UNCHANGED fdt
  BY DEF ConfigurePanic, kernel
<1>2. Unshared' /\ StepKeeps
  BY <1>1, TablesShrink DEF OptionsInv
<1> QED
  BY <1>1, <1>2, DownOptions DEF ServedOnce

\* The call that is being handled, as its thread is stopped in it.
LEMMA ServedCall ==
    ASSUME Ordinary, BooksInv, OptionsInv, NEW nr, Handling(nr), NEW t, t = cur.tid
    PROVE  /\ t \in Tids /\ t \in Procs /\ Tgid[t] = t /\ Alive(t) /\ up
           /\ cur \in Request /\ cur # None /\ cur.valid /\ ~Handled(t)
           /\ cur.call \in Call /\ cur.call.fd \in Fds /\ cur.call.nr = nr
           /\ sc[t] # None /\ sc[t] \in Call /\ sc[t].st = "received"
           /\ sc[t].nr = nr /\ sc[t].fd = cur.call.fd /\ sc[t].arg = cur.call.arg
<1>1. cur \in Request /\ cur # None /\ cur.valid /\ cur.resp = "none" /\ up /\ cur.call.nr = nr
  BY HandlingType DEF BooksInv, OptionsInv, ServedOnce, Handling
<1>2. /\ sc[t] # None /\ sc[t].st = "received" /\ sc[t].nr = nr
      /\ sc[t].fd = cur.call.fd /\ sc[t].arg = cur.call.arg
  BY <1>1 DEF BooksInv, TypeInv, ServedIsStopped, OptionsInv, ServedOnce
<1>3. t \in Tids /\ t \in Procs /\ Tgid[t] = t /\ cur.call \in Call /\ cur.call.fd \in Fds
  BY <1>1, OwnProcess, RequestFields, CallFields
<1>4. sc[t] \in Call /\ Alive(t)
  BY <1>1, <1>2, <1>3 DEF BooksInv, TypeInv, TypeOK, CallsInv, ServedIsAlive
<1>5. ~Handled(t)
  BY <1>1, <1>2 DEF Handled
<1> QED
  BY <1>1, <1>2, <1>3, <1>4, <1>5

\* A request is served: no other socket, entry or call changes.
LEMMA ServedOptions ==
    ASSUME Ordinary, BooksInv, OptionsInv,
           NEW nr, Handling(nr), NEW resp \in {"continue", "answer"}, Answer(resp),
           resp = "answer" => nr \in {"bind", "getpeername"},
           NEW t, t = cur.tid, NEW f, f = cur.call.fd, up' => up,
           \A q \in Procs, g \in Fds : q # t \/ g # f =>
              /\ SameSocket(q, g)
              /\ processes'[q][g] = processes[q][g] \/ SocketRight(q, g)',
           \A u \in Tids : u # t => sc'[u] = sc[u],
           /\ sc'[t] # None /\ sc'[t].nr = sc[t].nr
           /\ sc'[t].fd = sc[t].fd /\ sc'[t].arg = sc[t].arg,
           Unshared', SocketRight(t, f)'
    PROVE  OptionsInv'
<1>1. /\ t \in Tids /\ Tids = Procs /\ f \in Fds
      /\ cur \in Request /\ cur # None /\ cur.valid /\ ~Handled(t)
      /\ cur.call.nr = nr /\ sc[t].nr = nr /\ sc[t].fd = f /\ sc[t].arg = cur.call.arg
  BY OwnProcess, ServedCall
<1>2. /\ cur' # None /\ cur'.tid = t /\ cur'.call = cur.call /\ cur'.valid /\ cur'.resp = resp
  BY <1>1, Answered
<1>3. ServedOnce'
  BY <1>1, <1>2 DEF ServedOnce
<1>4. ASSUME NEW q \in Procs, NEW g \in Fds, q # t \/ g # f
      PROVE  SocketRight(q, g)'
  <2>1. CASE processes'[q][g] = processes[q][g]
    <3>1. SameCall(q, g)
      <4>1. CASE q = t
        <5>1. sc'[q].fd # g
          BY <1>1, <1>4, <4>1
        <5> QED
          BY <1>1, <4>1, <5>1, OtherHandled
      <4>2. CASE q # t
        BY <1>1, <1>2, <4>2, SameHandled DEF Handled
      <4> QED
        BY <4>1, <4>2
    <3> QED
      BY <1>4, <2>1, <3>1, SameRight DEF OptionsInv
  <2> QED
    BY <1>4, <2>1
<1> QED
  BY <1>1, <1>3, <1>4 DEF OptionsInv

\* After an exit_group nothing of the process is left to be right about.
LEMMA HandleExitOptions ==
    ASSUME Ordinary, BooksInv, OptionsInv, HandleExit
    PROVE  OptionsInv' /\ StepKeeps
<1>1. PICK t \in Tids : t = cur.tid
  BY ServedCall DEF HandleExit
<1>2. PICK f \in Fds : f = cur.call.fd
  BY ServedCall DEF HandleExit
<1>3. /\ Handling("exit_group") /\ Answer("continue") /\ UNCHANGED <<files, fdt, sc, up>>
  BY DEF HandleExit, kernel, calls
<1>4. /\ t \in Procs /\ Tgid[t] = t /\ Alive(t) /\ cur \in Request
      /\ cur.valid /\ sc[t] # None /\ sc[t].nr = "exit_group"
  BY <1>1, <1>3, ServedCall
<1>5. processes' = [processes EXCEPT ![t] = NoFds]
  <2>1. PICK infos \in GetPidFdInfo(t, pidInfos) :
           infos[t] # None => processes' = [processes EXCEPT ![t] = NoFds]
    BY <1>1, <1>4 DEF HandleExit
  <2>2. infos[t] # None
    BY <1>4, CachedInfos, PidInfoBooks DEF BooksInv
  <2> QED
    BY <2>1, <2>2
<1>6. /\ \A g \in Fds : processes'[t][g] = None
      /\ \A q \in Procs : q # t => processes'[q] = processes[q]
  BY <1>4, <1>5 DEF BooksInv, TypeInv, TypeOK, NoFds
<1>7. \A q \in Procs, g \in Fds : SameSocket(q, g)
  BY <1>3 DEF SameSocket, FileOf
<1>8. Handled(t)' /\ sc'[t].nr = "exit_group"
  BY <1>1, <1>3, <1>4, Answered DEF Handled
<1>9. \A g \in Fds : SocketRight(t, g)'
  BY <1>6, <1>8 DEF SocketRight, EntryRight, BareRight, Dispatched, Leaving
<1>10. Unshared' /\ StepKeeps
  BY <1>3, TablesShrink DEF OptionsInv
<1>11. OptionsInv'
  BY <1>1, <1>2, <1>3, <1>4, <1>6, <1>7, <1>9, <1>10, ServedOptions
<1> QED
  BY <1>10, <1>11

LEMMA HandleCloseOptions ==
    ASSUME Ordinary, BooksInv, OptionsInv, HandleClose
    PROVE  OptionsInv' /\ StepKeeps
<1>1. PICK t \in Tids : t = cur.tid
  BY ServedCall DEF HandleClose
<1>2. PICK f \in Fds : f = cur.call.fd
  BY ServedCall DEF HandleClose
<1>3. /\ Handling("close") /\ Answer("continue") /\ UNCHANGED <<files, fdt, sc, up>>
  BY DEF HandleClose, kernel, calls
<1>4. /\ t \in Procs /\ Tgid[t] = t /\ Alive(t) /\ cur \in Request
      /\ cur.valid /\ sc[t] # None /\ sc[t].nr = "close" /\ sc[t].fd = f
  BY <1>1, <1>2, <1>3, ServedCall
<1>5. Record(t, f, None)
  <2>1. PICK infos \in GetPidFdInfo(t, pidInfos) : infos[t] # None => Record(t, f, None)
    BY <1>1, <1>2, <1>4 DEF HandleClose
  <2>2. infos[t] # None
    BY <1>4, CachedInfos, PidInfoBooks DEF BooksInv
  <2> QED
    BY <2>1, <2>2
<1>6. /\ processes'[t][f] = None
      /\ \A q \in Procs, g \in Fds : q # t \/ g # f => processes'[q][g] = processes[q][g]
  BY <1>4, <1>5 DEF BooksInv, TypeInv, TypeOK, Record
<1>7. \A q \in Procs, g \in Fds : SameSocket(q, g)
  BY <1>3 DEF SameSocket, FileOf
<1>8. Handled(t)' /\ sc'[t].nr = "close" /\ sc'[t].fd = f
  BY <1>1, <1>3, <1>4, Answered DEF Handled
<1>9. SocketRight(t, f)'
  BY <1>6, <1>8 DEF SocketRight, EntryRight, BareRight, Dispatched, Leaving, Being
<1>10. Unshared' /\ StepKeeps
  BY <1>3, TablesShrink DEF OptionsInv
<1>11. OptionsInv'
  BY <1>1, <1>2, <1>3, <1>4, <1>6, <1>7, <1>9, <1>10, ServedOptions
<1> QED
  BY <1>10, <1>11

\* Without failing calls a socket that is not known is registered.
LEMMA RegisterOptions ==
    ASSUME Ordinary, Undisturbed, BooksInv, NEW t \in Tids, Alive(t), NEW f \in Fds,
           NEW i \in ThreadInfos(t), i[t] # None, NEW r \in RegisterSocket(t, f, i)
    PROVE  r.sock = IF fdt[t][f] = None THEN None ELSE NewSock(FileOf(t, f))
<1>1. PICK j \in GetPidFdInfo(t, i) :
         r = [infos |-> j,
              sock  |-> IF j[t] = None \/ j[t] # life[t] \/ fdt[t][f] = None THEN None
                        ELSE NewSock(files[fdt[t][f]])]
  BY DEF RegisterSocket, Undisturbed
<1>2. j[t] # None /\ j[t] = life[t]
  <2>1. j \in ThreadInfos(t) /\ j[t] # None
    BY PidInfoBooks DEF BooksInv
  <2> QED
    BY <2>1 DEF ThreadInfos
<1> QED
  BY <1>1, <1>2 DEF FileOf

\* What handleReq works on stands in for the socket as it is; only one that
\* was found not bypassable before has lost its options.
LEMMA FoundOptions ==
    ASSUME Ordinary, Undisturbed, BooksInv, OptionsInv, up, NEW t \in Tids, Alive(t),
           ~Handled(t), NEW f \in Fds, NEW nr, NEW r \in Found(t, f, nr)
    PROVE  /\ r.go <=> Dispatched(r.sock)
           /\ r.sock \in Sock \cup {None}
           /\ r.sock = None => fdt[t][f] = None
           /\ r.go =>
                 /\ r.sock \in Sock /\ fdt[t][f] # None
                 /\ r.sock.kind = FileOf(t, f).kind
                 /\ FlagOf(r.sock) = FileOf(t, f).nonblock
                 /\ \/ Replica(r.sock, FileOf(t, f).kind, FileOf(t, f).nonblock, FileOf(t, f).opts)
                    \/ /\ nr = "connect" /\ processes[t][f] # None
                       /\ processes[t][f].state = "NotBypassable"
<1> DEFINE known == processes[t][f]
           file == FileOf(t, f)
<1>0. t \in Procs /\ Tgid[t] = t /\ known \in Sock \cup {None}
  BY OwnProcess DEF BooksInv, TypeInv, TypeOK
<1>1. SocketRight(t, f) /\ \A n : ~Being(t, f, n) /\ ~Leaving(t, f)
  BY <1>0 DEF OptionsInv, Being, Leaving
<1>2. fdt[t][f] # None => file \in File
  BY <1>0 DEF BooksInv, TypeInv, TypeOK, NoDangling, FileOf
<1>3. PICK i \in GetPidFdInfo(t, pidInfos) :
         r \in IF i[t] = None THEN {[infos |-> i, sock |-> known, go |-> FALSE]}
               ELSE IF known = None \/ (known.state = "NotBypassable" /\ nr = "connect")
               THEN {[infos |-> x.infos, sock |-> x.sock,
                      go |-> x.sock # None /\ x.sock.state = "NotBypassed"]
                     : x \in RegisterSocket(t, f, i)}
               ELSE {[infos |-> i, sock |-> known,
                      go |-> known.state \in {"NotBypassed", "Error"}]}
  BY <1>0 DEF Found
<1>4. i \in ThreadInfos(t) /\ i[t] # None
  BY CachedInfos, PidInfoBooks DEF BooksInv
<1>5. CASE known = None \/ (known.state = "NotBypassable" /\ nr = "connect")
  <2>1. PICK x \in RegisterSocket(t, f, i) :
           r = [infos |-> x.infos, sock |-> x.sock,
                go |-> x.sock # None /\ x.sock.state = "NotBypassed"]
    BY <1>3, <1>4, <1>5
  <2>2. x.sock = IF fdt[t][f] = None THEN None ELSE NewSock(file)
    BY <1>4, RegisterOptions
  <2>3. r.sock = x.sock /\ r.go = (x.sock # None /\ x.sock.state = "NotBypassed")
    BY <2>1
  <2>4. CASE fdt[t][f] = None
    BY <2>2, <2>3, <2>4 DEF Dispatched
  <2>5. CASE fdt[t][f] # None
    <3>1. /\ r.sock = NewSock(file) /\ r.sock \in Sock /\ r.sock # None
          /\ r.sock.state \in {"NotBypassed", "NotBypassable"}
      <4> HIDE DEF file
      <4>1. NewSock(file) \in Sock /\ NewSock(file) # None
        BY <1>2, <2>5, SockFields, NoneAssumption
      <4>2. NewSock(file).state \in {"NotBypassed", "NotBypassable"}
        BY DEF NewSock, Classify
      <4> QED
        BY <2>2, <2>3, <2>5, <4>1, <4>2
    <3>2. /\ r.sock.socketOptions = <<>> /\ r.sock.kind = file.kind
          /\ FlagOf(r.sock) = file.nonblock
      BY <1>2, <2>5, <3>1, NewReplica
    <3>3. known = None => file.opts = <<>>
      BY <1>1, <2>5 DEF SocketRight, BareRight
    <3>4. known = None => Replica(r.sock, file.kind, file.nonblock, file.opts)
      BY <3>2, <3>3 DEF Replica
    <3> QED
      BY <1>5, <2>3, <2>5, <3>1, <3>2, <3>4 DEF Dispatched
  <2> QED
    BY <2>4, <2>5
<1>6. CASE ~ (known = None \/ (known.state = "NotBypassable" /\ nr = "connect"))
  <2>1. r.sock = known /\ r.go = (known.state \in {"NotBypassed", "Error"})
    BY <1>3, <1>4, <1>6
  <2>2. fdt[t][f] # None
    BY <1>0, <1>6 DEF BooksInv, RegistryMatchesKernel
  <2>3. Dispatched(known) => Replica(known, file.kind, file.nonblock, file.opts)
    BY <1>1 DEF SocketRight, EntryRight, FlagSoon, OptsSoon
  <2> QED
    BY <1>0, <1>6, <2>1, <2>2, <2>3 DEF Dispatched, Replica
<1> QED
  BY <1>5, <1>6

\* The memory of the process that is served can be read.
LEMMA MemRead ==
    ASSUME "mem" \notin Faults, BooksInv, NEW p \in Procs, Alive(p), NEW m \in MemAccess(p)
    PROVE  m.ok
<1>1. memfds[p] # None => memfds[p] = mm[p]
  BY DEF BooksInv, CachesCurrent
<1>2. mm[p] # None
  BY SocketAssumption DEF BooksInv, TypeInv, TypeOK
<1>3. m = [memfd |-> mm[p], ok |-> TRUE]
  BY <1>1, <1>2 DEF MemAccess
<1> QED
  BY <1>3

\* A request that leaves the kernel alone: the entry it records stands in for
\* the socket that is there once the call is executed.
LEMMA InsideOptions ==
    ASSUME Ordinary, BooksInv, OptionsInv,
           NEW nr, Handling(nr), NEW resp \in {"continue", "answer"}, Answer(resp),
           resp = "answer" => nr \in {"bind", "getpeername"},
           NEW t, t = cur.tid, NEW f, f = cur.call.fd,
           UNCHANGED <<files, fdt, sc, up>>,
           NEW sock, Record(t, f, sock),
           sock = None => fdt[t][f] = None,
           Dispatched(sock) =>
              Replica(sock, FileOf(t, f).kind,
                      IF nr = "fcntl" /\ cur.call.arg.cmd = "F_SETFL" THEN cur.call.arg.on
                      ELSE FileOf(t, f).nonblock,
                      IF nr = "setsockopt" THEN Append(FileOf(t, f).opts, cur.call.arg)
                      ELSE FileOf(t, f).opts)
    PROVE  OptionsInv' /\ StepKeeps
<1>1. /\ t \in Tids /\ t \in Procs /\ f \in Fds /\ cur \in Request /\ cur.valid
      /\ sc[t] # None /\ sc[t].nr = nr /\ sc[t].fd = f /\ sc[t].arg = cur.call.arg
  BY ServedCall
<1>2. /\ processes'[t][f] = sock
      /\ \A q \in Procs, g \in Fds : q # t \/ g # f => processes'[q][g] = processes[q][g]
  BY <1>1 DEF BooksInv, TypeInv, TypeOK, Record
<1>3. \A q \in Procs, g \in Fds : SameSocket(q, g)
  BY DEF SameSocket, FileOf
<1>4. Handled(t)' /\ sc'[t] = sc[t]
  BY <1>1, Answered DEF Handled
<1>5. \A n : Being(t, f, n)' <=> n = nr
  BY <1>1, <1>4 DEF Being
<1>6. SocketRight(t, f)'
  <2>1. BareRight(t, f)'
    BY <1>2 DEF BareRight
  <2>2. EntryRight(t, f)'
    <3> SUFFICES ASSUME Dispatched(sock)
                 PROVE  Replica(sock, FileOf(t, f)'.kind, FlagSoon(t, f)', OptsSoon(t, f)')
      BY <1>2 DEF EntryRight
    <3>1. FileOf(t, f)' = FileOf(t, f)
      BY DEF FileOf
    <3>2. FlagSoon(t, f)' = IF nr = "fcntl" /\ cur.call.arg.cmd = "F_SETFL" THEN cur.call.arg.on
                            ELSE FileOf(t, f).nonblock
      BY <1>1, <1>4, <1>5, <3>1 DEF FlagSoon
    <3>3. OptsSoon(t, f)' = IF nr = "setsockopt" THEN Append(FileOf(t, f).opts, cur.call.arg)
                            ELSE FileOf(t, f).opts
      BY <1>1, <1>4, <1>5, <3>1 DEF OptsSoon
    <3> QED
      BY <3>1, <3>2, <3>3
  <2> QED
    BY <2>1, <2>2 DEF SocketRight
<1>7. Unshared' /\ StepKeeps
  BY TablesShrink DEF OptionsInv
<1>8. OptionsInv'
  BY <1>1, <1>2, <1>3, <1>6, <1>7, ServedOptions
<1> QED
  BY <1>7, <1>8

LEMMA HandleSetsockoptOptions ==
    ASSUME Ordinary, Undisturbed, BooksInv, OptionsInv, HandleSetsockopt
    PROVE  OptionsInv' /\ StepKeeps
<1>1. PICK t \in Tids : t = cur.tid
  BY ServedCall DEF HandleSetsockopt
<1>2. PICK f \in Fds : f = cur.call.fd
  BY ServedCall DEF HandleSetsockopt
<1>3. Handling("setsockopt") /\ Answer("continue") /\ UNCHANGED <<files, fdt, sc, up>>
  BY DEF HandleSetsockopt, kernel, calls
<1>4. /\ t \in Procs /\ Tgid[t] = t /\ Alive(t) /\ up /\ ~Handled(t)
      /\ cur.call \in Call /\ cur.call.nr = "setsockopt"
  BY <1>1, <1>3, ServedCall
<1>5. PICK opt \in Opts : opt = cur.call.arg
  BY <1>4, CallFields
<1>6. PICK r \in Found(t, f, "setsockopt") :
         \/ ~r.go /\ Record(t, f, r.sock)
         \/ /\ r.go
            /\ \E rec \in {opt, None} :
                  Record(t, f, [r.sock EXCEPT !.socketOptions = Append(@, rec)])
  BY <1>1, <1>2, <1>4, <1>5 DEF HandleSetsockopt
<1>7. /\ r.go <=> Dispatched(r.sock)
      /\ r.sock = None => fdt[t][f] = None
      /\ r.go => /\ r.sock \in Sock
                 /\ Replica(r.sock, FileOf(t, f).kind, FileOf(t, f).nonblock, FileOf(t, f).opts)
  BY <1>4, FoundOptions
<1>8. CASE ~r.go /\ Record(t, f, r.sock)
  BY <1>1, <1>2, <1>3, <1>7, <1>8, InsideOptions
<1>9. ASSUME r.go, NEW rec \in {opt, None},
             Record(t, f, [r.sock EXCEPT !.socketOptions = Append(@, rec)])
      PROVE  OptionsInv' /\ StepKeeps
  <2> DEFINE file == FileOf(t, f)
             sock == [r.sock EXCEPT !.socketOptions = Append(@, rec)]
  <2>1. Replica(sock, file.kind, file.nonblock, Append(file.opts, opt)) /\ sock # None
    <3>1. sock \in Sock
      BY <1>7, <1>9, SockChanges
    <3> QED
      BY <1>7, <1>9, <3>1, ReplicaOption, NoneAssumption
  <2>2. Record(t, f, sock)
    BY <1>9
  <2> HIDE DEF sock
  <2> QED
    BY <1>1, <1>2, <1>3, <1>5, <2>1, <2>2, InsideOptions
<1> QED
  BY <1>6, <1>8, <1>9

LEMMA HandleFcntlOptions ==
    ASSUME Ordinary, Undisturbed, BooksInv, OptionsInv, HandleFcntl
    PROVE  OptionsInv' /\ StepKeeps
<1>1. PICK t \in Tids : t = cur.tid
  BY ServedCall DEF HandleFcntl
<1>2. PICK f \in Fds : f = cur.call.fd
  BY ServedCall DEF HandleFcntl
<1>3. Handling("fcntl") /\ Answer("continue") /\ UNCHANGED <<files, fdt, sc, up>>
  BY DEF HandleFcntl, kernel, calls
<1>4. /\ t \in Procs /\ Tgid[t] = t /\ Alive(t) /\ up /\ ~Handled(t)
      /\ cur.call \in Call /\ cur.call.nr = "fcntl"
  BY <1>1, <1>3, ServedCall
<1>5. PICK arg \in FcntlArg : arg = cur.call.arg
  BY <1>4, CallFields
<1>6. PICK r \in Found(t, f, "fcntl") :
         Record(t, f, IF r.go /\ arg.cmd = "F_SETFL"
                      THEN [r.sock EXCEPT !.fcntlOptions = Append(@, arg.on)] ELSE r.sock)
  BY <1>1, <1>2, <1>4, <1>5 DEF HandleFcntl
<1>7. /\ r.go <=> Dispatched(r.sock)
      /\ r.sock = None => fdt[t][f] = None
      /\ r.go => /\ r.sock \in Sock
                 /\ Replica(r.sock, FileOf(t, f).kind, FileOf(t, f).nonblock, FileOf(t, f).opts)
  BY <1>4, FoundOptions
<1>8. CASE ~ (r.go /\ arg.cmd = "F_SETFL")
  <2>1. Record(t, f, r.sock)
    BY <1>6, <1>8
  <2> QED
    BY <1>1, <1>2, <1>3, <1>5, <1>7, <1>8, <2>1, InsideOptions
<1>9. CASE r.go /\ arg.cmd = "F_SETFL"
  <2> DEFINE file == FileOf(t, f)
             sock == [r.sock EXCEPT !.fcntlOptions = Append(@, arg.on)]
  <2>1. Replica(sock, file.kind, arg.on, file.opts) /\ sock # None
    <3>1. arg.on \in BOOLEAN
      BY DEF FcntlArg
    <3>2. sock \in Sock
      BY <1>7, <1>9, <3>1, SockChanges
    <3> QED
      BY <1>7, <1>9, <3>1, <3>2, ReplicaFlag, NoneAssumption
  <2>2. Record(t, f, sock)
    BY <1>6, <1>9
  <2> HIDE DEF sock
  <2> QED
    BY <1>1, <1>2, <1>3, <1>5, <1>9, <2>1, <2>2, InsideOptions
<1> QED
  BY <1>8, <1>9

LEMMA HandleGetpeernameOptions ==
    ASSUME Ordinary, Undisturbed, BooksInv, OptionsInv, HandleGetpeername
    PROVE  OptionsInv' /\ StepKeeps
<1>1. PICK t \in Tids : t = cur.tid
  BY ServedCall DEF HandleGetpeername
<1>2. PICK f \in Fds : f = cur.call.fd
  BY ServedCall DEF HandleGetpeername
<1>3. Handling("getpeername") /\ UNCHANGED <<files, fdt, sc, up>>
  BY DEF HandleGetpeername, kernel, calls
<1>4. /\ t \in Procs /\ Tgid[t] = t /\ Alive(t) /\ up /\ ~Handled(t)
  BY <1>1, <1>3, ServedCall
<1>5. PICK r \in Found(t, f, "getpeername") :
         Record(t, f, r.sock) /\ \E resp \in {"continue", "answer"} : Answer(resp)
  BY <1>1, <1>2, <1>4 DEF HandleGetpeername
<1>6. /\ r.go <=> Dispatched(r.sock)
      /\ r.sock = None => fdt[t][f] = None
      /\ r.go => Replica(r.sock, FileOf(t, f).kind, FileOf(t, f).nonblock, FileOf(t, f).opts)
  BY <1>4, FoundOptions
<1> QED
  BY <1>1, <1>2, <1>3, <1>5, <1>6, InsideOptions

\* A socket is replaced: by one of its kind, flag and options, and the entry
\* makes another such one should it be called upon again.
LEMMA SwitchedOptions ==
    ASSUME Ordinary, BooksInv, OptionsInv,
           NEW nr \in {"connect", "bind"}, Handling(nr),
           NEW resp \in {"continue", "answer"}, Answer(resp), resp = "answer" => nr = "bind",
           NEW t, t = cur.tid, NEW f, f = cur.call.fd, up' = up, fdt[t][f] # None,
           NEW made \in Sock, made.kind = FileOf(t, f).kind,
           FlagOf(made) = FileOf(t, f).nonblock,
           \/ Replica(made, FileOf(t, f).kind, FileOf(t, f).nonblock, FileOf(t, f).opts)
           \/ processes[t][f] # None /\ processes[t][f].state = "NotBypassable",
           NEW bound \in Addr \cup {None}, CanSwitch(made), AddFd(t, f, made, bound),
           NEW state \in State, Record(t, f, [made EXCEPT !.state = state]),
           \A u \in Tids : u # t => sc'[u] = sc[u],
           /\ sc'[t] # None /\ sc'[t].nr = sc[t].nr
           /\ sc'[t].fd = sc[t].fd /\ sc'[t].arg = sc[t].arg
    PROVE  OptionsInv' /\ StepKeeps
<1>0. /\ TypeInv /\ fdt \in [Procs -> [Fds -> FileIds \cup {None}]]
      /\ Replays(made.socketOptions)
  BY DEF BooksInv, TypeInv, TypeOK, CanSwitch
<1>1. /\ t \in Tids /\ t \in Procs /\ f \in Fds /\ cur \in Request /\ cur.valid
      /\ sc[t] # None /\ sc[t].nr = nr /\ sc[t].fd = f
  BY ServedCall
<1>2. /\ fdt'[t][f] \in FreeId /\ files'[fdt'[t][f]] = HostFile(made, bound)
      /\ \A q \in Procs, g \in Fds : q # t \/ g # f =>
            /\ fdt'[q][g] = fdt[q][g]
            /\ fdt[q][g] # None => files'[fdt'[q][g]] = files[fdt[q][g]]
  BY <1>0, <1>1, AddFdType
<1>4. Unshared'
  BY <1>0, <1>1, <1>2, FreshDescriptor DEF OptionsInv
<1>5. /\ processes'[t][f] = [made EXCEPT !.state = state]
      /\ \A q \in Procs, g \in Fds : q # t \/ g # f => processes'[q][g] = processes[q][g]
  BY <1>1 DEF BooksInv, TypeInv, TypeOK, Record
<1>6. \A q \in Procs, g \in Fds : q # t \/ g # f => SameSocket(q, g)
  BY <1>2 DEF SameSocket, FileOf
<1>7. /\ FileOf(t, f)'.kind = made.kind /\ FileOf(t, f)'.nonblock = FlagOf(made)
      /\ FileOf(t, f)'.opts = made.socketOptions
  <2>1. FileOf(t, f)' = HostFile(made, bound)
    BY <1>2 DEF FileOf
  <2> QED
    BY <2>1, HostFileFields
<1>8. SocketRight(t, f)'
  <2> DEFINE sock == [made EXCEPT !.state = state]
  <2>1. processes'[t][f] = sock /\ sock # None
    BY <1>5, SockChanges, NoneAssumption
  <2>2. Replica(sock, made.kind, FlagOf(made), made.socketOptions)
    <3>1. Replica(made, made.kind, FlagOf(made), made.socketOptions)
      BY DEF Replica
    <3> QED
      BY <3>1, ReplicaMoves
  <2> HIDE DEF sock
  <2>3. ~Being(t, f, "setsockopt")' /\ ~Being(t, f, "fcntl")'
    BY <1>1 DEF Being
  <2>4. FlagSoon(t, f)' = FlagOf(made) /\ OptsSoon(t, f)' = made.socketOptions
    BY <1>7, <2>3 DEF FlagSoon, OptsSoon
  <2> QED
    BY <1>7, <2>1, <2>2, <2>4 DEF SocketRight, EntryRight, BareRight
<1>9. OptionsInv'
  BY <1>1, <1>4, <1>5, <1>6, <1>8, ServedOptions
<1>10. SwitchKeeps(t, f)
  <2>1. Replica(made, FileOf(t, f).kind, FileOf(t, f).nonblock, FileOf(t, f).opts)
           => made.socketOptions = FileOf(t, f).opts
    BY <1>0 DEF Replica
  <2>2. files'[fdt'[t][f]].kind = made.kind /\ files'[fdt'[t][f]].nonblock = FlagOf(made)
        /\ files'[fdt'[t][f]].opts = made.socketOptions
    BY <1>7 DEF FileOf
  <2> QED
    BY <2>1, <2>2 DEF SwitchKeeps, FileOf
<1>11. StepKeeps
  <2>1. \A q \in Procs, g \in Fds : q # t \/ g # f => SwitchKeeps(q, g)
    BY <1>2 DEF SwitchKeeps, Switches
  <2> QED
    BY <1>10, <2>1 DEF StepKeeps
<1> QED
  BY <1>9, <1>11

LEMMA HandleConnectOptions ==
    ASSUME Ordinary, Undisturbed, BooksInv, OptionsInv, HandleConnect
    PROVE  OptionsInv' /\ StepKeeps
<1>1. PICK t \in Tids : t = cur.tid
  BY ServedCall DEF HandleConnect
<1>2. PICK f \in Fds : f = cur.call.fd
  BY ServedCall DEF HandleConnect
<1>3. Handling("connect") /\ Answer("continue") /\ up' = up
  BY DEF HandleConnect
<1>4. /\ t \in Procs /\ Tgid[t] = t /\ Alive(t) /\ up /\ ~Handled(t)
      /\ cur.call \in Call /\ cur.call.nr = "connect"
      /\ sc[t] # None /\ sc[t] \in Call /\ sc[t].nr = "connect"
  BY <1>1, <1>3, ServedCall
<1>5. PICK dest \in Addr : dest = cur.call.mem
  BY <1>4, CallFields
<1>6. PICK r \in Found(t, f, "connect") :
         \/ ~r.go /\ Record(t, f, r.sock) /\ UNCHANGED <<kernel, sc>>
         \/ r.go /\ ConnectTo(t, t, f, r.sock, dest)
  <2>1. \A m \in MemAccess(t) : m.ok
    BY <1>4, MemRead DEF Undisturbed
  <2> QED
    BY <1>1, <1>2, <1>4, <1>5, <2>1 DEF HandleConnect
<1>7. /\ r.go <=> Dispatched(r.sock)
      /\ r.sock = None => fdt[t][f] = None
      /\ r.go =>
            /\ r.sock \in Sock /\ fdt[t][f] # None
            /\ r.sock.kind = FileOf(t, f).kind
            /\ FlagOf(r.sock) = FileOf(t, f).nonblock
            /\ \/ Replica(r.sock, FileOf(t, f).kind, FileOf(t, f).nonblock, FileOf(t, f).opts)
               \/ processes[t][f] # None /\ processes[t][f].state = "NotBypassable"
  BY <1>4, FoundOptions
<1>8. CASE ~r.go /\ Record(t, f, r.sock) /\ UNCHANGED <<kernel, sc>>
  BY <1>1, <1>2, <1>3, <1>7, <1>8, InsideOptions DEF kernel
<1>9. CASE r.go /\ ConnectTo(t, t, f, r.sock, dest)
  <2> DEFINE made == [r.sock EXCEPT !.addr = dest]
             As(s) == [made EXCEPT !.state = s]
  <2>1. made \in Sock /\ made.kind = FileOf(t, f).kind /\ FlagOf(made) = FileOf(t, f).nonblock
    BY <1>7, <1>9, SockChanges DEF FlagOf, Sock
  <2>2. \/ Replica(made, FileOf(t, f).kind, FileOf(t, f).nonblock, FileOf(t, f).opts)
        \/ processes[t][f] # None /\ processes[t][f].state = "NotBypassable"
    BY <1>7, <1>9, ReplicaMoves
  <2>3. PICK reply \in Replies(dest) :
           \/ Record(t, f, As("NotBypassable")) /\ UNCHANGED <<kernel, sc>>
           \/ /\ CanSwitch(made)
              /\ AddFd(t, f, made, None)
              /\ RewriteDestination(t, dest, reply, made, t, f)
    <3>1. \A reply \in Replies(dest) : reply # Invalid
      BY RoutingAssumption DEF Undisturbed, Replies
    <3> QED
      BY <1>9, <3>1 DEF ConnectTo
  <2>4. CASE Record(t, f, As("NotBypassable")) /\ UNCHANGED <<kernel, sc>>
    <3> DEFINE sock == As("NotBypassable")
    <3>1. sock # None /\ ~Dispatched(sock)
      <4>1. sock \in Sock
        BY <2>1, SockChanges DEF State
      <4>2. sock.state = "NotBypassable"
        <5> HIDE DEF made
        <5> QED
          BY <2>1 DEF Sock
      <4> QED
        BY <4>1, <4>2, NoneAssumption DEF Dispatched
    <3>2. Record(t, f, sock)
      BY <2>4
    <3> HIDE DEF sock
    <3> QED
      BY <1>1, <1>2, <1>3, <2>4, <3>1, <3>2, InsideOptions DEF kernel
  <2>5. CASE /\ CanSwitch(made)
             /\ AddFd(t, f, made, None)
             /\ RewriteDestination(t, dest, reply, made, t, f)
    <3>1. PICK state \in State :
             /\ Record(t, f, As(state))
             /\ \/ sc' = sc
                \/ \E a \in Addr : sc' = [sc EXCEPT ![t].mem = a]
      <4>1. /\ Target(dest, interfaces, reply) \in Addr
            /\ Redirected(dest, interfaces, reply) =>
                  PortRewritten(dest, interfaces, reply) \in Addr
        <5>1. interfaces \in Interfaces /\ reply # Invalid
          BY RoutingAssumption DEF BooksInv, TypeInv, TypeOK, Undisturbed, Replies
        <5> QED
          BY <5>1, TargetType
      <4>2. RewritesIP(dest, interfaces, reply) => Redirected(dest, interfaces, reply)
        BY DEF RewritesIP, Redirected
      <4> HIDE DEF made
      <4> QED
        BY <2>5, <4>1, <4>2 DEF RewriteDestination, State
    <3>2. /\ \A u \in Tids : u # t => sc'[u] = sc[u]
          /\ sc'[t] # None /\ sc'[t].nr = sc[t].nr
          /\ sc'[t].fd = sc[t].fd /\ sc'[t].arg = sc[t].arg
      <4>1. ASSUME NEW a \in Addr, sc' = [sc EXCEPT ![t].mem = a]
            PROVE  /\ \A u \in Tids : u # t => sc'[u] = sc[u]
                   /\ sc'[t] # None /\ sc'[t].nr = sc[t].nr
                   /\ sc'[t].fd = sc[t].fd /\ sc'[t].arg = sc[t].arg
        <5> DEFINE c == [sc[t] EXCEPT !.mem = a]
        <5>1. c # None /\ c.nr = sc[t].nr /\ c.fd = sc[t].fd /\ c.arg = sc[t].arg
          BY <1>4, CallRewritten, NoneAssumption
        <5>2. sc'[t] = c /\ \A u \in Tids : u # t => sc'[u] = sc[u]
          BY <4>1 DEF BooksInv, TypeInv, TypeOK
        <5> QED
          BY <5>1, <5>2
      <4> QED
        BY <1>4, <3>1, <4>1
    <3>3. /\ CanSwitch(made) /\ AddFd(t, f, made, None) /\ fdt[t][f] # None
          /\ Record(t, f, [made EXCEPT !.state = state])
      BY <1>7, <1>9, <2>5, <3>1
    <3>4. None \in Addr \cup {None} /\ "connect" \in {"connect", "bind"}
          /\ "continue" \in {"continue", "answer"} /\ ~("continue" = "answer")
      OBVIOUS
    <3> HIDE DEF made
    <3> QED
      BY <1>1, <1>2, <1>3, <2>1, <2>2, <3>2, <3>3, <3>4, SwitchedOptions
  <2> QED
    BY <2>3, <2>4, <2>5
<1> QED
  BY <1>6, <1>8, <1>9

LEMMA HandleBindOptions ==
    ASSUME Ordinary, Undisturbed, BooksInv, OptionsInv, HandleBind
    PROVE  OptionsInv' /\ StepKeeps
<1>1. PICK t \in Tids : t = cur.tid
  BY ServedCall DEF HandleBind
<1>2. PICK f \in Fds : f = cur.call.fd
  BY ServedCall DEF HandleBind
<1>3. Handling("bind") /\ UNCHANGED <<sc, up>>
  BY DEF HandleBind, calls
<1>4. /\ t \in Procs /\ Tgid[t] = t /\ Alive(t) /\ up /\ ~Handled(t)
      /\ cur.call \in Call /\ cur.call.nr = "bind" /\ sc[t] # None
  BY <1>1, <1>3, ServedCall
<1>5. PICK sa \in Addr : sa = cur.call.mem
  BY <1>4, CallFields
<1>6. PICK r \in Found(t, f, "bind") :
         \/ ~r.go /\ Record(t, f, r.sock) /\ Answer("continue") /\ UNCHANGED kernel
         \/ /\ r.go
            /\ \/ /\ Record(t, f, [r.sock EXCEPT !.state = "NotBypassable"])
                  /\ Answer("continue") /\ UNCHANGED kernel
               \/ BindTo(t, f, r.sock, sa)
  BY <1>1, <1>2, <1>4, <1>5 DEF HandleBind
<1>7. /\ r.go <=> Dispatched(r.sock)
      /\ r.sock = None => fdt[t][f] = None
      /\ r.go =>
            /\ r.sock \in Sock /\ fdt[t][f] # None
            /\ Replica(r.sock, FileOf(t, f).kind, FileOf(t, f).nonblock, FileOf(t, f).opts)
  BY <1>4, FoundOptions
<1>8. CASE ~r.go /\ Record(t, f, r.sock) /\ Answer("continue") /\ UNCHANGED kernel
  BY <1>1, <1>2, <1>3, <1>7, <1>8, InsideOptions DEF kernel
<1>9. ASSUME NEW made \in Sock, Record(t, f, [made EXCEPT !.state = "NotBypassable"]),
             Answer("continue"), UNCHANGED kernel
      PROVE  OptionsInv' /\ StepKeeps
  <2> DEFINE sock == [made EXCEPT !.state = "NotBypassable"]
  <2>1. sock # None /\ ~Dispatched(sock)
    <3>1. sock \in Sock /\ sock.state = "NotBypassable"
      BY DEF Sock, State
    <3> QED
      BY <3>1, NoneAssumption DEF Dispatched
  <2>2. Record(t, f, sock)
    BY <1>9
  <2> HIDE DEF sock
  <2> QED
    BY <1>1, <1>2, <1>3, <1>9, <2>1, <2>2, InsideOptions DEF kernel
<1>10. CASE r.go /\ BindTo(t, f, r.sock, sa)
  <2> DEFINE made == [r.sock EXCEPT !.addr = sa]
  <2>1. /\ made \in Sock
        /\ Replica(made, FileOf(t, f).kind, FileOf(t, f).nonblock, FileOf(t, f).opts)
    BY <1>7, <1>10, SockChanges, ReplicaMoves
  <2>2. \/ /\ Record(t, f, [made EXCEPT !.state = "NotBypassable"])
           /\ Answer("continue") /\ UNCHANGED kernel
        \/ /\ sa.port \in DOMAIN ForwardingPorts /\ CanSwitch(made)
           /\ AddFd(t, f, made, HostAddr(sa))
           /\ Record(t, f, [made EXCEPT !.state = "Bypassed"])
           /\ Answer("answer")
    BY <1>10 DEF BindTo
  <2>3. sa.port \in DOMAIN ForwardingPorts => HostAddr(sa) \in Addr
    BY RoutingAssumption DEF HostAddr, Addr
  <2> HIDE DEF made
  <2>4. CASE /\ sa.port \in DOMAIN ForwardingPorts /\ CanSwitch(made)
             /\ AddFd(t, f, made, HostAddr(sa))
             /\ Record(t, f, [made EXCEPT !.state = "Bypassed"])
             /\ Answer("answer")
    <3>1. made.kind = FileOf(t, f).kind /\ FlagOf(made) = FileOf(t, f).nonblock
      BY <2>1 DEF Replica
    <3>2. "Bypassed" \in State
      BY DEF State
    <3> QED
      BY <1>1, <1>2, <1>3, <1>4, <1>7, <1>10, <2>1, <2>3, <2>4, <3>1, <3>2, SwitchedOptions
  <2> QED
    BY <1>9, <2>1, <2>2, <2>4
<1> QED
  BY <1>6, <1>7, <1>8, <1>9, <1>10

-----------------------------------------------------------------------------

LEMMA OptionsInit ==
    ASSUME Init
    PROVE  OptionsInv
BY DEF Init, OptionsInv, Unshared, ServedOnce, SocketRight, EntryRight, BareRight, Dispatched,
   NoFds

LEMMA OptionsStep ==
    ASSUME Ordinary, Undisturbed, BooksInv, BooksInv', OptionsInv, [Next]_vars
    PROVE  OptionsInv' /\ StepKeeps
<1>1. CASE HandlerStep
  BY <1>1, LoopOptions, HandleExitOptions, HandleCloseOptions, HandleSetsockoptOptions,
     HandleFcntlOptions, HandleConnectOptions, HandleBindOptions, HandleGetpeernameOptions,
     PanicOptions DEF HandlerStep
<1>2. CASE AppStep
  <2>1. /\ \A p \in Procs : ~Kill(p)
        /\ \A t \in Tids : ~Execve(t)
        /\ \A t \in Tids, f \in Fds : ~CloseUnseen(t, f)
    BY DEF Kill, Execve, CloseUnseen, Undisturbed
  <2>2. \A t \in Tids : ~Interrupt(t)
    BY DEF Interrupt, Undisturbed, BooksInv, TypeInv, TypeOK
  <2> QED
    BY <1>2, <2>1, <2>2, SpawnOptions, NewFdOptions, TrapOptions DEF AppStep
<1>3. CASE \E t \in Tids : KernelStep(t)
  BY <1>3, ResumeOptions, EnosysOptions DEF KernelStep
<1>4. CASE RefreshInterfaces \/ RefreshDynamicList \/ UNCHANGED vars
  <2>1. UNCHANGED <<files, fdt, sc, processes, cur, up>>
    BY <1>4 DEF RefreshInterfaces, RefreshDynamicList, vars, kernel, calls, handler
  <2>2. \A p \in Procs, f \in Fds : SameCall(p, f)
    BY <2>1 DEF SameCall, Being, Leaving, Handled
  <2>3. ServedOnce'
    BY <2>1 DEF OptionsInv, ServedOnce
  <2> QED
    BY <2>1, <2>2, <2>3, NothingOptions
<1> QED
  BY <1>1, <1>2, <1>3, <1>4 DEF Next

\* A socket that is replaced by one of the host's keeps its kind, its
\* O_NONBLOCK and, unless it was once found not bypassable, its options in
\* their order: what handleSysSetsockopt and handleSysFcntl have recorded by the
\* time of the connect or bind is what the kernel has executed by then
\* (configureSocket, registerSocket).
THEOREM OptionsKept ==
    ASSUME Ordinary, Undisturbed
    PROVE  Safety => OptionsSurviveSwitch
<1>1. Init => OptionsInv
  BY OptionsInit
<1>2. BooksInv /\ BooksInv' /\ OptionsInv /\ [Next]_vars => OptionsInv'
  BY OptionsStep
<1>3. BooksInv /\ BooksInv' /\ OptionsInv /\ [Next]_vars =>
         [\A p \in Procs, f \in Fds :
             Switches(p, f) =>
                 LET old == files[fdt[p][f]]
                     new == files'[fdt'[p][f]] IN
                 /\ new.kind = old.kind /\ new.nonblock = old.nonblock
                 /\ \/ new.opts = old.opts
                    \/ processes[p][f] # None /\ processes[p][f].state = "NotBypassable"]_vars
  BY OptionsStep DEF StepKeeps, SwitchKeeps
<1>4. Safety => []BooksInv
  BY BooksInvariant
<1> QED
  BY <1>1, <1>2, <1>3, <1>4, PTL DEF Safety, OptionsSurviveSwitch

-----------------------------------------------------------------------------
(* A switch costs no connection *)

\* A descriptor of two processes is connected by one and replaced by the
\* other; where the address cannot be read, the socket is connected inside and
\* its entry remains one that the next connect replaces.
Attentive == Untrapped = {} /\ "mem" \notin Faults

\* An entry that the next connect or bind may replace.
Replaceable(sock) == sock # None /\ sock.state = "NotBypassed"

\* Its socket has no peer, and is not about to get one.
PeerRight(p, f) ==
    Replaceable(processes[p][f]) => FileOf(p, f).peer = None /\ ~Being(p, f, "connect")

PeersInv == Unshared /\ \A p \in Procs, f \in Fds : PeerRight(p, f)

\* What ConnectionsSurvive says of a step, for one descriptor.
CostsNothing(p, f) ==
    Switches(p, f) =>
        \/ FileOf(p, f).peer = None
        \/ processes[p][f] # None /\ processes[p][f].state = "Error"

NothingLost == \A p \in Procs, f \in Fds : CostsNothing(p, f)

\* A step that replaces nothing, makes no entry and starts no connect.
LEMMA QuietPeers ==
    ASSUME BooksInv', PeersInv,
           \A p \in Procs, f \in Fds :
              /\ fdt'[p][f] \in {None, fdt[p][f]}
              /\ processes'[p][f] \in {None, processes[p][f]}
              /\ Replaceable(processes[p][f]) /\ fdt'[p][f] # None =>
                    FileOf(p, f)'.peer = FileOf(p, f).peer
              /\ Being(p, f, "connect")' => Being(p, f, "connect")
    PROVE  PeersInv' /\ NothingLost
<1>1. Unshared' /\ NothingLost
  <2>1. Unshared'
    BY TablesShrink DEF PeersInv
  <2>2. NothingLost
    BY DEF NothingLost, CostsNothing, Switches
  <2> QED
    BY <2>1, <2>2
<1>2. ASSUME NEW p \in Procs, NEW f \in Fds, Replaceable(processes'[p][f])
      PROVE  FileOf(p, f)'.peer = None /\ ~Being(p, f, "connect")'
  <2>1. processes'[p][f] = processes[p][f] /\ Replaceable(processes[p][f])
    BY <1>2 DEF Replaceable
  <2>2. fdt'[p][f] # None
    BY <1>2 DEF BooksInv, RegistryMatchesKernel, Replaceable
  <2> QED
    BY <2>1, <2>2 DEF PeersInv, PeerRight
<1> QED
  BY <1>1, <1>2 DEF PeersInv, PeerRight

LEMMA SpawnPeers ==
    ASSUME Ordinary, Attentive, BooksInv, BooksInv', PeersInv, NEW q \in Procs, Spawn(q)
    PROVE  PeersInv' /\ NothingLost
<1>1. /\ fdt' = [fdt EXCEPT ![q] = NoFds]
      /\ UNCHANGED <<files, sc, processes, cur>>
  BY DEF Spawn, Attentive, calls, handler
<1>2. \A p \in Procs, f \in Fds : fdt'[p][f] = fdt[p][f]
  BY <1>1 DEF Spawn, BooksInv, TypeInv, TypeOK, CallsInv, DeadHasNothing, NoFds
<1> QED
  BY <1>1, <1>2, QuietPeers DEF FileOf, Being, Handled

LEMMA NewFdPeers ==
    ASSUME Ordinary, BooksInv, PeersInv, NEW t \in Tids, NEW f \in Fds, NewFd(t, f)
    PROVE  PeersInv' /\ NothingLost
<1>1. /\ t \in Procs /\ fdt[t][f] = None /\ processes'[t][f] = None
      /\ UNCHANGED <<sc, processes, cur>>
      /\ fdt'[t][f] \in FreeId
      /\ \A p \in Procs, g \in Fds : p # t \/ g # f =>
            /\ fdt'[p][g] = fdt[p][g]
            /\ fdt[p][g] # None => files'[fdt[p][g]] = files[fdt[p][g]]
  BY NewFdChanges
<1>2. Unshared'
  BY <1>1, FreshDescriptor DEF PeersInv, BooksInv
<1>3. NothingLost
  BY <1>1 DEF NothingLost, CostsNothing, Switches
<1>4. ASSUME NEW p \in Procs, NEW g \in Fds, Replaceable(processes'[p][g])
      PROVE  FileOf(p, g)'.peer = None /\ ~Being(p, g, "connect")'
  <2>1. (p # t \/ g # f) /\ processes[p][g] # None
    BY <1>1, <1>4 DEF Replaceable
  <2>2. fdt[p][g] # None
    BY <2>1 DEF BooksInv, RegistryMatchesKernel
  <2> QED
    BY <1>1, <1>4, <2>1, <2>2 DEF PeersInv, PeerRight, FileOf, Being, Handled
<1> QED
  BY <1>2, <1>3, <1>4 DEF PeersInv, PeerRight

LEMMA TrapPeers ==
    ASSUME Ordinary, BooksInv, BooksInv', PeersInv,
           NEW t \in Tids, NEW nr \in Nr, NEW f \in Fds, Trap(t, nr, f)
    PROVE  PeersInv' /\ NothingLost
<1>1. Tids = Procs /\ sc[t] = None /\ UNCHANGED <<files, fdt, processes, cur>>
  BY OwnProcess DEF Trap, Running, kernel, handler
<1>2. sc'[t].st = "queued" /\ \A u \in Tids : u # t => sc'[u] = sc[u]
  BY DEF Trap, BooksInv, TypeInv, TypeOK
<1>3. cur # None /\ cur.valid => cur.tid # t
  BY <1>1 DEF BooksInv, TypeInv, ServedIsStopped
<1>4. \A p \in Procs, g \in Fds : Being(p, g, "connect")' => Being(p, g, "connect")
  BY <1>1, <1>2, <1>3 DEF Being, Handled
<1> QED
  BY <1>1, <1>4, QuietPeers DEF FileOf

\* A call that a signal takes back was not executed.
LEMMA InterruptPeers ==
    ASSUME Ordinary, BooksInv, BooksInv', PeersInv, NEW t \in Tids, Interrupt(t)
    PROVE  PeersInv' /\ NothingLost
<1>0. sc \in [Tids -> Call \cup {None}] /\ Tids = Procs
  BY OwnProcess DEF BooksInv, TypeInv, TypeOK
<1>1. UNCHANGED <<files, fdt, processes>> /\ sc[t] # None /\ sc[t].st # "resume"
  BY DEF Interrupt, kernel
<1>2. /\ \A u \in Tids : u # t => sc'[u] = sc[u]
      /\ sc'[t] # None => sc'[t].st = "queued"
  <2>1. CASE sc' = [sc EXCEPT ![t].st = "queued"]
    <3> DEFINE call == sc[t]
               moved == [call EXCEPT !.st = "queued"]
    <3>1. moved.st = "queued"
      <4>1. call \in Call
        BY <1>0, <1>1
      <4> HIDE DEF call
      <4> QED
        BY <4>1, CallMoves
    <3>2. sc'[t] = moved /\ \A u \in Tids : u # t => sc'[u] = sc[u]
      BY <1>0, <2>1
    <3> HIDE DEF moved
    <3> QED
      BY <3>1, <3>2
  <2>2. CASE Abandon({t})
    BY <2>2 DEF Abandon
  <2> QED
    BY <2>1, <2>2 DEF Interrupt
<1>3. /\ cur # None /\ cur.tid = t => cur' # None /\ ~cur'.valid /\ cur'.tid = t
      /\ ~ (cur # None /\ cur.tid = t) => cur' = cur
  <2>1. cur' = IF cur # None /\ cur.tid = t THEN [cur EXCEPT !.valid = FALSE] ELSE cur
    BY DEF Interrupt, Abandon
  <2>2. cur # None => [cur EXCEPT !.valid = FALSE] # None /\ cur \in Request
    BY RequestFields DEF BooksInv, TypeInv, TypeOK
  <2> QED
    BY <2>1, <2>2, RequestFields
<1>4. \A p \in Procs, g \in Fds : Being(p, g, "connect")' => Being(p, g, "connect")
  BY <1>0, <1>1, <1>2, <1>3 DEF Being, Handled
<1> QED
  BY <1>1, <1>4, QuietPeers DEF FileOf

\* A connect that is executed gives a peer to a socket that is not to be
\* replaced any more; nothing else gives one to an old socket.
LEMMA ReturnPeers ==
    ASSUME Ordinary, BooksInv, BooksInv', PeersInv, NEW t \in Tids, Resume(t), ~ResumeExit(t)
    PROVE  PeersInv' /\ NothingLost
<1>0. /\ TypeInv /\ files \in [FileIds -> File \cup {None}] /\ Tids = Procs
      /\ fdt \in [Procs -> [Fds -> FileIds \cup {None}]]
      /\ fdt' \in [Procs -> [Fds -> FileIds \cup {None}]]
  BY OwnProcess DEF BooksInv, TypeInv, TypeOK
<1>1. /\ sc[t] # None /\ sc[t].st = "resume" /\ sc' = [sc EXCEPT ![t] = None]
      /\ UNCHANGED <<processes, cur>>
  BY DEF Resume, ResumeConnect, ResumeBind, ResumeSetsockopt, ResumeFcntl, ResumeClose,
     ResumeGetpeername, Resumed, Return, handler
<1>2. /\ t \in Procs /\ Tgid[t] = t /\ sc[t].fd \in Fds
      /\ CalledFile(t) = fdt[t][sc[t].fd]
      /\ CalledFile(t) # None => CalledFile(t) \in FileIds /\ files[CalledFile(t)] \in File
  BY <1>0, <1>1, CalledFileType, OwnProcess DEF CalledFile
<1>3. sc'[t] = None /\ \A u \in Tids : u # t => sc'[u] = sc[u]
  BY <1>0, <1>1 DEF TypeInv, TypeOK
<1>4. \A p \in Procs, g \in Fds : Being(p, g, "connect")' => Being(p, g, "connect")
  BY <1>0, <1>1, <1>3 DEF Being, Handled
<1>5. \A p \in Procs, g \in Fds : fdt'[p][g] \in {None, fdt[p][g]}
  <2>1. CASE ResumeClose(t)
    BY <1>0, <1>2, <2>1 DEF ResumeClose
  <2>2. CASE ~ResumeClose(t)
    BY <2>2 DEF Resume, ResumeConnect, ResumeBind, ResumeSetsockopt, ResumeFcntl,
       ResumeGetpeername, kernel
  <2> QED
    BY <2>1, <2>2
<1>6. ASSUME NEW p \in Procs, NEW g \in Fds, Replaceable(processes[p][g]), fdt'[p][g] # None
      PROVE  FileOf(p, g)'.peer = FileOf(p, g).peer
  <2>1. /\ fdt'[p][g] = fdt[p][g] /\ fdt[p][g] # None /\ fdt[p][g] \in FileIds
        /\ files[fdt[p][g]] \in File
    BY <1>0, <1>5, <1>6 DEF TypeInv, NoDangling
  <2>2. CASE ResumeConnect(t)
    <3>1. sc[t].nr = "connect" /\ \/ UNCHANGED files
                                  \/ /\ CalledFile(t) # None
                                     /\ \E peer : files' = [files EXCEPT ![CalledFile(t)].peer = peer]
      BY <2>2 DEF ResumeConnect, Resumed
    <3>2. fdt[p][g] # CalledFile(t)
      <4>1. Being(t, sc[t].fd, "connect")
        BY <1>1, <3>1 DEF Being, Handled
      <4>2. PICK h \in Fds : h = sc[t].fd
        BY <1>2
      <4>3. p # t \/ g # h
        BY <1>2, <1>6, <4>1, <4>2 DEF PeersInv, PeerRight
      <4>4. fdt[p][g] # fdt[t][h]
        BY <1>2, <2>1, <4>3 DEF PeersInv, Unshared
      <4> QED
        BY <1>2, <4>2, <4>4
    <3> QED
      BY <1>0, <2>1, <3>1, <3>2 DEF FileOf
  <2>3. ASSUME \/ UNCHANGED files
               \/ /\ CalledFile(t) # None
                  /\ \E x : \/ files' = [files EXCEPT ![CalledFile(t)].bound = x]
                            \/ files' = [files EXCEPT ![CalledFile(t)].opts = x]
                            \/ files' = [files EXCEPT ![CalledFile(t)].nonblock = x]
        PROVE  FileOf(p, g)'.peer = FileOf(p, g).peer
    <3>1. CASE UNCHANGED files
      BY <2>1, <3>1 DEF FileOf
    <3>2. CASE ~UNCHANGED files
      <4>1. PICK c \in FileIds : c = CalledFile(t) /\ files[c] \in File
        BY <1>2, <2>3, <3>2
      <4>2. PICK x : \/ files' = [files EXCEPT ![c].bound = x]
                     \/ files' = [files EXCEPT ![c].opts = x]
                     \/ files' = [files EXCEPT ![c].nonblock = x]
        BY <2>3, <3>2, <4>1
      <4>3. \A i \in FileIds : i # c => files'[i] = files[i]
        BY <1>0, <4>2
      <4>4. files'[c].peer = files[c].peer
        BY <1>0, <4>1, <4>2 DEF File
      <4> QED
        BY <2>1, <4>3, <4>4 DEF FileOf
    <3> QED
      BY <3>1, <3>2
  <2>4. CASE ResumeBind(t) \/ ResumeSetsockopt(t) \/ ResumeFcntl(t)
    BY <2>3, <2>4 DEF ResumeBind, ResumeSetsockopt, ResumeFcntl
  <2>5. CASE ResumeClose(t)
    <3>1. files' = KeepLive(files, fdt')
      BY <2>5 DEF ResumeClose
    <3>2. KeepLive(files, fdt')[fdt'[p][g]] = files[fdt'[p][g]]
      BY <1>0, <1>6, KeepLiveType
    <3> QED
      BY <2>1, <3>1, <3>2 DEF FileOf
  <2>6. CASE ResumeGetpeername(t)
    BY <2>6 DEF ResumeGetpeername, kernel, FileOf
  <2> QED
    BY <2>2, <2>4, <2>5, <2>6 DEF Resume
<1> QED
  BY <1>1, <1>4, <1>5, <1>6, QuietPeers

LEMMA DiesPeers ==
    ASSUME Ordinary, BooksInv, BooksInv', PeersInv, NEW p \in Procs, Dies(p),
           cur = None \/ cur.tid # p
    PROVE  PeersInv' /\ NothingLost
<1>0. /\ files \in [FileIds -> File \cup {None}] /\ sc \in [Tids -> Call \cup {None}]
      /\ fdt \in [Procs -> [Fds -> FileIds \cup {None}]]
      /\ fdt' \in [Procs -> [Fds -> FileIds \cup {None}]]
  BY DEF BooksInv, TypeInv, TypeOK
<1>1. /\ Tids = Procs /\ Threads(p) = {p} /\ UNCHANGED processes
      /\ files' = KeepLive(files, fdt')
  BY OwnProcess DEF Dies
<1>2. /\ sc'[p] = None /\ \A u \in Tids : u # p => sc'[u] = sc[u]
      /\ cur' = cur
  BY <1>0, <1>1 DEF Dies, Abandon
<1>3. \A q \in Procs, g \in Fds : fdt'[q][g] \in {None, fdt[q][g]}
  BY <1>0 DEF Dies, NoFds
<1>4. ASSUME NEW q \in Procs, NEW g \in Fds, fdt'[q][g] # None
      PROVE  FileOf(q, g)' = FileOf(q, g)
  <2>1. KeepLive(files, fdt')[fdt'[q][g]] = files[fdt'[q][g]]
    BY <1>0, <1>4, KeepLiveType
  <2> QED
    BY <1>1, <1>3, <1>4, <2>1 DEF FileOf
<1>5. \A q \in Procs, g \in Fds : Being(q, g, "connect")' => Being(q, g, "connect")
  BY <1>1, <1>2 DEF Being, Handled
<1> QED
  BY <1>1, <1>3, <1>4, <1>5, QuietPeers

LEMMA KernelPeers ==
    ASSUME Ordinary, BooksInv, BooksInv', PeersInv, NEW t \in Tids, KernelStep(t)
    PROVE  PeersInv' /\ NothingLost
<1>1. t \in Procs /\ Tgid[t] = t /\ Tids = Procs
  BY OwnProcess
<1>2. CASE Resume(t) /\ ~ResumeExit(t)
  BY <1>2, ReturnPeers
<1>3. CASE ResumeExit(t)
  <2>1. Dies(t) /\ (cur = None \/ cur.tid # t)
    BY <1>1, <1>3 DEF ResumeExit, Resumed, BooksInv, CallsInv, ResumedIsNotServed
  <2> QED
    BY <1>1, <2>1, DiesPeers
<1>4. CASE Enosys(t)
  <2>1. ~up /\ cur = None
    BY <1>4 DEF Enosys, BooksInv, CallsInv, DownHasNothing
  <2>2. CASE Dies(t)
    BY <1>1, <2>1, <2>2, DiesPeers
  <2>3. CASE Abandon({t}) /\ UNCHANGED <<kernel, processes>>
    <3>1. /\ UNCHANGED <<files, fdt>> /\ cur' = None
          /\ \A u \in Tids : sc'[u] = IF u = t THEN None ELSE sc[u]
      BY <2>1, <2>3 DEF Abandon, kernel
    <3>2. \A p \in Procs, g \in Fds : Being(p, g, "connect")' => Being(p, g, "connect")
      BY <1>1, <3>1 DEF Being, Handled
    <3> QED
      BY <2>3, <3>1, <3>2, QuietPeers DEF FileOf
  <2> QED
    BY <1>1, <1>4, <2>2, <2>3 DEF Enosys
<1> QED
  BY <1>2, <1>3, <1>4 DEF KernelStep, Resume

\* The loop starts no call and ends none but by answering it.
LEMMA LoopPeers ==
    ASSUME Ordinary, BooksInv, BooksInv', PeersInv,
           (\E t \in Tids : Receive(t)) \/ DropInvalid \/ Respond
    PROVE  PeersInv' /\ NothingLost
<1>0. /\ Tids = Procs /\ sc \in [Tids -> Call \cup {None}]
      /\ UNCHANGED <<fdt, files, processes>>
  BY OwnProcess DEF BooksInv, TypeInv, TypeOK, Receive, DropInvalid, Respond, kernel
<1>1. ASSUME NEW p \in Procs, NEW f \in Fds
      PROVE  Being(p, f, "connect")' => Being(p, f, "connect")
  <2>1. ASSUME NEW t \in Tids, Receive(t)
        PROVE  Being(p, f, "connect")' => Being(p, f, "connect")
    <3> DEFINE call == sc[t]
               moved == [call EXCEPT !.st = "received"]
    <3>1. /\ sc[t] # None /\ sc[t] \in Call
          /\ sc' = [sc EXCEPT ![t] = moved]
          /\ cur' = [tid |-> t, call |-> moved, valid |-> TRUE, resp |-> "none"]
      BY <1>0, <2>1 DEF Receive, Waiting
    <3>2. moved.st = "received"
      <4> HIDE DEF call
      <4>1. call \in Call
        BY <3>1 DEF call
      <4> QED
        BY <4>1, CallMoves
    <3> HIDE DEF moved
    <3>3. sc'[t] = moved /\ \A u \in Tids : u # t => sc'[u] = sc[u]
      BY <1>0, <3>1
    <3>4. cur'.resp = "none"
      BY <3>1
    <3> QED
      BY <1>0, <3>2, <3>3, <3>4 DEF Being, Handled
  <2>2. CASE DropInvalid
    BY <2>2 DEF DropInvalid, calls, Being, Handled
  <2>3. CASE Respond /\ ~cur.valid
    BY <2>3 DEF Respond, Being, Handled
  <2>4. CASE Respond /\ cur.valid
    <3>1. PICK t \in Tids : t = cur.tid
      BY <2>4, ServedTid DEF Respond
    <3>2. sc[t] # None /\ sc[t] \in Call /\ Handled(t)
      BY <1>0, <2>4, <3>1 DEF Respond, BooksInv, TypeInv, ServedIsStopped, Handled
    <3>3. /\ \A u \in Tids : u # t => sc'[u] = sc[u]
          /\ sc'[t] # None => sc'[t].nr = sc[t].nr /\ sc'[t].fd = sc[t].fd
          /\ cur' = None
      BY <1>0, <2>4, <3>1, <3>2, CallMoves DEF Respond
    <3> QED
      BY <1>0, <3>2, <3>3 DEF Being, Handled
  <2> QED
    BY <2>1, <2>2, <2>3, <2>4
<1> QED
  BY <1>0, <1>1, QuietPeers DEF FileOf

\* A request is served: the only call that may become one to be executed is
\* the one it is about.
LEMMA ServedBeing ==
    ASSUME Ordinary, BooksInv, NEW nr, Handling(nr), NEW resp \in {"continue", "answer"},
           Answer(resp), NEW t, t = cur.tid,
           \A u \in Tids : u # t => sc'[u] = sc[u],
           sc' = sc \/ cur.valid,
           sc[t] # None => sc'[t].nr = sc[t].nr /\ sc'[t].fd = sc[t].fd /\ sc'[t].st = sc[t].st,
           sc[t] = None => sc'[t] = None,
           NEW p \in Procs, NEW g \in Fds, p # t \/ g # cur.call.fd \/ nr # "connect"
    PROVE  Being(p, g, "connect")' => Being(p, g, "connect")
<1>1. /\ t \in Tids /\ Tids = Procs /\ cur \in Request /\ cur # None
      /\ cur.valid => sc[t] # None /\ sc[t].nr = nr /\ sc[t].fd = cur.call.fd
  BY HandlingType, OwnProcess DEF BooksInv, TypeInv, ServedIsStopped, Handling
<1>2. cur' # None /\ cur'.tid = t /\ cur'.valid = cur.valid
  BY <1>1, Answered
<1>3. CASE p # t
  BY <1>1, <1>2, <1>3 DEF Being, Handled
<1>4. CASE p = t
  <2>1. sc[t] # None => sc[t].st # "resume"
    BY <1>1 DEF BooksInv, CallsInv, ResumedIsNotServed
  <2>2. Handled(t)' => cur.valid /\ sc'[t].nr = nr /\ sc'[t].fd = cur.call.fd
    BY <1>1, <1>2, <2>1 DEF Handled
  <2> QED
    BY <1>4, <2>2 DEF Being
<1> QED
  BY <1>3, <1>4

\* A request that leaves the kernel alone, and an entry that can be replaced
\* only while its socket has no peer, and no connect of it is under way.
LEMMA InsidePeers ==
    ASSUME Ordinary, BooksInv, PeersInv,
           NEW nr, Handling(nr), NEW resp \in {"continue", "answer"}, Answer(resp),
           NEW t, t = cur.tid, NEW f, f = cur.call.fd,
           UNCHANGED <<files, fdt, sc>>,
           NEW sock, Record(t, f, sock),
           Replaceable(sock) => nr # "connect" /\ FileOf(t, f).peer = None
    PROVE  PeersInv' /\ NothingLost
<1>1. t \in Tids /\ t \in Procs /\ f \in Fds
  BY HandlingType, OwnProcess DEF BooksInv
<1>2. /\ processes'[t][f] = sock
      /\ \A q \in Procs, g \in Fds : q # t \/ g # f => processes'[q][g] = processes[q][g]
  BY <1>1 DEF BooksInv, TypeInv, TypeOK, Record
<1>3. Unshared' /\ NothingLost
  BY DEF PeersInv, Unshared, NothingLost, CostsNothing, Switches
<1>4. \A q \in Procs, g \in Fds : q # t \/ g # f \/ nr # "connect" =>
         (Being(q, g, "connect")' => Being(q, g, "connect"))
  BY ServedBeing
<1>5. ASSUME NEW q \in Procs, NEW g \in Fds, q # t \/ g # f
      PROVE  PeerRight(q, g)'
  BY <1>2, <1>4, <1>5 DEF PeersInv, PeerRight, FileOf
<1>6. PeerRight(t, f)'
  <2> SUFFICES ASSUME Replaceable(sock)
               PROVE  FileOf(t, f)'.peer = None /\ ~Being(t, f, "connect")'
    BY <1>2 DEF PeerRight
  <2>1. nr # "connect" /\ FileOf(t, f)'.peer = None
    BY DEF FileOf
  <2>2. ~Being(t, f, "connect")'
    <3>1. /\ cur \in Request /\ cur # None
          /\ cur.valid => sc[t] # None /\ sc[t].nr = nr
          /\ sc[t] # None => sc[t].st # "resume"
      BY HandlingType DEF BooksInv, TypeInv, ServedIsStopped, Handling, CallsInv,
         ResumedIsNotServed
    <3>2. cur' # None /\ cur'.tid = t /\ cur'.valid = cur.valid
      BY <3>1, Answered
    <3> QED
      BY <1>1, <2>1, <3>1, <3>2 DEF Being, Handled
  <2> QED
    BY <2>1, <2>2
<1> QED
  BY <1>3, <1>5, <1>6 DEF PeersInv

\* What handleReq finds or registers is replaceable only if its socket has no
\* peer, and then it is dispatched.
LEMMA FoundPeers ==
    ASSUME Ordinary, BooksInv, PeersInv, NEW t \in Tids, Alive(t), NEW f \in Fds,
           NEW nr, NEW r \in Found(t, f, nr)
    PROVE  /\ Replaceable(r.sock) => r.go /\ FileOf(t, f).peer = None
           /\ r.go =>
                 /\ r.sock \in Sock /\ fdt[t][f] # None
                 /\ \/ FileOf(t, f).peer = None
                    \/ processes[t][f] # None /\ processes[t][f].state = "Error"
<1> DEFINE known == processes[t][f]
           file == FileOf(t, f)
<1>0. t \in Procs /\ Tgid[t] = t
  BY OwnProcess
<1>1. /\ r.go => r.sock \in Sock
      /\ r.sock # None => fdt[t][f] # None
  BY FoundBooks
<1>2. PICK i \in GetPidFdInfo(t, pidInfos) :
         r \in IF i[t] = None THEN {[infos |-> i, sock |-> known, go |-> FALSE]}
               ELSE IF known = None \/ (known.state = "NotBypassable" /\ nr = "connect")
               THEN {[infos |-> x.infos, sock |-> x.sock,
                      go |-> x.sock # None /\ x.sock.state = "NotBypassed"]
                     : x \in RegisterSocket(t, f, i)}
               ELSE {[infos |-> i, sock |-> known,
                      go |-> known.state \in {"NotBypassed", "Error"}]}
  BY <1>0 DEF Found
<1>3. i[t] # None
  BY CachedInfos, PidInfoBooks DEF BooksInv
<1>4. CASE known = None \/ (known.state = "NotBypassable" /\ nr = "connect")
  <2>1. PICK x \in RegisterSocket(t, f, i) :
           r = [infos |-> x.infos, sock |-> x.sock,
                go |-> x.sock # None /\ x.sock.state = "NotBypassed"]
    BY <1>2, <1>3, <1>4
  <2>2. r.go <=> Replaceable(r.sock)
    BY <2>1 DEF Replaceable
  <2>3. r.sock \in {None, NewSock(file)}
    BY <2>1 DEF RegisterSocket, FileOf
  <2>4. Replaceable(r.sock) => file.peer = None
    <3> HIDE DEF file
    <3> QED
      BY <2>3 DEF Replaceable, NewSock, Classify
  <2> QED
    BY <1>1, <2>2, <2>4, NoneAssumption
<1>5. CASE ~ (known = None \/ (known.state = "NotBypassable" /\ nr = "connect"))
  <2>1. r.sock = known /\ r.go = (known.state \in {"NotBypassed", "Error"}) /\ known # None
    BY <1>2, <1>3, <1>5
  <2>2. Replaceable(known) => file.peer = None
    BY <1>0 DEF PeersInv, PeerRight
  <2> QED
    BY <1>1, <2>1, <2>2 DEF Replaceable
<1> QED
  BY <1>4, <1>5

\* A socket is replaced: it had no peer, and its entry is not replaceable any
\* more.
LEMMA SwitchedPeers ==
    ASSUME Ordinary, BooksInv, PeersInv,
           NEW nr, Handling(nr), NEW resp \in {"continue", "answer"}, Answer(resp),
           NEW t, t = cur.tid, NEW f, f = cur.call.fd,
           FileOf(t, f).peer = None \/ (processes[t][f] # None /\ processes[t][f].state = "Error"),
           NEW made \in Sock, NEW bound \in Addr \cup {None}, CanSwitch(made),
           AddFd(t, f, made, bound),
           NEW sock, sock.state \in {"Bypassed", "Error"}, Record(t, f, sock),
           \A u \in Tids : u # t => sc'[u] = sc[u],
           sc[t] # None => sc'[t].nr = sc[t].nr /\ sc'[t].fd = sc[t].fd /\ sc'[t].st = sc[t].st
    PROVE  PeersInv' /\ NothingLost
<1>0. TypeInv /\ cur.valid /\ Replays(made.socketOptions)
  BY DEF BooksInv, CanSwitch
<1>1. t \in Tids /\ t \in Procs /\ f \in Fds /\ cur \in Request /\ cur # None /\ sc[t] # None
  BY <1>0, HandlingType, OwnProcess DEF BooksInv, TypeInv, ServedIsStopped, Handling
<1>2. /\ fdt'[t][f] \in FreeId
      /\ \A q \in Procs, g \in Fds : q # t \/ g # f =>
            /\ fdt'[q][g] = fdt[q][g]
            /\ fdt[q][g] # None => files'[fdt'[q][g]] = files[fdt[q][g]]
  BY <1>0, <1>1, AddFdType
<1>3. Unshared'
  BY <1>0, <1>1, <1>2, FreshDescriptor DEF PeersInv
<1>4. /\ processes'[t][f] = sock
      /\ \A q \in Procs, g \in Fds : q # t \/ g # f => processes'[q][g] = processes[q][g]
  BY <1>1 DEF BooksInv, TypeInv, TypeOK, Record
<1>5. NothingLost
  BY <1>2 DEF NothingLost, CostsNothing, Switches
<1>6. PeerRight(t, f)'
  BY <1>4 DEF PeerRight, Replaceable
<1>7. ASSUME NEW q \in Procs, NEW g \in Fds, q # t \/ g # f
      PROVE  PeerRight(q, g)'
  <2> SUFFICES ASSUME Replaceable(processes[q][g])
               PROVE  FileOf(q, g)'.peer = None /\ ~Being(q, g, "connect")'
    BY <1>4, <1>7 DEF PeerRight
  <2>1. fdt[q][g] # None /\ FileOf(q, g).peer = None /\ ~Being(q, g, "connect")
    BY DEF Replaceable, BooksInv, RegistryMatchesKernel, PeersInv, PeerRight
  <2>2. ~Being(q, g, "connect")'
    BY <1>0, <1>1, <1>7, <2>1, ServedBeing
  <2> QED
    BY <1>2, <1>7, <2>1, <2>2 DEF FileOf
<1> QED
  BY <1>3, <1>5, <1>6, <1>7 DEF PeersInv

\* A close or an exit_group makes the handler forget entries.
LEMMA ForgottenPeers ==
    ASSUME Ordinary, BooksInv, BooksInv', PeersInv, HandleExit \/ HandleClose
    PROVE  PeersInv' /\ NothingLost
<1>1. /\ Answer("continue") /\ UNCHANGED <<files, fdt, sc>>
      /\ Handling("exit_group") \/ Handling("close")
      /\ cur.tid \in Procs /\ Tgid[cur.tid] = cur.tid
      /\ processes \in [Procs -> [Fds -> Sock \cup {None}]]
  BY ServedThread DEF HandleExit, HandleClose, kernel, calls
<1>2. \A p \in Procs, g \in Fds : processes'[p][g] \in {None, processes[p][g]}
  BY <1>1 DEF HandleExit, HandleClose, Record, NoFds
<1>3. \A p \in Procs, g \in Fds : Being(p, g, "connect")' => Being(p, g, "connect")
  BY <1>1, ServedBeing
<1> QED
  BY <1>1, <1>2, <1>3, QuietPeers DEF FileOf

LEMMA PanicPeers ==
    ASSUME Ordinary, BooksInv', PeersInv, ConfigurePanic
    PROVE  PeersInv' /\ NothingLost
<1>1. /\ UNCHANGED <<files, fdt, sc>> /\ cur' = None
      /\ \A p \in Procs, f \in Fds : processes'[p][f] = None
  BY DEF ConfigurePanic, kernel, calls, NoFds
<1>2. \A p \in Procs, f \in Fds : Being(p, f, "connect")' => Being(p, f, "connect")
  BY <1>1 DEF Being, Handled
<1> QED
  BY <1>1, <1>2, QuietPeers DEF FileOf

\* A request that records what was found, with an option or without.
LEMMA RecordedPeers ==
    ASSUME Ordinary, BooksInv, PeersInv,
           NEW nr, nr # "connect", Handling(nr), NEW resp \in {"continue", "answer"},
           Answer(resp), UNCHANGED <<files, fdt, sc>>,
           NEW r \in Found(cur.tid, cur.call.fd, nr),
           NEW sock, Record(cur.tid, cur.call.fd, sock),
           sock = r.sock \/ (r.go /\ sock.state = r.sock.state)
    PROVE  PeersInv' /\ NothingLost
<1>1. PICK t \in Tids, f \in Fds : t = cur.tid /\ f = cur.call.fd
  BY ServedThread
<1>2. /\ Replaceable(r.sock) => FileOf(t, f).peer = None
      /\ r.go => r.sock \in Sock
  BY <1>1, ServedThread, FoundPeers
<1>3. Replaceable(sock) => FileOf(t, f).peer = None
  BY <1>2, NoneAssumption DEF Replaceable
<1> QED
  BY <1>1, <1>3, InsidePeers

LEMMA SetsockoptPeers ==
    ASSUME Ordinary, BooksInv, PeersInv, HandleSetsockopt
    PROVE  PeersInv' /\ NothingLost
<1>1. Handling("setsockopt") /\ Answer("continue") /\ UNCHANGED <<files, fdt, sc>>
  BY DEF HandleSetsockopt, kernel, calls
<1>2. Tgid[cur.tid] = cur.tid /\ cur.tid \in Tids /\ cur.call.fd \in Fds /\ Alive(cur.tid)
  BY <1>1, ServedThread
<1>3. PICK r \in Found(cur.tid, cur.call.fd, "setsockopt") :
         \/ Record(cur.tid, cur.call.fd, r.sock)
         \/ /\ r.go
            /\ \E m \in MemAccess(cur.tid) : \E o :
                  Record(cur.tid, cur.call.fd, [r.sock EXCEPT !.socketOptions = Append(@, o)])
  BY <1>2 DEF HandleSetsockopt
<1>4. CASE Record(cur.tid, cur.call.fd, r.sock)
  BY <1>1, <1>4, RecordedPeers
<1>5. ASSUME r.go, NEW o,
             Record(cur.tid, cur.call.fd, [r.sock EXCEPT !.socketOptions = Append(@, o)])
      PROVE  PeersInv' /\ NothingLost
  <2> DEFINE sock == [r.sock EXCEPT !.socketOptions = Append(@, o)]
  <2>1. sock.state = r.sock.state /\ Record(cur.tid, cur.call.fd, sock)
    BY <1>2, <1>5, FoundBooks DEF Sock
  <2> HIDE DEF sock
  <2> QED
    BY <1>1, <1>5, <2>1, RecordedPeers
<1> QED
  BY <1>3, <1>4, <1>5

LEMMA FcntlPeers ==
    ASSUME Ordinary, BooksInv, PeersInv, HandleFcntl
    PROVE  PeersInv' /\ NothingLost
<1>1. Handling("fcntl") /\ Answer("continue") /\ UNCHANGED <<files, fdt, sc>>
  BY DEF HandleFcntl, kernel, calls
<1>2. Tgid[cur.tid] = cur.tid /\ cur.tid \in Tids /\ cur.call.fd \in Fds /\ Alive(cur.tid)
  BY <1>1, ServedThread
<1>3. PICK r \in Found(cur.tid, cur.call.fd, "fcntl") :
         \/ Record(cur.tid, cur.call.fd, r.sock)
         \/ r.go /\ \E on : Record(cur.tid, cur.call.fd,
                                 [r.sock EXCEPT !.fcntlOptions = Append(@, on)])
  BY <1>2 DEF HandleFcntl
<1>4. CASE Record(cur.tid, cur.call.fd, r.sock)
  BY <1>1, <1>4, RecordedPeers
<1>5. ASSUME r.go, NEW on,
             Record(cur.tid, cur.call.fd, [r.sock EXCEPT !.fcntlOptions = Append(@, on)])
      PROVE  PeersInv' /\ NothingLost
  <2> DEFINE sock == [r.sock EXCEPT !.fcntlOptions = Append(@, on)]
  <2>1. sock.state = r.sock.state /\ Record(cur.tid, cur.call.fd, sock)
    BY <1>2, <1>5, FoundBooks DEF Sock
  <2> HIDE DEF sock
  <2> QED
    BY <1>1, <1>5, <2>1, RecordedPeers
<1> QED
  BY <1>3, <1>4, <1>5

LEMMA GetpeernamePeers ==
    ASSUME Ordinary, BooksInv, PeersInv, HandleGetpeername
    PROVE  PeersInv' /\ NothingLost
<1>1. Handling("getpeername") /\ UNCHANGED <<files, fdt, sc>>
  BY DEF HandleGetpeername, kernel, calls
<1>2. Tgid[cur.tid] = cur.tid
  BY <1>1, ServedThread
<1>3. PICK r \in Found(cur.tid, cur.call.fd, "getpeername") :
         /\ Record(cur.tid, cur.call.fd, r.sock)
         /\ \E resp \in {"continue", "answer"} : Answer(resp)
  BY <1>2 DEF HandleGetpeername
<1> QED
  BY <1>1, <1>3, RecordedPeers

LEMMA ConnectPeers ==
    ASSUME Ordinary, Attentive, BooksInv, PeersInv, HandleConnect
    PROVE  PeersInv' /\ NothingLost
<1>1. Handling("connect") /\ Answer("continue")
  BY DEF HandleConnect
<1>2. PICK t \in Tids, f \in Fds, dest \in Addr :
         t = cur.tid /\ f = cur.call.fd /\ dest = cur.call.mem
  BY <1>1, ServedThread
<1>3. Tgid[t] = t /\ t \in Procs /\ Alive(t)
  BY <1>1, <1>2, ServedThread
<1>4. PICK r \in Found(t, f, "connect") :
         \/ ~r.go /\ Record(t, f, r.sock) /\ UNCHANGED <<kernel, sc>>
         \/ r.go /\ ConnectTo(t, t, f, r.sock, dest)
  <2>1. \A m \in MemAccess(t) : m.ok
    BY <1>3, MemRead DEF Attentive
  <2> QED
    BY <1>2, <1>3, <2>1 DEF HandleConnect
<1>5. /\ Replaceable(r.sock) => r.go
      /\ r.go => /\ r.sock \in Sock /\ fdt[t][f] # None
                 /\ \/ FileOf(t, f).peer = None
                    \/ processes[t][f] # None /\ processes[t][f].state = "Error"
  BY <1>3, FoundPeers
<1>6. CASE ~r.go /\ Record(t, f, r.sock) /\ UNCHANGED <<kernel, sc>>
  BY <1>1, <1>2, <1>5, <1>6, InsidePeers DEF kernel
<1>7. CASE r.go /\ ConnectTo(t, t, f, r.sock, dest)
  <2> DEFINE made == [r.sock EXCEPT !.addr = dest]
             As(s) == [made EXCEPT !.state = s]
  <2>1. made \in Sock /\ \A s \in State : As(s).state = s
    <3>1. made \in Sock
      BY <1>5, <1>7, SockChanges
    <3> HIDE DEF made
    <3> QED
      BY <3>1 DEF Sock
  <2>2. PICK reply \in Replies(dest) :
           \/ /\ \E s \in {"Error", "NotBypassable"} : Record(t, f, As(s))
              /\ UNCHANGED <<kernel, sc>>
           \/ /\ reply # Invalid
              /\ CanSwitch(made)
              /\ AddFd(t, f, made, None)
              /\ RewriteDestination(t, dest, reply, made, t, f)
    BY <1>7 DEF ConnectTo
  <2> HIDE DEF made
  <2>3. CASE /\ \E s \in {"Error", "NotBypassable"} : Record(t, f, As(s))
             /\ UNCHANGED <<kernel, sc>>
    <3>1. PICK s \in {"Error", "NotBypassable"} : Record(t, f, As(s))
      BY <2>3
    <3>2. ~Replaceable(As(s))
      BY <2>1 DEF Replaceable, State
    <3> HIDE DEF As
    <3> QED
      BY <1>1, <1>2, <2>3, <3>1, <3>2, InsidePeers DEF kernel
  <2>4. CASE /\ reply # Invalid
             /\ CanSwitch(made)
             /\ AddFd(t, f, made, None)
             /\ RewriteDestination(t, dest, reply, made, t, f)
    <3>1. PICK s \in {"Bypassed", "Error"} :
             /\ Record(t, f, As(s))
             /\ \/ sc' = sc
                \/ \E a \in Addr : sc' = [sc EXCEPT ![t].mem = a]
      <4>1. /\ Target(dest, interfaces, reply) \in Addr
            /\ Redirected(dest, interfaces, reply) =>
                  PortRewritten(dest, interfaces, reply) \in Addr
        BY <2>4, TargetType DEF BooksInv, TypeInv, TypeOK
      <4>2. RewritesIP(dest, interfaces, reply) => Redirected(dest, interfaces, reply)
        BY DEF RewritesIP, Redirected
      <4> QED
        BY <2>4, <4>1, <4>2 DEF RewriteDestination
    <3>2. /\ \A u \in Tids : u # t => sc'[u] = sc[u]
          /\ sc[t] # None =>
                sc'[t].nr = sc[t].nr /\ sc'[t].fd = sc[t].fd /\ sc'[t].st = sc[t].st
      <4>1. /\ sc \in [Tids -> Call \cup {None}]
            /\ sc[t] # None /\ sc[t].nr = "connect"
        BY <1>1, <1>2, <2>4, HandlingType
           DEF CanSwitch, BooksInv, TypeInv, TypeOK, ServedIsStopped, Handling
      <4>2. ASSUME NEW a \in Addr, sc' = [sc EXCEPT ![t].mem = a]
            PROVE  /\ \A u \in Tids : u # t => sc'[u] = sc[u]
                   /\ sc'[t].nr = sc[t].nr /\ sc'[t].fd = sc[t].fd /\ sc'[t].st = sc[t].st
        <5> DEFINE c == [sc[t] EXCEPT !.mem = a]
        <5>1. c.nr = sc[t].nr /\ c.fd = sc[t].fd /\ c.st = sc[t].st
          BY <4>1, CallRewritten
        <5>2. sc'[t] = c /\ \A u \in Tids : u # t => sc'[u] = sc[u]
          BY <4>1, <4>2
        <5> QED
          BY <5>1, <5>2
      <4> QED
        BY <3>1, <4>2
    <3>3. As(s).state \in {"Bypassed", "Error"}
      BY <2>1 DEF State
    <3> HIDE DEF As
    <3> QED
      BY <1>1, <1>2, <1>5, <1>7, <2>1, <2>4, <3>1, <3>2, <3>3, SwitchedPeers
  <2> QED
    BY <2>2, <2>3, <2>4
<1> QED
  BY <1>4, <1>6, <1>7

LEMMA BindPeers ==
    ASSUME Ordinary, BooksInv, PeersInv, HandleBind
    PROVE  PeersInv' /\ NothingLost
<1>1. Handling("bind") /\ UNCHANGED sc
  BY DEF HandleBind, calls
<1>2. PICK t \in Tids, f \in Fds, sa \in Addr :
         t = cur.tid /\ f = cur.call.fd /\ sa = cur.call.mem
  BY <1>1, ServedThread
<1>3. Tgid[t] = t /\ t \in Procs /\ Alive(t)
  BY <1>1, <1>2, ServedThread
<1>4. PICK r \in Found(t, f, "bind") :
         \/ ~r.go /\ Record(t, f, r.sock) /\ Answer("continue") /\ UNCHANGED kernel
         \/ /\ r.go
            /\ \/ /\ Record(t, f, [r.sock EXCEPT !.state = "NotBypassable"])
                  /\ Answer("continue") /\ UNCHANGED kernel
               \/ BindTo(t, f, r.sock, sa)
  BY <1>2, <1>3 DEF HandleBind
<1>5. /\ Replaceable(r.sock) => r.go
      /\ r.go => /\ r.sock \in Sock /\ fdt[t][f] # None
                 /\ \/ FileOf(t, f).peer = None
                    \/ processes[t][f] # None /\ processes[t][f].state = "Error"
  BY <1>3, FoundPeers
<1>6. CASE ~r.go /\ Record(t, f, r.sock) /\ Answer("continue") /\ UNCHANGED kernel
  BY <1>1, <1>2, <1>5, <1>6, InsidePeers DEF kernel
<1>7. ASSUME NEW made \in Sock, Record(t, f, [made EXCEPT !.state = "NotBypassable"]),
             Answer("continue"), UNCHANGED kernel
      PROVE  PeersInv' /\ NothingLost
  <2>1. ~Replaceable([made EXCEPT !.state = "NotBypassable"])
    BY DEF Replaceable, Sock
  <2> QED
    BY <1>1, <1>2, <1>7, <2>1, InsidePeers DEF kernel
<1>8. CASE r.go /\ BindTo(t, f, r.sock, sa)
  <2> DEFINE made == [r.sock EXCEPT !.addr = sa]
  <2>1. made \in Sock
    BY <1>5, <1>8, SockChanges
  <2>2. \/ /\ Record(t, f, [made EXCEPT !.state = "NotBypassable"])
           /\ Answer("continue") /\ UNCHANGED kernel
        \/ /\ sa.port \in DOMAIN ForwardingPorts /\ CanSwitch(made)
           /\ AddFd(t, f, made, HostAddr(sa))
           /\ Record(t, f, [made EXCEPT !.state = "Bypassed"])
           /\ Answer("answer")
    BY <1>8 DEF BindTo
  <2>3. sa.port \in DOMAIN ForwardingPorts => HostAddr(sa) \in Addr
    BY RoutingAssumption DEF HostAddr, Addr
  <2> HIDE DEF made
  <2>4. CASE /\ sa.port \in DOMAIN ForwardingPorts /\ CanSwitch(made)
             /\ AddFd(t, f, made, HostAddr(sa))
             /\ Record(t, f, [made EXCEPT !.state = "Bypassed"])
             /\ Answer("answer")
    <3> DEFINE sock == [made EXCEPT !.state = "Bypassed"]
    <3>1. sock.state \in {"Bypassed", "Error"} /\ Record(t, f, sock)
      BY <2>1, <2>4 DEF Sock
    <3> HIDE DEF sock
    <3> QED
      BY <1>1, <1>2, <1>5, <1>8, <2>1, <2>3, <2>4, <3>1, SwitchedPeers
  <2> QED
    BY <1>7, <2>1, <2>2, <2>4
<1> QED
  BY <1>4, <1>5, <1>6, <1>7, <1>8

-----------------------------------------------------------------------------

LEMMA PeersInit ==
    ASSUME Init
    PROVE  PeersInv
BY DEF Init, PeersInv, Unshared, PeerRight, Replaceable, NoFds

LEMMA PeersStep ==
    ASSUME Ordinary, Attentive, BooksInv, BooksInv', PeersInv, [Next]_vars
    PROVE  PeersInv' /\ NothingLost
<1>1. CASE HandlerStep
  BY <1>1, LoopPeers, ForgottenPeers, SetsockoptPeers, FcntlPeers, ConnectPeers, BindPeers,
     GetpeernamePeers, PanicPeers DEF HandlerStep
<1>2. CASE AppStep
  <2>1. /\ \A p \in Procs : ~Kill(p)
        /\ \A t \in Tids : ~Execve(t)
        /\ \A t \in Tids, f \in Fds : ~CloseUnseen(t, f)
    BY DEF Kill, Execve, CloseUnseen, Ordinary, NothingUnseen
  <2> QED
    BY <1>2, <2>1, SpawnPeers, NewFdPeers, TrapPeers, InterruptPeers DEF AppStep
<1>3. CASE \E t \in Tids : KernelStep(t)
  BY <1>3, KernelPeers
<1>4. CASE RefreshInterfaces \/ RefreshDynamicList \/ UNCHANGED vars
  <2>1. UNCHANGED <<files, fdt, sc, processes, cur>>
    BY <1>4 DEF RefreshInterfaces, RefreshDynamicList, vars, kernel, calls, handler
  <2> QED
    BY <2>1, QuietPeers DEF FileOf, Being, Handled
<1> QED
  BY <1>1, <1>2, <1>3, <1>4 DEF Next

\* The container does not lose a connection to the handler: a descriptor whose
\* socket has a peer keeps that socket, whichever calls fail and whatever
\* signals interrupt, unless an earlier failure left its entry in Error
\* (registerSocket, handleSysConnect, handleSysBind).
THEOREM ConnectionsKept ==
    ASSUME Ordinary, Attentive
    PROVE  Safety => ConnectionsSurvive
<1>1. Init => PeersInv
  BY PeersInit
<1>2. BooksInv /\ BooksInv' /\ PeersInv /\ [Next]_vars => PeersInv'
  BY PeersStep
<1>3. BooksInv /\ BooksInv' /\ PeersInv /\ [Next]_vars =>
         [\A p \in Procs, f \in Fds :
             Switches(p, f) =>
                 \/ files[fdt[p][f]].peer = None
                 \/ processes[p][f] # None /\ processes[p][f].state = "Error"]_vars
  BY PeersStep DEF NothingLost, CostsNothing, FileOf
<1>4. Safety => []BooksInv
  BY BooksInvariant
<1> QED
  BY <1>1, <1>2, <1>3, <1>4, PTL DEF Safety, ConnectionsSurvive
=============================================================================
