------------------------- MODULE SocketSwitchProofs -------------------------
(***************************************************************************)
(* Theorems about SocketSwitch for every value of its constants.           *)
(***************************************************************************)
EXTENDS SocketSwitch, TLAPS

-----------------------------------------------------------------------------
(* The records *)

\* What a stopped call may carry depends on which call it is.
LEMMA CallFields ==
    ASSUME NEW c \in Call
    PROVE  /\ c.nr \in Nr /\ c.fd \in Fds /\ c.st \in {"queued", "received", "resume"}
           /\ c.nr \in {"connect", "bind"} => c.arg \in Addr /\ c.mem \in Addr
           /\ c.nr \notin {"connect", "bind"} => c.mem = None
           /\ c.nr = "setsockopt" => c.arg \in Opts
           /\ c.nr = "fcntl" => c.arg \in FcntlArg
BY DEF Call, CallWith, Nr

\* A call stays one when it moves on.
LEMMA CallMoves ==
    ASSUME NEW c \in Call, NEW st \in {"queued", "received", "resume"}
    PROVE  /\ [c EXCEPT !.st = st] \in Call
           /\ [c EXCEPT !.st = st].st = st
           /\ [c EXCEPT !.st = st].nr = c.nr
           /\ [c EXCEPT !.st = st].fd = c.fd
           /\ [c EXCEPT !.st = st].arg = c.arg
           /\ [c EXCEPT !.st = st].mem = c.mem
BY DEF Call, CallWith

\* Rewriting the destination of a connect leaves it a connect.
LEMMA CallRewritten ==
    ASSUME NEW c \in Call, c.nr = "connect", NEW a \in Addr
    PROVE  /\ [c EXCEPT !.mem = a] \in Call
           /\ [c EXCEPT !.mem = a].st = c.st
           /\ [c EXCEPT !.mem = a].nr = c.nr
           /\ [c EXCEPT !.mem = a].fd = c.fd
           /\ [c EXCEPT !.mem = a].arg = c.arg
           /\ [c EXCEPT !.mem = a].mem = a
BY DEF Call, CallWith

\* The fields of the request being served.
LEMMA RequestFields ==
    ASSUME NEW r \in Request
    PROVE  /\ r.tid \in Tids /\ r.call \in Call /\ r.valid \in BOOLEAN
           /\ r # None
           /\ [r EXCEPT !.valid = FALSE] \in Request
           /\ [r EXCEPT !.valid = FALSE].valid = FALSE
           /\ [r EXCEPT !.valid = FALSE].tid = r.tid
           /\ [r EXCEPT !.valid = FALSE].call = r.call
           /\ [r EXCEPT !.valid = FALSE].resp = r.resp
           /\ \A resp \in {"none", "continue", "answer"} :
                 /\ [r EXCEPT !.resp = resp] \in Request
                 /\ [r EXCEPT !.resp = resp].valid = r.valid
                 /\ [r EXCEPT !.resp = resp].tid = r.tid
                 /\ [r EXCEPT !.resp = resp].call = r.call
                 /\ [r EXCEPT !.resp = resp].resp = resp
BY NoneAssumption DEF Request

\* A new file, and a file after what the kernel does to one.
LEMMA FileFields ==
    ASSUME NEW ns \in {"container", "host"}, NEW k \in Kinds, NEW on \in BOOLEAN
    PROVE  NewFile(ns, k, on) \in File
BY DEF NewFile, File

LEMMA FileChanges ==
    ASSUME NEW file \in File
    PROVE  /\ \A peer \in Peer : [file EXCEPT !.peer = peer] \in File
           /\ \A a \in Addr : [file EXCEPT !.bound = a] \in File
           /\ \A o \in Opts : [file EXCEPT !.opts = Append(@, o)] \in File
           /\ \A on \in BOOLEAN : [file EXCEPT !.nonblock = on] \in File
BY DEF File

\* A new entry, and an entry after what the handler does to one.
LEMMA SockFields ==
    ASSUME NEW file \in File
    PROVE  NewSock(file) \in Sock /\ NewSock(file).state # "Bypassed"
BY DEF File, Sock, NewSock, Classify, State, HasBit

LEMMA SockChanges ==
    ASSUME NEW sock \in Sock
    PROVE  /\ \A s \in State : [sock EXCEPT !.state = s] \in Sock
           /\ \A a \in Addr : [sock EXCEPT !.addr = a] \in Sock
           /\ \A o \in Opts \cup {None} :
                 [sock EXCEPT !.socketOptions = Append(@, o)] \in Sock
           /\ \A on \in BOOLEAN : [sock EXCEPT !.fcntlOptions = Append(@, on)] \in Sock
<1>1. \A o \in Opts \cup {None} :
          [sock EXCEPT !.socketOptions = Append(@, o)] \in Sock
  <2>1. TAKE o \in Opts \cup {None}
  <2> DEFINE Values == Opts \cup {None}
  <2>2. sock.socketOptions \in Seq(Values)
    BY DEF Sock
  <2>3. \A s \in Seq(Values) : Append(s, o) \in Seq(Values)
    <3> HIDE DEF Values
    <3>1. o \in Values
      BY DEF Values
    <3> QED
      BY <3>1
  <2> QED
    BY <2>2, <2>3 DEF Sock
<1>2. \A on \in BOOLEAN : [sock EXCEPT !.fcntlOptions = Append(@, on)] \in Sock
  <2>1. sock.fcntlOptions \in Seq(BOOLEAN)
    BY DEF Sock
  <2>2. \A s \in Seq(BOOLEAN), on \in BOOLEAN : Append(s, on) \in Seq(BOOLEAN)
    OBVIOUS
  <2> QED
    BY <2>1, <2>2 DEF Sock
<1> QED
  BY <1>1, <1>2 DEF Sock

\* Options that can be replayed make a well-formed host socket.
LEMMA HostFileType ==
    ASSUME NEW sock \in Sock, NEW bound \in Addr \cup {None},
           Replays(sock.socketOptions)
    PROVE  HostFile(sock, bound) \in File /\ HostFile(sock, bound).ns = "host"
<1>1. sock.socketOptions \in Seq(Opts)
  BY DEF Sock, Replays
<1>2. sock.fcntlOptions = <<>> \/ sock.fcntlOptions[Len(sock.fcntlOptions)] \in BOOLEAN
  BY DEF Sock
<1> QED
  BY <1>1, <1>2 DEF Sock, HostFile, NewFile, File

-----------------------------------------------------------------------------
(* The routing decision *)

\* Whatever the configuration, a rewritten destination is an address.
LEMMA TargetType ==
    ASSUME NEW dest \in Addr, NEW ifs \in Interfaces,
           NEW reply \in Replies(dest), reply # Invalid
    PROVE  /\ Target(dest, ifs, reply) \in Addr
           /\ Redirected(dest, ifs, reply) => PortRewritten(dest, ifs, reply) \in Addr
<1>1. OtherHost(dest, ifs, reply) \in Addr \cup {None}
  BY RoutingAssumption DEF OtherHost, Replies, Interfaces, Interface, Addr
<1>2. Redirected(dest, ifs, reply) /\ OtherHost(dest, ifs, reply) = None
         => dest.port \in DOMAIN ForwardingPorts
  BY DEF Redirected, ToLoopback, ToInterface, Published
<1>3. \A port \in DOMAIN ForwardingPorts : ForwardingPorts[port] \in Ports
  BY RoutingAssumption
<1>4. Redirected(dest, ifs, reply) => PortRewritten(dest, ifs, reply) \in Addr
  BY <1>1, <1>2, <1>3 DEF PortRewritten, Addr
<1> QED
  BY <1>1, <1>4, RoutingAssumption DEF Target, RewritesIP, Redirected, Addr

-----------------------------------------------------------------------------
(* The inductive invariant behind type correctness *)

\* A descriptor refers to a file that exists.
NoDangling ==
    \A p \in Procs, f \in Fds : fdt[p][f] # None => files[fdt[p][f]] # None

\* A valid notification is of a thread that is still stopped in that call.
ServedIsStopped ==
    cur # None /\ cur.valid =>
        /\ sc[cur.tid] # None
        /\ sc[cur.tid].st = "received"
        /\ sc[cur.tid].nr = cur.call.nr
        /\ sc[cur.tid].fd = cur.call.fd

TypeInv == TypeOK /\ NoDangling /\ ServedIsStopped

\* Keeping the referenced files keeps every descriptor's file.
LEMMA KeepLiveType ==
    ASSUME NEW fs \in [FileIds -> File \cup {None}],
           NEW table \in [Procs -> [Fds -> FileIds \cup {None}]]
    PROVE  /\ KeepLive(fs, table) \in [FileIds -> File \cup {None}]
           /\ \A p \in Procs, f \in Fds : table[p][f] # None =>
                 /\ table[p][f] \in FileIds
                 /\ KeepLive(fs, table)[table[p][f]] = fs[table[p][f]]
BY DEF KeepLive, Referenced

\* Calls that end take their threads out of the queue and spoil the request.
LEMMA AbandonType ==
    ASSUME TypeInv, NEW ts \in SUBSET Tids, Abandon(ts)
    PROVE  /\ sc' \in [Tids -> Call \cup {None}]
           /\ ahead' \in [Tids -> SUBSET Tids]
           /\ cur' \in Request \cup {None}
           /\ ServedIsStopped'
<1>1. sc' \in [Tids -> Call \cup {None}] /\ ahead' \in [Tids -> SUBSET Tids]
  BY DEF TypeInv, TypeOK, Abandon
<1>2. CASE cur = None
  BY <1>1, <1>2 DEF Abandon, ServedIsStopped
<1>3. CASE cur # None /\ cur.tid \in ts
  <2>1. cur \in Request
    BY <1>3 DEF TypeInv, TypeOK
  <2> QED
    BY <1>1, <1>3, <2>1, RequestFields DEF Abandon, ServedIsStopped
<1>4. CASE cur # None /\ cur.tid \notin ts
  <2>1. cur \in Request /\ cur.tid \in Tids /\ cur' = cur
    BY <1>4, RequestFields DEF TypeInv, TypeOK, Abandon
  <2>2. sc'[cur.tid] = sc[cur.tid]
    BY <1>4, <2>1 DEF Abandon
  <2> QED
    BY <1>1, <2>1, <2>2 DEF ServedIsStopped, TypeInv
<1> QED
  BY <1>2, <1>3, <1>4

\* A process that ends leaves nothing dangling.
LEMMA DiesType ==
    ASSUME TypeInv, NEW p \in Procs, Dies(p)
    PROVE  TypeInv'
<1>1. fdt' \in [Procs -> [Fds -> FileIds \cup {None}]]
  BY DEF TypeInv, TypeOK, Dies, NoFds
<1>2. /\ files' \in [FileIds -> File \cup {None}]
      /\ \A q \in Procs, f \in Fds : fdt'[q][f] # None => files'[fdt'[q][f]] = files[fdt'[q][f]]
  <2>1. files \in [FileIds -> File \cup {None}] /\ files' = KeepLive(files, fdt')
    BY DEF TypeInv, TypeOK, Dies
  <2> QED
    BY <1>1, <2>1, KeepLiveType
<1>3. \A q \in Procs, f \in Fds : fdt'[q][f] # None => fdt'[q][f] = fdt[q][f]
  BY <1>1 DEF TypeInv, TypeOK, Dies, NoFds
<1>4. NoDangling'
  BY <1>2, <1>3 DEF TypeInv, NoDangling
<1>5. Threads(p) \in SUBSET Tids
  BY DEF Threads
<1>6. /\ sc' \in [Tids -> Call \cup {None}]
      /\ ahead' \in [Tids -> SUBSET Tids]
      /\ cur' \in Request \cup {None}
      /\ ServedIsStopped'
  BY <1>5, AbandonType DEF Dies
<1>7. cloexec' \in [Procs -> [Fds -> BOOLEAN]] /\ life' \in [Procs -> Nat]
  BY DEF TypeInv, TypeOK, Dies, NoFlags
<1>8. TypeOK'
  BY <1>1, <1>2, <1>6, <1>7 DEF TypeInv, TypeOK, Dies, env
<1> QED
  BY <1>4, <1>6, <1>8 DEF TypeInv

LEMMA SpawnType ==
    ASSUME TypeInv, NEW q \in Procs, Spawn(q)
    PROVE  TypeInv'
<1>1. PICK p \in {x \in Procs : Alive(x)} \cup {None} :
         /\ fdt' = [fdt EXCEPT ![q] = IF p = None THEN NoFds ELSE fdt[p]]
         /\ cloexec' = [cloexec EXCEPT ![q] = IF p = None THEN NoFlags ELSE cloexec[p]]
  BY DEF Spawn
<1>2. /\ fdt' \in [Procs -> [Fds -> FileIds \cup {None}]]
      /\ cloexec' \in [Procs -> [Fds -> BOOLEAN]]
  BY <1>1 DEF TypeInv, TypeOK, NoFds, NoFlags
<1>3. mm' \in [Procs -> Nat] /\ life' \in [Procs -> Nat]
  BY DEF TypeInv, TypeOK, Spawn
<1>4. TypeOK'
  BY <1>2, <1>3 DEF TypeInv, TypeOK, Spawn, calls, handler, env
<1>5. NoDangling'
  BY <1>1 DEF TypeInv, TypeOK, NoDangling, NoFds, Spawn
<1> QED
  BY <1>4, <1>5 DEF TypeInv, ServedIsStopped, Spawn, calls, handler

LEMMA NewFdType ==
    ASSUME TypeInv, NEW t \in Tids, NEW f \in Fds, NewFd(t, f)
    PROVE  TypeInv'
<1> DEFINE p == Tgid[t]
<1>0. p \in Procs
  BY SocketAssumption
<1>1. PICK id \in FreeId, flags \in SocketFlags :
        /\ \/ \E k \in Kinds :
                files' = [files EXCEPT ![id] = NewFile("container", k, flags.nonblock)]
           \/ \E g \in Fds :
                /\ fdt[p][g] # None
                /\ files[fdt[p][g]].bound # None
                /\ files' = [files EXCEPT ![id] =
                      [NewFile(files[fdt[p][g]].ns, files[fdt[p][g]].kind, flags.nonblock)
                          EXCEPT !.peer = [to |-> None, asked |-> None]]]
        /\ fdt' = [fdt EXCEPT ![p][f] = id]
        /\ cloexec' = [cloexec EXCEPT ![p][f] = flags.cloexec]
  BY DEF NewFd
<1>2. id \in FileIds /\ files[id] = None /\ flags.nonblock \in BOOLEAN /\ flags.cloexec \in BOOLEAN
  BY SocketAssumption DEF FreeId
<1>3. PICK file \in File : files' = [files EXCEPT ![id] = file]
  <2>1. CASE \E k \in Kinds :
                files' = [files EXCEPT ![id] = NewFile("container", k, flags.nonblock)]
    BY <1>2, <2>1, FileFields
  <2>2. ASSUME NEW g \in Fds, fdt[p][g] # None,
               files' = [files EXCEPT ![id] =
                      [NewFile(files[fdt[p][g]].ns, files[fdt[p][g]].kind, flags.nonblock)
                          EXCEPT !.peer = [to |-> None, asked |-> None]]]
        PROVE  \E file \in File : files' = [files EXCEPT ![id] = file]
    <3> DEFINE listener == files[fdt[p][g]]
    <3>1. listener \in File
      BY <1>0, <2>2 DEF TypeInv, TypeOK, NoDangling
    <3>2. NewFile(listener.ns, listener.kind, flags.nonblock) \in File
      <4>1. listener.ns \in {"container", "host"} /\ listener.kind \in Kinds
        BY <3>1 DEF File
      <4> QED
        BY <1>2, <4>1, FileFields
    <3>3. [to |-> None, asked |-> None] \in Peer
      BY DEF Peer
    <3> QED
      BY <2>2, <3>2, <3>3, FileChanges
  <2> QED
    BY <1>1, <2>1, <2>2
<1>4. file # None
  BY NoneAssumption
<1>5. /\ files' \in [FileIds -> File \cup {None}]
      /\ fdt' \in [Procs -> [Fds -> FileIds \cup {None}]]
      /\ cloexec' \in [Procs -> [Fds -> BOOLEAN]]
  BY <1>0, <1>1, <1>2, <1>3 DEF TypeInv, TypeOK
<1>6. NoDangling'
  <2>1. SUFFICES ASSUME NEW q \in Procs, NEW g \in Fds, fdt'[q][g] # None
                 PROVE  files'[fdt'[q][g]] # None
    BY DEF NoDangling
  <2>2. fdt'[q][g] = id \/ fdt'[q][g] = fdt[q][g]
    BY <1>0, <1>1 DEF TypeInv, TypeOK
  <2>3. fdt'[q][g] # id => files'[fdt'[q][g]] = files[fdt'[q][g]] /\ fdt'[q][g] = fdt[q][g]
    BY <1>3, <2>1, <2>2 DEF TypeInv, TypeOK
  <2>4. files'[id] = file
    BY <1>2, <1>3 DEF TypeInv, TypeOK
  <2> QED
    BY <1>4, <2>1, <2>3, <2>4 DEF TypeInv, NoDangling
<1> QED
  BY <1>5, <1>6 DEF TypeInv, TypeOK, ServedIsStopped, NewFd, calls, handler, env

LEMMA CloseUnseenType ==
    ASSUME TypeInv, NEW t \in Tids, NEW f \in Fds, CloseUnseen(t, f)
    PROVE  TypeInv'
<1>0. Tgid[t] \in Procs
  BY SocketAssumption
<1>1. /\ fdt' \in [Procs -> [Fds -> FileIds \cup {None}]]
      /\ cloexec' \in [Procs -> [Fds -> BOOLEAN]]
  BY <1>0 DEF TypeInv, TypeOK, CloseUnseen
<1>2. /\ files' \in [FileIds -> File \cup {None}]
      /\ \A q \in Procs, g \in Fds : fdt'[q][g] # None => files'[fdt'[q][g]] = files[fdt'[q][g]]
  <2>1. files \in [FileIds -> File \cup {None}] /\ files' = KeepLive(files, fdt')
    BY DEF TypeInv, TypeOK, CloseUnseen
  <2> QED
    BY <1>1, <2>1, KeepLiveType
<1>3. \A q \in Procs, g \in Fds : fdt'[q][g] # None => fdt'[q][g] = fdt[q][g]
  BY <1>0, <1>1 DEF TypeInv, TypeOK, CloseUnseen
<1>4. NoDangling'
  BY <1>2, <1>3 DEF TypeInv, NoDangling
<1> QED
  BY <1>1, <1>2, <1>4 DEF TypeInv, TypeOK, ServedIsStopped, CloseUnseen, calls, handler, env

LEMMA ExecveType ==
    ASSUME TypeInv, NEW t \in Tids, Execve(t)
    PROVE  TypeInv'
<1>0. Tgid[t] \in Procs /\ Threads(Tgid[t]) \in SUBSET Tids
  BY SocketAssumption DEF Threads
<1>1. /\ fdt' \in [Procs -> [Fds -> FileIds \cup {None}]]
      /\ cloexec' \in [Procs -> [Fds -> BOOLEAN]]
      /\ mm' \in [Procs -> Nat]
  BY <1>0 DEF TypeInv, TypeOK, Execve, NoFlags
<1>2. /\ files' \in [FileIds -> File \cup {None}]
      /\ \A q \in Procs, g \in Fds : fdt'[q][g] # None => files'[fdt'[q][g]] = files[fdt'[q][g]]
  <2>1. files \in [FileIds -> File \cup {None}] /\ files' = KeepLive(files, fdt')
    BY DEF TypeInv, TypeOK, Execve
  <2> QED
    BY <1>1, <2>1, KeepLiveType
<1>3. \A q \in Procs, g \in Fds : fdt'[q][g] # None => fdt'[q][g] = fdt[q][g]
  BY <1>0, <1>1 DEF TypeInv, TypeOK, Execve
<1>4. NoDangling'
  BY <1>2, <1>3 DEF TypeInv, NoDangling
<1>5. /\ sc' \in [Tids -> Call \cup {None}]
      /\ ahead' \in [Tids -> SUBSET Tids]
      /\ cur' \in Request \cup {None}
      /\ ServedIsStopped'
  BY <1>0, AbandonType DEF Execve
<1> QED
  BY <1>1, <1>2, <1>4, <1>5 DEF TypeInv, TypeOK, Execve, env

LEMMA TrapType ==
    ASSUME TypeInv, NEW t \in Tids, NEW nr \in Nr, NEW f \in Fds, Trap(t, nr, f)
    PROVE  TypeInv'
<1>1. PICK arg \in Args(nr) :
         sc' = [sc EXCEPT ![t] =
            [nr |-> nr, fd |-> f, arg |-> arg,
             mem |-> IF nr \in {"connect", "bind"} THEN arg ELSE None, st |-> "queued"]]
  BY DEF Trap
<1>2. [nr |-> nr, fd |-> f, arg |-> arg,
       mem |-> IF nr \in {"connect", "bind"} THEN arg ELSE None, st |-> "queued"] \in Call
  <2>1. CASE nr \in {"connect", "bind"}
    <3>1. arg \in Addr
      BY <2>1, SocketAssumption DEF Args
    <3> QED
      BY <2>1, <3>1 DEF Call, CallWith
  <2>2. CASE nr = "setsockopt"
    BY <2>2 DEF Args, Call, CallWith
  <2>3. CASE nr = "fcntl"
    BY <2>3, SocketAssumption DEF Args, Call, CallWith
  <2>4. CASE nr \in {"close", "getpeername", "exit_group"}
    BY <2>4 DEF Args, Call, CallWith
  <2> QED
    BY <2>1, <2>2, <2>3, <2>4 DEF Nr
<1>3. sc' \in [Tids -> Call \cup {None}] /\ ahead' \in [Tids -> SUBSET Tids]
  BY <1>1, <1>2 DEF TypeInv, TypeOK, Trap, Waiting
<1>4. ServedIsStopped'
  <2>1. sc[t] = None /\ cur' = cur
    BY DEF Trap, Running, handler
  <2>2. cur # None /\ cur.valid => sc'[cur.tid] = sc[cur.tid]
    BY <1>1, <2>1, RequestFields DEF TypeInv, TypeOK, ServedIsStopped
  <2> QED
    BY <2>1, <2>2 DEF TypeInv, ServedIsStopped
<1> QED
  BY <1>3, <1>4 DEF TypeInv, TypeOK, NoDangling, Trap, kernel, handler, env

LEMMA InterruptType ==
    ASSUME TypeInv, NEW t \in Tids, Interrupt(t)
    PROVE  TypeInv'
<1>1. /\ sc' \in [Tids -> Call \cup {None}]
      /\ ahead' \in [Tids -> SUBSET Tids]
      /\ cur' \in Request \cup {None}
      /\ ServedIsStopped'
  <2>1. CASE Abandon({t})
    BY <2>1, AbandonType
  <2>2. CASE /\ sc' = [sc EXCEPT ![t].st = "queued"]
             /\ ahead' = [u \in Tids |-> IF u = t THEN Waiting \ {t} ELSE ahead[u] \ {t}]
             /\ cur' = IF cur # None /\ cur.tid = t THEN [cur EXCEPT !.valid = FALSE] ELSE cur
    <3>1. sc[t] \in Call
      BY DEF Interrupt, TypeInv, TypeOK
    <3>2. sc' \in [Tids -> Call \cup {None}]
      BY <2>2, <3>1, CallMoves DEF TypeInv, TypeOK
    <3>3. ahead' \in [Tids -> SUBSET Tids]
      BY <2>2 DEF TypeInv, TypeOK, Waiting
    <3>4. cur' \in Request \cup {None}
      BY <2>2, RequestFields DEF TypeInv, TypeOK
    <3>5. ServedIsStopped'
      <4>1. CASE cur = None
        BY <2>2, <4>1 DEF ServedIsStopped
      <4>2. CASE cur # None /\ cur.tid = t
        BY <2>2, <4>2, RequestFields DEF TypeInv, TypeOK, ServedIsStopped
      <4>3. CASE cur # None /\ cur.tid # t
        <5>1. cur' = cur /\ sc'[cur.tid] = sc[cur.tid]
          BY <2>2, <4>3, RequestFields DEF TypeInv, TypeOK
        <5> QED
          BY <5>1 DEF TypeInv, ServedIsStopped
      <4> QED
        BY <4>1, <4>2, <4>3
    <3> QED
      BY <3>2, <3>3, <3>4, <3>5
  <2> QED
    BY <2>1, <2>2 DEF Interrupt
<1>2. signals' \in Nat
  BY DEF Interrupt, TypeInv, TypeOK
<1> QED
  BY <1>1, <1>2 DEF TypeInv, TypeOK, NoDangling, Interrupt, kernel, env

\* A resumed thread is not the one being served, so its return spoils nothing.
LEMMA ReturnType ==
    ASSUME TypeInv, NEW t \in Tids, NEW nr, Resumed(t, nr), Return(t)
    PROVE  sc' \in [Tids -> Call \cup {None}] /\ ServedIsStopped'
<1>1. sc' \in [Tids -> Call \cup {None}]
  BY DEF TypeInv, TypeOK, Return
<1>2. CASE cur # None /\ cur.valid
  <2>1. cur.tid # t
    BY <1>2 DEF TypeInv, ServedIsStopped, Resumed
  <2>2. sc'[cur.tid] = sc[cur.tid] /\ cur' = cur
    BY <1>2, <2>1, RequestFields DEF TypeInv, TypeOK, Return, handler
  <2> QED
    BY <1>1, <2>2 DEF TypeInv, ServedIsStopped
<1>3. CASE ~ (cur # None /\ cur.valid)
  BY <1>1, <1>3 DEF ServedIsStopped, Return, handler
<1> QED
  BY <1>1, <1>2, <1>3

\* The kernel changes one file and returns.
LEMMA OneFileType ==
    ASSUME TypeInv, NEW t \in Tids, NEW nr, Resumed(t, nr), Return(t),
           UNCHANGED <<fdt, life, mm>>, cloexec' \in [Procs -> [Fds -> BOOLEAN]],
           \/ UNCHANGED files
           \/ \E id \in FileIds, file \in File : files' = [files EXCEPT ![id] = file]
    PROVE  TypeInv'
<1>1. files' \in [FileIds -> File \cup {None}]
  BY DEF TypeInv, TypeOK
<1>2. \A i \in FileIds : files[i] # None => files'[i] # None
  BY NoneAssumption DEF TypeInv, TypeOK
<1>3. NoDangling'
  BY <1>2 DEF TypeInv, TypeOK, NoDangling
<1> QED
  BY <1>1, <1>3, ReturnType DEF TypeInv, TypeOK, Return, handler, env

\* The file a stopped thread's call is about.
LEMMA CalledFileType ==
    ASSUME TypeInv, NEW t \in Tids, sc[t] # None
    PROVE  /\ sc[t] \in Call /\ sc[t].fd \in Fds /\ Tgid[t] \in Procs
           /\ CalledFile(t) # None => CalledFile(t) \in FileIds /\ files[CalledFile(t)] \in File
<1>1. sc[t] \in Call /\ sc[t].fd \in Fds /\ Tgid[t] \in Procs
  BY SocketAssumption, CallFields DEF TypeInv, TypeOK
<1> QED
  BY <1>1 DEF TypeInv, TypeOK, NoDangling, CalledFile

LEMMA ResumeType ==
    ASSUME TypeInv, NEW t \in Tids, Resume(t)
    PROVE  TypeInv'
<1> DEFINE id == CalledFile(t)
<1>0. sc[t] # None
  BY DEF Resume, ResumeConnect, ResumeBind, ResumeSetsockopt, ResumeFcntl, ResumeClose,
         ResumeGetpeername, ResumeExit, Resumed
<1>a. cloexec \in [Procs -> [Fds -> BOOLEAN]]
  BY DEF TypeInv, TypeOK
<1>1. CASE ResumeConnect(t)
  <2>1. id # None => [to |-> sc[t].mem, asked |-> sc[t].arg] \in Peer
    BY <1>0, <1>1, CalledFileType, CallFields DEF ResumeConnect, Resumed, Peer
  <2>2. id # None => [files[id] EXCEPT !.peer = [to |-> sc[t].mem, asked |-> sc[t].arg]] \in File
    BY <1>0, <2>1, CalledFileType, FileChanges
  <2>3. \/ UNCHANGED files
        \/ \E i \in FileIds, file \in File : files' = [files EXCEPT ![i] = file]
    BY <1>0, <1>1, <2>2, CalledFileType DEF ResumeConnect
  <2> QED
    BY <1>1, <1>a, <2>3, OneFileType DEF ResumeConnect
<1>2. CASE ResumeBind(t)
  <2>1. id # None => [files[id] EXCEPT !.bound = sc[t].mem] \in File
    BY <1>0, <1>2, CalledFileType, CallFields, FileChanges DEF ResumeBind, Resumed
  <2>2. \/ UNCHANGED files
        \/ \E i \in FileIds, file \in File : files' = [files EXCEPT ![i] = file]
    BY <1>0, <1>2, <2>1, CalledFileType DEF ResumeBind
  <2> QED
    BY <1>2, <1>a, <2>2, OneFileType DEF ResumeBind
<1>3. CASE ResumeSetsockopt(t)
  <2>1. id # None => [files[id] EXCEPT !.opts = Append(@, sc[t].arg)] \in File
    BY <1>0, <1>3, CalledFileType, CallFields, FileChanges DEF ResumeSetsockopt, Resumed
  <2>2. \/ UNCHANGED files
        \/ \E i \in FileIds, file \in File : files' = [files EXCEPT ![i] = file]
    BY <1>0, <1>3, <2>1, CalledFileType DEF ResumeSetsockopt
  <2> QED
    BY <1>3, <1>a, <2>2, OneFileType DEF ResumeSetsockopt
<1>4. CASE ResumeFcntl(t)
  <2>0. sc[t].arg.on \in BOOLEAN
    BY <1>0, <1>4, CalledFileType, CallFields DEF ResumeFcntl, Resumed, FcntlArg
  <2>1. id # None => [files[id] EXCEPT !.nonblock = sc[t].arg.on] \in File
    BY <1>0, <2>0, CalledFileType, FileChanges
  <2>2. \/ UNCHANGED files
        \/ \E i \in FileIds, file \in File : files' = [files EXCEPT ![i] = file]
    BY <1>0, <1>4, <2>1, CalledFileType DEF ResumeFcntl
  <2>3. cloexec' \in [Procs -> [Fds -> BOOLEAN]]
    BY <1>0, <1>4, <1>a, <2>0, CalledFileType DEF ResumeFcntl
  <2> QED
    BY <1>4, <2>2, <2>3, OneFileType DEF ResumeFcntl
<1>5. CASE ResumeClose(t)
  <2>1. /\ fdt' \in [Procs -> [Fds -> FileIds \cup {None}]]
        /\ cloexec' \in [Procs -> [Fds -> BOOLEAN]]
    BY <1>0, <1>5, CalledFileType DEF TypeInv, TypeOK, ResumeClose
  <2>2. /\ files' \in [FileIds -> File \cup {None}]
        /\ \A q \in Procs, g \in Fds : fdt'[q][g] # None => files'[fdt'[q][g]] = files[fdt'[q][g]]
    <3>1. files \in [FileIds -> File \cup {None}] /\ files' = KeepLive(files, fdt')
      BY <1>5 DEF TypeInv, TypeOK, ResumeClose
    <3> QED
      BY <2>1, <3>1, KeepLiveType
  <2>3. \A q \in Procs, g \in Fds : fdt'[q][g] # None => fdt'[q][g] = fdt[q][g]
    BY <1>0, <1>5, CalledFileType DEF TypeInv, TypeOK, ResumeClose
  <2>4. NoDangling'
    BY <2>2, <2>3 DEF TypeInv, NoDangling
  <2>5. sc' \in [Tids -> Call \cup {None}] /\ ServedIsStopped'
    BY <1>5, ReturnType DEF ResumeClose
  <2> QED
    BY <1>5, <2>1, <2>2, <2>4, <2>5 DEF TypeInv, TypeOK, ResumeClose, Return, handler, env
<1>6. CASE ResumeGetpeername(t)
  BY <1>6, <1>a, OneFileType DEF ResumeGetpeername, kernel
<1>7. CASE ResumeExit(t)
  BY <1>0, <1>7, CalledFileType, DiesType DEF ResumeExit
<1> QED
  BY <1>1, <1>2, <1>3, <1>4, <1>5, <1>6, <1>7 DEF Resume

LEMMA EnosysType ==
    ASSUME TypeInv, NEW t \in Tids, Enosys(t)
    PROVE  TypeInv'
<1>1. CASE Dies(Tgid[t])
  BY <1>1, SocketAssumption, DiesType
<1>2. CASE Abandon({t}) /\ UNCHANGED <<kernel, signals, processes, pidInfos, memfds, up, env>>
  BY <1>2, AbandonType DEF TypeInv, TypeOK, NoDangling, kernel, env
<1> QED
  BY <1>1, <1>2 DEF Enosys

LEMMA RefreshType ==
    ASSUME TypeInv, RefreshInterfaces \/ RefreshDynamicList
    PROVE  TypeInv'
<1>1. interfaces' \in Interfaces /\ dynamicList' \in SUBSET IPs
  BY SocketAssumption DEF TypeInv, TypeOK, RefreshInterfaces, RefreshDynamicList
<1> QED
  BY <1>1 DEF TypeInv, TypeOK, NoDangling, ServedIsStopped, RefreshInterfaces,
              RefreshDynamicList, kernel, calls, handler

LEMMA LoopType ==
    ASSUME TypeInv, (\E t \in Tids : Receive(t)) \/ DropInvalid \/ Respond
    PROVE  TypeInv'
<1>1. ASSUME NEW t \in Tids, Receive(t)
      PROVE  TypeInv'
  <2>1. t \in Tids /\ sc[t] \in Call
    BY <1>1 DEF Receive, Waiting, TypeInv, TypeOK
  <2> DEFINE c == [sc[t] EXCEPT !.st = "received"]
  <2>2. c \in Call /\ c.st = "received"
    BY <2>1, CallMoves
  <2>3. sc' = [sc EXCEPT ![t] = c] /\ cur' = [tid |-> t, call |-> c, valid |-> TRUE, resp |-> "none"]
    BY <1>1 DEF Receive
  <2>4. sc' \in [Tids -> Call \cup {None}] /\ sc'[t] = c
    BY <2>1, <2>2, <2>3 DEF TypeInv, TypeOK
  <2>5. cur' \in Request
    BY <2>1, <2>2, <2>3 DEF Request
  <2>6. c # None
    BY <2>2, NoneAssumption
  <2>7. ServedIsStopped'
    <3> HIDE DEF c
    <3> QED
      BY <2>2, <2>3, <2>4, <2>6 DEF ServedIsStopped
  <2>8. ahead' \in [Tids -> SUBSET Tids]
    BY <1>1 DEF Receive, TypeInv, TypeOK
  <2> QED
    BY <1>1, <2>4, <2>5, <2>7, <2>8 DEF TypeInv, TypeOK, NoDangling, Receive, kernel, env
<1>2. CASE DropInvalid
  BY <1>2 DEF TypeInv, TypeOK, NoDangling, ServedIsStopped, DropInvalid, kernel, calls, env
<1>3. CASE Respond
  <2>1. sc' \in [Tids -> Call \cup {None}]
    <3>1. CASE ~cur.valid \/ cur.resp = "answer"
      BY <1>3, <3>1, RequestFields DEF TypeInv, TypeOK, Respond
    <3>2. CASE cur.valid /\ cur.resp # "answer"
      <4>0. cur \in Request /\ cur.tid \in Tids
        BY <1>3, RequestFields DEF TypeInv, TypeOK, Respond
      <4>1. cur.tid \in Tids /\ sc[cur.tid] \in Call
        BY <1>3, <3>2, <4>0 DEF TypeInv, TypeOK, ServedIsStopped, Respond
      <4>2. [sc[cur.tid] EXCEPT !.st = "resume"] \in Call
        BY <4>1, CallMoves
      <4> QED
        BY <1>3, <3>2, <4>1, <4>2 DEF TypeInv, TypeOK, Respond
    <3> QED
      BY <3>1, <3>2
  <2> QED
    BY <1>3, <2>1 DEF TypeInv, TypeOK, NoDangling, ServedIsStopped, Respond, kernel, env
<1> QED
  BY <1>1, <1>2, <1>3

-----------------------------------------------------------------------------
(* What the handler looks up *)

PidInfos == [Tids -> Nat \cup {None}]

LEMMA PidInfoType ==
    ASSUME TypeInv, NEW t \in Tids, NEW infos \in PidInfos, NEW i \in GetPidFdInfo(t, infos)
    PROVE  i \in PidInfos
<1>1. life[Tgid[t]] \in Nat
  BY SocketAssumption DEF TypeInv, TypeOK
<1> QED
  BY <1>1 DEF GetPidFdInfo, PidInfos

LEMMA MemAccessType ==
    ASSUME TypeInv, NEW p \in Procs, NEW m \in MemAccess(p)
    PROVE  m.memfd \in Nat \cup {None}
BY DEF MemAccess, TypeInv, TypeOK

\* What was registered is a fresh entry of an open descriptor.
LEMMA RegisterType ==
    ASSUME TypeInv, NEW p \in Procs, NEW f \in Fds, NEW infos \in PidInfos,
           NEW r \in RegisterSocket(p, f, infos)
    PROVE  /\ r.infos \in PidInfos
           /\ r.sock \in Sock \cup {None}
           /\ r.sock # None => fdt[p][f] # None /\ r.sock.state # "Bypassed"
<1>1. PICK i \in GetPidFdInfo(p, infos) :
         \/ r = [infos |-> i,
                 sock |-> IF i[p] = None \/ i[p] # life[p] \/ fdt[p][f] = None THEN None
                          ELSE NewSock(files[fdt[p][f]])]
         \/ r = [infos |-> i, sock |-> None]
  BY DEF RegisterSocket
<1>2. i \in PidInfos
  BY PidInfoType, SocketAssumption
<1>3. fdt[p][f] # None =>
         NewSock(files[fdt[p][f]]) \in Sock /\ NewSock(files[fdt[p][f]]).state # "Bypassed"
  <2>1. fdt[p][f] # None => files[fdt[p][f]] \in File
    BY DEF TypeInv, TypeOK, NoDangling
  <2> QED
    BY <2>1, SockFields
<1> QED
  BY <1>1, <1>2, <1>3

\* What handleReq works on is the entry it had, or one registered for an open
\* descriptor; a bypassed entry is never worked on.
LEMMA FoundType ==
    ASSUME TypeInv, NEW t \in Tids, NEW f \in Fds, NEW nr, NEW r \in Found(t, f, nr)
    PROVE  /\ r.infos \in PidInfos
           /\ r.sock \in Sock \cup {None}
           /\ r.go => r.sock \in Sock /\ r.sock.state \in {"NotBypassed", "Error"}
           /\ \/ r.sock = processes[Tgid[t]][f]
              \/ /\ processes[Tgid[t]][f] # None =>
                       processes[Tgid[t]][f].state = "NotBypassable"
                 /\ r.sock # None =>
                       fdt[Tgid[t]][f] # None /\ r.sock.state # "Bypassed"
<1> DEFINE p == Tgid[t]
           known == processes[p][f]
<1>1. p \in Procs /\ p \in Tids
  BY SocketAssumption
<1>2. known \in Sock \cup {None}
  BY <1>1 DEF TypeInv, TypeOK
<1>3. PICK i \in GetPidFdInfo(t, pidInfos) :
         r \in IF i[t] = None THEN {[infos |-> i, sock |-> known, go |-> FALSE]}
               ELSE IF known = None \/ (known.state = "NotBypassable" /\ nr = "connect")
               THEN {[infos |-> x.infos, sock |-> x.sock,
                      go |-> x.sock # None /\ x.sock.state = "NotBypassed"]
                     : x \in RegisterSocket(p, f, i)}
               ELSE {[infos |-> i, sock |-> known,
                      go |-> known.state \in {"NotBypassed", "Error"}]}
  BY DEF Found
<1>4. i \in PidInfos
  BY PidInfoType DEF TypeInv, TypeOK, PidInfos
<1>5. CASE i[t] = None
  BY <1>2, <1>3, <1>4, <1>5
<1>6. CASE i[t] # None /\ (known = None \/ (known.state = "NotBypassable" /\ nr = "connect"))
  <2>1. PICK x \in RegisterSocket(p, f, i) :
           r = [infos |-> x.infos, sock |-> x.sock,
                go |-> x.sock # None /\ x.sock.state = "NotBypassed"]
    BY <1>3, <1>6
  <2>2. /\ x.infos \in PidInfos /\ x.sock \in Sock \cup {None}
        /\ x.sock # None => fdt[p][f] # None /\ x.sock.state # "Bypassed"
    BY <1>1, <1>4, RegisterType
  <2>3. /\ r.infos = x.infos /\ r.sock = x.sock
        /\ r.go = (x.sock # None /\ x.sock.state = "NotBypassed")
    BY <2>1
  <2> QED
    BY <1>6, <2>2, <2>3
<1>7. CASE i[t] # None /\ ~ (known = None \/ (known.state = "NotBypassable" /\ nr = "connect"))
  <2>1. r = [infos |-> i, sock |-> known, go |-> known.state \in {"NotBypassed", "Error"}]
    BY <1>3, <1>7
  <2> QED
    BY <1>2, <1>4, <1>7, <2>1
<1> QED
  BY <1>5, <1>6, <1>7

\* The request that is being handled.
LEMMA HandlingType ==
    ASSUME TypeInv, NEW nr, Handling(nr)
    PROVE  /\ cur \in Request /\ cur # None
           /\ cur.tid \in Tids /\ Tgid[cur.tid] \in Procs
           /\ cur.call \in Call /\ cur.call.fd \in Fds /\ cur.call.nr = nr
           /\ cur.valid => sc[cur.tid] \in Call /\ sc[cur.tid].nr = nr
<1>1. cur \in Request /\ cur # None
  BY DEF TypeInv, TypeOK, Handling
<1>2. cur.tid \in Tids /\ Tgid[cur.tid] \in Procs /\ cur.call \in Call /\ cur.call.fd \in Fds
  BY <1>1, RequestFields, CallFields, SocketAssumption
<1> QED
  BY <1>1, <1>2 DEF TypeInv, TypeOK, ServedIsStopped, Handling

LEMMA AnswerType ==
    ASSUME TypeInv, cur \in Request, NEW resp \in {"continue", "answer"}, Answer(resp),
           sc' = sc
    PROVE  cur' \in Request /\ ServedIsStopped'
<1>1. /\ cur' \in Request
      /\ cur'.valid = cur.valid /\ cur'.tid = cur.tid /\ cur'.call = cur.call
  BY DEF Answer, Request
<1>2. cur # None
  BY NoneAssumption
<1> QED
  BY <1>1, <1>2 DEF TypeInv, ServedIsStopped

LEMMA RecordType ==
    ASSUME TypeInv, NEW p \in Procs, NEW f \in Fds, NEW sock \in Sock \cup {None},
           Record(p, f, sock)
    PROVE  processes' \in [Procs -> [Fds -> Sock \cup {None}]]
BY DEF TypeInv, TypeOK, Record

\* The step that replaces a descriptor's file by a host socket.
LEMMA AddFdType ==
    ASSUME TypeInv, NEW p \in Procs, NEW f \in Fds, NEW sock \in Sock,
           NEW bound \in Addr \cup {None}, Replays(sock.socketOptions),
           AddFd(p, f, sock, bound)
    PROVE  /\ files' \in [FileIds -> File \cup {None}]
           /\ fdt' \in [Procs -> [Fds -> FileIds \cup {None}]]
           /\ cloexec' \in [Procs -> [Fds -> BOOLEAN]]
           /\ UNCHANGED <<life, mm>>
           /\ NoDangling'
           /\ fdt'[p][f] # None /\ files'[fdt'[p][f]].ns = "host"
           /\ fdt'[p][f] \in FreeId /\ files'[fdt'[p][f]] = HostFile(sock, bound)
           /\ \A q \in Procs, g \in Fds :
                 q # p \/ g # f =>
                    /\ fdt'[q][g] = fdt[q][g]
                    /\ fdt[q][g] # None => files'[fdt'[q][g]] = files[fdt[q][g]]
<1> DEFINE file == HostFile(sock, bound)
<1>1. file \in File /\ file.ns = "host"
  BY HostFileType
<1>2. PICK id \in FreeId :
         /\ fdt' = [fdt EXCEPT ![p][f] = id]
         /\ files' = KeepLive([files EXCEPT ![id] = file], fdt')
         /\ cloexec' = [cloexec EXCEPT ![p][f] = sock.cloexec]
         /\ UNCHANGED <<life, mm>>
  BY DEF AddFd
<1> HIDE DEF file
<1>3. id \in FileIds /\ files[id] = None /\ id # None
  BY SocketAssumption DEF FreeId
<1>4. sock.cloexec \in BOOLEAN
  BY DEF Sock
<1>5. /\ fdt' \in [Procs -> [Fds -> FileIds \cup {None}]]
      /\ cloexec' \in [Procs -> [Fds -> BOOLEAN]]
  BY <1>2, <1>3, <1>4 DEF TypeInv, TypeOK
<1>6. [files EXCEPT ![id] = file] \in [FileIds -> File \cup {None}]
  BY <1>1, <1>3 DEF TypeInv, TypeOK
<1>7. /\ files' \in [FileIds -> File \cup {None}]
      /\ \A q \in Procs, g \in Fds : fdt'[q][g] # None =>
            files'[fdt'[q][g]] = [files EXCEPT ![id] = file][fdt'[q][g]]
  <2> DEFINE fs == [files EXCEPT ![id] = file]
  <2>1. fs \in [FileIds -> File \cup {None}] /\ files' = KeepLive(fs, fdt')
    BY <1>2, <1>6
  <2> HIDE DEF fs
  <2>2. /\ files' \in [FileIds -> File \cup {None}]
        /\ \A q \in Procs, g \in Fds : fdt'[q][g] # None => files'[fdt'[q][g]] = fs[fdt'[q][g]]
    BY <1>5, <2>1, KeepLiveType
  <2> QED
    BY <2>2 DEF fs
<1>8. fdt'[p][f] = id /\ \A q \in Procs, g \in Fds : q # p \/ g # f => fdt'[q][g] = fdt[q][g]
  BY <1>2 DEF TypeInv, TypeOK
<1>9. files'[id] = file /\ file # None
  BY <1>1, <1>3, <1>7, <1>8, NoneAssumption DEF TypeInv, TypeOK
<1>10. \A q \in Procs, g \in Fds :
          (q # p \/ g # f) /\ fdt[q][g] # None =>
             files[fdt[q][g]] # None /\ files'[fdt'[q][g]] = files[fdt[q][g]]
  <2>1. SUFFICES ASSUME NEW q \in Procs, NEW g \in Fds, q # p \/ g # f, fdt[q][g] # None
                 PROVE  files[fdt[q][g]] # None /\ files'[fdt'[q][g]] = files[fdt[q][g]]
    OBVIOUS
  <2>2. files[fdt[q][g]] # None /\ fdt[q][g] # id /\ fdt[q][g] \in FileIds
    BY <1>3, <2>1 DEF TypeInv, TypeOK, NoDangling
  <2> QED
    BY <1>7, <1>8, <2>1, <2>2 DEF TypeInv, TypeOK
<1>11. NoDangling'
  BY <1>8, <1>9, <1>10 DEF NoDangling
<1>12. fdt'[p][f] # None /\ files'[fdt'[p][f]].ns = "host"
  BY <1>1, <1>3, <1>8, <1>9
<1>13. \A q \in Procs, g \in Fds :
          q # p \/ g # f =>
             /\ fdt'[q][g] = fdt[q][g]
             /\ fdt[q][g] # None => files'[fdt'[q][g]] = files[fdt[q][g]]
  BY <1>8, <1>10
<1>14. UNCHANGED <<life, mm>>
  BY <1>2
<1>15. files' \in [FileIds -> File \cup {None}]
  BY <1>7
<1>16. fdt'[p][f] \in FreeId /\ files'[fdt'[p][f]] = HostFile(sock, bound)
  BY <1>2, <1>8, <1>9 DEF file
<1> QED
  BY <1>5, <1>11, <1>12, <1>13, <1>14, <1>15, <1>16

-----------------------------------------------------------------------------
(* The handler's actions *)

\* A request that is served from the books alone.
LEMMA BooksType ==
    ASSUME TypeInv, cur \in Request, NEW resp \in {"continue", "answer"}, Answer(resp),
           processes' \in [Procs -> [Fds -> Sock \cup {None}]],
           pidInfos' \in PidInfos,
           memfds' \in [Procs -> Nat \cup {None}],
           UNCHANGED <<kernel, calls, up, env>>
    PROVE  TypeInv'
<1>1. cur' \in Request /\ ServedIsStopped'
  BY AnswerType DEF calls
<1> QED
  BY <1>1 DEF TypeInv, TypeOK, NoDangling, PidInfos, kernel, calls, env

LEMMA HandleExitType ==
    ASSUME TypeInv, HandleExit
    PROVE  TypeInv'
<1>1. cur \in Request /\ cur.tid \in Tids /\ Tgid[cur.tid] \in Procs
  BY HandlingType DEF HandleExit
<1>2. PICK infos \in GetPidFdInfo(cur.tid, pidInfos) :
         /\ pidInfos' = [infos EXCEPT ![cur.tid] = None]
         /\ \/ /\ processes' = [processes EXCEPT ![Tgid[cur.tid]] = NoFds]
               /\ memfds' = [memfds EXCEPT ![Tgid[cur.tid]] = None]
            \/ UNCHANGED <<processes, memfds>>
  BY DEF HandleExit
<1>3. infos \in PidInfos
  BY <1>1, PidInfoType DEF TypeInv, TypeOK, PidInfos
<1>4. pidInfos' \in PidInfos
  BY <1>1, <1>2, <1>3 DEF PidInfos
<1>5. /\ processes' \in [Procs -> [Fds -> Sock \cup {None}]]
      /\ memfds' \in [Procs -> Nat \cup {None}]
  <2>1. NoFds \in [Fds -> Sock \cup {None}]
    BY DEF NoFds
  <2>2. CASE UNCHANGED <<processes, memfds>>
    BY <2>2 DEF TypeInv, TypeOK
  <2>3. CASE /\ processes' = [processes EXCEPT ![Tgid[cur.tid]] = NoFds]
             /\ memfds' = [memfds EXCEPT ![Tgid[cur.tid]] = None]
    BY <1>1, <2>1, <2>3 DEF TypeInv, TypeOK
  <2> QED
    BY <1>2, <2>2, <2>3
<1> QED
  BY <1>1, <1>4, <1>5, BooksType DEF HandleExit

LEMMA HandleCloseType ==
    ASSUME TypeInv, HandleClose
    PROVE  TypeInv'
<1>1. cur \in Request /\ cur.tid \in Tids /\ Tgid[cur.tid] \in Procs /\ cur.call.fd \in Fds
  BY HandlingType DEF HandleClose
<1>2. /\ pidInfos' \in PidInfos
      /\ processes' \in [Procs -> [Fds -> Sock \cup {None}]]
  BY <1>1, PidInfoType, RecordType DEF HandleClose, TypeInv, TypeOK, PidInfos
<1> QED
  BY <1>1, <1>2, BooksType DEF HandleClose, TypeInv, TypeOK

LEMMA HandleSetsockoptType ==
    ASSUME TypeInv, HandleSetsockopt
    PROVE  TypeInv'
<1> DEFINE p == Tgid[cur.tid]
           f == cur.call.fd
<1>1. cur \in Request /\ cur.tid \in Tids /\ p \in Procs /\ f \in Fds /\ cur.call.arg \in Opts
  BY HandlingType, CallFields DEF HandleSetsockopt
<1>2. PICK r \in Found(cur.tid, f, "setsockopt") :
         /\ pidInfos' = r.infos
         /\ \/ /\ ~r.go /\ Record(p, f, r.sock) /\ UNCHANGED memfds
            \/ /\ r.go
               /\ \E m \in MemAccess(p) :
                     /\ memfds' = [memfds EXCEPT ![p] = m.memfd]
                     /\ Record(p, f, [r.sock EXCEPT !.socketOptions =
                           Append(@, IF m.ok /\ cur.call.arg \notin EmptyOpts
                                     THEN cur.call.arg ELSE None)])
  BY DEF HandleSetsockopt
<1>3. /\ r.infos \in PidInfos /\ r.sock \in Sock \cup {None}
      /\ r.go => r.sock \in Sock
  BY <1>1, FoundType
<1>4. /\ processes' \in [Procs -> [Fds -> Sock \cup {None}]]
      /\ memfds' \in [Procs -> Nat \cup {None}]
  <2>1. CASE ~r.go /\ Record(p, f, r.sock) /\ UNCHANGED memfds
    BY <1>1, <1>3, <2>1, RecordType DEF TypeInv, TypeOK
  <2>2. ASSUME r.go, NEW m \in MemAccess(p), NEW o \in Opts \cup {None},
               memfds' = [memfds EXCEPT ![p] = m.memfd],
               Record(p, f, [r.sock EXCEPT !.socketOptions = Append(@, o)])
        PROVE  /\ processes' \in [Procs -> [Fds -> Sock \cup {None}]]
               /\ memfds' \in [Procs -> Nat \cup {None}]
    <3>1. [r.sock EXCEPT !.socketOptions = Append(@, o)] \in Sock
      BY <1>3, <2>2, SockChanges
    <3>2. memfds' \in [Procs -> Nat \cup {None}]
      BY <1>1, <2>2, MemAccessType DEF TypeInv, TypeOK
    <3> QED
      BY <1>1, <2>2, <3>1, <3>2, RecordType
  <2>3. CASE r.go
    <3>1. PICK m \in MemAccess(p) :
             /\ memfds' = [memfds EXCEPT ![p] = m.memfd]
             /\ Record(p, f, [r.sock EXCEPT !.socketOptions =
                   Append(@, IF m.ok /\ cur.call.arg \notin EmptyOpts
                             THEN cur.call.arg ELSE None)])
      BY <1>2, <2>3
    <3>2. CASE m.ok /\ cur.call.arg \notin EmptyOpts
      BY <1>1, <2>2, <2>3, <3>1, <3>2
    <3>3. CASE ~ (m.ok /\ cur.call.arg \notin EmptyOpts)
      BY <1>1, <2>2, <2>3, <3>1, <3>3
    <3> QED
      BY <3>2, <3>3
  <2> QED
    BY <1>2, <2>1, <2>3
<1> QED
  BY <1>1, <1>2, <1>3, <1>4, BooksType DEF HandleSetsockopt

LEMMA HandleFcntlType ==
    ASSUME TypeInv, HandleFcntl
    PROVE  TypeInv'
<1> DEFINE p == Tgid[cur.tid]
           f == cur.call.fd
<1>1. /\ cur \in Request /\ cur.tid \in Tids /\ p \in Procs /\ f \in Fds
      /\ cur.call.arg.on \in BOOLEAN
  BY HandlingType, CallFields DEF HandleFcntl, FcntlArg
<1>2. PICK r \in Found(cur.tid, f, "fcntl") :
         /\ pidInfos' = r.infos
         /\ Record(p, f, IF r.go /\ cur.call.arg.cmd = "F_SETFL"
                THEN [r.sock EXCEPT !.fcntlOptions = Append(@, cur.call.arg.on)] ELSE r.sock)
  BY DEF HandleFcntl
<1>3. /\ r.infos \in PidInfos /\ r.sock \in Sock \cup {None}
      /\ r.go => r.sock \in Sock
  BY <1>1, FoundType
<1>4. r.go => [r.sock EXCEPT !.fcntlOptions = Append(@, cur.call.arg.on)] \in Sock
  BY <1>1, <1>3, SockChanges
<1>5. processes' \in [Procs -> [Fds -> Sock \cup {None}]]
  BY <1>1, <1>2, <1>3, <1>4, RecordType
<1> QED
  BY <1>1, <1>2, <1>3, <1>5, BooksType DEF HandleFcntl, TypeInv, TypeOK

LEMMA HandleGetpeernameType ==
    ASSUME TypeInv, HandleGetpeername
    PROVE  TypeInv'
<1> DEFINE p == Tgid[cur.tid]
           f == cur.call.fd
<1>1. cur \in Request /\ cur.tid \in Tids /\ p \in Procs /\ f \in Fds
  BY HandlingType DEF HandleGetpeername
<1>2. PICK r \in Found(cur.tid, f, "getpeername") :
         /\ pidInfos' = r.infos
         /\ Record(p, f, r.sock)
         /\ \/ \E m \in MemAccess(p) :
                  /\ memfds' = [memfds EXCEPT ![p] = m.memfd]
                  /\ Answer(IF m.ok THEN "answer" ELSE "continue")
            \/ UNCHANGED memfds /\ Answer("continue")
  BY DEF HandleGetpeername
<1>3. /\ r.infos \in PidInfos /\ r.sock \in Sock \cup {None}
  BY <1>1, FoundType
<1>4. processes' \in [Procs -> [Fds -> Sock \cup {None}]]
  BY <1>1, <1>2, <1>3, RecordType
<1>5. memfds' \in [Procs -> Nat \cup {None}]
  BY <1>1, <1>2, MemAccessType DEF TypeInv, TypeOK
<1>6. \E resp \in {"continue", "answer"} : Answer(resp)
  BY <1>2
<1> QED
  BY <1>1, <1>2, <1>3, <1>4, <1>5, <1>6, BooksType DEF HandleGetpeername

LEMMA ConfigurePanicType ==
    ASSUME TypeInv, ConfigurePanic
    PROVE  TypeInv'
BY DEF TypeInv, TypeOK, NoDangling, ServedIsStopped, ConfigurePanic, NoFds, kernel, calls, env

\* What a connect does to its own call and to the books: nothing, or a valid
\* notification's destination becomes another address.
LEMMA ConnectToType ==
    ASSUME TypeInv, Handling("connect"),
           NEW found \in Sock, NEW dest \in Addr,
           ConnectTo(cur.tid, Tgid[cur.tid], cur.call.fd, found, dest)
    PROVE  /\ processes' \in [Procs -> [Fds -> Sock \cup {None}]]
           /\ files' \in [FileIds -> File \cup {None}]
           /\ fdt' \in [Procs -> [Fds -> FileIds \cup {None}]]
           /\ cloexec' \in [Procs -> [Fds -> BOOLEAN]]
           /\ UNCHANGED <<life, mm>>
           /\ NoDangling'
           /\ \/ sc' = sc
              \/ /\ cur.valid
                 /\ \E a \in Addr : sc' = [sc EXCEPT ![cur.tid].mem = a]
<1> DEFINE t == cur.tid
           p == Tgid[t]
           f == cur.call.fd
           sock == [found EXCEPT !.addr = dest]
<1>1. t \in Tids /\ p \in Procs /\ f \in Fds
  BY HandlingType
<1>2. sock \in Sock /\ \A s \in State : [sock EXCEPT !.state = s] \in Sock
  BY SockChanges
<1>3. \A s \in State : Record(p, f, [sock EXCEPT !.state = s]) =>
          processes' \in [Procs -> [Fds -> Sock \cup {None}]]
  BY <1>1, <1>2, RecordType
<1>4. PICK reply \in Replies(dest) :
         \/ \E s \in {"Error", "NotBypassable"} :
               Record(p, f, [sock EXCEPT !.state = s]) /\ UNCHANGED <<kernel, sc>>
         \/ /\ reply # Invalid
            /\ CanSwitch(sock)
            /\ AddFd(p, f, sock, None)
            /\ RewriteDestination(t, dest, reply, sock, p, f)
  BY DEF ConnectTo
<1>5. CASE \E s \in {"Error", "NotBypassable"} :
              Record(p, f, [sock EXCEPT !.state = s]) /\ UNCHANGED <<kernel, sc>>
  BY <1>3, <1>5 DEF State, TypeInv, TypeOK, NoDangling, kernel
<1>6. CASE /\ reply # Invalid
           /\ CanSwitch(sock)
           /\ AddFd(p, f, sock, None)
           /\ RewriteDestination(t, dest, reply, sock, p, f)
  <2>1. cur.valid /\ Replays(sock.socketOptions)
    BY <1>6 DEF CanSwitch
  <2>2. /\ files' \in [FileIds -> File \cup {None}]
        /\ fdt' \in [Procs -> [Fds -> FileIds \cup {None}]]
        /\ cloexec' \in [Procs -> [Fds -> BOOLEAN]]
        /\ UNCHANGED <<life, mm>>
        /\ NoDangling'
    <3> HIDE DEF sock
    <3> QED
      BY <1>1, <1>2, <1>6, <2>1, AddFdType
  <2>3. interfaces \in Interfaces
    BY DEF TypeInv, TypeOK
  <2>4. /\ Target(dest, interfaces, reply) \in Addr
        /\ Redirected(dest, interfaces, reply) => PortRewritten(dest, interfaces, reply) \in Addr
    BY <1>6, <2>3, TargetType
  <2>5. RewritesIP(dest, interfaces, reply) => Redirected(dest, interfaces, reply)
    BY DEF RewritesIP, Redirected
  <2>6. /\ \E s \in State : Record(p, f, [sock EXCEPT !.state = s])
        /\ sc' = sc \/ \E a \in Addr : sc' = [sc EXCEPT ![t].mem = a]
    <3> HIDE DEF sock, t, p, f
    <3> QED
      BY <1>6, <2>4, <2>5 DEF RewriteDestination, State
  <2> QED
    BY <1>3, <2>1, <2>2, <2>6
<1> QED
  BY <1>4, <1>5, <1>6

LEMMA HandleConnectType ==
    ASSUME TypeInv, HandleConnect
    PROVE  TypeInv'
<1> DEFINE t == cur.tid
           p == Tgid[t]
           f == cur.call.fd
<1>0. Handling("connect")
  BY DEF HandleConnect
<1>1. /\ cur \in Request /\ t \in Tids /\ p \in Procs /\ f \in Fds /\ cur.call.mem \in Addr
      /\ cur.valid => sc[t] \in Call /\ sc[t].nr = "connect"
  BY <1>0, HandlingType, CallFields
<1>2. PICK r \in Found(t, f, "connect") :
         /\ pidInfos' = r.infos
         /\ \/ /\ ~r.go /\ Record(p, f, r.sock)
               /\ UNCHANGED <<kernel, sc, memfds>>
            \/ /\ r.go
               /\ \E m \in MemAccess(p) :
                     /\ memfds' = [memfds EXCEPT ![p] = m.memfd]
                     /\ \/ /\ ~m.ok /\ Record(p, f, r.sock)
                           /\ UNCHANGED <<kernel, sc>>
                        \/ m.ok /\ ConnectTo(t, p, f, r.sock, cur.call.mem)
  BY DEF HandleConnect
<1>3. /\ r.infos \in PidInfos /\ r.sock \in Sock \cup {None}
      /\ r.go => r.sock \in Sock
  BY <1>1, FoundType
<1>4. memfds' \in [Procs -> Nat \cup {None}]
  BY <1>1, <1>2, MemAccessType DEF TypeInv, TypeOK
<1>5. \/ Record(p, f, r.sock) /\ UNCHANGED <<kernel, sc>>
      \/ r.go /\ ConnectTo(t, p, f, r.sock, cur.call.mem)
  BY <1>2
<1>6. /\ processes' \in [Procs -> [Fds -> Sock \cup {None}]]
      /\ files' \in [FileIds -> File \cup {None}]
      /\ fdt' \in [Procs -> [Fds -> FileIds \cup {None}]]
      /\ cloexec' \in [Procs -> [Fds -> BOOLEAN]]
      /\ life' = life /\ mm' = mm
      /\ NoDangling'
      /\ \/ sc' = sc
         \/ /\ cur.valid
            /\ \E a \in Addr : sc' = [sc EXCEPT ![t].mem = a]
  <2>1. CASE Record(p, f, r.sock) /\ UNCHANGED <<kernel, sc>>
    BY <1>1, <1>3, <2>1, RecordType DEF TypeInv, TypeOK, NoDangling, kernel
  <2>2. CASE r.go /\ ConnectTo(t, p, f, r.sock, cur.call.mem)
    BY <1>0, <1>1, <1>3, <2>2, ConnectToType
  <2> QED
    BY <1>5, <2>1, <2>2
<1>7. cur' \in Request /\ cur'.valid = cur.valid /\ cur'.tid = t /\ cur'.call = cur.call
  BY <1>1 DEF HandleConnect, Answer, Request
<1>8. sc' \in [Tids -> Call \cup {None}] /\ ServedIsStopped'
  <2>1. CASE sc' = sc
    BY <1>1, <1>7, <2>1, NoneAssumption DEF TypeInv, TypeOK, ServedIsStopped
  <2>2. ASSUME cur.valid, NEW a \in Addr, sc' = [sc EXCEPT ![t].mem = a]
        PROVE  sc' \in [Tids -> Call \cup {None}] /\ ServedIsStopped'
    <3> DEFINE c == [sc[t] EXCEPT !.mem = a]
    <3>1. c \in Call /\ c.st = sc[t].st /\ c.nr = sc[t].nr /\ c.fd = sc[t].fd
      BY <1>1, <2>2, CallRewritten
    <3>2. sc' = [sc EXCEPT ![t] = c]
      BY <2>2
    <3> HIDE DEF c
    <3>3. sc' \in [Tids -> Call \cup {None}] /\ sc'[t] = c
      BY <1>1, <3>1, <3>2 DEF TypeInv, TypeOK
    <3>4. cur # None /\ c # None
      BY <1>1, <3>1, NoneAssumption
    <3> QED
      BY <1>7, <2>2, <3>1, <3>3, <3>4 DEF TypeInv, ServedIsStopped
  <2> QED
    BY <1>6, <2>1, <2>2
<1> QED
  BY <1>2, <1>3, <1>4, <1>6, <1>7, <1>8
     DEF HandleConnect, TypeInv, TypeOK, PidInfos, env

LEMMA BindToType ==
    ASSUME TypeInv, NEW p \in Procs, NEW f \in Fds, NEW found \in Sock, NEW sa \in Addr,
           BindTo(p, f, found, sa)
    PROVE  /\ processes' \in [Procs -> [Fds -> Sock \cup {None}]]
           /\ files' \in [FileIds -> File \cup {None}]
           /\ fdt' \in [Procs -> [Fds -> FileIds \cup {None}]]
           /\ cloexec' \in [Procs -> [Fds -> BOOLEAN]]
           /\ UNCHANGED <<life, mm>>
           /\ NoDangling'
           /\ \E resp \in {"continue", "answer"} : Answer(resp)
<1> DEFINE sock == [found EXCEPT !.addr = sa]
<1>1. sock \in Sock /\ \A s \in State : [sock EXCEPT !.state = s] \in Sock
  BY SockChanges
<1>2. \A s \in State : Record(p, f, [sock EXCEPT !.state = s]) =>
          processes' \in [Procs -> [Fds -> Sock \cup {None}]]
  BY <1>1, RecordType
<1>3. CASE /\ Record(p, f, [sock EXCEPT !.state = "NotBypassable"])
           /\ Answer("continue") /\ UNCHANGED kernel
  BY <1>2, <1>3 DEF State, TypeInv, TypeOK, NoDangling, kernel
<1>4. CASE /\ sa.port \in DOMAIN ForwardingPorts /\ CanSwitch(sock)
           /\ AddFd(p, f, sock, HostAddr(sa))
           /\ Record(p, f, [sock EXCEPT !.state = "Bypassed"])
           /\ Answer("answer")
  <2>1. Replays(sock.socketOptions)
    BY <1>4 DEF CanSwitch
  <2>2. HostAddr(sa) \in Addr
    BY <1>4, RoutingAssumption DEF HostAddr, Addr
  <2>3. processes' \in [Procs -> [Fds -> Sock \cup {None}]]
    BY <1>2, <1>4 DEF State
  <2> HIDE DEF sock
  <2> QED
    BY <1>1, <1>4, <2>1, <2>2, <2>3, AddFdType
<1> QED
  BY <1>3, <1>4 DEF BindTo

LEMMA HandleBindType ==
    ASSUME TypeInv, HandleBind
    PROVE  TypeInv'
<1> DEFINE p == Tgid[cur.tid]
           f == cur.call.fd
           Inside(sock) == /\ Record(p, f, [sock EXCEPT !.state = "NotBypassable"])
                           /\ Answer("continue") /\ UNCHANGED kernel
<1>0. Handling("bind")
  BY DEF HandleBind
<1>1. /\ cur \in Request /\ cur.tid \in Tids /\ p \in Procs /\ f \in Fds
      /\ cur.call.mem \in Addr
  BY <1>0, HandlingType, CallFields
<1>2. PICK r \in Found(cur.tid, f, "bind") :
         /\ pidInfos' = r.infos
         /\ \/ /\ ~r.go /\ Record(p, f, r.sock) /\ Answer("continue")
               /\ UNCHANGED <<kernel, memfds>>
            \/ r.go /\ IgnoreBind /\ Inside(r.sock) /\ UNCHANGED memfds
            \/ /\ r.go /\ ~IgnoreBind
               /\ \E m \in MemAccess(p) :
                     /\ memfds' = [memfds EXCEPT ![p] = m.memfd]
                     /\ \/ ~m.ok /\ Inside(r.sock)
                        \/ m.ok /\ BindTo(p, f, r.sock, cur.call.mem)
  BY DEF HandleBind
<1>3. /\ r.infos \in PidInfos /\ r.sock \in Sock \cup {None}
      /\ r.go => r.sock \in Sock
  BY <1>1, FoundType
<1>4. memfds' \in [Procs -> Nat \cup {None}]
  BY <1>1, <1>2, MemAccessType DEF TypeInv, TypeOK
<1>5. \/ Record(p, f, r.sock) /\ Answer("continue") /\ UNCHANGED kernel
      \/ r.go /\ Inside(r.sock)
      \/ r.go /\ BindTo(p, f, r.sock, cur.call.mem)
  BY <1>2
<1>6. /\ processes' \in [Procs -> [Fds -> Sock \cup {None}]]
      /\ files' \in [FileIds -> File \cup {None}]
      /\ fdt' \in [Procs -> [Fds -> FileIds \cup {None}]]
      /\ cloexec' \in [Procs -> [Fds -> BOOLEAN]]
      /\ life' = life /\ mm' = mm
      /\ NoDangling'
      /\ \E resp \in {"continue", "answer"} : Answer(resp)
  <2>1. CASE Record(p, f, r.sock) /\ Answer("continue") /\ UNCHANGED kernel
    BY <1>1, <1>3, <2>1, RecordType DEF TypeInv, TypeOK, NoDangling, kernel
  <2>2. CASE r.go /\ Inside(r.sock)
    <3>1. [r.sock EXCEPT !.state = "NotBypassable"] \in Sock
      BY <1>3, <2>2, SockChanges DEF State
    <3> QED
      BY <1>1, <2>2, <3>1, RecordType DEF TypeInv, TypeOK, NoDangling, kernel
  <2>3. CASE r.go /\ BindTo(p, f, r.sock, cur.call.mem)
    BY <1>1, <1>3, <2>3, BindToType
  <2> QED
    BY <1>5, <2>1, <2>2, <2>3
<1>7. sc' = sc /\ ahead' = ahead /\ signals' = signals /\ up' = up /\ env' = env
  BY DEF HandleBind, calls
<1>8. cur' \in Request /\ ServedIsStopped'
  BY <1>1, <1>6, <1>7, AnswerType
<1> QED
  BY <1>2, <1>3, <1>4, <1>6, <1>7, <1>8 DEF TypeInv, TypeOK, PidInfos, env

-----------------------------------------------------------------------------

\* No descriptor dangles, and a valid notification is of a thread that is
\* still stopped in the call it tells of: what type correctness rests on.
LEMMA TypeInvariant == Safety => []TypeInv
<1>1. Init => TypeInv
  BY DEF Init, TypeInv, TypeOK, NoDangling, ServedIsStopped, NoFds, Interfaces
<1>2. TypeInv /\ [Next]_vars => TypeInv'
  <2> SUFFICES ASSUME TypeInv, [Next]_vars
               PROVE  TypeInv'
    OBVIOUS
  <2>1. CASE HandlerStep
    BY <2>1, LoopType, HandleExitType, HandleCloseType, HandleSetsockoptType, HandleFcntlType,
       HandleConnectType, HandleBindType, HandleGetpeernameType, ConfigurePanicType
       DEF HandlerStep
  <2>2. CASE AppStep
    <3>1. ASSUME NEW p \in Procs, Kill(p)
          PROVE  TypeInv'
      BY <3>1, DiesType DEF Kill
    <3> QED
      BY <2>2, <3>1, SpawnType, ExecveType, InterruptType, NewFdType, CloseUnseenType, TrapType
         DEF AppStep
  <2>3. CASE \E t \in Tids : KernelStep(t)
    BY <2>3, ResumeType, EnosysType DEF KernelStep
  <2>4. CASE RefreshInterfaces \/ RefreshDynamicList
    BY <2>4, RefreshType
  <2>5. CASE UNCHANGED vars
    BY <2>5 DEF TypeInv, TypeOK, NoDangling, ServedIsStopped, vars, kernel, calls, handler, env
  <2> QED
    BY <2>1, <2>2, <2>3, <2>4, <2>5 DEF Next
<1> QED
  BY <1>1, <1>2, PTL DEF Safety

\* Type correctness (Container's and SocketSwitch's variables), for every
\* container, every fault and every interleaving.
THEOREM TypeCorrect == Safety => []TypeOK
<1>1. TypeInv => TypeOK
  BY DEF TypeInv
<1> QED
  BY <1>1, TypeInvariant, PTL

\* Recording what was found, or anything where the dispatch goes on, leaves
\* bypassed entries as they are.
LEMMA RecordKeepsBypassed ==
    ASSUME TypeInv, NEW t \in Tids, NEW f \in Fds, NEW nr, NEW r \in Found(t, f, nr),
           NEW sock, Record(Tgid[t], f, sock), r.go \/ sock = r.sock,
           NEW q \in Procs, NEW g \in Fds,
           processes[q][g] # None, processes[q][g].state = "Bypassed"
    PROVE  processes'[q][g] = processes[q][g]
<1>1. Tgid[t] \in Procs
  BY SocketAssumption
<1>2. CASE q = Tgid[t] /\ g = f
  <2>1. r.sock = processes[q][g]
    BY <1>2, FoundType
  <2>2. ~r.go
    BY <2>1, FoundType
  <2> QED
    BY <1>1, <1>2, <2>1, <2>2 DEF Record, TypeInv, TypeOK
<1>3. CASE ~ (q = Tgid[t] /\ g = f)
  BY <1>1, <1>3 DEF Record, TypeInv, TypeOK
<1> QED
  BY <1>2, <1>3

\* What was recorded of a bypassed socket is final until the entry is removed
\* (handleReq), whatever the container does and whatever fails.
THEOREM BypassedFrozen == Safety => BypassedEntryFrozen
<1> DEFINE Frozen == \A p \in Procs, f \in Fds :
               processes[p][f] # None /\ processes[p][f].state = "Bypassed"
                   => processes'[p][f] \in {None, processes[p][f]}
<1>1. TypeInv /\ [Next]_vars => [Frozen]_vars
  <2> SUFFICES ASSUME TypeInv, Next
               PROVE  Frozen
    OBVIOUS
  <2>1. CASE processes' = processes
    BY <2>1
  <2>2. CASE HandleExit
    <3>1. processes' = processes \/ processes' = [processes EXCEPT ![Tgid[cur.tid]] = NoFds]
      BY <2>2 DEF HandleExit
    <3>2. processes \in [Procs -> [Fds -> Sock \cup {None}]]
      BY DEF TypeInv, TypeOK
    <3>3. \A p \in Procs, f \in Fds : processes'[p][f] \in {None, processes[p][f]}
      BY <3>1, <3>2 DEF NoFds
    <3> QED
      BY <3>3
  <2>3. CASE HandleClose
    <3>1. Tgid[cur.tid] \in Procs /\ cur.call.fd \in Fds
      BY <2>3, HandlingType DEF HandleClose
    <3>2. processes' = processes \/ Record(Tgid[cur.tid], cur.call.fd, None)
      BY <2>3 DEF HandleClose
    <3>3. processes \in [Procs -> [Fds -> Sock \cup {None}]]
      BY DEF TypeInv, TypeOK
    <3>4. \A p \in Procs, f \in Fds : processes'[p][f] \in {None, processes[p][f]}
      BY <3>1, <3>2, <3>3 DEF Record
    <3> QED
      BY <3>4
  <2>4. CASE ConfigurePanic
    BY <2>4 DEF ConfigurePanic, NoFds
  <2>5. ASSUME NEW nr, Handling(nr), NEW r \in Found(cur.tid, cur.call.fd, nr),
               NEW sock, Record(Tgid[cur.tid], cur.call.fd, sock), r.go \/ sock = r.sock
        PROVE  Frozen
    <3>1. cur.tid \in Tids /\ cur.call.fd \in Fds
      BY <2>5, HandlingType
    <3> QED
      BY <2>5, <3>1, RecordKeepsBypassed
  <2>6. CASE HandleSetsockopt
    <3>1. \E r \in Found(cur.tid, cur.call.fd, "setsockopt") : \E sock :
             Record(Tgid[cur.tid], cur.call.fd, sock) /\ (r.go \/ sock = r.sock)
      BY <2>6 DEF HandleSetsockopt
    <3> QED
      BY <2>5, <2>6, <3>1 DEF HandleSetsockopt
  <2>7. CASE HandleFcntl
    <3>1. \E r \in Found(cur.tid, cur.call.fd, "fcntl") : \E sock :
             Record(Tgid[cur.tid], cur.call.fd, sock) /\ (r.go \/ sock = r.sock)
      BY <2>7 DEF HandleFcntl
    <3> QED
      BY <2>5, <2>7, <3>1 DEF HandleFcntl
  <2>8. CASE HandleGetpeername
    <3>1. \E r \in Found(cur.tid, cur.call.fd, "getpeername") : \E sock :
             Record(Tgid[cur.tid], cur.call.fd, sock) /\ (r.go \/ sock = r.sock)
      BY <2>8 DEF HandleGetpeername
    <3> QED
      BY <2>5, <2>8, <3>1 DEF HandleGetpeername
  <2>9. CASE HandleConnect
    <3>1. \A sock, dest : ConnectTo(cur.tid, Tgid[cur.tid], cur.call.fd, sock, dest)
             => \E x : Record(Tgid[cur.tid], cur.call.fd, x)
      BY DEF ConnectTo, RewriteDestination
    <3>2. \E r \in Found(cur.tid, cur.call.fd, "connect") : \E sock :
             Record(Tgid[cur.tid], cur.call.fd, sock) /\ (r.go \/ sock = r.sock)
      BY <2>9, <3>1 DEF HandleConnect
    <3> QED
      BY <2>5, <2>9, <3>2 DEF HandleConnect
  <2>10. CASE HandleBind
    <3>1. \A sock, sa : BindTo(Tgid[cur.tid], cur.call.fd, sock, sa)
             => \E x : Record(Tgid[cur.tid], cur.call.fd, x)
      BY DEF BindTo
    <3>2. \E r \in Found(cur.tid, cur.call.fd, "bind") : \E sock :
             Record(Tgid[cur.tid], cur.call.fd, sock) /\ (r.go \/ sock = r.sock)
      BY <2>10, <3>1 DEF HandleBind
    <3> QED
      BY <2>5, <2>10, <3>2 DEF HandleBind
  <2>11. CASE (\E t \in Tids : Receive(t)) \/ DropInvalid \/ Respond
    BY <2>1, <2>11 DEF Receive, DropInvalid, Respond
  <2>12. CASE AppStep
    BY <2>1, <2>12 DEF AppStep, Spawn, Kill, Dies, Execve, Interrupt, NewFd, CloseUnseen, Trap,
                       handler
  <2>13. CASE \E t \in Tids : KernelStep(t)
    BY <2>1, <2>13 DEF KernelStep, Resume, ResumeConnect, ResumeBind, ResumeSetsockopt,
                       ResumeFcntl, ResumeClose, ResumeGetpeername, ResumeExit, Return, Dies,
                       Enosys, handler
  <2>14. CASE RefreshInterfaces \/ RefreshDynamicList
    BY <2>1, <2>14 DEF RefreshInterfaces, RefreshDynamicList, handler
  <2> QED
    BY <2>2, <2>3, <2>4, <2>6, <2>7, <2>8, <2>9, <2>10, <2>11, <2>12, <2>13, <2>14
       DEF Next, HandlerStep
<1> QED
  BY <1>1, TypeInvariant, PTL DEF Safety, BypassedEntryFrozen

-----------------------------------------------------------------------------
(* No call is forgotten *)

\* The request afterwards.
LEMMA Answered ==
    ASSUME cur \in Request, NEW resp \in {"continue", "answer"}, Answer(resp)
    PROVE  /\ cur' \in Request /\ cur' # None
           /\ cur'.tid = cur.tid /\ cur'.call = cur.call /\ cur'.valid = cur.valid
           /\ cur'.resp = resp
<1>1. /\ cur' \in Request /\ cur'.tid = cur.tid /\ cur'.call = cur.call
      /\ cur'.valid = cur.valid /\ cur'.resp = resp
  BY DEF Answer, Request
<1> QED
  BY <1>1, NoneAssumption

\* Nothing but Receive makes a call received, and what keeps one received
\* keeps it being served.
LEMMA StillServed ==
    ASSUME NoCallForgotten, up' => up,
           \A t \in Tids :
              sc'[t] # None /\ sc'[t].st = "received" =>
                 /\ sc[t] # None /\ sc[t].st = "received"
                 /\ cur # None /\ cur.valid /\ cur.tid = t =>
                       cur' # None /\ cur'.valid /\ cur'.tid = t
    PROVE  NoCallForgotten'
BY DEF NoCallForgotten

LEMMA AbandonServes ==
    ASSUME TypeInv, NoCallForgotten, NEW ts \in SUBSET Tids, Abandon(ts), up' => up
    PROVE  NoCallForgotten'
<1>1. ASSUME NEW t \in Tids, sc'[t] # None
      PROVE  t \notin ts /\ sc'[t] = sc[t]
  BY <1>1 DEF Abandon
<1>2. ASSUME NEW t \in Tids, t \notin ts, cur # None, cur.tid = t
      PROVE  cur' = cur
  BY <1>2 DEF Abandon
<1> QED
  BY <1>1, <1>2, StillServed

\* A signal puts a call back in the queue, or ends it.
LEMMA InterruptServes ==
    ASSUME TypeInv, NoCallForgotten, NEW t \in Tids, Interrupt(t)
    PROVE  NoCallForgotten'
<1>0. sc \in [Tids -> Call \cup {None}]
  BY DEF TypeInv, TypeOK
<1>1. UNCHANGED up /\ sc[t] # None
  BY DEF Interrupt
<1>2. CASE Abandon({t})
  BY <1>1, <1>2, AbandonServes
<1>3. CASE /\ sc' = [sc EXCEPT ![t].st = "queued"]
           /\ cur' = IF cur # None /\ cur.tid = t THEN [cur EXCEPT !.valid = FALSE] ELSE cur
  <2> DEFINE call == sc[t]
             moved == [call EXCEPT !.st = "queued"]
  <2>1. moved.st = "queued"
    <3> HIDE DEF call
    <3>1. call \in Call
      BY <1>0, <1>1 DEF call
    <3> QED
      BY <3>1, CallMoves
  <2>2. sc'[t] = moved /\ \A u \in Tids : u # t => sc'[u] = sc[u]
    BY <1>0, <1>3
  <2> HIDE DEF moved
  <2> QED
    BY <1>1, <1>3, <2>1, <2>2, StillServed
<1> QED
  BY <1>2, <1>3 DEF Interrupt

\* A call that is executed has been answered before.
LEMMA KernelServes ==
    ASSUME TypeInv, NoCallForgotten, NEW t \in Tids, KernelStep(t)
    PROVE  NoCallForgotten'
<1>1. ASSUME NEW p \in Procs, Dies(p)
      PROVE  NoCallForgotten'
  BY <1>1, AbandonServes DEF Dies, Threads
<1>2. CASE Return(t)
  <2>1. sc \in [Tids -> Call \cup {None}]
    BY DEF TypeInv, TypeOK
  <2> QED
    BY <1>2, <2>1, StillServed DEF Return, handler
<1>3. Tgid[t] \in Procs
  BY SocketAssumption
<1>4. CASE Enosys(t)
  BY <1>1, <1>3, <1>4, AbandonServes DEF Enosys
<1>5. CASE Resume(t)
  BY <1>1, <1>2, <1>3, <1>5 DEF Resume, ResumeConnect, ResumeBind, ResumeSetsockopt, ResumeFcntl,
     ResumeClose, ResumeGetpeername, ResumeExit
<1> QED
  BY <1>4, <1>5 DEF KernelStep

LEMMA AppServes ==
    ASSUME TypeInv, NoCallForgotten, AppStep
    PROVE  NoCallForgotten'
<1>0. sc \in [Tids -> Call \cup {None}]
  BY DEF TypeInv, TypeOK
<1>1. ASSUME NEW p \in Procs, Spawn(p) \/ Kill(p)
      PROVE  NoCallForgotten'
  <2>1. CASE Spawn(p)
    BY <2>1, StillServed DEF Spawn, calls, handler
  <2>2. CASE Kill(p)
    BY <2>2, AbandonServes DEF Kill, Dies, Threads
  <2> QED
    BY <1>1, <2>1, <2>2
<1>2. ASSUME NEW t \in Tids, Execve(t)
      PROVE  NoCallForgotten'
  BY <1>2, AbandonServes DEF Execve, Threads
<1>3. ASSUME NEW t \in Tids, NEW f \in Fds, NewFd(t, f) \/ CloseUnseen(t, f)
      PROVE  NoCallForgotten'
  <2>1. UNCHANGED <<calls, handler>>
    BY <1>3 DEF NewFd, CloseUnseen
  <2> QED
    BY <2>1, StillServed DEF calls, handler
<1>4. ASSUME NEW t \in Tids, NEW nr \in Nr, NEW f \in Fds, Trap(t, nr, f)
      PROVE  NoCallForgotten'
  <2>1. PICK call : sc' = [sc EXCEPT ![t] = call] /\ call.st = "queued"
    <3>1. PICK arg : sc' = [sc EXCEPT ![t] =
             [nr |-> nr, fd |-> f, arg |-> arg,
              mem |-> IF nr \in {"connect", "bind"} THEN arg ELSE None, st |-> "queued"]]
      BY <1>4 DEF Trap
    <3> DEFINE new == [nr |-> nr, fd |-> f, arg |-> arg,
                       mem |-> IF nr \in {"connect", "bind"} THEN arg ELSE None, st |-> "queued"]
    <3>2. new.st = "queued" /\ sc' = [sc EXCEPT ![t] = new]
      BY <3>1
    <3> HIDE DEF new
    <3> QED
      BY <3>2
  <2>2. \A u \in Tids : sc'[u] = IF u = t THEN call ELSE sc[u]
    BY <1>0, <2>1
  <2> QED
    BY <1>4, <2>1, <2>2, StillServed DEF Trap, handler
<1> QED
  BY <1>1, <1>2, <1>3, <1>4, InterruptServes DEF AppStep

LEMMA LoopServes ==
    ASSUME TypeInv, NoCallForgotten, (\E t \in Tids : Receive(t)) \/ DropInvalid \/ Respond
    PROVE  NoCallForgotten'
<1>0. sc \in [Tids -> Call \cup {None}]
  BY DEF TypeInv, TypeOK
<1>1. ASSUME NEW t \in Tids, Receive(t)
      PROVE  NoCallForgotten'
  <2>1. /\ up /\ cur = None /\ cur'.tid = t /\ cur'.valid
        /\ \A u \in Tids : u # t => sc'[u] = sc[u]
    BY <1>0, <1>1 DEF Receive
  <2>2. cur' # None
    <3>1. /\ t \in Waiting
          /\ cur' = [tid |-> t, call |-> [sc[t] EXCEPT !.st = "received"],
                     valid |-> TRUE, resp |-> "none"]
      BY <1>1 DEF Receive
    <3>2. [sc[t] EXCEPT !.st = "received"] \in Call
      BY <1>0, <3>1, CallMoves DEF Waiting
    <3>3. cur' \in Request
      BY <3>1, <3>2 DEF Request
    <3> QED
      BY <3>3, NoneAssumption
  <2> QED
    BY <2>1, <2>2 DEF NoCallForgotten
<1>2. CASE DropInvalid
  BY <1>2, StillServed DEF DropInvalid, calls
<1>3. CASE Respond
  <2>1. CASE ~cur.valid
    BY <1>3, <2>1, StillServed DEF Respond
  <2>2. CASE cur.valid
    <3>1. PICK t \in Tids : t = cur.tid
      BY <1>3, RequestFields DEF Respond, TypeInv, TypeOK
    <3>2. sc[t] # None /\ sc[t] \in Call
      BY <1>0, <1>3, <2>2, <3>1 DEF Respond, TypeInv, ServedIsStopped
    <3>3. /\ sc'[t] # None => sc'[t].st = "resume"
          /\ \A u \in Tids : u # t => sc'[u] = sc[u]
      BY <1>0, <1>3, <2>2, <3>1, <3>2, CallMoves DEF Respond
    <3> QED
      BY <1>3, <3>1, <3>3, StillServed DEF Respond
  <2> QED
    BY <2>1, <2>2
<1> QED
  BY <1>1, <1>2, <1>3

\* The request that is served keeps its thread.
LEMMA AnswerServes ==
    ASSUME TypeInv, NoCallForgotten, NEW nr, Handling(nr), NEW resp \in {"continue", "answer"},
           Answer(resp), UNCHANGED up,
           \/ sc' = sc
           \/ cur.valid /\ nr = "connect" /\ \E a \in Addr : sc' = [sc EXCEPT ![cur.tid].mem = a]
    PROVE  NoCallForgotten'
<1>0. sc \in [Tids -> Call \cup {None}]
  BY DEF TypeInv, TypeOK
<1>1. /\ cur \in Request /\ cur.tid \in Tids
      /\ cur.valid => sc[cur.tid] \in Call /\ sc[cur.tid].nr = nr
  BY HandlingType
<1>2. cur' # None /\ cur'.valid = cur.valid /\ cur'.tid = cur.tid
  BY <1>1, Answered
<1>3. \A t \in Tids : /\ sc'[t] # None => sc[t] # None
                      /\ sc[t] # None => sc'[t].st = sc[t].st
  <2>1. ASSUME cur.valid, nr = "connect", NEW a \in Addr, sc' = [sc EXCEPT ![cur.tid].mem = a]
        PROVE  \A t \in Tids : /\ sc'[t] # None => sc[t] # None
                               /\ sc[t] # None => sc'[t].st = sc[t].st
    <3> DEFINE call == sc[cur.tid]
               moved == [call EXCEPT !.mem = a]
    <3>1. call # None /\ moved.st = call.st
      <4>1. call \in Call /\ call.nr = "connect"
        BY <1>1, <2>1
      <4> HIDE DEF call
      <4> QED
        BY <4>1, CallRewritten, NoneAssumption
    <3>2. /\ sc'[cur.tid] = moved
          /\ \A t \in Tids : t # cur.tid => sc'[t] = sc[t]
      BY <1>0, <1>1, <2>1
    <3> HIDE DEF moved
    <3> QED
      BY <3>1, <3>2
  <2> QED
    BY <2>1
<1> QED
  BY <1>2, <1>3, StillServed

LEMMA HandlerServes ==
    ASSUME TypeInv, NoCallForgotten, HandlerStep
    PROVE  NoCallForgotten'
<1>1. CASE (\E t \in Tids : Receive(t)) \/ DropInvalid \/ Respond
  BY <1>1, LoopServes
<1>2. ASSUME NEW nr, Handling(nr), NEW resp \in {"continue", "answer"}, Answer(resp),
             UNCHANGED <<calls, up>>
      PROVE  NoCallForgotten'
  BY <1>2, AnswerServes DEF calls
<1>3. CASE HandleExit \/ HandleClose \/ HandleSetsockopt \/ HandleFcntl
  BY <1>2, <1>3 DEF HandleExit, HandleClose, HandleSetsockopt, HandleFcntl
<1>4. CASE HandleGetpeername
  <2>1. Answer("answer") \/ Answer("continue")
    BY <1>4 DEF HandleGetpeername
  <2> QED
    BY <1>2, <1>4, <2>1 DEF HandleGetpeername
<1>5. CASE HandleBind
  <2>1. \A sock, sa : BindTo(Tgid[cur.tid], cur.call.fd, sock, sa) =>
           Answer("answer") \/ Answer("continue")
    BY DEF BindTo
  <2>2. Answer("answer") \/ Answer("continue")
    BY <1>5, <2>1 DEF HandleBind
  <2> QED
    BY <1>2, <1>5, <2>2 DEF HandleBind
<1>6. CASE HandleConnect
  <2>1. Handling("connect") /\ Answer("continue") /\ UNCHANGED up
    BY <1>6 DEF HandleConnect
  <2>2. cur.call.mem \in Addr /\ interfaces \in Interfaces
    BY <2>1, HandlingType, CallFields DEF TypeInv, TypeOK
  <2>3. \A sock : ConnectTo(cur.tid, Tgid[cur.tid], cur.call.fd, sock, cur.call.mem) =>
           \/ sc' = sc
           \/ cur.valid /\ \E a \in Addr : sc' = [sc EXCEPT ![cur.tid].mem = a]
    <3> SUFFICES ASSUME NEW found,
                        ConnectTo(cur.tid, Tgid[cur.tid], cur.call.fd, found, cur.call.mem)
                 PROVE  \/ sc' = sc
                        \/ cur.valid /\ \E a \in Addr : sc' = [sc EXCEPT ![cur.tid].mem = a]
      OBVIOUS
    <3> DEFINE sock == [found EXCEPT !.addr = cur.call.mem]
    <3>1. PICK reply \in Replies(cur.call.mem) :
             \/ sc' = sc
             \/ /\ reply # Invalid /\ CanSwitch(sock)
                /\ RewriteDestination(cur.tid, cur.call.mem, reply, sock,
                                      Tgid[cur.tid], cur.call.fd)
      BY DEF ConnectTo
    <3>2. CASE sc' # sc
      <4>1. /\ cur.valid /\ reply # Invalid
            /\ RewriteDestination(cur.tid, cur.call.mem, reply, sock,
                                  Tgid[cur.tid], cur.call.fd)
        BY <3>1, <3>2 DEF CanSwitch
      <4>2. /\ Target(cur.call.mem, interfaces, reply) \in Addr
            /\ Redirected(cur.call.mem, interfaces, reply) =>
                  PortRewritten(cur.call.mem, interfaces, reply) \in Addr
        BY <2>2, <4>1, TargetType
      <4>3. RewritesIP(cur.call.mem, interfaces, reply) =>
               Redirected(cur.call.mem, interfaces, reply)
        BY DEF RewritesIP, Redirected
      <4> HIDE DEF sock
      <4> QED
        BY <4>1, <4>2, <4>3 DEF RewriteDestination
    <3> QED
      BY <3>2
  <2>4. \/ sc' = sc
        \/ cur.valid /\ \E a \in Addr : sc' = [sc EXCEPT ![cur.tid].mem = a]
    BY <1>6, <2>3 DEF HandleConnect
  <2> QED
    BY <2>1, <2>4, AnswerServes
<1>7. CASE ConfigurePanic
  BY <1>7 DEF ConfigurePanic, NoCallForgotten
<1> QED
  BY <1>1, <1>3, <1>4, <1>5, <1>6, <1>7 DEF HandlerStep

\* No error, fault or signal makes the loop lose a call that it has received:
\* while the handler is up, the thread of every such call is the one that is
\* being served, whose notification is still valid (handle).
THEOREM CallsRemembered == Safety => []NoCallForgotten
<1>1. Init => NoCallForgotten
  BY DEF Init, NoCallForgotten
<1>2. TypeInv /\ NoCallForgotten /\ [Next]_vars => NoCallForgotten'
  <2> SUFFICES ASSUME TypeInv, NoCallForgotten, [Next]_vars
               PROVE  NoCallForgotten'
    OBVIOUS
  <2>1. CASE RefreshInterfaces \/ RefreshDynamicList \/ UNCHANGED vars
    BY <2>1, StillServed DEF RefreshInterfaces, RefreshDynamicList, vars, calls, handler
  <2> QED
    BY <2>1, HandlerServes, AppServes, KernelServes DEF Next
<1> QED
  BY <1>1, <1>2, TypeInvariant, PTL DEF Safety
=============================================================================
