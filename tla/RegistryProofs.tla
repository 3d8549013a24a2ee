--------------------------- MODULE RegistryProofs ---------------------------
(***************************************************************************)
(* The handler's books against the kernel's tables, proved for containers  *)
(* of single-threaded processes that change their descriptors only by      *)
(* calls the filter traps, by making new ones and by forking.              *)
(***************************************************************************)
EXTENDS SocketSwitchProofs

\* What the theorems of this module assume of the container and the host.
SingleThreaded == Tids = Procs
NothingUnseen == Untrapped \subseteq {"fork"}
PidfdsOpen == "pidfd" \notin Faults
Ordinary == SingleThreaded /\ NothingUnseen /\ PidfdsOpen

-----------------------------------------------------------------------------
(* The inductive invariant *)

\* The handler is done with t's call, and t has yet to execute it.
Handled(t) ==
    /\ sc[t] # None
    /\ \/ sc[t].st = "resume"
       \/ cur # None /\ cur.valid /\ cur.tid = t /\ cur.resp # "none"

\* A close that was handled has no entry left when the kernel executes it.
CloseForgotten ==
    \A t \in Tids : Handled(t) /\ sc[t].nr = "close" => processes[t][sc[t].fd] = None

\* An exit that was handled has nothing left in the books.
ExitForgotten ==
    \A t \in Tids : Handled(t) /\ sc[t].nr = "exit_group" =>
        /\ \A f \in Fds : processes[t][f] = None
        /\ pidInfos[t] = None /\ memfds[t] = None

DeadHasNothing ==
    \A p \in Procs : ~Alive(p) => sc[p] = None /\ \A f \in Fds : fdt[p][f] = None

ServedIsAlive == cur # None => Alive(cur.tid)

ResumedIsNotServed ==
    \A t \in Tids : sc[t] # None /\ sc[t].st = "resume" => cur = None \/ cur.tid # t

DownHasNothing ==
    ~up => /\ cur = None
           /\ \A p \in Procs : /\ \A f \in Fds : processes[p][f] = None
                               /\ pidInfos[p] = None /\ memfds[p] = None

CallsInv == /\ CloseForgotten /\ ExitForgotten /\ DeadHasNothing
            /\ ServedIsAlive /\ ResumedIsNotServed /\ DownHasNothing

BooksInv == TypeInv /\ RegistryMatchesKernel /\ CachesCurrent /\ RewrittenOnlyOnHost /\ CallsInv

\* In such a container a thread is its process.
LEMMA OwnProcess ==
    ASSUME Ordinary
    PROVE  /\ Tids = Procs
           /\ \A t \in Tids : Tgid[t] = t /\ Threads(t) = {t}
           /\ \A t \in Tids : t \in Procs
BY SocketAssumption DEF Ordinary, SingleThreaded, Threads

-----------------------------------------------------------------------------
(* Steps of the application *)

LEMMA SpawnBooks ==
    ASSUME Ordinary, BooksInv, NEW q \in Procs, Spawn(q)
    PROVE  BooksInv'
<1>0. TypeInv /\ TypeInv'
  BY SpawnType DEF BooksInv
<1>1. /\ Tids = Procs /\ \A t \in Tids : Tgid[t] = t
      /\ UNCHANGED <<files, sc, ahead, signals, processes, pidInfos, memfds, cur, up>>
      /\ ~Alive(q)
  BY OwnProcess DEF Spawn, calls, handler
<1>2. \A p \in Procs : p # q => fdt'[p] = fdt[p] /\ life'[p] = life[p] /\ mm'[p] = mm[p]
  BY <1>0 DEF Spawn, TypeInv, TypeOK
<1>3. life'[q] # 0
  BY <1>0 DEF Spawn, TypeInv, TypeOK
<1>4. /\ sc[q] = None /\ \A f \in Fds : processes[q][f] = None
      /\ pidInfos[q] = None /\ memfds[q] = None
      /\ cur # None => cur.tid # q
  BY <1>1 DEF BooksInv, CallsInv, DeadHasNothing, ServedIsAlive, RegistryMatchesKernel, CachesCurrent
<1>5. RegistryMatchesKernel'
  BY <1>1, <1>2, <1>4 DEF BooksInv, RegistryMatchesKernel
<1>6. CachesCurrent'
  BY <1>1, <1>2, <1>4 DEF BooksInv, CachesCurrent, Alive
<1>7. RewrittenOnlyOnHost'
  BY <1>1, <1>2, <1>4 DEF BooksInv, RewrittenOnlyOnHost, CalledFile
<1>8. CloseForgotten' /\ ExitForgotten' /\ ResumedIsNotServed' /\ DownHasNothing'
  BY <1>1 DEF BooksInv, CallsInv, CloseForgotten, ExitForgotten, ResumedIsNotServed,
              DownHasNothing, Handled
<1>9. DeadHasNothing' /\ ServedIsAlive'
  <2>1. cur # None => cur.tid \in Procs
    <3>1. SUFFICES ASSUME cur # None PROVE cur.tid \in Procs
      OBVIOUS
    <3>2. cur \in Request
      BY <1>0, <3>1 DEF TypeInv, TypeOK
    <3> QED
      BY <1>1, <3>2, RequestFields
  <2> QED
    BY <1>1, <1>2, <1>3, <1>4, <2>1
       DEF BooksInv, CallsInv, DeadHasNothing, ServedIsAlive, Alive
<1> QED
  BY <1>0, <1>5, <1>6, <1>7, <1>8, <1>9 DEF BooksInv, CallsInv

LEMMA NewFdBooks ==
    ASSUME Ordinary, BooksInv, NEW t \in Tids, NEW f \in Fds, NewFd(t, f)
    PROVE  BooksInv'
<1>0. TypeInv /\ TypeInv'
  BY NewFdType DEF BooksInv
<1>1. /\ Tids = Procs /\ \A u \in Tids : Tgid[u] = u
      /\ UNCHANGED <<life, mm, sc, ahead, signals, processes, pidInfos, memfds, cur, up>>
      /\ life[t] # 0 /\ fdt[t][f] = None /\ sc[t] = None
  BY OwnProcess DEF NewFd, Running, Alive, calls, handler
<1>2. \A p \in Procs, g \in Fds : fdt[p][g] # None =>
         /\ fdt'[p][g] = fdt[p][g]
         /\ files'[fdt'[p][g]] = files[fdt[p][g]]
  <2>1. PICK id \in FreeId :
           /\ fdt' = [fdt EXCEPT ![Tgid[t]][f] = id]
           /\ \E file : files' = [files EXCEPT ![id] = file]
    BY DEF NewFd
  <2>2. id \in FileIds /\ files[id] = None
    BY DEF FreeId
  <2>3. SUFFICES ASSUME NEW p \in Procs, NEW g \in Fds, fdt[p][g] # None
                 PROVE  fdt'[p][g] = fdt[p][g] /\ files'[fdt'[p][g]] = files[fdt[p][g]]
    OBVIOUS
  <2>4. fdt'[p][g] = fdt[p][g]
    BY <1>0, <1>1, <2>1, <2>3 DEF TypeInv, TypeOK
  <2>5. fdt[p][g] # id /\ fdt[p][g] \in FileIds
    BY <1>0, <2>2, <2>3 DEF TypeInv, TypeOK, NoDangling
  <2> QED
    BY <1>0, <2>1, <2>4, <2>5 DEF TypeInv, TypeOK
<1>3. RegistryMatchesKernel'
  BY <1>1, <1>2 DEF BooksInv, RegistryMatchesKernel
<1>4. CachesCurrent'
  BY <1>1 DEF BooksInv, CachesCurrent, Alive
<1>5. RewrittenOnlyOnHost'
  <2>1. \A u \in Tids : sc[u] # None => sc[u].fd \in Fds
    BY <1>0, CalledFileType
  <2> QED
    BY <1>1, <1>2, <2>1 DEF BooksInv, RewrittenOnlyOnHost, CalledFile
<1>6. CloseForgotten' /\ ExitForgotten' /\ ServedIsAlive' /\ ResumedIsNotServed' /\ DownHasNothing'
  BY <1>1 DEF BooksInv, CallsInv, CloseForgotten, ExitForgotten, ServedIsAlive,
              ResumedIsNotServed, DownHasNothing, Handled, Alive
<1>7. DeadHasNothing'
  <2>1. \A p \in Procs : p # t => fdt'[p] = fdt[p]
    BY <1>0, <1>1 DEF NewFd, TypeInv, TypeOK
  <2> QED
    BY <1>1, <2>1 DEF BooksInv, CallsInv, DeadHasNothing, Alive
<1> QED
  BY <1>0, <1>3, <1>4, <1>5, <1>6, <1>7 DEF BooksInv, CallsInv

LEMMA TrapBooks ==
    ASSUME Ordinary, BooksInv, NEW t \in Tids, NEW nr \in Nr, NEW f \in Fds, Trap(t, nr, f)
    PROVE  BooksInv'
<1>0. TypeInv /\ TypeInv'
  BY TrapType DEF BooksInv
<1>1. /\ Tids = Procs /\ \A u \in Tids : Tgid[u] = u
      /\ UNCHANGED <<files, fdt, life, mm, processes, pidInfos, memfds, cur, up>>
      /\ life[t] # 0 /\ sc[t] = None
  BY OwnProcess DEF Trap, Running, Alive, kernel, handler
<1>2. PICK arg : sc' = [sc EXCEPT ![t] =
             [nr |-> nr, fd |-> f, arg |-> arg,
              mem |-> IF nr \in {"connect", "bind"} THEN arg ELSE None, st |-> "queued"]]
  BY DEF Trap
<1>3. /\ \A u \in Tids : u # t => sc'[u] = sc[u]
      /\ sc'[t].st = "queued"
      /\ sc'[t].mem = None \/ sc'[t].mem = sc'[t].arg
  BY <1>0, <1>2 DEF TypeInv, TypeOK
<1>4. \A u \in Tids : Handled(u)' => Handled(u) /\ u # t /\ sc'[u] = sc[u]
  <2>1. cur # None /\ cur.valid => sc[cur.tid] # None
    BY <1>0 DEF TypeInv, ServedIsStopped
  <2> QED
    BY <1>1, <1>3, <2>1 DEF Handled
<1>5. RegistryMatchesKernel' /\ CachesCurrent'
  BY <1>1 DEF BooksInv, RegistryMatchesKernel, CachesCurrent, Alive
<1>6. RewrittenOnlyOnHost'
  BY <1>1, <1>3 DEF BooksInv, RewrittenOnlyOnHost, CalledFile
<1>7. CloseForgotten' /\ ExitForgotten'
  BY <1>1, <1>4 DEF BooksInv, CallsInv, CloseForgotten, ExitForgotten
<1>8. DeadHasNothing' /\ ServedIsAlive' /\ ResumedIsNotServed' /\ DownHasNothing'
  BY <1>1, <1>3 DEF BooksInv, CallsInv, DeadHasNothing, ServedIsAlive, ResumedIsNotServed,
                    DownHasNothing, Alive
<1> QED
  BY <1>0, <1>5, <1>6, <1>7, <1>8 DEF BooksInv, CallsInv

LEMMA InterruptBooks ==
    ASSUME Ordinary, BooksInv, NEW t \in Tids, Interrupt(t)
    PROVE  BooksInv'
<1>0. TypeInv /\ TypeInv'
  BY InterruptType DEF BooksInv
<1>1. /\ Tids = Procs /\ \A u \in Tids : Tgid[u] = u
      /\ UNCHANGED <<files, fdt, life, mm, processes, pidInfos, memfds, up>>
      /\ sc[t] # None /\ sc[t].st # "resume"
  BY OwnProcess DEF Interrupt, kernel
<1>2. /\ \A u \in Tids : u # t => sc'[u] = sc[u]
      /\ sc'[t] = None \/ sc'[t] = [sc[t] EXCEPT !.st = "queued"]
      /\ cur' = IF cur # None /\ cur.tid = t THEN [cur EXCEPT !.valid = FALSE] ELSE cur
  BY <1>0 DEF Interrupt, Abandon, TypeInv, TypeOK
<1>3. sc'[t] # None => /\ sc'[t].st = "queued"
                       /\ sc'[t].mem = sc[t].mem /\ sc'[t].arg = sc[t].arg /\ sc'[t].fd = sc[t].fd
  <2>1. sc[t] \in Call
    BY <1>1, CalledFileType, <1>0
  <2>2. SUFFICES ASSUME sc'[t] # None
                 PROVE  /\ sc'[t].st = "queued" /\ sc'[t].mem = sc[t].mem
                        /\ sc'[t].arg = sc[t].arg /\ sc'[t].fd = sc[t].fd
    OBVIOUS
  <2>3. sc'[t] = [sc[t] EXCEPT !.st = "queued"]
    BY <1>2, <2>2
  <2> DEFINE call == sc[t]
             moved == [call EXCEPT !.st = "queued"]
  <2>4. moved.st = "queued" /\ moved.mem = call.mem /\ moved.arg = call.arg /\ moved.fd = call.fd
    <3> HIDE DEF call
    <3>1. call \in Call
      BY <2>1 DEF call
    <3> QED
      BY <3>1, CallMoves
  <2> QED
    BY <2>3, <2>4
<1>4. cur # None => /\ cur' # None /\ cur'.tid = cur.tid
                    /\ cur.tid = t => ~cur'.valid
                    /\ cur.tid # t => cur' = cur
  <2>1. cur # None => cur \in Request
    BY <1>0 DEF TypeInv, TypeOK
  <2> QED
    BY <1>2, <2>1, RequestFields
<1>5. cur = None => cur' = None
  BY <1>2
<1>6. \A u \in Tids : Handled(u)' => Handled(u) /\ u # t /\ sc'[u] = sc[u]
  BY <1>2, <1>3, <1>4, <1>5 DEF Handled
<1>7. RegistryMatchesKernel' /\ CachesCurrent'
  BY <1>1 DEF BooksInv, RegistryMatchesKernel, CachesCurrent, Alive
<1>8. RewrittenOnlyOnHost'
  BY <1>1, <1>2, <1>3 DEF BooksInv, RewrittenOnlyOnHost, CalledFile
<1>9. CloseForgotten' /\ ExitForgotten'
  BY <1>1, <1>6 DEF BooksInv, CallsInv, CloseForgotten, ExitForgotten
<1>10. DeadHasNothing' /\ ServedIsAlive' /\ ResumedIsNotServed' /\ DownHasNothing'
  BY <1>1, <1>2, <1>3, <1>4, <1>5
     DEF BooksInv, CallsInv, DeadHasNothing, ServedIsAlive, ResumedIsNotServed, DownHasNothing,
         Alive
<1> QED
  BY <1>0, <1>7, <1>8, <1>9, <1>10 DEF BooksInv, CallsInv

-----------------------------------------------------------------------------
(* Steps of the kernel *)

\* A process that is not in the books and not being served can go.
LEMMA DiesBooks ==
    ASSUME Ordinary, BooksInv, NEW p \in Procs, Dies(p),
           \A f \in Fds : processes[p][f] = None,
           pidInfos[p] = None, memfds[p] = None,
           cur = None \/ cur.tid # p
    PROVE  BooksInv'
<1>0. TypeInv /\ TypeInv'
  BY DiesType DEF BooksInv
<1>1. /\ Tids = Procs /\ \A u \in Tids : Tgid[u] = u
      /\ Threads(p) = {p}
      /\ UNCHANGED <<mm, processes, pidInfos, memfds, up>>
  BY OwnProcess DEF Dies
<1>2. /\ sc'[p] = None /\ \A u \in Tids : u # p => sc'[u] = sc[u]
      /\ cur' = cur
  BY <1>0, <1>1 DEF Dies, Abandon, TypeInv, TypeOK
<1>3. /\ \A q \in Procs : q # p => fdt'[q] = fdt[q] /\ life'[q] = life[q]
      /\ \A f \in Fds : fdt'[p][f] = None
      /\ life'[p] = 0
  BY <1>0 DEF Dies, NoFds, TypeInv, TypeOK
<1>4. \A q \in Procs, f \in Fds : q # p /\ fdt[q][f] # None => files'[fdt'[q][f]] = files[fdt[q][f]]
  <2>1. fdt' \in [Procs -> [Fds -> FileIds \cup {None}]] /\ files \in [FileIds -> File \cup {None}]
    BY <1>0 DEF TypeInv, TypeOK
  <2>2. files' = KeepLive(files, fdt')
    BY DEF Dies
  <2> QED
    BY <1>3, <2>1, <2>2, KeepLiveType
<1>5. \A u \in Tids : Handled(u)' => Handled(u) /\ u # p /\ sc'[u] = sc[u]
  BY <1>2 DEF Handled
<1>6. RegistryMatchesKernel'
  BY <1>1, <1>3, <1>4 DEF BooksInv, RegistryMatchesKernel
<1>7. CachesCurrent'
  BY <1>1, <1>3 DEF BooksInv, CachesCurrent, Alive
<1>8. RewrittenOnlyOnHost'
  <2>1. \A u \in Tids : sc[u] # None => sc[u].fd \in Fds
    BY <1>0, CalledFileType
  <2>2. SUFFICES ASSUME NEW u \in Tids,
                        sc'[u] # None, sc'[u].mem # None, sc'[u].mem # sc'[u].arg
                 PROVE  fdt'[u][sc'[u].fd] # None /\ files'[fdt'[u][sc'[u].fd]].ns = "host"
    BY <1>1 DEF RewrittenOnlyOnHost, CalledFile
  <2>3. u # p /\ sc'[u] = sc[u] /\ u \in Procs
    BY <1>1, <1>2, <2>2
  <2>4. fdt[u][sc[u].fd] # None /\ files[fdt[u][sc[u].fd]].ns = "host"
    BY <1>1, <2>2, <2>3 DEF BooksInv, RewrittenOnlyOnHost, CalledFile
  <2> QED
    BY <1>3, <1>4, <2>1, <2>2, <2>3, <2>4
<1>9. CloseForgotten' /\ ExitForgotten'
  BY <1>1, <1>5 DEF BooksInv, CallsInv, CloseForgotten, ExitForgotten
<1>10. DeadHasNothing' /\ ServedIsAlive' /\ ResumedIsNotServed' /\ DownHasNothing'
  <2>1. cur # None => cur.tid \in Procs
    <3>1. cur # None => cur \in Request
      BY <1>0 DEF TypeInv, TypeOK
    <3> QED
      BY <1>1, <3>1, RequestFields
  <2>2. DeadHasNothing'
    BY <1>1, <1>2, <1>3 DEF BooksInv, CallsInv, DeadHasNothing, Alive
  <2>3. ServedIsAlive'
    BY <1>2, <1>3, <2>1 DEF BooksInv, CallsInv, ServedIsAlive, Alive
  <2>4. ResumedIsNotServed'
    BY <1>2 DEF BooksInv, CallsInv, ResumedIsNotServed
  <2>5. DownHasNothing'
    BY <1>1, <1>2 DEF BooksInv, CallsInv, DownHasNothing
  <2> QED
    BY <2>2, <2>3, <2>4, <2>5
<1> QED
  BY <1>0, <1>6, <1>7, <1>8, <1>9, <1>10 DEF BooksInv, CallsInv

\* A call that ends and takes at most its own descriptor away, with nothing
\* in the books about that descriptor, leaves the books right.
LEMMA EndsBooks ==
    ASSUME Ordinary, BooksInv, TypeInv', NEW t \in Tids, sc[t] # None,
           sc' = [sc EXCEPT ![t] = None],
           UNCHANGED <<life, mm, processes, pidInfos, memfds, up>>,
           cur' = cur,
           \A p \in Procs, f \in Fds :
              \/ fdt'[p][f] = fdt[p][f]
              \/ p = t /\ processes[p][f] = None,
           \A p \in Procs, f \in Fds : fdt'[p][f] # None =>
              fdt[p][f] # None /\ files'[fdt'[p][f]].ns = files[fdt[p][f]].ns
    PROVE  BooksInv'
<1>0. TypeInv
  BY DEF BooksInv
<1>1. Tids = Procs /\ \A u \in Tids : Tgid[u] = u
  BY OwnProcess
<1>2. sc'[t] = None /\ \A u \in Tids : u # t => sc'[u] = sc[u]
  BY <1>0 DEF TypeInv, TypeOK
<1>3. \A u \in Tids : Handled(u)' => Handled(u) /\ u # t /\ sc'[u] = sc[u]
  BY <1>2 DEF Handled
<1>4. RegistryMatchesKernel'
  BY DEF BooksInv, RegistryMatchesKernel
<1>5. CachesCurrent'
  BY DEF BooksInv, CachesCurrent, Alive
<1>6. RewrittenOnlyOnHost'
  <2>1. \A u \in Tids : sc[u] # None => sc[u].fd \in Fds
    BY <1>0, CalledFileType
  <2> QED
    BY <1>1, <1>2, <2>1 DEF BooksInv, RewrittenOnlyOnHost, CalledFile
<1>7. CloseForgotten' /\ ExitForgotten'
  BY <1>1, <1>3 DEF BooksInv, CallsInv, CloseForgotten, ExitForgotten
<1>8. DeadHasNothing' /\ ServedIsAlive' /\ ResumedIsNotServed' /\ DownHasNothing'
  BY <1>1, <1>2 DEF BooksInv, CallsInv, DeadHasNothing, ServedIsAlive, ResumedIsNotServed,
                    DownHasNothing, Alive
<1> QED
  BY <1>4, <1>5, <1>6, <1>7, <1>8 DEF BooksInv, CallsInv

LEMMA ResumeBooks ==
    ASSUME Ordinary, BooksInv, NEW t \in Tids, Resume(t)
    PROVE  BooksInv'
<1>0. TypeInv /\ TypeInv'
  BY ResumeType DEF BooksInv
<1>1. Tids = Procs /\ Tgid[t] = t
  BY OwnProcess
<1>2. sc[t] # None /\ sc[t].st = "resume"
  BY DEF Resume, ResumeConnect, ResumeBind, ResumeSetsockopt, ResumeFcntl, ResumeClose,
         ResumeGetpeername, ResumeExit, Resumed
<1>3. Handled(t)
  BY <1>2 DEF Handled
<1>4. CASE ResumeExit(t)
  <2>1. /\ \A f \in Fds : processes[t][f] = None
        /\ pidInfos[t] = None /\ memfds[t] = None
    BY <1>3, <1>4 DEF ResumeExit, Resumed, BooksInv, CallsInv, ExitForgotten
  <2>2. cur = None \/ cur.tid # t
    BY <1>2 DEF BooksInv, CallsInv, ResumedIsNotServed
  <2> QED
    BY <1>1, <1>4, <2>1, <2>2, DiesBooks DEF ResumeExit
<1>5. CASE ResumeClose(t)
  <2>1. processes[t][sc[t].fd] = None /\ sc[t].fd \in Fds
    BY <1>0, <1>2, <1>3, <1>5, CalledFileType
       DEF ResumeClose, Resumed, BooksInv, CallsInv, CloseForgotten
  <2>2. /\ fdt' = [fdt EXCEPT ![t][sc[t].fd] = None]
        /\ files' = KeepLive(files, fdt')
        /\ sc' = [sc EXCEPT ![t] = None]
        /\ UNCHANGED <<life, mm, processes, pidInfos, memfds, up>> /\ cur' = cur
    BY <1>1, <1>5 DEF ResumeClose, Return, handler
  <2>3. /\ fdt \in [Procs -> [Fds -> FileIds \cup {None}]]
        /\ fdt' \in [Procs -> [Fds -> FileIds \cup {None}]]
        /\ files \in [FileIds -> File \cup {None}]
    BY <1>0 DEF TypeInv, TypeOK
  <2>4. \A p \in Procs, f \in Fds :
           /\ fdt'[p][f] = fdt[p][f] \/ (p = t /\ f = sc[t].fd)
           /\ fdt'[p][f] # None => fdt'[p][f] = fdt[p][f]
    BY <1>1, <2>1, <2>2, <2>3
  <2>5. \A p \in Procs, f \in Fds : fdt'[p][f] # None => files'[fdt'[p][f]] = files[fdt'[p][f]]
    <3>1. \A p \in Procs, f \in Fds : fdt'[p][f] # None =>
             KeepLive(files, fdt')[fdt'[p][f]] = files[fdt'[p][f]]
      BY <2>3, KeepLiveType
    <3> QED
      BY <2>2, <3>1
  <2>6. \A p \in Procs, f \in Fds : fdt'[p][f] # None =>
           fdt[p][f] # None /\ files'[fdt'[p][f]].ns = files[fdt[p][f]].ns
    BY <2>4, <2>5
  <2>7. \A p \in Procs, f \in Fds :
           fdt'[p][f] = fdt[p][f] \/ (p = t /\ processes[p][f] = None)
    BY <2>1, <2>4
  <2> QED
    BY <1>0, <1>2, <2>2, <2>6, <2>7, EndsBooks
<1>6. CASE \/ ResumeConnect(t) \/ ResumeBind(t) \/ ResumeSetsockopt(t) \/ ResumeFcntl(t)
           \/ ResumeGetpeername(t)
  <2>1. /\ UNCHANGED <<fdt, life, mm>>
        /\ sc' = [sc EXCEPT ![t] = None]
        /\ UNCHANGED <<processes, pidInfos, memfds, up>> /\ cur' = cur
    BY <1>6 DEF ResumeConnect, ResumeBind, ResumeSetsockopt, ResumeFcntl, ResumeGetpeername,
                Return, kernel, handler
  <2>2. /\ files \in [FileIds -> File \cup {None}]
        /\ CalledFile(t) # None => CalledFile(t) \in FileIds /\ files[CalledFile(t)] \in File
    BY <1>0, <1>2, CalledFileType DEF TypeInv, TypeOK
  <2>3. \A i \in FileIds : files[i] # None => files'[i].ns = files[i].ns
    <3>1. CASE ResumeConnect(t)
      BY <2>2, <3>1 DEF ResumeConnect, File
    <3>2. CASE ResumeBind(t)
      BY <2>2, <3>2 DEF ResumeBind, File
    <3>3. CASE ResumeSetsockopt(t)
      BY <2>2, <3>3 DEF ResumeSetsockopt, File
    <3>4. CASE ResumeFcntl(t)
      BY <2>2, <3>4 DEF ResumeFcntl, File
    <3>5. CASE ResumeGetpeername(t)
      BY <3>5 DEF ResumeGetpeername, kernel
    <3> QED
      BY <1>6, <3>1, <3>2, <3>3, <3>4, <3>5
  <2>4. \A p \in Procs, f \in Fds : fdt'[p][f] # None =>
           fdt[p][f] # None /\ files'[fdt'[p][f]].ns = files[fdt[p][f]].ns
    BY <1>0, <2>1, <2>3 DEF TypeInv, TypeOK, NoDangling
  <2> QED
    BY <1>0, <1>2, <2>1, <2>4, EndsBooks
<1> QED
  BY <1>4, <1>5, <1>6 DEF Resume

LEMMA EnosysBooks ==
    ASSUME Ordinary, BooksInv, NEW t \in Tids, Enosys(t)
    PROVE  BooksInv'
<1>0. TypeInv /\ TypeInv'
  BY EnosysType DEF BooksInv
<1>1. Tids = Procs /\ Tgid[t] = t
  BY OwnProcess
<1>2. /\ cur = None
      /\ \A f \in Fds : processes[t][f] = None
      /\ pidInfos[t] = None /\ memfds[t] = None
  BY <1>1 DEF Enosys, BooksInv, CallsInv, DownHasNothing
<1>3. CASE Dies(t)
  BY <1>1, <1>2, <1>3, DiesBooks
<1>4. CASE Abandon({t}) /\ UNCHANGED <<kernel, signals, processes, pidInfos, memfds, up, env>>
  <2>1. sc' = [sc EXCEPT ![t] = None] /\ cur' = cur
    BY <1>0, <1>2, <1>4 DEF Abandon, TypeInv, TypeOK
  <2>2. UNCHANGED <<files, fdt, life, mm, processes, pidInfos, memfds, up>> /\ sc[t] # None
    BY <1>4 DEF Enosys, kernel
  <2> QED
    BY <1>0, <2>1, <2>2, EndsBooks
<1> QED
  BY <1>1, <1>3, <1>4 DEF Enosys

-----------------------------------------------------------------------------
(* Steps of the handler *)

LEMMA LoopBooks ==
    ASSUME Ordinary, BooksInv, (\E t \in Tids : Receive(t)) \/ DropInvalid \/ Respond
    PROVE  BooksInv'
<1>0. TypeInv /\ TypeInv'
  BY LoopType DEF BooksInv
<1>1. Tids = Procs /\ \A u \in Tids : Tgid[u] = u
  BY OwnProcess
<1>2. /\ UNCHANGED <<files, fdt, life, mm, processes, pidInfos, memfds, up>> /\ up
  BY DEF Receive, DropInvalid, Respond, kernel
<1>3. RegistryMatchesKernel' /\ CachesCurrent' /\ DownHasNothing'
  BY <1>2 DEF BooksInv, RegistryMatchesKernel, CachesCurrent, DownHasNothing, Alive
<1>4. CASE \E t \in Tids : Receive(t)
  <2>1. PICK t \in Tids : Receive(t)
    BY <1>4
  <2>2. /\ cur = None /\ sc[t] # None /\ sc[t] \in Call
        /\ sc' = [sc EXCEPT ![t].st = "received"]
        /\ cur' = [tid |-> t, call |-> [sc[t] EXCEPT !.st = "received"],
                   valid |-> TRUE, resp |-> "none"]
    BY <1>0, <2>1, CalledFileType DEF Receive, Waiting
  <2> DEFINE call == sc[t]
             moved == [call EXCEPT !.st = "received"]
  <2>3. /\ moved.st = "received" /\ moved.mem = call.mem /\ moved.arg = call.arg
        /\ moved.fd = call.fd
    <3> HIDE DEF call
    <3>1. call \in Call
      BY <2>2 DEF call
    <3> QED
      BY <3>1, CallMoves
  <2>4. sc'[t] = moved /\ \A u \in Tids : u # t => sc'[u] = sc[u]
    BY <1>0, <2>2 DEF TypeInv, TypeOK
  <2>5. cur'.tid = t /\ cur'.resp = "none" /\ Alive(t)
    BY <1>1, <2>2 DEF BooksInv, CallsInv, DeadHasNothing
  <2>6. \A u \in Tids : Handled(u)' => Handled(u) /\ sc'[u] = sc[u]
    <3> HIDE DEF moved
    <3> QED
      BY <2>3, <2>4, <2>5 DEF Handled
  <2>7. RewrittenOnlyOnHost'
    <3> HIDE DEF moved
    <3> QED
      BY <1>1, <1>2, <2>3, <2>4, <2>2 DEF BooksInv, RewrittenOnlyOnHost, CalledFile
  <2>8. CloseForgotten' /\ ExitForgotten'
    BY <1>2, <2>6 DEF BooksInv, CallsInv, CloseForgotten, ExitForgotten
  <2>9. DeadHasNothing' /\ ServedIsAlive'
    BY <1>1, <1>2, <2>4, <2>5 DEF BooksInv, CallsInv, DeadHasNothing, ServedIsAlive, Alive
  <2>10. ResumedIsNotServed'
    <3> HIDE DEF moved
    <3> QED
      BY <2>3, <2>4, <2>5 DEF ResumedIsNotServed
  <2> QED
    BY <1>0, <1>3, <2>7, <2>8, <2>9, <2>10 DEF BooksInv, CallsInv
<1>5. CASE DropInvalid
  <2>1. sc' = sc /\ cur' = None
    BY <1>5 DEF DropInvalid, calls
  <2>2. RewrittenOnlyOnHost' /\ CloseForgotten' /\ ExitForgotten'
    BY <1>2, <2>1 DEF BooksInv, CallsInv, RewrittenOnlyOnHost, CalledFile, CloseForgotten,
                      ExitForgotten, Handled
  <2>3. DeadHasNothing' /\ ServedIsAlive' /\ ResumedIsNotServed'
    BY <1>2, <2>1 DEF BooksInv, CallsInv, DeadHasNothing, ServedIsAlive, ResumedIsNotServed, Alive
  <2> QED
    BY <1>0, <1>3, <2>2, <2>3 DEF BooksInv, CallsInv
<1>6. CASE Respond
  <2>1. cur' = None /\ cur # None /\ cur.resp # "none"
    BY <1>6 DEF Respond
  <2>2. CASE sc' = sc
    <3>1. RewrittenOnlyOnHost' /\ CloseForgotten' /\ ExitForgotten'
      BY <1>2, <2>1, <2>2 DEF BooksInv, CallsInv, RewrittenOnlyOnHost, CalledFile,
                              CloseForgotten, ExitForgotten, Handled
    <3>2. DeadHasNothing' /\ ServedIsAlive' /\ ResumedIsNotServed'
      BY <1>2, <2>1, <2>2
         DEF BooksInv, CallsInv, DeadHasNothing, ServedIsAlive, ResumedIsNotServed, Alive
    <3> QED
      BY <1>0, <1>3, <3>1, <3>2 DEF BooksInv, CallsInv
  <2>3. CASE /\ cur.valid
             /\ \/ sc' = [sc EXCEPT ![cur.tid] = None]
                \/ sc' = [sc EXCEPT ![cur.tid].st = "resume"]
    <3> DEFINE t == cur.tid
               call == sc[t]
               moved == [call EXCEPT !.st = "resume"]
    <3>1. t \in Tids /\ sc[t] # None /\ sc[t] \in Call
      <4>1. cur \in Request /\ sc[cur.tid] # None /\ sc \in [Tids -> Call \cup {None}]
        BY <1>0, <2>1, <2>3 DEF TypeInv, TypeOK, ServedIsStopped
      <4>2. cur.tid \in Tids
        BY <4>1, RequestFields
      <4> QED
        BY <4>1, <4>2
    <3>2. /\ moved.mem = call.mem /\ moved.arg = call.arg
          /\ moved.fd = call.fd /\ moved.nr = call.nr
      <4> HIDE DEF call
      <4>1. call \in Call
        BY <3>1 DEF call
      <4> QED
        BY <4>1, CallMoves
    <3>3. /\ sc'[t] = None \/ sc'[t] = moved
          /\ \A u \in Tids : u # t => sc'[u] = sc[u]
      BY <1>0, <2>3, <3>1 DEF TypeInv, TypeOK
    <3> HIDE DEF moved
    <3>4. \A u \in Tids : Handled(u)' =>
             Handled(u) /\ sc'[u].nr = sc[u].nr /\ sc'[u].fd = sc[u].fd
      BY <2>1, <2>3, <3>1, <3>2, <3>3 DEF Handled
    <3> HIDE DEF t
    <3>5. RewrittenOnlyOnHost'
      BY <1>1, <1>2, <3>1, <3>2, <3>3 DEF BooksInv, RewrittenOnlyOnHost, CalledFile
    <3>6. CloseForgotten' /\ ExitForgotten'
      BY <1>2, <3>4 DEF BooksInv, CallsInv, CloseForgotten, ExitForgotten
    <3>7. DeadHasNothing' /\ ServedIsAlive' /\ ResumedIsNotServed'
      BY <1>1, <1>2, <2>1, <3>1, <3>3
         DEF BooksInv, CallsInv, DeadHasNothing, ServedIsAlive, ResumedIsNotServed, Alive
    <3> QED
      BY <1>0, <1>3, <3>5, <3>6, <3>7 DEF BooksInv, CallsInv
  <2> QED
    BY <1>6, <2>2, <2>3 DEF Respond
<1> QED
  BY <1>4, <1>5, <1>6

LEMMA RefreshBooks ==
    ASSUME Ordinary, BooksInv, RefreshInterfaces \/ RefreshDynamicList
    PROVE  BooksInv'
<1>1. TypeInv'
  BY RefreshType DEF BooksInv
<1>2. UNCHANGED <<files, fdt, life, mm, sc, processes, pidInfos, memfds, cur, up>>
  BY DEF RefreshInterfaces, RefreshDynamicList, kernel, calls, handler
<1> QED
  BY <1>1, <1>2 DEF BooksInv, CallsInv, RegistryMatchesKernel, CachesCurrent,
     RewrittenOnlyOnHost, CloseForgotten, ExitForgotten, DeadHasNothing, ServedIsAlive,
     ResumedIsNotServed, DownHasNothing, Handled, CalledFile, Alive

\* What the pidfd cache may be after a look at thread t of a living process.
ThreadInfos(t) ==
    {i \in PidInfos : /\ \A u \in Tids : u # t => i[u] = pidInfos[u]
                     /\ i[t] \in {None, life[t]}}

\* A look at the thread that is served leaves its current pidfd in the cache.
LEMMA PidInfoBooks ==
    ASSUME Ordinary, TypeInv, NEW t \in Tids, Alive(t),
           NEW infos \in ThreadInfos(t), NEW i \in GetPidFdInfo(t, infos)
    PROVE  i \in ThreadInfos(t) /\ i[t] # None
<1>1. Tgid[t] = t
  BY OwnProcess
<1>2. infos \in PidInfos /\ i \in PidInfos
  BY PidInfoType DEF ThreadInfos
<1>3. i = IF infos[t] = None THEN [infos EXCEPT ![t] = life[t]] ELSE infos
  BY <1>1 DEF GetPidFdInfo, Ordinary, PidfdsOpen
<1>4. life[t] # None
  BY <1>1, SocketAssumption DEF TypeInv, TypeOK
<1> QED
  BY <1>2, <1>3, <1>4 DEF ThreadInfos, PidInfos

LEMMA CachedInfos ==
    ASSUME Ordinary, BooksInv, NEW t \in Tids
    PROVE  pidInfos \in ThreadInfos(t)
BY OwnProcess DEF BooksInv, TypeInv, TypeOK, CachesCurrent, ThreadInfos, PidInfos

\* What is found or registered is of an open descriptor, and Bypassed only
\* if the books said so before.
LEMMA FoundBooks ==
    ASSUME Ordinary, BooksInv, NEW t \in Tids, Alive(t), NEW f \in Fds, NEW nr,
           NEW r \in Found(t, f, nr)
    PROVE  /\ r.infos \in ThreadInfos(t) /\ r.infos[t] # None
           /\ r.sock \in Sock \cup {None}
           /\ r.go => r.sock \in Sock
           /\ r.sock # None =>
                 /\ fdt[t][f] # None
                 /\ r.sock.state = "Bypassed" => files[fdt[t][f]].ns = "host"
<1>0. TypeInv /\ Tgid[t] = t /\ t \in Procs
  BY OwnProcess DEF BooksInv
<1>1. PICK i \in GetPidFdInfo(t, pidInfos) :
         \/ r.infos = i
         \/ \E reg \in RegisterSocket(t, f, i) : r.infos = reg.infos
  BY <1>0 DEF Found
<1>2. i \in ThreadInfos(t) /\ i[t] # None
  BY <1>0, CachedInfos, PidInfoBooks
<1>3. \A reg \in RegisterSocket(t, f, i) :
         reg.infos \in ThreadInfos(t) /\ reg.infos[t] # None
  <2>1. \A reg \in RegisterSocket(t, f, i) : reg.infos \in GetPidFdInfo(t, i)
    BY DEF RegisterSocket
  <2> QED
    BY <1>0, <1>2, <2>1, PidInfoBooks
<1>4. r.infos \in ThreadInfos(t) /\ r.infos[t] # None
  BY <1>1, <1>2, <1>3
<1>5. /\ r.sock \in Sock \cup {None}
      /\ r.go => r.sock \in Sock
      /\ r.sock = processes[t][f] \/ (r.sock # None =>
                                     fdt[t][f] # None /\ r.sock.state # "Bypassed")
  BY <1>0, FoundType
<1> QED
  BY <1>0, <1>4, <1>5 DEF BooksInv, RegistryMatchesKernel

LEMMA MemBooks ==
    ASSUME Ordinary, BooksInv, NEW p \in Procs, Alive(p), NEW m \in MemAccess(p)
    PROVE  m.memfd \in {None, mm[p]}
BY DEF MemAccess, BooksInv, CachesCurrent

\* A request that is neither a close nor an exit: one entry is written, and
\* at most that entry's descriptor is replaced, by a host socket.
LEMMA ServedBooks ==
    ASSUME Ordinary, BooksInv, TypeInv',
           NEW nr, nr \notin {"close", "exit_group"}, Handling(nr),
           NEW resp \in {"continue", "answer"}, Answer(resp),
           NEW t, t = cur.tid, NEW f, f = cur.call.fd, NEW sock, Record(t, f, sock),
           UNCHANGED <<life, mm, up>>,
           pidInfos' \in ThreadInfos(t),
           memfds' \in [Procs -> Nat \cup {None}],
           \A p \in Procs : p # t => memfds'[p] = memfds[p],
           memfds'[t] \in {None, mm[t]},
           sock # None => /\ fdt'[t][f] # None
                          /\ sock.state = "Bypassed" => files'[fdt'[t][f]].ns = "host",
           \A q \in Procs, g \in Fds : q # t \/ g # f =>
              /\ fdt'[q][g] = fdt[q][g]
              /\ fdt[q][g] # None => files'[fdt'[q][g]] = files[fdt[q][g]],
           \A u \in Tids : u # t => sc'[u] = sc[u],
           sc'[t] # None => /\ sc[t] # None /\ sc'[t].st = sc[t].st
                            /\ sc'[t].nr = sc[t].nr /\ sc'[t].fd = sc[t].fd,
           \/ UNCHANGED <<files, fdt, sc>>
           \/ cur.valid /\ fdt'[t][f] # None /\ files'[fdt'[t][f]].ns = "host"
    PROVE  BooksInv'
<1>0. /\ TypeInv /\ Tids = Procs /\ \A u \in Tids : Tgid[u] = u
      /\ t \in Tids /\ t \in Procs /\ f \in Fds /\ cur \in Request /\ cur # None /\ Alive(t)
  BY OwnProcess, HandlingType DEF BooksInv, CallsInv, ServedIsAlive
<1>1. /\ processes'[t][f] = sock
      /\ \A q \in Procs, g \in Fds : q # t \/ g # f => processes'[q][g] = processes[q][g]
  <2>1. \A q \in Procs : DOMAIN processes[q] = Fds
    BY <1>0 DEF TypeInv, TypeOK
  <2>2. DOMAIN processes = Procs
    BY <1>0 DEF TypeInv, TypeOK
  <2> QED
    BY <1>0, <2>1, <2>2 DEF Record
<1>2. cur' # None /\ cur'.tid = t /\ cur'.valid = cur.valid
  <2>1. cur' \in Request /\ cur'.tid = t /\ cur'.valid = cur.valid
    BY <1>0 DEF Answer, Request
  <2> QED
    BY <2>1, NoneAssumption
<1>3. /\ sc[t] # None => sc[t].st # "resume"
      /\ cur.valid => sc[t] # None /\ sc[t].nr = nr /\ sc[t].fd = f
  BY <1>0, HandlingType DEF BooksInv, TypeInv, ServedIsStopped, CallsInv, ResumedIsNotServed
<1>4. \A u \in Tids : Handled(u)' =>
         \/ u # t /\ Handled(u) /\ sc'[u] = sc[u]
         \/ u = t /\ sc'[u].nr = nr
  BY <1>2, <1>3 DEF Handled
<1>5. RegistryMatchesKernel'
  <2> SUFFICES ASSUME NEW q \in Procs, NEW g \in Fds, processes'[q][g] # None
               PROVE  /\ fdt'[q][g] # None
                      /\ processes'[q][g].state = "Bypassed" => files'[fdt'[q][g]].ns = "host"
    BY DEF RegistryMatchesKernel
  <2>1. CASE q = t /\ g = f
    BY <1>1, <2>1
  <2>2. CASE q # t \/ g # f
    <3>1. processes[q][g] # None /\ processes'[q][g] = processes[q][g]
      BY <1>1, <2>2
    <3>2. fdt[q][g] # None /\ (processes[q][g].state = "Bypassed" => files[fdt[q][g]].ns = "host")
      BY <3>1 DEF BooksInv, RegistryMatchesKernel
    <3>3. fdt'[q][g] = fdt[q][g] /\ files'[fdt'[q][g]] = files[fdt[q][g]]
      BY <2>2, <3>2
    <3> QED
      BY <3>1, <3>2, <3>3
  <2> QED
    BY <2>1, <2>2
<1>6. CachesCurrent'
  BY <1>0 DEF BooksInv, CachesCurrent, ThreadInfos, Alive
<1>7. RewrittenOnlyOnHost'
  <2>1. CASE UNCHANGED <<files, fdt, sc>>
    BY <2>1 DEF BooksInv, RewrittenOnlyOnHost, CalledFile
  <2>2. CASE cur.valid /\ fdt'[t][f] # None /\ files'[fdt'[t][f]].ns = "host"
    <3> SUFFICES ASSUME NEW u \in Tids,
                        sc'[u] # None, sc'[u].mem # None, sc'[u].mem # sc'[u].arg
                 PROVE  fdt'[u][sc'[u].fd] # None /\ files'[fdt'[u][sc'[u].fd]].ns = "host"
      BY <1>0 DEF RewrittenOnlyOnHost, CalledFile
    <3>1. CASE u = t
      BY <1>3, <2>2, <3>1
    <3>2. CASE u # t
      <4>1. sc'[u] = sc[u] /\ sc[u] # None /\ u \in Procs
        BY <1>0, <3>2
      <4>2. sc[u].fd \in Fds
        BY <1>0, <4>1, CalledFileType
      <4>3. fdt[u][sc[u].fd] # None /\ files[fdt[u][sc[u].fd]].ns = "host"
        BY <1>0, <4>1 DEF BooksInv, RewrittenOnlyOnHost, CalledFile
      <4> DEFINE g == sc[u].fd
      <4>4. fdt'[u][g] = fdt[u][g] /\ files'[fdt'[u][g]] = files[fdt[u][g]]
        BY <3>2, <4>1, <4>2, <4>3
      <4> QED
        BY <4>1, <4>3, <4>4
    <3> QED
      BY <3>1, <3>2
  <2> QED
    BY <2>1, <2>2
<1>8. CloseForgotten'
  <2>1. \A u \in Tids : sc[u] # None => sc[u].fd \in Fds
    BY <1>0, CalledFileType
  <2> QED
    BY <1>0, <1>1, <1>4, <2>1 DEF BooksInv, CallsInv, CloseForgotten, Handled
<1>9. ExitForgotten'
  BY <1>0, <1>1, <1>4 DEF BooksInv, CallsInv, ExitForgotten, ThreadInfos
<1>10. DeadHasNothing'
  <2> SUFFICES ASSUME NEW p \in Procs, life'[p] = 0
               PROVE  sc'[p] = None /\ \A g \in Fds : fdt'[p][g] = None
    BY DEF DeadHasNothing, Alive
  <2>1. p # t
    BY <1>0 DEF Alive
  <2> QED
    BY <1>0, <2>1 DEF BooksInv, CallsInv, DeadHasNothing, Alive
<1>11. ServedIsAlive' /\ ResumedIsNotServed'
  <2>1. ServedIsAlive'
    BY <1>0, <1>2 DEF ServedIsAlive, Alive
  <2>2. \A u \in Tids : sc'[u] # None /\ sc'[u].st = "resume" => u # t
    BY <1>3
  <2> QED
    BY <1>2, <2>1, <2>2 DEF ResumedIsNotServed
<1>12. DownHasNothing'
  BY DEF DownHasNothing, Handling
<1> QED
  BY <1>5, <1>6, <1>7, <1>8, <1>9, <1>10, <1>11, <1>12 DEF BooksInv, CallsInv

\* A close or an exit: what it takes away is taken out of the books.
LEMMA ForgottenBooks ==
    ASSUME Ordinary, BooksInv, TypeInv', NEW nr, Handling(nr),
           NEW resp \in {"continue", "answer"}, Answer(resp),
           NEW t, t = cur.tid,
           UNCHANGED <<files, fdt, life, mm, sc, up>>,
           \A q \in Procs, g \in Fds : processes'[q][g] \in {None, processes[q][g]},
           pidInfos' \in ThreadInfos(t),
           \A p \in Procs : memfds'[p] \in {None, memfds[p]},
           cur.valid /\ nr = "close" => processes'[t][cur.call.fd] = None,
           cur.valid /\ nr = "exit_group" => /\ \A g \in Fds : processes'[t][g] = None
                                            /\ pidInfos'[t] = None /\ memfds'[t] = None
    PROVE  BooksInv'
<1>0. /\ TypeInv /\ Tids = Procs /\ \A u \in Tids : Tgid[u] = u
      /\ t \in Tids /\ t \in Procs /\ cur \in Request /\ cur # None /\ Alive(t)
  BY OwnProcess, HandlingType DEF BooksInv, CallsInv, ServedIsAlive
<1>1. cur' # None /\ cur'.tid = t /\ cur'.valid = cur.valid
  <2>1. cur' \in Request /\ cur'.tid = t /\ cur'.valid = cur.valid
    BY <1>0 DEF Answer, Request
  <2> QED
    BY <2>1, NoneAssumption
<1>2. /\ sc[t] # None => sc[t].st # "resume"
      /\ cur.valid => sc[t] # None /\ sc[t].nr = nr /\ sc[t].fd = cur.call.fd
  BY <1>0, HandlingType DEF BooksInv, TypeInv, ServedIsStopped, CallsInv, ResumedIsNotServed
<1>3. \A u \in Tids : Handled(u)' =>
         (u # t /\ Handled(u)) \/ (u = t /\ cur.valid)
  BY <1>1, <1>2 DEF Handled
<1>4. RegistryMatchesKernel' /\ RewrittenOnlyOnHost'
  BY DEF BooksInv, RegistryMatchesKernel, RewrittenOnlyOnHost, CalledFile
<1>5. CachesCurrent'
  BY <1>0 DEF BooksInv, CachesCurrent, ThreadInfos, Alive
<1>6. CloseForgotten'
  <2>1. \A u \in Tids : sc[u] # None => sc[u].fd \in Fds
    BY <1>0, CalledFileType
  <2>2. \A u \in Tids : Handled(u) => sc[u] # None
    BY DEF Handled
  <2>3. SUFFICES ASSUME NEW u \in Tids, Handled(u)', sc[u].nr = "close"
                 PROVE  processes'[u][sc[u].fd] = None
    BY DEF CloseForgotten
  <2>4. CASE u # t
    BY <1>0, <1>3, <2>1, <2>2, <2>3, <2>4 DEF BooksInv, CallsInv, CloseForgotten
  <2>5. CASE u = t
    BY <1>2, <1>3, <2>3, <2>5
  <2> QED
    BY <2>4, <2>5
<1>7. ExitForgotten'
  <2> SUFFICES ASSUME NEW u \in Tids, Handled(u)', sc[u].nr = "exit_group"
               PROVE  /\ \A g \in Fds : processes'[u][g] = None
                      /\ pidInfos'[u] = None /\ memfds'[u] = None
    BY DEF ExitForgotten
  <2>1. CASE u # t
    <3>1. /\ \A g \in Fds : processes[u][g] = None
          /\ pidInfos[u] = None /\ memfds[u] = None
      BY <1>3, <2>1 DEF BooksInv, CallsInv, ExitForgotten
    <3>2. pidInfos'[u] = pidInfos[u]
      BY <2>1 DEF ThreadInfos
    <3> QED
      BY <1>0, <3>1, <3>2
  <2>2. CASE u = t
    BY <1>2, <1>3, <2>2
  <2> QED
    BY <2>1, <2>2
<1>8. DeadHasNothing' /\ ServedIsAlive' /\ ResumedIsNotServed' /\ DownHasNothing'
  BY <1>0, <1>1, <1>2 DEF BooksInv, CallsInv, DeadHasNothing, ServedIsAlive,
     ResumedIsNotServed, DownHasNothing, Alive, Handling
<1> QED
  BY <1>4, <1>5, <1>6, <1>7, <1>8 DEF BooksInv, CallsInv

\* The thread that is served, in a container of single-threaded processes.
LEMMA ServedThread ==
    ASSUME Ordinary, BooksInv, NEW nr, Handling(nr)
    PROVE  /\ cur.tid \in Tids /\ cur.tid \in Procs /\ Tgid[cur.tid] = cur.tid
           /\ cur \in Request /\ cur.call.fd \in Fds /\ Alive(cur.tid)
           /\ nr \in {"connect", "bind"} => cur.call.mem \in Addr
           /\ processes \in [Procs -> [Fds -> Sock \cup {None}]]
           /\ memfds \in [Procs -> Nat \cup {None}]
<1>1. /\ cur \in Request /\ cur # None /\ cur.tid \in Tids
      /\ cur.call \in Call /\ cur.call.fd \in Fds /\ cur.call.nr = nr
  BY HandlingType DEF BooksInv
<1>2. nr \in {"connect", "bind"} => cur.call.mem \in Addr
  BY <1>1, CallFields
<1> QED
  BY <1>1, <1>2, OwnProcess DEF BooksInv, TypeInv, TypeOK, CallsInv, ServedIsAlive

LEMMA HandleExitBooks ==
    ASSUME Ordinary, BooksInv, HandleExit
    PROVE  BooksInv'
<1> DEFINE t == cur.tid
<1>0. TypeInv /\ TypeInv' /\ Handling("exit_group") /\ Answer("continue")
  BY HandleExitType DEF BooksInv, HandleExit
<1>1. /\ t \in Tids /\ t \in Procs /\ Tgid[t] = t /\ Alive(t)
      /\ processes \in [Procs -> [Fds -> Sock \cup {None}]]
      /\ memfds \in [Procs -> Nat \cup {None}]
  BY <1>0, ServedThread
<1>2. PICK infos \in GetPidFdInfo(t, pidInfos) :
         /\ pidInfos' = [infos EXCEPT ![t] = None]
         /\ IF infos[t] # None
            THEN /\ processes' = [processes EXCEPT ![t] = NoFds]
                 /\ memfds' = [memfds EXCEPT ![t] = None]
            ELSE UNCHANGED <<processes, memfds>>
  BY <1>1 DEF HandleExit
<1>3. infos \in ThreadInfos(t) /\ infos[t] # None
  BY <1>0, <1>1, CachedInfos, PidInfoBooks
<1>4. pidInfos' \in ThreadInfos(t) /\ pidInfos'[t] = None
  BY <1>1, <1>2, <1>3 DEF ThreadInfos, PidInfos
<1>5. /\ \A g \in Fds : processes'[t][g] = None
      /\ \A q \in Procs, g \in Fds : processes'[q][g] \in {None, processes[q][g]}
      /\ memfds'[t] = None /\ \A p \in Procs : memfds'[p] \in {None, memfds[p]}
  BY <1>1, <1>2, <1>3 DEF NoFds
<1>6. UNCHANGED <<files, fdt, life, mm, sc, up>>
  BY DEF HandleExit, kernel, calls
<1> HIDE DEF t
<1>7. t = cur.tid
  BY DEF t
<1> QED
  BY <1>0, <1>4, <1>5, <1>6, <1>7, ForgottenBooks

LEMMA HandleCloseBooks ==
    ASSUME Ordinary, BooksInv, HandleClose
    PROVE  BooksInv'
<1> DEFINE t == cur.tid
<1>0. TypeInv /\ TypeInv' /\ Handling("close") /\ Answer("continue")
  BY HandleCloseType DEF BooksInv, HandleClose
<1>1. /\ t \in Tids /\ t \in Procs /\ Tgid[t] = t /\ Alive(t) /\ cur.call.fd \in Fds
      /\ processes \in [Procs -> [Fds -> Sock \cup {None}]]
  BY <1>0, ServedThread
<1>2. PICK infos \in GetPidFdInfo(t, pidInfos) :
         /\ pidInfos' = infos
         /\ infos[t] # None => Record(t, cur.call.fd, None)
         /\ infos[t] = None => UNCHANGED processes
  BY <1>1 DEF HandleClose
<1>3. infos \in ThreadInfos(t) /\ infos[t] # None
  BY <1>0, <1>1, CachedInfos, PidInfoBooks
<1>4. /\ processes'[t][cur.call.fd] = None
      /\ \A q \in Procs, g \in Fds : processes'[q][g] \in {None, processes[q][g]}
  BY <1>1, <1>2, <1>3 DEF Record
<1>5. UNCHANGED <<files, fdt, life, mm, sc, memfds, up>>
  BY DEF HandleClose, kernel, calls
<1> HIDE DEF t
<1>6. t = cur.tid
  BY DEF t
<1> QED
  BY <1>0, <1>2, <1>3, <1>4, <1>5, <1>6, ForgottenBooks

LEMMA PanicBooks ==
    ASSUME Ordinary, BooksInv, ConfigurePanic
    PROVE  BooksInv'
<1>1. TypeInv'
  BY ConfigurePanicType DEF BooksInv
<1>2. /\ UNCHANGED <<files, fdt, life, mm, sc>> /\ cur' = None
      /\ \A p \in Procs : memfds'[p] = None /\ \A f \in Fds : processes'[p][f] = None
      /\ \A t \in Tids : pidInfos'[t] = None
  BY DEF ConfigurePanic, kernel, calls, NoFds
<1>3. Tids = Procs /\ \A t \in Tids : Tgid[t] = t
  BY OwnProcess
<1>4. RegistryMatchesKernel' /\ CachesCurrent' /\ RewrittenOnlyOnHost'
  BY <1>2 DEF BooksInv, RegistryMatchesKernel, CachesCurrent, RewrittenOnlyOnHost, CalledFile
<1>5. CloseForgotten' /\ ExitForgotten'
  <2>1. \A u \in Tids : sc[u] # None => sc[u].fd \in Fds
    BY CalledFileType DEF BooksInv
  <2> QED
    BY <1>2, <1>3, <2>1 DEF CloseForgotten, ExitForgotten, Handled
<1>6. DeadHasNothing' /\ ServedIsAlive' /\ ResumedIsNotServed' /\ DownHasNothing'
  BY <1>2, <1>3 DEF BooksInv, CallsInv, DeadHasNothing, ServedIsAlive, ResumedIsNotServed,
     DownHasNothing, Alive
<1> QED
  BY <1>1, <1>4, <1>5, <1>6 DEF BooksInv, CallsInv

\* A request that is served from what was found, without touching the kernel.
LEMMA InsideBooks ==
    ASSUME Ordinary, BooksInv, TypeInv',
           NEW nr, nr \notin {"close", "exit_group"}, Handling(nr),
           NEW resp \in {"continue", "answer"}, Answer(resp),
           NEW r \in Found(cur.tid, cur.call.fd, nr), pidInfos' = r.infos,
           NEW sock, Record(cur.tid, cur.call.fd, sock),
           sock = None \/ (r.sock # None /\ sock.state \in {r.sock.state, "NotBypassable", "Error"}),
           UNCHANGED <<kernel, sc, up>>,
           \/ UNCHANGED memfds
           \/ \E m \in MemAccess(cur.tid) : memfds' = [memfds EXCEPT ![cur.tid] = m.memfd]
    PROVE  BooksInv'
<1> DEFINE t == cur.tid
           f == cur.call.fd
<1>1. /\ t \in Tids /\ t \in Procs /\ f \in Fds /\ Alive(t)
      /\ memfds \in [Procs -> Nat \cup {None}]
  BY ServedThread
<1>2. r.infos \in ThreadInfos(t)
  BY <1>1, FoundBooks
<1>3. sock # None => /\ fdt[t][f] # None
                     /\ sock.state = "Bypassed" => files[fdt[t][f]].ns = "host"
  BY <1>1, FoundBooks
<1>4. /\ memfds' \in [Procs -> Nat \cup {None}]
      /\ \A p \in Procs : p # t => memfds'[p] = memfds[p]
      /\ memfds'[t] \in {None, mm[t]}
  <2>1. CASE UNCHANGED memfds
    BY <1>1, <2>1 DEF BooksInv, CachesCurrent
  <2>2. ASSUME NEW m \in MemAccess(t), memfds' = [memfds EXCEPT ![t] = m.memfd]
        PROVE  /\ memfds' \in [Procs -> Nat \cup {None}]
               /\ \A p \in Procs : p # t => memfds'[p] = memfds[p]
               /\ memfds'[t] \in {None, mm[t]}
    <3>1. m.memfd \in {None, mm[t]} /\ mm[t] \in Nat
      BY <1>1, MemBooks DEF BooksInv, TypeInv, TypeOK
    <3> QED
      BY <1>1, <2>2, <3>1
  <2> QED
    BY <2>1, <2>2
<1>5. UNCHANGED <<files, fdt, life, mm, sc, up>>
  BY DEF kernel
<1> HIDE DEF t, f
<1>6. t = cur.tid /\ f = cur.call.fd
  BY DEF t, f
<1> QED
  BY <1>2, <1>3, <1>4, <1>5, <1>6, ServedBooks

LEMMA HandleSetsockoptBooks ==
    ASSUME Ordinary, BooksInv, HandleSetsockopt
    PROVE  BooksInv'
<1>0. TypeInv /\ TypeInv' /\ Handling("setsockopt") /\ Answer("continue")
  BY HandleSetsockoptType DEF BooksInv, HandleSetsockopt
<1>1. cur.tid \in Tids /\ Tgid[cur.tid] = cur.tid /\ cur.call.fd \in Fds /\ Alive(cur.tid)
  BY <1>0, ServedThread
<1>2. PICK r \in Found(cur.tid, cur.call.fd, "setsockopt") :
         /\ pidInfos' = r.infos
         /\ \/ Record(cur.tid, cur.call.fd, r.sock) /\ UNCHANGED memfds
            \/ /\ r.go
               /\ \E m \in MemAccess(cur.tid) : \E o :
                     /\ memfds' = [memfds EXCEPT ![cur.tid] = m.memfd]
                     /\ Record(cur.tid, cur.call.fd,
                               [r.sock EXCEPT !.socketOptions = Append(@, o)])
  BY <1>1 DEF HandleSetsockopt
<1>3. /\ r.sock \in Sock \cup {None}
      /\ r.go => r.sock \in Sock
  BY <1>1, FoundBooks
<1>4. UNCHANGED <<kernel, sc, up>>
  BY DEF HandleSetsockopt, calls
<1>5. CASE Record(cur.tid, cur.call.fd, r.sock) /\ UNCHANGED memfds
  BY <1>0, <1>2, <1>3, <1>4, <1>5, InsideBooks
<1>6. CASE /\ r.go
           /\ \E m \in MemAccess(cur.tid) : \E o :
                 /\ memfds' = [memfds EXCEPT ![cur.tid] = m.memfd]
                 /\ Record(cur.tid, cur.call.fd,
                           [r.sock EXCEPT !.socketOptions = Append(@, o)])
  <2>1. PICK o : Record(cur.tid, cur.call.fd, [r.sock EXCEPT !.socketOptions = Append(@, o)])
    BY <1>6
  <2> DEFINE sock == [r.sock EXCEPT !.socketOptions = Append(@, o)]
  <2>2. sock.state = r.sock.state /\ r.sock # None
    BY <1>3, <1>6, NoneAssumption DEF Sock
  <2> HIDE DEF sock
  <2>3. Record(cur.tid, cur.call.fd, sock)
    BY <2>1 DEF sock
  <2> QED
    BY <1>0, <1>2, <1>4, <1>6, <2>2, <2>3, InsideBooks
<1> QED
  BY <1>2, <1>5, <1>6

LEMMA HandleFcntlBooks ==
    ASSUME Ordinary, BooksInv, HandleFcntl
    PROVE  BooksInv'
<1>0. TypeInv /\ TypeInv' /\ Handling("fcntl") /\ Answer("continue")
  BY HandleFcntlType DEF BooksInv, HandleFcntl
<1>1. cur.tid \in Tids /\ Tgid[cur.tid] = cur.tid /\ cur.call.fd \in Fds /\ Alive(cur.tid)
  BY <1>0, ServedThread
<1>2. PICK r \in Found(cur.tid, cur.call.fd, "fcntl") :
         /\ pidInfos' = r.infos
         /\ \/ Record(cur.tid, cur.call.fd, r.sock)
            \/ r.go /\ \E on : Record(cur.tid, cur.call.fd,
                                    [r.sock EXCEPT !.fcntlOptions = Append(@, on)])
  BY <1>1 DEF HandleFcntl
<1>3. /\ r.sock \in Sock \cup {None}
      /\ r.go => r.sock \in Sock
  BY <1>1, FoundBooks
<1>4. UNCHANGED <<kernel, sc, memfds, up>>
  BY DEF HandleFcntl, calls
<1>5. CASE Record(cur.tid, cur.call.fd, r.sock)
  BY <1>0, <1>2, <1>3, <1>4, <1>5, InsideBooks
<1>6. CASE r.go /\ \E on : Record(cur.tid, cur.call.fd,
                                [r.sock EXCEPT !.fcntlOptions = Append(@, on)])
  <2>1. PICK on : Record(cur.tid, cur.call.fd, [r.sock EXCEPT !.fcntlOptions = Append(@, on)])
    BY <1>6
  <2> DEFINE sock == [r.sock EXCEPT !.fcntlOptions = Append(@, on)]
  <2>2. sock.state = r.sock.state /\ r.sock # None
    BY <1>3, <1>6, NoneAssumption DEF Sock
  <2> HIDE DEF sock
  <2>3. Record(cur.tid, cur.call.fd, sock)
    BY <2>1 DEF sock
  <2> QED
    BY <1>0, <1>2, <1>4, <2>2, <2>3, InsideBooks
<1> QED
  BY <1>2, <1>5, <1>6

LEMMA HandleGetpeernameBooks ==
    ASSUME Ordinary, BooksInv, HandleGetpeername
    PROVE  BooksInv'
<1>0. TypeInv /\ TypeInv' /\ Handling("getpeername")
  BY HandleGetpeernameType DEF BooksInv, HandleGetpeername
<1>1. cur.tid \in Tids /\ Tgid[cur.tid] = cur.tid /\ cur.call.fd \in Fds /\ Alive(cur.tid)
  BY <1>0, ServedThread
<1>2. PICK r \in Found(cur.tid, cur.call.fd, "getpeername") :
         /\ pidInfos' = r.infos
         /\ Record(cur.tid, cur.call.fd, r.sock)
         /\ \/ UNCHANGED memfds
            \/ \E m \in MemAccess(cur.tid) : memfds' = [memfds EXCEPT ![cur.tid] = m.memfd]
         /\ \E resp \in {"continue", "answer"} : Answer(resp)
  BY <1>1 DEF HandleGetpeername
<1>3. UNCHANGED <<kernel, sc, up>>
  BY DEF HandleGetpeername, calls
<1> QED
  BY <1>0, <1>2, <1>3, InsideBooks

\* A connect or a bind that replaces the descriptor's socket by the host's.
LEMMA SwitchedBooks ==
    ASSUME Ordinary, BooksInv, TypeInv',
           NEW nr, nr \notin {"close", "exit_group"}, Handling(nr),
           NEW resp \in {"continue", "answer"}, Answer(resp),
           NEW r \in Found(cur.tid, cur.call.fd, nr), pidInfos' = r.infos,
           NEW m \in MemAccess(cur.tid), memfds' = [memfds EXCEPT ![cur.tid] = m.memfd],
           NEW made \in Sock, NEW bound \in Addr \cup {None}, CanSwitch(made),
           AddFd(cur.tid, cur.call.fd, made, bound),
           NEW sock, Record(cur.tid, cur.call.fd, sock), up' = up,
           \/ sc' = sc
           \/ nr = "connect" /\ \E a \in Addr : sc' = [sc EXCEPT ![cur.tid].mem = a]
    PROVE  BooksInv'
<1> DEFINE t == cur.tid
           f == cur.call.fd
<1>0. TypeInv
  BY DEF BooksInv
<1>1. /\ t \in Tids /\ t \in Procs /\ f \in Fds /\ Alive(t)
      /\ memfds \in [Procs -> Nat \cup {None}]
  BY ServedThread
<1>2. r.infos \in ThreadInfos(t)
  BY <1>1, FoundBooks
<1>3. /\ memfds' \in [Procs -> Nat \cup {None}]
      /\ \A p \in Procs : p # t => memfds'[p] = memfds[p]
      /\ memfds'[t] \in {None, mm[t]}
  <2>1. m.memfd \in {None, mm[t]} /\ mm[t] \in Nat
    BY <1>1, MemBooks DEF BooksInv, TypeInv, TypeOK
  <2> QED
    BY <1>1, <2>1
<1>4. cur.valid /\ Replays(made.socketOptions)
  BY DEF CanSwitch
<1>5. /\ UNCHANGED <<life, mm>>
      /\ fdt'[t][f] # None /\ files'[fdt'[t][f]].ns = "host"
      /\ \A q \in Procs, g \in Fds : q # t \/ g # f =>
            /\ fdt'[q][g] = fdt[q][g]
            /\ fdt[q][g] # None => files'[fdt'[q][g]] = files[fdt[q][g]]
  BY <1>0, <1>1, <1>4, AddFdType
<1>6. sc[t] # None /\ sc[t] \in Call /\ sc[t].nr = nr
  BY <1>0, <1>4, HandlingType DEF TypeInv, ServedIsStopped
<1>7. /\ \A u \in Tids : u # t => sc'[u] = sc[u]
      /\ sc'[t] # None => /\ sc[t] # None /\ sc'[t].st = sc[t].st
                          /\ sc'[t].nr = sc[t].nr /\ sc'[t].fd = sc[t].fd
  <2>1. CASE sc' = sc
    BY <2>1
  <2>2. ASSUME nr = "connect", NEW a \in Addr, sc' = [sc EXCEPT ![t].mem = a]
        PROVE  /\ \A u \in Tids : u # t => sc'[u] = sc[u]
               /\ sc'[t] # None => /\ sc[t] # None /\ sc'[t].st = sc[t].st
                                   /\ sc'[t].nr = sc[t].nr /\ sc'[t].fd = sc[t].fd
    <3> DEFINE c == [sc[t] EXCEPT !.mem = a]
    <3>1. c.st = sc[t].st /\ c.nr = sc[t].nr /\ c.fd = sc[t].fd
      BY <1>6, <2>2, CallRewritten
    <3>2. sc'[t] = c /\ \A u \in Tids : u # t => sc'[u] = sc[u]
      BY <1>0, <1>1, <2>2 DEF TypeInv, TypeOK
    <3> QED
      BY <1>6, <3>1, <3>2
  <2> QED
    BY <2>1, <2>2
<1> HIDE DEF t, f
<1>8. t = cur.tid /\ f = cur.call.fd
  BY DEF t, f
<1> QED
  BY <1>2, <1>3, <1>4, <1>5, <1>7, <1>8, ServedBooks

LEMMA HandleConnectBooks ==
    ASSUME Ordinary, BooksInv, HandleConnect
    PROVE  BooksInv'
<1> DEFINE t == cur.tid
           f == cur.call.fd
<1>0. TypeInv /\ TypeInv' /\ Handling("connect") /\ Answer("continue") /\ up' = up
  BY HandleConnectType DEF BooksInv, HandleConnect
<1>1. t \in Tids /\ Tgid[t] = t /\ f \in Fds /\ Alive(t) /\ cur.call.mem \in Addr
  BY <1>0, ServedThread
<1>2. PICK r \in Found(t, f, "connect") :
         /\ pidInfos' = r.infos
         /\ \/ /\ Record(t, f, r.sock) /\ UNCHANGED <<kernel, sc>>
               /\ \/ UNCHANGED memfds
                  \/ \E m \in MemAccess(t) : memfds' = [memfds EXCEPT ![t] = m.memfd]
            \/ /\ r.go
               /\ \E m \in MemAccess(t) : memfds' = [memfds EXCEPT ![t] = m.memfd]
               /\ ConnectTo(t, t, f, r.sock, cur.call.mem)
  BY <1>1 DEF HandleConnect
<1>3. CASE /\ Record(t, f, r.sock) /\ UNCHANGED <<kernel, sc>>
           /\ \/ UNCHANGED memfds
              \/ \E m \in MemAccess(t) : memfds' = [memfds EXCEPT ![t] = m.memfd]
  BY <1>0, <1>2, <1>3, InsideBooks
<1>4. CASE /\ r.go
           /\ \E m \in MemAccess(t) : memfds' = [memfds EXCEPT ![t] = m.memfd]
           /\ ConnectTo(t, t, f, r.sock, cur.call.mem)
  <2> DEFINE dest == cur.call.mem
             sock == [r.sock EXCEPT !.addr = dest]
             As(s) == [sock EXCEPT !.state = s]
  <2>1. sock \in Sock /\ \A s \in State : As(s).state = s
    <3>1. r.sock \in Sock
      BY <1>1, <1>4, FoundBooks
    <3>2. sock \in Sock
      BY <1>1, <3>1, SockChanges
    <3> HIDE DEF sock
    <3> QED
      BY <3>2 DEF Sock
  <2>2. r.sock # None
    BY <1>1, <1>4, FoundBooks, NoneAssumption
  <2>3. PICK reply \in Replies(dest) :
           \/ /\ \E s \in {"Error", "NotBypassable"} : Record(t, f, As(s))
              /\ UNCHANGED <<kernel, sc>>
           \/ /\ reply # Invalid
              /\ CanSwitch(sock)
              /\ AddFd(t, f, sock, None)
              /\ RewriteDestination(t, dest, reply, sock, t, f)
    BY <1>4 DEF ConnectTo
  <2>4. CASE /\ \E s \in {"Error", "NotBypassable"} : Record(t, f, As(s))
             /\ UNCHANGED <<kernel, sc>>
    <3>1. PICK s \in {"Error", "NotBypassable"} : Record(t, f, As(s))
      BY <2>4
    <3>2. As(s).state \in {"Error", "NotBypassable"}
      BY <2>1 DEF State
    <3> HIDE DEF As
    <3> QED
      BY <1>0, <1>2, <1>4, <2>2, <2>4, <3>1, <3>2, InsideBooks
  <2>5. CASE /\ reply # Invalid
             /\ CanSwitch(sock)
             /\ AddFd(t, f, sock, None)
             /\ RewriteDestination(t, dest, reply, sock, t, f)
    <3>1. /\ Target(dest, interfaces, reply) \in Addr
          /\ Redirected(dest, interfaces, reply) =>
                PortRewritten(dest, interfaces, reply) \in Addr
      BY <1>0, <1>1, <2>5, TargetType DEF TypeInv, TypeOK
    <3>2. RewritesIP(dest, interfaces, reply) => Redirected(dest, interfaces, reply)
      BY DEF RewritesIP, Redirected
    <3> HIDE DEF sock, dest
    <3>3. /\ \E x : Record(t, f, x)
          /\ sc' = sc \/ \E a \in Addr : sc' = [sc EXCEPT ![t].mem = a]
      BY <2>5, <3>1, <3>2 DEF RewriteDestination
    <3> QED
      BY <1>0, <1>2, <1>4, <2>1, <2>5, <3>3, SwitchedBooks
  <2> QED
    BY <2>3, <2>4, <2>5
<1> QED
  BY <1>2, <1>3, <1>4

LEMMA HandleBindBooks ==
    ASSUME Ordinary, BooksInv, HandleBind
    PROVE  BooksInv'
<1> DEFINE t == cur.tid
           f == cur.call.fd
           Inside(sock) == /\ Record(t, f, sock)
                           /\ Answer("continue") /\ UNCHANGED kernel
           Left(sock) == [sock EXCEPT !.state = "NotBypassable"]
<1>0. TypeInv /\ TypeInv' /\ Handling("bind") /\ UNCHANGED <<sc, up>>
  BY HandleBindType DEF BooksInv, HandleBind, calls
<1>1. t \in Tids /\ Tgid[t] = t /\ f \in Fds /\ Alive(t) /\ cur.call.mem \in Addr
  BY <1>0, ServedThread
<1>2. PICK r \in Found(t, f, "bind") :
         /\ pidInfos' = r.infos
         /\ \/ UNCHANGED memfds
            \/ \E m \in MemAccess(t) : memfds' = [memfds EXCEPT ![t] = m.memfd]
         /\ \/ Inside(r.sock)
            \/ r.go /\ Inside(Left(r.sock))
            \/ /\ r.go
               /\ \E m \in MemAccess(t) : memfds' = [memfds EXCEPT ![t] = m.memfd]
               /\ BindTo(t, f, r.sock, cur.call.mem)
  BY <1>1 DEF HandleBind
<1>3. r.go => r.sock \in Sock /\ r.sock # None
  BY <1>1, FoundBooks, NoneAssumption
<1>4. CASE Inside(r.sock)
  BY <1>0, <1>2, <1>4, InsideBooks
<1>5. ASSUME r.go, NEW sock \in Sock, Inside(Left(sock))
      PROVE  BooksInv'
  <2> DEFINE left == Left(sock)
  <2>1. left.state = "NotBypassable"
    BY <1>5 DEF Sock
  <2> HIDE DEF left
  <2>2. Inside(left)
    BY <1>5 DEF left
  <2> QED
    BY <1>0, <1>2, <1>3, <1>5, <2>1, <2>2, InsideBooks
<1>6. CASE /\ r.go
           /\ \E m \in MemAccess(t) : memfds' = [memfds EXCEPT ![t] = m.memfd]
           /\ BindTo(t, f, r.sock, cur.call.mem)
  <2> DEFINE sa == cur.call.mem
             sock == [r.sock EXCEPT !.addr = sa]
  <2>1. sock \in Sock
    BY <1>1, <1>3, <1>6, SockChanges
  <2>2. \/ Inside(Left(sock))
        \/ /\ sa.port \in DOMAIN ForwardingPorts /\ CanSwitch(sock)
           /\ AddFd(t, f, sock, HostAddr(sa))
           /\ \E x : Record(t, f, x)
           /\ Answer("answer")
    BY <1>6 DEF BindTo
  <2>3. sa.port \in DOMAIN ForwardingPorts => HostAddr(sa) \in Addr
    BY <1>1, RoutingAssumption DEF HostAddr, Addr
  <2> HIDE DEF sock, Left, Inside
  <2>4. CASE Inside(Left(sock))
    BY <1>5, <1>6, <2>1, <2>4
  <2>5. CASE /\ sa.port \in DOMAIN ForwardingPorts /\ CanSwitch(sock)
             /\ AddFd(t, f, sock, HostAddr(sa))
             /\ \E x : Record(t, f, x)
             /\ Answer("answer")
    BY <1>0, <1>2, <1>6, <2>1, <2>3, <2>5, SwitchedBooks
  <2> QED
    BY <2>2, <2>4, <2>5
<1> QED
  BY <1>2, <1>3, <1>4, <1>5, <1>6

-----------------------------------------------------------------------------

\* The books' invariant is inductive in an ordinary container.
LEMMA BooksInit ==
    ASSUME Ordinary, Init
    PROVE  BooksInv
<1>1. TypeInv
  BY DEF Init, TypeInv, TypeOK, NoDangling, ServedIsStopped, NoFds, Interfaces
<1>2. RegistryMatchesKernel /\ CachesCurrent /\ RewrittenOnlyOnHost
  BY DEF Init, RegistryMatchesKernel, CachesCurrent, RewrittenOnlyOnHost, NoFds
<1>3. CallsInv
  BY OwnProcess DEF Init, CallsInv, CloseForgotten, ExitForgotten, DeadHasNothing,
     ServedIsAlive, ResumedIsNotServed, DownHasNothing, Handled, NoFds
<1> QED
  BY <1>1, <1>2, <1>3 DEF BooksInv

LEMMA BooksStep ==
    ASSUME Ordinary, BooksInv, [Next]_vars
    PROVE  BooksInv'
<1>1. CASE HandlerStep
  BY <1>1, LoopBooks, HandleExitBooks, HandleCloseBooks, HandleSetsockoptBooks,
     HandleFcntlBooks, HandleConnectBooks, HandleBindBooks, HandleGetpeernameBooks, PanicBooks
     DEF HandlerStep
<1>2. CASE AppStep
  <2>1. /\ \A p \in Procs : ~Kill(p)
        /\ \A t \in Tids : ~Execve(t)
        /\ \A t \in Tids, f \in Fds : ~CloseUnseen(t, f)
    BY DEF Kill, Execve, CloseUnseen, Ordinary, NothingUnseen
  <2> QED
    BY <1>2, <2>1, SpawnBooks, InterruptBooks, NewFdBooks, TrapBooks DEF AppStep
<1>3. CASE \E t \in Tids : KernelStep(t)
  BY <1>3, ResumeBooks, EnosysBooks DEF KernelStep
<1>4. CASE RefreshInterfaces \/ RefreshDynamicList
  BY <1>4, RefreshBooks
<1>5. CASE UNCHANGED vars
  <2>1. TypeInv' /\ UNCHANGED <<files, fdt, life, mm, sc, processes, pidInfos, memfds, cur, up>>
    BY <1>5 DEF BooksInv, TypeInv, TypeOK, NoDangling, ServedIsStopped, vars, kernel, calls,
                handler, env
  <2> QED
    BY <2>1 DEF BooksInv, CallsInv, RegistryMatchesKernel, CachesCurrent,
       RewrittenOnlyOnHost, CloseForgotten, ExitForgotten, DeadHasNothing, ServedIsAlive,
       ResumedIsNotServed, DownHasNothing, Handled, CalledFile, Alive
<1> QED
  BY <1>1, <1>2, <1>3, <1>4, <1>5 DEF Next

LEMMA BooksInvariant ==
    ASSUME Ordinary
    PROVE  Safety => []BooksInv
<1>1. Init => BooksInv
  BY BooksInit
<1>2. BooksInv /\ [Next]_vars => BooksInv'
  BY BooksStep
<1> QED
  BY <1>1, <1>2, PTL DEF Safety

\* The books never describe a descriptor that is closed, and what they call
\* Bypassed is a host socket (processes, handleReq), whatever calls fail and
\* however signals interrupt them.
THEOREM RegistryCorrect ==
    ASSUME Ordinary
    PROVE  Safety => []RegistryMatchesKernel
<1>1. BooksInv => RegistryMatchesKernel
  BY DEF BooksInv
<1> QED
  BY <1>1, BooksInvariant, PTL

\* Process ids that come back are never served from the caches of their
\* predecessors (pidInfos, memfds).
THEOREM CachesNeverStale ==
    ASSUME Ordinary
    PROVE  Safety => []CachesCurrent
<1>1. BooksInv => CachesCurrent
  BY DEF BooksInv
<1> QED
  BY <1>1, BooksInvariant, PTL

\* A rewritten destination is only ever used by a host socket
\* (handleSysConnect).
THEOREM RewriteStaysOnHost ==
    ASSUME Ordinary
    PROVE  Safety => []RewrittenOnlyOnHost
<1>1. BooksInv => RewrittenOnlyOnHost
  BY DEF BooksInv
<1> QED
  BY <1>1, BooksInvariant, PTL
=============================================================================
