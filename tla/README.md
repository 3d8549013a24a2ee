# Verification of bypass4netns

bypass4netns lets the sockets of a rootless container leave the container's
network namespace: a seccomp filter stops seven system calls, a handler on the
host looks at each, and a socket that may be bypassed is replaced, under the
stopped call, by a socket of the host. A daemon, bypass4netnsd, starts one
handler per container and passes addresses between them.

This directory holds TLA+ models of the handler, of what starts it and runs
beside it, and of the daemon's driver, TLC configurations that check them on
small instances, and TLAPS proofs of what matters most for every value of the
constants. Paths below are relative to the repository; `B` is
`pkg/bypass4netns/bypass4netns.go`, `S` is `pkg/bypass4netns/socket.go`, `N` is
`pkg/bypass4netns/nonbypassable/nonbypassable.go`, `D` is
`pkg/bypass4netnsd/bypass4netnsd.go`.

## 1. Inventory

| Component | State it keeps | Operations | What makes it correct |
|---|---|---|---|
| Notification handler (`B`, `S`, `sockaddr.go`, `seccomp.go`) | `processes[pid].sockets[fd]`, `pidInfos`, `memfds`, of one container; no lock, one goroutine | `handle` (receive, validate, answer), `handleReq` and one `handleSys*` per trapped call | the books agree with the kernel's descriptor tables; a rewritten destination is used by a host socket only; options survive a replacement; no call stays stopped |
| Routing of a connect (`S` 143-308, `nonbypassable.go`) | none (reads `containerInterfaces`, `forwardingPorts`, etcd, both CIDR lists) | one decision per connect | addresses that stay inside are not bypassed; a redirect names a published port |
| Non-bypassable list (`N`, `nsagent`) | `staticList`, whose array all handlers of a process share, `dynamicList` under an RWMutex | `Contains`, `WatchNS` (agent process, SIGHUP) | a lookup answers for the two lists; the dynamic one follows the container's interfaces at every reload |
| Container-to-container task (`B` 886-983, `iproute2`) | `containerInterfaces`, swapped once a second; `ifLastUpdateUnix` | post own addresses every 10 s, list those of others, ask the tracer | what is gone leaves the map in bounded time; after failures the map agrees with the daemon again |
| Multinode task (`B` 1013-1068) | etcd keys with a lease of 15 s | put every 10 s | the keys outlive the period while etcd is prompt; a lost one comes back; those of a stopped container go |
| Handler start-up (`B` 778-884) | ready channels, one goroutine for all containers | accept, receive descriptors and state, start the tasks, then the handler | no container waits for ever because of another |
| Connection tracer (`tracer/`) | listeners in the container's namespace | register ports, probe addresses | a probe's answer is about that address |
| Daemon driver (`D`) | `bypass` under `lock`, `containerInterfaces` under `interfacesLock`, one child process per entry | `StartBypass`, `StopBypass`, `ListBypass`, `PostInterface`, `DeleteInterface`, and readers | an entry names a living child; nothing runs that no entry names; answers as if requests came one at a time |
| REST API (`api/com`, `api/daemon`) | none | JSON over a unix socket in front of the driver | |
| mem-nsenter agent (`B` 167-225) | none | opens `/proc/<pid>/mem` in the container's user namespace | |
| Seccomp profile (`oci.go`) | none | list of trapped calls, merge with a profile | the seven calls are trapped |
| Command lines (`cmd/`) | pid file, socket path | flags, signal handler | |

How they interact. The application's thread stops in a trapped call and the
kernel queues a notification; the handler reads `/proc/<pid>/mem` and duplicates
descriptors through pidfds, while signals, `execve` and other threads may end the
call at any moment; it installs a socket with `SECCOMP_IOCTL_NOTIF_ADDFD` and
writes the sockaddr back into the application's memory before it lets the call go
on. Two background goroutines write `containerInterfaces` and `dynamicList`,
which the handler reads. `StartHandle` takes one container after another, and
waits, for each, for the tracer and for the first round of the background task.
SIGHUP to the process goes on to the nsagents. The daemon talks to a handler only
through its command line, a ready pipe, SIGTERM and `wait`; handlers talk to the
daemon by REST, and to handlers on other hosts through etcd.

What is hard: an application that does anything between two steps of the handler;
process ids and descriptor numbers that are reused; books that are not told of
everything (descriptors created, duplicated or closed without a trap); failures
halfway through a switch; one goroutine that must never get stuck; requests of
the daemon that overlap, with a lock that is not held from end to end in
`StartBypass` and held across an unlimited wait in `StopBypass`; paths and process
ids that a successor takes over; addresses that a successor takes over while maps
and leases still name the predecessor; calls that were served although the caller
saw an error, or long after it gave up; peers that never answer, where the code sets no
deadline; signals that meet a process which does not listen yet. `PROJECT.json` lists the hazards line by line.

## 2. Modules

| Module | Models | |
|---|---|---|
| `Routing` | where a connect goes: `S` 151-304, `Contains` | pure operators |
| `Container` | the processes and the kernel around the handler (external), and the declarations both sides share | actions of the application and the kernel |
| `SocketSwitch` | `handle`, `handleReq`, `registerSocket`, all of `socket.go` | one action per handler; composes `Container` and `Routing` |
| `MCSocketSwitch`, `MC*.cfg` | instances for TLC | |
| `Leases`, `MCLeases` | `startBackgroundMultinodeTask` and the keys in etcd, in seconds | one action per call of etcd, and a clock |
| `InterfaceSync`, `MCInterfaceSync` | `startBackgroundC2CConnectionHandleTask` of watched handlers, the daemon's table, requests on their way | one action per call of the daemon, and a clock |
| `NonBypassable` | `N`, `nsagent` | one action per step between two points where others can act |
| `Startup`, `MCStartup` | `StartHandle`, the tracer's start, the end of the process; composes `NonBypassable` | one action per wait |
| `SocketSwitchProofs` | types, frozen entries | TLAPS |
| `RegistryProofs` | books against the kernel | TLAPS |
| `SwitchProofs` | what a replacement keeps: connections, kind, flag, options | TLAPS |
| `BypassService` | what the daemon promises: an atomic set of containers served | abstract specification |
| `Driver` | `D`, the requests' goroutines, and the life of a handler process as the driver sees it | one action per step between two points where others can act |
| `MCDriver`, `MCTurns`, `MCClash`, `MCLatePost` | instances for TLC | |
| `DriverProofs` | types, entries name children, `Driver` implements `BypassService` | TLAPS |
| `TurnsProofs` | no handler is lost, each is reachable, for clients that take turns | TLAPS |
| `LeasesProofs`, `InterfaceSyncProofs`, `StartupProofs` | types of all three; registered keys stay, stopped containers' go; stale entries go; reloads and lookups | TLAPS |

A definition whose comment begins "A slip" is a mistake somebody could make in the
definition that follows it. No specification uses it; put in place of that
definition, it makes a property fail (`PROJECT.json`, "mutants"), which shows that
the property notices.

### The handler

State. `files`, `fdt`, `cloexec`, `life`, `mm` are the kernel's; a process id has
an incarnation (`life`) and an address space (`mm`), so that a cached pidfd or
memory file can be seen to be of an earlier one. `sc[t]` is the trapped call thread
`t` is stopped in: queued, received, resumed; its argument as the application
passed it (`arg`) and as it is in memory now (`mem`). `processes`, `pidInfos` and
`memfds` are the maps of `notifHandler`; `cur` is the request in `handle`'s hands.

Actions. `Receive`, `DropInvalid` and `Respond` are the loop. One `Handle*` per
system call is the whole of `handleReq` for it, with every outcome of every call it
makes: lookup of the pidfd, registration, the copy of memory, the socket on the
host, replaying options, ADDFD, the two writes of the destination. A handler's
work on one notification is one step, because only the kernel's side can move in
between and what it does there is part of the step: ADDFD fails exactly when the
notification is no longer valid, and a signal may invalidate it before or after the
step. `Interrupt` is that signal: the call is restarted with memory as it is then, or
fails. `ConfigurePanic` is `optval[0]` of an empty option value (`S` 433): the process
is gone, its notification descriptor closed, and every trapped call returns ENOSYS.

Abstractions. Addresses are members of a small set with an `ip` and a `port`; IPv6 is
one kind of socket that is not bypassed. An option is opaque, accepted or refused by
the kernel. Memory outside the stopped call's argument is not modelled. The two
background tasks install any of a set of maps or lists at any time
(`RefreshInterfaces`, `RefreshDynamicList`). `connect` with AF_UNSPEC, threads that
exit alone, and `_exit` (which no rule of the profile ever matches) are left out.
What a SO_REUSE option makes of a second bind is nondeterministic.

### The driver

State. `bypass`, `lock` and `ifs` are the fields of `Driver`; `req[r]` is the goroutine
that serves a request, with a program counter named after what it does next;
`procs` are the host's processes, `sockFile` who listens at a container's socket path.

Actions. `StartBypass` is `StartSpawn` (pipe and `exec`, without the lock), `StartReady`,
`StartTimeout`, `StartPoll` and `StartFails` (`waitForReadyFD`), and `StartRecord` (under
the lock, over whatever entry there is). `StopBypass` is `StopLookup` (takes the lock),
`StopSignal`, `StopWait`, `StopDelete`, `StopInterfaces` (gives it back). A child removes
the socket path, listens, tells the pipe, installs its SIGTERM handler at any time, and
on SIGTERM removes the path whoever listens there. `Stranger` is any other process
that takes a free process id. The daemon keeps the write end of the ready pipe open,
so the end of a child is never seen as the end of the file; only `Wait4` after each
deadline of a second ends the wait, and that is what `StartPoll` does.
`os.FindProcess` cannot fail here. A container has a socket path of its own
(nerdctl chooses it). `DeleteInterface` may come at any time.

`BypassService` is a set `serving` and the pending requests; each takes effect at
once. `Serving` and `Pending` in `Driver` are the mapping: a start takes effect at
`StartRecord`, a stop at `StopDelete` or at a lookup that finds nothing, a list when it
reads.

### The background tasks

`Leases` follows each container's task through a round: `Wake`, then for each port,
in any order (a Go map), a Grant and a Put, then `Finish`. Each call is sent (`Grant`, `Put`),
served by etcd (`GrantServed`, `PutServed`) and returns (`Put`, `PutReturns`), and takes as many
seconds as it likes up to its time-out of 2 s (`CallTimeout`), at which it fails if it has
not returned; a call may also fail at once. `lease` is what is left of the lease that was
granted, from the moment etcd granted it. A Put that failed, or whose handler was killed,
may have been served, and if not may be served later (`late`, `LatePut`), until its
lease has run out: it overwrites whatever key is there by then. `Finish` moves
`ifLastUpdateUnix` whatever failed, and this is why a lost key waits for the next period. A
container that stops leaves its keys, and another may get the address. `stopped`, `spoilt` and
`last` are no state of the code; the properties speak of them.

`InterfaceSync` follows the whole loop for the containers in `Watched` and lets the others
post at any time. A post that is on its way (`posts`) is served whenever the daemon
likes, after its handler was killed too; a restart of the daemon loses the table and
the posts. A round makes its map (`containerIf`) address by address from the list it has read:
`Keep` takes the old entry over while it is younger than ten seconds, whoever lists the
address, `Check` makes a new one and stamps it, `CheckFails` makes none; the clock may go on
between two of them, and only then does `Swap` put the map in place. So an entry may be
stamped a round before it is seen, and kept a round before the swap that
keeps it. A list that fails is an empty one, and empties the map for a round. A container
lists one address with one port, or none if it has no published port (`Published`).

Time is counted in seconds by `Tick`. In `InterfaceSync` it waits while a round has taken
`MaxRound` seconds or a sleep is `Drift` seconds late. `MaxRound` is an assumption, for the calls
to the daemon and to the tracer have no deadline: while one hangs, the map stays as
it is. `Leases` has no such bound on a round, since its calls have their time-outs.
`unlisted` counts for how long an entry has named a container that the daemon lists no more
with that address.

### Start-up and the non-bypassable lists

`main` is the goroutine of `StartHandle` and the connection it is at; connections are
taken in any order. `config` is any command line that `cmd/bypass4netns` accepts. Every
`Fatalf` is a step that ends the process (`up`). The goroutine waits in three places, and
`Held` names the four ways in which that is for ever:
- `Recvmsg` in `handleNewMessage` (`B` 233) has no deadline. `Accept` only takes the
  connection, `ReceiveFd` and `Refuse` need what the runtime at the other end does (`Send`,
  `Close`); one that connects and sends nothing holds the loop.
- A tracer agent that has ended leaves its pipes open, because nobody calls `Wait`, and one
  whose listener could not bind waits itself (`TracerMute`): `RegisterForwardPorts` and the
  probes wait for it.
- A task that returns early (`B` 904) sends nothing to `ready`.
- A task whose first round waits for the tracer, or for a daemon that takes a request and
  never answers (`DaemonMute`; `Ping`, `PostInterface` and `ListInterfaces` have no deadline, `B`
  893, 920, 928), sends nothing either (`Stuck`).

`NonBypassable` has a `WatchNS` and an nsagent for each handler. SIGHUP is in `watch[h].hup`,
then in `agent[h].hup`, each a channel of one element; it ends an nsagent that has not
called `Notify` yet, and the whole process while no `WatchNS` has. An nsagent lists its
interfaces (`AgentReads`) and writes what it read later (`AgentWrites`). `Contains`
appends `dynamicList` to `staticList`: with spare capacity in the array, all handlers
write into the same cells, under read locks of their own, and a cell that another
handler writes to while it is read says anything.

## 3. Runs

| Run | Question | Instance |
|---|---|---|
| `sequential` | do the books, the caches, the rewrites, the options and the connections hold for every order of all seven calls, with failing memory writes and failing sockets? | one process that may be restarted once, one descriptor number, TCP and UDP, four destinations (loopback, own, external, ignored), two of them published; 0.7 M states |
| `forking` | the same, with two processes that share sockets by fork, a signal in the middle of a call, multinode | two processes, three files, one signal; 0.4 M states |
| `hostile` | is every call that was received answered, does every trapped call end, and are entries frozen, when pidfds fail, a signal comes, descriptors change unseen (`dup2`), with `execve`, `kill -9` and the handler's panic? | two threads of one process, one signal, fairness |
| `cloexec`, `ignored`, `error_state` | what a comment or the README says and the code does not do | violations, below |
| `turns` | is every handler recorded or being worked on, reachable at its path, and signalled as itself, while handlers crash and `exec`, signals and `wait` fail? | two containers, two requests, two process ids, clients in turn, posts; 2.4 M states |
| `clash` | does the driver answer as `BypassService`, is every request answered although `StopBypass` waits with the lock, does an entry name a child, when requests overlap and handlers, `exec`, signals and the ready pipe fail? | one container, two requests, two process ids, fairness; 0.3 M states |
| `leases` | does a registered key outlive its period, does a lost one come back, and do those of a stopped container go, when calls are slow, fail or are served late? | two containers that get one address in turn, two ports, a period of 1 s, a lease of 4 s, time-outs of 1 s, one failing call or Put left behind, fairness; 0.6 M states |
| `interfaces` | does the map forget in time, and agree with the daemon's table in the end? | a watched container, two others that get one address in turn, with the tracer, a period of 2 s, rounds of at most 1 s, one failing call or restart of the daemon, fairness; 0.3 M states |
| `startup` | is each connection taken up whatever becomes of the others, is no reload lost, are lookups right? | two handlers, every command line, silent and ending runtimes, a mute daemon and tracer, tasks that return, every `Fatalf`, and either two SIGHUPs and a change of interfaces, or one SIGHUP and a lookup, or two lookups, or none of these; fairness; 0.6 M states |
| `late_post` | what `D` 186 says | violation |

Properties.
- `RegistryMatchesKernel`: an entry is of an open descriptor; a Bypassed one of a host
  socket. `CachesCurrent`: cached pidfds and memory files are of the process that
  has the id now. `RewrittenOnlyOnHost`: a connect whose destination was rewritten meets a
  host socket, however often a signal restarts it. `OptionsSurviveSwitch`: a
  replacement is of the kind of the socket it replaces and has its O_NONBLOCK and its
  options, in order. `ConnectionsSurvive`: what is replaced has no peer ("only newly created
  socket is allowed", `B` 445), unless a failure left its entry in Error: a host socket whose
  rewrite failed may be connected by then, and is replaced again.
  `BypassedEntryFrozen`: a Bypassed entry changes only by being removed.
  `EveryTrapResumes`: no thread stays stopped in a trapped call. `NoCallForgotten` is what that
  rests on: a call whose notification was received is the one `handle` has in its hands, with
  its notification valid, so that none waits for an answer nobody owes it.
- `EntryIsChild`: the process id of an entry is that of a child not yet waited for, so
  SIGTERM never goes to a stranger. `NoOrphan`: a process that runs is recorded, or is
  being started or stopped. `ServedIsReachable`: the listener at a container's path is that
  of its recorded process while that runs. `ActsAtOnce`: `Driver` implements
  `BypassService`. `EveryRequestAnswered`.
- `KeysStay`: a key whose last renewal succeeded is in etcd and names its container, as long as
  the calls of this round and of the one before leave the pause between them room in a
  lease (`Prompt`: with 10, 15 and a sleep in time, less than 4 s together), and no late
  Put has overwritten it. The code does not see to either: each call may take 2 s, so that
  two ports and one time-out are enough for a key to lapse between two renewals that
  both succeed. `KeysStay` says how slow etcd may be, and TLC finds it violated with one second
  more. `KeysReturn`: the key of a container whose task goes on is there again and again,
  whatever was slow, failed or overwritten before. `StoppedKeysGo`: no key names a container
  15 s after its stop ("Remove entries with timeout", `B` 1036), not even one that was
  stored after the stop.
- `StaleEntriesGo`: an entry that names a container which the daemon lists no more is out of
  the map before `Stale`, that is a period, a gap between two swaps and two rounds: with the
  code's 10 s and rounds of a second, 14 s. One of the two rounds is that in which the entry
  was checked, after its container had left the table and before the swap; the other that
  in which it was kept for the last time. TLC finds a second less violated. It is not out at
  once: the old entry is kept while another container lists the same address, and names
  the wrong port until then. `MapsConverge`: once containers come and go no more, each map
  is the daemon's table again and again, with every container whose task goes on in it.
- `Served`: each connection is taken up, unless the process ends or `StartHandle` is in one of
  the four waits of `Held`; so no refusal, failure or order of steps holds it otherwise. `ReloadKept`: a SIGHUP that was relayed after the interfaces
  changed is still before the nsagent, or the nsagent has read them since.
  `ReloadReaches`: and so the dynamic list becomes what they are. Both leave out an nsagent
  that is dead, which is how a SIGHUP too early ends; and the model leaves out two failures
  in which the list is not what they are: an interface whose addresses cannot be read is
  skipped with a warning (`nsagent.go` 44-47), and a line of 64 KB ends the scanner of
  `watchNS` (`N` 128, 154). `AnswersRight`: a lookup that no other
  handler's append overlaps answers exactly for both lists, and every lookup finds what
  is in the static one. With an overlap an address of the dynamic list may be missed,
  or one of another container's found.

Bounds, and why they are enough. A process id is used twice (`MaxMM`), which is what
stale caches need. There are more files than descriptors, so a socket, its replacement
and a leftover exist together. One option per socket shows loss; its order is that of
one list, appended and replayed. One descriptor number: the books are keyed by it,
and no code relates two. One signal per behaviour restarts a call in any of its
stages, `forking` and `hostile` between them in both orders with a second process or
thread. For the driver two process ids are the fewest that let an id come back while
another is in use; two requests are all that can disagree pairwise, since the lock
orders three like two. Two containers with one address are what a stale key or entry
needs, and two ports let the order of two rounds differ, which is the worst case for
a lease. The times are short, in the proportions that matter: in `leases` a lease outlasts
the pause between two rounds by two time-outs, as 15 s do 11 s, so that rounds are
prompt or not; in `interfaces` the period is longer than the pause between two rounds, so
that entries are kept. There the watched container has no published port of its own: no
code relates two addresses of a map. Two handlers share an array; one cell of spare
capacity and lists of one subnet make every lookup collide. The proofs of section 4
do without these bounds.

`CHECK_DEADLOCK` is FALSE only in `startup`, whose process may end; elsewhere the
application, the clients or the clock can always do something.

Fairness. `WF(HandlerStep)`: `handle` runs in a goroutine of its own and blocks only in
`NotifReceive`. `WF(KernelStep(t))`: a thread that was let go executes its call. The
application, signals and the background tasks need not move. For the driver:
`WF(Work(r))`, a request's goroutine goes on; `SF(Locking(r))`, `sync.RWMutex` starves
nobody (Go blocks new readers behind a waiting writer); `WF(ChildStep(p))`, a
handler starts up and obeys SIGTERM. Without the last, `StopBypass` would wait for
ever with the lock held: there is a "TODO: Timeout" at `D` 172. For the tasks: time
passes and each goroutine goes on, a call of etcd or the daemon ends, answered or timed
out, and the daemon serves the posts it was sent. For the
start-up: `WF(MainStep)`, `WF` of a task's first round while neither the tracer nor the
daemon is mute, of a watcher and its nsagent, of `Receive` (the write lock is had once
lookups end, which Go's RWMutex sees to) and of a lookup; a runtime need not connect, nor
send a message once it has, and signals, changes and faults need not come.

What the violations show.
- `cloexec`: `B` 379 compares the result of F_GETFD with O_CLOEXEC, not FD_CLOEXEC, so
  the replacement is never close-on-exec, although `S` 257 says it must be configured.
- `ignored`: a Bypassed socket is never looked at again (`B` 562), so a second
  connect of it may go to a CIDR of `--ignore`, which the README says "cannot be bypassed".
- `error_state`: `S` 43 says that nothing recovers from Error; `B` 567 dispatches
  such sockets like fresh ones.
- `late_post`: a post that is on its way when its handler is stopped is filed after
  `StopBypass` removed the container's interfaces (`D` 186), and stays.

## 4. Proofs

`tlapm` checks all of them from nothing. Each follows one pattern: an inductive
invariant, `Init` establishes it, every action keeps it (one lemma per action, one
step per conjunct), and it implies the property.

| Theorem | Says | Assumes |
|---|---|---|
| `TypeCorrect` (`SocketSwitchProofs`) | `Safety => []TypeOK` | the constants' assumptions |
| `BypassedFrozen` (`SocketSwitchProofs`) | `Safety => BypassedEntryFrozen` | the same: any threads, faults, unseen actions |
| `CallsRemembered` (`SocketSwitchProofs`) | `NoCallForgotten` | the same |
| `RegistryCorrect`, `CachesNeverStale`, `RewriteStaysOnHost` (`RegistryProofs`) | `RegistryMatchesKernel`, `CachesCurrent`, `RewrittenOnlyOnHost` | `Ordinary`, below |
| `OptionsKept` (`SwitchProofs`) | `OptionsSurviveSwitch` | `Ordinary` and `Undisturbed`, below |
| `ConnectionsKept` (`SwitchProofs`) | `ConnectionsSurvive` | `Ordinary` and `Attentive`, below |
| `DriverTypeCorrect`, `EntriesAreChildren` (`DriverProofs`) | `TypeOK`, `EntryIsChild` | the constants' assumptions: any clients, any faults |
| `DriverActsAtOnce` (`DriverProofs`) | `Safety => ActsAtOnce`, that is `Service!Safety` | the same |
| `NoProcessLeft`, `ServedAreReachable` (`TurnsProofs`) | `NoOrphan`, `ServedIsReachable` | `Serial`, and ready pipes that can be read |
| `TypeCorrect` (`LeasesProofs`) | `TypeOK` | the constants' assumptions |
| `RegisteredKeysStay`, `StoppedKeysAlwaysGo` (`LeasesProofs`) | `KeysStay`, `StoppedKeysGo` | the same: any failures, slow calls and late Puts |
| `TypeCorrect`, `StaleEntriesAlwaysGo` (`InterfaceSyncProofs`) | `TypeOK`, `StaleEntriesGo` | the constants' assumptions |
| `StartupTypeCorrect`, `ReloadsKept`, `LookupsRight` (`StartupProofs`) | `TypeOK`, `ReloadKept`, `AnswersRight` | the same: any handlers, signals, lookups and faults |

The invariants and why they are needed.
- `TypeInv` adds to the types that descriptors name existing files and that a valid
  notification is of a thread still stopped in that very call: without it the type
  of a file reached through a descriptor, or of an answer, does not follow.
- `BooksInv` adds what holds between a handler's work and the kernel's: a `close` or an
  `exit_group` that was handled but not executed has nothing left in the books
  (else the next socket inherits it), a dead process has no call and no descriptor, a
  resumed call is not the one being served, and a handler that is down has no books.
- `OptionsInv` relates an entry to the socket it describes: one that is dispatched would make
  a socket of that kind with those options and that flag (`EntryRight`), and a socket without
  an entry has no options yet (`BareRight`). The kernel lags behind the books between the
  record of a call and its execution; `OptsSoon` and `FlagSoon` are what it will have. An
  entry with an option the kernel refused cannot be replayed, so that nothing is claimed of
  its options. `Unshared` and `ServedOnce` say that no call comes in between:
  a descriptor is one process's, and the thread is still in the very call that is served.
- `PeersInv`: the socket of an entry that the next connect or bind would replace (`NotBypassed`)
  has no peer, and no connect on it has been handled and is yet to be executed (`PeerRight`);
  the second half is what makes it inductive, since the kernel gives the peer after the
  handler has decided. With `Unshared`, a connect by one process cannot give a peer to the
  socket behind another entry.
- `NoCallForgotten` is inductive by itself once `TypeInv` is known.
- `DriverInv` ties a request's program counter to what it knows: the lock's holder is
  between lookup and end; a start that has spawned owns a process no entry
  names; a stop's process is the entry's. The one exception is the entry about to be
  deleted: `StopWait` has let its process id go, and a concurrent start may be given that
  very id. `Outlived(c)` names that window, and the lock is why no request acts in it.
- `OrderInv`, for clients that take turns, adds to it that a container has one request at a
  time (`TurnInv`), that a process which runs is recorded or borne by that request
  (`HeldInv`), and that whoever listens has the path and whoever is recorded has told
  (`ListenInv`): a predecessor is waited for before its successor is spawned, so its
  removal of the path comes first. Both assumptions are needed: two starts of one
  container that overlap leave a process that no entry names (`D` 142), and so does a
  ready pipe that cannot be read (`D` 260), whose process goes on.
- `LeasesInv` adds to the types that an address has one container (`OneHolder`) and what a
  task relies on (`Books`): the lease it was granted has lost no more than the seconds its
  calls have taken, the key it has just put is under that lease, and a registered key has
  lost no more than `Spent`, the seconds since the round that renewed it began. `Prompt`
  bounds `Spent`, and so `KeysStay` follows without any assumption about how fast etcd
  is. `KeysAge` and `LateAge` are for `StoppedKeysGo`: a key, or a Put on its way, of a
  container that has not that address was granted its lease before the stop, so what the
  lease has left and the seconds since make no more than a lease.
- `SyncInv` is the types and, per entry, two bounds. `Recent`: an entry that is young was
  unlisted at most a round before its age, since the table it was checked against may be
  as old as that round. `KnownInTime`: an entry of the map is unlisted for less than a
  period, two rounds and the seconds since the last swap; `BuiltInTime` is the same for
  `containerIf`, which the round under way still builds, with one round less. To be kept,
  an entry must have been young at some second of its round, hence the period.
- `ReloadInv` adds that a watcher's state and its nsagent's go together (`WatchAgrees`) and
  that the news of a change is in one of the places where it may be (`Carried`).
  `LookupInv` says of a lookup that nobody has overlapped that nobody else appends, that
  the cells hold its own list, and that no cell it has looked at is the address.
- `DriverActsAtOnce` uses `DriverInv` to show that a stop that got past its lookup still finds
  its entry when it deletes, and that a result is set exactly once.

`Ordinary` is single-threaded processes, which change descriptors only by trapped
calls, by creating them and by forking, and pidfds that can be opened. It is needed: with
threads, an `exit_group` by one that is not the leader leaves the process's books
behind (`B` 518 removes them for the leader only); a `dup2` or `close_range` closes
a descriptor the handler never hears of; and an `execve` renews the memory behind a
cached file (`B` 118). All three are in the model and in the `hostile` run; there the
books go stale, and what holds regardless (frozen entries, every call ends)
is what that run checks; the types are proved (`TypeCorrect`).

`Undisturbed` is what `OptionsKept` needs beyond that, and the `sequential` run's constants
satisfy both. Each part stands for a way in which an option is lost or replayed wrongly:
- no forks: a descriptor that two processes share is two entries, and the option one process
  sets is recorded in its own only;
- no signals: a call that a signal takes back after it was recorded is made again, or never;
- memory that can be read: a connect registers an entry that is not bypassable again,
  without options; when its address cannot be read, that entry stays as it is, `NotBypassed`,
  and the next connect switches from it;
- descriptors that can be duplicated (`pidfd_getfd`): else `registerSocket` fails, no
  entry is made and the option goes unrecorded;
- etcd is not asked (`S` 190): an answer that cannot be parsed does the same with `Error` for
  `NotBypassed`, since both are dispatched.
Refused and empty options, and sockets, `ADDFD`s, writes and binds that fail, are covered.

`Attentive` is what `ConnectionsKept` needs beyond `Ordinary`, which is less than `Undisturbed`:
no forks, since a socket that one process connects may be replaced at the descriptor of the
other, whose entry is `NotBypassed` still; and memory that can be read, since a connect whose
address cannot be read is executed inside while its entry stays `NotBypassed` (`S` 146), and
the next connect replaces the connected socket. Signals, etcd answers that do not parse,
descriptors that cannot be duplicated and all other failures are covered. A connect in the
model gives its peer when it is executed; one that is in progress on an O_NONBLOCK socket is
not told apart.

Model-checked only: the liveness properties `EveryTrapResumes`, `EveryRequestAnswered`,
and those of the tasks and of start-up (the prover has no ENABLED), and the four statements
that are violated.

## 5. Not modelled, and why

- The tracer's listeners, and its one agent between the tasks of several containers:
  `Tracer.lock` makes each exchange one step, and the answer is that of a `connect` in the
  first container's namespace.
- The two reads of `containerInterfaces` in one connect (`S` 179, 220) are one step: a hit
  of the second overrides the first, so a swap between them gives what one of the
  two maps gives.
- `SocketSwitch` and the two tasks are not run as one system: the handler takes any map
  and any list at any time, which is more than the tasks ever install.
- What `handleNewMessage` parses is a success or an error. On an error `closeStateFds` (`B` 34)
  closes descriptors 0 to n-1 instead of those it got; the models have no descriptors of
  the handler process itself.
- What an application does with a sockaddr that the handler has rewritten in its memory:
  it passes any address next.
- `connect` with AF_UNSPEC, and threads that exit alone.
- `ListInterfaces` and `GetInterface` of the driver: they only read.
- JSON, HTTP status codes, flags, logging, pid files: no state that a property is about.
- The merge of the seccomp profile (`oci.go`): a pure function that adds one rule.
- Benchmarks and tests.

## 6. Plan

Done: all components but those of section 5, with the theorems of section 4.

What would come next, in this order: `TransparentSockets`, what an application
may expect of a socket whatever network it is on, with `SocketSwitch` as its
implementation; the merge of the seccomp profile against a reference definition;
threads whose caches go stale, stated as what still holds.
