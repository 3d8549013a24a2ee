-------------------------------- MODULE Driver --------------------------------
(***************************************************************************)
(* bypass4netnsd: it starts and stops one bypass4netns process for each    *)
(* container, and keeps the interfaces those processes post.  A request is *)
(* served by a goroutine of its own; the driver's two locks order them.    *)
(* A definition whose comment begins "A slip" is no part of this           *)
(* specification: put in place of the definition that follows it, it shows *)
(* that a property notices the mistake.                                    *)
(***************************************************************************)
EXTENDS Naturals

CONSTANTS
    None,
    IDs,       \* containers; each has a socket path of its own
    Pids,      \* bound: process ids, which the kernel reuses
    Reqs,      \* bound: requests at a time
    Serial,    \* the client starts and stops each container in turn
    HandleC2CEnable,   \* the processes post their interfaces
    Faults     \* what may fail

ASSUME DriverAssumption ==
    /\ {Serial, HandleC2CEnable} \subseteq BOOLEAN
    /\ None \notin Pids \cup IDs \cup Reqs

VARIABLES
    bypass,    \* Driver.bypass: the process recorded for a container
    lock,      \* Driver.lock: the request that holds it for writing
    req,       \* the requests being served
    procs,     \* the processes of the host, children of the driver or not
    sockFile,  \* whose listener is behind a container's socket path
    ifs,       \* Driver.containerInterfaces: the containers it has an entry of
    posts      \* PostInterface requests on their way

driver == <<bypass, lock, req>>
tables == <<ifs, posts>>
vars == <<driver, procs, sockFile, tables>>

Pc == {"spawn", "waiting", "poll", "record", "lookup", "signal", "wait",
       "delete", "interfaces", "list", "done"}

Request == [op : {"start", "stop", "list"}, id : IDs, pc : Pc, pid : Pids \cup {None},
            result : {"none", "ok", "not found", "failed"}, listed : SUBSET IDs]

\* A process of container id, or of nobody here.  "told" is the byte in its
\* ready pipe, "catches" that its SIGTERM handler is installed.
Process == [id : IDs \cup {None}, st : {"boot", "removed", "listening", "ready", "zombie"},
            told : BOOLEAN, catches : BOOLEAN, term : BOOLEAN]

\* What a client sees of a request.
Entry == [op : {"start", "stop", "list"}, id : IDs,
          result : {"none", "ok", "not found", "failed"}, listed : SUBSET IDs]

\* "None" is none of the values it stands in for.
ASSUME DriverNoneAssumption == None \notin Request \cup Process \cup Entry

TypeOK ==
    /\ bypass \in [IDs -> Pids \cup {None}]
    /\ lock \in Reqs \cup {None}
    /\ req \in [Reqs -> Request \cup {None}]
    /\ procs \in [Pids -> Process \cup {None}]
    /\ sockFile \in [IDs -> Pids \cup {None}]
    /\ ifs \in SUBSET IDs /\ posts \in SUBSET IDs

Init ==
    /\ bypass = [c \in IDs |-> None] /\ lock = None
    /\ req = [r \in Reqs |-> None]
    /\ procs = [p \in Pids |-> None]
    /\ sockFile = [c \in IDs |-> None]
    /\ ifs = {} /\ posts = {}

At(r, pc) == req[r] # None /\ req[r].pc = pc
Goto(r, pc) == req' = [req EXCEPT ![r].pc = pc]
Finish(r, result) == req' = [req EXCEPT ![r].pc = "done", ![r].result = result]
Child(p, c) == procs[p] # None /\ procs[p].id = c
Active(p) == procs[p] # None /\ procs[p].id # None /\ procs[p].st # "zombie"

-----------------------------------------------------------------------------
(* Requests *)

\* nerdctl starts a container that has no handler, and has one request for a
\* container at a time.
Orderly(op, c) ==
    /\ \A r \in Reqs : req[r] # None => req[r].id # c \/ req[r].op = "list"
    /\ op = "start" => bypass[c] = None

First(op) == CASE op = "start" -> "spawn" [] op = "stop" -> "lookup" [] op = "list" -> "list"

Invoke(r) ==
    /\ req[r] = None
    /\ \E op \in {"start", "stop", "list"}, c \in IDs :
          /\ Serial /\ op # "list" => Orderly(op, c)
          /\ req' = [req EXCEPT ![r] = [op |-> op, id |-> c, pc |-> First(op), pid |-> None,
                                        result |-> "none", listed |-> {}]]
    /\ UNCHANGED <<bypass, lock, procs, sockFile, tables>>

Return(r) ==
    /\ At(r, "done")
    /\ req' = [req EXCEPT ![r] = None]
    /\ UNCHANGED <<bypass, lock, procs, sockFile, tables>>

ListBypass(r) ==
    /\ At(r, "list") /\ lock = None
    /\ req' = [req EXCEPT ![r].pc = "done", ![r].result = "ok",
                          ![r].listed = {c \in IDs : bypass[c] # None}]
    /\ UNCHANGED <<bypass, lock, procs, sockFile, tables>>

-----------------------------------------------------------------------------
(* StartBypass *)

NewProcess(c) ==
    [id |-> c, st |-> "boot", told |-> FALSE, catches |-> FALSE, term |-> FALSE]

StartSpawn(r) ==
    /\ At(r, "spawn")
    /\ \/ \E p \in Pids :
             /\ procs[p] = None
             /\ procs' = [procs EXCEPT ![p] = NewProcess(req[r].id)]
             /\ req' = [req EXCEPT ![r].pc = "waiting", ![r].pid = p]
       \/ /\ "exec" \in Faults \/ \A p \in Pids : procs[p] # None
          /\ Finish(r, "failed") /\ UNCHANGED procs
    /\ UNCHANGED <<bypass, lock, sockFile, tables>>

\* waitForReadyFD reads the pipe with a deadline of a second, and looks
\* whether the process has ended when it expires.  The pipe itself tells
\* nothing of that, for the driver holds its other end open.
StartReady(r) ==
    /\ At(r, "waiting") /\ procs[req[r].pid].told
    /\ Goto(r, "record")
    /\ UNCHANGED <<bypass, lock, procs, sockFile, tables>>

StartTimeout(r) ==
    /\ At(r, "waiting") /\ ~procs[req[r].pid].told
    /\ Goto(r, "poll")
    /\ UNCHANGED <<bypass, lock, procs, sockFile, tables>>

\* A slip: the pipe is read again whatever became of the process.
StartPollBlind(r) ==
    /\ At(r, "poll")
    /\ Goto(r, "waiting")
    /\ UNCHANGED <<bypass, lock, procs, sockFile, tables>>

StartPoll(r) ==
    /\ At(r, "poll")
    /\ IF procs[req[r].pid].st = "zombie"
       THEN procs' = [procs EXCEPT ![req[r].pid] = None] /\ Finish(r, "failed")
       ELSE Goto(r, "waiting") /\ UNCHANGED procs
    /\ UNCHANGED <<bypass, lock, sockFile, tables>>

\* The pipe cannot be read or the process not looked at: it is left to run.
StartFails(r) ==
    /\ "pipe" \in Faults
    /\ At(r, "waiting") \/ At(r, "poll")
    /\ Finish(r, "failed")
    /\ UNCHANGED <<bypass, lock, procs, sockFile, tables>>

\* The entry is written whether or not there is one.
StartRecord(r) ==
    /\ At(r, "record") /\ lock = None
    /\ bypass' = [bypass EXCEPT ![req[r].id] = req[r].pid]
    /\ Finish(r, "ok")
    /\ UNCHANGED <<lock, procs, sockFile, tables>>

-----------------------------------------------------------------------------
(* StopBypass holds the lock from its lookup to its end *)

StopLookup(r) ==
    /\ At(r, "lookup") /\ lock = None
    /\ IF bypass[req[r].id] = None
       THEN Finish(r, "not found") /\ UNCHANGED lock
       ELSE /\ req' = [req EXCEPT ![r].pc = "signal", ![r].pid = bypass[req[r].id]]
            /\ lock' = r
    /\ UNCHANGED <<bypass, procs, sockFile, tables>>

\* A process that has ended but was not waited for takes the signal too.
StopSignal(r) ==
    /\ At(r, "signal")
    /\ \/ /\ procs' = [procs EXCEPT ![req[r].pid].term = TRUE]
          /\ Goto(r, "wait") /\ UNCHANGED lock
       \/ /\ "signal" \in Faults
          /\ Finish(r, "failed") /\ lock' = None /\ UNCHANGED procs
    /\ UNCHANGED <<bypass, sockFile, tables>>

\* A slip: the entry is taken off without waiting for the process to end.
StopWaitNot(r) ==
    /\ At(r, "wait")
    /\ Goto(r, "delete")
    /\ UNCHANGED <<bypass, lock, procs, sockFile, tables>>

\* A slip: the lock is given back before the entry is taken off.
StopWaitUnlocked(r) ==
    /\ At(r, "wait") /\ procs[req[r].pid].st = "zombie"
    /\ procs' = [procs EXCEPT ![req[r].pid] = None]
    /\ Goto(r, "delete")
    /\ lock' = None
    /\ UNCHANGED <<bypass, sockFile, tables>>

\* Wait returns when the process has ended, without a limit.  When it fails
\* the process is killed and waited for once more, or cannot be killed.
StopWait(r) ==
    /\ At(r, "wait")
    /\ \/ /\ procs[req[r].pid].st = "zombie"
          /\ procs' = [procs EXCEPT ![req[r].pid] = None]
          /\ Goto(r, "delete") /\ UNCHANGED lock
       \/ /\ "wait" \in Faults
          /\ procs' \in {[procs EXCEPT ![req[r].pid] = None],
                         [procs EXCEPT ![req[r].pid].st = "zombie"]}
          /\ Goto(r, "delete") /\ UNCHANGED lock
       \/ /\ "wait" \in Faults
          /\ Finish(r, "failed") /\ lock' = None /\ UNCHANGED procs
    /\ UNCHANGED <<bypass, sockFile, tables>>

\* A slip: the entry stays.
StopDeleteNot(r) ==
    /\ At(r, "delete")
    /\ req' = [req EXCEPT ![r].pc = "interfaces", ![r].result = "ok"]
    /\ UNCHANGED <<bypass, lock, procs, sockFile, tables>>

StopDelete(r) ==
    /\ At(r, "delete")
    /\ bypass' = [bypass EXCEPT ![req[r].id] = None]
    /\ req' = [req EXCEPT ![r].pc = "interfaces", ![r].result = "ok"]
    /\ UNCHANGED <<lock, procs, sockFile, tables>>

StopInterfaces(r) ==
    /\ At(r, "interfaces")
    /\ ifs' = ifs \ {req[r].id}
    /\ lock' = None
    /\ Goto(r, "done")
    /\ UNCHANGED <<bypass, procs, sockFile, posts>>

-----------------------------------------------------------------------------
(* The table of interfaces *)

\* A bypass4netns process with a container posts from its background task;
\* the request outlives it.
ChildPosts(p) ==
    /\ HandleC2CEnable
    /\ Active(p) /\ procs[p].st = "ready"
    /\ procs[p].id \notin posts
    /\ posts' = posts \cup {procs[p].id}
    /\ UNCHANGED <<driver, procs, sockFile, ifs>>

\* A slip: the entry is filed under the process that posted it.
PostInterfaceOfPid(c) ==
    /\ c \in posts
    /\ posts' = posts \ {c} /\ ifs' = ifs \cup {bypass[c]}
    /\ UNCHANGED <<driver, procs, sockFile>>

PostInterface(c) ==
    /\ c \in posts
    /\ posts' = posts \ {c} /\ ifs' = ifs \cup {c}
    /\ UNCHANGED <<driver, procs, sockFile>>

\* DELETE /v1/interface/{id}
DeleteInterface(c) ==
    /\ c \in ifs
    /\ ifs' = ifs \ {c}
    /\ UNCHANGED <<driver, procs, sockFile, posts>>

-----------------------------------------------------------------------------
(* bypass4netns processes, as far as the driver sees them *)

\* The goroutine that waits for SIGTERM runs whenever it is scheduled.
ChildCatches(p) ==
    /\ Active(p) /\ ~procs[p].catches
    /\ procs' = [procs EXCEPT ![p].catches = TRUE]
    /\ UNCHANGED <<driver, sockFile, tables>>

\* main removes what is at the socket path, StartHandle listens there and
\* then writes to the ready pipe.
ChildRemoves(p) ==
    /\ Active(p) /\ procs[p].st = "boot"
    /\ sockFile' = [sockFile EXCEPT ![procs[p].id] = None]
    /\ procs' = [procs EXCEPT ![p].st = "removed"]
    /\ UNCHANGED <<driver, tables>>

ChildListens(p) ==
    /\ Active(p) /\ procs[p].st = "removed"
    /\ IF sockFile[procs[p].id] = None
       THEN /\ sockFile' = [sockFile EXCEPT ![procs[p].id] = p]
            /\ procs' = [procs EXCEPT ![p].st = "listening"]
       ELSE /\ procs' = [procs EXCEPT ![p].st = "zombie"]
            /\ UNCHANGED sockFile
    /\ UNCHANGED <<driver, tables>>

ChildTells(p) ==
    /\ Active(p) /\ procs[p].st = "listening"
    /\ procs' = [procs EXCEPT ![p].st = "ready", ![p].told = TRUE]
    /\ UNCHANGED <<driver, sockFile, tables>>

\* On SIGTERM the path is removed, whoever listens there by then, unless the
\* signal came before its handler.
ChildTerminates(p) ==
    /\ Active(p) /\ procs[p].term
    /\ procs' = [procs EXCEPT ![p].st = "zombie"]
    /\ \/ procs[p].catches /\ sockFile' = [sockFile EXCEPT ![procs[p].id] = None]
       \/ ~procs[p].catches /\ UNCHANGED sockFile
    /\ UNCHANGED <<driver, tables>>

\* logrus.Fatalf, or a panic.
ChildDies(p) ==
    /\ "child" \in Faults /\ Active(p)
    /\ procs' = [procs EXCEPT ![p].st = "zombie"]
    /\ UNCHANGED <<driver, sockFile, tables>>

\* Any other process of the host takes a free process id and gives it back.
Stranger(p) ==
    /\ \/ /\ procs[p] = None
          /\ procs' = [procs EXCEPT ![p] = [NewProcess(None) EXCEPT !.st = "ready"]]
       \/ /\ procs[p] # None /\ procs[p].id = None
          /\ procs' = [procs EXCEPT ![p] = None]
    /\ UNCHANGED <<driver, sockFile, tables>>

-----------------------------------------------------------------------------
(* The whole daemon *)

\* Steps that wait for no lock.
Work(r) ==
    \/ StartSpawn(r) \/ StartReady(r) \/ StartTimeout(r) \/ StartPoll(r) \/ StartFails(r)
    \/ StopSignal(r) \/ StopWait(r) \/ StopDelete(r) \/ StopInterfaces(r)
    \/ Return(r)

Locking(r) == StartRecord(r) \/ StopLookup(r) \/ ListBypass(r)

ChildStep(p) ==
    ChildRemoves(p) \/ ChildListens(p) \/ ChildTells(p) \/ ChildTerminates(p)

Next ==
    \/ \E r \in Reqs : Invoke(r) \/ Work(r) \/ Locking(r)
    \/ \E p \in Pids :
          ChildStep(p) \/ ChildCatches(p) \/ ChildDies(p) \/ ChildPosts(p) \/ Stranger(p)
    \/ \E c \in IDs : PostInterface(c) \/ DeleteInterface(c)

Safety == Init /\ [][Next]_vars

\* A goroutine runs on, sync.RWMutex starves nobody, a child starts up and
\* obeys its signals.
Fairness ==
    /\ \A r \in Reqs : WF_vars(Work(r)) /\ SF_vars(Locking(r))
    /\ \A p \in Pids : WF_vars(ChildStep(p))

Spec == Safety /\ Fairness

-----------------------------------------------------------------------------
(* Properties *)

Seen(x) ==
    IF x = None THEN None
    ELSE [op |-> x.op, id |-> x.id, result |-> x.result, listed |-> x.listed]

Serving == {c \in IDs : bypass[c] # None}
Pending == [r \in Reqs |-> Seen(req[r])]

Service == INSTANCE BypassService WITH serving <- Serving, pending <- Pending

\* The daemon's answers are those of a service that handles one request at a
\* time (ListBypass, StartBypass, StopBypass).
ActsAtOnce == Service!Safety

\* Every request is answered, although StopBypass holds the lock and waits
\* without a limit for a process to end (StopBypass, waitForReadyFD).
EveryRequestAnswered == \A r \in Reqs : req[r] # None ~> req[r] = None

\* The entry of c is of a process that was waited for, and is about to go.
Outlived(c) == lock # None /\ At(lock, "delete") /\ req[lock].id = c

\* The process id of an entry is that of a child not yet waited for: SIGTERM
\* never goes to a stranger that was given the id (StopBypass), except that
\* the lock hides an entry whose process was just waited for.
EntryIsChild ==
    \A c \in IDs : bypass[c] # None => Child(bypass[c], c) \/ Outlived(c)

\* A process that runs is recorded or belongs to a request at work: none is
\* left that no StopBypass can reach (StartBypass, StopBypass).
NoOrphan ==
    \A p \in Pids :
        Active(p) => \/ bypass[procs[p].id] = p
                     \/ \E r \in Reqs : req[r] # None /\ req[r].pid = p /\ req[r].pc # "done"

\* The listener at a container's socket path is that of the process recorded
\* for it, as long as that runs and was not told to stop: a predecessor does
\* not take the path away (StopBypass, main of bypass4netns).
ServedIsReachable ==
    \A c \in IDs :
        /\ bypass[c] # None
        /\ Child(bypass[c], c) /\ Active(bypass[c]) /\ ~procs[bypass[c]].term
        => sockFile[c] = bypass[c]

\* bypass4netnsd.go:186 "remove the container's interfaces": a container
\* without a handler, and without a request, has no entry.
InterfacesRemoved ==
    \A c \in ifs :
        bypass[c] # None \/ \E r \in Reqs : req[r] # None /\ req[r].id = c
=============================================================================
