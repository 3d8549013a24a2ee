---------------------------- MODULE InterfaceSync ----------------------------
(***************************************************************************)
(* startBackgroundC2CConnectionHandleTask: the handler of each container   *)
(* posts the container's address to bypass4netnsd and keeps a map of       *)
(* everybody's published addresses, made anew from the daemon's table in a *)
(* round every second.  Time passes in seconds.  A definition whose        *)
(* comment begins "A slip" is no part of this specification: put in place  *)
(* of the definition that follows it, it shows that a property notices the *)
(* mistake.                                                                *)
(***************************************************************************)
EXTENDS Naturals

CONSTANTS
    None,
    Conts,      \* containers, each with a handler process of its own
    Published,  \* those with published ports: the others list none
    Watched,    \* those whose task is followed: the others post at any time
    Addrs,
    Subnet,     \* the addresses of a container's network, given to one at a time
    Period,     \* ifLastUpdateUnix+10 and lastCheckedUnix+10
    MaxRound,   \* bound: seconds a round takes
    Drift,      \* bound: seconds by which a sleep of one is late
    TracerEnable,
    Faults,     \* "ip": an address that cannot be read; "daemon": a restart
    MaxFailures \* bound: failing calls, and restarts of the daemon

ASSUME SyncAssumption ==
    /\ {Period, MaxRound, Drift, MaxFailures} \subseteq Nat /\ Period > 0
    /\ Published \subseteq Conts /\ Watched \subseteq Conts /\ TracerEnable \in BOOLEAN
    /\ Subnet \in [Conts -> SUBSET Addrs]
    /\ None \notin Addrs \cup Conts

VARIABLES
    addr,        \* the address of a container that runs
    table,       \* Driver.containerInterfaces
    posts,       \* the PostInterface request of a container, until it is served
    task,        \* the background task of a watched container
    containerIf, \* the map that its round is making
    known,       \* containerInterfaces of a watched handler
    failures

vars == <<addr, table, posts, task, containerIf, known, failures>>

Gap == 1 + Drift + MaxRound   \* from one swap of the map to the next

\* What the code makes of lastCheckedUnix+10: an entry is checked late in its
\* round, kept early in a later one, and its container was listed before.
Stale == Period + Gap + MaxRound + MaxRound

\* "since" are the seconds since ifLastUpdateUnix, "slept" those of
\* time.Sleep, "busy" those since it, "listed" is what the round has still to
\* resolve of the daemon's answer.
Task == [pc : {"ping", "sleep", "post", "list", "resolve", "ended"},
         listed : [Conts -> Addrs \cup {None}],
         since : 0..(Period + 1), slept : 0..(1 + Drift), busy : 0..MaxRound]

\* containerInterface: the container, which says what host port, the seconds
\* since lastCheckedUnix, and those for which the daemon has not listed it.
Entry == [owner : Conts, age : 0..Period, unlisted : 0..Stale]

ASSUME SyncNoneAssumption == None \notin Task \cup Entry

NoTable == [c \in Conts |-> None]
NoMap == [a \in Addrs |-> None]

TypeOK ==
    /\ addr \in [Conts -> Addrs \cup {None}]
    /\ table \in [Conts -> Addrs \cup {None}]
    /\ posts \in [Conts -> Addrs \cup {None}]
    /\ task \in [Watched -> Task \cup {None}]
    /\ containerIf \in [Watched -> [Addrs -> Entry \cup {None}]]
    /\ known \in [Watched -> [Addrs -> Entry \cup {None}]]
    /\ failures \in 0..MaxFailures

Init ==
    /\ addr = NoTable /\ table = NoTable
    /\ posts = NoTable
    /\ task = [c \in Watched |-> None]
    /\ containerIf = [c \in Watched |-> NoMap]
    /\ known = [c \in Watched |-> NoMap]
    /\ failures = 0

Runs(c) == task[c] # None /\ task[c].pc # "ended"
At(c, pc) == task[c] # None /\ task[c].pc = pc
maps == <<containerIf, known>>

Fails == failures < MaxFailures /\ failures' = failures + 1

-----------------------------------------------------------------------------
(* Containers and the daemon *)

Start(c) ==
    /\ addr[c] = None
    /\ \E a \in Subnet[c] :
          /\ \A d \in Conts : addr[d] # a
          /\ addr' = [addr EXCEPT ![c] = a]
    /\ task' = [d \in Watched |->
          IF d # c THEN task[d]
          ELSE [pc |-> "ping", listed |-> NoTable,
                since |-> Period + 1, slept |-> 1, busy |-> 0]]
    /\ UNCHANGED <<table, posts, maps, failures>>

\* The handler is killed with its maps; its requests may be on their way.
Stop(c) ==
    /\ addr[c] # None
    /\ addr' = [addr EXCEPT ![c] = None]
    /\ task' = [d \in Watched |-> IF d = c THEN None ELSE task[d]]
    /\ containerIf' = [d \in Watched |-> IF d = c THEN NoMap ELSE containerIf[d]]
    /\ known' = [d \in Watched |-> IF d = c THEN NoMap ELSE known[d]]
    /\ UNCHANGED <<table, posts, failures>>

\* A round of a task that is not followed.
PostOfOther(c) ==
    /\ c \notin Watched /\ addr[c] # None
    /\ posts[c] = None /\ posts' = [posts EXCEPT ![c] = addr[c]]
    /\ UNCHANGED <<addr, table, task, maps, failures>>

PostInterface(c) ==
    /\ posts[c] # None
    /\ posts' = [posts EXCEPT ![c] = None]
    /\ table' = [table EXCEPT ![c] = posts[c]]
    /\ UNCHANGED <<addr, task, maps, failures>>

\* The end of StopBypass, whenever that is.
DeleteInterface(c) ==
    /\ addr[c] = None /\ table[c] # None
    /\ table' = [table EXCEPT ![c] = None]
    /\ UNCHANGED <<addr, posts, task, maps, failures>>

\* bypass4netnsd ends, so do the calls it has not answered, and it comes
\* back with an empty table.
Restart ==
    /\ "daemon" \in Faults /\ Fails
    /\ table' = NoTable /\ posts' = NoTable
    /\ task' = [c \in Watched |-> IF At(c, "post") THEN [task[c] EXCEPT !.pc = "list"] ELSE task[c]]
    /\ UNCHANGED <<addr, maps>>

-----------------------------------------------------------------------------
(* A round of the task *)

\* Without an answer the process ends, as Stop says.
Ping(c) ==
    /\ At(c, "ping")
    /\ task' = [task EXCEPT ![c].pc = "sleep"]
    /\ UNCHANGED <<addr, table, posts, maps, failures>>

Wakes(c) == At(c, "sleep") /\ task[c].slept >= 1

\* A slip: the comparison is the wrong way round.
DueEarly(c) == task[c].since < Period

Due(c) == task[c].since > Period

Post(c) ==
    /\ Wakes(c) /\ Due(c)
    /\ task' = [task EXCEPT ![c].pc = "post", ![c].slept = 0]
    /\ posts[c] = None /\ posts' = [posts EXCEPT ![c] = addr[c]]
    /\ UNCHANGED <<addr, table, maps, failures>>

\* GetAddressesInNetNS fails: the task returns, and its map stays as it is.
AddressesUnknown(c) ==
    /\ "ip" \in Faults
    /\ Wakes(c) /\ Due(c)
    /\ task' = [task EXCEPT ![c].pc = "ended"]
    /\ UNCHANGED <<addr, table, posts, maps, failures>>

NotDue(c) ==
    /\ Wakes(c) /\ ~Due(c)
    /\ task' = [task EXCEPT ![c].pc = "list", ![c].slept = 0]
    /\ UNCHANGED <<addr, table, posts, maps, failures>>

Posted(c) ==
    /\ At(c, "post") /\ posts[c] = None
    /\ task' = [task EXCEPT ![c].pc = "list", ![c].since = 0]
    /\ UNCHANGED <<addr, table, posts, maps, failures>>

\* An error, served or not: the next round tries again.
PostFails(c) ==
    /\ At(c, "post") /\ Fails
    /\ task' = [task EXCEPT ![c].pc = "list"]
    /\ UNCHANGED <<addr, table, posts, maps>>

\* The addresses under which a container can be reached from outside.
Addresses == [c \in Conts |-> IF c \in Published THEN table[c] ELSE None]

\* A slip: an error leaves no list.
ListedOrNone(lost) == IF lost THEN None ELSE Addresses

\* An error leaves nil, which is an empty list.
Listed(lost) == IF lost THEN NoTable ELSE Addresses

ListInterfaces(c) ==
    /\ At(c, "list")
    /\ \E lost \in BOOLEAN :
          /\ IF lost THEN Fails ELSE UNCHANGED failures
          /\ task' = [task EXCEPT ![c].pc = "resolve", ![c].listed = Listed(lost)]
    /\ UNCHANGED <<addr, table, posts, maps>>

\* The tracer connects from the handler's network namespace to whoever has
\* the address.
Answers(a) == ~TracerEnable \/ \E c \in Conts : addr[c] = a

\* A slip: what is in the map counts as checked again.
KeptFresh(old) == [old EXCEPT !.age = 0]

Kept(old) == old

Young(old) == old # None /\ old.age < Period

\* Container d, with its address a, comes out of the daemon's answer, and e is
\* what containerIf has of the address then.
Resolved(c, d, a, e) ==
    /\ At(c, "resolve") /\ a # None /\ task[c].listed[d] = a
    /\ task' = [task EXCEPT ![c].listed = [task[c].listed EXCEPT ![d] = None]]
    /\ containerIf' = [containerIf EXCEPT ![c] = [containerIf[c] EXCEPT ![a] = e]]
    /\ UNCHANGED <<addr, table, posts, known>>

\* An address that the handler's map has, checked less than Period seconds
\* ago, stays what it is, whichever container lists it now.
Keep(c, d, a) ==
    /\ Young(known[c][a])
    /\ Resolved(c, d, a, Kept(known[c][a]))
    /\ UNCHANGED failures

\* A container that has gone since the daemon's answer did so in this round.
Check(c, d, a) ==
    /\ ~Young(known[c][a]) /\ Answers(a)
    /\ Resolved(c, d, a, [owner |-> d, age |-> 0,
                          unlisted |-> IF table[d] = a THEN 0 ELSE task[c].busy])
    /\ UNCHANGED failures

CheckFails(c, d, a) ==
    /\ TracerEnable /\ ~Young(known[c][a])
    /\ IF Answers(a) THEN Fails ELSE UNCHANGED failures
    /\ Resolved(c, d, a, containerIf[c][a])

\* The round's map becomes containerInterfaces.
Swap(c) ==
    /\ At(c, "resolve") /\ task[c].listed = NoTable
    /\ task' = [task EXCEPT ![c].pc = "sleep", ![c].busy = 0]
    /\ known' = [known EXCEPT ![c] = containerIf[c]]
    /\ containerIf' = [containerIf EXCEPT ![c] = NoMap]
    /\ UNCHANGED <<addr, table, posts, failures>>

-----------------------------------------------------------------------------
(* Time *)

Sooner(n, most) == IF n < most THEN n + 1 ELSE most

Aged(x) ==
    IF x = None THEN None
    ELSE IF x.pc \in {"ping", "ended"} THEN x
    ELSE [x EXCEPT !.since = Sooner(x.since, Period + 1),
                   !.slept = IF x.pc = "sleep" THEN x.slept + 1 ELSE 0,
                   !.busy = IF x.pc = "sleep" THEN 0 ELSE x.busy + 1]

InTime(x) ==
    /\ x.pc = "sleep" => x.slept < 1 + Drift
    /\ x.pc \in {"post", "list", "resolve"} => x.busy < MaxRound

\* An entry of address a, a second later.
Older(e, a) ==
    IF e = None THEN None
    ELSE [e EXCEPT !.age = Sooner(e.age, Period),
                   !.unlisted = IF table[e.owner] = a THEN 0 ELSE Sooner(e.unlisted, Stale)]

Tick ==
    /\ \A c \in Watched : task[c] # None => InTime(task[c])
    /\ task' = [c \in Watched |-> Aged(task[c])]
    /\ containerIf' = [c \in Watched |-> [a \in Addrs |-> Older(containerIf[c][a], a)]]
    /\ known' = [c \in Watched |-> [a \in Addrs |-> Older(known[c][a], a)]]
    /\ UNCHANGED <<addr, table, posts, failures>>

TaskStep(c) ==
    \/ Ping(c) \/ Post(c) \/ AddressesUnknown(c) \/ NotDue(c) \/ Posted(c) \/ PostFails(c)
    \/ ListInterfaces(c) \/ Swap(c)
    \/ \E d \in Conts, a \in Addrs : Keep(c, d, a) \/ Check(c, d, a) \/ CheckFails(c, d, a)

Next ==
    \/ \E c \in Conts :
          Start(c) \/ Stop(c) \/ DeleteInterface(c) \/ PostOfOther(c) \/ PostInterface(c)
    \/ \E c \in Watched : TaskStep(c)
    \/ Restart \/ Tick

Safety == Init /\ [][Next]_vars

\* The tasks and the daemon go on, and time passes.
Fairness ==
    /\ WF_vars(Tick)
    /\ \A c \in Watched : WF_vars(PostInterface(c)) /\ WF_vars(TaskStep(c))

Spec == Safety /\ Fairness

-----------------------------------------------------------------------------
(* Properties *)

\* An entry that the daemon does not list any more, because its container
\* stopped or moved, is out of a handler's map before Stale seconds, although
\* it is kept while somebody else lists the address, and kept by a round that
\* then takes its time before the swap, unless the task has returned or a call
\* takes longer than MaxRound (startBackgroundC2CConnectionHandleTask).
StaleEntriesGo ==
    \A c \in Watched, a \in Addrs :
        Runs(c) /\ known[c][a] # None => known[c][a].unlisted < Stale

Agrees(c) ==
    \A a \in Addrs :
        LET owners == IF Answers(a) THEN {d \in Published : table[d] = a} ELSE {}
        IN  IF owners = {} THEN known[c][a] = None
            ELSE known[c][a] # None /\ known[c][a].owner \in owners

\* Once containers come and go no more, each handler's map is the daemon's
\* table again and again, and that table has every container whose task goes
\* on, whatever was lost before.
MapsConverge ==
    <>[][FALSE]_addr =>
        \A c \in Watched :
            []<>(Runs(c) => Agrees(c) /\ table[c] = addr[c])
=============================================================================
