------------------------------- MODULE Leases -------------------------------
(***************************************************************************)
(* startBackgroundMultinodeTask: the handler of each container keeps the   *)
(* container's published addresses in etcd, under leases that it renews.   *)
(* Time passes in seconds, in the pauses and while a call to etcd is under *)
(* way; what runs between two calls takes none.  A definition whose        *)
(* comment begins "A slip" is no part of this specification: put in place  *)
(* of the definition that follows it, it shows that a property notices the *)
(* mistake.                                                                *)
(***************************************************************************)
EXTENDS Naturals

CONSTANTS
    None,
    Conts,       \* containers, each with a handler process of its own
    Addrs,
    Subnet,      \* the addresses of a container's network, given to one at a time
    Ports,       \* the published ports of every container
    Period,      \* ifLastUpdateUnix+10 < now
    TTL,         \* the lease, 15
    CallTimeout, \* of the contexts of Grant and Put, 2 seconds
    Drift,       \* bound: seconds by which the sleeps of a period are late
    Faults,      \* "ip": an address that cannot be read
    MaxFailures  \* bound: failing calls of etcd, and Puts that a Stop leaves behind

ASSUME LeasesAssumption ==
    /\ {Period, TTL, CallTimeout, Drift, MaxFailures} \subseteq Nat
    /\ CallTimeout + CallTimeout < TTL
    /\ Subnet \in [Conts -> SUBSET Addrs]
    /\ None \notin Addrs \cup Ports

VARIABLES
    addr,    \* the address of a container that runs
    task,    \* its background task, in its handler process
    etcd,    \* the keys under ETCD_MULTINODE_PREFIX
    late,    \* the Put requests on their way that nobody awaits any more
    spoilt,  \* the keys that one of these has overwritten since the last other
    stopped, \* the seconds since a container was stopped, TTL if more
    failures

keys == <<etcd, late, spoilt>>
vars == <<addr, task, keys, stopped, failures>>

MaxIdle == Period + 1 + Drift

\* "waited" are the seconds of the call under way, "lease" what its lease has
\* left, "stored" that etcd has served the Put; "registered" are the ports whose
\* last renewal succeeded; "idle" are the seconds since ifLastUpdateUnix, "busy"
\* those of this round's calls and "last" those of the round before.
Task == [pc : {"sleep", "round", "grant", "put", "ended"}, todo : SUBSET Ports,
         port : Ports \cup {None}, waited : 0..CallTimeout, lease : 0..TTL,
         stored : BOOLEAN, registered : SUBSET Ports, idle : 0..MaxIdle, busy : Nat,
         last : Nat, ready : BOOLEAN]

\* A value is the host port of a container.
Value == [host : Conts, left : 1..TTL]
Request == [host : Conts, addr : Addrs, port : Ports, left : 1..TTL]

ASSUME LeasesNoneAssumption == None \notin Task \cup Value

TypeOK ==
    /\ addr \in [Conts -> Addrs \cup {None}]
    /\ task \in [Conts -> Task \cup {None}]
    /\ etcd \in [Addrs \X Ports -> Value \cup {None}]
    /\ late \subseteq Request
    /\ spoilt \subseteq Addrs \X Ports
    /\ stopped \in [Conts -> 0..TTL]
    /\ failures \in 0..MaxFailures

Init ==
    /\ addr = [c \in Conts |-> None]
    /\ task = [c \in Conts |-> None]
    /\ etcd = [k \in Addrs \X Ports |-> None]
    /\ late = {}
    /\ spoilt = {}
    /\ stopped = [c \in Conts |-> TTL]
    /\ failures = 0

Runs(c) == task[c] # None /\ task[c].pc # "ended"
At(c, pc) == task[c] # None /\ task[c].pc = pc
Key(c, p) == <<addr[c], p>>

\* A Put that etcd has not served, and may yet serve when nobody awaits it.
Unserved(c) ==
    IF At(c, "put") /\ ~task[c].stored /\ task[c].lease > 0
    THEN {[host |-> c, addr |-> addr[c], port |-> task[c].port, left |-> task[c].lease]}
    ELSE {}

Fails == failures < MaxFailures /\ failures' = failures + 1

-----------------------------------------------------------------------------
(* Containers *)

\* ifLastUpdateUnix is 0: the first round is due at once.
Start(c) ==
    /\ addr[c] = None
    /\ \E a \in Subnet[c] :
          /\ \A d \in Conts : addr[d] # a
          /\ addr' = [addr EXCEPT ![c] = a]
    /\ task' = [task EXCEPT ![c] = [pc |-> "sleep", todo |-> {}, port |-> None, waited |-> 0,
                                    lease |-> 0, stored |-> FALSE, registered |-> {},
                                    idle |-> Period + 1, busy |-> 0, last |-> 0,
                                    ready |-> FALSE]]
    /\ UNCHANGED <<keys, stopped, failures>>

\* The handler is killed with its task; its keys stay, and a Put of its may be
\* on its way.
Stop(c) ==
    /\ addr[c] # None
    /\ addr' = [addr EXCEPT ![c] = None]
    /\ task' = [task EXCEPT ![c] = None]
    /\ stopped' = [stopped EXCEPT ![c] = 0]
    /\ \/ UNCHANGED <<late, failures>>
       \/ Unserved(c) # {} /\ Fails /\ late' = late \cup Unserved(c)
    /\ UNCHANGED <<etcd, spoilt>>

-----------------------------------------------------------------------------
(* The task *)

\* A slip: only what is registered is renewed.
RegisteredPorts(c) == IF task[c].ready THEN task[c].registered ELSE Ports

RenewedPorts(c) == Ports

Due(c) == At(c, "sleep") /\ task[c].idle > Period

Wake(c) ==
    /\ Due(c)
    /\ task' = [task EXCEPT ![c].pc = "round", ![c].todo = RenewedPorts(c), ![c].idle = 0]
    /\ UNCHANGED <<addr, keys, stopped, failures>>

\* GetAddressesInNetNS fails: the task returns, and nothing starts it again.
AddressesUnknown(c) ==
    /\ "ip" \in Faults /\ Due(c)
    /\ task' = [task EXCEPT ![c].pc = "ended"]
    /\ UNCHANGED <<addr, keys, stopped, failures>>

\* The ports come in the order of a Go map, which is any.
Grant(c, p) ==
    /\ At(c, "round") /\ p \in task[c].todo
    /\ task' = [task EXCEPT ![c].pc = "grant", ![c].port = p]
    /\ UNCHANGED <<addr, keys, stopped, failures>>

\* Slips: the lease is as long as the period, or as two leases.
GrantedForPeriod == Period
GrantedTwice == TTL + TTL

Granted == TTL

\* etcd serves the Grant: the lease runs while its answer is on its way.
GrantServed(c) ==
    /\ At(c, "grant") /\ task[c].lease = 0
    /\ task' = [task EXCEPT ![c].lease = Granted]
    /\ UNCHANGED <<addr, keys, stopped, failures>>

Put(c) ==
    /\ At(c, "grant") /\ task[c].lease > 0
    /\ task' = [task EXCEPT ![c].pc = "put", ![c].waited = 0]
    /\ UNCHANGED <<addr, keys, stopped, failures>>

\* The loop goes on to the next port; "renewed" is the port if all went well.
Passed(x, renewed) ==
    [x EXCEPT !.pc = "round", !.todo = x.todo \ {x.port}, !.port = None, !.waited = 0,
              !.lease = 0, !.stored = FALSE, !.registered = (x.registered \ {x.port}) \cup renewed]

\* etcd refuses, or has not answered within CallTimeout seconds.
GrantFails(c) ==
    /\ At(c, "grant") /\ Fails
    /\ task' = [task EXCEPT ![c] = Passed(task[c], {})]
    /\ UNCHANGED <<addr, keys, stopped>>

PutServed(c) ==
    /\ At(c, "put") /\ Unserved(c) # {}
    /\ task' = [task EXCEPT ![c].stored = TRUE]
    /\ etcd' = [etcd EXCEPT ![Key(c, task[c].port)] = [host |-> c, left |-> task[c].lease]]
    /\ spoilt' = spoilt \ {Key(c, task[c].port)}
    /\ UNCHANGED <<addr, late, stopped, failures>>

PutReturns(c) ==
    /\ At(c, "put") /\ task[c].stored
    /\ task' = [task EXCEPT ![c] = Passed(task[c], {task[c].port})]
    /\ UNCHANGED <<addr, keys, stopped, failures>>

\* As GrantFails; the value may be stored, or may yet be.
PutFails(c) ==
    /\ At(c, "put") /\ Fails
    /\ late' = late \/ late' = late \cup Unserved(c)
    /\ task' = [task EXCEPT ![c] = Passed(task[c], {})]
    /\ UNCHANGED <<addr, etcd, spoilt, stopped>>

\* ifLastUpdateUnix moves whether or not a renewal failed, and so does the
\* ready channel the first time.
Finish(c) ==
    /\ At(c, "round") /\ task[c].todo = {}
    /\ task' = [task EXCEPT ![c].pc = "sleep", ![c].last = task[c].busy, ![c].busy = 0,
                            ![c].ready = TRUE]
    /\ UNCHANGED <<addr, keys, stopped, failures>>

-----------------------------------------------------------------------------
(* Late requests and time *)

\* etcd refuses a Put whose lease has run out.
LatePut(r) ==
    /\ late' = late \ {r}
    /\ etcd' = [etcd EXCEPT ![<<r.addr, r.port>>] = [host |-> r.host, left |-> r.left]]
    /\ spoilt' = spoilt \cup {<<r.addr, r.port>>}
    /\ UNCHANGED <<addr, task, stopped, failures>>

Less(n) == IF n > 0 THEN n - 1 ELSE 0

\* A slip: time runs for a lease that is not there.
AgedAlways(x) ==
    IF x = None \/ x.pc = "ended" THEN x
    ELSE IF x.pc = "sleep" THEN [x EXCEPT !.idle = x.idle + 1]
    ELSE [x EXCEPT !.waited = x.waited + 1, !.busy = x.busy + 1, !.lease = x.lease - 1]

Aged(x) ==
    IF x = None \/ x.pc = "ended" THEN x
    ELSE IF x.pc = "sleep" THEN [x EXCEPT !.idle = x.idle + 1]
    ELSE [x EXCEPT !.waited = x.waited + 1, !.busy = x.busy + 1, !.lease = Less(x.lease)]

\* The first loop of a task comes at once, the others once a second; a call
\* has its time-out, and nothing else in a round waits.
InTime(x) ==
    /\ x.pc = "sleep" => x.idle < MaxIdle /\ (x.ready \/ x.idle <= Period)
    /\ x.pc # "round"
    /\ x.pc \in {"grant", "put"} => x.waited < CallTimeout

Tick ==
    /\ \A c \in Conts : task[c] # None => InTime(task[c])
    /\ task' = [c \in Conts |-> Aged(task[c])]
    /\ etcd' = [k \in Addrs \X Ports |->
                  IF etcd[k] = None \/ etcd[k].left = 1 THEN None
                  ELSE [etcd[k] EXCEPT !.left = etcd[k].left - 1]]
    /\ late' = {[r EXCEPT !.left = r.left - 1] : r \in {q \in late : q.left > 1}}
    /\ stopped' = [c \in Conts |-> IF stopped[c] < TTL THEN stopped[c] + 1 ELSE TTL]
    /\ UNCHANGED <<addr, spoilt, failures>>

TaskStep(c) ==
    \/ Wake(c) \/ AddressesUnknown(c) \/ \E p \in Ports : Grant(c, p)
    \/ GrantServed(c) \/ Put(c) \/ GrantFails(c)
    \/ PutServed(c) \/ PutReturns(c) \/ PutFails(c) \/ Finish(c)

Next ==
    \/ \E c \in Conts : Start(c) \/ Stop(c) \/ TaskStep(c)
    \/ \E r \in late : LatePut(r)
    \/ Tick

Safety == Init /\ [][Next]_vars

\* The task goes on, etcd answers once the failures are spent, and time passes.
Fairness == WF_vars(Tick) /\ \A c \in Conts : WF_vars(TaskStep(c))

Spec == Safety /\ Fairness

-----------------------------------------------------------------------------
(* Properties *)

Present(c, p) == etcd[Key(c, p)] # None /\ etcd[Key(c, p)].host = c

\* What the calls of two rounds may take for a lease to outlast the pause
\* between them: with a period of 10, three seconds.
Prompt(x) == x.last + MaxIdle + x.busy < TTL

\* A key whose last renewal succeeded is in etcd and names its container, at
\* every moment until the next renewal, in whatever order the rounds take the
\* ports and whatever fails, as long as the calls of this round and the one
\* before have been prompt and no late Put has overwritten it
\* (startBackgroundMultinodeTask).
KeysStay ==
    \A c \in Conts : Runs(c) /\ Prompt(task[c]) =>
        \A p \in task[c].registered : Key(c, p) \in spoilt \/ Present(c, p)

\* "Remove entries with timeout": no key names a container TTL seconds after it
\* was stopped, even one that a late Put has stored since, over the key of the
\* container that has the address now (startBackgroundMultinodeTask).
StoppedKeysGo ==
    \A k \in Addrs \X Ports :
        etcd[k] # None /\ addr[etcd[k].host] # k[1] => stopped[etcd[k].host] < TTL

\* A renewal that failed or came late, or a key that a late Put has taken, is
\* made up for: the key of a container whose task has not returned is there
\* again and again.
KeysReturn ==
    \A c \in Conts, p \in Ports : []<>(Runs(c) => Present(c, p))
=============================================================================
