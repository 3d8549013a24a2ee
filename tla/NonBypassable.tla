---------------------------- MODULE NonBypassable ----------------------------
(***************************************************************************)
(* The non-bypassable lists of the handlers in one bypass4netns process:   *)
(* the static one, which is in one array for all, and a dynamic one for    *)
(* each, which an nsagent in the network namespace of the container lists  *)
(* anew at SIGHUP (WatchNS, nsagent.Main), and the lookups that append one *)
(* to the other (Contains).  A definition whose comment begins "A slip" is *)
(* no part of this specification: put in place of the definition that      *)
(* follows it, it shows that a property notices the mistake.               *)
(***************************************************************************)
EXTENDS Naturals, Sequences

CONSTANTS
    None,
    Handlers,   \* the connections that StartHandle accepts
    IPs,        \* a subnet stands for each of its addresses
    Static,     \* the subnets of --ignore
    Lists,      \* the lists that interfaces may have: sequences of subnets
    Spare,      \* the capacity that staticList has to spare
    Faults,     \* what may fail
    Bounds      \* bounds on SIGHUPs, on changes of interfaces and on lookups:
                \* the combinations to consider

ASSUME NonBypassableAssumption ==
    /\ Static \subseteq IPs /\ Lists \subseteq Seq(IPs)
    /\ Spare \in Nat
    /\ Bounds \subseteq [hups : Nat, changes : Nat, lookups : Nat]
    /\ None \notin IPs

VARIABLES
    up,      \* the process runs
    ns,      \* what a namespace's interfaces are
    watch,   \* WatchNS of a handler
    agent,   \* its nsagent
    pipe,    \* what the nsagent has written and watchNS not read
    dynamic, \* dynamicList
    cells,   \* the array of staticList past its length
    lookup,  \* a call of Contains
    due,     \* the namespace has not changed since a SIGHUP that was relayed
    left     \* what the bounds leave

agentVars == <<watch, agent, pipe, dynamic>>
lookupVars == <<cells, lookup>>
nbVars == <<up, ns, agentVars, lookupVars, due, left>>

AnyList == Lists \cup {<<>>}

\* "hup" is a SIGHUP in the channel, which holds one.
Watch == [pc : {"off", "started", "watching"}, hup : BOOLEAN]

\* "seen" is what inspect has read and not yet written.
Agent == [pc : {"none", "starting", "listed", "idle", "writing", "dead"},
          hup : BOOLEAN, seen : AnyList]

\* "at" is the cell to look at next, "says" the answer once there is one,
\* "overlapped" tells of another handler that writes to the cells meanwhile.
Lookup == [ip : IPs, pc : {"append", "range", "done"}, at : Nat \ {0},
           shared : BOOLEAN, says : BOOLEAN, overlapped : BOOLEAN]

ASSUME NonBypassableNoneAssumption == None \notin Lookup

NbTypeOK ==
    /\ up \in BOOLEAN
    /\ ns \in [Handlers -> Lists]
    /\ watch \in [Handlers -> Watch]
    /\ agent \in [Handlers -> Agent]
    /\ pipe \in [Handlers -> Seq(AnyList)]
    /\ dynamic \in [Handlers -> AnyList]
    /\ cells \in [1..Spare -> IPs \cup {None}]
    /\ lookup \in [Handlers -> Lookup \cup {None}]
    /\ due \in [Handlers -> BOOLEAN]
    /\ left \in [hups : Nat, changes : Nat, lookups : Nat]

NbInit ==
    /\ up = TRUE
    /\ ns \in [Handlers -> Lists]
    /\ watch = [h \in Handlers |-> [pc |-> "off", hup |-> FALSE]]
    /\ agent = [h \in Handlers |-> [pc |-> "none", hup |-> FALSE, seen |-> <<>>]]
    /\ pipe = [h \in Handlers |-> <<>>]
    /\ dynamic = [h \in Handlers |-> <<>>]
    /\ cells = [i \in 1..Spare |-> None]
    /\ lookup = [h \in Handlers |-> None]
    /\ due = [h \in Handlers |-> FALSE]
    /\ left \in Bounds

-----------------------------------------------------------------------------
(* The namespaces *)

\* A network is connected or disconnected.
InterfacesChange(h) ==
    /\ up /\ left.changes > 0
    /\ \E l \in Lists \ {ns[h]} : ns' = [ns EXCEPT ![h] = l]
    /\ due' = [due EXCEPT ![h] = FALSE]
    /\ left' = [left EXCEPT !.changes = @ - 1]
    /\ UNCHANGED <<up, agentVars, lookupVars>>

\* SIGHUP: each WatchNS that has called Notify gets it; without any, the
\* process ends of it.
Reload ==
    /\ up /\ left.hups > 0
    /\ left' = [left EXCEPT !.hups = @ - 1]
    /\ up' = \E h \in Handlers : watch[h].pc = "watching"
    /\ watch' = [h \in Handlers |->
          IF watch[h].pc = "watching" THEN [watch[h] EXCEPT !.hup = TRUE] ELSE watch[h]]
    /\ due' = [h \in Handlers |-> due[h] \/ watch[h].pc = "watching"]
    /\ UNCHANGED <<ns, agent, pipe, dynamic, lookupVars>>

-----------------------------------------------------------------------------
(* WatchNS and the nsagent *)

AtAgent(h, pc) == up /\ agent[h].pc = pc

\* WatchNS fails before the nsagent runs: handle has Fatalf.
WatchFails(h) ==
    /\ up /\ "watch" \in Faults /\ watch[h].pc = "off"
    /\ up' = FALSE
    /\ UNCHANGED <<ns, agentVars, lookupVars, due, left>>

StartAgent(h) ==
    /\ up /\ watch[h].pc = "off"
    /\ watch' = [watch EXCEPT ![h].pc = "started"]
    /\ agent' = [agent EXCEPT ![h].pc = "starting"]
    /\ UNCHANGED <<up, ns, pipe, dynamic, lookupVars, due, left>>

\* signal.Notify in WatchNS.
Listen(h) ==
    /\ up /\ watch[h].pc = "started"
    /\ watch' = [watch EXCEPT ![h].pc = "watching"]
    /\ UNCHANGED <<up, ns, agent, pipe, dynamic, lookupVars, due, left>>

\* A slip: the channel has no buffer, and a signal that finds the nsagent at
\* work is gone.
HupUnbuffered(a) == [a EXCEPT !.hup = a.pc = "idle"]

\* What SIGHUP does to an nsagent: it ends of it until it has called Notify.
Hup(a) ==
    IF a.pc \in {"starting", "listed"} THEN [a EXCEPT !.pc = "dead"]
    ELSE [a EXCEPT !.hup = a.pc \in {"idle", "writing"}]

Relay(h) ==
    /\ up /\ watch[h].hup
    /\ watch' = [watch EXCEPT ![h].hup = FALSE]
    /\ agent' = [agent EXCEPT ![h] = Hup(agent[h])]
    /\ UNCHANGED <<up, ns, pipe, dynamic, lookupVars, due, left>>

AgentLists(h) ==
    /\ AtAgent(h, "starting")
    /\ agent' = [agent EXCEPT ![h].pc = "listed"]
    /\ pipe' = [pipe EXCEPT ![h] = Append(@, ns[h])]
    /\ UNCHANGED <<up, ns, watch, dynamic, lookupVars, due, left>>

AgentListens(h) ==
    /\ AtAgent(h, "listed")
    /\ agent' = [agent EXCEPT ![h].pc = "idle"]
    /\ UNCHANGED <<up, ns, watch, pipe, dynamic, lookupVars, due, left>>

AgentReads(h) ==
    /\ AtAgent(h, "idle") /\ agent[h].hup
    /\ agent' = [agent EXCEPT ![h] = [pc |-> "writing", hup |-> FALSE, seen |-> ns[h]]]
    /\ UNCHANGED <<up, ns, watch, pipe, dynamic, lookupVars, due, left>>

AgentWrites(h) ==
    /\ AtAgent(h, "writing")
    /\ agent' = [agent EXCEPT ![h].pc = "idle", ![h].seen = <<>>]
    /\ pipe' = [pipe EXCEPT ![h] = Append(@, agent[h].seen)]
    /\ UNCHANGED <<up, ns, watch, dynamic, lookupVars, due, left>>

\* inspect fails: the nsagent ends, and nobody waits for it.
AgentFails(h) ==
    /\ "inspect" \in Faults
    /\ AtAgent(h, "starting") \/ (AtAgent(h, "idle") /\ agent[h].hup)
    /\ agent' = [agent EXCEPT ![h].pc = "dead", ![h].hup = FALSE]
    /\ UNCHANGED <<up, ns, watch, pipe, dynamic, lookupVars, due, left>>

\* A slip: watchNS does not take the lock.
LockFreeAlways(h) == TRUE

\* A slip: once a list has been received, mu stays locked.
LockFreeOnce(h) == dynamic[h] = <<>> /\ lookup[h] = None

\* mu is not read-locked.
LockFree(h) == lookup[h] = None

Receive(h) ==
    /\ up /\ pipe[h] # <<>> /\ LockFree(h)
    /\ dynamic' = [dynamic EXCEPT ![h] = Head(pipe[h])]
    /\ pipe' = [pipe EXCEPT ![h] = Tail(@)]
    /\ UNCHANGED <<up, ns, watch, agent, lookupVars, due, left>>

-----------------------------------------------------------------------------
(* Contains *)

Fits(h) == Len(dynamic[h]) <= Spare
InPlace(h) == Fits(h) /\ dynamic[h] # <<>>
Appending(h) == lookup[h] # None /\ lookup[h].pc = "append" /\ lookup[h].shared
Listed(h, ip) == ip \in Static \/ \E i \in DOMAIN dynamic[h] : dynamic[h][i] = ip

\* The append begins: in the cells if there are enough of them, else in a new
\* array.
ContainsBegin(h, ip) ==
    /\ up /\ lookup[h] = None /\ left.lookups > 0
    /\ left' = [left EXCEPT !.lookups = @ - 1]
    /\ lookup' = [g \in Handlers |->
          IF g = h
          THEN [ip |-> ip, pc |-> IF InPlace(h) THEN "append" ELSE "done", at |-> 1,
                shared |-> InPlace(h), says |-> ~InPlace(h) /\ Listed(h, ip),
                overlapped |-> \E k \in Handlers : Appending(k)]
          ELSE IF lookup[g] # None /\ InPlace(h) THEN [lookup[g] EXCEPT !.overlapped = TRUE]
          ELSE lookup[g]]
    /\ UNCHANGED <<up, ns, agentVars, cells, due>>

Appended(h) == [i \in 1..Spare |-> IF i <= Len(dynamic[h]) THEN dynamic[h][i] ELSE cells[i]]

\* The append ends; the static part comes first in the loop.
ContainsAppended(h) ==
    /\ up /\ Appending(h)
    /\ cells' = Appended(h)
    /\ lookup' = [lookup EXCEPT ![h].pc = IF lookup[h].ip \in Static THEN "done" ELSE "range",
                                ![h].says = lookup[h].ip \in Static]
    /\ UNCHANGED <<up, ns, agentVars, due, left>>

\* One turn of the loop.  A cell that is being written says anything.
ContainsLooks(h) ==
    LET l == lookup[h]
        torn == \E g \in Handlers : Appending(g) /\ l.at <= Len(dynamic[g])
        hits == IF torn THEN BOOLEAN ELSE {cells[l.at] = l.ip}
    IN  /\ up /\ l # None /\ l.pc = "range"
        /\ \/ /\ l.at > Len(dynamic[h])
              /\ lookup' = [lookup EXCEPT ![h].pc = "done"]
           \/ /\ l.at <= Len(dynamic[h])
              /\ \E hit \in hits :
                    lookup' = [lookup EXCEPT ![h] =
                                 IF hit THEN [l EXCEPT !.pc = "done", !.says = TRUE]
                                 ELSE [l EXCEPT !.at = l.at + 1]]
    /\ UNCHANGED <<up, ns, agentVars, cells, due, left>>

ContainsReturns(h) ==
    /\ up /\ lookup[h] # None /\ lookup[h].pc = "done"
    /\ lookup' = [lookup EXCEPT ![h] = None]
    /\ UNCHANGED <<up, ns, agentVars, cells, due, left>>

-----------------------------------------------------------------------------

\* The steps of what a handler has started.
WatchStep(h) ==
    \/ Listen(h) \/ Relay(h)
    \/ AgentLists(h) \/ AgentListens(h) \/ AgentReads(h) \/ AgentWrites(h) \/ AgentFails(h)

ContainsStep(h) == ContainsAppended(h) \/ ContainsLooks(h) \/ ContainsReturns(h)

\* A handler that was started.
Handling(h) ==
    \/ WatchStep(h) \/ Receive(h) \/ ContainsStep(h)
    \/ \E ip \in IPs : ContainsBegin(h, ip)

NbNext ==
    \/ \E h \in Handlers : Handling(h) \/ StartAgent(h) \/ WatchFails(h) \/ InterfacesChange(h)
    \/ Reload

NbSafety == NbInit /\ [][NbNext]_nbVars

-----------------------------------------------------------------------------
(* Properties *)

\* The last list that is on its way to dynamicList, or there.
Newest(h) == IF pipe[h] = <<>> THEN dynamic[h] ELSE pipe[h][Len(pipe[h])]

\* A SIGHUP that came after the interfaces had changed is not lost to the
\* channels of one element: it is before the nsagent, or the nsagent has read
\* the interfaces since, unless it is dead (WatchNS, nsagent.Main).
ReloadKept ==
    \A h \in Handlers : due[h] =>
        \/ watch[h].hup \/ agent[h].hup \/ agent[h].pc = "dead"
        \/ agent[h].pc = "writing" /\ agent[h].seen = ns[h]
        \/ agent[h].pc # "writing" /\ Newest(h) = ns[h]

\* A lookup tells exactly whether the address is in the static or the
\* handler's own dynamic list, unless another handler of the process appends
\* to the static list's array meanwhile; and whatever the others do, it finds
\* what the static list has (Contains).
AnswersRight ==
    \A h \in Handlers : lookup[h] # None /\ lookup[h].pc = "done" =>
        /\ ~lookup[h].overlapped => lookup[h].says = Listed(h, lookup[h].ip)
        /\ lookup[h].ip \in Static => lookup[h].says
=============================================================================
