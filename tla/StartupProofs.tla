---------------------------- MODULE StartupProofs ----------------------------
(***************************************************************************)
(* What Startup and NonBypassable keep, for any number of containers, of   *)
(* subnets and of SIGHUPs, under every command line and every fault: the   *)
(* types, that no reload is lost between WatchNS and the nsagent, and that *)
(* a lookup is right as long as nobody else appends to the shared array.   *)
(***************************************************************************)
EXTENDS Startup, SequenceTheorems, TLAPS

\* The process ends and leaves the rest as it is.
NbEnds == /\ up' = FALSE
          /\ UNCHANGED <<ns, agentVars, lookupVars, due, left>>

\* What a step of the process is to the lists.
LEMMA StepOfLists ==
    ASSUME [Next]_vars
    PROVE  NbNext \/ NbEnds \/ UNCHANGED nbVars
<1>1. CASE MainStep
  BY <1>1 DEF MainStep, StartTracer, RegisterForwardPorts, Probe, LaunchTask, Handle, Accept,
              ReceiveFd, Refuse
<1>2. CASE MainFails \/ Exit
  BY <1>2 DEF MainFails, Exit, EtcdFails, StartTracerFails, ProbeFails, Ends, NbEnds
<1>3. CASE TracerMute \/ DaemonMute
  BY <1>3 DEF TracerMute, DaemonMute
<1>4. ASSUME NEW h \in Handlers,
             Connect(h) \/ Send(h) \/ Close(h) \/ TaskReady(h) \/ TaskEnds(h) \/ PingFails(h)
      PROVE  NbEnds \/ UNCHANGED nbVars
  BY <1>4 DEF Connect, Send, Close, TaskReady, TaskEnds, PingFails, Ends, NbEnds
<1>5. ASSUME NEW h \in Handlers, WatchNS(h) \/ HandlerStep(h) \/ InterfacesChange(h)
      PROVE  NbNext
  BY <1>5 DEF WatchNS, HandlerStep, NbNext
<1>6. CASE Reload
  BY <1>6 DEF NbNext
<1>7. CASE UNCHANGED vars
  BY <1>7 DEF vars
<1> QED
  BY <1>1, <1>2, <1>3, <1>4, <1>5, <1>6, <1>7 DEF Next

-----------------------------------------------------------------------------
(* Types *)

LEMMA ListsType == NbInit => NbTypeOK
<1> SUFFICES ASSUME NbInit PROVE NbTypeOK
  OBVIOUS
<1>1. left \in [hups : Nat, changes : Nat, lookups : Nat]
  BY NonBypassableAssumption DEF NbInit
<1> QED
  BY <1>1 DEF NbInit, NbTypeOK, Watch, Agent, AnyList

LEMMA AgentPc ==
    ASSUME NEW x \in Agent, NEW pc \in {"starting", "listed", "idle", "dead"}
    PROVE  [x EXCEPT !.pc = pc] \in Agent
BY DEF Agent

LEMMA AgentHup ==
    ASSUME NEW x \in Agent, NEW b \in BOOLEAN
    PROVE  [x EXCEPT !.hup = b] \in Agent
BY DEF Agent

LEMMA HupType == ASSUME NEW x \in Agent PROVE Hup(x) \in Agent
<1> DEFINE b == x.pc \in {"idle", "writing"}
<1>1. b \in BOOLEAN
  OBVIOUS
<1>2. [x EXCEPT !.pc = "dead"] \in Agent
  BY AgentPc
<1>3. [x EXCEPT !.hup = b] \in Agent
  BY <1>1, AgentHup
<1> QED
  BY <1>2, <1>3 DEF Hup

\* What WatchNS and its nsagent may have to do with types.
Watchers ==
    /\ watch \in [Handlers -> Watch]
    /\ agent \in [Handlers -> Agent]
    /\ pipe \in [Handlers -> Seq(AnyList)]

LEMMA WatchTypes ==
    ASSUME NbTypeOK, Watchers', UNCHANGED <<up, ns, dynamic, lookupVars, due, left>>
    PROVE  NbTypeOK'
BY DEF NbTypeOK, Watchers, lookupVars

LEMMA WatchStepType ==
    ASSUME NbTypeOK, NEW h \in Handlers, WatchStep(h) \/ StartAgent(h)
    PROVE  NbTypeOK'
<1> DEFINE w == watch[h]
           a == agent[h]
           p == pipe[h]
<1>1. w \in Watch /\ a \in Agent /\ p \in Seq(AnyList) /\ ns[h] \in AnyList
  BY DEF NbTypeOK, AnyList
<1>2. Watchers
  BY DEF NbTypeOK, Watchers
<1>3. /\ \A v \in Watch : [watch EXCEPT ![h] = v] \in [Handlers -> Watch]
      /\ \A b \in Agent : [agent EXCEPT ![h] = b] \in [Handlers -> Agent]
      /\ \A q \in Seq(AnyList) : [pipe EXCEPT ![h] = q] \in [Handlers -> Seq(AnyList)]
  BY DEF NbTypeOK
<1>4. /\ a.seen \in AnyList /\ <<>> \in AnyList
      /\ \A l \in AnyList : Append(p, l) \in Seq(AnyList)
  BY <1>1 DEF Agent, AnyList
<1>5. CASE StartAgent(h)
  <2>1. [w EXCEPT !.pc = "started"] \in Watch /\ [a EXCEPT !.pc = "starting"] \in Agent
    BY <1>1, AgentPc DEF Watch
  <2>2. /\ watch' = [watch EXCEPT ![h] = [w EXCEPT !.pc = "started"]]
        /\ agent' = [agent EXCEPT ![h] = [a EXCEPT !.pc = "starting"]]
    BY <1>5 DEF StartAgent
  <2>3. UNCHANGED <<pipe, up, ns, dynamic, lookupVars, due, left>>
    BY <1>5 DEF StartAgent
  <2>4. Watchers'
    BY <1>2, <1>3, <2>1, <2>2, <2>3 DEF Watchers
  <2> QED
    BY <2>3, <2>4, WatchTypes
<1>6. CASE Listen(h)
  <2>1. [w EXCEPT !.pc = "watching"] \in Watch
    BY <1>1 DEF Watch
  <2>2. watch' = [watch EXCEPT ![h] = [w EXCEPT !.pc = "watching"]]
    BY <1>6 DEF Listen
  <2>3. UNCHANGED <<agent, pipe, up, ns, dynamic, lookupVars, due, left>>
    BY <1>6 DEF Listen
  <2>4. Watchers'
    BY <1>2, <1>3, <2>1, <2>2, <2>3 DEF Watchers
  <2> QED
    BY <2>3, <2>4, WatchTypes
<1>7. CASE Relay(h)
  <2>1. [w EXCEPT !.hup = FALSE] \in Watch /\ Hup(a) \in Agent
    BY <1>1, HupType DEF Watch
  <2>2. /\ watch' = [watch EXCEPT ![h] = [w EXCEPT !.hup = FALSE]]
        /\ agent' = [agent EXCEPT ![h] = Hup(a)]
    BY <1>7 DEF Relay
  <2>3. UNCHANGED <<pipe, up, ns, dynamic, lookupVars, due, left>>
    BY <1>7 DEF Relay
  <2>4. Watchers'
    BY <1>2, <1>3, <2>1, <2>2, <2>3 DEF Watchers
  <2> QED
    BY <2>3, <2>4, WatchTypes
<1>8. CASE AgentLists(h)
  <2>1. [a EXCEPT !.pc = "listed"] \in Agent /\ Append(p, ns[h]) \in Seq(AnyList)
    BY <1>1, <1>4, AgentPc
  <2>2. /\ agent' = [agent EXCEPT ![h] = [a EXCEPT !.pc = "listed"]]
        /\ pipe' = [pipe EXCEPT ![h] = Append(p, ns[h])]
    BY <1>8 DEF AgentLists
  <2>3. UNCHANGED <<watch, up, ns, dynamic, lookupVars, due, left>>
    BY <1>8 DEF AgentLists
  <2>4. Watchers'
    BY <1>2, <1>3, <2>1, <2>2, <2>3 DEF Watchers
  <2> QED
    BY <2>3, <2>4, WatchTypes
<1>9. CASE AgentListens(h)
  <2>1. [a EXCEPT !.pc = "idle"] \in Agent
    BY <1>1, AgentPc
  <2>2. agent' = [agent EXCEPT ![h] = [a EXCEPT !.pc = "idle"]]
    BY <1>9 DEF AgentListens
  <2>3. UNCHANGED <<watch, pipe, up, ns, dynamic, lookupVars, due, left>>
    BY <1>9 DEF AgentListens
  <2>4. Watchers'
    BY <1>2, <1>3, <2>1, <2>2, <2>3 DEF Watchers
  <2> QED
    BY <2>3, <2>4, WatchTypes
<1>10. CASE AgentReads(h)
  <2> DEFINE b == [pc |-> "writing", hup |-> FALSE, seen |-> ns[h]]
  <2>1. b \in Agent
    BY <1>1 DEF Agent
  <2>2. agent' = [agent EXCEPT ![h] = b]
    BY <1>10 DEF AgentReads
  <2>3. UNCHANGED <<watch, pipe, up, ns, dynamic, lookupVars, due, left>>
    BY <1>10 DEF AgentReads
  <2>4. Watchers'
    BY <1>2, <1>3, <2>1, <2>2, <2>3 DEF Watchers
  <2> QED
    BY <2>3, <2>4, WatchTypes
<1>11. CASE AgentWrites(h)
  <2> DEFINE b == [a EXCEPT !.pc = "idle", !.seen = <<>>]
  <2>1. b \in Agent /\ Append(p, a.seen) \in Seq(AnyList)
    BY <1>1, <1>4 DEF Agent
  <2>2. agent' = [agent EXCEPT ![h] = b] /\ pipe' = [pipe EXCEPT ![h] = Append(p, a.seen)]
    BY <1>11 DEF AgentWrites
  <2>3. UNCHANGED <<watch, up, ns, dynamic, lookupVars, due, left>>
    BY <1>11 DEF AgentWrites
  <2>4. Watchers'
    BY <1>2, <1>3, <2>1, <2>2, <2>3 DEF Watchers
  <2> QED
    BY <2>3, <2>4, WatchTypes
<1>12. CASE AgentFails(h)
  <2> DEFINE b == [a EXCEPT !.pc = "dead", !.hup = FALSE]
  <2>1. b \in Agent
    BY <1>1 DEF Agent
  <2>2. agent' = [agent EXCEPT ![h] = b]
    BY <1>12 DEF AgentFails
  <2>3. UNCHANGED <<watch, pipe, up, ns, dynamic, lookupVars, due, left>>
    BY <1>12 DEF AgentFails
  <2>4. Watchers'
    BY <1>2, <1>3, <2>1, <2>2, <2>3 DEF Watchers
  <2> QED
    BY <2>3, <2>4, WatchTypes
<1> QED
  BY <1>5, <1>6, <1>7, <1>8, <1>9, <1>10, <1>11, <1>12 DEF WatchStep

LEMMA SpentType ==
    ASSUME left \in [hups : Nat, changes : Nat, lookups : Nat]
    PROVE  /\ left.hups > 0 => [left EXCEPT !.hups = @ - 1] \in [hups : Nat, changes : Nat, lookups : Nat]
           /\ left.changes > 0 => [left EXCEPT !.changes = @ - 1] \in [hups : Nat, changes : Nat, lookups : Nat]
           /\ left.lookups > 0 => [left EXCEPT !.lookups = @ - 1] \in [hups : Nat, changes : Nat, lookups : Nat]
<1>1. \A n \in Nat : n > 0 => n - 1 \in Nat
  OBVIOUS
<1>2. left.hups \in Nat /\ left.changes \in Nat /\ left.lookups \in Nat
  OBVIOUS
<1> QED
  BY <1>1, <1>2

LEMMA ListsStepType ==
    ASSUME NbTypeOK, NEW h \in Handlers, InterfacesChange(h) \/ WatchFails(h) \/ Receive(h)
    PROVE  NbTypeOK'
<1> USE DEF NbTypeOK
<1>1. CASE InterfacesChange(h)
  <2>1. left' \in [hups : Nat, changes : Nat, lookups : Nat]
    BY <1>1, SpentType DEF InterfacesChange
  <2>2. PICK l \in Lists \ {ns[h]} : ns' = [ns EXCEPT ![h] = l]
    BY <1>1 DEF InterfacesChange
  <2> QED
    BY <1>1, <2>1, <2>2 DEF InterfacesChange, agentVars, lookupVars
<1>2. CASE WatchFails(h)
  BY <1>2 DEF WatchFails, agentVars, lookupVars
<1>3. CASE Receive(h)
  <2>1. pipe[h] \in Seq(AnyList) /\ pipe[h] # <<>>
    BY <1>3 DEF Receive
  <2>2. Head(pipe[h]) \in AnyList /\ Tail(pipe[h]) \in Seq(AnyList)
    BY <2>1
  <2> QED
    BY <1>3, <2>2 DEF Receive, lookupVars
<1> QED
  BY <1>1, <1>2, <1>3

LEMMA ReloadType == ASSUME NbTypeOK, Reload PROVE NbTypeOK'
<1> USE DEF NbTypeOK, Reload
<1>1. up' \in BOOLEAN
  OBVIOUS
<1>2. watch' \in [Handlers -> Watch]
  <2>1. ASSUME NEW g \in Handlers PROVE watch'[g] \in Watch
    <3>1. watch[g] \in Watch
      OBVIOUS
    <3>2. [watch[g] EXCEPT !.hup = TRUE] \in Watch
      BY <3>1 DEF Watch
    <3> QED
      BY <3>1, <3>2
  <2>2. watch' = [g \in Handlers |-> watch'[g]]
    OBVIOUS
  <2> QED
    BY <2>1, <2>2
<1>3. due' \in [Handlers -> BOOLEAN]
  OBVIOUS
<1>4. left' \in [hups : Nat, changes : Nat, lookups : Nat]
  BY SpentType
<1> QED
  BY <1>1, <1>2, <1>3, <1>4 DEF lookupVars

LEMMA LookupMoves ==
    ASSUME NEW l \in Lookup
    PROVE  /\ [l EXCEPT !.pc = "done"] \in Lookup
           /\ [l EXCEPT !.pc = "done", !.says = TRUE] \in Lookup
           /\ [l EXCEPT !.at = l.at + 1] \in Lookup
<1>1. [l EXCEPT !.pc = "done"] \in Lookup
  BY DEF Lookup
<1>2. [l EXCEPT !.pc = "done", !.says = TRUE] \in Lookup
  BY DEF Lookup
<1>3. l.at + 1 \in Nat \ {0}
  BY DEF Lookup
<1>4. [l EXCEPT !.at = l.at + 1] \in Lookup
  <2> DEFINE n == l.at + 1
  <2> HIDE DEF n
  <2>1. n \in Nat \ {0} => [l EXCEPT !.at = n] \in Lookup
    BY DEF Lookup
  <2> QED
    BY <1>3, <2>1 DEF n
<1> QED
  BY <1>1, <1>2, <1>4

LEMMA ContainsType ==
    ASSUME NbTypeOK, NEW h \in Handlers,
           ContainsStep(h) \/ \E ip \in IPs : ContainsBegin(h, ip)
    PROVE  NbTypeOK'
<1> USE DEF NbTypeOK
<1>1. ASSUME NEW ip \in IPs, ContainsBegin(h, ip)
      PROVE  NbTypeOK'
  <2>1. left' \in [hups : Nat, changes : Nat, lookups : Nat]
    BY <1>1, SpentType DEF ContainsBegin
  <2> DEFINE s == InPlace(h)
             y == ~InPlace(h) /\ Listed(h, ip)
             o == \E k \in Handlers : Appending(k)
             new == [ip |-> ip, pc |-> IF InPlace(h) THEN "append" ELSE "done", at |-> 1,
                     shared |-> s, says |-> y, overlapped |-> o]
  <2>2. s \in BOOLEAN /\ y \in BOOLEAN /\ o \in BOOLEAN
    BY DEF InPlace, Fits, Listed
  <2>3. new \in Lookup
    <3> HIDE DEF s, y, o
    <3> QED
      BY <2>2 DEF Lookup
  <2>4. ASSUME NEW g \in Handlers
        PROVE  [lookup[g] EXCEPT !.overlapped = TRUE] \in Lookup \/ lookup[g] = None
    BY DEF Lookup
  <2>5. lookup' = [g \in Handlers |->
          IF g = h THEN new
          ELSE IF lookup[g] # None /\ InPlace(h) THEN [lookup[g] EXCEPT !.overlapped = TRUE]
          ELSE lookup[g]]
    BY <1>1 DEF ContainsBegin
  <2>6. lookup' \in [Handlers -> Lookup \cup {None}]
    <3> HIDE DEF new
    <3> QED
      BY <2>3, <2>4, <2>5
  <2> QED
    BY <1>1, <2>1, <2>6 DEF ContainsBegin, agentVars
<1>2. CASE ContainsAppended(h)
  <2>1. cells' \in [1..Spare -> IPs \cup {None}]
    <3>1. <<>> \in Seq(IPs) /\ Lists \subseteq Seq(IPs)
      BY NonBypassableAssumption
    <3>2. dynamic[h] \in Seq(IPs)
      BY <3>1 DEF AnyList
    <3>3. \A i \in 1..Spare : i <= Len(dynamic[h]) => dynamic[h][i] \in IPs
      BY <3>2, NonBypassableAssumption
    <3> QED
      BY <1>2, <3>3 DEF ContainsAppended, Appended
  <2>2. lookup[h] \in Lookup
    BY <1>2 DEF ContainsAppended, Appending
  <2> DEFINE y == lookup[h].ip \in Static
             p == IF lookup[h].ip \in Static THEN "done" ELSE "range"
  <2>3. y \in BOOLEAN /\ p \in {"done", "range"}
    OBVIOUS
  <2>4. lookup' = [lookup EXCEPT ![h].pc = p, ![h].says = y]
    BY <1>2 DEF ContainsAppended
  <2>5. lookup' \in [Handlers -> Lookup \cup {None}]
    <3> HIDE DEF y, p
    <3>1. [lookup[h] EXCEPT !.pc = p, !.says = y] \in Lookup
      BY <2>2, <2>3 DEF Lookup
    <3> QED
      BY <2>2, <2>4, <3>1
  <2> QED
    BY <1>2, <2>1, <2>5 DEF ContainsAppended, agentVars
<1>3. CASE ContainsLooks(h)
  <2>1. lookup[h] \in Lookup /\ lookup[h].pc = "range"
    BY <1>3 DEF ContainsLooks
  <2> DEFINE ends == [lookup[h] EXCEPT !.pc = "done"]
             hits == [lookup[h] EXCEPT !.pc = "done", !.says = TRUE]
             turns == [lookup[h] EXCEPT !.at = lookup[h].at + 1]
  <2>2. \E l \in {ends, hits, turns} : lookup' = [lookup EXCEPT ![h] = l]
    BY <1>3 DEF ContainsLooks
  <2>3. {ends, hits, turns} \subseteq Lookup
    BY <2>1, LookupMoves
  <2>4. lookup' \in [Handlers -> Lookup \cup {None}]
    <3> HIDE DEF ends, hits, turns
    <3> QED
      BY <2>2, <2>3
  <2> QED
    BY <1>3, <2>4 DEF ContainsLooks, agentVars
<1>4. CASE ContainsReturns(h)
  BY <1>4 DEF ContainsReturns, agentVars
<1> QED
  BY <1>1, <1>2, <1>3, <1>4 DEF ContainsStep

LEMMA NbStepType ==
    ASSUME NbTypeOK, NbNext \/ NbEnds \/ UNCHANGED nbVars
    PROVE  NbTypeOK'
<1>1. ASSUME NEW h \in Handlers, Handling(h)
      PROVE  NbTypeOK'
  BY <1>1, WatchStepType, ListsStepType, ContainsType DEF Handling
<1>2. ASSUME NEW h \in Handlers, StartAgent(h) \/ WatchFails(h) \/ InterfacesChange(h)
      PROVE  NbTypeOK'
  BY <1>2, WatchStepType, ListsStepType
<1>3. CASE NbEnds
  BY <1>3 DEF NbEnds, NbTypeOK, agentVars, lookupVars
<1>4. CASE UNCHANGED nbVars
  BY <1>4 DEF nbVars, NbTypeOK, agentVars, lookupVars
<1> QED
  BY <1>1, <1>2, <1>3, <1>4, ReloadType DEF NbNext

\* What StartHandle keeps to itself.
MainTypeOK ==
    /\ config \in Configs
    /\ conn \in [Handlers -> {"none", "queued", "taken", "refused", "handled"}]
    /\ peer \in [Handlers -> {"silent", "sent", "closed"}]
    /\ main.pc \in {"accept", "receive", "tracer", "register", "probe", "launch", "wait"}
    /\ main.at \in IF main.pc = "accept" THEN {None} ELSE {h \in Handlers : conn[h] = "taken"}
    /\ task \in [Handlers -> {"none", "running", "ready", "ended"}]
    /\ tracer \in {"off", "up", "mute"} /\ daemon \in {"up", "mute"}
    /\ main = [pc |-> main.pc, at |-> main.at]

LEMMA MainStepType ==
    ASSUME MainTypeOK, MainStep
    PROVE  MainTypeOK'
<1> USE DEF MainTypeOK, At, Goes
<1>1. ASSUME NEW h \in Handlers, Accept(h) \/ ReceiveFd(h) \/ Refuse(h)
      PROVE  MainTypeOK'
  BY <1>1 DEF Accept, ReceiveFd, Refuse, AfterRefusal
<1>2. CASE StartTracer
  BY <1>2 DEF StartTracer
<1>3. CASE RegisterForwardPorts
  BY <1>3 DEF RegisterForwardPorts
<1>4. CASE Probe
  BY <1>4 DEF Probe
<1>5. CASE LaunchTask
  BY <1>5 DEF LaunchTask, FirstState
<1>6. CASE Handle
  BY <1>6 DEF Handle
<1> QED
  BY <1>1, <1>2, <1>3, <1>4, <1>5, <1>6 DEF MainStep

LEMMA MainType ==
    ASSUME MainTypeOK, [Next]_vars
    PROVE  MainTypeOK'
<1>1. CASE MainFails \/ Exit
  BY <1>1 DEF MainFails, Exit, EtcdFails, StartTracerFails, ProbeFails, Ends, mainVars, MainTypeOK
<1>2. CASE TracerMute \/ DaemonMute
  BY <1>2 DEF TracerMute, DaemonMute, MainTypeOK
<1>3. ASSUME NEW h \in Handlers,
             Connect(h) \/ Send(h) \/ Close(h) \/ TaskReady(h) \/ TaskEnds(h) \/ PingFails(h)
      PROVE  MainTypeOK'
  BY <1>3 DEF Connect, Connected, Send, Close, TaskReady, TaskEnds, PingFails, Ends, mainVars, MainTypeOK
<1>4. CASE UNCHANGED mainVars
  BY <1>4 DEF mainVars, MainTypeOK
<1>5. ASSUME NEW h \in Handlers, WatchNS(h) \/ HandlerStep(h)
      PROVE  UNCHANGED mainVars
  BY <1>5 DEF WatchNS, HandlerStep
<1> QED
  BY <1>1, <1>2, <1>3, <1>4, <1>5, MainStepType DEF Next, vars

LEMMA MainInit == Init => MainTypeOK
BY DEF Init, MainTypeOK

\* Every variable keeps its type, and the connection that StartHandle is at
\* is one that it has taken and not refused (StartHandle, WatchNS, Contains).
THEOREM StartupTypeCorrect == Safety => []TypeOK
<1>1. Init => NbTypeOK /\ MainTypeOK
  BY ListsType, MainInit DEF Init
<1>2. NbTypeOK /\ MainTypeOK /\ [Next]_vars => (NbTypeOK /\ MainTypeOK)'
  BY StepOfLists, NbStepType, MainType
<1>3. NbTypeOK /\ MainTypeOK => TypeOK
  BY DEF MainTypeOK, TypeOK
<1> QED
  BY <1>1, <1>2, <1>3, PTL DEF Safety

-----------------------------------------------------------------------------
(* Reloads *)

\* A signal is relayed by a WatchNS that watches, whose nsagent was started.
WatchAgrees ==
    \A h \in Handlers :
        /\ watch[h].hup \/ due[h] => watch[h].pc = "watching"
        /\ agent[h].pc = "none" <=> watch[h].pc = "off"

\* Where a reload that is due has got to.
Carried(h) ==
    \/ watch[h].hup \/ agent[h].hup \/ agent[h].pc = "dead"
    \/ agent[h].pc = "writing" /\ agent[h].seen = ns[h]
    \/ agent[h].pc # "writing" /\ Newest(h) = ns[h]

ReloadInv == NbTypeOK /\ WatchAgrees /\ \A h \in Handlers : due[h] => Carried(h)

LEMMA NewestAppended ==
    ASSUME NEW h \in Handlers, NEW l, pipe[h] \in Seq(AnyList), pipe'[h] = Append(pipe[h], l),
           l \in AnyList
    PROVE  Newest(h)' = l
<1>1. pipe'[h] # <<>> /\ pipe'[h][Len(pipe'[h])] = l
  OBVIOUS
<1> QED
  BY <1>1 DEF Newest

LEMMA NewestReceived ==
    ASSUME NbTypeOK, NEW h \in Handlers, Receive(h)
    PROVE  Newest(h)' = Newest(h)
<1> DEFINE p == pipe[h]
<1>1. p \in Seq(AnyList) /\ p # <<>>
  BY DEF NbTypeOK, Receive
<1>2. pipe'[h] = Tail(p) /\ dynamic'[h] = Head(p)
  BY DEF NbTypeOK, Receive
<1>3. IF Tail(p) = <<>> THEN Head(p) = p[Len(p)] ELSE Tail(p)[Len(Tail(p))] = p[Len(p)]
  <2> HIDE DEF p
  <2>1. Len(p) \in Nat \ {0} /\ Head(p) = p[1]
    BY <1>1
  <2>2. /\ Tail(p) \in Seq(AnyList) /\ Len(Tail(p)) = Len(p) - 1
        /\ \A i \in 1..Len(Tail(p)) : Tail(p)[i] = p[i + 1]
        /\ Tail(p) = <<>> <=> Len(Tail(p)) = 0
    BY <1>1, HeadTailProperties, EmptySeq
  <2>3. CASE Len(p) = 1
    BY <2>1, <2>2, <2>3
  <2>4. CASE Len(p) > 1
    <3>1. Len(Tail(p)) \in 1..Len(Tail(p)) /\ Len(Tail(p)) + 1 = Len(p)
      BY <2>1, <2>2, <2>4
    <3>2. Tail(p)[Len(Tail(p))] = p[Len(Tail(p)) + 1]
      BY <2>2, <3>1
    <3>3. Tail(p) # <<>>
      BY <2>2, <3>1
    <3> QED
      BY <3>1, <3>2, <3>3
  <2> QED
    BY <2>1, <2>3, <2>4
<1> QED
  BY <1>1, <1>2, <1>3 DEF Newest

\* What a step of one handler's WatchNS does not touch.
LEMMA OthersKept ==
    ASSUME ReloadInv, NEW h \in Handlers, NEW g \in Handlers, g # h,
           \/ WatchStep(h) \/ StartAgent(h) \/ Receive(h) \/ InterfacesChange(h)
    PROVE  /\ watch'[g] = watch[g] /\ agent'[g] = agent[g] /\ due'[g] = due[g]
           /\ Newest(g)' = Newest(g) /\ ns'[g] = ns[g]
<1> USE DEF ReloadInv, NbTypeOK, Newest
<1>1. CASE StartAgent(h)
  BY <1>1 DEF StartAgent
<1>2. CASE Listen(h) \/ Relay(h)
  BY <1>2 DEF Listen, Relay
<1>3. CASE AgentLists(h) \/ AgentListens(h) \/ AgentReads(h) \/ AgentWrites(h) \/ AgentFails(h)
  BY <1>3 DEF AgentLists, AgentListens, AgentReads, AgentWrites, AgentFails
<1>4. CASE Receive(h)
  BY <1>4 DEF Receive
<1>5. CASE InterfacesChange(h)
  BY <1>5 DEF InterfacesChange, agentVars
<1> QED
  BY <1>1, <1>2, <1>3, <1>4, <1>5 DEF WatchStep

\* What it leaves of its own handler.
Kept(h) ==
    /\ watch[h].hup \/ due[h] => watch[h].pc = "watching"
    /\ agent[h].pc = "none" <=> watch[h].pc = "off"
    /\ due[h] => Carried(h)

LEMMA OwnKept ==
    ASSUME ReloadInv, NEW h \in Handlers,
           \/ WatchStep(h) \/ StartAgent(h) \/ Receive(h) \/ InterfacesChange(h)
    PROVE  Kept(h)'
<1> USE DEF ReloadInv, NbTypeOK, WatchAgrees, Carried, Kept, Watch, Agent
<1>1. CASE StartAgent(h)
  BY <1>1 DEF StartAgent
<1>2. CASE Listen(h)
  BY <1>2 DEF Listen, Newest
<1>3. CASE Relay(h)
  BY <1>3 DEF Relay, Hup
<1>4. CASE AgentLists(h)
  <2>1. pipe[h] \in Seq(AnyList) /\ ns[h] \in AnyList
    BY DEF AnyList
  <2>2. pipe'[h] = Append(pipe[h], ns[h]) /\ agent'[h].pc = "listed" /\ ns' = ns
    BY <1>4 DEF AgentLists
  <2>3. Newest(h)' = ns[h]
    BY <2>1, <2>2, NewestAppended
  <2>4. watch'[h] = watch[h] /\ watch[h].pc # "off" /\ due' = due
    BY <1>4 DEF AgentLists, AtAgent
  <2>5. watch[h].hup \/ due[h] => watch[h].pc = "watching"
    OBVIOUS
  <2> HIDE DEF ReloadInv, NbTypeOK, WatchAgrees
  <2>6. Carried(h)'
    BY <2>2, <2>3
  <2> HIDE DEF Carried
  <2>7. watch'[h].hup \/ due'[h] => watch'[h].pc = "watching"
    BY <2>4, <2>5
  <2>8. agent'[h].pc # "none" /\ watch'[h].pc # "off"
    BY <2>2, <2>4
  <2> QED
    BY <2>6, <2>7, <2>8
<1>5. CASE AgentListens(h)
  <2>1. Newest(h)' = Newest(h) /\ UNCHANGED <<watch, due, ns>>
    BY <1>5 DEF AgentListens, Newest
  <2>2. /\ agent[h].pc = "listed" /\ agent'[h].pc = "idle"
        /\ agent'[h].hup = agent[h].hup
    BY <1>5 DEF AgentListens, AtAgent
  <2> QED
    BY <2>1, <2>2
<1>6. CASE AgentReads(h)
  BY <1>6 DEF AgentReads, AtAgent
<1>7. CASE AgentWrites(h)
  <2>1. Newest(h)' = agent[h].seen
    BY <1>7, NewestAppended DEF AgentWrites
  <2> QED
    BY <1>7, <2>1 DEF AgentWrites, AtAgent
<1>8. CASE AgentFails(h)
  BY <1>8 DEF AgentFails, AtAgent
<1>9. CASE Receive(h)
  BY <1>9, NewestReceived DEF Receive
<1>10. CASE InterfacesChange(h)
  BY <1>10 DEF InterfacesChange, agentVars
<1> QED
  BY <1>1, <1>2, <1>3, <1>4, <1>5, <1>6, <1>7, <1>8, <1>9, <1>10 DEF WatchStep

LEMMA ReloadStep ==
    ASSUME ReloadInv, NbNext \/ NbEnds \/ UNCHANGED nbVars
    PROVE  ReloadInv'
<1>0. NbTypeOK'
  BY NbStepType DEF ReloadInv
<1> SUFFICES \A g \in Handlers : Kept(g)'
  BY <1>0 DEF ReloadInv, WatchAgrees, Kept
<1>1. ASSUME NEW h \in Handlers,
             WatchStep(h) \/ StartAgent(h) \/ Receive(h) \/ InterfacesChange(h)
      PROVE  \A g \in Handlers : Kept(g)'
  <2> SUFFICES ASSUME NEW g \in Handlers PROVE Kept(g)'
    OBVIOUS
  <2>1. CASE g = h
    BY <1>1, <2>1, OwnKept
  <2>2. CASE g # h
    <3>1. Kept(g)
      BY DEF ReloadInv, WatchAgrees, Kept
    <3> QED
      BY <1>1, <2>2, <3>1, OthersKept DEF Kept, Carried
  <2> QED
    BY <2>1, <2>2
<1>2. CASE Reload
  BY <1>2 DEF Reload, ReloadInv, NbTypeOK, WatchAgrees, Carried, Kept, Watch
<1>3. ASSUME UNCHANGED <<watch, agent, pipe, dynamic, ns, due>>
      PROVE  \A g \in Handlers : Kept(g)'
  BY <1>3 DEF ReloadInv, WatchAgrees, Carried, Kept, Newest
<1>4. CASE NbEnds \/ UNCHANGED nbVars
  BY <1>3, <1>4 DEF NbEnds, nbVars, agentVars
<1>5. ASSUME NEW h \in Handlers, WatchFails(h)
      PROVE  \A g \in Handlers : Kept(g)'
  BY <1>3, <1>5 DEF WatchFails, agentVars
<1>6. ASSUME NEW h \in Handlers, ContainsStep(h) \/ \E ip \in IPs : ContainsBegin(h, ip)
      PROVE  \A g \in Handlers : Kept(g)'
  BY <1>3, <1>6 DEF ContainsStep, ContainsAppended, ContainsLooks, ContainsReturns, ContainsBegin,
                    agentVars
<1> QED
  BY <1>1, <1>2, <1>4, <1>5, <1>6 DEF NbNext, Handling

\* No reload is lost: a SIGHUP that was due to a handler is on its way to the
\* nsagent, or the nsagent or dynamicList has the interfaces as they are, or
\* the nsagent is dead (WatchNS, nsagent.Main).
THEOREM ReloadsKept == Safety => []ReloadKept
<1>1. Init => ReloadInv
  BY ListsType DEF Init, NbInit, ReloadInv, WatchAgrees
<1>2. ReloadInv /\ [Next]_vars => ReloadInv'
  BY StepOfLists, ReloadStep
<1>3. ReloadInv => ReloadKept
  BY DEF ReloadInv, Carried, ReloadKept
<1> QED
  BY <1>1, <1>2, <1>3, PTL DEF Safety

-----------------------------------------------------------------------------
(* Lookups *)

\* What dynamicList has found its way into the cells.
Written(h) == \A i \in 1..Len(dynamic[h]) : cells[i] = dynamic[h][i]

\* A lookup that nobody else has been in the way of.
Alone(h) == ~lookup[h].overlapped => \A g \in Handlers \ {h} : ~Appending(g)

LookupRight(h) ==
    LET l == lookup[h]
    IN  /\ l.pc = "append" =>
              l.shared /\ ~l.says /\ l.at = 1 /\ Len(dynamic[h]) <= Spare /\ Alone(h)
        /\ l.pc = "range" =>
              /\ ~l.says /\ l.ip \notin Static /\ Len(dynamic[h]) <= Spare /\ Alone(h)
              /\ ~l.overlapped => /\ Written(h)
                                  /\ \A i \in 1..Len(dynamic[h]) :
                                        i < l.at => dynamic[h][i] # l.ip
        /\ l.pc = "done" =>
              /\ ~l.overlapped => l.says = Listed(h, l.ip)
              /\ l.ip \in Static => l.says

LookupInv == NbTypeOK /\ \A h \in Handlers : lookup[h] # None => LookupRight(h)

LEMMA DynamicIsSeq == ASSUME NbTypeOK, NEW h \in Handlers PROVE dynamic[h] \in Seq(IPs)
<1>1. <<>> \in Seq(IPs) /\ Lists \subseteq Seq(IPs)
  BY NonBypassableAssumption
<1> QED
  BY <1>1 DEF NbTypeOK, AnyList

LEMMA BeginRight ==
    ASSUME LookupInv, NEW h \in Handlers, NEW ip \in IPs, ContainsBegin(h, ip),
           NEW g \in Handlers, lookup'[g] # None
    PROVE  LookupRight(g)'
<1> USE DEF LookupInv, NbTypeOK
<1>1. dynamic' = dynamic /\ cells' = cells
  BY DEF ContainsBegin, agentVars
<1> DEFINE new == [ip |-> ip, pc |-> IF InPlace(h) THEN "append" ELSE "done", at |-> 1,
                   shared |-> InPlace(h), says |-> ~InPlace(h) /\ Listed(h, ip),
                   overlapped |-> \E k \in Handlers : Appending(k)]
<1>2. lookup' = [k \in Handlers |->
          IF k = h THEN new
          ELSE IF lookup[k] # None /\ InPlace(h) THEN [lookup[k] EXCEPT !.overlapped = TRUE]
          ELSE lookup[k]]
  BY DEF ContainsBegin
<1>3. lookup'[h] = new
  BY <1>2
<1>4. ASSUME NEW k \in Handlers, k # h, lookup[k] # None
      PROVE  /\ lookup'[k].pc = lookup[k].pc /\ lookup'[k].ip = lookup[k].ip
             /\ lookup'[k].at = lookup[k].at /\ lookup'[k].shared = lookup[k].shared
             /\ lookup'[k].says = lookup[k].says
             /\ lookup'[k].overlapped = (InPlace(h) \/ lookup[k].overlapped)
             /\ lookup'[k] # None
  BY <1>2, <1>4, NonBypassableNoneAssumption DEF Lookup
<1>5. ASSUME NEW k \in Handlers, k # h, lookup[k] = None
      PROVE  lookup'[k] = None
  BY <1>2, <1>5
<1>6. \A k \in Handlers \ {h} : Appending(k)' <=> Appending(k)
  BY <1>4, <1>5 DEF Appending
<1>7. CASE g = h
  <2>1. new.overlapped <=> \E k \in Handlers : Appending(k)
    OBVIOUS
  <2>2. ~new.overlapped => \A k \in Handlers \ {h} : ~Appending(k)'
    BY <1>6, <2>1
  <2> QED
    <3> DEFINE o == \E k \in Handlers : Appending(k)
               s == InPlace(h)
               y == ~InPlace(h) /\ Listed(h, ip)
    <3>1. /\ lookup'[h].pc = IF s THEN "append" ELSE "done"
          /\ lookup'[h].ip = ip /\ lookup'[h].shared = s /\ lookup'[h].says = y
          /\ lookup'[h].at = 1 /\ lookup'[h].overlapped = o
      BY <1>3
    <3>2. Alone(h)'
      BY <2>2, <3>1 DEF Alone
    <3>3. s => Len(dynamic[h]) <= Spare
      BY DEF InPlace, Fits
    <3>4. ~s => y = Listed(h, ip)
      BY DEF Listed
    <3>5. Listed(h, ip)' = Listed(h, ip)
      BY <1>1 DEF Listed
    <3>6. y => ~s
      OBVIOUS
    <3>7. ~s /\ ip \in Static => y
      BY DEF Listed
    <3> QED
      <4> HIDE DEF o, s, y
      <4> QED
        BY <1>1, <1>7, <3>1, <3>2, <3>3, <3>4, <3>5, <3>6, <3>7 DEF LookupRight, Listed
<1>8. CASE g # h
  <2>1. lookup[g] # None
    BY <1>5, <1>8
  <2>2. LookupRight(g)
    BY <2>1
  <2>3. Alone(g) => Alone(g)'
    <3>1. /\ InPlace(h) => lookup'[g].overlapped
          /\ lookup[g].overlapped => lookup'[g].overlapped
      BY <1>4, <1>8, <2>1
    <3>2. ~InPlace(h) => ~Appending(h)'
      BY <1>3 DEF Appending
    <3>3. ASSUME Alone(g), ~InPlace(h), ~lookup'[g].overlapped, NEW k \in Handlers \ {g}
          PROVE  ~Appending(k)'
      <4>1. ~Appending(k)
        BY <3>1, <3>3 DEF Alone
      <4> QED
        BY <1>6, <3>2, <3>3, <4>1
    <3> QED
      BY <3>1, <3>3 DEF Alone
  <2> QED
    <3> DEFINE l == lookup[g]
               n == lookup'[g]
    <3>1. /\ n.pc = l.pc /\ n.ip = l.ip /\ n.at = l.at /\ n.shared = l.shared
          /\ n.says = l.says /\ (~n.overlapped => ~l.overlapped)
      BY <1>4, <1>8, <2>1
    <3>2. Written(g)' = Written(g) /\ Listed(g, l.ip)' = Listed(g, l.ip)
      BY <1>1, <1>4, <1>8, <2>1 DEF Written, Listed
    <3>4. CASE l.pc = "append"
      BY <1>1, <2>2, <2>3, <3>1, <3>4 DEF LookupRight
    <3>5. CASE l.pc = "range"
      BY <1>1, <2>2, <2>3, <3>1, <3>2, <3>5 DEF LookupRight
    <3>6. CASE l.pc = "done"
      BY <2>2, <3>1, <3>2, <3>6 DEF LookupRight
    <3>7. l.pc \in {"append", "range", "done"}
      BY <2>1 DEF Lookup
    <3> QED
      BY <3>4, <3>5, <3>6, <3>7
<1> QED
  BY <1>7, <1>8

\* A step that leaves another handler's lookup, its list and, if the lookup is
\* undisturbed, the cells, and begins no append.
LEMMA OtherRight ==
    ASSUME LookupInv, NEW g \in Handlers, lookup'[g] # None,
           lookup'[g] = lookup[g], dynamic'[g] = dynamic[g],
           cells' = cells \/ ~Alone(g) \/ lookup[g].overlapped,
           \A k \in Handlers : Appending(k)' => Appending(k)
    PROVE  LookupRight(g)'
<1>1. LookupRight(g)
  BY DEF LookupInv
<1>2. Alone(g) => Alone(g)'
  BY DEF Alone
<1>3. Listed(g, lookup[g].ip)' = Listed(g, lookup[g].ip)
  BY DEF Listed
<1>4. lookup[g].pc \in {"append", "range", "done"}
  BY DEF LookupInv, NbTypeOK, Lookup
<1>5. CASE lookup[g].pc = "append"
  BY <1>1, <1>2, <1>5 DEF LookupRight
<1>6. CASE lookup[g].pc = "range"
  BY <1>1, <1>2, <1>6 DEF LookupRight, Written
<1>7. CASE lookup[g].pc = "done"
  BY <1>1, <1>3, <1>7 DEF LookupRight
<1> QED
  BY <1>4, <1>5, <1>6, <1>7

LEMMA AppendedRight ==
    ASSUME LookupInv, NEW h \in Handlers, ContainsAppended(h),
           NEW g \in Handlers, lookup'[g] # None
    PROVE  LookupRight(g)'
<1> USE DEF LookupInv, NbTypeOK
<1>1. /\ dynamic' = dynamic /\ cells' = Appended(h)
      /\ lookup[h] \in Lookup /\ lookup[h].pc = "append" /\ Appending(h)
  BY DEF ContainsAppended, Appending, agentVars
<1> DEFINE static == lookup[h].ip \in Static
           new == [lookup[h] EXCEPT !.pc = IF static THEN "done" ELSE "range", !.says = static]
<1>2. lookup' = [lookup EXCEPT ![h] = new]
  BY DEF ContainsAppended
<1>3. \A k \in Handlers : Appending(k)' => Appending(k) /\ k # h
  <2>1. new.pc # "append"
    BY <1>1 DEF Lookup
  <2> QED
    BY <1>2, <2>1 DEF Appending
<1>4. CASE g # h
  <2>1. lookup'[g] = lookup[g]
    BY <1>2, <1>4
  <2>2. ~Alone(g) \/ lookup[g].overlapped
    BY <1>1, <1>4 DEF Alone
  <2> QED
    BY <1>1, <1>3, <2>1, <2>2, OtherRight
<1>5. CASE g = h
  <2>1. LookupRight(h)
    BY <1>1, NonBypassableNoneAssumption
  <2>2. Len(dynamic[h]) <= Spare /\ Alone(h)
    BY <1>1, <2>1 DEF LookupRight
  <2>3. Len(dynamic[h]) \in Nat
    BY DynamicIsSeq
  <2>4. \A i \in 1..Len(dynamic[h]) : cells'[i] = dynamic[h][i]
    BY <1>1, <2>2, <2>3, NonBypassableAssumption DEF Appended
  <2>5. Alone(h)'
    BY <1>1, <1>2, <1>3, <2>2 DEF Alone, Lookup
  <2>6. lookup'[h] = new
    BY <1>2
  <2> QED
    <3>1. /\ new.ip = lookup[h].ip /\ new.at = 1 /\ new.says = static
          /\ new.pc = IF static THEN "done" ELSE "range"
      BY <1>1, <2>1 DEF LookupRight, Lookup
    <3>2. CASE static
      <4>1. /\ lookup'[h].pc = "done" /\ lookup'[h].says /\ lookup'[h].ip \in Static
        BY <2>6, <3>1, <3>2
      <4>2. Listed(h, lookup[h].ip)'
        BY <4>1 DEF Listed
      <4> QED
        BY <1>5, <4>1, <4>2, Zenon DEF LookupRight
    <3>3. CASE ~static
      <4>1. Written(h)'
        BY <1>1, <2>4 DEF Written
      <4>2. /\ lookup'[h].pc = "range" /\ ~lookup'[h].says /\ lookup'[h].ip \notin Static
            /\ lookup'[h].at = 1
        BY <2>6, <3>1, <3>3
      <4>3. \A i \in 1..Len(dynamic'[h]) : ~(i < lookup'[h].at)
        BY <1>1, <2>3, <4>2
      <4> QED
        BY <1>1, <1>5, <2>2, <2>5, <4>1, <4>2, <4>3 DEF LookupRight
    <3> QED
      BY <3>2, <3>3
<1> QED
  BY <1>4, <1>5

LEMMA LooksRight ==
    ASSUME LookupInv, NEW h \in Handlers, ContainsLooks(h),
           NEW g \in Handlers, lookup'[g] # None
    PROVE  LookupRight(g)'
<1> USE DEF LookupInv, NbTypeOK
<1> DEFINE l == lookup[h]
           n == lookup'[h]
           d == dynamic[h]
<1>1. /\ dynamic' = dynamic /\ cells' = cells
      /\ l \in Lookup /\ l # None /\ l.pc = "range"
  BY DEF ContainsLooks, agentVars
<1>2. \E x \in Lookup : lookup' = [lookup EXCEPT ![h] = x] /\ x.pc \in {"done", "range"}
  <2> DEFINE ends == [l EXCEPT !.pc = "done"]
             hits == [l EXCEPT !.pc = "done", !.says = TRUE]
             turns == [l EXCEPT !.at = l.at + 1]
  <2>1. \E x \in {ends, hits, turns} : lookup' = [lookup EXCEPT ![h] = x]
    BY DEF ContainsLooks
  <2>2. {ends, hits, turns} \subseteq Lookup
    BY <1>1, LookupMoves
  <2>3. ends.pc = "done" /\ hits.pc = "done" /\ turns.pc = "range"
    BY <1>1 DEF Lookup
  <2> HIDE DEF ends, hits, turns
  <2> QED
    BY <2>1, <2>2, <2>3
<1>3. \A k \in Handlers : Appending(k)' => Appending(k)
  BY <1>2 DEF Appending
<1>4. CASE g # h
  <2>1. lookup'[g] = lookup[g]
    BY <1>2, <1>4
  <2> QED
    BY <1>1, <1>3, <2>1, OtherRight
<1>5. CASE g = h
  <2>1. LookupRight(h)
    BY <1>1
  <2>2. /\ ~l.says /\ l.ip \notin Static /\ Len(d) <= Spare /\ Alone(h)
        /\ ~l.overlapped => /\ Written(h)
                            /\ \A i \in 1..Len(d) : i < l.at => d[i] # l.ip
    BY <1>1, <2>1 DEF LookupRight
  <2>3. Len(d) \in Nat /\ l.at \in Nat \ {0} /\ DOMAIN d = 1..Len(d) /\ d \in Seq(IPs)
    BY <1>1, DynamicIsSeq DEF Lookup
  <2>4. CASE l.at > Len(d)
    <3>1. lookup' = [lookup EXCEPT ![h].pc = "done"]
      BY <2>3, <2>4 DEF ContainsLooks
    <3>2. n.pc = "done" /\ n.says = l.says /\ n.ip = l.ip /\ n.overlapped = l.overlapped
      BY <1>1, <3>1 DEF Lookup
    <3>3. ~l.overlapped => ~Listed(h, lookup[h].ip)'
      <4>1. ~l.overlapped => \A i \in DOMAIN d : d[i] # l.ip
        BY <2>2, <2>3, <2>4
      <4> QED
        BY <1>1, <2>2, <3>2, <4>1 DEF Listed
    <3>4. n.says = FALSE
      BY <1>1, <2>2, <3>2 DEF Lookup
    <3>5. ~l.overlapped => Listed(h, lookup[h].ip)' = FALSE
      BY <3>3 DEF Listed
    <3>6. n.ip \notin Static
      BY <2>2, <3>2
    <3> QED
      BY <1>5, <3>2, <3>4, <3>5, <3>6 DEF LookupRight
  <2>5. CASE l.at <= Len(d)
    <3>1. PICK hit \in (IF \E k \in Handlers : Appending(k) /\ l.at <= Len(dynamic[k])
                        THEN BOOLEAN ELSE {cells[l.at] = l.ip}) :
            lookup' = [lookup EXCEPT ![h] =
                         IF hit THEN [l EXCEPT !.pc = "done", !.says = TRUE]
                         ELSE [l EXCEPT !.at = l.at + 1]]
      BY <2>3, <2>5 DEF ContainsLooks
    <3>2. ~l.overlapped => (hit <=> cells[l.at] = l.ip)
      <4>1. ~Appending(h)
        BY <1>1 DEF Appending
      <4>2. ~l.overlapped => \A k \in Handlers : ~Appending(k)
        BY <2>2, <4>1 DEF Alone
      <4> QED
        BY <3>1, <4>2
    <3>3. CASE hit
      <4>1. n.pc = "done" /\ n.says /\ n.ip = l.ip /\ n.overlapped = l.overlapped
        BY <1>1, <3>1, <3>3 DEF Lookup
      <4>2. ~l.overlapped => Listed(h, lookup[h].ip)'
        <5>1. l.at \in DOMAIN d
          BY <2>3, <2>5
        <5> QED
          BY <1>1, <2>2, <2>3, <2>5, <3>2, <3>3, <4>1, <5>1 DEF Listed, Written
      <4>3. n.says = TRUE
        BY <3>1, <3>3, <1>1 DEF Lookup
      <4>4. ~l.overlapped => Listed(h, lookup[h].ip)' = TRUE
        BY <4>2 DEF Listed
      <4> QED
        BY <1>5, <4>1, <4>3, <4>4 DEF LookupRight
    <3>4. CASE ~hit
      <4>1. /\ n.pc = "range" /\ n.says = l.says /\ n.ip = l.ip
            /\ n.overlapped = l.overlapped /\ n.at = l.at + 1
        BY <1>1, <3>1, <3>4 DEF Lookup
      <4>2. ~l.overlapped => \A i \in 1..Len(d) : i < n.at => d[i] # n.ip
        BY <2>2, <2>3, <2>5, <3>2, <3>4, <4>1 DEF Written
      <4>3. Alone(h)'
        BY <1>3, <2>2, <4>1 DEF Alone
      <4>4. Written(h)' = Written(h)
        BY <1>1 DEF Written
      <4> QED
        BY <1>1, <1>5, <2>2, <4>1, <4>2, <4>3, <4>4 DEF LookupRight
    <3> QED
      BY <3>3, <3>4
  <2> QED
    BY <2>3, <2>4, <2>5
<1> QED
  BY <1>4, <1>5

LEMMA LookupStep ==
    ASSUME LookupInv, NbNext \/ NbEnds \/ UNCHANGED nbVars
    PROVE  LookupInv'
<1>0. NbTypeOK'
  BY NbStepType DEF LookupInv
<1> SUFFICES ASSUME NEW g \in Handlers, lookup'[g] # None PROVE LookupRight(g)'
  BY <1>0 DEF LookupInv
<1>1. ASSUME UNCHANGED lookupVars, dynamic'[g] = dynamic[g]
      PROVE  LookupRight(g)'
  BY <1>1, OtherRight DEF lookupVars, Appending
<1>2. CASE NbEnds \/ UNCHANGED nbVars \/ Reload
  BY <1>1, <1>2 DEF NbEnds, nbVars, Reload, agentVars
<1>3. ASSUME NEW h \in Handlers,
             WatchStep(h) \/ StartAgent(h) \/ WatchFails(h) \/ InterfacesChange(h)
      PROVE  UNCHANGED lookupVars /\ dynamic' = dynamic
  BY <1>3 DEF WatchStep, StartAgent, WatchFails, InterfacesChange, Listen, Relay, AgentLists,
              AgentListens, AgentReads, AgentWrites, AgentFails, agentVars
<1>4. ASSUME NEW h \in Handlers, Receive(h)
      PROVE  LookupRight(g)'
  <2>1. UNCHANGED lookupVars /\ lookup[h] = None
    BY <1>4 DEF Receive, LockFree
  <2>2. g # h
    BY <2>1 DEF lookupVars
  <2>3. dynamic'[g] = dynamic[g]
    BY <1>4, <2>2 DEF Receive, LookupInv, NbTypeOK
  <2> QED
    BY <1>1, <2>1, <2>3
<1>5. ASSUME NEW h \in Handlers, ContainsReturns(h)
      PROVE  LookupRight(g)'
  <2>1. dynamic' = dynamic /\ cells' = cells /\ lookup' = [lookup EXCEPT ![h] = None]
    BY <1>5 DEF ContainsReturns, agentVars
  <2>2. \A k \in Handlers : lookup'[k] = None \/ lookup'[k] = lookup[k]
    BY <2>1 DEF LookupInv, NbTypeOK
  <2>3. \A k \in Handlers : Appending(k)' => Appending(k)
    BY <2>2 DEF Appending
  <2> QED
    BY <2>1, <2>2, <2>3, OtherRight
<1>6. ASSUME NEW h \in Handlers, ContainsAppended(h) \/ ContainsLooks(h)
      PROVE  LookupRight(g)'
  BY <1>6, AppendedRight, LooksRight
<1>7. ASSUME NEW h \in Handlers, NEW ip \in IPs, ContainsBegin(h, ip)
      PROVE  LookupRight(g)'
  BY <1>7, BeginRight
<1> QED
  BY <1>1, <1>2, <1>3, <1>4, <1>5, <1>6, <1>7 DEF NbNext, Handling, ContainsStep

\* A lookup that no other handler of the process disturbs tells exactly whether
\* the address is in the static or the handler's own dynamic list; one that is
\* disturbed still finds what the static list has (Contains).
THEOREM LookupsRight == Safety => []AnswersRight
<1>1. Init => LookupInv
  BY ListsType DEF Init, NbInit, LookupInv
<1>2. LookupInv /\ [Next]_vars => LookupInv'
  BY StepOfLists, LookupStep
<1>3. LookupInv => AnswersRight
  BY DEF LookupInv, LookupRight, AnswersRight
<1> QED
  BY <1>1, <1>2, <1>3, PTL DEF Safety
=============================================================================
