------------------------------ MODULE Startup ------------------------------
(***************************************************************************)
(* The loop of StartHandle, which takes the seccomp fd of one container    *)
(* after another, and what it starts: the tracer, the background task that *)
(* each container must wait for, and the handler with its WatchNS.  One    *)
(* goroutine does all of this, so that what keeps it from one container    *)
(* keeps it from all that follow.  A definition whose comment begins "A    *)
(* slip" is no part of this specification: put in place of the definition  *)
(* that follows it, it shows that a property notices the mistake.          *)
(***************************************************************************)
EXTENDS NonBypassable

CONSTANT Configs    \* the command lines to consider

CommandLine == [c2c : BOOLEAN, multinode : BOOLEAN, tracer : BOOLEAN, auto : BOOLEAN,
                ports : BOOLEAN]

ASSUME StartupAssumption == Configs \subseteq CommandLine

VARIABLES
    config,  \* the command line; "ports": --publish was given
    conn,    \* the connections to the socket
    peer,    \* whether the runtime at the other end has sent its message
    main,    \* the goroutine of StartHandle and the connection it is at
    task,    \* the background tasks
    tracer,  \* the tracer agent; "mute" is one that never answers again
    daemon   \* bypass4netnsd; "mute" is one that takes a request and no more

mainVars == <<config, conn, peer, main, task, tracer, daemon>>
vars == <<nbVars, mainVars>>

ASSUME StartupNoneAssumption == None \notin Handlers

\* What cmd/bypass4netns does not refuse.
Accepted(f) == f.tracer => f.c2c

TypeOK ==
    /\ NbTypeOK
    /\ config \in Configs
    /\ conn \in [Handlers -> {"none", "queued", "taken", "refused", "handled"}]
    /\ peer \in [Handlers -> {"silent", "sent", "closed"}]
    /\ main.pc \in {"accept", "receive", "tracer", "register", "probe", "launch", "wait"}
    /\ main.at \in IF main.pc = "accept" THEN {None} ELSE {h \in Handlers : conn[h] = "taken"}
    /\ task \in [Handlers -> {"none", "running", "ready", "ended"}]
    /\ tracer \in {"off", "up", "mute"}
    /\ daemon \in {"up", "mute"}

Init ==
    /\ NbInit
    /\ config \in {f \in Configs : Accepted(f)}
    /\ conn = [h \in Handlers |-> "none"]
    /\ peer = [h \in Handlers |-> "silent"]
    /\ main = [pc |-> "accept", at |-> None]
    /\ task = [h \in Handlers |-> "none"]
    /\ tracer = "off"
    /\ daemon = "up"

-----------------------------------------------------------------------------
(* The process *)

\* Fatal, os.Exit: no other goroutine takes a step any more.
Ends == /\ up' = FALSE
        /\ UNCHANGED <<ns, agentVars, lookupVars, due, left, mainVars>>

\* SIGTERM, SIGINT or the exit-fd.
Exit == up /\ Ends

\* A runtime starts a container.
Connect(h) ==
    /\ up /\ conn[h] = "none"
    /\ conn' = [conn EXCEPT ![h] = "queued"]
    /\ UNCHANGED <<nbVars, config, peer, main, task, tracer, daemon>>

Connected(h) == up /\ conn[h] \in {"queued", "taken"} /\ peer[h] = "silent"

\* The runtime sends the seccomp fd, at any time or never.
Send(h) ==
    /\ Connected(h)
    /\ peer' = [peer EXCEPT ![h] = "sent"]
    /\ UNCHANGED <<nbVars, config, conn, main, task, tracer, daemon>>

\* It ends before it has.
Close(h) ==
    /\ Connected(h) /\ "message" \in Faults
    /\ peer' = [peer EXCEPT ![h] = "closed"]
    /\ UNCHANGED <<nbVars, config, conn, main, task, tracer, daemon>>

\* bypass4netnsd hangs or is stopped: its socket still takes requests.
DaemonMute ==
    /\ up /\ "daemon" \in Faults /\ daemon = "up" /\ config.c2c /\ ~config.multinode
    /\ daemon' = "mute"
    /\ UNCHANGED <<nbVars, config, conn, peer, main, task, tracer>>

-----------------------------------------------------------------------------
(* StartHandle *)

At(pc) == up /\ main.pc = pc
Goes(pc) == main' = [main EXCEPT !.pc = pc]

Accept(h) ==
    /\ At("accept") /\ conn[h] = "queued"
    /\ conn' = [conn EXCEPT ![h] = "taken"]
    /\ main' = [pc |-> "receive", at |-> h]
    /\ UNCHANGED <<nbVars, config, peer, task, tracer, daemon>>

\* Recvmsg has no deadline: a silent peer keeps the goroutine.
ReceiveFd(h) ==
    /\ At("receive") /\ main.at = h /\ peer[h] = "sent"
    /\ Goes("tracer")
    /\ UNCHANGED <<nbVars, config, conn, peer, task, tracer, daemon>>

\* A slip: there is no "continue".
RefusedGoesOn(h) == [pc |-> "tracer", at |-> h]

AfterRefusal(h) == [pc |-> "accept", at |-> None]

\* handleNewMessage fails: the end of the stream, or no seccomp fd.
Refuse(h) ==
    /\ At("receive") /\ main.at = h /\ peer[h] # "silent" /\ "message" \in Faults
    /\ conn' = [conn EXCEPT ![h] = "refused"]
    /\ main' = AfterRefusal(h)
    /\ UNCHANGED <<nbVars, config, peer, task, tracer, daemon>>

\* No etcd client.
EtcdFails == At("tracer") /\ config.multinode /\ "etcd" \in Faults /\ Ends

TracerWanted == config.tracer /\ ~config.multinode

StartTracer ==
    /\ At("tracer")
    /\ IF TracerWanted /\ tracer = "off"
       THEN tracer' = "up" /\ Goes("register")
       ELSE Goes("launch") /\ UNCHANGED tracer
    /\ UNCHANGED <<nbVars, config, conn, peer, task, daemon>>

StartTracerFails ==
    At("tracer") /\ TracerWanted /\ tracer = "off" /\ "tracer" \in Faults /\ Ends

\* The agent ends, and its pipes stay open since nobody waits for it; or it
\* waits itself for a listener that could not bind its port.
TracerMute ==
    /\ up /\ "tracer" \in Faults /\ tracer = "up"
    /\ tracer' = "mute"
    /\ UNCHANGED <<nbVars, config, conn, peer, main, task, daemon>>

RegisterForwardPorts ==
    /\ At("register") /\ tracer = "up"
    /\ Goes(IF config.ports THEN "probe" ELSE "launch")
    /\ UNCHANGED <<nbVars, config, conn, peer, task, tracer, daemon>>

\* ConnectToAddress of each port.
Probe ==
    /\ At("probe") /\ tracer = "up"
    /\ Goes("launch")
    /\ UNCHANGED <<nbVars, config, conn, peer, task, tracer, daemon>>

\* A port does not answer within 10 ms.
ProbeFails == At("probe") /\ tracer = "up" /\ "probe" \in Faults /\ Ends

\* A slip: nothing is sent to "ready" where there is no task.
NobodyReady == IF config.multinode \/ config.c2c THEN "running" ELSE "none"

FirstState == IF config.multinode \/ config.c2c THEN "running" ELSE "ready"

LaunchTask ==
    /\ At("launch")
    /\ task' = [task EXCEPT ![main.at] = FirstState]
    /\ Goes("wait")
    /\ UNCHANGED <<nbVars, config, conn, peer, tracer, daemon>>

Handle ==
    /\ At("wait") /\ task[main.at] = "ready"
    /\ conn' = [conn EXCEPT ![main.at] = "handled"]
    /\ main' = [pc |-> "accept", at |-> None]
    /\ UNCHANGED <<nbVars, config, peer, task, tracer, daemon>>

-----------------------------------------------------------------------------
(* The background tasks *)

\* The calls of a task that have no deadline: those to the daemon and those
\* to the tracer.
Stuck == daemon = "mute" \/ tracer = "mute"

\* The first round is over.
TaskReady(h) ==
    /\ up /\ task[h] = "running"
    /\ task' = [task EXCEPT ![h] = "ready"]
    /\ UNCHANGED <<nbVars, config, conn, peer, main, tracer, daemon>>

\* GetAddressesInNetNS fails before: the task returns, "ready" stays empty.
TaskEnds(h) ==
    /\ up /\ task[h] = "running" /\ "task" \in Faults
    /\ task' = [task EXCEPT ![h] = "ended"]
    /\ UNCHANGED <<nbVars, config, conn, peer, main, tracer, daemon>>

\* The daemon does not answer the Ping.
PingFails(h) ==
    up /\ task[h] = "running" /\ ~config.multinode /\ "ping" \in Faults /\ Ends

-----------------------------------------------------------------------------
(* The handlers *)

\* What handle() starts.
WatchNS(h) ==
    /\ conn[h] = "handled" /\ config.auto
    /\ StartAgent(h) \/ WatchFails(h)
    /\ UNCHANGED mainVars

\* A handler runs: its WatchNS and its lookups.
HandlerStep(h) == conn[h] = "handled" /\ Handling(h) /\ UNCHANGED mainVars

MainStep ==
    \/ StartTracer \/ RegisterForwardPorts \/ Probe \/ LaunchTask \/ Handle
    \/ \E h \in Handlers : Accept(h) \/ ReceiveFd(h) \/ Refuse(h)

MainFails == EtcdFails \/ StartTracerFails \/ ProbeFails

Next ==
    \/ MainStep \/ MainFails \/ TracerMute \/ DaemonMute \/ Exit
    \/ \E h \in Handlers :
          \/ Connect(h) \/ Send(h) \/ Close(h)
          \/ TaskReady(h) \/ TaskEnds(h) \/ PingFails(h)
          \/ WatchNS(h) \/ HandlerStep(h)
          \/ InterfacesChange(h) /\ UNCHANGED mainVars
    \/ Reload /\ UNCHANGED mainVars

Safety == Init /\ [][Next]_vars

\* Goroutines and child processes are scheduled, a tracer and a daemon that
\* are not mute answer, and the write lock on a list is had once the lookups
\* end.  No runtime owes its message.
Fairness ==
    /\ WF_vars(MainStep)
    /\ \A h \in Handlers :
          /\ WF_vars(~Stuck /\ TaskReady(h))
          /\ WF_vars(WatchStep(h) /\ UNCHANGED mainVars)
          /\ WF_vars(Receive(h) /\ UNCHANGED mainVars)
          /\ WF_vars(ContainsStep(h) /\ UNCHANGED mainVars)

Spec == Safety /\ Fairness

-----------------------------------------------------------------------------
(* Properties *)

\* StartHandle waits for what may never come: the message of a runtime, an
\* answer of the tracer, a task that has returned, or one that waits itself
\* for the daemon or the tracer.
Held ==
    \/ main.pc = "receive" /\ peer[main.at] = "silent"
    \/ main.pc \in {"register", "probe"} /\ tracer = "mute"
    \/ main.pc = "wait" /\ task[main.at] = "ended"
    \/ main.pc = "wait" /\ task[main.at] = "running" /\ Stuck

\* Each connection is taken up in the end, whatever has become of the others,
\* but for the process that ends and what Held names (StartHandle): no refusal,
\* failure or order of the steps before holds the loop otherwise.
Served == \A h \in Handlers : []<>(conn[h] # "queued" \/ ~up \/ Held)

\* A handler that has SIGHUP relayed comes to ignore exactly the subnets that
\* its namespace has then, unless its nsagent is dead.  What the model leaves
\* out is an interface whose addresses cannot be read, which the nsagent skips,
\* and a list of 64 KB, at which watchNS stops (WatchNS, nsagent.Main).
ReloadReaches ==
    \A h \in Handlers :
        []<>(up /\ due[h] /\ agent[h].pc # "dead" => dynamic[h] = ns[h])
=============================================================================
