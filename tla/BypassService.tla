---------------------------- MODULE BypassService ----------------------------
(***************************************************************************)
(* What bypass4netnsd promises to its clients.  A request takes effect in  *)
(* one step between its arrival and its answer: the set of containers that *)
(* have a handler is read or changed as if no other request was there.     *)
(***************************************************************************)
CONSTANTS None, IDs, Reqs

VARIABLES
    serving,   \* the containers with a handler that the service knows of
    pending    \* the requests that are not answered yet

vars == <<serving, pending>>

Op == {"start", "stop", "list"}
Result == {"none", "ok", "not found", "failed"}
Pending == [op : Op, id : IDs, result : Result, listed : SUBSET IDs]

TypeOK == serving \in SUBSET IDs /\ pending \in [Reqs -> Pending \cup {None}]

Init == serving = {} /\ pending = [r \in Reqs |-> None]

Invoke(r) ==
    /\ pending[r] = None
    /\ \E op \in Op, id \in IDs :
          pending' = [pending EXCEPT ![r] =
                        [op |-> op, id |-> id, result |-> "none", listed |-> {}]]
    /\ UNCHANGED serving

Open(r, op) == pending[r] # None /\ pending[r].op = op /\ pending[r].result = "none"
Decide(r, result) == pending' = [pending EXCEPT ![r].result = result]

Start(r) ==
    Open(r, "start") /\ Decide(r, "ok") /\ serving' = serving \cup {pending[r].id}

Stop(r) ==
    /\ Open(r, "stop") /\ pending[r].id \in serving
    /\ Decide(r, "ok") /\ serving' = serving \ {pending[r].id}

StopUnknown(r) ==
    /\ Open(r, "stop") /\ pending[r].id \notin serving
    /\ Decide(r, "not found") /\ UNCHANGED serving

Fail(r) ==
    /\ Open(r, "start") \/ Open(r, "stop")
    /\ Decide(r, "failed") /\ UNCHANGED serving

List(r) ==
    /\ Open(r, "list")
    /\ pending' = [pending EXCEPT ![r].result = "ok", ![r].listed = serving]
    /\ UNCHANGED serving

Return(r) ==
    /\ pending[r] # None /\ pending[r].result # "none"
    /\ pending' = [pending EXCEPT ![r] = None]
    /\ UNCHANGED serving

Next ==
    \E r \in Reqs :
        \/ Invoke(r) \/ Start(r) \/ Stop(r) \/ StopUnknown(r)
        \/ Fail(r) \/ List(r) \/ Return(r)

Safety == Init /\ [][Next]_vars
=============================================================================
