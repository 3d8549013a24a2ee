----------------------------- MODULE DriverProofs -----------------------------
(***************************************************************************)
(* What holds of bypass4netnsd for any number of containers, processes and *)
(* requests, orderly or not, whatever fails: the types, that an entry's    *)
(* process id is that of a child, and that it implements BypassService.    *)
(***************************************************************************)
EXTENDS Driver, TLAPS

Starting == {"spawn", "waiting", "poll", "record"}
Stopping == {"lookup", "signal", "wait", "delete", "interfaces"}
Holding == {"signal", "wait", "delete", "interfaces"}
Fresh == {"waiting", "poll", "record"}   \* has a process that no entry names

\* The program counter tells the operation and whether there is a result.
PcInv ==
    \A r \in Reqs : req[r] # None =>
        /\ req[r].pc \in Starting => req[r].op = "start"
        /\ req[r].pc \in Stopping => req[r].op = "stop"
        /\ req[r].pc = "list" => req[r].op = "list"
        /\ req[r].pc \notin {"interfaces", "done"} => req[r].result = "none"
        /\ req[r].pc \in {"interfaces", "done"} => req[r].result # "none"

\* The lock is held by the request that is between StopBypass's lookup and
\* its end, and by no other.
LockInv ==
    /\ lock # None => req[lock] # None /\ req[lock].pc \in Holding
    /\ \A r \in Reqs : req[r] # None /\ req[r].pc \in Holding => lock = r

\* A request at work has a process of its container; a start's is its own,
\* which no entry has, but for one that outlived its process.
PidInv ==
    /\ \A r \in Reqs : req[r] # None =>
          /\ req[r].pc \in Fresh \cup {"signal", "wait"} =>
                req[r].pid \in Pids /\ Child(req[r].pid, req[r].id)
          /\ req[r].pc \in Fresh => \A c \in IDs : bypass[c] # req[r].pid \/ Outlived(c)
          /\ req[r].pc \in {"signal", "wait", "delete"} =>
                req[r].pid # None /\ bypass[req[r].id] = req[r].pid
    /\ \A r, s \in Reqs :
          /\ r # s /\ req[r] # None /\ req[s] # None
          /\ req[r].pc \in Fresh /\ req[s].pc \in Fresh
          => req[r].pid # req[s].pid

DriverInv == TypeOK /\ PcInv /\ LockInv /\ PidInv /\ EntryIsChild
-----------------------------------------------------------------------------
(* What an update of a request or of a process leaves *)

\* A request moves on, to pc and result, as process pid.
Moves(r, pc, pid, result) ==
    /\ req[r] # None /\ req[r] \in Request
    /\ req' \in [Reqs -> Request \cup {None}]
    /\ req'[r] # None /\ req'[r].pc = pc /\ req'[r].pid = pid /\ req'[r].result = result
    /\ req'[r].op = req[r].op /\ req'[r].id = req[r].id
    /\ \A s \in Reqs : s # r => req'[s] = req[s]

LEMMA GotoMoves ==
    ASSUME TypeOK, NEW r \in Reqs, req[r] # None, NEW pc \in Pc, Goto(r, pc)
    PROVE  Moves(r, pc, req[r].pid, req[r].result)
<1>1. req[r] \in Request
  BY DEF TypeOK
<1> DEFINE x == [req[r] EXCEPT !.pc = pc]
<1>2. x \in Request /\ x.pc = pc /\ x.result = req[r].result /\ x.pid = req[r].pid
      /\ x.op = req[r].op /\ x.id = req[r].id
  BY <1>1 DEF Request
<1>3. req' = [req EXCEPT ![r] = x]
  BY DEF Goto
<1> HIDE DEF x
<1>4. /\ req' \in [Reqs -> Request \cup {None}]
      /\ req'[r] = x
      /\ \A s \in Reqs : s # r => req'[s] = req[s]
  <2>1. req \in [Reqs -> Request \cup {None}]
    BY DEF TypeOK
  <2> QED
    BY <1>2, <1>3, <2>1
<1> QED
  BY <1>1, <1>2, <1>4, DriverNoneAssumption DEF Moves

LEMMA FinishMoves ==
    ASSUME TypeOK, NEW r \in Reqs, req[r] # None,
           NEW result \in {"none", "ok", "not found", "failed"}, NEW pc \in Pc,
           req' = [req EXCEPT ![r].pc = pc, ![r].result = result]
    PROVE  Moves(r, pc, req[r].pid, result)
<1>1. req[r] \in Request
  BY DEF TypeOK
<1> DEFINE x == [req[r] EXCEPT !.pc = pc, !.result = result]
<1>2. x \in Request /\ x.pc = pc /\ x.result = result /\ x.pid = req[r].pid
      /\ x.op = req[r].op /\ x.id = req[r].id
  BY <1>1 DEF Request
<1>3. req' = [req EXCEPT ![r] = x]
  OBVIOUS
<1> HIDE DEF x
<1>4. /\ req' \in [Reqs -> Request \cup {None}]
      /\ req'[r] = x
      /\ \A s \in Reqs : s # r => req'[s] = req[s]
  <2>1. req \in [Reqs -> Request \cup {None}]
    BY DEF TypeOK
  <2> QED
    BY <1>2, <1>3, <2>1
<1> QED
  BY <1>1, <1>2, <1>4, DriverNoneAssumption DEF Moves

LEMMA SpawnMoves ==
    ASSUME TypeOK, NEW r \in Reqs, req[r] # None, NEW pc \in Pc, NEW pid \in Pids,
           req' = [req EXCEPT ![r].pc = pc, ![r].pid = pid]
    PROVE  Moves(r, pc, pid, req[r].result)
<1>1. req[r] \in Request
  BY DEF TypeOK
<1> DEFINE x == [req[r] EXCEPT !.pc = pc, !.pid = pid]
<1>2. x \in Request /\ x.pc = pc /\ x.pid = pid /\ x.result = req[r].result
      /\ x.op = req[r].op /\ x.id = req[r].id
  BY <1>1 DEF Request
<1>3. req' = [req EXCEPT ![r] = x]
  OBVIOUS
<1> HIDE DEF x
<1>4. /\ req' \in [Reqs -> Request \cup {None}]
      /\ req'[r] = x
      /\ \A s \in Reqs : s # r => req'[s] = req[s]
  <2>1. req \in [Reqs -> Request \cup {None}]
    BY DEF TypeOK
  <2> QED
    BY <1>2, <1>3, <2>1
<1> QED
  BY <1>1, <1>2, <1>4, DriverNoneAssumption DEF Moves

-----------------------------------------------------------------------------
(* Steps of processes and of the table of interfaces *)

\* No child comes or goes, and none changes its container.
ChildrenStay ==
    /\ procs' \in [Pids -> Process \cup {None}]
    /\ \A p \in Pids : procs[p] # None /\ procs[p].id # None =>
          procs'[p] # None /\ procs'[p].id = procs[p].id

LEMMA OutsideStep ==
    ASSUME DriverInv, UNCHANGED driver, ChildrenStay,
           sockFile' \in [IDs -> Pids \cup {None}],
           ifs' \in SUBSET IDs, posts' \in SUBSET IDs
    PROVE  DriverInv'
<1>1. TypeOK'
  BY DEF DriverInv, TypeOK, ChildrenStay, driver
<1>2. PcInv' /\ LockInv'
  BY DEF DriverInv, PcInv, LockInv, driver
<1>3. \A p \in Pids, c \in IDs : Child(p, c) => Child(p, c)'
  BY DriverAssumption DEF Child, ChildrenStay
<1>4. \A c \in IDs : Outlived(c)' <=> Outlived(c)
  BY DEF Outlived, At, driver
<1>5. PidInv'
  <2>1. \A r \in Reqs : req[r] # None => req[r].id \in IDs
    BY DEF DriverInv, TypeOK, Request
  <2> QED
    BY <1>3, <1>4, <2>1 DEF DriverInv, PidInv, driver
<1>6. EntryIsChild'
  BY <1>3, <1>4 DEF DriverInv, EntryIsChild, TypeOK, driver
<1> QED
  BY <1>1, <1>2, <1>5, <1>6 DEF DriverInv

\* A child's record after one of its steps.
LEMMA ProcessMoves ==
    ASSUME TypeOK, NEW p \in Pids, NEW x \in Process, procs[p] # None, x.id = procs[p].id,
           procs' = [procs EXCEPT ![p] = x]
    PROVE  ChildrenStay
BY DriverNoneAssumption DEF TypeOK, ChildrenStay

LEMMA ProcessFields ==
    ASSUME NEW x \in Process, NEW st \in {"boot", "removed", "listening", "ready", "zombie"}
    PROVE  /\ x.id \in IDs \cup {None}
           /\ [x EXCEPT !.st = st] \in Process /\ [x EXCEPT !.st = st].id = x.id
           /\ [x EXCEPT !.st = st, !.told = TRUE] \in Process
           /\ [x EXCEPT !.st = st, !.told = TRUE].id = x.id
           /\ [x EXCEPT !.catches = TRUE] \in Process /\ [x EXCEPT !.catches = TRUE].id = x.id
           /\ [x EXCEPT !.term = TRUE] \in Process /\ [x EXCEPT !.term = TRUE].id = x.id
BY DEF Process

LEMMA ChildSteps ==
    ASSUME DriverInv, NEW p \in Pids,
           ChildStep(p) \/ ChildCatches(p) \/ ChildDies(p) \/ ChildPosts(p) \/ Stranger(p)
    PROVE  DriverInv'
<1>0. TypeOK
  BY DEF DriverInv
<1>1. Active(p) => procs[p] \in Process /\ procs[p] # None /\ procs[p].id \in IDs
  BY <1>0, DriverNoneAssumption, ProcessFields DEF TypeOK, Active
<1>2. UNCHANGED driver
  BY DEF ChildStep, ChildRemoves, ChildListens, ChildTells, ChildTerminates, ChildCatches,
         ChildDies, ChildPosts, Stranger
<1>3. /\ sockFile' \in [IDs -> Pids \cup {None}]
      /\ ifs' \in SUBSET IDs /\ posts' \in SUBSET IDs
  BY <1>0, <1>1 DEF TypeOK, ChildStep, ChildRemoves, ChildListens, ChildTells, ChildTerminates,
         ChildCatches, ChildDies, ChildPosts, Stranger, tables
<1>4. ChildrenStay
  <2>1. CASE ChildRemoves(p)
    <3> DEFINE x == [procs[p] EXCEPT !.st = "removed"]
    <3>1. procs' = [procs EXCEPT ![p] = x] /\ Active(p)
      BY <2>1 DEF ChildRemoves
    <3>2. x \in Process /\ x.id = procs[p].id
      BY <1>1, <3>1, ProcessFields
    <3> HIDE DEF x
    <3> QED
      BY <1>0, <1>1, <3>1, <3>2, ProcessMoves
  <2>2. CASE ChildListens(p)
    <3>1. PICK st \in {"listening", "zombie"} :
             procs' = [procs EXCEPT ![p] = [procs[p] EXCEPT !.st = st]]
      BY <2>2 DEF ChildListens
    <3>2. Active(p)
      BY <2>2 DEF ChildListens
    <3> DEFINE x == [procs[p] EXCEPT !.st = st]
    <3>3. procs' = [procs EXCEPT ![p] = x]
      BY <3>1
    <3>4. x \in Process /\ x.id = procs[p].id
      BY <1>1, <3>2, ProcessFields
    <3> HIDE DEF x
    <3> QED
      BY <1>0, <1>1, <3>2, <3>3, <3>4, ProcessMoves
  <2>3. CASE ChildTells(p)
    <3>1. /\ Active(p)
          /\ procs' = [procs EXCEPT ![p] = [procs[p] EXCEPT !.st = "ready", !.told = TRUE]]
      BY <2>3 DEF ChildTells
    <3> QED
      BY <1>0, <1>1, <3>1, ProcessFields, ProcessMoves
  <2>4. CASE ChildTerminates(p) \/ ChildDies(p)
    <3>1. procs' = [procs EXCEPT ![p] = [procs[p] EXCEPT !.st = "zombie"]] /\ Active(p)
      BY <2>4 DEF ChildTerminates, ChildDies
    <3> QED
      BY <1>0, <1>1, <3>1, ProcessFields, ProcessMoves
  <2>5. CASE ChildCatches(p)
    <3>1. procs' = [procs EXCEPT ![p] = [procs[p] EXCEPT !.catches = TRUE]] /\ Active(p)
      BY <2>5 DEF ChildCatches
    <3> QED
      BY <1>0, <1>1, <3>1, ProcessFields, ProcessMoves
  <2>6. CASE ChildPosts(p)
    BY <1>0, <2>6 DEF ChildPosts, ChildrenStay, TypeOK
  <2>7. CASE Stranger(p)
    <3>1. [NewProcess(None) EXCEPT !.st = "ready"] \in Process
      BY DEF NewProcess, Process
    <3> QED
      BY <1>0, <2>7, <3>1, DriverNoneAssumption DEF Stranger, ChildrenStay, TypeOK
  <2> QED
    BY <2>1, <2>2, <2>3, <2>4, <2>5, <2>6, <2>7 DEF ChildStep
<1> QED
  BY <1>2, <1>3, <1>4, OutsideStep

LEMMA TableSteps ==
    ASSUME DriverInv, NEW c \in IDs, PostInterface(c) \/ DeleteInterface(c)
    PROVE  DriverInv'
<1>1. /\ UNCHANGED driver /\ UNCHANGED <<procs, sockFile>>
      /\ ifs' \in SUBSET IDs /\ posts' \in SUBSET IDs
  BY DEF PostInterface, DeleteInterface, DriverInv, TypeOK
<1>2. ChildrenStay
  BY <1>1 DEF ChildrenStay, DriverInv, TypeOK
<1> QED
  BY <1>1, <1>2, OutsideStep DEF DriverInv, TypeOK

-----------------------------------------------------------------------------
(* Steps of requests *)

LEMMA InvokeInv ==
    ASSUME DriverInv, NEW r \in Reqs, Invoke(r)
    PROVE  DriverInv'
<1>1. PICK op \in {"start", "stop", "list"}, c \in IDs :
         req' = [req EXCEPT ![r] = [op |-> op, id |-> c, pc |-> First(op), pid |-> None,
                                    result |-> "none", listed |-> {}]]
  BY DEF Invoke
<1> DEFINE x == [op |-> op, id |-> c, pc |-> First(op), pid |-> None,
                 result |-> "none", listed |-> {}]
<1>2. x \in Request /\ x # None
  <2>1. First(op) \in Pc
    BY DEF First, Pc
  <2> HIDE DEF First
  <2>2. x \in Request
    BY <2>1 DEF Request
  <2> QED
    BY <2>2, DriverNoneAssumption
<1>3. /\ x.op = op /\ x.pc = First(op) /\ x.result = "none"
      /\ x.pc \notin Fresh \cup Holding
  BY DEF First, Fresh, Holding
<1>4. req' = [req EXCEPT ![r] = x]
  BY <1>1
<1> HIDE DEF x
<1>5. /\ req' \in [Reqs -> Request \cup {None}]
      /\ req'[r] = x
      /\ \A s \in Reqs : s # r => req'[s] = req[s]
  BY <1>2, <1>4 DEF DriverInv, TypeOK
<1>6. /\ UNCHANGED <<bypass, lock, procs, sockFile, ifs, posts>> /\ req[r] = None
  BY DEF Invoke, tables
<1>7. TypeOK'
  BY <1>5, <1>6 DEF DriverInv, TypeOK
<1>8. PcInv'
  BY <1>3, <1>5 DEF DriverInv, PcInv, First, Starting, Stopping
<1>9. LockInv'
  BY <1>3, <1>5, <1>6 DEF DriverInv, LockInv, TypeOK
<1>10. \A d \in IDs : Outlived(d)' <=> Outlived(d)
  BY <1>5, <1>6 DEF DriverInv, LockInv, Outlived, At, TypeOK
<1>11. PidInv'
  BY <1>3, <1>5, <1>6, <1>10 DEF DriverInv, PidInv, Child, Fresh, Holding
<1>12. EntryIsChild'
  BY <1>6, <1>10 DEF DriverInv, EntryIsChild, Child
<1> QED
  BY <1>7, <1>8, <1>9, <1>11, <1>12 DEF DriverInv

LEMMA ReturnInv ==
    ASSUME DriverInv, NEW r \in Reqs, Return(r)
    PROVE  DriverInv'
<1>1. /\ req' \in [Reqs -> Request \cup {None}]
      /\ req'[r] = None
      /\ \A s \in Reqs : s # r => req'[s] = req[s]
  BY DEF DriverInv, TypeOK, Return
<1>2. /\ UNCHANGED <<bypass, lock, procs, sockFile, ifs, posts>>
      /\ req[r] # None /\ req[r].pc = "done"
  BY DEF Return, At, tables
<1>3. TypeOK'
  BY <1>1, <1>2 DEF DriverInv, TypeOK
<1>4. PcInv'
  BY <1>1 DEF DriverInv, PcInv
<1>5. LockInv'
  BY <1>1, <1>2 DEF DriverInv, LockInv, TypeOK, Holding
<1>6. \A d \in IDs : Outlived(d)' <=> Outlived(d)
  BY <1>1, <1>2 DEF DriverInv, LockInv, Outlived, At, TypeOK, Holding
<1>7. PidInv'
  BY <1>1, <1>2, <1>6 DEF DriverInv, PidInv, Child
<1>8. EntryIsChild'
  BY <1>2, <1>6 DEF DriverInv, EntryIsChild, Child
<1> QED
  BY <1>3, <1>4, <1>5, <1>7, <1>8 DEF DriverInv

\* A step of r alone, that changes no table and no process.
LEMMA QuietMove ==
    ASSUME DriverInv, NEW r \in Reqs, NEW pc \in Pc, NEW result, Moves(r, pc, req[r].pid, result),
           UNCHANGED <<bypass, lock, procs, sockFile, ifs, posts>>,
           req[r].pc \notin Holding, pc \notin Holding, pc \in Fresh => req[r].pc \in Fresh,
           pc \in Starting => req[r].pc \in Starting, pc \notin Stopping \cup {"list"},
           result = IF pc = "done" THEN result ELSE "none",
           pc = "done" => result # "none"
    PROVE  DriverInv'
<1>1. TypeOK'
  BY DEF DriverInv, TypeOK, Moves
<1>2. PcInv'
  BY DEF DriverInv, PcInv, Moves, Starting, Stopping, Holding
<1>3. LockInv'
  BY DEF DriverInv, LockInv, TypeOK, Moves
<1>4. \A d \in IDs : Outlived(d)' <=> Outlived(d)
  BY DEF DriverInv, LockInv, Outlived, At, TypeOK, Moves
<1>5. PidInv'
  BY <1>4 DEF DriverInv, PidInv, Child, Moves, Fresh, Holding
<1>6. EntryIsChild'
  BY <1>4 DEF DriverInv, EntryIsChild, Child
<1> QED
  BY <1>1, <1>2, <1>3, <1>5, <1>6 DEF DriverInv

LEMMA QuietSteps ==
    ASSUME DriverInv, NEW r \in Reqs, StartReady(r) \/ StartTimeout(r)
    PROVE  DriverInv'
<1>1. PICK pc \in {"record", "poll"} : Goto(r, pc)
  BY DEF StartReady, StartTimeout
<1>2. /\ UNCHANGED <<bypass, lock, procs, sockFile, ifs, posts>>
      /\ req[r] # None /\ req[r].pc = "waiting"
  BY DEF StartReady, StartTimeout, At, tables
<1>3. Moves(r, pc, req[r].pid, req[r].result)
  BY <1>1, <1>2, GotoMoves DEF DriverInv, Pc
<1>4. req[r].result = "none"
  BY <1>2 DEF DriverInv, PcInv
<1> QED
  BY <1>1, <1>2, <1>3, <1>4, QuietMove DEF Pc, Fresh, Holding, Starting, Stopping

\* An operation that ends without an effect.
LEMMA QuietEnd ==
    ASSUME DriverInv, NEW r \in Reqs, req[r] # None,
           req[r].pc \in {"spawn", "waiting", "poll", "lookup", "list"},
           NEW result \in {"ok", "not found", "failed"},
           Moves(r, "done", req[r].pid, result),
           UNCHANGED <<bypass, lock, procs, sockFile, ifs, posts>>
    PROVE  DriverInv'
<1>1. Moves(r, "done", req[r].pid, result) /\ "done" \in Pc
  BY DEF Pc
<1> QED
  BY <1>1, QuietMove DEF Fresh, Holding, Starting, Stopping

LEMMA FailsInv ==
    ASSUME DriverInv, NEW r \in Reqs, StartFails(r)
    PROVE  DriverInv'
<1>1. /\ UNCHANGED <<bypass, lock, procs, sockFile, ifs, posts>>
      /\ req[r] # None /\ req[r].pc \in {"waiting", "poll"} /\ Finish(r, "failed")
  BY DEF StartFails, At, tables
<1>2. Moves(r, "done", req[r].pid, "failed")
  BY <1>1, FinishMoves DEF DriverInv, Finish, Pc
<1> QED
  BY <1>1, <1>2, QuietEnd

LEMMA ListInv ==
    ASSUME DriverInv, NEW r \in Reqs, ListBypass(r)
    PROVE  DriverInv'
<1> DEFINE x == [req[r] EXCEPT !.pc = "done", !.result = "ok",
                               !.listed = {c \in IDs : bypass[c] # None}]
<1>1. req[r] \in Request /\ req[r] # None /\ req[r].pc = "list"
  BY DEF ListBypass, At, DriverInv, TypeOK
<1>2. x \in Request /\ x.pc = "done" /\ x.result = "ok" /\ x.pid = req[r].pid
      /\ x.op = req[r].op /\ x.id = req[r].id
  BY <1>1 DEF Request, Pc
<1>3. req' = [req EXCEPT ![r] = x]
  BY DEF ListBypass
<1> HIDE DEF x
<1>4. /\ req' \in [Reqs -> Request \cup {None}]
      /\ req'[r] = x
      /\ \A s \in Reqs : s # r => req'[s] = req[s]
  BY <1>2, <1>3 DEF DriverInv, TypeOK
<1>5. Moves(r, "done", req[r].pid, "ok")
  BY <1>1, <1>2, <1>4, DriverNoneAssumption DEF Moves
<1>6. UNCHANGED <<bypass, lock, procs, sockFile, ifs, posts>>
  BY DEF ListBypass, tables
<1> QED
  BY <1>1, <1>5, <1>6, QuietEnd

LEMMA SpawnInv ==
    ASSUME DriverInv, NEW r \in Reqs, StartSpawn(r)
    PROVE  DriverInv'
<1>1. /\ UNCHANGED <<bypass, lock, sockFile, ifs, posts>>
      /\ req[r] # None /\ req[r].pc = "spawn" /\ req[r].result = "none"
      /\ req[r].id \in IDs
  BY DEF StartSpawn, At, tables, DriverInv, PcInv, TypeOK, Request
<1>2. CASE Finish(r, "failed") /\ UNCHANGED procs
  <2>1. Moves(r, "done", req[r].pid, "failed")
    BY <1>1, <1>2, FinishMoves DEF DriverInv, Finish, Pc
  <2> QED
    BY <1>1, <1>2, <2>1, QuietEnd
<1>3. ASSUME NEW p \in Pids, procs[p] = None,
             procs' = [procs EXCEPT ![p] = NewProcess(req[r].id)],
             req' = [req EXCEPT ![r].pc = "waiting", ![r].pid = p]
      PROVE  DriverInv'
  <2>1. Moves(r, "waiting", p, "none")
    BY <1>1, <1>3, SpawnMoves DEF DriverInv, Pc
  <2>2. NewProcess(req[r].id) \in Process /\ NewProcess(req[r].id).id = req[r].id
    BY <1>1 DEF NewProcess, Process
  <2>3. /\ procs' \in [Pids -> Process \cup {None}]
        /\ \A q \in Pids, c \in IDs : Child(q, c) => q # p /\ Child(q, c)'
        /\ Child(p, req[r].id)'
    BY <1>3, <2>2, DriverNoneAssumption DEF Child, DriverInv, TypeOK
  <2>4. TypeOK'
    BY <1>1, <2>1, <2>3 DEF DriverInv, TypeOK, Moves
  <2>5. PcInv'
    BY <1>1, <2>1 DEF DriverInv, PcInv, Moves, Starting, Stopping
  <2>6. LockInv'
    BY <1>1, <2>1 DEF DriverInv, LockInv, TypeOK, Moves, Holding
  <2>7. \A d \in IDs : Outlived(d)' <=> Outlived(d)
    BY <1>1, <2>1 DEF DriverInv, LockInv, Outlived, At, TypeOK, Moves, Holding
  <2>8. EntryIsChild'
    BY <1>1, <2>3, <2>7 DEF DriverInv, EntryIsChild, TypeOK
  <2>9. \A c \in IDs : bypass[c] # p \/ Outlived(c)
    BY <1>3, DriverAssumption DEF DriverInv, EntryIsChild, TypeOK, Child
  <2>10. \A s \in Reqs : s # r /\ req[s] # None /\ req[s].pc \in Fresh \cup {"signal", "wait"} =>
            req[s].pid \in Pids /\ req[s].pid # p /\ req[s].id \in IDs /\ Child(req[s].pid, req[s].id)'
    BY <2>1, <2>3 DEF DriverInv, PidInv, TypeOK, Request, Moves
  <2>11. PidInv'
    BY <1>1, <2>1, <2>3, <2>7, <2>9, <2>10 DEF DriverInv, PidInv, Moves, Fresh
  <2> QED
    BY <2>4, <2>5, <2>6, <2>8, <2>11 DEF DriverInv
<1> QED
  BY <1>2, <1>3 DEF StartSpawn

LEMMA PollInv ==
    ASSUME DriverInv, NEW r \in Reqs, StartPoll(r)
    PROVE  DriverInv'
<1> DEFINE p == req[r].pid
<1>1. /\ UNCHANGED <<bypass, lock, sockFile, ifs, posts>>
      /\ req[r] # None /\ req[r].pc = "poll" /\ req[r].result = "none"
      /\ p \in Pids
  BY DEF StartPoll, At, tables, DriverInv, PcInv, PidInv, Fresh
<1>2. CASE Goto(r, "waiting") /\ UNCHANGED procs
  <2>1. Moves(r, "waiting", req[r].pid, "none") /\ "waiting" \in Pc
    BY <1>1, <1>2, GotoMoves DEF DriverInv, Pc
  <2> QED
    BY <1>1, <1>2, <2>1, QuietMove DEF Fresh, Holding, Starting, Stopping
<1>3. CASE procs' = [procs EXCEPT ![p] = None] /\ Finish(r, "failed")
  <2>1. Moves(r, "done", req[r].pid, "failed")
    BY <1>1, <1>3, FinishMoves DEF DriverInv, Finish, Pc
  <2>2. /\ procs' \in [Pids -> Process \cup {None}]
        /\ \A q \in Pids, c \in IDs : Child(q, c) /\ q # p => Child(q, c)'
    BY <1>1, <1>3 DEF Child, DriverInv, TypeOK
  <2>3. TypeOK'
    BY <1>1, <2>1, <2>2 DEF DriverInv, TypeOK, Moves
  <2>4. PcInv'
    BY <2>1 DEF DriverInv, PcInv, Moves, Starting, Stopping
  <2>5. LockInv'
    BY <1>1, <2>1 DEF DriverInv, LockInv, TypeOK, Moves, Holding
  <2>6. \A d \in IDs : Outlived(d)' <=> Outlived(d)
    BY <1>1, <2>1 DEF DriverInv, LockInv, Outlived, At, TypeOK, Moves, Holding
  <2>7. \A c \in IDs : bypass[c] # p \/ Outlived(c)
    BY <1>1 DEF DriverInv, PidInv, Fresh
  <2>8. EntryIsChild'
    BY <1>1, <2>2, <2>6, <2>7 DEF DriverInv, EntryIsChild, TypeOK
  <2>9. \A s \in Reqs : s # r /\ req[s] # None /\ req[s].pc \in Fresh \cup {"signal", "wait"} =>
            req[s].pid \in Pids /\ Child(req[s].pid, req[s].id)'
    <3>1. SUFFICES ASSUME NEW s \in Reqs, s # r, req[s] # None,
                          req[s].pc \in Fresh \cup {"signal", "wait"}
                   PROVE  req[s].pid \in Pids /\ Child(req[s].pid, req[s].id)'
      OBVIOUS
    <3>2. req[s].id \in IDs /\ req[s].pid \in Pids /\ Child(req[s].pid, req[s].id)
      BY <3>1 DEF DriverInv, PidInv, TypeOK, Request
    <3>3. req[s].pid # p
      <4>1. CASE req[s].pc \in Fresh
        BY <1>1, <3>1, <4>1 DEF DriverInv, PidInv, Fresh
      <4>2. CASE req[s].pc \in {"signal", "wait"}
        BY <2>7, <3>1, <3>2, <4>2 DEF DriverInv, PidInv, LockInv, Outlived, At, Holding
      <4> QED
        BY <3>1, <4>1, <4>2
    <3> QED
      BY <2>1, <2>2, <3>1, <3>2, <3>3 DEF Moves
  <2>10. PidInv'
    BY <1>1, <2>1, <2>6, <2>9 DEF DriverInv, PidInv, Moves, Fresh
  <2> QED
    BY <2>3, <2>4, <2>5, <2>8, <2>10 DEF DriverInv
<1> QED
  BY <1>2, <1>3 DEF StartPoll

LEMMA RecordInv ==
    ASSUME DriverInv, NEW r \in Reqs, StartRecord(r)
    PROVE  DriverInv'
<1> DEFINE p == req[r].pid
<1>1. /\ UNCHANGED <<lock, procs, sockFile, ifs, posts>> /\ lock = None
      /\ bypass' = [bypass EXCEPT ![req[r].id] = p]
      /\ req[r] # None /\ req[r].pc = "record"
      /\ req[r].id \in IDs /\ p \in Pids /\ Child(p, req[r].id)
  BY DEF StartRecord, At, tables, DriverInv, PidInv, Fresh, TypeOK, Request
<1>2. Moves(r, "done", req[r].pid, "ok")
  BY <1>1, FinishMoves DEF DriverInv, StartRecord, Finish, Pc
<1>3. /\ bypass' \in [IDs -> Pids \cup {None}] /\ bypass'[req[r].id] = p
      /\ \A c \in IDs : c # req[r].id => bypass'[c] = bypass[c]
  BY <1>1 DEF DriverInv, TypeOK
<1>4. TypeOK'
  BY <1>1, <1>2, <1>3 DEF DriverInv, TypeOK, Moves
<1>5. PcInv'
  BY <1>2 DEF DriverInv, PcInv, Moves, Starting, Stopping
<1>6. LockInv'
  BY <1>1, <1>2 DEF DriverInv, LockInv, TypeOK, Moves, Holding
<1>7. \A d \in IDs : ~Outlived(d) /\ ~Outlived(d)'
  BY <1>1 DEF Outlived
<1>8. EntryIsChild'
  BY <1>1, <1>3, <1>7 DEF DriverInv, EntryIsChild, Child
<1>9. \A s \in Reqs : s # r /\ req[s] # None =>
         /\ req[s].pc \notin Holding
         /\ req[s].pc \in Fresh => \A c \in IDs : bypass'[c] # req[s].pid
  <2>1. SUFFICES ASSUME NEW s \in Reqs, s # r, req[s] # None
                 PROVE  /\ req[s].pc \notin Holding
                        /\ req[s].pc \in Fresh => \A c \in IDs : bypass'[c] # req[s].pid
    OBVIOUS
  <2>2. req[s].pc \notin Holding
    BY <1>1, <2>1, DriverAssumption DEF DriverInv, LockInv
  <2>3. ASSUME req[s].pc \in Fresh, NEW c \in IDs
        PROVE  bypass'[c] # req[s].pid
    <3>1. req[s].pid # p
      BY <1>1, <2>1, <2>3 DEF DriverInv, PidInv, Fresh
    <3>2. bypass[c] # req[s].pid
      BY <1>7, <2>1, <2>3 DEF DriverInv, PidInv
    <3> QED
      BY <1>3, <3>1, <3>2
  <2> QED
    BY <2>2, <2>3
<1>10. PidInv'
  BY <1>1, <1>2, <1>7, <1>9 DEF DriverInv, PidInv, Moves, Fresh, Holding, Child
<1> QED
  BY <1>4, <1>5, <1>6, <1>8, <1>10 DEF DriverInv

LEMMA LookupInv ==
    ASSUME DriverInv, NEW r \in Reqs, StopLookup(r)
    PROVE  DriverInv'
<1> DEFINE p == bypass[req[r].id]
<1>1. /\ UNCHANGED <<bypass, procs, sockFile, ifs, posts>> /\ lock = None
      /\ req[r] # None /\ req[r].pc = "lookup" /\ req[r].op = "stop" /\ req[r].result = "none"
      /\ req[r].id \in IDs
  BY DEF StopLookup, At, tables, DriverInv, PcInv, TypeOK, Request, Stopping
<1>2. CASE Finish(r, "not found") /\ UNCHANGED lock
  <2>1. Moves(r, "done", req[r].pid, "not found")
    BY <1>1, <1>2, FinishMoves DEF DriverInv, Finish, Pc
  <2> QED
    BY <1>1, <1>2, <2>1, QuietEnd
<1>3. CASE /\ p # None
           /\ req' = [req EXCEPT ![r].pc = "signal", ![r].pid = p]
           /\ lock' = r
  <2>1. p \in Pids
    BY <1>1, <1>3 DEF DriverInv, TypeOK
  <2>2. Moves(r, "signal", p, "none")
    BY <1>1, <1>3, <2>1, SpawnMoves DEF DriverInv, Pc
  <2>3. r # None /\ lock' = r /\ req'[r].pc = "signal"
    BY <1>3, <2>2, DriverAssumption DEF Moves
  <2>4. TypeOK'
    BY <1>1, <1>3, <2>2 DEF DriverInv, TypeOK, Moves
  <2>5. PcInv'
    BY <1>1, <2>2 DEF DriverInv, PcInv, Moves, Starting, Stopping
  <2>6. \A s \in Reqs : req[s] # None => req[s].pc \notin Holding
    BY <1>1, DriverAssumption DEF DriverInv, LockInv
  <2>7. LockInv'
    BY <2>2, <2>3, <2>6 DEF LockInv, Moves, Holding
  <2>8. \A d \in IDs : ~Outlived(d) /\ ~Outlived(d)'
    BY <1>1, <2>3 DEF Outlived, At
  <2>9. EntryIsChild'
    <3>1. \A c \in IDs : bypass[c] # None => Child(bypass[c], c)
      BY <2>8 DEF DriverInv, EntryIsChild
    <3> QED
      BY <1>1, <3>1 DEF EntryIsChild, Child
  <2>10. Child(p, req[r].id)
    BY <1>1, <1>3, <2>8 DEF DriverInv, EntryIsChild
  <2>11. PidInv'
    BY <1>1, <1>3, <2>1, <2>2, <2>6, <2>8, <2>10
       DEF DriverInv, PidInv, Moves, Fresh, Holding, Child
  <2> QED
    BY <2>4, <2>5, <2>7, <2>9, <2>11 DEF DriverInv
<1> QED
  BY <1>1, <1>2, <1>3 DEF StopLookup

\* What StopBypass knows while it holds the lock.
LEMMA HolderKnows ==
    ASSUME DriverInv, NEW r \in Reqs, req[r] # None, req[r].pc \in Holding
    PROVE  /\ lock = r /\ r # None /\ req[r] \in Request /\ req[r].id \in IDs
           /\ req[r].op = "stop"
           /\ \A s \in Reqs : s # r /\ req[s] # None => req[s].pc \notin Holding
           /\ \A d \in IDs : Outlived(d) <=> req[r].pc = "delete" /\ req[r].id = d
           /\ req[r].pc \in {"signal", "wait"} =>
                 req[r].pid \in Pids /\ Child(req[r].pid, req[r].id)
           /\ req[r].pc \in {"signal", "wait", "delete"} => bypass[req[r].id] = req[r].pid
<1>1. /\ lock = r /\ r # None /\ req[r] \in Request /\ req[r].id \in IDs
      /\ \A s \in Reqs : s # r /\ req[s] # None => req[s].pc \notin Holding
  BY DriverAssumption DEF DriverInv, LockInv, TypeOK, Request
<1>2. req[r].op = "stop"
  BY DEF DriverInv, PcInv, Holding, Stopping
<1>3. \A d \in IDs : Outlived(d) <=> req[r].pc = "delete" /\ req[r].id = d
  BY <1>1 DEF Outlived, At
<1>4. /\ req[r].pc \in {"signal", "wait"} =>
            req[r].pid \in Pids /\ Child(req[r].pid, req[r].id)
      /\ req[r].pc \in {"signal", "wait", "delete"} => bypass[req[r].id] = req[r].pid
  BY DEF DriverInv, PidInv
<1> QED
  BY <1>1, <1>2, <1>3, <1>4

\* What a request has while it is at work.
LEMMA AtWork ==
    ASSUME DriverInv, NEW s \in Reqs, req[s] # None
    PROVE  /\ req[s] \in Request /\ req[s].id \in IDs
           /\ req[s].pc \in Fresh \cup {"signal", "wait"} =>
                 req[s].pid \in Pids /\ Child(req[s].pid, req[s].id)
           /\ req[s].pc \in Fresh => \A c \in IDs : bypass[c] # req[s].pid \/ Outlived(c)
<1>1. req[s] \in Request /\ req[s].id \in IDs
  BY DEF DriverInv, TypeOK, Request
<1> QED
  BY <1>1 DEF DriverInv, PidInv

\* A stop that gives the lock back and leaves the entry.
LEMMA GivesUpInv ==
    ASSUME DriverInv, NEW r \in Reqs, req[r] # None, req[r].pc \in {"signal", "wait"},
           Finish(r, "failed"), lock' = None, UNCHANGED <<bypass, procs, sockFile, ifs, posts>>
    PROVE  DriverInv'
<1> DEFINE p == req[r].pid
<1>1. /\ lock = r /\ req[r].pc \in Holding /\ req[r].id \in IDs
      /\ \A s \in Reqs : s # r /\ req[s] # None => req[s].pc \notin Holding
      /\ \A d \in IDs : ~Outlived(d)
  BY HolderKnows DEF Holding
<1>2. Moves(r, "done", p, "failed")
  BY FinishMoves DEF DriverInv, Finish, Pc
<1>3. TypeOK'
  BY <1>2 DEF DriverInv, TypeOK, Moves
<1>4. PcInv'
  BY <1>2 DEF DriverInv, PcInv, Moves, Starting, Stopping
<1>5. LockInv'
  BY <1>1, <1>2 DEF LockInv, Moves, Holding
<1>6. \A d \in IDs : ~Outlived(d)'
  BY DEF Outlived
<1>7. EntryIsChild'
  BY <1>1, <1>6 DEF DriverInv, EntryIsChild, Child
<1>8. PidInv'
  BY <1>1, <1>2, <1>6 DEF DriverInv, PidInv, Moves, Fresh, Holding, Child
<1> QED
  BY <1>3, <1>4, <1>5, <1>7, <1>8 DEF DriverInv

LEMMA SignalInv ==
    ASSUME DriverInv, NEW r \in Reqs, StopSignal(r)
    PROVE  DriverInv'
<1> DEFINE p == req[r].pid
<1>1. /\ UNCHANGED <<bypass, sockFile, ifs, posts>>
      /\ req[r] # None /\ req[r].pc = "signal" /\ req[r].pc \in Holding /\ req[r].result = "none"
  BY DEF StopSignal, At, tables, DriverInv, PcInv, Holding
<1>2. /\ lock = r /\ r # None /\ req[r].id \in IDs /\ req[r].op = "stop"
      /\ \A s \in Reqs : s # r /\ req[s] # None => req[s].pc \notin Holding
      /\ p \in Pids /\ Child(p, req[r].id) /\ bypass[req[r].id] = p
      /\ \A d \in IDs : ~Outlived(d)
  BY <1>1, HolderKnows
<1>3. CASE /\ procs' = [procs EXCEPT ![p].term = TRUE]
           /\ Goto(r, "wait") /\ UNCHANGED lock
  <2>1. Moves(r, "wait", p, "none")
    BY <1>1, <1>3, GotoMoves DEF DriverInv, Pc
  <2>2. ChildrenStay
    <3>1. procs[p] \in Process /\ procs[p] # None
      BY <1>2 DEF Child, DriverInv, TypeOK
    <3>2. procs' = [procs EXCEPT ![p] = [procs[p] EXCEPT !.term = TRUE]]
      BY <1>3
    <3>3. [procs[p] EXCEPT !.term = TRUE] \in Process /\ [procs[p] EXCEPT !.term = TRUE].id = procs[p].id
      BY <3>1, ProcessFields
    <3> HIDE DEF p
    <3> QED
      BY <1>2, <3>1, <3>2, <3>3, ProcessMoves DEF DriverInv
  <2>3. \A q \in Pids, c \in IDs : Child(q, c) => procs'[q] # None /\ procs'[q].id = c
    BY <2>2, DriverAssumption DEF Child, ChildrenStay
  <2>4. TypeOK'
    BY <1>1, <1>3, <2>1, <2>2 DEF DriverInv, TypeOK, Moves, ChildrenStay
  <2>5. PcInv'
    BY <1>1, <1>2, <2>1 DEF DriverInv, PcInv, Moves, Starting, Stopping
  <2>6. LockInv'
    BY <1>2, <1>3, <2>1 DEF DriverInv, LockInv, Moves, Holding
  <2>7. \A d \in IDs : ~Outlived(d)'
    BY <1>2, <1>3, <2>1 DEF Outlived, At, Moves
  <2>8. EntryIsChild'
    BY <1>1, <1>2, <2>3, <2>7 DEF DriverInv, EntryIsChild, TypeOK, Child
  <2>9. \A s \in Reqs : req[s] # None /\ req[s].pc \in Fresh \cup {"signal", "wait"} =>
           /\ req[s].pid \in Pids /\ req[s].id \in IDs
           /\ procs'[req[s].pid] # None /\ procs'[req[s].pid].id = req[s].id
    BY <2>3, AtWork
  <2>10. PidInv'
    BY <1>1, <1>2, <2>1, <2>7, <2>9 DEF DriverInv, PidInv, Moves, Fresh, Holding, Child
  <2> QED
    BY <2>4, <2>5, <2>6, <2>8, <2>10 DEF DriverInv
<1>4. CASE Finish(r, "failed") /\ lock' = None /\ UNCHANGED procs
  BY <1>1, <1>4, GivesUpInv
<1> QED
  BY <1>3, <1>4 DEF StopSignal

\* The process is gone, and its id may be anybody's.
LEMMA EndedInv ==
    ASSUME DriverInv, NEW r \in Reqs, StopWait(r), Goto(r, "delete"), UNCHANGED lock,
           \/ procs' = [procs EXCEPT ![req[r].pid] = None]
           \/ procs' = [procs EXCEPT ![req[r].pid].st = "zombie"]
    PROVE  DriverInv'
<1> DEFINE p == req[r].pid
<1>1. /\ UNCHANGED <<bypass, lock, sockFile, ifs, posts>>
      /\ req[r] # None /\ req[r].pc = "wait" /\ req[r].pc \in Holding /\ req[r].result = "none"
      /\ Goto(r, "delete")
  BY DEF StopWait, At, tables, DriverInv, PcInv, Holding
<1>2. /\ lock = r /\ r # None /\ req[r].id \in IDs /\ req[r].op = "stop"
      /\ \A s \in Reqs : s # r /\ req[s] # None => req[s].pc \notin Holding
      /\ p \in Pids /\ Child(p, req[r].id) /\ bypass[req[r].id] = p
      /\ \A d \in IDs : ~Outlived(d)
  BY <1>1, HolderKnows
<1>3. Moves(r, "delete", p, "none")
  BY <1>1, GotoMoves DEF DriverInv, Pc
<1>4. /\ procs' \in [Pids -> Process \cup {None}]
      /\ \A q \in Pids : q # p => procs'[q] = procs[q]
  <2>1. procs[p] \in Process
    BY <1>2 DEF Child, DriverInv, TypeOK
  <2>2. [procs[p] EXCEPT !.st = "zombie"] \in Process
    BY <2>1, ProcessFields
  <2>3. \/ procs' = [procs EXCEPT ![p] = None]
        \/ procs' = [procs EXCEPT ![p] = [procs[p] EXCEPT !.st = "zombie"]]
    OBVIOUS
  <2> QED
    BY <1>2, <2>2, <2>3 DEF DriverInv, TypeOK
<1>5. \A q \in Pids, c \in IDs : q # p /\ Child(q, c) => procs'[q] # None /\ procs'[q].id = c
  BY <1>4 DEF Child
<1>6. TypeOK'
  BY <1>1, <1>3, <1>4 DEF DriverInv, TypeOK, Moves
<1>7. PcInv'
  BY <1>1, <1>2, <1>3 DEF DriverInv, PcInv, Moves, Starting, Stopping
<1>8. LockInv'
  BY <1>1, <1>2, <1>3 DEF DriverInv, LockInv, Moves, Holding
<1>9. \A d \in IDs : Outlived(d)' <=> d = req[r].id
  BY <1>1, <1>2, <1>3 DEF Outlived, At, Moves
<1>10. \A c \in IDs : c # req[r].id => bypass[c] # p
  BY <1>2, DriverAssumption DEF DriverInv, EntryIsChild, Child
<1>11. EntryIsChild'
  BY <1>1, <1>2, <1>5, <1>9, <1>10 DEF DriverInv, EntryIsChild, TypeOK, Child
<1>12. \A s \in Reqs : s # r /\ req[s] # None /\ req[s].pc \in Fresh =>
          /\ req[s].pid \in Pids /\ req[s].pid # p /\ req[s].id \in IDs
          /\ procs'[req[s].pid] # None /\ procs'[req[s].pid].id = req[s].id
          /\ \A c \in IDs : bypass[c] # req[s].pid
  <2> SUFFICES ASSUME NEW s \in Reqs, s # r, req[s] # None, req[s].pc \in Fresh
               PROVE  /\ req[s].pid \in Pids /\ req[s].pid # p /\ req[s].id \in IDs
                      /\ procs'[req[s].pid] # None /\ procs'[req[s].pid].id = req[s].id
                      /\ \A c \in IDs : bypass[c] # req[s].pid
    OBVIOUS
  <2>1. /\ req[s].id \in IDs /\ req[s].pid \in Pids /\ Child(req[s].pid, req[s].id)
        /\ \A c \in IDs : bypass[c] # req[s].pid
    BY <1>2, AtWork
  <2>2. req[s].pid # p
    BY <1>2, <2>1
  <2> QED
    BY <1>5, <2>1, <2>2
<1>13. PidInv'
  BY <1>1, <1>2, <1>3, <1>9, <1>12 DEF DriverInv, PidInv, Moves, Fresh, Holding, Child
<1> QED
  BY <1>6, <1>7, <1>8, <1>11, <1>13 DEF DriverInv

LEMMA WaitInv ==
    ASSUME DriverInv, NEW r \in Reqs, StopWait(r)
    PROVE  DriverInv'
<1>1. CASE Finish(r, "failed") /\ lock' = None /\ UNCHANGED procs
  <2>1. /\ req[r] # None /\ req[r].pc = "wait"
        /\ UNCHANGED <<bypass, procs, sockFile, ifs, posts>>
    BY <1>1 DEF StopWait, At, tables
  <2> QED
    BY <1>1, <2>1, GivesUpInv
<1>2. CASE /\ Goto(r, "delete") /\ UNCHANGED lock
           /\ \/ procs' = [procs EXCEPT ![req[r].pid] = None]
              \/ procs' = [procs EXCEPT ![req[r].pid].st = "zombie"]
  BY <1>2, EndedInv
<1> QED
  BY <1>1, <1>2 DEF StopWait

LEMMA DeleteInv ==
    ASSUME DriverInv, NEW r \in Reqs, StopDelete(r)
    PROVE  DriverInv'
<1>1. /\ UNCHANGED <<lock, procs, sockFile, ifs, posts>>
      /\ bypass' = [bypass EXCEPT ![req[r].id] = None]
      /\ req[r] # None /\ req[r].pc = "delete" /\ req[r].pc \in Holding
  BY DEF StopDelete, At, tables, Holding
<1>2. /\ lock = r /\ r # None /\ req[r].id \in IDs /\ req[r].op = "stop"
      /\ \A s \in Reqs : s # r /\ req[s] # None => req[s].pc \notin Holding
      /\ \A d \in IDs : Outlived(d) <=> d = req[r].id
  BY <1>1, HolderKnows
<1>3. Moves(r, "interfaces", req[r].pid, "ok")
  BY <1>1, FinishMoves DEF StopDelete, DriverInv, Pc
<1>4. /\ bypass' \in [IDs -> Pids \cup {None}] /\ bypass'[req[r].id] = None
      /\ \A c \in IDs : c # req[r].id => bypass'[c] = bypass[c]
  BY <1>1, <1>2 DEF DriverInv, TypeOK
<1>5. TypeOK'
  BY <1>1, <1>3, <1>4 DEF DriverInv, TypeOK, Moves
<1>6. PcInv'
  BY <1>2, <1>3 DEF DriverInv, PcInv, Moves, Starting, Stopping
<1>7. LockInv'
  BY <1>1, <1>2, <1>3 DEF DriverInv, LockInv, Moves, Holding
<1>8. \A d \in IDs : ~Outlived(d)'
  BY <1>1, <1>2, <1>3 DEF Outlived, At, Moves
<1>9. EntryIsChild'
  BY <1>1, <1>2, <1>4, <1>8 DEF DriverInv, EntryIsChild, Child
<1>10. \A s \in Reqs : s # r /\ req[s] # None /\ req[s].pc \in Fresh =>
          /\ req[s].pid \in Pids /\ Child(req[s].pid, req[s].id)
          /\ \A c \in IDs : bypass'[c] # req[s].pid
  BY <1>2, <1>4, DriverAssumption DEF DriverInv, PidInv
<1>11. PidInv'
  BY <1>1, <1>2, <1>3, <1>8, <1>10 DEF DriverInv, PidInv, Moves, Fresh, Holding, Child
<1> QED
  BY <1>5, <1>6, <1>7, <1>9, <1>11 DEF DriverInv

LEMMA InterfacesInv ==
    ASSUME DriverInv, NEW r \in Reqs, StopInterfaces(r)
    PROVE  DriverInv'
<1>1. /\ UNCHANGED <<bypass, procs, sockFile, posts>> /\ lock' = None
      /\ ifs' = ifs \ {req[r].id} /\ Goto(r, "done")
      /\ req[r] # None /\ req[r].pc = "interfaces" /\ req[r].pc \in Holding /\ req[r].result # "none"
  BY DEF StopInterfaces, At, DriverInv, PcInv, Holding
<1>2. /\ lock = r /\ r # None
      /\ \A s \in Reqs : s # r /\ req[s] # None => req[s].pc \notin Holding
      /\ \A d \in IDs : ~Outlived(d)
  BY <1>1, HolderKnows
<1>3. Moves(r, "done", req[r].pid, req[r].result)
  BY <1>1, GotoMoves DEF DriverInv, Pc
<1>4. TypeOK'
  BY <1>1, <1>3 DEF DriverInv, TypeOK, Moves
<1>5. PcInv'
  BY <1>1, <1>3 DEF DriverInv, PcInv, Moves, Starting, Stopping
<1>6. LockInv'
  BY <1>1, <1>2, <1>3 DEF LockInv, Moves, Holding
<1>7. \A d \in IDs : ~Outlived(d)'
  BY <1>1 DEF Outlived
<1>8. EntryIsChild'
  BY <1>1, <1>2, <1>7 DEF DriverInv, EntryIsChild, Child
<1>9. PidInv'
  BY <1>1, <1>2, <1>3, <1>7 DEF DriverInv, PidInv, Moves, Fresh, Holding, Child
<1> QED
  BY <1>4, <1>5, <1>6, <1>8, <1>9 DEF DriverInv

LEMMA NextInv ==
    ASSUME DriverInv, [Next]_vars
    PROVE  DriverInv'
<1>1. CASE UNCHANGED vars
  <2>1. UNCHANGED driver /\ UNCHANGED <<procs, sockFile, ifs, posts>>
    BY <1>1 DEF vars, tables
  <2>2. ChildrenStay
    BY <2>1 DEF ChildrenStay, DriverInv, TypeOK
  <2> QED
    BY <2>1, <2>2, OutsideStep DEF DriverInv, TypeOK
<1>2. ASSUME NEW r \in Reqs, Invoke(r) \/ Work(r) \/ Locking(r)
      PROVE  DriverInv'
  BY <1>2, InvokeInv, ReturnInv, QuietSteps, FailsInv, ListInv, SpawnInv, PollInv, RecordInv, LookupInv,
     SignalInv, WaitInv, DeleteInv, InterfacesInv DEF Work, Locking
<1>3. ASSUME NEW p \in Pids,
             ChildStep(p) \/ ChildCatches(p) \/ ChildDies(p) \/ ChildPosts(p) \/ Stranger(p)
      PROVE  DriverInv'
  BY <1>3, ChildSteps
<1>4. ASSUME NEW c \in IDs, PostInterface(c) \/ DeleteInterface(c)
      PROVE  DriverInv'
  BY <1>4, TableSteps
<1> QED
  BY <1>1, <1>2, <1>3, <1>4 DEF Next

LEMMA DriverInvariant == Safety => []DriverInv
<1>1. Init => DriverInv
  BY DEF Init, DriverInv, TypeOK, PcInv, LockInv, PidInv, EntryIsChild
<1> QED
  BY <1>1, NextInv, PTL DEF Safety

-----------------------------------------------------------------------------
(* The results *)

\* The daemon's variables, and those of its children, keep their types.
THEOREM DriverTypeCorrect == Safety => []TypeOK
<1>1. DriverInv => TypeOK
  BY DEF DriverInv
<1> QED
  BY <1>1, DriverInvariant, PTL

\* SIGTERM goes to no stranger: an entry has the process id of a child of
\* the daemon that was not waited for yet, for clients in any order.
THEOREM EntriesAreChildren == Safety => []EntryIsChild
<1>1. DriverInv => EntryIsChild
  BY DEF DriverInv
<1> QED
  BY <1>1, DriverInvariant, PTL

-----------------------------------------------------------------------------
(***************************************************************************)
(* bypass4netnsd implements BypassService: whatever its requests, its      *)
(* children and the rest of the host do, each step is a step of the        *)
(* service or leaves what the service shows as it was.  StartBypass takes  *)
(* effect when it records the process, StopBypass when it takes the entry  *)
(* off or finds none, ListBypass when it reads the table.                  *)
(***************************************************************************)

svars == <<Serving, Pending>>

-----------------------------------------------------------------------------
(* What an update of a request shows *)

LEMMA PendingUpdate ==
    ASSUME TypeOK, NEW r \in Reqs, NEW x, req' = [req EXCEPT ![r] = x]
    PROVE  Pending' = [Pending EXCEPT ![r] = Seen(x)]
  BY DEF TypeOK, Pending

\* A request that is there shows as a record of its own fields.
LEMMA SeenRecord ==
    ASSUME NEW x \in Request
    PROVE  /\ Seen(x) = [op |-> x.op, id |-> x.id, result |-> x.result, listed |-> x.listed]
           /\ Seen(x).op = x.op /\ Seen(x).id = x.id
           /\ Seen(x).result = x.result /\ Seen(x).listed = x.listed
           /\ Seen(x) \in Entry /\ Seen(x) # None
<1> DEFINE e == [op |-> x.op, id |-> x.id, result |-> x.result, listed |-> x.listed]
<1>1. e \in Entry
  BY DEF Request, Entry
<1>2. Seen(x) = e
  BY DriverNoneAssumption DEF Seen
<1>3. e.op = x.op /\ e.id = x.id /\ e.result = x.result /\ e.listed = x.listed
  OBVIOUS
<1> QED
  BY <1>1, <1>2, <1>3, DriverNoneAssumption

LEMMA SeenRequest ==
    ASSUME TypeOK, NEW r \in Reqs, req[r] # None
    PROVE  /\ req[r] \in Request /\ req[r].id \in IDs
           /\ Pending[r] = Seen(req[r]) /\ Pending[r] \in Entry /\ Pending[r] # None
           /\ Pending[r].op = req[r].op /\ Pending[r].id = req[r].id
           /\ Pending[r].result = req[r].result /\ Pending[r].listed = req[r].listed
<1>1. req[r] \in Request /\ req[r].id \in IDs
  BY DEF TypeOK, Request
<1>2. Pending[r] = Seen(req[r])
  BY DEF Pending
<1> QED
  BY <1>1, <1>2, SeenRecord

\* The program counter and the process of a request are not seen.
LEMMA MoveUnseen ==
    ASSUME TypeOK, NEW r \in Reqs, req[r] # None, NEW pc \in Pc, NEW pid \in Pids \cup {None},
           \/ Goto(r, pc)
           \/ req' = [req EXCEPT ![r].pc = pc, ![r].pid = pid]
    PROVE  UNCHANGED Pending
<1>1. PICK x \in {[req[r] EXCEPT !.pc = pc], [req[r] EXCEPT !.pc = pc, !.pid = pid]} :
         req' = [req EXCEPT ![r] = x]
  BY DEF Goto
<1>2. req[r] \in Request
  BY SeenRequest
<1>3. x \in Request /\ x.op = req[r].op /\ x.id = req[r].id
      /\ x.result = req[r].result /\ x.listed = req[r].listed
  BY <1>1, <1>2 DEF Request
<1>4. Seen(x) = Seen(req[r])
  BY <1>2, <1>3, SeenRecord
<1>5. Seen(x) = Pending[r]
  BY <1>4, SeenRequest
<1>6. Pending' = [Pending EXCEPT ![r] = Pending[r]]
  BY <1>1, <1>5, PendingUpdate
<1> QED
  BY <1>6 DEF Pending

\* A result is.
Answers(r, pc, result) == req' = [req EXCEPT ![r].pc = pc, ![r].result = result]

LEMMA ResultSeen ==
    ASSUME TypeOK, NEW r \in Reqs, req[r] # None, NEW pc \in Pc,
           NEW result \in {"none", "ok", "not found", "failed"},
           Answers(r, pc, result)
    PROVE  Service!Decide(r, result)
<1> DEFINE x == [req[r] EXCEPT !.pc = pc, !.result = result]
<1>1. req' = [req EXCEPT ![r] = x]
  BY DEF Answers
<1>2. req[r] \in Request
  BY SeenRequest
<1>3. x \in Request /\ x.op = req[r].op /\ x.id = req[r].id
      /\ x.result = result /\ x.listed = req[r].listed
  BY <1>2 DEF Request
<1> HIDE DEF x
<1>4. PICK y \in Entry : /\ y = Pending[r] /\ y.op = req[r].op /\ y.id = req[r].id
                         /\ y.listed = req[r].listed
  BY SeenRequest
<1>5. PICK z \in Entry : /\ z = Seen(x) /\ z.op = req[r].op /\ z.id = req[r].id
                         /\ z.result = result /\ z.listed = req[r].listed
  <2>1. /\ Seen(x) \in Entry /\ Seen(x).op = x.op /\ Seen(x).id = x.id
        /\ Seen(x).result = x.result /\ Seen(x).listed = x.listed
    BY <1>3, SeenRecord
  <2>2. /\ Seen(x) \in Entry /\ Seen(x).op = req[r].op /\ Seen(x).id = req[r].id
        /\ Seen(x).result = result /\ Seen(x).listed = req[r].listed
    BY <1>3, <2>1, Zenon
  <2> QED
    BY <2>2, Zenon
<1>6. z = [y EXCEPT !.result = result]
  BY <1>4, <1>5 DEF Entry
<1>7. Pending' = [Pending EXCEPT ![r] = Seen(x)]
  BY <1>1, <1>3, PendingUpdate
<1> QED
  BY <1>4, <1>5, <1>6, <1>7 DEF Service!Decide

LEMMA FailSeen ==
    ASSUME DriverInv, NEW r \in Reqs, Finish(r, "failed"), UNCHANGED bypass,
           req[r] # None, req[r].pc \in Starting \cup Stopping, req[r].result = "none"
    PROVE  Service!Fail(r)
<1>1. Service!Decide(r, "failed")
  BY ResultSeen DEF Answers, DriverInv, Finish, Pc
<1>2. req[r].op = "start" \/ req[r].op = "stop"
  BY DEF DriverInv, PcInv
<1>3. Service!Open(r, "start") \/ Service!Open(r, "stop")
  BY <1>2, SeenRequest DEF DriverInv, Service!Open
<1>4. UNCHANGED Serving
  BY DEF Serving
<1> QED
  BY <1>1, <1>3, <1>4 DEF Service!Fail

-----------------------------------------------------------------------------
(* One step *)

LEMMA InvokeMaps ==
    ASSUME DriverInv, NEW r \in Reqs, Invoke(r)
    PROVE  Service!Invoke(r)
<1>1. PICK op \in {"start", "stop", "list"}, c \in IDs :
         req' = [req EXCEPT ![r] = [op |-> op, id |-> c, pc |-> First(op), pid |-> None,
                                    result |-> "none", listed |-> {}]]
  BY DEF Invoke
<1> DEFINE x == [op |-> op, id |-> c, pc |-> First(op), pid |-> None,
                 result |-> "none", listed |-> {}]
<1>2. x # None
  <2>1. First(op) \in Pc
    BY DEF First, Pc
  <2> HIDE DEF First
  <2>2. x \in Request
    BY <2>1 DEF Request
  <2> QED
    BY <2>2, DriverNoneAssumption
<1>3. /\ x.op = op /\ x.id = c /\ x.result = "none" /\ x.listed = {}
      /\ req' = [req EXCEPT ![r] = x]
  BY <1>1
<1> HIDE DEF x
<1>4. Seen(x) = [op |-> op, id |-> c, result |-> "none", listed |-> {}]
  BY <1>2, <1>3 DEF Seen
<1>5. Pending' = [Pending EXCEPT ![r] = [op |-> op, id |-> c, result |-> "none", listed |-> {}]]
  BY <1>3, <1>4, PendingUpdate DEF DriverInv
<1>6. Pending[r] = None
  BY DEF Invoke, Pending, Seen
<1>7. UNCHANGED Serving
  BY DEF Invoke, Serving
<1> QED
  BY <1>5, <1>6, <1>7 DEF Service!Invoke, Service!Op

LEMMA ReturnMaps ==
    ASSUME DriverInv, NEW r \in Reqs, Return(r)
    PROVE  Service!Return(r)
<1>1. req[r] # None /\ req[r].result # "none" /\ req' = [req EXCEPT ![r] = None]
  BY DEF Return, At, DriverInv, PcInv
<1>2. Pending' = [Pending EXCEPT ![r] = None]
  BY <1>1, PendingUpdate DEF DriverInv, Seen
<1>3. Pending[r] # None /\ Pending[r].result # "none"
  BY <1>1, SeenRequest DEF DriverInv
<1>4. UNCHANGED Serving
  BY DEF Return, Serving
<1> QED
  BY <1>2, <1>3, <1>4 DEF Service!Return

LEMMA ListMaps ==
    ASSUME DriverInv, NEW r \in Reqs, ListBypass(r)
    PROVE  Service!List(r)
<1> DEFINE x == [req[r] EXCEPT !.pc = "done", !.result = "ok", !.listed = Serving]
<1>1. /\ req[r] # None /\ req[r] \in Request
      /\ req[r].op = "list" /\ req[r].result = "none"
  BY SeenRequest DEF ListBypass, At, DriverInv, PcInv
<1>2. x \in Request /\ x.op = req[r].op /\ x.id = req[r].id
      /\ x.result = "ok" /\ x.listed = Serving
  BY <1>1 DEF Request, Pc, Serving
<1>3. req' = [req EXCEPT ![r] = x]
  BY DEF ListBypass, Serving
<1> HIDE DEF x
<1>4. PICK y \in Entry : /\ y = Pending[r] /\ y.op = req[r].op /\ y.id = req[r].id
  BY <1>1, SeenRequest DEF DriverInv
<1>5. PICK z \in Entry : /\ z = Seen(x) /\ z.op = req[r].op /\ z.id = req[r].id
                         /\ z.result = "ok" /\ z.listed = Serving
  BY <1>2, <1>3, SeenRecord
<1>6. z = [y EXCEPT !.result = "ok", !.listed = Serving]
  BY <1>4, <1>5 DEF Entry
<1>7. Pending' = [Pending EXCEPT ![r] = Seen(x)]
  BY <1>2, <1>3, PendingUpdate DEF DriverInv
<1>8. Service!Open(r, "list")
  BY <1>1, SeenRequest DEF DriverInv, Service!Open
<1>9. UNCHANGED Serving
  BY DEF ListBypass, Serving
<1> QED
  BY <1>4, <1>5, <1>6, <1>7, <1>8, <1>9 DEF Service!List

LEMMA RecordMaps ==
    ASSUME DriverInv, NEW r \in Reqs, StartRecord(r)
    PROVE  Service!Start(r)
<1>1. /\ req[r] # None /\ req[r].id \in IDs /\ req[r].pid \in Pids
      /\ req[r].op = "start" /\ req[r].result = "none"
  BY SeenRequest DEF StartRecord, At, DriverInv, PcInv, PidInv, Starting, Fresh
<1>2. Service!Decide(r, "ok")
  BY <1>1, ResultSeen DEF Answers, StartRecord, DriverInv, Finish, Pc
<1>3. Service!Open(r, "start") /\ Pending[r].id = req[r].id
  BY <1>1, SeenRequest DEF DriverInv, Service!Open
<1>4. Serving' = Serving \cup {req[r].id}
  BY <1>1, DriverAssumption DEF StartRecord, DriverInv, TypeOK, Serving
<1> QED
  BY <1>2, <1>3, <1>4 DEF Service!Start

LEMMA DeleteMaps ==
    ASSUME DriverInv, NEW r \in Reqs, StopDelete(r)
    PROVE  Service!Stop(r)
<1>1. /\ req[r] # None /\ req[r].id \in IDs
      /\ req[r].op = "stop" /\ req[r].result = "none"
      /\ bypass[req[r].id] # None
  BY SeenRequest DEF StopDelete, At, DriverInv, PcInv, PidInv, Stopping
<1>2. Service!Decide(r, "ok")
  BY <1>1, ResultSeen DEF Answers, StopDelete, DriverInv, Pc
<1>3. Service!Open(r, "stop") /\ Pending[r].id = req[r].id
  BY <1>1, SeenRequest DEF DriverInv, Service!Open
<1>4. Serving' = Serving \ {req[r].id} /\ req[r].id \in Serving
  BY <1>1 DEF StopDelete, DriverInv, TypeOK, Serving
<1> QED
  BY <1>2, <1>3, <1>4 DEF Service!Stop

LEMMA LookupMaps ==
    ASSUME DriverInv, NEW r \in Reqs, StopLookup(r)
    PROVE  Service!StopUnknown(r) \/ UNCHANGED svars
<1>1. /\ req[r] # None /\ req[r].id \in IDs
      /\ req[r].op = "stop" /\ req[r].result = "none"
  BY SeenRequest DEF StopLookup, At, DriverInv, PcInv, Stopping
<1>2. UNCHANGED Serving
  BY DEF StopLookup, Serving
<1>3. CASE bypass[req[r].id] = None
  <2>1. Service!Decide(r, "not found")
    BY <1>1, <1>3, ResultSeen DEF Answers, StopLookup, DriverInv, Finish, Pc
  <2>2. Service!Open(r, "stop") /\ Pending[r].id = req[r].id
    BY <1>1, SeenRequest DEF DriverInv, Service!Open
  <2> QED
    BY <1>2, <1>3, <2>1, <2>2 DEF Service!StopUnknown, Serving
<1>4. CASE bypass[req[r].id] # None
  <2>1. bypass[req[r].id] \in Pids
    BY <1>1, <1>4 DEF DriverInv, TypeOK
  <2>2. UNCHANGED Pending
    BY <1>1, <1>4, <2>1, MoveUnseen DEF StopLookup, DriverInv, Pc
  <2> QED
    BY <1>2, <2>2 DEF svars
<1> QED
  BY <1>3, <1>4

LEMMA WorkMaps ==
    ASSUME DriverInv, NEW r \in Reqs, Work(r)
    PROVE  \/ Service!Fail(r) \/ Service!Stop(r) \/ Service!Return(r)
           \/ UNCHANGED svars
<1>1. ASSUME NEW pc \in Pc, req[r] # None, UNCHANGED bypass,
             NEW pid \in Pids \cup {None},
             Goto(r, pc) \/ req' = [req EXCEPT ![r].pc = pc, ![r].pid = pid]
      PROVE  UNCHANGED svars
  BY <1>1, MoveUnseen DEF DriverInv, svars, Serving
<1>2. CASE StartSpawn(r)
  <2>1. req[r] # None /\ req[r].pc = "spawn" /\ req[r].result = "none" /\ UNCHANGED bypass
    BY <1>2 DEF StartSpawn, At, DriverInv, PcInv
  <2>2. \/ \E p \in Pids : req' = [req EXCEPT ![r].pc = "waiting", ![r].pid = p]
        \/ Finish(r, "failed")
    BY <1>2 DEF StartSpawn
  <2> QED
    BY <1>1, <2>1, <2>2, FailSeen DEF Starting, Pc
<1>3. CASE StartReady(r) \/ StartTimeout(r)
  <2>1. /\ req[r] # None /\ req[r].pid \in Pids /\ UNCHANGED bypass
        /\ Goto(r, "record") \/ Goto(r, "poll")
    BY <1>3 DEF StartReady, StartTimeout, At, DriverInv, PidInv, Fresh
  <2> QED
    BY <1>1, <2>1 DEF Pc
<1>4. CASE StartPoll(r)
  <2>1. /\ req[r] # None /\ req[r].pc = "poll" /\ req[r].result = "none"
        /\ req[r].pid \in Pids /\ UNCHANGED bypass
        /\ Goto(r, "waiting") \/ Finish(r, "failed")
    BY <1>4 DEF StartPoll, At, DriverInv, PidInv, PcInv, Fresh
  <2> QED
    BY <1>1, <2>1, FailSeen DEF Pc, Starting
<1>5. CASE StopSignal(r)
  <2>1. /\ req[r] # None /\ req[r].pc = "signal" /\ req[r].result = "none"
        /\ req[r].pid \in Pids /\ UNCHANGED bypass
        /\ Goto(r, "wait") \/ Finish(r, "failed")
    BY <1>5 DEF StopSignal, At, DriverInv, PidInv, PcInv
  <2> QED
    BY <1>1, <2>1, FailSeen DEF Pc, Stopping
<1>6. CASE StopWait(r)
  <2>1. /\ req[r] # None /\ req[r].pc = "wait" /\ req[r].result = "none"
        /\ req[r].pid \in Pids /\ UNCHANGED bypass
        /\ Goto(r, "delete") \/ Finish(r, "failed")
    BY <1>6 DEF StopWait, At, DriverInv, PidInv, PcInv
  <2> QED
    BY <1>1, <2>1, FailSeen DEF Pc, Stopping
<1>7. CASE StopInterfaces(r)
  <2>1. req[r] # None /\ UNCHANGED bypass /\ Goto(r, "done")
    BY <1>7 DEF StopInterfaces, At
  <2> QED
    BY <1>1, <2>1 DEF Pc
<1>8. CASE StartFails(r)
  <2>1. /\ req[r] # None /\ req[r].pc \in {"waiting", "poll"} /\ req[r].result = "none"
        /\ UNCHANGED bypass /\ Finish(r, "failed")
    BY <1>8 DEF StartFails, At, DriverInv, PcInv
  <2> QED
    BY <2>1, FailSeen DEF Starting
<1> QED
  BY <1>2, <1>3, <1>4, <1>5, <1>6, <1>7, <1>8, DeleteMaps, ReturnMaps DEF Work

LEMMA StepMaps ==
    ASSUME DriverInv, [Next]_vars
    PROVE  [Service!Next]_svars
<1>1. UNCHANGED driver => UNCHANGED svars
  BY DEF driver, svars, Serving, Pending
<1>2. ASSUME NEW r \in Reqs, Invoke(r) \/ Work(r) \/ Locking(r)
      PROVE  Service!Next \/ UNCHANGED svars
  BY <1>2, InvokeMaps, WorkMaps, ListMaps, RecordMaps, LookupMaps DEF Locking, Service!Next
<1>3. ASSUME NEW p \in Pids,
             ChildStep(p) \/ ChildCatches(p) \/ ChildDies(p) \/ ChildPosts(p) \/ Stranger(p)
      PROVE  UNCHANGED driver
  BY <1>3 DEF ChildStep, ChildRemoves, ChildListens, ChildTells, ChildTerminates, ChildCatches,
     ChildDies, ChildPosts, Stranger
<1>4. ASSUME NEW c \in IDs, PostInterface(c) \/ DeleteInterface(c)
      PROVE  UNCHANGED driver
  BY <1>4 DEF PostInterface, DeleteInterface
<1> QED
  BY <1>1, <1>2, <1>3, <1>4 DEF Next, vars

\* The daemon's answers are those of a service that handles one request at a
\* time, whatever its clients ask and whenever, and whatever fails.
THEOREM DriverActsAtOnce == Safety => ActsAtOnce
<1>1. Init => Service!Init
  BY DEF Init, Service!Init, Serving, Pending, Seen
<1>2. DriverInv /\ [Next]_vars => [Service!Next]_(Service!vars)
  BY StepMaps DEF Service!vars, svars
<1> QED
  BY <1>1, <1>2, DriverInvariant, PTL DEF Safety, ActsAtOnce, Service!Safety
=============================================================================
