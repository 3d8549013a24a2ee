----------------------------- MODULE TurnsProofs -----------------------------
(***************************************************************************)
(* What holds of bypass4netnsd when its clients start and stop each        *)
(* container in turn, as nerdctl does, and a ready pipe can be read: no    *)
(* process is left without an entry or a request, and the listener at a    *)
(* container's socket path is that of the process recorded for it.         *)
(***************************************************************************)
EXTENDS DriverProofs

\* Requests to start or to stop are of different containers, and one that
\* starts a container finds no entry.
TurnInv ==
    /\ \A r, s \in Reqs :
          /\ r # s /\ req[r] # None /\ req[s] # None
          /\ req[r].op # "list" /\ req[s].op # "list"
          => req[r].id # req[s].id
    /\ \A r \in Reqs : req[r] # None /\ req[r].pc \in Starting => bypass[req[r].id] = None

\* The process is that of a start that has not recorded it.
Bearing(r, p) == req[r] # None /\ req[r].pc \in Fresh /\ req[r].pid = p

\* A process that runs is recorded or being started, and so is one that has
\* been given the id of a process that was waited for.
HeldInv ==
    /\ \A p \in Pids : Active(p) => bypass[procs[p].id] = p \/ \E r \in Reqs : Bearing(r, p)
    /\ \A r \in Reqs :
          req[r] # None /\ req[r].pc = "delete" /\ Active(req[r].pid)
          => \E s \in Reqs : Bearing(s, req[r].pid)

\* Who listens has the path, and who is recorded listens.
ListenInv ==
    /\ \A p \in Pids : Active(p) =>
          /\ procs[p].st \in {"listening", "ready"} => sockFile[procs[p].id] = p
          /\ procs[p].told => procs[p].st = "ready"
          /\ bypass[procs[p].id] = p => procs[p].told
    /\ \A r \in Reqs : req[r] # None /\ req[r].pc = "record" => procs[req[r].pid].told

OrderInv == DriverInv /\ TurnInv /\ HeldInv /\ ListenInv

-----------------------------------------------------------------------------
(* One process at a time *)

LEMMA ActiveFacts ==
    ASSUME DriverInv, NEW p \in Pids, Active(p)
    PROVE  /\ procs[p] \in Process /\ procs[p].id \in IDs /\ procs[p].st # "zombie"
           /\ procs[p] # None /\ p # None
BY DriverAssumption, DriverNoneAssumption DEF DriverInv, TypeOK, Active, Process

LEMMA BearingFacts ==
    ASSUME DriverInv, NEW r \in Reqs, NEW p, Bearing(r, p)
    PROVE  /\ p \in Pids /\ procs[p] # None /\ procs[p].id = req[r].id
           /\ req[r].id \in IDs /\ req[r].op = "start" /\ req[r].pc \in Starting
<1>1. req[r] # None /\ req[r].pc \in Fresh /\ req[r].pid = p
  BY DEF Bearing
<1>2. p \in Pids /\ Child(p, req[r].id) /\ req[r].id \in IDs
  BY <1>1, AtWork
<1>3. req[r].pc \in Starting
  BY <1>1 DEF Fresh, Starting
<1> QED
  BY <1>1, <1>2, <1>3 DEF Child, DriverInv, PcInv

LEMMA DeletesPid ==
    ASSUME DriverInv, NEW r \in Reqs, req[r] # None, req[r].pc = "delete"
    PROVE  req[r].pid \in Pids
<1>1. req[r] \in Request
  BY AtWork
<1>2. req[r].pid \in Pids \cup {None}
  BY <1>1 DEF Request
<1>3. req[r].pid # None
  BY DEF DriverInv, PidInv
<1> QED
  BY <1>2, <1>3

\* A container has one process at a time.
LEMMA OneProcess ==
    ASSUME OrderInv, NEW p \in Pids, NEW q \in Pids, Active(p), Active(q),
           procs[p].id = procs[q].id
    PROVE  p = q
<1> DEFINE c == procs[p].id
<1>1. c \in IDs /\ p # None /\ q # None
  BY ActiveFacts DEF OrderInv
<1>2. ASSUME NEW r \in Reqs, Bearing(r, p) \/ Bearing(r, q)
      PROVE  bypass[c] = None /\ req[r] # None /\ req[r].op = "start" /\ req[r].id = c
  <2>1. /\ req[r].id = c /\ req[r].op = "start" /\ req[r].pc \in Starting /\ req[r] # None
    BY <1>2, BearingFacts DEF OrderInv, Bearing
  <2> QED
    BY <2>1 DEF OrderInv, TurnInv
<1>3. CASE bypass[c] # None
  BY <1>2, <1>3 DEF OrderInv, HeldInv
<1>4. CASE bypass[c] = None
  <2>1. PICK r \in Reqs : Bearing(r, p)
    BY <1>1, <1>4 DEF OrderInv, HeldInv
  <2>2. PICK s \in Reqs : Bearing(s, q)
    BY <1>1, <1>4 DEF OrderInv, HeldInv
  <2>3. r = s
    BY <1>2, <2>1, <2>2 DEF OrderInv, TurnInv
  <2> QED
    BY <2>1, <2>2, <2>3 DEF Bearing
<1> QED
  BY <1>3, <1>4

\* A stop that is about to take an entry off finds no process of its container.
LEMMA OutlivedGone ==
    ASSUME OrderInv, NEW r \in Reqs, req[r] # None, req[r].pc = "delete", Active(req[r].pid)
    PROVE  procs[req[r].pid].id # req[r].id
<1>1. PICK s \in Reqs : Bearing(s, req[r].pid)
  BY DEF OrderInv, HeldInv
<1>2. /\ procs[req[r].pid].id = req[s].id /\ req[s].op = "start" /\ req[s] # None
      /\ req[r].op = "stop"
  BY <1>1, BearingFacts DEF OrderInv, DriverInv, PcInv, Stopping, Bearing
<1> QED
  BY <1>2 DEF OrderInv, TurnInv

-----------------------------------------------------------------------------
(* Steps of processes and of the table of interfaces *)

LEMMA OutsideOrder ==
    ASSUME OrderInv, UNCHANGED driver,
           \A q \in Pids : Active(q)' => Active(q) /\ procs'[q].id = procs[q].id
    PROVE  TurnInv' /\ HeldInv'
<1>1. TurnInv'
  BY DEF OrderInv, TurnInv, driver
<1>2. \A r \in Reqs, q \in Pids : Bearing(r, q)' <=> Bearing(r, q)
  BY DEF Bearing, driver
<1>3. \A q \in Pids : Active(q)' => bypass'[procs'[q].id] = q \/ \E r \in Reqs : Bearing(r, q)'
  BY <1>2 DEF OrderInv, HeldInv, driver
<1>4. ASSUME NEW r \in Reqs, req'[r] # None, req'[r].pc = "delete", Active(req[r].pid)'
      PROVE  \E s \in Reqs : Bearing(s, req[r].pid)'
  <2>1. req[r] # None /\ req[r].pc = "delete"
    BY <1>4 DEF driver
  <2>2. PICK q \in Pids : q = req[r].pid
    BY <2>1, DeletesPid DEF OrderInv
  <2>3. Active(q)'
    BY <1>4, <2>2 DEF Active, driver
  <2>4. PICK s \in Reqs : Bearing(s, q)
    BY <2>1, <2>2, <2>3 DEF OrderInv, HeldInv
  <2> QED
    BY <2>2, <2>4 DEF Bearing, driver
<1> QED
  BY <1>1, <1>3, <1>4 DEF HeldInv, driver

\* A step of the process p, to x, that may change the path of its container.
LEMMA ProcessOrder ==
    ASSUME OrderInv, NEW p \in Pids, Active(p), UNCHANGED driver,
           NEW x \in Process, x.id = procs[p].id, procs' = [procs EXCEPT ![p] = x],
           procs[p].told => x.told,
           x.st # "zombie" => /\ x.st \in {"listening", "ready"} => sockFile'[x.id] = p
                              /\ x.told => x.st = "ready",
           \A c \in IDs : c # procs[p].id => sockFile'[c] = sockFile[c]
    PROVE  TurnInv' /\ HeldInv' /\ ListenInv'
<1>1. /\ procs[p] \in Process /\ procs[p].id \in IDs /\ procs[p] # None
      /\ procs[p].st # "zombie"
  BY ActiveFacts DEF OrderInv
<1>2. /\ procs'[p] = x /\ x # None
      /\ \A q \in Pids : q # p => procs'[q] = procs[q]
  BY DriverNoneAssumption DEF OrderInv, DriverInv, TypeOK
<1>3. \A q \in Pids : Active(q)' => Active(q) /\ procs'[q].id = procs[q].id
  BY <1>2 DEF Active
<1>4. ASSUME NEW q \in Pids, Active(q)'
      PROVE  /\ procs'[q].st \in {"listening", "ready"} => sockFile'[procs'[q].id] = q
             /\ procs'[q].told => procs'[q].st = "ready"
             /\ bypass'[procs'[q].id] = q => procs'[q].told
  <2>1. CASE q = p
    <3>1. x.st # "zombie"
      BY <1>2, <1>4, <2>1 DEF Active
    <3>2. bypass[procs[p].id] = p => procs[p].told
      BY DEF OrderInv, ListenInv
    <3>3. bypass' = bypass
      BY DEF driver
    <3>4. x.told \in BOOLEAN /\ procs[p].told \in BOOLEAN
      BY <1>1 DEF Process
    <3>5. bypass'[x.id] = p => x.told
      BY <3>2, <3>3, <3>4
    <3>6. /\ x.st \in {"listening", "ready"} => sockFile'[x.id] = p
          /\ x.told => x.st = "ready"
      BY <3>1
    <3> QED
      BY <1>2, <2>1, <3>4, <3>5, <3>6
  <2>2. CASE q # p
    <3>1. Active(q) /\ procs'[q] = procs[q] /\ procs[q].id \in IDs
      BY <1>2, <1>3, <1>4, <2>2, ActiveFacts DEF OrderInv
    <3>2. procs[q].id # procs[p].id
      BY <2>2, <3>1, OneProcess
    <3> QED
      BY <3>1, <3>2 DEF OrderInv, ListenInv, driver
  <2> QED
    BY <2>1, <2>2
<1>5. ASSUME NEW r \in Reqs, req'[r] # None, req'[r].pc = "record"
      PROVE  procs'[req'[r].pid].told
  <2>1. req' = req
    BY DEF driver
  <2>2. /\ req[r].pid \in Pids /\ procs[req[r].pid].told
    BY <1>5, <2>1, AtWork DEF OrderInv, ListenInv, Fresh
  <2> QED
    BY <1>2, <2>1, <2>2
<1> QED
  BY <1>3, <1>4, <1>5, OutsideOrder DEF ListenInv

LEMMA ChildOrder ==
    ASSUME OrderInv, NEW p \in Pids,
           ChildStep(p) \/ ChildCatches(p) \/ ChildDies(p)
    PROVE  TurnInv' /\ HeldInv' /\ ListenInv'
<1>1. Active(p) /\ UNCHANGED driver
  BY DEF ChildStep, ChildRemoves, ChildListens, ChildTells, ChildTerminates, ChildCatches, ChildDies
<1>2. procs[p] \in Process /\ procs[p].id \in IDs /\ procs[p].st # "zombie"
  BY <1>1, ActiveFacts DEF OrderInv
<1>3. sockFile \in [IDs -> Pids \cup {None}]
  BY DEF OrderInv, DriverInv, TypeOK
<1>4. /\ procs[p].st \in {"listening", "ready"} => sockFile[procs[p].id] = p
      /\ procs[p].told => procs[p].st = "ready"
  BY <1>1 DEF OrderInv, ListenInv
<1>5. CASE ChildRemoves(p)
  <2> DEFINE x == [procs[p] EXCEPT !.st = "removed"]
  <2>1. x \in Process /\ x.id = procs[p].id /\ x.st = "removed" /\ x.told = procs[p].told
    BY <1>2 DEF Process
  <2>2. procs' = [procs EXCEPT ![p] = x] /\ procs[p].st = "boot"
    BY <1>5 DEF ChildRemoves
  <2>3. \A c \in IDs : c # procs[p].id => sockFile'[c] = sockFile[c]
    BY <1>3, <1>5 DEF ChildRemoves
  <2> HIDE DEF x
  <2> QED
    BY <1>1, <1>4, <2>1, <2>2, <2>3, ProcessOrder
<1>6. CASE ChildListens(p)
  <2>1. PICK st \in {"listening", "zombie"} :
           /\ procs' = [procs EXCEPT ![p] = [procs[p] EXCEPT !.st = st]]
           /\ st = "listening" => sockFile' = [sockFile EXCEPT ![procs[p].id] = p]
           /\ st = "zombie" => sockFile' = sockFile
    BY <1>6 DEF ChildListens
  <2> DEFINE x == [procs[p] EXCEPT !.st = st]
  <2>2. x \in Process /\ x.id = procs[p].id /\ x.st = st /\ x.told = procs[p].told
    BY <1>2 DEF Process
  <2>3. procs' = [procs EXCEPT ![p] = x] /\ procs[p].st = "removed"
    BY <1>6, <2>1 DEF ChildListens
  <2>4. /\ \A c \in IDs : c # procs[p].id => sockFile'[c] = sockFile[c]
        /\ st = "listening" => sockFile'[procs[p].id] = p
    BY <1>2, <1>3, <2>1
  <2>5. st = "listening" \/ st = "zombie"
    OBVIOUS
  <2> HIDE DEF x
  <2> QED
    BY <1>1, <1>4, <2>2, <2>3, <2>4, <2>5, ProcessOrder
<1>7. CASE ChildTells(p)
  <2> DEFINE x == [procs[p] EXCEPT !.st = "ready", !.told = TRUE]
  <2>1. x \in Process /\ x.id = procs[p].id /\ x.st = "ready" /\ x.told = TRUE
    BY <1>2 DEF Process
  <2>2. procs' = [procs EXCEPT ![p] = x] /\ procs[p].st = "listening" /\ sockFile' = sockFile
    BY <1>7 DEF ChildTells
  <2> HIDE DEF x
  <2> QED
    BY <1>1, <1>4, <2>1, <2>2, ProcessOrder
<1>8. CASE ChildTerminates(p) \/ ChildDies(p)
  <2> DEFINE x == [procs[p] EXCEPT !.st = "zombie"]
  <2>1. x \in Process /\ x.id = procs[p].id /\ x.st = "zombie" /\ x.told = procs[p].told
    BY <1>2 DEF Process
  <2>2. procs' = [procs EXCEPT ![p] = x]
    BY <1>8 DEF ChildTerminates, ChildDies
  <2>3. \A c \in IDs : c # procs[p].id => sockFile'[c] = sockFile[c]
    BY <1>3, <1>8 DEF ChildTerminates, ChildDies
  <2> HIDE DEF x
  <2> QED
    BY <1>1, <2>1, <2>2, <2>3, ProcessOrder
<1>9. CASE ChildCatches(p)
  <2> DEFINE x == [procs[p] EXCEPT !.catches = TRUE]
  <2>1. x \in Process /\ x.id = procs[p].id /\ x.st = procs[p].st /\ x.told = procs[p].told
    BY <1>2 DEF Process
  <2>2. procs' = [procs EXCEPT ![p] = x] /\ sockFile' = sockFile
    BY <1>9 DEF ChildCatches
  <2> HIDE DEF x
  <2> QED
    BY <1>1, <1>4, <2>1, <2>2, ProcessOrder
<1> QED
  BY <1>5, <1>6, <1>7, <1>8, <1>9 DEF ChildStep

\* Nothing happens to the children.
LEMMA ForeignOrder ==
    ASSUME OrderInv, UNCHANGED <<driver, sockFile>>,
           procs' \in [Pids -> Process \cup {None}],
           \A q \in Pids : \/ procs'[q] = procs[q]
                          \/ /\ procs[q] = None \/ procs[q].id = None
                             /\ procs'[q] = None \/ procs'[q].id = None
    PROVE  TurnInv' /\ HeldInv' /\ ListenInv'
<1>1. \A q \in Pids : Active(q)' => Active(q) /\ procs'[q] = procs[q]
  BY DEF Active
<1>2. ASSUME NEW r \in Reqs, req'[r] # None, req'[r].pc = "record"
      PROVE  procs'[req'[r].pid].told
  <2>1. req' = req
    BY DEF driver
  <2>2. /\ req[r].pid \in Pids /\ Child(req[r].pid, req[r].id) /\ req[r].id \in IDs
        /\ procs[req[r].pid].told
    BY <1>2, <2>1, AtWork DEF OrderInv, ListenInv, Fresh
  <2> QED
    BY <2>1, <2>2, DriverAssumption DEF Child
<1>3. ListenInv'
  BY <1>1, <1>2 DEF OrderInv, ListenInv, driver
<1> QED
  BY <1>1, <1>3, OutsideOrder

LEMMA OutsideSteps ==
    ASSUME OrderInv,
           \/ UNCHANGED vars
           \/ \E p \in Pids : ChildPosts(p) \/ Stranger(p)
           \/ \E c \in IDs : PostInterface(c) \/ DeleteInterface(c)
    PROVE  TurnInv' /\ HeldInv' /\ ListenInv'
<1> USE DEF OrderInv, DriverInv, TypeOK
<1>1. UNCHANGED <<driver, sockFile>>
  BY DEF vars, ChildPosts, Stranger, PostInterface, DeleteInterface
<1>2. CASE procs' = procs
  BY <1>1, <1>2, ForeignOrder
<1>3. ASSUME NEW p \in Pids, Stranger(p)
      PROVE  TurnInv' /\ HeldInv' /\ ListenInv'
  <2> DEFINE x == [NewProcess(None) EXCEPT !.st = "ready"]
  <2>1. x \in Process /\ x.id = None
    BY DEF NewProcess, Process
  <2>2. /\ procs[p] = None \/ procs[p].id = None
        /\ procs' = [procs EXCEPT ![p] = x] \/ procs' = [procs EXCEPT ![p] = None]
    BY <1>3 DEF Stranger
  <2> HIDE DEF x
  <2>3. procs' \in [Pids -> Process \cup {None}]
    BY <2>1, <2>2
  <2>4. \A q \in Pids : \/ procs'[q] = procs[q]
                       \/ /\ procs[q] = None \/ procs[q].id = None
                          /\ procs'[q] = None \/ procs'[q].id = None
    BY <2>1, <2>2
  <2> QED
    BY <1>1, <2>3, <2>4, ForeignOrder
<1> QED
  BY <1>2, <1>3 DEF vars, ChildPosts, PostInterface, DeleteInterface

-----------------------------------------------------------------------------
(* Steps of requests *)

\* A step of r that records no process and takes none off.
LEMMA MoveOrder ==
    ASSUME OrderInv, NEW r \in Reqs, NEW pc \in Pc, NEW pid, NEW result, Moves(r, pc, pid, result),
           UNCHANGED <<bypass, sockFile>>,
           \A q \in Pids : Active(q)' =>
              /\ Active(q) /\ procs'[q].id = procs[q].id
              /\ procs'[q].st = procs[q].st /\ procs'[q].told = procs[q].told,
           \A s \in Reqs : s # r /\ req[s] # None /\ req[s].pc = "record" =>
              procs'[req[s].pid].told = procs[req[s].pid].told,
           pc \in Starting => req[r].pc \in Starting,
           pc \in Fresh => req[r].pc \in Fresh /\ pid = req[r].pid,
           req[r].pc \in Fresh /\ pc \notin Fresh =>
              \A q \in Pids : q = req[r].pid => ~Active(q)',
           pc = "record" => procs'[pid].told,
           pc = "delete" => pid \in Pids /\ ~Active(pid)'
    PROVE  TurnInv' /\ HeldInv' /\ ListenInv'
<1>1. TurnInv'
  BY DEF OrderInv, TurnInv, Moves
<1>2. ASSUME NEW q \in Pids, Active(q)', NEW s \in Reqs, Bearing(s, q)
      PROVE  Bearing(s, q)'
  BY <1>2 DEF Bearing, Moves
<1>3. \A q \in Pids : Active(q)' => bypass'[procs'[q].id] = q \/ \E s \in Reqs : Bearing(s, q)'
  <2> SUFFICES ASSUME NEW q \in Pids, Active(q)'
               PROVE  bypass'[procs'[q].id] = q \/ \E s \in Reqs : Bearing(s, q)'
    OBVIOUS
  <2>1. Active(q) /\ procs'[q].id = procs[q].id /\ bypass' = bypass
    OBVIOUS
  <2>2. bypass[procs[q].id] = q \/ \E s \in Reqs : Bearing(s, q)
    BY <2>1 DEF OrderInv, HeldInv
  <2> QED
    BY <1>2, <2>1, <2>2
<1>4. ASSUME NEW s \in Reqs, req'[s] # None, req'[s].pc = "delete", NEW q, q = req'[s].pid, Active(q)'
      PROVE  \E t \in Reqs : Bearing(t, q)'
  <2>1. s # r /\ req[s] # None /\ req[s].pc = "delete" /\ q = req[s].pid
    BY <1>4 DEF Moves
  <2>2. q \in Pids
    BY <2>1, DeletesPid DEF OrderInv
  <2>3. Active(q)
    BY <1>4, <2>2
  <2>4. PICK t \in Reqs : Bearing(t, q)
    BY <2>1, <2>3 DEF OrderInv, HeldInv
  <2> QED
    BY <1>2, <1>4, <2>2, <2>4
<1>5. \A q \in Pids : Active(q)' =>
          /\ procs'[q].st \in {"listening", "ready"} => sockFile'[procs'[q].id] = q
          /\ procs'[q].told => procs'[q].st = "ready"
          /\ bypass'[procs'[q].id] = q => procs'[q].told
  BY DEF OrderInv, ListenInv
<1>6. \A s \in Reqs : req'[s] # None /\ req'[s].pc = "record" => procs'[req'[s].pid].told
  BY DEF OrderInv, ListenInv, Moves
<1>7. HeldInv'
  BY <1>3, <1>4 DEF HeldInv, Active
<1> QED
  BY <1>1, <1>5, <1>6, <1>7 DEF ListenInv

\* A step of r that changes nothing else.
LEMMA StillOrder ==
    ASSUME OrderInv, NEW r \in Reqs, NEW pc \in Pc, NEW pid, NEW result, Moves(r, pc, pid, result),
           UNCHANGED <<bypass, procs, sockFile>>,
           pc \in Starting => req[r].pc \in Starting,
           pc \in Fresh <=> req[r].pc \in Fresh,
           pc \in Fresh => pid = req[r].pid,
           pc = "record" => procs[pid].told,
           pc # "delete"
    PROVE  TurnInv' /\ HeldInv' /\ ListenInv'
<1>1. \A q \in Pids : Active(q)' =>
         /\ Active(q) /\ procs'[q].id = procs[q].id
         /\ procs'[q].st = procs[q].st /\ procs'[q].told = procs[q].told
  BY DEF Active
<1>2. \A s \in Reqs : s # r /\ req[s] # None /\ req[s].pc = "record" =>
         procs'[req[s].pid].told = procs[req[s].pid].told
  OBVIOUS
<1> QED
  BY <1>1, <1>2, MoveOrder

LEMMA StillSteps ==
    ASSUME OrderInv, NEW r \in Reqs,
           StartReady(r) \/ StartTimeout(r) \/ ListBypass(r) \/ StopLookup(r) \/ StopInterfaces(r)
    PROVE  TurnInv' /\ HeldInv' /\ ListenInv'
<1> USE DEF OrderInv, DriverInv
<1>1. CASE StartReady(r) \/ StartTimeout(r)
  <2>1. PICK pc \in {"record", "poll"} : Goto(r, pc) /\ (pc = "record" => procs[req[r].pid].told)
    BY <1>1 DEF StartReady, StartTimeout
  <2>2. UNCHANGED <<bypass, procs, sockFile>> /\ req[r] # None /\ req[r].pc = "waiting"
    BY <1>1 DEF StartReady, StartTimeout, At
  <2>3. Moves(r, pc, req[r].pid, req[r].result) /\ pc \in Pc
    BY <2>1, <2>2, GotoMoves DEF Pc
  <2> QED
    BY <2>1, <2>2, <2>3, StillOrder DEF Starting, Fresh
<1>2. CASE ListBypass(r)
  <2> DEFINE x == [req[r] EXCEPT !.pc = "done", !.result = "ok",
                                 !.listed = {c \in IDs : bypass[c] # None}]
  <2>1. req[r] \in Request /\ req[r] # None /\ req[r].pc = "list"
    BY <1>2 DEF ListBypass, At, TypeOK
  <2>2. x \in Request /\ x.pc = "done" /\ x.result = "ok" /\ x.pid = req[r].pid
        /\ x.op = req[r].op /\ x.id = req[r].id
    BY <2>1 DEF Request, Pc
  <2>3. req' = [req EXCEPT ![r] = x]
    BY <1>2 DEF ListBypass
  <2> HIDE DEF x
  <2>4. /\ req' \in [Reqs -> Request \cup {None}] /\ req'[r] = x
        /\ \A s \in Reqs : s # r => req'[s] = req[s]
    BY <2>2, <2>3 DEF TypeOK
  <2>5. Moves(r, "done", req[r].pid, "ok") /\ "done" \in Pc
    BY <2>1, <2>2, <2>4, DriverNoneAssumption DEF Moves, Pc
  <2> QED
    BY <1>2, <2>1, <2>5, StillOrder DEF Starting, Fresh, ListBypass
<1>3. CASE StopLookup(r)
  <2>1. /\ UNCHANGED <<bypass, procs, sockFile>> /\ req[r] # None /\ req[r].pc = "lookup"
        /\ req[r].id \in IDs
    BY <1>3 DEF StopLookup, At, TypeOK, Request
  <2>2. CASE Finish(r, "not found")
    <3>1. Moves(r, "done", req[r].pid, "not found") /\ "done" \in Pc
      BY <2>1, <2>2, FinishMoves DEF Finish, Pc
    <3> QED
      BY <2>1, <3>1, StillOrder DEF Starting, Fresh
  <2>3. CASE /\ bypass[req[r].id] # None
             /\ req' = [req EXCEPT ![r].pc = "signal", ![r].pid = bypass[req[r].id]]
    <3>1. bypass[req[r].id] \in Pids /\ "signal" \in Pc
      BY <2>1, <2>3 DEF TypeOK, Pc
    <3>2. Moves(r, "signal", bypass[req[r].id], req[r].result)
      BY <2>1, <2>3, <3>1, SpawnMoves
    <3> QED
      BY <2>1, <3>1, <3>2, StillOrder DEF Starting, Fresh
  <2> QED
    BY <1>3, <2>2, <2>3 DEF StopLookup
<1>4. CASE StopInterfaces(r)
  <2>1. /\ UNCHANGED <<bypass, procs, sockFile>> /\ req[r] # None /\ req[r].pc = "interfaces"
    BY <1>4 DEF StopInterfaces, At
  <2>2. Moves(r, "done", req[r].pid, req[r].result) /\ "done" \in Pc
    BY <1>4, <2>1, GotoMoves DEF StopInterfaces, Pc
  <2> QED
    BY <2>1, <2>2, StillOrder DEF Starting, Fresh
<1> QED
  BY <1>1, <1>2, <1>3, <1>4

\* No request comes to bear a process or to take off an entry.
LEMMA CameBack ==
    ASSUME OrderInv, UNCHANGED <<bypass, procs>>,
           \A s \in Reqs, q \in Pids : Bearing(s, q)' <=> Bearing(s, q),
           \A s \in Reqs : req'[s] # None /\ req'[s].pc = "delete" =>
              req[s] # None /\ req'[s] = req[s]
    PROVE  HeldInv'
<1>1. \A q \in Pids : Active(q)' <=> Active(q)
  BY DEF Active
<1>2. \A q \in Pids : Active(q)' => bypass'[procs'[q].id] = q \/ \E s \in Reqs : Bearing(s, q)'
  BY <1>1 DEF OrderInv, HeldInv
<1>3. ASSUME NEW s \in Reqs, req'[s] # None, req'[s].pc = "delete", NEW q, q = req'[s].pid, Active(q)'
      PROVE  \E t \in Reqs : Bearing(t, q)'
  <2>1. req[s] # None /\ req[s].pc = "delete" /\ q = req[s].pid
    BY <1>3
  <2>2. q \in Pids
    BY <2>1, DeletesPid DEF OrderInv
  <2>3. PICK t \in Reqs : Bearing(t, q)
    BY <1>1, <1>3, <2>1, <2>2 DEF OrderInv, HeldInv
  <2> QED
    BY <2>2, <2>3
<1> QED
  BY <1>2, <1>3 DEF HeldInv, Active

LEMMA InvokeOrder ==
    ASSUME OrderInv, Serial, NEW r \in Reqs, Invoke(r)
    PROVE  TurnInv' /\ HeldInv' /\ ListenInv'
<1> USE DEF OrderInv, DriverInv
<1>1. PICK op \in {"start", "stop", "list"}, c \in IDs :
         /\ op # "list" => Orderly(op, c)
         /\ req' = [req EXCEPT ![r] = [op |-> op, id |-> c, pc |-> First(op), pid |-> None,
                                       result |-> "none", listed |-> {}]]
  BY DEF Invoke
<1> DEFINE x == [op |-> op, id |-> c, pc |-> First(op), pid |-> None,
                 result |-> "none", listed |-> {}]
<1>2. /\ x.op = op /\ x.id = c /\ x.pc \notin Fresh \cup {"delete"}
      /\ x.pc \in Starting => op = "start"
  BY DEF First, Fresh, Starting
<1>3. req' = [req EXCEPT ![r] = x]
  BY <1>1
<1> HIDE DEF x
<1>4. /\ req'[r] = x /\ \A s \in Reqs : s # r => req'[s] = req[s]
      /\ req[r] = None
      /\ UNCHANGED <<bypass, procs, sockFile>>
  BY <1>3 DEF TypeOK, Invoke
<1>5. TurnInv'
  BY <1>1, <1>2, <1>4 DEF TurnInv, Orderly
<1>6. \A s \in Reqs, q \in Pids : Bearing(s, q)' <=> Bearing(s, q)
  BY <1>2, <1>4 DEF Bearing
<1>7. \A q \in Pids : Active(q)' <=> Active(q)
  BY <1>4 DEF Active
<1>8. \A s \in Reqs : req'[s] # None /\ req'[s].pc \in {"delete", "record"} =>
         s # r /\ req[s] # None /\ req'[s] = req[s]
  BY <1>2, <1>4 DEF Fresh
<1>9. HeldInv'
  BY <1>4, <1>6, <1>7, <1>8, CameBack DEF HeldInv
<1>10. ListenInv'
  BY <1>4, <1>7, <1>8 DEF ListenInv
<1> QED
  BY <1>5, <1>9, <1>10

LEMMA ReturnOrder ==
    ASSUME OrderInv, NEW r \in Reqs, Return(r)
    PROVE  TurnInv' /\ HeldInv' /\ ListenInv'
<1> USE DEF OrderInv, DriverInv
<1>1. /\ req'[r] = None /\ \A s \in Reqs : s # r => req'[s] = req[s]
      /\ req[r] # None /\ req[r].pc = "done"
      /\ UNCHANGED <<bypass, procs, sockFile>>
  BY DEF TypeOK, Return, At
<1>2. TurnInv'
  BY <1>1 DEF TurnInv
<1>3. \A s \in Reqs, q \in Pids : Bearing(s, q)' <=> Bearing(s, q)
  BY <1>1 DEF Bearing, Fresh
<1>4. \A q \in Pids : Active(q)' <=> Active(q)
  BY <1>1 DEF Active
<1>5. \A s \in Reqs : req'[s] # None => req[s] # None /\ req'[s] = req[s]
  BY <1>1
<1>6. HeldInv'
  BY <1>1, <1>3, <1>4, <1>5, CameBack DEF HeldInv
<1>7. ListenInv'
  BY <1>1, <1>4, <1>5 DEF ListenInv
<1> QED
  BY <1>2, <1>6, <1>7

LEMMA SpawnOrder ==
    ASSUME OrderInv, NEW r \in Reqs, StartSpawn(r)
    PROVE  TurnInv' /\ HeldInv' /\ ListenInv'
<1> USE DEF OrderInv, DriverInv
<1>1. /\ UNCHANGED <<bypass, sockFile>> /\ req[r] # None /\ req[r].pc = "spawn"
      /\ req[r].id \in IDs /\ bypass[req[r].id] = None
  BY DEF StartSpawn, At, TypeOK, Request, TurnInv, Starting
<1>2. CASE Finish(r, "failed") /\ UNCHANGED procs
  <2>1. Moves(r, "done", req[r].pid, "failed") /\ "done" \in Pc
    BY <1>1, <1>2, FinishMoves DEF Finish, Pc
  <2> QED
    BY <1>1, <1>2, <2>1, StillOrder DEF Starting, Fresh
<1>3. ASSUME NEW p \in Pids, procs[p] = None,
             procs' = [procs EXCEPT ![p] = NewProcess(req[r].id)],
             req' = [req EXCEPT ![r].pc = "waiting", ![r].pid = p]
      PROVE  TurnInv' /\ HeldInv' /\ ListenInv'
  <2> DEFINE x == NewProcess(req[r].id)
  <2>1. Moves(r, "waiting", p, req[r].result)
    BY <1>1, <1>3, SpawnMoves DEF Pc
  <2>2. /\ x \in Process /\ x.id = req[r].id /\ x.st = "boot" /\ x.told = FALSE
    BY <1>1 DEF NewProcess, Process
  <2> HIDE DEF x
  <2>3. /\ procs'[p] = x /\ \A q \in Pids : q # p => procs'[q] = procs[q]
        /\ ~Active(p) /\ p # None
    BY <1>3, DriverAssumption DEF TypeOK, Active, x
  <2>4. TurnInv'
    BY <1>1, <2>1 DEF TurnInv, Moves, Starting
  <2>5. Bearing(r, p)'
    BY <2>1 DEF Bearing, Moves, Fresh
  <2>6. \A s \in Reqs, q \in Pids : Bearing(s, q) => Bearing(s, q)'
    BY <1>1, <2>1 DEF Bearing, Moves, Fresh
  <2>7. \A q \in Pids : q # p /\ Active(q)' => Active(q)
    BY <2>3 DEF Active
  <2>8. \A q \in Pids : Active(q)' => bypass'[procs'[q].id] = q \/ \E s \in Reqs : Bearing(s, q)'
    BY <1>1, <2>3, <2>5, <2>6, <2>7 DEF HeldInv
  <2>9. ASSUME NEW s \in Reqs, req'[s] # None, req'[s].pc = "delete", NEW q, q = req'[s].pid, Active(q)'
        PROVE  \E t \in Reqs : Bearing(t, q)'
    <3>1. req[s] # None /\ req[s].pc = "delete" /\ q = req[s].pid
      BY <2>1, <2>9 DEF Moves
    <3>2. q \in Pids
      BY <3>1, DeletesPid
    <3>3. CASE q # p
      BY <2>6, <2>7, <2>9, <3>1, <3>2, <3>3 DEF HeldInv
    <3> QED
      BY <2>5, <3>3
  <2>10. HeldInv'
    BY <2>8, <2>9 DEF HeldInv, Active
  <2>11. ASSUME NEW q \in Pids, Active(q)'
         PROVE  /\ procs'[q].st \in {"listening", "ready"} => sockFile'[procs'[q].id] = q
                /\ procs'[q].told => procs'[q].st = "ready"
                /\ bypass'[procs'[q].id] = q => procs'[q].told
    <3>1. CASE q = p
      BY <1>1, <2>2, <2>3, <3>1
    <3>2. CASE q # p
      BY <1>1, <2>3, <2>7, <2>11, <3>2 DEF ListenInv
    <3> QED
      BY <3>1, <3>2
  <2>12. ASSUME NEW s \in Reqs, req'[s] # None, req'[s].pc = "record"
         PROVE  procs'[req'[s].pid].told
    <3>1. req'[s] = req[s] /\ req[s] # None /\ req[s].pc = "record"
      BY <2>1, <2>12 DEF Moves
    <3>2. req[s].pid \in Pids /\ Child(req[s].pid, req[s].id) /\ procs[req[s].pid].told
      BY <3>1, AtWork DEF ListenInv, Fresh
    <3> QED
      BY <1>3, <2>3, <3>1, <3>2 DEF Child
  <2> QED
    BY <2>4, <2>10, <2>11, <2>12 DEF ListenInv
<1> QED
  BY <1>2, <1>3 DEF StartSpawn

LEMMA PollOrder ==
    ASSUME OrderInv, NEW r \in Reqs, StartPoll(r)
    PROVE  TurnInv' /\ HeldInv' /\ ListenInv'
<1> USE DEF OrderInv, DriverInv
<1>1. /\ UNCHANGED <<bypass, sockFile>> /\ req[r] # None /\ req[r].pc = "poll"
      /\ req[r].pid \in Pids
  BY DEF StartPoll, At, PidInv, Fresh
<1>2. CASE Goto(r, "waiting") /\ UNCHANGED procs
  <2>1. Moves(r, "waiting", req[r].pid, req[r].result) /\ "waiting" \in Pc
    BY <1>1, <1>2, GotoMoves DEF Pc
  <2> QED
    BY <1>1, <1>2, <2>1, StillOrder DEF Starting, Fresh
<1>3. CASE procs' = [procs EXCEPT ![req[r].pid] = None] /\ Finish(r, "failed")
  <2>1. PICK p \in Pids : p = req[r].pid
    BY <1>1
  <2>2. Moves(r, "done", p, "failed") /\ "done" \in Pc
    BY <1>1, <1>3, <2>1, FinishMoves DEF Finish, Pc
  <2>3. procs'[p] = None /\ \A q \in Pids : q # p => procs'[q] = procs[q]
    BY <1>3, <2>1 DEF TypeOK
  <2>4. ~Active(p)' /\ \A q \in Pids : Active(q)' => Active(q) /\ procs'[q] = procs[q]
    BY <2>3 DEF Active
  <2>5. ASSUME NEW s \in Reqs, s # r, req[s] # None, req[s].pc = "record"
        PROVE  procs'[req[s].pid].told = procs[req[s].pid].told
    <3>1. req[s].pid \in Pids /\ req[s].pid # p
      BY <1>1, <2>1, <2>5 DEF PidInv, Fresh
    <3> QED
      BY <2>3, <3>1
  <2> QED
    BY <1>1, <2>1, <2>2, <2>4, <2>5, MoveOrder DEF Starting, Fresh
<1> QED
  BY <1>2, <1>3 DEF StartPoll

LEMMA RecordOrder ==
    ASSUME OrderInv, NEW r \in Reqs, StartRecord(r)
    PROVE  TurnInv' /\ HeldInv' /\ ListenInv'
<1> USE DEF OrderInv, DriverInv
<1>1. /\ UNCHANGED <<procs, sockFile>> /\ lock = None
      /\ req[r] # None /\ req[r].pc = "record"
      /\ bypass' = [bypass EXCEPT ![req[r].id] = req[r].pid]
  BY DEF StartRecord, At
<1>2. PICK p \in Pids : p = req[r].pid
  BY <1>1, AtWork DEF Fresh
<1>3. PICK c \in IDs : c = req[r].id
  BY <1>1, AtWork
<1>4. /\ Moves(r, "done", p, "ok") /\ procs[p].id = c /\ bypass[c] = None /\ procs[p].told
      /\ req[r].op = "start"
  BY <1>1, <1>2, <1>3, FinishMoves, AtWork
     DEF StartRecord, Finish, Pc, TurnInv, ListenInv, PcInv, Starting, Fresh, Child
<1>5. bypass'[c] = p /\ \A d \in IDs : d # c => bypass'[d] = bypass[d]
  BY <1>1, <1>2, <1>3 DEF TypeOK
<1>6. \A q \in Pids : Active(q)' <=> Active(q)
  BY <1>1 DEF Active
<1>7. TurnInv'
  <2>1. ASSUME NEW s \in Reqs, req'[s] # None, req'[s].pc \in Starting
        PROVE  bypass'[req'[s].id] = None
    <3>1. s # r /\ req'[s] = req[s] /\ req[s] # None /\ req[s].op = "start" /\ req[s].id \in IDs
      BY <1>4, <2>1, AtWork DEF Moves, Starting, PcInv
    <3>2. req[s].id # c /\ bypass[req[s].id] = None
      BY <1>1, <1>3, <1>4, <2>1, <3>1 DEF TurnInv
    <3> QED
      BY <1>5, <3>1, <3>2
  <2> QED
    BY <1>4, <2>1 DEF TurnInv, Moves
<1>8. ASSUME NEW q \in Pids, Active(q)'
      PROVE  bypass'[procs'[q].id] = q \/ \E s \in Reqs : Bearing(s, q)'
  <2>1. Active(q) /\ procs[q].id \in IDs /\ procs' = procs /\ q # None
    BY <1>1, <1>6, <1>8, ActiveFacts
  <2>2. CASE bypass[procs[q].id] = q
    BY <1>4, <1>5, <2>1, <2>2
  <2>3. ASSUME NEW s \in Reqs, Bearing(s, q)
        PROVE  bypass'[procs'[q].id] = q \/ Bearing(s, q)'
    <3>1. CASE s = r
      BY <1>2, <1>4, <1>5, <2>1, <2>3, <3>1 DEF Bearing
    <3>2. CASE s # r
      BY <1>4, <2>3, <3>2 DEF Bearing, Moves
    <3> QED
      BY <3>1, <3>2
  <2> QED
    BY <2>1, <2>2, <2>3 DEF HeldInv
<1>9. \A s \in Reqs : req'[s] # None => req'[s].pc # "delete"
  BY <1>1, <1>4, DriverAssumption DEF LockInv, Holding, Moves
<1>10. HeldInv'
  BY <1>8, <1>9 DEF HeldInv
<1>11. ASSUME NEW q \in Pids, Active(q)'
       PROVE  /\ procs'[q].st \in {"listening", "ready"} => sockFile'[procs'[q].id] = q
              /\ procs'[q].told => procs'[q].st = "ready"
              /\ bypass'[procs'[q].id] = q => procs'[q].told
  <2>1. Active(q) /\ procs[q].id \in IDs
    BY <1>6, <1>11, ActiveFacts
  <2>2. bypass'[procs[q].id] = q => procs[q].told
    BY <1>4, <1>5, <2>1 DEF ListenInv
  <2> QED
    BY <1>1, <2>1, <2>2 DEF ListenInv
<1>12. \A s \in Reqs : req'[s] # None /\ req'[s].pc = "record" => procs'[req'[s].pid].told
  BY <1>1, <1>4 DEF ListenInv, Moves
<1> QED
  BY <1>7, <1>10, <1>11, <1>12 DEF ListenInv

LEMMA SignalOrder ==
    ASSUME OrderInv, NEW r \in Reqs, StopSignal(r)
    PROVE  TurnInv' /\ HeldInv' /\ ListenInv'
<1> USE DEF OrderInv, DriverInv
<1>1. UNCHANGED <<bypass, sockFile>> /\ req[r] # None /\ req[r].pc = "signal"
  BY DEF StopSignal, At
<1>2. CASE Finish(r, "failed") /\ UNCHANGED procs
  <2>1. Moves(r, "done", req[r].pid, "failed") /\ "done" \in Pc
    BY <1>1, <1>2, FinishMoves DEF Finish, Pc
  <2> QED
    BY <1>1, <1>2, <2>1, StillOrder DEF Starting, Fresh
<1>3. CASE procs' = [procs EXCEPT ![req[r].pid].term = TRUE] /\ Goto(r, "wait")
  <2>1. PICK p \in Pids : p = req[r].pid
    BY <1>1, AtWork
  <2> DEFINE x == [procs[p] EXCEPT !.term = TRUE]
  <2>2. Moves(r, "wait", p, req[r].result) /\ "wait" \in Pc
    BY <1>1, <1>3, <2>1, GotoMoves DEF Pc
  <2>3. procs[p] \in Process /\ procs[p] # None
    BY <1>1, <2>1, AtWork DEF Child, TypeOK
  <2>4. x.id = procs[p].id /\ x.st = procs[p].st /\ x.told = procs[p].told
    BY <2>3 DEF Process
  <2>5. procs' = [procs EXCEPT ![p] = x]
    BY <1>3, <2>1
  <2> HIDE DEF x
  <2>6. procs'[p] = x /\ \A q \in Pids : q # p => procs'[q] = procs[q]
    BY <2>5 DEF TypeOK
  <2>7. \A q \in Pids : /\ procs'[q].id = procs[q].id
                        /\ procs'[q].st = procs[q].st /\ procs'[q].told = procs[q].told
    BY <2>4, <2>6
  <2>8. \A q \in Pids : Active(q)' => Active(q)
    BY <2>3, <2>6, <2>7 DEF Active
  <2>9. \A s \in Reqs : req[s] # None /\ req[s].pc = "record" =>
           procs'[req[s].pid].told = procs[req[s].pid].told
    BY <2>7, AtWork DEF Fresh
  <2> QED
    BY <1>1, <2>2, <2>7, <2>8, <2>9, MoveOrder DEF Starting, Fresh
<1> QED
  BY <1>2, <1>3 DEF StopSignal

LEMMA WaitOrder ==
    ASSUME OrderInv, NEW r \in Reqs, StopWait(r)
    PROVE  TurnInv' /\ HeldInv' /\ ListenInv'
<1> USE DEF OrderInv, DriverInv
<1>1. UNCHANGED <<bypass, sockFile>> /\ req[r] # None /\ req[r].pc = "wait"
  BY DEF StopWait, At
<1>2. CASE Finish(r, "failed") /\ UNCHANGED procs
  <2>1. Moves(r, "done", req[r].pid, "failed") /\ "done" \in Pc
    BY <1>1, <1>2, FinishMoves DEF Finish, Pc
  <2> QED
    BY <1>1, <1>2, <2>1, StillOrder DEF Starting, Fresh
<1>3. CASE /\ Goto(r, "delete")
           /\ \/ procs' = [procs EXCEPT ![req[r].pid] = None]
              \/ procs' = [procs EXCEPT ![req[r].pid].st = "zombie"]
  <2>1. PICK p \in Pids : p = req[r].pid
    BY <1>1, AtWork
  <2>2. Moves(r, "delete", p, req[r].result) /\ "delete" \in Pc
    BY <1>1, <1>3, <2>1, GotoMoves DEF Pc
  <2>3. procs[p] \in Process /\ bypass[req[r].id] = p /\ req[r].id \in IDs
        /\ \A d \in IDs : ~Outlived(d)
    BY <1>1, <2>1, HolderKnows DEF Child, TypeOK, Holding
  <2>4. PICK x \in Process \cup {None} :
           procs' = [procs EXCEPT ![p] = x] /\ (x = None \/ x.st = "zombie")
    <3>1. CASE procs' = [procs EXCEPT ![p] = None]
      BY <3>1
    <3>2. CASE procs' = [procs EXCEPT ![p] = [procs[p] EXCEPT !.st = "zombie"]]
      <4> DEFINE y == [procs[p] EXCEPT !.st = "zombie"]
      <4>1. y \in Process /\ y.st = "zombie"
        BY <2>3 DEF Process
      <4> HIDE DEF y
      <4> QED
        BY <3>2, <4>1 DEF y
    <3> QED
      BY <1>3, <2>1, <3>1, <3>2
  <2>5. procs'[p] = x /\ \A q \in Pids : q # p => procs'[q] = procs[q]
    BY <2>4 DEF TypeOK
  <2>6. ~Active(p)' /\ \A q \in Pids : Active(q)' => Active(q) /\ procs'[q] = procs[q]
    BY <2>4, <2>5 DEF Active
  <2>7. ASSUME NEW s \in Reqs, s # r, req[s] # None, req[s].pc = "record"
        PROVE  procs'[req[s].pid].told = procs[req[s].pid].told
    <3>1. req[s].pid \in Pids /\ req[s].pid # p
      BY <2>3, <2>7, AtWork DEF Fresh
    <3> QED
      BY <2>5, <3>1
  <2> QED
    BY <1>1, <2>2, <2>6, <2>7, MoveOrder DEF Starting, Fresh
<1> QED
  BY <1>2, <1>3 DEF StopWait

LEMMA DeleteOrder ==
    ASSUME OrderInv, NEW r \in Reqs, StopDelete(r)
    PROVE  TurnInv' /\ HeldInv' /\ ListenInv'
<1> USE DEF OrderInv, DriverInv
<1>1. /\ UNCHANGED <<procs, sockFile>> /\ req[r] # None /\ req[r].pc = "delete"
      /\ bypass' = [bypass EXCEPT ![req[r].id] = None]
  BY DEF StopDelete, At
<1>2. PICK c \in IDs : c = req[r].id
  BY <1>1, AtWork
<1>3. /\ Moves(r, "interfaces", req[r].pid, "ok")
      /\ \A s \in Reqs : s # r /\ req[s] # None => req[s].pc # "delete"
      /\ req[r].pid \in Pids /\ bypass[c] = req[r].pid
  BY <1>1, <1>2, FinishMoves, HolderKnows, DeletesPid DEF StopDelete, Pc, Holding
<1>4. bypass'[c] = None /\ \A d \in IDs : d # c => bypass'[d] = bypass[d]
  BY <1>1, <1>2 DEF TypeOK
<1>5. \A q \in Pids : Active(q)' <=> Active(q)
  BY <1>1 DEF Active
<1>6. TurnInv'
  <2>1. \A s \in Reqs : req'[s] # None /\ req'[s].pc \in Starting =>
           req'[s] = req[s] /\ req[s] # None /\ req[s].id \in IDs
    BY <1>3, AtWork DEF Moves, Starting
  <2> QED
    BY <1>3, <1>4, <2>1 DEF TurnInv, Moves
<1>7. ASSUME NEW q \in Pids, Active(q)'
      PROVE  bypass'[procs'[q].id] = q \/ \E s \in Reqs : Bearing(s, q)'
  <2>1. Active(q) /\ procs[q].id \in IDs /\ procs' = procs
    BY <1>1, <1>5, <1>7, ActiveFacts
  <2>2. CASE bypass[procs[q].id] = q
    <3>1. procs[q].id # c
      BY <1>1, <1>2, <1>3, <2>1, <2>2, OutlivedGone
    <3> QED
      BY <1>4, <2>1, <2>2, <3>1
  <2>3. \A s \in Reqs : Bearing(s, q) => Bearing(s, q)'
    BY <1>1, <1>3 DEF Bearing, Moves, Fresh
  <2> QED
    BY <2>1, <2>2, <2>3 DEF HeldInv
<1>8. \A s \in Reqs : req'[s] # None => req'[s].pc # "delete"
  BY <1>3 DEF Moves
<1>9. HeldInv'
  BY <1>7, <1>8 DEF HeldInv
<1>10. ASSUME NEW q \in Pids, Active(q)'
       PROVE  /\ procs'[q].st \in {"listening", "ready"} => sockFile'[procs'[q].id] = q
              /\ procs'[q].told => procs'[q].st = "ready"
              /\ bypass'[procs'[q].id] = q => procs'[q].told
  <2>1. Active(q) /\ procs[q].id \in IDs /\ q # None
    BY <1>5, <1>10, ActiveFacts
  <2>2. bypass'[procs[q].id] = q => procs[q].told
    BY <1>4, <2>1 DEF ListenInv
  <2> QED
    BY <1>1, <2>1, <2>2 DEF ListenInv
<1>11. \A s \in Reqs : req'[s] # None /\ req'[s].pc = "record" => procs'[req'[s].pid].told
  BY <1>1, <1>3 DEF ListenInv, Moves
<1> QED
  BY <1>6, <1>9, <1>10, <1>11 DEF ListenInv

-----------------------------------------------------------------------------
(* The invariant *)

LEMMA NextOrder ==
    ASSUME OrderInv, Serial, "pipe" \notin Faults, [Next]_vars
    PROVE  OrderInv'
<1>1. DriverInv'
  BY NextInv DEF OrderInv
<1>2. ASSUME NEW r \in Reqs, Invoke(r) \/ Work(r) \/ Locking(r)
      PROVE  TurnInv' /\ HeldInv' /\ ListenInv'
  <2>1. ~StartFails(r)
    BY DEF StartFails
  <2> QED
    BY <1>2, <2>1, InvokeOrder, ReturnOrder, StillSteps, SpawnOrder, PollOrder, RecordOrder,
       SignalOrder, WaitOrder, DeleteOrder DEF Work, Locking
<1>3. ASSUME NEW p \in Pids,
             ChildStep(p) \/ ChildCatches(p) \/ ChildDies(p) \/ ChildPosts(p) \/ Stranger(p)
      PROVE  TurnInv' /\ HeldInv' /\ ListenInv'
  BY <1>3, ChildOrder, OutsideSteps
<1>4. ASSUME UNCHANGED vars \/ \E c \in IDs : PostInterface(c) \/ DeleteInterface(c)
      PROVE  TurnInv' /\ HeldInv' /\ ListenInv'
  BY <1>4, OutsideSteps
<1>5. TurnInv' /\ HeldInv' /\ ListenInv'
  BY <1>2, <1>3, <1>4 DEF Next
<1> QED
  BY <1>1, <1>5 DEF OrderInv

LEMMA OrderInvariant ==
    ASSUME Serial, "pipe" \notin Faults
    PROVE  Safety => []OrderInv
<1>1. Init => OrderInv
  <2>1. Init => DriverInv
    BY DEF Init, DriverInv, TypeOK, PcInv, LockInv, PidInv, EntryIsChild
  <2>2. Init => TurnInv /\ HeldInv /\ ListenInv
    BY DEF Init, TurnInv, HeldInv, ListenInv, Active
  <2> QED
    BY <2>1, <2>2 DEF OrderInv
<1>2. ASSUME OrderInv, [Next]_vars
      PROVE  OrderInv'
  BY <1>2, NextOrder
<1> QED
  BY <1>1, <1>2, PTL DEF Safety

-----------------------------------------------------------------------------
(* The results *)

\* No process is left that no StopBypass can reach, when each container is
\* started and stopped in turn and ready pipes can be read: whatever else
\* fails, and in whatever order containers come and go (StartBypass, StopBypass).
THEOREM NoProcessLeft ==
    ASSUME Serial, "pipe" \notin Faults
    PROVE  Safety => []NoOrphan
<1>1. OrderInv => NoOrphan
  BY DEF OrderInv, HeldInv, Bearing, Fresh, NoOrphan
<1> QED
  BY <1>1, OrderInvariant, PTL

\* The listener at a container's socket path is that of the process recorded
\* for it: neither a predecessor's end nor a successor's start takes the path
\* away (StopBypass waits before it forgets, main removes the path).
THEOREM ServedAreReachable ==
    ASSUME Serial, "pipe" \notin Faults
    PROVE  Safety => []ServedIsReachable
<1>1. OrderInv => ServedIsReachable
  <2> SUFFICES ASSUME OrderInv, NEW c \in IDs, bypass[c] # None,
                      Child(bypass[c], c), Active(bypass[c])
               PROVE  sockFile[c] = bypass[c]
    BY DEF ServedIsReachable
  <2>1. bypass[c] \in Pids /\ procs[bypass[c]].id = c
    BY DEF OrderInv, DriverInv, TypeOK, Child
  <2> QED
    BY <2>1 DEF OrderInv, ListenInv
<1> QED
  BY <1>1, OrderInvariant, PTL
=============================================================================
