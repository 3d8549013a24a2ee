-------------------------- MODULE InterfaceSyncProofs --------------------------
(***************************************************************************)
(* For any number of containers, handlers and addresses, whatever fails:   *)
(* what the daemon has ceased to list leaves a handler's map in bounded    *)
(* time, since no round keeps an entry that is Period seconds old.         *)
(***************************************************************************)
EXTENDS InterfaceSync, TLAPS

\* The seconds that may have gone by since the last swap of a task's map.
Elapsed(x) == IF x.pc = "sleep" THEN x.slept ELSE 1 + Drift + x.busy

\* An entry that is young was listed not long before it was checked.
Recent(e) == e.age < Period => e.unlisted <= e.age + MaxRound

\* What the last rounds may have left in the map, and this one in containerIf:
\* to be kept, an entry had to be young at some second of its round.
KnownInTime(x, e) ==
    /\ Recent(e)
    /\ e.unlisted + 1 <= Period + MaxRound + MaxRound + Elapsed(x)
BuiltInTime(x, e) ==
    /\ Recent(e)
    /\ e.unlisted + 1 <= Period + MaxRound + x.busy

Empty(m) == \A a \in Addrs : m[a] = None

\* The maps m and n (containerIf) of a handler at address b, with task x.
MapInTime(x, b, m, n) ==
    /\ (x = None \/ b = None) => Empty(m) /\ Empty(n)
    /\ b = None => x = None
    /\ x # None =>
         /\ x.pc = "ping" => Empty(m)
         /\ x.pc # "resolve" => Empty(n)
         /\ x.pc # "ended" => \A a \in Addrs : m[a] # None => KnownInTime(x, m[a])
         /\ x.pc = "resolve" => \A a \in Addrs : n[a] # None => BuiltInTime(x, n[a])

MapsInTime == \A c \in Watched : MapInTime(task[c], addr[c], known[c], containerIf[c])

SyncInv == TypeOK /\ MapsInTime

-----------------------------------------------------------------------------
(* Steps that leave the maps alone *)

LEMMA ConstantTypes ==
    /\ Gap \in Nat /\ Stale \in Nat /\ Stale = Period + 1 + Drift + MaxRound + MaxRound + MaxRound
    /\ Period \in Nat /\ Drift \in Nat /\ MaxRound \in Nat /\ MaxFailures \in Nat /\ Period > 0
    /\ Watched \subseteq Conts
    /\ \A c \in Conts : Subnet[c] \subseteq Addrs
    /\ None \notin Addrs
    /\ NoTable \in [Conts -> Addrs \cup {None}]
    /\ NoMap \in [Addrs -> Entry \cup {None}] /\ Empty(NoMap)
BY SyncAssumption DEF Gap, Stale, NoTable, NoMap, Empty

LEMMA FailsTyped == TypeOK /\ Fails => failures' \in 0..MaxFailures
BY ConstantTypes DEF TypeOK, Fails

\* The task of c becomes y, no sooner after a swap than before.
LEMMA TaskMoves ==
    ASSUME SyncInv, NEW c \in Watched, NEW y \in Task,
           task[c] # None, task' = [task EXCEPT ![c] = y], UNCHANGED <<addr, maps>>,
           y.pc = "ping" => task[c].pc = "ping",
           task[c].pc # "resolve",
           y.pc # "ended" =>
               task[c].pc # "ended" /\ (task[c].pc = "ping" \/ Elapsed(task[c]) <= Elapsed(y)),
           table' \in [Conts -> Addrs \cup {None}], posts' \in [Conts -> Addrs \cup {None}],
           failures' \in 0..MaxFailures
    PROVE  SyncInv'
<1>1. TypeOK'
  BY DEF SyncInv, TypeOK, maps
<1>2. ASSUME NEW d \in Watched PROVE MapInTime(task'[d], addr'[d], known'[d], containerIf'[d])
  <2>1. MapInTime(task[d], addr[d], known[d], containerIf[d])
    BY DEF SyncInv, MapsInTime
  <2>2. addr'[d] = addr[d] /\ known'[d] = known[d] /\ containerIf'[d] = containerIf[d]
    BY DEF maps
  <2>3. CASE d # c
    <3>1. task'[d] = task[d]
      BY <2>3 DEF SyncInv, TypeOK
    <3> QED
      BY <2>1, <2>2, <3>1
  <2>4. CASE d = c
    <3>1. task'[d] = y /\ y # None
      BY <2>4, SyncNoneAssumption DEF SyncInv, TypeOK
    <3>2. addr[d] # None
      BY <2>1, <2>4 DEF MapInTime
    <3>3. ASSUME y.pc # "ended", NEW a \in Addrs, known[d][a] # None
          PROVE  KnownInTime(y, known[d][a])
      <4>1. task[c].pc \notin {"ended", "ping"} /\ Elapsed(task[c]) <= Elapsed(y)
        BY <2>1, <2>4, <3>3 DEF MapInTime, Empty
      <4>2. KnownInTime(task[c], known[d][a])
        BY <2>1, <2>4, <3>3, <4>1 DEF MapInTime
      <4>3. known[d][a].unlisted \in Nat
        BY <3>3, ConstantTypes DEF SyncInv, TypeOK, Entry
      <4>4. task[c] \in Task
        BY DEF SyncInv, TypeOK
      <4>5. Elapsed(task[c]) \in Nat /\ Elapsed(y) \in Nat
        BY <4>4, ConstantTypes DEF Elapsed, Task
      <4> QED
        BY <4>1, <4>2, <4>3, <4>5, ConstantTypes DEF KnownInTime
    <3>4. (y.pc = "ping" => Empty(known[d])) /\ Empty(containerIf[d])
      BY <2>1, <2>4 DEF MapInTime
    <3> QED
      BY <2>2, <3>1, <3>2, <3>3, <3>4 DEF MapInTime, Empty
  <2> QED
    BY <2>3, <2>4
<1> QED
  BY <1>1, <1>2 DEF SyncInv, MapsInTime

\* Only the daemon's part changes.
LEMMA DaemonMoves ==
    ASSUME SyncInv, UNCHANGED <<addr, task, maps>>,
           table' \in [Conts -> Addrs \cup {None}], posts' \in [Conts -> Addrs \cup {None}],
           failures' \in 0..MaxFailures
    PROVE  SyncInv'
BY DEF SyncInv, TypeOK, MapsInTime, MapInTime, maps

-----------------------------------------------------------------------------
(* Containers and the daemon *)

LEMMA SyncInit == Init => SyncInv
<1> SUFFICES ASSUME Init PROVE SyncInv
  OBVIOUS
<1>1. 0 \in 0..MaxFailures
  BY ConstantTypes
<1>2. TypeOK
  BY <1>1, ConstantTypes DEF Init, TypeOK
<1>3. MapsInTime
  BY ConstantTypes DEF Init, MapsInTime, MapInTime, NoTable
<1> QED
  BY <1>2, <1>3 DEF SyncInv

LEMMA KeepsStart ==
    ASSUME SyncInv, NEW c \in Conts, Start(c) PROVE SyncInv'
<1> DEFINE y == [pc |-> "ping", listed |-> NoTable,
                 since |-> Period + 1, slept |-> 1, busy |-> 0]
<1>1. y \in Task
  <2>1. Period + 1 \in 0..(Period + 1) /\ 1 \in 0..(1 + Drift) /\ 0 \in 0..MaxRound
    BY ConstantTypes
  <2> QED
    BY <2>1, ConstantTypes DEF Task
<1>2. y.pc = "ping"
  OBVIOUS
<1>3. task' = [d \in Watched |-> IF d # c THEN task[d] ELSE y]
  BY DEF Start
<1> HIDE DEF y
<1>4. PICK b \in Subnet[c] : addr' = [addr EXCEPT ![c] = b]
  BY DEF Start
<1>5. b \in Addrs /\ b # None
  BY <1>4, ConstantTypes
<1>6. UNCHANGED <<table, posts, maps, failures>> /\ addr[c] = None
  BY DEF Start
<1>7. TypeOK'
  BY <1>1, <1>3, <1>4, <1>5, <1>6 DEF SyncInv, TypeOK, maps
<1>8. ASSUME NEW d \in Watched PROVE MapInTime(task'[d], addr'[d], known'[d], containerIf'[d])
  <2>1. MapInTime(task[d], addr[d], known[d], containerIf[d])
    BY DEF SyncInv, MapsInTime
  <2>2. d \in Conts /\ known'[d] = known[d] /\ containerIf'[d] = containerIf[d]
    BY <1>6, ConstantTypes DEF maps
  <2>3. CASE d # c
    <3>1. task'[d] = task[d] /\ addr'[d] = addr[d]
      BY <1>3, <1>4, <2>2, <2>3 DEF SyncInv, TypeOK
    <3> QED
      BY <2>1, <2>2, <3>1
  <2>4. CASE d = c
    <3>1. task'[d] = y /\ addr'[d] = b /\ y # None
      BY <1>1, <1>3, <1>4, <2>4, SyncNoneAssumption DEF SyncInv, TypeOK
    <3>2. Empty(known[d]) /\ Empty(containerIf[d])
      BY <1>6, <2>1, <2>4 DEF MapInTime
    <3> QED
      BY <1>2, <1>5, <2>2, <3>1, <3>2 DEF MapInTime, Empty
  <2> QED
    BY <2>3, <2>4
<1> QED
  BY <1>7, <1>8 DEF SyncInv, MapsInTime

LEMMA KeepsStop ==
    ASSUME SyncInv, NEW c \in Conts, Stop(c) PROVE SyncInv'
<1>1. /\ addr' = [addr EXCEPT ![c] = None]
      /\ task' = [d \in Watched |-> IF d = c THEN None ELSE task[d]]
      /\ containerIf' = [d \in Watched |-> IF d = c THEN NoMap ELSE containerIf[d]]
      /\ known' = [d \in Watched |-> IF d = c THEN NoMap ELSE known[d]]
      /\ UNCHANGED <<table, posts, failures>>
  BY DEF Stop
<1>2. NoMap \in [Addrs -> Entry \cup {None}] /\ Empty(NoMap)
  BY ConstantTypes
<1>3. TypeOK'
  BY <1>1, <1>2 DEF SyncInv, TypeOK
<1>4. ASSUME NEW d \in Watched PROVE MapInTime(task'[d], addr'[d], known'[d], containerIf'[d])
  <2>1. MapInTime(task[d], addr[d], known[d], containerIf[d])
    BY DEF SyncInv, MapsInTime
  <2>2. CASE d # c
    BY <1>1, <2>1, <2>2, ConstantTypes DEF SyncInv, TypeOK
  <2>3. CASE d = c
    <3>1. task'[d] = None /\ known'[d] = NoMap /\ containerIf'[d] = NoMap
      BY <1>1, <2>3
    <3> QED
      BY <1>2, <3>1 DEF MapInTime
  <2> QED
    BY <2>2, <2>3
<1> QED
  BY <1>3, <1>4 DEF SyncInv, MapsInTime

LEMMA KeepsDaemon ==
    ASSUME SyncInv, NEW c \in Conts,
           PostOfOther(c) \/ PostInterface(c) \/ DeleteInterface(c)
    PROVE  SyncInv'
<1>1. CASE PostOfOther(c)
  BY <1>1, DaemonMoves DEF PostOfOther, SyncInv, TypeOK
<1>2. CASE PostInterface(c)
  BY <1>2, DaemonMoves DEF PostInterface, SyncInv, TypeOK
<1>3. CASE DeleteInterface(c)
  BY <1>3, DaemonMoves DEF DeleteInterface, SyncInv, TypeOK
<1> QED
  BY <1>1, <1>2, <1>3

LEMMA KeepsRestart == ASSUME SyncInv, Restart PROVE SyncInv'
<1> DEFINE listing(x) == [x EXCEPT !.pc = "list"]
<1>1. /\ task' = [c \in Watched |-> IF At(c, "post") THEN listing(task[c]) ELSE task[c]]
      /\ UNCHANGED <<addr, maps>> /\ table' = NoTable /\ posts' = NoTable
      /\ failures' \in 0..MaxFailures
  BY FailsTyped DEF Restart, SyncInv
<1>2. ASSUME NEW x \in Task
      PROVE  listing(x) \in Task /\ listing(x).pc = "list" /\ listing(x).busy = x.busy
  BY DEF Task
<1> HIDE DEF listing
<1>3. TypeOK'
  <2>1. task' \in [Watched -> Task \cup {None}]
    BY <1>1, <1>2 DEF SyncInv, TypeOK, At
  <2> QED
    BY <1>1, <2>1, ConstantTypes DEF SyncInv, TypeOK, maps
<1>4. ASSUME NEW d \in Watched PROVE MapInTime(task'[d], addr'[d], known'[d], containerIf'[d])
  <2>1. MapInTime(task[d], addr[d], known[d], containerIf[d])
    BY DEF SyncInv, MapsInTime
  <2>2. addr'[d] = addr[d] /\ known'[d] = known[d] /\ containerIf'[d] = containerIf[d]
    BY <1>1 DEF maps
  <2>3. CASE ~At(d, "post")
    BY <1>1, <2>1, <2>2, <2>3
  <2>4. CASE At(d, "post")
    <3> DEFINE x == task[d]
               y == listing(x)
    <3>1. x # None /\ x.pc = "post" /\ x \in Task /\ task'[d] = y
      BY <1>1, <2>4 DEF At, SyncInv, TypeOK
    <3>2. y \in Task /\ y.pc = "list" /\ y.busy = x.busy /\ y # None
      BY <1>2, <3>1, SyncNoneAssumption
    <3> HIDE DEF x, y
    <3>3. Elapsed(y) = Elapsed(x)
      BY <3>1, <3>2 DEF Elapsed
    <3>4. MapInTime(x, addr[d], known[d], containerIf[d])
      BY <2>1 DEF x
    <3>5. MapInTime(y, addr[d], known[d], containerIf[d])
      BY <3>1, <3>2, <3>3, <3>4 DEF MapInTime, KnownInTime
    <3> QED
      BY <2>2, <3>1, <3>5
  <2> QED
    BY <2>3, <2>4
<1> QED
  BY <1>3, <1>4 DEF SyncInv, MapsInTime

-----------------------------------------------------------------------------
(* The rounds *)

\* A round's steps before the swap.
LEMMA KeepsRound ==
    ASSUME SyncInv, NEW c \in Watched,
           \/ Ping(c) \/ Post(c) \/ AddressesUnknown(c) \/ NotDue(c) \/ Posted(c)
           \/ PostFails(c) \/ ListInterfaces(c)
    PROVE  SyncInv'
<1> DEFINE x == task[c]
<1>1. x # None
  BY DEF Ping, Post, AddressesUnknown, NotDue, Posted, PostFails, ListInterfaces, Wakes, At
<1>2. x \in Task /\ task \in [Watched -> Task \cup {None}]
  BY <1>1 DEF SyncInv, TypeOK
<1>3. /\ table \in [Conts -> Addrs \cup {None}] /\ posts \in [Conts -> Addrs \cup {None}]
      /\ addr \in [Conts -> Addrs \cup {None}] /\ failures \in 0..MaxFailures
      /\ addr[c] \in Addrs
  BY <1>1, ConstantTypes DEF SyncInv, TypeOK, MapsInTime, MapInTime
<1>4. 0 \in 0..(1 + Drift) /\ 0 \in 0..(Period + 1)
  BY ConstantTypes
<1>5. /\ x.slept \in 0..(1 + Drift) /\ x.busy \in 0..MaxRound /\ x.slept <= 1 + Drift + x.busy
  BY <1>2, ConstantTypes DEF Task
<1>6. CASE Ping(c)
  <2> DEFINE y == [x EXCEPT !.pc = "sleep"]
  <2>1. task' = [task EXCEPT ![c] = y] /\ x.pc = "ping"
    BY <1>2, <1>6 DEF Ping, At
  <2>2. y \in Task /\ y.pc = "sleep"
    BY <1>2 DEF Task
  <2> HIDE DEF y
  <2> QED
    BY <1>1, <1>3, <1>6, <2>1, <2>2, TaskMoves DEF Ping
<1>7. CASE Post(c)
  <2> DEFINE y == [x EXCEPT !.pc = "post", !.slept = 0]
  <2>1. task' = [task EXCEPT ![c] = y] /\ x.pc = "sleep"
    BY <1>2, <1>7 DEF Post, Wakes, At
  <2>2. y \in Task
    BY <1>2, <1>4 DEF Task
  <2>3. y.pc = "post" /\ y.busy = x.busy
    BY <1>2 DEF Task
  <2>4. posts' = [posts EXCEPT ![c] = addr[c]] /\ UNCHANGED <<addr, table, maps, failures>>
    BY <1>7 DEF Post
  <2> HIDE DEF y
  <2>5. Elapsed(x) <= Elapsed(y)
    BY <1>5, <2>1, <2>3 DEF Elapsed
  <2>6. posts' \in [Conts -> Addrs \cup {None}]
    BY <1>3, <2>4
  <2> QED
    BY <1>1, <1>3, <2>1, <2>2, <2>3, <2>4, <2>5, <2>6, TaskMoves
<1>8. CASE AddressesUnknown(c)
  <2> DEFINE y == [x EXCEPT !.pc = "ended"]
  <2>1. task' = [task EXCEPT ![c] = y] /\ x.pc = "sleep"
    BY <1>2, <1>8 DEF AddressesUnknown, Wakes, At
  <2>2. y \in Task /\ y.pc = "ended"
    BY <1>2 DEF Task
  <2> HIDE DEF y
  <2> QED
    BY <1>1, <1>3, <1>8, <2>1, <2>2, TaskMoves DEF AddressesUnknown
<1>9. CASE NotDue(c)
  <2> DEFINE y == [x EXCEPT !.pc = "list", !.slept = 0]
  <2>1. task' = [task EXCEPT ![c] = y] /\ x.pc = "sleep"
    BY <1>2, <1>9 DEF NotDue, Wakes, At
  <2>2. y \in Task
    BY <1>2, <1>4 DEF Task
  <2>3. y.pc = "list" /\ y.busy = x.busy
    BY <1>2 DEF Task
  <2> HIDE DEF y
  <2>5. Elapsed(x) <= Elapsed(y)
    BY <1>5, <2>1, <2>3 DEF Elapsed
  <2> QED
    BY <1>1, <1>3, <1>9, <2>1, <2>2, <2>3, <2>5, TaskMoves DEF NotDue
<1>10. CASE Posted(c)
  <2> DEFINE y == [x EXCEPT !.pc = "list", !.since = 0]
  <2>1. task' = [task EXCEPT ![c] = y] /\ x.pc = "post"
    BY <1>2, <1>10 DEF Posted, At
  <2>2. y \in Task
    BY <1>2, <1>4 DEF Task
  <2>3. y.pc = "list" /\ y.busy = x.busy
    BY <1>2 DEF Task
  <2> HIDE DEF y
  <2>5. Elapsed(x) <= Elapsed(y)
    BY <1>5, <2>1, <2>3, ConstantTypes DEF Elapsed
  <2> QED
    BY <1>1, <1>3, <1>10, <2>1, <2>2, <2>3, <2>5, TaskMoves DEF Posted
<1>11. CASE PostFails(c)
  <2> DEFINE y == [x EXCEPT !.pc = "list"]
  <2>1. task' = [task EXCEPT ![c] = y] /\ x.pc = "post"
    BY <1>2, <1>11 DEF PostFails, At
  <2>2. y \in Task
    BY <1>2 DEF Task
  <2>3. y.pc = "list" /\ y.busy = x.busy
    BY <1>2 DEF Task
  <2>4. failures' \in 0..MaxFailures
    BY <1>11, FailsTyped DEF PostFails, SyncInv
  <2> HIDE DEF y
  <2>5. Elapsed(x) <= Elapsed(y)
    BY <1>5, <2>1, <2>3, ConstantTypes DEF Elapsed
  <2> QED
    BY <1>1, <1>3, <1>11, <2>1, <2>2, <2>3, <2>4, <2>5, TaskMoves DEF PostFails
<1>12. CASE ListInterfaces(c)
  <2>1. PICK answer \in {Addresses, NoTable} :
            task' = [task EXCEPT ![c].pc = "resolve", ![c].listed = answer]
    BY <1>12 DEF ListInterfaces, Listed
  <2> DEFINE y == [x EXCEPT !.pc = "resolve", !.listed = answer]
  <2>2. task' = [task EXCEPT ![c] = y] /\ x.pc = "list"
    BY <1>2, <1>12, <2>1 DEF ListInterfaces, At
  <2>3. answer \in [Conts -> Addrs \cup {None}]
    BY <1>3, <2>1, ConstantTypes DEF Addresses
  <2>4. y \in Task
    BY <1>2, <2>3 DEF Task
  <2>5. y.pc = "resolve" /\ y.busy = x.busy
    BY <1>2 DEF Task
  <2>6. failures' \in 0..MaxFailures /\ UNCHANGED <<addr, table, posts, maps>>
    BY <1>3, <1>12, FailsTyped DEF ListInterfaces, SyncInv
  <2> HIDE DEF y
  <2>7. Elapsed(x) <= Elapsed(y)
    BY <1>5, <2>2, <2>5, ConstantTypes DEF Elapsed
  <2> QED
    BY <1>1, <1>3, <2>2, <2>4, <2>5, <2>6, <2>7, TaskMoves
<1> QED
  BY <1>6, <1>7, <1>8, <1>9, <1>10, <1>11, <1>12

\* What a task resolves is put in containerIf, and in no other map.
LEMMA ResolvedKeeps ==
    ASSUME SyncInv, NEW c \in Watched, NEW d \in Conts, NEW a \in Addrs,
           NEW e \in Entry \cup {None},
           e # None => BuiltInTime(task[c], e) \/ e = containerIf[c][a],
           Resolved(c, d, a, e), failures' \in 0..MaxFailures
    PROVE  SyncInv'
<1> DEFINE x == task[c]
           y == [x EXCEPT !.listed = [x.listed EXCEPT ![d] = None]]
           m == [containerIf[c] EXCEPT ![a] = e]
<1>1. x # None /\ x.pc = "resolve" /\ x \in Task
  BY DEF Resolved, At, SyncInv, TypeOK
<1>2. /\ task' = [task EXCEPT ![c] = y] /\ containerIf' = [containerIf EXCEPT ![c] = m]
      /\ UNCHANGED <<addr, table, posts, known>>
  BY DEF Resolved, SyncInv, TypeOK
<1>3. /\ y \in Task /\ y.pc = "resolve" /\ y.busy = x.busy /\ y # None
      /\ m \in [Addrs -> Entry \cup {None}]
  <2>1. [x.listed EXCEPT ![d] = None] \in [Conts -> Addrs \cup {None}]
    BY <1>1 DEF Task
  <2>2. y \in Task /\ y.pc = "resolve" /\ y.busy = x.busy
    BY <1>1, <2>1 DEF Task
  <2> QED
    BY <2>2, SyncNoneAssumption DEF SyncInv, TypeOK
<1>4. MapInTime(x, addr[c], known[c], containerIf[c])
  BY DEF SyncInv, MapsInTime
<1>5. ASSUME NEW b \in Addrs, m[b] # None PROVE BuiltInTime(x, m[b])
  <2>1. containerIf[c] \in [Addrs -> Entry \cup {None}]
    BY DEF SyncInv, TypeOK
  <2>2. m[b] = IF b = a THEN e ELSE containerIf[c][b]
    BY <2>1
  <2> HIDE DEF m
  <2> QED
    BY <1>1, <1>4, <1>5, <2>2 DEF MapInTime
<1> HIDE DEF x, y, m
<1>6. TypeOK'
  BY <1>2, <1>3 DEF SyncInv, TypeOK
<1>7. ASSUME NEW b \in Watched PROVE MapInTime(task'[b], addr'[b], known'[b], containerIf'[b])
  <2>1. MapInTime(task[b], addr[b], known[b], containerIf[b])
    BY DEF SyncInv, MapsInTime
  <2>2. CASE b # c
    BY <1>2, <2>1, <2>2 DEF SyncInv, TypeOK
  <2>3. CASE b = c
    <3>1. /\ task'[b] = y /\ addr'[b] = addr[c] /\ known'[b] = known[c]
          /\ containerIf'[b] = m
      BY <1>2, <2>3 DEF SyncInv, TypeOK
    <3>2. Elapsed(y) = Elapsed(x)
      BY <1>1, <1>3 DEF Elapsed
    <3>3. MapInTime(y, addr[c], known[c], m)
      BY <1>1, <1>3, <1>4, <1>5, <3>2 DEF MapInTime, KnownInTime, BuiltInTime
    <3> QED
      BY <3>1, <3>3
  <2> QED
    BY <2>2, <2>3
<1> QED
  BY <1>6, <1>7 DEF SyncInv, MapsInTime

\* An entry that is kept was young, and so unlisted for less than Period
\* seconds and a round; one that is checked has been listed in this round.
LEMMA KeepsResolve ==
    ASSUME SyncInv, NEW c \in Watched, NEW d \in Conts, NEW a \in Addrs,
           Keep(c, d, a) \/ Check(c, d, a) \/ CheckFails(c, d, a)
    PROVE  SyncInv'
<1> DEFINE x == task[c]
           old == known[c][a]
           u == IF table[d] = a THEN 0 ELSE x.busy
           new == [owner |-> d, age |-> 0, unlisted |-> u]
<1>1. /\ x # None /\ x.pc = "resolve" /\ x \in Task
      /\ MapInTime(x, addr[c], known[c], containerIf[c])
  BY DEF Keep, Check, CheckFails, Resolved, At, SyncInv, TypeOK, MapsInTime
<1>2. /\ old \in Entry \cup {None} /\ containerIf[c][a] \in Entry \cup {None}
      /\ failures \in 0..MaxFailures
  BY DEF SyncInv, TypeOK
<1>3. x.busy \in Nat /\ x.busy <= MaxRound
  BY <1>1, ConstantTypes DEF Task
<1>4. CASE Keep(c, d, a)
  <2>1. old # None /\ old \in Entry /\ old.age < Period
    BY <1>2, <1>4 DEF Keep, Young
  <2>2. Recent(old)
    BY <1>1, <2>1 DEF MapInTime, KnownInTime
  <2>3. old.age \in Nat /\ old.unlisted \in Nat
    BY <2>1, ConstantTypes DEF Entry
  <2>4. Resolved(c, d, a, old) /\ UNCHANGED failures
    BY <1>4 DEF Keep, Kept
  <2> HIDE DEF x, old
  <2>5. BuiltInTime(x, old)
    BY <1>3, <2>1, <2>2, <2>3, ConstantTypes DEF BuiltInTime, Recent
  <2> QED
    BY <1>2, <2>4, <2>5, ResolvedKeeps DEF x
<1>5. CASE Check(c, d, a)
  <2>1. u \in Nat /\ u <= x.busy
    BY <1>3
  <2>2. Resolved(c, d, a, new) /\ UNCHANGED failures
    BY <1>5 DEF Check
  <2> HIDE DEF x, u
  <2>3. 0 \in 0..Period /\ u \in 0..Stale
    BY <1>3, <2>1, ConstantTypes
  <2>4. new \in Entry /\ new.age = 0 /\ new.unlisted = u
    BY <2>3 DEF Entry
  <2> HIDE DEF new
  <2>5. BuiltInTime(x, new)
    BY <1>3, <2>1, <2>4, ConstantTypes DEF BuiltInTime, Recent
  <2> QED
    BY <1>2, <2>2, <2>4, <2>5, ResolvedKeeps DEF x
<1>6. CASE CheckFails(c, d, a)
  <2>1. Resolved(c, d, a, containerIf[c][a]) /\ failures' \in 0..MaxFailures
    BY <1>2, <1>6, FailsTyped DEF CheckFails, SyncInv
  <2> QED
    BY <1>2, <2>1, ResolvedKeeps
<1> QED
  BY <1>4, <1>5, <1>6

LEMMA KeepsSwap ==
    ASSUME SyncInv, NEW c \in Watched, Swap(c) PROVE SyncInv'
<1> DEFINE x == task[c]
           y == [x EXCEPT !.pc = "sleep", !.busy = 0]
<1>1. /\ x # None /\ x.pc = "resolve" /\ x \in Task
      /\ MapInTime(x, addr[c], known[c], containerIf[c])
  BY DEF Swap, At, SyncInv, TypeOK, MapsInTime
<1>2. /\ task' = [task EXCEPT ![c] = y] /\ known' = [known EXCEPT ![c] = containerIf[c]]
      /\ containerIf' = [containerIf EXCEPT ![c] = NoMap]
      /\ UNCHANGED <<addr, table, posts, failures>>
  BY DEF Swap, SyncInv, TypeOK
<1>3. y \in Task /\ y.pc = "sleep" /\ y.slept \in Nat /\ y # None
  <2>1. 0 \in 0..MaxRound
    BY ConstantTypes
  <2>2. y \in Task
    BY <1>1, <2>1 DEF Task
  <2>3. y.pc = "sleep" /\ y # None
    BY <1>1, <2>2, SyncNoneAssumption DEF Task
  <2>4. y.slept \in 0..(1 + Drift)
    BY <2>2 DEF Task
  <2> QED
    BY <2>2, <2>3, <2>4, ConstantTypes
<1>4. x.busy \in Nat /\ x.busy <= MaxRound
  BY <1>1, ConstantTypes DEF Task
<1> HIDE DEF x, y
<1>5. ASSUME NEW a \in Addrs, containerIf[c][a] # None PROVE KnownInTime(y, containerIf[c][a])
  <2> DEFINE e == containerIf[c][a]
  <2>1. BuiltInTime(x, e)
    BY <1>1, <1>5 DEF MapInTime
  <2>2. e.unlisted \in Nat
    BY <1>5, ConstantTypes DEF SyncInv, TypeOK, Entry
  <2> HIDE DEF e
  <2> QED
    BY <1>3, <1>4, <2>1, <2>2, ConstantTypes DEF KnownInTime, BuiltInTime, Elapsed, e
<1>6. TypeOK'
  BY <1>2, <1>3, ConstantTypes DEF SyncInv, TypeOK
<1>7. ASSUME NEW d \in Watched PROVE MapInTime(task'[d], addr'[d], known'[d], containerIf'[d])
  <2>1. MapInTime(task[d], addr[d], known[d], containerIf[d])
    BY DEF SyncInv, MapsInTime
  <2>2. CASE d # c
    BY <1>2, <2>1, <2>2 DEF SyncInv, TypeOK
  <2>3. CASE d = c
    <3>1. /\ task'[d] = y /\ known'[d] = containerIf[c] /\ containerIf'[d] = NoMap
          /\ addr'[d] = addr[c]
      BY <1>2, <2>3 DEF SyncInv, TypeOK
    <3>2. addr[c] # None
      BY <1>1 DEF MapInTime
    <3> QED
      BY <1>3, <1>5, <3>1, <3>2, ConstantTypes DEF MapInTime
  <2> QED
    BY <2>2, <2>3
<1> QED
  BY <1>6, <1>7 DEF SyncInv, MapsInTime

-----------------------------------------------------------------------------
(* Time *)

LEMMA AgedTask ==
    ASSUME NEW x \in Task, InTime(x)
    PROVE  /\ Aged(x) \in Task /\ Aged(x).pc = x.pc
           /\ x.pc \notin {"ping", "ended"} => Elapsed(Aged(x)) = Elapsed(x) + 1
           /\ x.pc = "resolve" => Aged(x).busy = x.busy + 1
<1> DEFINE y == Aged(x)
<1>1. x # None
  BY SyncNoneAssumption
<1>2. CASE x.pc \in {"ping", "ended"}
  BY <1>1, <1>2 DEF Aged
<1>3. CASE x.pc \notin {"ping", "ended"}
  <2> DEFINE since == Sooner(x.since, Period + 1)
             slept == IF x.pc = "sleep" THEN x.slept + 1 ELSE 0
             busy == IF x.pc = "sleep" THEN 0 ELSE x.busy + 1
  <2>1. y = [x EXCEPT !.since = since, !.slept = slept, !.busy = busy]
    BY <1>1, <1>3 DEF Aged
  <2>2. x.since \in 0..(Period + 1) /\ x.slept \in 0..(1 + Drift) /\ x.busy \in 0..MaxRound
    BY DEF Task
  <2>3. since \in 0..(Period + 1)
    BY <2>2, ConstantTypes DEF Sooner
  <2>4. x.pc \in {"sleep", "post", "list", "resolve"}
    BY <1>3 DEF Task
  <2>5. slept \in 0..(1 + Drift) /\ busy \in 0..MaxRound
    BY <2>2, <2>4, ConstantTypes DEF InTime
  <2>6. x.pc = "sleep" => slept = x.slept + 1
    OBVIOUS
  <2>7. x.pc # "sleep" => busy = x.busy + 1
    OBVIOUS
  <2> HIDE DEF since, slept, busy
  <2>8. y \in Task /\ y.pc = x.pc /\ y.slept = slept /\ y.busy = busy
    BY <2>1, <2>3, <2>5 DEF Task
  <2> HIDE DEF y
  <2>9. Elapsed(y) = Elapsed(x) + 1
    BY <2>2, <2>6, <2>7, <2>8, ConstantTypes DEF Elapsed
  <2> QED
    BY <2>7, <2>8, <2>9 DEF y
<1> QED
  BY <1>2, <1>3

\* An entry a second later: what has been said of it still holds.
LEMMA OlderEntry ==
    ASSUME NEW e \in Entry, NEW a \in Addrs
    PROVE  /\ Older(e, a) \in Entry /\ Older(e, a) # None
           /\ Older(e, a).unlisted <= e.unlisted + 1
           /\ Recent(e) => Recent(Older(e, a))
<1> DEFINE age == Sooner(e.age, Period)
           u == IF table[e.owner] = a THEN 0 ELSE Sooner(e.unlisted, Stale)
           f == Older(e, a)
<1>1. e # None /\ e.age \in 0..Period /\ e.unlisted \in 0..Stale
  BY SyncNoneAssumption DEF Entry
<1>2. f = [e EXCEPT !.age = age, !.unlisted = u]
  BY <1>1 DEF Older
<1>3. age \in 0..Period /\ (age < Period => age = e.age + 1)
  BY <1>1, ConstantTypes DEF Sooner
<1>4. u \in 0..Stale /\ u <= e.unlisted + 1
  BY <1>1, ConstantTypes DEF Sooner
<1> HIDE DEF age, u, f
<1>5. f \in Entry /\ f.age = age /\ f.unlisted = u
  BY <1>2, <1>3, <1>4 DEF Entry
<1>6. Recent(e) => Recent(f)
  <2>1. e.age \in Nat /\ e.unlisted \in Nat /\ age \in Nat /\ u \in Nat
    BY <1>1, <1>3, <1>4, ConstantTypes
  <2> QED
    BY <1>3, <1>4, <1>5, <2>1, ConstantTypes DEF Recent
<1> QED
  BY <1>4, <1>5, <1>6, SyncNoneAssumption DEF f

LEMMA KeepsTick == ASSUME SyncInv, Tick PROVE SyncInv'
<1>1. /\ task' = [c \in Watched |-> Aged(task[c])]
      /\ containerIf' = [c \in Watched |-> [a \in Addrs |-> Older(containerIf[c][a], a)]]
      /\ known' = [c \in Watched |-> [a \in Addrs |-> Older(known[c][a], a)]]
      /\ UNCHANGED <<addr, table, posts, failures>>
  BY DEF Tick
<1>2. \A c \in Watched : task[c] # None => InTime(task[c])
  BY DEF Tick
<1>3. \A a \in Addrs : Older(None, a) = None
  BY DEF Older
<1>4. TypeOK'
  <2>1. task' \in [Watched -> Task \cup {None}]
    <3>1. ASSUME NEW c \in Watched PROVE Aged(task[c]) \in Task \cup {None}
      <4>1. CASE task[c] = None
        BY <4>1 DEF Aged
      <4>2. CASE task[c] # None
        BY <1>2, <4>2, AgedTask DEF SyncInv, TypeOK
      <4> QED
        BY <4>1, <4>2
    <3> QED
      BY <1>1, <3>1
  <2>2. \A e \in Entry \cup {None}, a \in Addrs : Older(e, a) \in Entry \cup {None}
    BY <1>3, OlderEntry
  <2>3. /\ known' \in [Watched -> [Addrs -> Entry \cup {None}]]
        /\ containerIf' \in [Watched -> [Addrs -> Entry \cup {None}]]
    BY <1>1, <2>2 DEF SyncInv, TypeOK
  <2> QED
    BY <1>1, <2>1, <2>3 DEF SyncInv, TypeOK
<1>5. ASSUME NEW d \in Watched PROVE MapInTime(task'[d], addr'[d], known'[d], containerIf'[d])
  <2> DEFINE x == task[d]
             y == Aged(x)
             m == known[d]
             n == containerIf[d]
  <2>1. MapInTime(x, addr[d], m, n)
    BY DEF SyncInv, MapsInTime
  <2>2. /\ task'[d] = y /\ addr'[d] = addr[d]
        /\ \A a \in Addrs :
              known'[d][a] = Older(m[a], a) /\ containerIf'[d][a] = Older(n[a], a)
    BY <1>1
  <2>3. \A a \in Addrs : m[a] \in Entry \cup {None} /\ n[a] \in Entry \cup {None}
    BY DEF SyncInv, TypeOK
  <2> HIDE DEF m, n
  <2>4. (Empty(m) => Empty(known'[d])) /\ (Empty(n) => Empty(containerIf'[d]))
    BY <1>3, <2>2 DEF Empty
  <2>5. CASE x = None
    <3>1. y = None
      BY <2>5 DEF Aged
    <3> HIDE DEF x, y
    <3> QED
      BY <2>1, <2>2, <2>4, <2>5, <3>1 DEF MapInTime
  <2>6. CASE x # None
    <3>1. x \in Task /\ InTime(x)
      BY <1>2, <2>6 DEF SyncInv, TypeOK
    <3>2. /\ y \in Task /\ y.pc = x.pc /\ y # None
          /\ x.pc \notin {"ping", "ended"} => Elapsed(y) = Elapsed(x) + 1
          /\ x.pc = "resolve" => y.busy = x.busy + 1
      BY <3>1, AgedTask, SyncNoneAssumption
    <3>3. addr[d] # None
      BY <2>1, <2>6 DEF MapInTime
    <3>4. x.busy \in Nat /\ (x.pc \notin {"ping", "ended"} => Elapsed(x) \in Nat)
      BY <3>1, ConstantTypes DEF Task, Elapsed
    <3> HIDE DEF x, y
    <3>5. ASSUME y.pc # "ended", NEW a \in Addrs, known'[d][a] # None
          PROVE  KnownInTime(y, known'[d][a])
      <4> DEFINE e == m[a]
                 f == Older(e, a)
      <4>1. e # None /\ e \in Entry /\ known'[d][a] = f
        BY <1>3, <2>2, <2>3, <3>5
      <4>2. y.pc # "ping" /\ KnownInTime(x, e)
        BY <2>1, <2>4, <2>6, <3>2, <3>5, <4>1 DEF MapInTime, Empty
      <4>3. f \in Entry /\ f.unlisted <= e.unlisted + 1 /\ Recent(f)
        BY <4>1, <4>2, OlderEntry DEF KnownInTime
      <4>4. e.unlisted \in Nat /\ f.unlisted \in Nat
        BY <4>1, <4>3, ConstantTypes DEF Entry
      <4> HIDE DEF e, f
      <4> QED
        BY <3>2, <3>4, <3>5, <4>1, <4>2, <4>3, <4>4, ConstantTypes DEF KnownInTime
    <3>6. ASSUME y.pc = "resolve", NEW a \in Addrs, containerIf'[d][a] # None
          PROVE  BuiltInTime(y, containerIf'[d][a])
      <4> DEFINE e == n[a]
                 f == Older(e, a)
      <4>1. e # None /\ e \in Entry /\ containerIf'[d][a] = f
        BY <1>3, <2>2, <2>3, <3>6
      <4>2. BuiltInTime(x, e)
        BY <2>1, <2>6, <3>2, <3>6, <4>1 DEF MapInTime
      <4>3. f \in Entry /\ f.unlisted <= e.unlisted + 1 /\ Recent(f)
        BY <4>1, <4>2, OlderEntry DEF BuiltInTime
      <4>4. e.unlisted \in Nat /\ f.unlisted \in Nat
        BY <4>1, <4>3, ConstantTypes DEF Entry
      <4> HIDE DEF e, f
      <4> QED
        BY <3>2, <3>4, <3>6, <4>1, <4>2, <4>3, <4>4, ConstantTypes DEF BuiltInTime
    <3> QED
      BY <2>1, <2>2, <2>4, <2>6, <3>2, <3>3, <3>5, <3>6 DEF MapInTime
  <2> QED
    BY <2>5, <2>6
<1> QED
  BY <1>4, <1>5 DEF SyncInv, MapsInTime

-----------------------------------------------------------------------------
(* The theorems *)

LEMMA SyncStep == SyncInv /\ [Next]_vars => SyncInv'
<1> SUFFICES ASSUME SyncInv, [Next]_vars PROVE SyncInv'
  OBVIOUS
<1>1. CASE UNCHANGED vars
  BY <1>1, DaemonMoves DEF vars, maps, SyncInv, TypeOK
<1>2. ASSUME NEW c \in Conts,
             Start(c) \/ Stop(c) \/ DeleteInterface(c) \/ PostOfOther(c) \/ PostInterface(c)
      PROVE  SyncInv'
  BY <1>2, KeepsStart, KeepsStop, KeepsDaemon
<1>3. ASSUME NEW c \in Watched, TaskStep(c) PROVE SyncInv'
  BY <1>3, KeepsRound, KeepsResolve, KeepsSwap DEF TaskStep
<1> QED
  BY <1>1, <1>2, <1>3, KeepsRestart, KeepsTick DEF Next

LEMMA SyncInvariant == Safety => []SyncInv
BY SyncInit, SyncStep, PTL DEF Safety

\* A map has entries of addresses only, and its ages, the clocks of a task and
\* the books of the daemon keep to their bounds, whatever fails and restarts
\* (startBackgroundC2CConnectionHandleTask, DeleteInterface, PostInterface).
THEOREM TypeCorrect == Safety => []TypeOK
<1>1. SyncInv => TypeOK
  BY DEF SyncInv
<1> QED
  BY <1>1, SyncInvariant, PTL

\* What the daemon lists no more leaves the map of a handler whose task goes on
\* before Stale seconds (startBackgroundC2CConnectionHandleTask: ten, a pause
\* and what three rounds take), whatever fails and whoever has its address then.
THEOREM StaleEntriesAlwaysGo == Safety => []StaleEntriesGo
<1>1. SyncInv => StaleEntriesGo
  <2> SUFFICES ASSUME SyncInv, NEW c \in Watched, NEW a \in Addrs, Runs(c), known[c][a] # None
               PROVE  known[c][a].unlisted < Stale
    BY DEF StaleEntriesGo
  <2>1. task[c] \in Task /\ task[c] # None /\ task[c].pc # "ended"
    BY DEF Runs, SyncInv, TypeOK
  <2>2. KnownInTime(task[c], known[c][a])
    BY <2>1 DEF SyncInv, MapsInTime, MapInTime
  <2>3. known[c][a].unlisted \in Nat
    BY ConstantTypes DEF SyncInv, TypeOK, Entry
  <2>4. Elapsed(task[c]) \in Nat /\ Elapsed(task[c]) <= 1 + Drift + MaxRound
    BY <2>1, ConstantTypes DEF Elapsed, Task
  <2> QED
    BY <2>2, <2>3, <2>4, ConstantTypes DEF KnownInTime
<1> QED
  BY <1>1, SyncInvariant, PTL
=============================================================================
