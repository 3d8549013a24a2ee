----------------------------- MODULE LeasesProofs -----------------------------
(***************************************************************************)
(* For any number of containers, addresses and ports, any failures of etcd *)
(* and calls that take any time up to their time-out: a registered key     *)
(* stays in etcd as long as the rounds are prompt, and no key outlives its *)
(* container's stop by more than a lease.                                  *)
(***************************************************************************)
EXTENDS Leases, TLAPS

\* The seconds that may have gone by since port p was granted its lease.
Spent(x, p) ==
    IF x.pc = "sleep" THEN x.last + x.idle
    ELSE IF p \in x.todo THEN x.last + MaxIdle + x.busy
    ELSE x.busy

\* A key that names c, and has what n seconds leave of a lease.
Alive(c, v, n) == v # None /\ v.host = c /\ TTL <= v.left + n

\* What a task relies on: its address, the lease it has been granted, the key
\* it has just put and those it registered before.
Book(c, x, a, vals, sp) ==
    x # None =>
      /\ a # None
      /\ x.stored => x.pc = "put"
      /\ x.pc \in {"grant", "put"} => x.port \in x.todo
      /\ x.lease > 0 => x.pc \in {"grant", "put"} /\ TTL <= x.lease + x.busy
      /\ x.stored /\ <<a, x.port>> \notin sp /\ x.busy < TTL =>
            Alive(c, vals[<<a, x.port>>], x.busy)
      /\ x.pc # "ended" =>
            \A p \in x.registered : <<a, p>> \notin sp /\ Spent(x, p) < TTL =>
               Alive(c, vals[<<a, p>>], Spent(x, p))

Books == \A c \in Conts : Book(c, task[c], addr[c], etcd, spoilt)

OneHolder == \A c, d \in Conts : c # d /\ addr[c] # None => addr[c] # addr[d]

\* A key of a container that has not its address, and a Put that would make
\* one, were granted their lease before the container was stopped.
KeysAge ==
    \A k \in Addrs \X Ports :
        etcd[k] # None /\ addr[etcd[k].host] # k[1] =>
            etcd[k].left + stopped[etcd[k].host] <= TTL
LateAge == \A r \in late : addr[r.host] # r.addr => r.left + stopped[r.host] <= TTL

LeasesInv == TypeOK /\ OneHolder /\ Books /\ KeysAge /\ LateAge

-----------------------------------------------------------------------------
(* What a step of one task leaves *)

LEMMA UnservedRequest ==
    ASSUME LeasesInv, NEW c \in Conts, NEW r \in Unserved(c)
    PROVE  /\ r \in Request /\ r.host = c /\ r.addr = addr[c] /\ addr[c] \in Addrs
           /\ task[c].port \in Ports /\ r.left = task[c].lease
           /\ task[c].lease \in 1..TTL /\ task[c].pc = "put" /\ task[c] # None
<1>1. /\ task[c] # None /\ task[c].pc = "put" /\ task[c].lease > 0
      /\ r = [host |-> c, addr |-> addr[c], port |-> task[c].port, left |-> task[c].lease]
  BY DEF Unserved, At
<1>2. task[c] \in Task /\ Book(c, task[c], addr[c], etcd, spoilt)
  BY <1>1 DEF LeasesInv, TypeOK, Books
<1>3. addr[c] # None /\ task[c].port \in task[c].todo
  BY <1>1, <1>2 DEF Book
<1>4. addr[c] \in Addrs
  BY <1>3 DEF LeasesInv, TypeOK
<1>5. task[c].port \in Ports
  BY <1>2, <1>3 DEF Task
<1>6. task[c].lease \in 1..TTL
  <2>1. task[c].lease \in 0..TTL
    BY <1>2 DEF Task
  <2> QED
    BY <1>1, <2>1, LeasesAssumption
<1> QED
  BY <1>1, <1>4, <1>5, <1>6 DEF Request

\* The task of c becomes y, which its keys bear out.
LEMMA TaskMoves ==
    ASSUME LeasesInv, NEW c \in Conts, NEW y \in Task,
           task' = [task EXCEPT ![c] = y], UNCHANGED <<addr, etcd, spoilt, stopped>>,
           late' \subseteq late \cup Unserved(c),
           failures' \in 0..MaxFailures, Book(c, y, addr[c], etcd, spoilt)
    PROVE  LeasesInv'
<1>1. TypeOK'
  <2>1. task' \in [Conts -> Task \cup {None}]
    BY DEF LeasesInv, TypeOK
  <2>2. late' \subseteq Request
    BY UnservedRequest DEF LeasesInv, TypeOK
  <2> QED
    BY <2>1, <2>2 DEF LeasesInv, TypeOK
<1>2. OneHolder'
  BY DEF LeasesInv, OneHolder
<1>3. ASSUME NEW d \in Conts PROVE Book(d, task'[d], addr'[d], etcd', spoilt')
  <2>1. task'[d] = IF d = c THEN y ELSE task[d]
    BY DEF LeasesInv, TypeOK
  <2>2. Book(d, task[d], addr[d], etcd, spoilt)
    BY DEF LeasesInv, Books
  <2> QED
    BY <2>1, <2>2
<1>4. KeysAge'
  BY DEF LeasesInv, KeysAge
<1>5. LateAge'
  <2> SUFFICES ASSUME NEW r \in late', addr'[r.host] # r.addr
               PROVE  r.left + stopped'[r.host] <= TTL
    BY DEF LateAge
  <2>1. CASE r \in late
    BY <2>1 DEF LeasesInv, LateAge
  <2>2. CASE r \in Unserved(c)
    BY <2>2, UnservedRequest
  <2> QED
    BY <2>1, <2>2
<1> QED
  BY <1>1, <1>2, <1>3, <1>4, <1>5 DEF LeasesInv, Books

\* The same for most steps, which leave all but the task.
LEMMA TaskSteps ==
    ASSUME LeasesInv, NEW c \in Conts, NEW y \in Task,
           task' = [task EXCEPT ![c] = y], UNCHANGED <<addr, keys, stopped, failures>>,
           Book(c, y, addr[c], etcd, spoilt)
    PROVE  LeasesInv'
<1>1. UNCHANGED <<addr, etcd, spoilt, stopped>> /\ late' \subseteq late \cup Unserved(c)
  BY DEF keys
<1>2. failures' \in 0..MaxFailures
  BY DEF LeasesInv, TypeOK
<1> QED
  BY <1>1, <1>2, TaskMoves

LEMMA FailsInRange == ASSUME LeasesInv, Fails PROVE failures' \in 0..MaxFailures
BY LeasesAssumption DEF Fails, LeasesInv, TypeOK

\* A task that runs has its type and its book.
LEMMA TaskFacts ==
    ASSUME LeasesInv, NEW c \in Conts, task[c] # None
    PROVE  /\ task[c] \in Task /\ Book(c, task[c], addr[c], etcd, spoilt)
           /\ addr[c] # None /\ addr[c] \in Addrs
<1>1. task[c] \in Task /\ Book(c, task[c], addr[c], etcd, spoilt)
  BY DEF LeasesInv, TypeOK, Books
<1>2. addr[c] # None
  BY <1>1 DEF Book
<1> QED
  BY <1>1, <1>2 DEF LeasesInv, TypeOK

-----------------------------------------------------------------------------
(* Every action preserves the invariant *)

LEMMA LeasesInit == Init => LeasesInv
<1> SUFFICES ASSUME Init PROVE LeasesInv
  OBVIOUS
<1>1. failures \in 0..MaxFailures /\ TTL \in 0..TTL
  BY LeasesAssumption DEF Init
<1>2. TypeOK
  BY <1>1 DEF Init, TypeOK
<1> QED
  BY <1>2, LeasesAssumption DEF Init, LeasesInv, OneHolder, Books, Book, KeysAge, LateAge

LEMMA KeepsStart ==
    ASSUME LeasesInv, NEW c \in Conts, Start(c) PROVE LeasesInv'
<1> DEFINE y == [pc |-> "sleep", todo |-> {}, port |-> None, waited |-> 0, lease |-> 0,
                 stored |-> FALSE, registered |-> {}, idle |-> Period + 1, busy |-> 0,
                 last |-> 0, ready |-> FALSE]
<1>1. y \in Task
  BY LeasesAssumption DEF Task, MaxIdle
<1>2. task' = [task EXCEPT ![c] = y] /\ UNCHANGED <<etcd, late, spoilt, stopped, failures>>
  BY DEF Start, keys
<1>3. y.pc = "sleep" /\ y.registered = {} /\ y.stored = FALSE /\ ~(y.lease > 0)
  OBVIOUS
<1> HIDE DEF y
<1>4. PICK a \in Subnet[c] : (\A d \in Conts : addr[d] # a) /\ addr' = [addr EXCEPT ![c] = a]
  BY DEF Start
<1>5. a \in Addrs /\ a # None /\ addr[c] = None
  BY <1>4, LeasesAssumption DEF Start
<1>6. TypeOK'
  <2>1. addr' \in [Conts -> Addrs \cup {None}]
    BY <1>4, <1>5 DEF LeasesInv, TypeOK
  <2>2. task' \in [Conts -> Task \cup {None}]
    BY <1>1, <1>2 DEF LeasesInv, TypeOK
  <2> QED
    BY <1>2, <2>1, <2>2 DEF LeasesInv, TypeOK
<1>7. OneHolder'
  BY <1>4, <1>5 DEF LeasesInv, TypeOK, OneHolder
<1>8. ASSUME NEW d \in Conts PROVE Book(d, task'[d], addr'[d], etcd', spoilt')
  <2>1. CASE d = c
    <3>1. task'[d] = y /\ addr'[d] = a
      BY <1>2, <1>4, <2>1 DEF LeasesInv, TypeOK
    <3> QED
      BY <1>3, <1>5, <3>1 DEF Book
  <2>2. CASE d # c
    BY <1>2, <1>4, <2>2 DEF LeasesInv, TypeOK, Books
  <2> QED
    BY <2>1, <2>2
\* What names c has named it since before its stop, or is its own now.
<1>9. ASSUME NEW d \in Conts, NEW b \in Addrs, addr'[d] # b PROVE addr[d] # b
  BY <1>4, <1>5, <1>9, LeasesAssumption DEF LeasesInv, TypeOK
<1>10. KeysAge'
  <2> SUFFICES ASSUME NEW k \in Addrs \X Ports, etcd[k] # None, addr'[etcd[k].host] # k[1]
               PROVE  etcd[k].left + stopped[etcd[k].host] <= TTL
    BY <1>2 DEF KeysAge
  <2>1. etcd[k].host \in Conts /\ k[1] \in Addrs
    BY DEF LeasesInv, TypeOK, Value
  <2> QED
    BY <1>9, <2>1 DEF LeasesInv, KeysAge
<1>11. LateAge'
  BY <1>2, <1>9 DEF LeasesInv, TypeOK, LateAge, Request
<1> QED
  BY <1>6, <1>7, <1>8, <1>10, <1>11 DEF LeasesInv, Books

LEMMA KeepsStop ==
    ASSUME LeasesInv, NEW c \in Conts, Stop(c) PROVE LeasesInv'
<1>1. /\ addr' = [addr EXCEPT ![c] = None] /\ task' = [task EXCEPT ![c] = None]
      /\ stopped' = [stopped EXCEPT ![c] = 0] /\ UNCHANGED <<etcd, spoilt>>
      /\ late' \subseteq late \cup Unserved(c)
  BY DEF Stop
<1>2. failures' \in 0..MaxFailures
  BY FailsInRange DEF Stop, LeasesInv, TypeOK
<1>3. TypeOK'
  <2>1. /\ addr' \in [Conts -> Addrs \cup {None}] /\ task' \in [Conts -> Task \cup {None}]
        /\ stopped' \in [Conts -> 0..TTL]
    BY <1>1, LeasesAssumption DEF LeasesInv, TypeOK
  <2>2. late' \subseteq Request
    BY <1>1, UnservedRequest DEF LeasesInv, TypeOK
  <2> QED
    BY <1>1, <1>2, <2>1, <2>2 DEF LeasesInv, TypeOK
<1>4. OneHolder'
  BY <1>1 DEF LeasesInv, TypeOK, OneHolder
<1>5. ASSUME NEW d \in Conts PROVE Book(d, task'[d], addr'[d], etcd', spoilt')
  <2>1. CASE d = c
    BY <1>1, <2>1 DEF LeasesInv, TypeOK, Book
  <2>2. CASE d # c
    BY <1>1, <2>2 DEF LeasesInv, TypeOK, Books
  <2> QED
    BY <2>1, <2>2
<1>6. KeysAge'
  <2> SUFFICES ASSUME NEW k \in Addrs \X Ports, etcd[k] # None, addr'[etcd[k].host] # k[1]
               PROVE  etcd[k].left + stopped'[etcd[k].host] <= TTL
    BY <1>1 DEF KeysAge
  <2>1. etcd[k].host \in Conts /\ etcd[k].left \in 1..TTL
    BY DEF LeasesInv, TypeOK, Value
  <2>2. CASE etcd[k].host = c
    <3>1. stopped'[c] = 0
      BY <1>1 DEF LeasesInv, TypeOK
    <3> QED
      BY <2>1, <2>2, <3>1, LeasesAssumption
  <2>3. CASE etcd[k].host # c
    BY <1>1, <2>1, <2>3 DEF LeasesInv, TypeOK, KeysAge
  <2> QED
    BY <2>2, <2>3
<1>7. LateAge'
  <2> SUFFICES ASSUME NEW r \in late', addr'[r.host] # r.addr
               PROVE  r.left + stopped'[r.host] <= TTL
    BY DEF LateAge
  <2>1. r \in Request /\ (r \in late \/ r.host = c)
    BY <1>1, UnservedRequest DEF LeasesInv, TypeOK
  <2>2. r.host \in Conts /\ r.left \in 1..TTL
    BY <2>1 DEF Request
  <2>3. CASE r.host = c
    <3>1. stopped'[c] = 0
      BY <1>1 DEF LeasesInv, TypeOK
    <3> QED
      BY <2>2, <2>3, <3>1, LeasesAssumption
  <2>4. CASE r.host # c
    BY <1>1, <2>1, <2>2, <2>4 DEF LeasesInv, TypeOK, LateAge
  <2> QED
    BY <2>3, <2>4
<1> QED
  BY <1>3, <1>4, <1>5, <1>6, <1>7 DEF LeasesInv, Books

LEMMA KeepsWake ==
    ASSUME LeasesInv, NEW c \in Conts, Wake(c) PROVE LeasesInv'
<1>1. task[c] # None /\ task[c].pc = "sleep"
  BY DEF Wake, Due, At
<1>2. task[c] \in Task /\ Book(c, task[c], addr[c], etcd, spoilt)
  BY <1>1, TaskFacts
<1> DEFINE x == task[c]
           y == [x EXCEPT !.pc = "round", !.todo = Ports, !.idle = 0]
<1>3. task' = [task EXCEPT ![c] = y] /\ UNCHANGED <<addr, keys, stopped, failures>>
  BY DEF Wake, RenewedPorts, LeasesInv, TypeOK
<1>4. 0 \in 0..MaxIdle
  BY LeasesAssumption DEF MaxIdle
<1>5. y \in Task
  BY <1>2, <1>4 DEF Task
<1>6. /\ y.pc = "round" /\ y.todo = Ports /\ y.busy = x.busy /\ y.last = x.last
      /\ y.registered = x.registered /\ y.registered \subseteq Ports /\ y.stored = x.stored
      /\ y.lease = x.lease /\ x.busy \in Nat /\ x.last \in Nat /\ x.idle \in 0..MaxIdle
  BY <1>2 DEF Task
<1> HIDE DEF x, y
<1>7. ASSUME NEW p \in y.registered, Spent(y, p) < TTL, <<addr[c], p>> \notin spoilt
      PROVE  Alive(c, etcd[<<addr[c], p>>], Spent(y, p))
  <2> DEFINE v == etcd[<<addr[c], p>>]
  <2>1. Spent(x, p) = x.last + x.idle /\ Spent(y, p) = x.last + MaxIdle + x.busy
    BY <1>1, <1>6, <1>7 DEF Spent, x
  <2>2. MaxIdle \in Nat /\ x.idle \in Nat /\ x.idle <= MaxIdle
    BY <1>6, LeasesAssumption DEF MaxIdle
  <2>3. /\ Spent(x, p) \in Nat /\ Spent(y, p) \in Nat /\ Spent(x, p) <= Spent(y, p)
        /\ Spent(x, p) < TTL
    BY <1>6, <1>7, <2>1, <2>2, LeasesAssumption
  <2>4. Alive(c, v, Spent(x, p))
    BY <1>1, <1>2, <1>6, <1>7, <2>3 DEF Book, x
  <2>5. v \in Value
    BY <1>1, <1>6, <1>7, <2>4, TaskFacts DEF Alive, LeasesInv, TypeOK
  <2>6. v.left \in Nat
    BY <2>5, LeasesAssumption DEF Value
  <2> HIDE DEF v
  <2>7. TTL <= v.left + Spent(y, p)
    BY <2>3, <2>4, <2>6, LeasesAssumption DEF Alive
  <2> QED
    BY <2>4, <2>7 DEF Alive, v
<1>8. Book(c, y, addr[c], etcd, spoilt)
  BY <1>1, <1>2, <1>6, <1>7 DEF Book, x
<1> QED
  BY <1>3, <1>5, <1>8, TaskSteps

LEMMA KeepsAddressesUnknown ==
    ASSUME LeasesInv, NEW c \in Conts, AddressesUnknown(c) PROVE LeasesInv'
<1>1. task[c] # None /\ task[c].pc = "sleep"
  BY DEF AddressesUnknown, Due, At
<1>2. task[c] \in Task /\ Book(c, task[c], addr[c], etcd, spoilt)
  BY <1>1, TaskFacts
<1> DEFINE y == [task[c] EXCEPT !.pc = "ended"]
<1>3. task' = [task EXCEPT ![c] = y] /\ UNCHANGED <<addr, keys, stopped, failures>>
  BY DEF AddressesUnknown, LeasesInv, TypeOK
<1>4. y \in Task
  BY <1>2 DEF Task
<1>5. /\ y.pc = "ended" /\ y.stored = task[c].stored /\ y.lease = task[c].lease
      /\ task[c].lease \in 0..TTL
  BY <1>2 DEF Task
<1> HIDE DEF y
<1>6. Book(c, y, addr[c], etcd, spoilt)
  BY <1>1, <1>2, <1>5 DEF Book
<1> QED
  BY <1>3, <1>4, <1>6, TaskSteps

LEMMA KeepsGrant ==
    ASSUME LeasesInv, NEW c \in Conts, NEW p \in Ports, Grant(c, p) PROVE LeasesInv'
<1>1. task[c] # None /\ task[c].pc = "round" /\ p \in task[c].todo
  BY DEF Grant, At
<1>2. task[c] \in Task /\ Book(c, task[c], addr[c], etcd, spoilt)
  BY <1>1, TaskFacts
<1> DEFINE x == task[c]
           y == [x EXCEPT !.pc = "grant", !.port = p]
<1>3. task' = [task EXCEPT ![c] = y] /\ UNCHANGED <<addr, keys, stopped, failures>>
  BY DEF Grant, LeasesInv, TypeOK
<1>4. y \in Task
  BY <1>2 DEF Task
<1>5. /\ y.pc = "grant" /\ y.port = p /\ y.todo = x.todo /\ y.busy = x.busy
      /\ y.last = x.last /\ y.registered = x.registered /\ y.stored = x.stored
      /\ y.lease = x.lease
  BY <1>2 DEF Task
<1>6. ~x.stored /\ ~(x.lease > 0)
  BY <1>1, <1>2 DEF Book
<1> HIDE DEF y
<1>7. \A q : Spent(y, q) = Spent(x, q)
  BY <1>1, <1>5 DEF Spent
<1>8. Book(c, y, addr[c], etcd, spoilt)
  BY <1>1, <1>2, <1>5, <1>6, <1>7 DEF Book
<1> QED
  BY <1>3, <1>4, <1>8, TaskSteps

LEMMA KeepsGrantServed ==
    ASSUME LeasesInv, NEW c \in Conts, GrantServed(c) PROVE LeasesInv'
<1>1. task[c] # None /\ task[c].pc = "grant"
  BY DEF GrantServed, At
<1>2. task[c] \in Task /\ Book(c, task[c], addr[c], etcd, spoilt)
  BY <1>1, TaskFacts
<1> DEFINE x == task[c]
           y == [x EXCEPT !.lease = TTL]
<1>3. task' = [task EXCEPT ![c] = y] /\ UNCHANGED <<addr, keys, stopped, failures>>
  BY DEF GrantServed, Granted, LeasesInv, TypeOK
<1>4. TTL \in 0..TTL
  BY LeasesAssumption
<1>5. y \in Task
  BY <1>2, <1>4 DEF Task
<1>6. /\ y.pc = "grant" /\ y.port = x.port /\ y.todo = x.todo /\ y.busy = x.busy
      /\ y.last = x.last /\ y.registered = x.registered /\ y.stored = x.stored
      /\ y.lease = TTL /\ x.busy \in Nat
  BY <1>1, <1>2 DEF Task
<1>7. TTL <= y.lease + y.busy
  BY <1>6, LeasesAssumption
<1> HIDE DEF y
<1>8. \A q : Spent(y, q) = Spent(x, q)
  BY <1>1, <1>6 DEF Spent
<1>9. Book(c, y, addr[c], etcd, spoilt)
  BY <1>1, <1>2, <1>6, <1>7, <1>8 DEF Book
<1> QED
  BY <1>3, <1>5, <1>9, TaskSteps

LEMMA KeepsPut ==
    ASSUME LeasesInv, NEW c \in Conts, Put(c) PROVE LeasesInv'
<1>1. task[c] # None /\ task[c].pc = "grant" /\ task[c].lease > 0
  BY DEF Put, At
<1>2. task[c] \in Task /\ Book(c, task[c], addr[c], etcd, spoilt)
  BY <1>1, TaskFacts
<1> DEFINE x == task[c]
           y == [x EXCEPT !.pc = "put", !.waited = 0]
<1>3. task' = [task EXCEPT ![c] = y] /\ UNCHANGED <<addr, keys, stopped, failures>>
  BY DEF Put, LeasesInv, TypeOK
<1>4. 0 \in 0..CallTimeout
  BY LeasesAssumption
<1>5. y \in Task
  BY <1>2, <1>4 DEF Task
<1>6. /\ y.pc = "put" /\ y.port = x.port /\ y.todo = x.todo /\ y.busy = x.busy
      /\ y.last = x.last /\ y.registered = x.registered /\ y.stored = x.stored
      /\ y.lease = x.lease
  BY <1>1, <1>2 DEF Task
<1>7. ~x.stored
  BY <1>1, <1>2 DEF Book
<1> HIDE DEF y
<1>8. \A q : Spent(y, q) = Spent(x, q)
  BY <1>1, <1>6 DEF Spent
<1>9. Book(c, y, addr[c], etcd, spoilt)
  BY <1>1, <1>2, <1>6, <1>7, <1>8 DEF Book
<1> QED
  BY <1>3, <1>5, <1>9, TaskSteps

\* A port that is passed is due no more, and registered if its key was put.
LEMMA PassedBook ==
    ASSUME LeasesInv, NEW c \in Conts, task[c] # None, task[c].pc \in {"grant", "put"},
           NEW renewed, renewed \subseteq {task[c].port},
           renewed = {} \/ task[c].stored
    PROVE  /\ Passed(task[c], renewed) \in Task
           /\ Book(c, Passed(task[c], renewed), addr[c], etcd, spoilt)
<1> DEFINE x == task[c]
           y == Passed(x, renewed)
<1>1. x \in Task /\ Book(c, x, addr[c], etcd, spoilt)
  BY TaskFacts
<1>2. x.port \in x.todo
  BY <1>1 DEF Book
<1>3. renewed \subseteq Ports
  BY <1>1, <1>2 DEF Task
<1>4. 0 \in 0..TTL /\ 0 \in 0..CallTimeout
  BY LeasesAssumption
<1>5. y \in Task
  BY <1>1, <1>3, <1>4 DEF Task, Passed
<1>6. /\ y.pc = "round" /\ y.todo = x.todo \ {x.port} /\ y.busy = x.busy
      /\ y.last = x.last /\ y.registered = (x.registered \ {x.port}) \cup renewed
      /\ y.stored = FALSE /\ y.lease = 0
  BY <1>1 DEF Task, Passed
<1> HIDE DEF x, y
<1>7. ASSUME NEW p \in y.registered, Spent(y, p) < TTL, <<addr[c], p>> \notin spoilt
      PROVE  Alive(c, etcd[<<addr[c], p>>], Spent(y, p))
  <2>1. CASE p \in x.registered \ {x.port}
    <3>1. Spent(y, p) = Spent(x, p)
      BY <1>6, <2>1 DEF Spent, x
    <3> QED
      BY <1>1, <1>7, <2>1, <3>1 DEF Book, x
  <2>2. CASE p \in renewed
    <3>1. p = x.port /\ x.stored
      BY <2>2 DEF x
    <3>2. Spent(y, p) = x.busy
      BY <1>6, <3>1 DEF Spent
    <3> QED
      BY <1>1, <1>7, <3>1, <3>2 DEF Book, x
  <2> QED
    BY <1>6, <1>7, <2>1, <2>2
<1>8. Book(c, y, addr[c], etcd, spoilt)
  BY <1>1, <1>6, <1>7 DEF Book, x
<1> QED
  BY <1>5, <1>8 DEF x, y

LEMMA KeepsGrantFails ==
    ASSUME LeasesInv, NEW c \in Conts, GrantFails(c) PROVE LeasesInv'
<1>1. task[c] # None /\ task[c].pc = "grant"
  BY DEF GrantFails, At
<1>2. failures' \in 0..MaxFailures
  BY FailsInRange DEF GrantFails
<1>3. /\ task' = [task EXCEPT ![c] = Passed(task[c], {})]
      /\ UNCHANGED <<addr, etcd, spoilt, stopped>> /\ late' \subseteq late \cup Unserved(c)
  BY DEF GrantFails, keys
<1>4. Passed(task[c], {}) \in Task /\ Book(c, Passed(task[c], {}), addr[c], etcd, spoilt)
  BY <1>1, PassedBook
<1> QED
  BY <1>2, <1>3, <1>4, TaskMoves

LEMMA KeepsPutReturns ==
    ASSUME LeasesInv, NEW c \in Conts, PutReturns(c) PROVE LeasesInv'
<1> DEFINE y == Passed(task[c], {task[c].port})
<1>1. task[c] # None /\ task[c].pc = "put" /\ task[c].stored
  BY DEF PutReturns, At
<1>2. task' = [task EXCEPT ![c] = y] /\ UNCHANGED <<addr, keys, stopped, failures>>
  BY DEF PutReturns
<1>3. y \in Task /\ Book(c, y, addr[c], etcd, spoilt)
  BY <1>1, PassedBook
<1> QED
  BY <1>2, <1>3, TaskSteps

LEMMA KeepsPutFails ==
    ASSUME LeasesInv, NEW c \in Conts, PutFails(c) PROVE LeasesInv'
<1>1. task[c] # None /\ task[c].pc = "put"
  BY DEF PutFails, At
<1>2. failures' \in 0..MaxFailures
  BY FailsInRange DEF PutFails
<1>3. /\ task' = [task EXCEPT ![c] = Passed(task[c], {})]
      /\ UNCHANGED <<addr, etcd, spoilt, stopped>> /\ late' \subseteq late \cup Unserved(c)
  BY DEF PutFails
<1>4. Passed(task[c], {}) \in Task /\ Book(c, Passed(task[c], {}), addr[c], etcd, spoilt)
  BY <1>1, PassedBook
<1> QED
  BY <1>2, <1>3, <1>4, TaskMoves

LEMMA KeepsFinish ==
    ASSUME LeasesInv, NEW c \in Conts, Finish(c) PROVE LeasesInv'
<1>1. task[c] # None /\ task[c].pc = "round" /\ task[c].todo = {}
  BY DEF Finish, At
<1>2. task[c] \in Task /\ Book(c, task[c], addr[c], etcd, spoilt)
  BY <1>1, TaskFacts
<1> DEFINE x == task[c]
           y == [x EXCEPT !.pc = "sleep", !.last = x.busy, !.busy = 0, !.ready = TRUE]
<1>3. task' = [task EXCEPT ![c] = y] /\ UNCHANGED <<addr, keys, stopped, failures>>
  BY DEF Finish, LeasesInv, TypeOK
<1>4. y \in Task
  BY <1>2 DEF Task
<1>5. /\ y.pc = "sleep" /\ y.last = x.busy /\ y.idle = x.idle /\ y.registered = x.registered
      /\ y.registered \subseteq Ports /\ y.stored = x.stored /\ y.lease = x.lease
      /\ x.busy \in Nat /\ x.idle \in 0..MaxIdle
  BY <1>2 DEF Task
<1>6. ~x.stored /\ ~(x.lease > 0)
  BY <1>1, <1>2 DEF Book
<1> HIDE DEF x, y
<1>7. ASSUME NEW p \in y.registered, Spent(y, p) < TTL, <<addr[c], p>> \notin spoilt
      PROVE  Alive(c, etcd[<<addr[c], p>>], Spent(y, p))
  <2> DEFINE v == etcd[<<addr[c], p>>]
  <2>1. Spent(x, p) = x.busy /\ Spent(y, p) = x.busy + x.idle
    BY <1>1, <1>5, <1>7 DEF Spent, x
  <2>2. x.idle \in Nat
    BY <1>5, LeasesAssumption DEF MaxIdle
  <2>3. Spent(x, p) \in Nat /\ Spent(x, p) <= Spent(y, p) /\ Spent(y, p) \in Nat /\ Spent(x, p) < TTL
    BY <1>5, <1>7, <2>1, <2>2, LeasesAssumption
  <2>4. Alive(c, v, Spent(x, p))
    BY <1>1, <1>2, <1>5, <1>7, <2>3 DEF Book, x
  <2>5. v \in Value
    BY <1>1, <1>5, <1>7, <2>4, TaskFacts DEF Alive, LeasesInv, TypeOK
  <2>6. v.left \in Nat
    BY <2>5, LeasesAssumption DEF Value
  <2> HIDE DEF v
  <2>7. TTL <= v.left + Spent(y, p)
    BY <2>3, <2>4, <2>6, LeasesAssumption DEF Alive
  <2> QED
    BY <2>4, <2>7 DEF Alive, v
<1>8. Book(c, y, addr[c], etcd, spoilt)
  BY <1>1, <1>2, <1>5, <1>6, <1>7 DEF Book, x
<1> QED
  BY <1>3, <1>4, <1>8, TaskSteps

\* What happens to the keys of others, or to keys that are now spoilt, leaves the
\* book of d.
LEMMA BookStays ==
    ASSUME LeasesInv, NEW d \in Conts, NEW vals, NEW sp,
           \A p \in Ports : <<addr[d], p>> \notin sp =>
              <<addr[d], p>> \notin spoilt /\ vals[<<addr[d], p>>] = etcd[<<addr[d], p>>]
    PROVE  Book(d, task[d], addr[d], vals, sp)
<1> SUFFICES ASSUME task[d] # None PROVE Book(d, task[d], addr[d], vals, sp)
  BY DEF Book
<1> DEFINE x == task[d]
<1>1. x \in Task /\ Book(d, x, addr[d], etcd, spoilt)
  BY TaskFacts
<1>2. x.registered \subseteq Ports /\ x.todo \subseteq Ports
  BY <1>1 DEF Task
<1>3. x.stored => x.port \in Ports
  BY <1>1, <1>2 DEF Book
<1> HIDE DEF x
<1>4. Book(d, x, addr[d], vals, sp)
  BY <1>1, <1>2, <1>3 DEF Book
<1> QED
  BY <1>4 DEF x

LEMMA KeepsPutServed ==
    ASSUME LeasesInv, NEW c \in Conts, PutServed(c) PROVE LeasesInv'
<1> DEFINE x == task[c]
           y == [x EXCEPT !.stored = TRUE]
           v == [host |-> c, left |-> x.lease]
           k == <<addr[c], x.port>>
<1>1. PICK r : r \in Unserved(c)
  BY DEF PutServed
<1>2. /\ addr[c] \in Addrs /\ x.port \in Ports /\ x.lease \in 1..TTL /\ x.pc = "put"
      /\ x # None
  BY <1>1, UnservedRequest
<1>3. /\ task' = [task EXCEPT ![c] = y] /\ etcd' = [etcd EXCEPT ![k] = v]
      /\ spoilt' = spoilt \ {k} /\ UNCHANGED <<addr, late, stopped, failures>>
  BY DEF PutServed, Key, LeasesInv, TypeOK
<1>4. x \in Task /\ Book(c, x, addr[c], etcd, spoilt) /\ addr[c] # None
  BY <1>2, TaskFacts
<1>5. k \in Addrs \X Ports /\ v \in Value /\ v # None /\ v.host = c /\ v.left = x.lease
  BY <1>2, LeasesNoneAssumption DEF Value
<1>6. y \in Task
  BY <1>4 DEF Task
<1>7. /\ y.pc = "put" /\ y.port = x.port /\ y.todo = x.todo /\ y.busy = x.busy
      /\ y.last = x.last /\ y.registered = x.registered /\ y.stored = TRUE
      /\ y.lease = x.lease /\ x.busy \in Nat /\ x.last \in Nat /\ x.registered \subseteq Ports
  BY <1>2, <1>4 DEF Task
<1>8. x.port \in x.todo /\ TTL <= x.lease + x.busy
  BY <1>2, <1>4, LeasesAssumption DEF Book
<1>9. etcd'[k] = v /\ \A j \in Addrs \X Ports : j # k => etcd'[j] = etcd[j]
  BY <1>3, <1>5 DEF LeasesInv, TypeOK
<1>10. k[1] = addr[c] /\ \A p : <<addr[c], p>> = k <=> p = x.port
  OBVIOUS
<1>11. \A p : <<addr[c], p>> # k => (<<addr[c], p>> \in spoilt' <=> <<addr[c], p>> \in spoilt)
  BY <1>3
<1>12. TypeOK'
  <2>1. etcd' \in [Addrs \X Ports -> Value \cup {None}]
    BY <1>3, <1>5 DEF LeasesInv, TypeOK
  <2>2. task' \in [Conts -> Task \cup {None}]
    BY <1>3, <1>6 DEF LeasesInv, TypeOK
  <2>3. spoilt' \subseteq Addrs \X Ports
    BY <1>3 DEF LeasesInv, TypeOK
  <2> QED
    BY <1>3, <2>1, <2>2, <2>3 DEF LeasesInv, TypeOK
<1>13. OneHolder'
  BY <1>3 DEF LeasesInv, OneHolder
<1>14. Book(c, y, addr[c], etcd', spoilt')
  <2>1. Alive(c, etcd'[k], x.busy)
    BY <1>5, <1>8, <1>9 DEF Alive
  <2>2. ASSUME NEW p \in x.registered, Spent(y, p) < TTL, <<addr[c], p>> \notin spoilt'
        PROVE  Alive(c, etcd'[<<addr[c], p>>], Spent(y, p))
    <3>1. p \in Ports
      BY <1>7, <2>2
    <3>2. CASE p = x.port
      <4>1. Spent(y, p) = x.last + MaxIdle + x.busy
        BY <1>7, <1>8, <3>2 DEF Spent
      <4>2. TTL <= v.left + Spent(y, p)
        BY <1>2, <1>5, <1>7, <1>8, <4>1, LeasesAssumption DEF MaxIdle
      <4> QED
        BY <1>5, <1>9, <3>2, <4>2 DEF Alive
    <3>3. CASE p # x.port
      <4>1. Spent(y, p) = Spent(x, p)
        BY <1>2, <1>7 DEF Spent
      <4>2. <<addr[c], p>> # k /\ <<addr[c], p>> \in Addrs \X Ports
        BY <1>2, <3>1, <3>3
      <4>3. etcd'[<<addr[c], p>>] = etcd[<<addr[c], p>>] /\ <<addr[c], p>> \notin spoilt
        BY <1>9, <1>11, <2>2, <4>2
      <4>4. x.pc # "ended"
        BY <1>2
      <4> HIDE DEF x, y, k, v
      <4> QED
        BY <1>2, <1>4, <2>2, <4>1, <4>3, <4>4 DEF Book
    <3> QED
      BY <3>2, <3>3
  <2> HIDE DEF x, y, v
  <2> QED
    BY <1>4, <1>7, <1>8, <2>1, <2>2 DEF Book
<1> HIDE DEF y, v
<1>15. ASSUME NEW d \in Conts PROVE Book(d, task'[d], addr'[d], etcd', spoilt')
  <2>1. CASE d = c
    BY <1>3, <1>14, <2>1 DEF LeasesInv, TypeOK
  <2>2. CASE d # c
    <3>1. task'[d] = task[d] /\ addr'[d] = addr[d] /\ addr[d] # addr[c]
      BY <1>3, <1>4, <2>2 DEF LeasesInv, TypeOK, OneHolder
    <3>2. CASE task[d] = None
      BY <3>1, <3>2 DEF Book
    <3>3. CASE task[d] # None
      <4>1. ASSUME NEW p \in Ports, <<addr[d], p>> \notin spoilt'
            PROVE  /\ <<addr[d], p>> \notin spoilt
                   /\ etcd'[<<addr[d], p>>] = etcd[<<addr[d], p>>]
        <5>1. addr[d] \in Addrs /\ <<addr[d], p>> # k
          BY <3>1, <3>3, TaskFacts
        <5> QED
          BY <1>3, <1>9, <4>1, <5>1
      <4> QED
        BY <3>1, <4>1, BookStays
    <3> QED
      BY <3>2, <3>3
  <2> QED
    BY <2>1, <2>2
<1>16. KeysAge'
  <2> SUFFICES ASSUME NEW j \in Addrs \X Ports, etcd'[j] # None, addr[etcd'[j].host] # j[1]
               PROVE  etcd'[j].left + stopped[etcd'[j].host] <= TTL
    BY <1>3 DEF KeysAge
  <2>1. CASE j = k
    BY <1>5, <1>9, <1>10, <2>1
  <2>2. CASE j # k
    BY <1>9, <2>2 DEF LeasesInv, KeysAge
  <2> QED
    BY <2>1, <2>2
<1>17. LateAge'
  BY <1>3 DEF LeasesInv, LateAge
<1> QED
  BY <1>12, <1>13, <1>15, <1>16, <1>17 DEF LeasesInv, Books

LEMMA KeepsLatePut ==
    ASSUME LeasesInv, NEW r \in late, LatePut(r) PROVE LeasesInv'
<1> DEFINE v == [host |-> r.host, left |-> r.left]
           k == <<r.addr, r.port>>
<1>1. /\ late' \subseteq late /\ etcd' = [etcd EXCEPT ![k] = v] /\ spoilt' = spoilt \cup {k}
      /\ UNCHANGED <<addr, task, stopped, failures>>
  BY DEF LatePut
<1>2. r \in Request
  BY DEF LeasesInv, TypeOK
<1>3. k \in Addrs \X Ports /\ v \in Value /\ v.host = r.host /\ v.left = r.left /\ k[1] = r.addr
  BY <1>2 DEF Request, Value
<1>4. etcd'[k] = v /\ \A j \in Addrs \X Ports : j # k => etcd'[j] = etcd[j]
  BY <1>1, <1>3 DEF LeasesInv, TypeOK
<1>5. TypeOK'
  <2>1. etcd' \in [Addrs \X Ports -> Value \cup {None}]
    BY <1>1, <1>3 DEF LeasesInv, TypeOK
  <2>2. spoilt' \subseteq Addrs \X Ports /\ late' \subseteq Request
    BY <1>1, <1>3 DEF LeasesInv, TypeOK
  <2> QED
    BY <1>1, <2>1, <2>2 DEF LeasesInv, TypeOK
<1>6. OneHolder'
  BY <1>1 DEF LeasesInv, OneHolder
<1> HIDE DEF v, k
<1>7. ASSUME NEW d \in Conts PROVE Book(d, task'[d], addr'[d], etcd', spoilt')
  <2>1. CASE task[d] = None
    BY <1>1, <2>1 DEF Book
  <2>2. CASE task[d] # None
    <3>1. addr[d] \in Addrs
      BY <2>2, TaskFacts
    <3>2. ASSUME NEW p \in Ports, <<addr[d], p>> \notin spoilt'
          PROVE  /\ <<addr[d], p>> \notin spoilt
                 /\ etcd'[<<addr[d], p>>] = etcd[<<addr[d], p>>]
      BY <1>1, <1>4, <3>1, <3>2
    <3> QED
      BY <1>1, <3>2, BookStays
  <2> QED
    BY <2>1, <2>2
<1>8. KeysAge'
  <2> SUFFICES ASSUME NEW j \in Addrs \X Ports, etcd'[j] # None, addr[etcd'[j].host] # j[1]
               PROVE  etcd'[j].left + stopped[etcd'[j].host] <= TTL
    BY <1>1 DEF KeysAge
  <2>1. CASE j = k
    BY <1>3, <1>4, <2>1 DEF LeasesInv, LateAge
  <2>2. CASE j # k
    BY <1>4, <2>2 DEF LeasesInv, KeysAge
  <2> QED
    BY <2>1, <2>2
<1>9. LateAge'
  BY <1>1 DEF LeasesInv, LateAge
<1> QED
  BY <1>5, <1>6, <1>7, <1>8, <1>9 DEF LeasesInv, Books

-----------------------------------------------------------------------------
(* A second goes by *)

Later(v) == IF v = None \/ v.left = 1 THEN None ELSE [v EXCEPT !.left = v.left - 1]

LEMMA LaterValue ==
    ASSUME NEW v \in Value, Later(v) # None
    PROVE  /\ Later(v) \in Value /\ v # None
           /\ Later(v).host = v.host /\ Later(v).left = v.left - 1
<1>1. v # None /\ v.left # 1 /\ Later(v) = [v EXCEPT !.left = v.left - 1]
  BY LeasesNoneAssumption DEF Later
<1>2. v.left - 1 \in 1..TTL
  BY <1>1, LeasesAssumption DEF Value
<1> QED
  BY <1>1, <1>2 DEF Value

LEMMA AliveLater ==
    ASSUME NEW c, NEW v \in Value \cup {None}, NEW n \in Nat, n + 1 < TTL, Alive(c, v, n)
    PROVE  Alive(c, Later(v), n + 1)
<1>1. v \in Value /\ v # None /\ v.host = c /\ TTL <= v.left + n
  BY DEF Alive
<1>2. v.left \in Nat
  BY <1>1, LeasesAssumption DEF Value
<1>3. 1 < v.left /\ TTL <= (v.left - 1) + (n + 1)
  BY <1>1, <1>2, LeasesAssumption
<1>4. v.left - 1 \in 1..TTL
  BY <1>1, <1>3, LeasesAssumption DEF Value
<1>5. Later(v) = [v EXCEPT !.left = v.left - 1] /\ [v EXCEPT !.left = v.left - 1] \in Value
  BY <1>1, <1>3, <1>4 DEF Later, Value
<1>6. Later(v) # None
  BY <1>5, LeasesNoneAssumption
<1> QED
  BY <1>1, <1>3, <1>6, LaterValue DEF Alive

LEMMA AgedTask ==
    ASSUME LeasesInv, Tick, NEW c \in Conts, task[c] # None, task[c].pc # "ended",
           NEW x, x = task[c], NEW y, y = Aged(x)
    PROVE  /\ y \in Task /\ y.pc = x.pc /\ y.port = x.port /\ y.todo = x.todo
           /\ y.registered = x.registered /\ y.stored = x.stored
           /\ x.busy \in Nat /\ x.lease \in Nat
           /\ x.pc \in {"grant", "put"} => y.busy = x.busy + 1 /\ y.lease = Less(x.lease)
           /\ x.pc \notin {"grant", "put"} => y.lease = x.lease
           /\ \A p : Spent(x, p) \in Nat /\ Spent(y, p) = Spent(x, p) + 1
<1>1. x \in Task /\ x # None /\ x.pc # "ended" /\ InTime(x)
  BY TaskFacts DEF Tick
<1>2. /\ x.busy \in Nat /\ x.last \in Nat /\ x.idle \in Nat /\ x.lease \in 0..TTL
      /\ x.waited \in Nat /\ MaxIdle \in Nat
  BY <1>1, LeasesAssumption DEF Task, MaxIdle
<1>3. \A p : Spent(x, p) \in Nat
  BY <1>2 DEF Spent
<1>4. CASE x.pc = "sleep"
  <2>1. y = [x EXCEPT !.idle = x.idle + 1]
    BY <1>1, <1>4 DEF Aged
  <2>2. x.idle + 1 \in 0..MaxIdle
    BY <1>1, <1>2, <1>4 DEF InTime
  <2>3. /\ y \in Task /\ y.pc = "sleep" /\ y.port = x.port /\ y.todo = x.todo
        /\ y.registered = x.registered /\ y.stored = x.stored /\ y.lease = x.lease
        /\ y.last = x.last /\ y.idle = x.idle + 1
    BY <1>1, <1>4, <2>1, <2>2 DEF Task
  <2>4. \A p : Spent(y, p) = Spent(x, p) + 1
    BY <1>2, <1>4, <2>3 DEF Spent
  <2> QED
    BY <1>2, <1>3, <1>4, <2>3, <2>4
<1>5. CASE x.pc \in {"grant", "put"}
  <2> DEFINE w == x.waited + 1
             b == x.busy + 1
             l == Less(x.lease)
  <2>1. y = [x EXCEPT !.waited = w, !.busy = b, !.lease = l]
    BY <1>1, <1>5 DEF Aged
  <2>2. w \in 0..CallTimeout
    BY <1>1, <1>2, <1>5, LeasesAssumption DEF InTime
  <2>3. l \in 0..TTL /\ b \in Nat
    BY <1>2, LeasesAssumption DEF Less
  <2> HIDE DEF w, b, l
  <2>4. /\ y \in Task /\ y.pc = x.pc /\ y.port = x.port /\ y.todo = x.todo
        /\ y.registered = x.registered /\ y.stored = x.stored /\ y.lease = l
        /\ y.last = x.last /\ y.busy = b
    <3>1. y \in Task
      BY <1>1, <2>1, <2>2, <2>3 DEF Task
    <3>2. y.pc = x.pc /\ y.port = x.port /\ y.todo = x.todo
      BY <1>1, <2>1 DEF Task
    <3>3. y.registered = x.registered /\ y.stored = x.stored /\ y.last = x.last
      BY <1>1, <2>1 DEF Task
    <3>4. y.lease = l /\ y.busy = b
      BY <1>1, <2>1 DEF Task
    <3> QED
      BY <3>1, <3>2, <3>3, <3>4
  <2>5. \A p : Spent(y, p) = Spent(x, p) + 1
    BY <1>2, <1>5, <2>4 DEF Spent, b
  <2> QED
    BY <1>2, <1>3, <1>5, <2>4, <2>5 DEF b, l
<1>6. x.pc # "round"
  BY <1>1 DEF InTime
<1> QED
  BY <1>1, <1>4, <1>5, <1>6 DEF Task

LEMMA KeepsTick ==
    ASSUME LeasesInv, Tick PROVE LeasesInv'
<1>1. /\ task' = [c \in Conts |-> Aged(task[c])]
      /\ etcd' = [k \in Addrs \X Ports |-> Later(etcd[k])]
      /\ late' = {[r EXCEPT !.left = r.left - 1] : r \in {q \in late : q.left > 1}}
      /\ stopped' = [c \in Conts |-> IF stopped[c] < TTL THEN stopped[c] + 1 ELSE TTL]
      /\ UNCHANGED <<addr, spoilt, failures>>
  BY DEF Tick, Later
<1>2. ASSUME NEW c \in Conts, task[c] = None \/ task[c].pc = "ended"
      PROVE  Aged(task[c]) = task[c]
  BY <1>2 DEF Aged
<1>3. ASSUME NEW c \in Conts
      PROVE  /\ stopped'[c] \in 0..TTL /\ stopped[c] \in 0..TTL
             /\ stopped'[c] <= stopped[c] + 1
  <2>1. stopped[c] \in 0..TTL
    BY DEF LeasesInv, TypeOK
  <2> QED
    BY <1>1, <2>1, LeasesAssumption
<1>4. ASSUME NEW s \in late'
      PROVE  \E r \in late : /\ r \in Request /\ s \in Request /\ s.host = r.host
                             /\ s.addr = r.addr /\ s.left = r.left - 1
  <2>1. PICK r \in late : r.left > 1 /\ s = [r EXCEPT !.left = r.left - 1]
    BY <1>1
  <2>2. r \in Request
    BY DEF LeasesInv, TypeOK
  <2>3. r.left - 1 \in 1..TTL
    BY <2>1, <2>2, LeasesAssumption DEF Request
  <2> QED
    BY <2>1, <2>2, <2>3 DEF Request
<1>5. TypeOK'
  <2>1. ASSUME NEW c \in Conts PROVE Aged(task[c]) \in Task \cup {None}
    <3>1. CASE task[c] = None \/ task[c].pc = "ended"
      BY <1>2, <3>1 DEF LeasesInv, TypeOK
    <3>2. CASE task[c] # None /\ task[c].pc # "ended"
      BY <3>2, AgedTask
    <3> QED
      BY <3>1, <3>2
  <2>2. \A k \in Addrs \X Ports : Later(etcd[k]) \in Value \cup {None}
    BY LaterValue DEF LeasesInv, TypeOK, Later
  <2>3. late' \subseteq Request
    BY <1>4
  <2>4. stopped' \in [Conts -> 0..TTL]
    BY <1>1, <1>3
  <2> QED
    BY <1>1, <2>1, <2>2, <2>3, <2>4 DEF LeasesInv, TypeOK
<1>6. OneHolder'
  BY <1>1 DEF LeasesInv, OneHolder
<1>7. ASSUME NEW c \in Conts PROVE Book(c, task'[c], addr'[c], etcd', spoilt')
  <2>1. task'[c] = Aged(task[c]) /\ addr'[c] = addr[c] /\ spoilt' = spoilt
    BY <1>1
  <2>2. CASE task[c] = None
    BY <1>2, <2>1, <2>2 DEF Book
  <2>3. CASE task[c] # None /\ task[c].pc = "ended"
    BY <1>2, <2>1, <2>3, TaskFacts DEF Book
  <2>4. CASE task[c] # None /\ task[c].pc # "ended"
    <3>1. PICK x : x = task[c]
      OBVIOUS
    <3>2. PICK y : y = Aged(x)
      OBVIOUS
    <3>3. /\ x \in Task /\ Book(c, x, addr[c], etcd, spoilt) /\ x # None
          /\ addr[c] # None /\ addr[c] \in Addrs
      BY <2>4, <3>1, TaskFacts
    <3>4. /\ y \in Task /\ y.pc = x.pc /\ y.port = x.port /\ y.todo = x.todo
          /\ y.registered = x.registered /\ y.stored = x.stored
          /\ x.busy \in Nat /\ x.lease \in Nat
          /\ x.pc \in {"grant", "put"} => y.busy = x.busy + 1 /\ y.lease = Less(x.lease)
          /\ x.pc \notin {"grant", "put"} => y.lease = x.lease
          /\ \A p : Spent(x, p) \in Nat /\ Spent(y, p) = Spent(x, p) + 1
      BY <2>4, <3>1, <3>2, AgedTask
    <3>5. x.pc # "ended"
      BY <2>4, <3>1
    <3>6. y.lease > 0 => y.pc \in {"grant", "put"} /\ TTL <= y.lease + y.busy
      BY <3>3, <3>4, LeasesAssumption DEF Book, Less
    <3>7. ASSUME NEW p \in Ports
          PROVE  /\ etcd[<<addr[c], p>>] \in Value \cup {None}
                 /\ etcd'[<<addr[c], p>>] = Later(etcd[<<addr[c], p>>])
      BY <1>1, <3>3 DEF LeasesInv, TypeOK
    <3>8. ASSUME y.stored, <<addr[c], y.port>> \notin spoilt, y.busy < TTL
          PROVE  Alive(c, etcd'[<<addr[c], y.port>>], y.busy)
      <4>1. x.stored /\ x.pc = "put" /\ x.port \in x.todo /\ y.busy = x.busy + 1
        BY <3>3, <3>4, <3>8 DEF Book
      <4>2. x.port \in Ports
        BY <3>3, <4>1 DEF Task
      <4>3. x.busy < TTL /\ x.busy + 1 < TTL
        BY <3>4, <3>8, <4>1, LeasesAssumption
      <4>4. Alive(c, etcd[<<addr[c], x.port>>], x.busy)
        BY <3>3, <3>4, <3>8, <4>1, <4>3 DEF Book
      <4>5. Alive(c, Later(etcd[<<addr[c], x.port>>]), x.busy + 1)
        BY <3>4, <3>7, <4>2, <4>3, <4>4, AliveLater
      <4> QED
        BY <3>4, <3>7, <4>1, <4>2, <4>5
    <3>9. ASSUME NEW p \in y.registered, <<addr[c], p>> \notin spoilt, Spent(y, p) < TTL
          PROVE  Alive(c, etcd'[<<addr[c], p>>], Spent(y, p))
      <4>1. p \in x.registered /\ p \in Ports
        BY <3>3, <3>4, <3>9 DEF Task
      <4>2. /\ Spent(x, p) \in Nat /\ Spent(y, p) = Spent(x, p) + 1
            /\ Spent(x, p) < TTL /\ Spent(x, p) + 1 < TTL
        BY <3>4, <3>9, LeasesAssumption
      <4>3. Alive(c, etcd[<<addr[c], p>>], Spent(x, p))
        BY <3>3, <3>5, <3>9, <4>1, <4>2 DEF Book
      <4>4. Alive(c, Later(etcd[<<addr[c], p>>]), Spent(x, p) + 1)
        BY <3>7, <4>1, <4>2, <4>3, AliveLater
      <4> QED
        BY <3>7, <4>1, <4>2, <4>4
    <3>10. Book(c, y, addr[c], etcd', spoilt)
      BY <3>3, <3>4, <3>6, <3>8, <3>9 DEF Book
    <3> QED
      BY <2>1, <3>1, <3>2, <3>10
  <2> QED
    BY <2>2, <2>3, <2>4
<1>8. KeysAge'
  <2> SUFFICES ASSUME NEW k \in Addrs \X Ports, etcd'[k] # None, addr[etcd'[k].host] # k[1]
               PROVE  etcd'[k].left + stopped'[etcd'[k].host] <= TTL
    BY <1>1 DEF KeysAge
  <2> DEFINE v == etcd[k]
  <2>1. etcd'[k] = Later(v) /\ v \in Value \cup {None}
    BY <1>1 DEF LeasesInv, TypeOK
  <2>2. v \in Value
    BY <2>1 DEF Later
  <2>3. v # None /\ etcd'[k].host = v.host /\ etcd'[k].left = v.left - 1
    BY <2>1, <2>2, LaterValue
  <2>4. v.left + stopped[v.host] <= TTL
    BY <2>3 DEF LeasesInv, KeysAge
  <2>5. v.host \in Conts /\ v.left \in Nat
    BY <2>2, LeasesAssumption DEF Value
  <2>6. stopped[v.host] \in Nat /\ stopped'[v.host] \in Nat /\ stopped'[v.host] <= stopped[v.host] + 1
    BY <1>3, <2>5, LeasesAssumption
  <2> HIDE DEF v
  <2> QED
    BY <2>3, <2>4, <2>5, <2>6, LeasesAssumption
<1>9. LateAge'
  <2> SUFFICES ASSUME NEW s \in late', addr[s.host] # s.addr
               PROVE  s.left + stopped'[s.host] <= TTL
    BY <1>1 DEF LateAge
  <2>1. PICK r \in late : /\ r \in Request /\ s.host = r.host
                          /\ s.addr = r.addr /\ s.left = r.left - 1
    BY <1>4
  <2>2. r.left + stopped[r.host] <= TTL
    BY <2>1 DEF LeasesInv, LateAge
  <2>3. r.host \in Conts /\ r.left \in Nat
    BY <2>1, LeasesAssumption DEF Request
  <2>4. stopped[r.host] \in Nat /\ stopped'[r.host] \in Nat /\ stopped'[r.host] <= stopped[r.host] + 1
    BY <1>3, <2>3, LeasesAssumption
  <2> QED
    BY <2>1, <2>2, <2>3, <2>4, LeasesAssumption
<1> QED
  BY <1>5, <1>6, <1>7, <1>8, <1>9 DEF LeasesInv, Books

-----------------------------------------------------------------------------
(* The theorems *)

LEMMA LeasesStep == LeasesInv /\ [Next]_vars => LeasesInv'
<1> SUFFICES ASSUME LeasesInv, [Next]_vars PROVE LeasesInv'
  OBVIOUS
<1>1. CASE UNCHANGED vars
  BY <1>1 DEF LeasesInv, TypeOK, OneHolder, Books, Book, Alive, KeysAge, LateAge, vars, keys
<1>2. CASE Tick
  BY <1>2, KeepsTick
<1>3. ASSUME NEW c \in Conts, Start(c) \/ Stop(c) PROVE LeasesInv'
  BY <1>3, KeepsStart, KeepsStop
<1>4. ASSUME NEW c \in Conts, TaskStep(c) PROVE LeasesInv'
  BY <1>4, KeepsWake, KeepsAddressesUnknown, KeepsGrant, KeepsGrantServed, KeepsPut,
     KeepsGrantFails, KeepsPutServed, KeepsPutReturns, KeepsPutFails, KeepsFinish
     DEF TaskStep
<1>5. ASSUME NEW r \in late, LatePut(r) PROVE LeasesInv'
  BY <1>5, KeepsLatePut
<1> QED
  BY <1>1, <1>2, <1>3, <1>4, <1>5 DEF Next

LEMMA LeasesInvariant == Safety => []LeasesInv
BY LeasesInit, LeasesStep, PTL DEF Safety

\* A key is put only for an address that its container has, under a lease that
\* has not run out, and a call is awaited no longer than its time-out
\* (startBackgroundMultinodeTask).
THEOREM TypeCorrect == Safety => []TypeOK
<1>1. LeasesInv => TypeOK
  BY DEF LeasesInv
<1> QED
  BY <1>1, LeasesInvariant, PTL

\* A registered key that no late Put has overwritten is in etcd, naming its
\* container, whenever its task runs and the calls of its last two rounds have
\* left the pause between them room in a lease; whatever the constants are
\* (startBackgroundMultinodeTask).
THEOREM RegisteredKeysStay == Safety => []KeysStay
<1>1. ASSUME LeasesInv PROVE KeysStay
  <2> SUFFICES ASSUME NEW c \in Conts, task[c] # None, task[c].pc # "ended",
                      Prompt(task[c]), NEW p \in task[c].registered,
                      <<addr[c], p>> \notin spoilt
               PROVE  Present(c, p)
    BY DEF KeysStay, Runs, Key
  <2>1. task[c] \in Task /\ Book(c, task[c], addr[c], etcd, spoilt)
    BY <1>1, TaskFacts
  <2>2. /\ task[c].busy \in Nat /\ task[c].last \in Nat /\ task[c].idle \in 0..MaxIdle
        /\ MaxIdle \in Nat
    BY <2>1, LeasesAssumption DEF Task, MaxIdle
  <2>3. Spent(task[c], p) < TTL
    BY <2>2, LeasesAssumption DEF Prompt, Spent
  <2> QED
    BY <2>1, <2>3 DEF Book, Alive, Present, Key
<1> QED
  BY <1>1, LeasesInvariant, PTL

\* No key names a stopped container, or the address it had before, once a lease
\* has gone by since its stop: not even one that a Put has stored which etcd
\* served after the stop (startBackgroundMultinodeTask).
THEOREM StoppedKeysAlwaysGo == Safety => []StoppedKeysGo
<1>1. ASSUME LeasesInv PROVE StoppedKeysGo
  <2> SUFFICES ASSUME NEW k \in Addrs \X Ports, etcd[k] # None, addr[etcd[k].host] # k[1]
               PROVE  stopped[etcd[k].host] < TTL
    BY DEF StoppedKeysGo
  <2>1. etcd[k] \in Value /\ etcd[k].left + stopped[etcd[k].host] <= TTL
    BY <1>1 DEF LeasesInv, TypeOK, KeysAge
  <2>2. etcd[k].left \in 1..TTL /\ stopped[etcd[k].host] \in 0..TTL
    BY <1>1, <2>1 DEF Value, LeasesInv, TypeOK
  <2> QED
    BY <2>1, <2>2, LeasesAssumption
<1> QED
  BY <1>1, LeasesInvariant, PTL
=============================================================================
