------------------------- MODULE RtPriority_proofs --------------------------
(***************************************************************************)
(* Proofs about priority inheritance in RT-Thread (RtIpc): every thread    *)
(* has its own priority or the best one of the threads that wait for its   *)
(* mutexes, through any chain of owners that wait themselves, and also     *)
(* when the chain is a cycle.                                              *)
(*                                                                         *)
(* A waiter that comes (or goes) moves the priority of one mutex, which    *)
(* may move that of its owner, and so on: all is right but the priority of *)
(* the thread the walk comes to next.  Whatever is moved was less urgent   *)
(* than a priority c and gets c, or had c and gets a less urgent one.  So  *)
(* the walk comes to each thread once, and ends before its turns do.       *)
(***************************************************************************)
EXTENDS RtKernel_proofs

-----------------------------------------------------------------------------
(* Least priorities.                                                       *)

(* v is the least number of S.                                             *)
Least(v, S) == v \in S /\ \A w \in S : v <= w

(* A priority b replaces a: c what was less urgent, when priorities rise,  *)
(* or something less urgent what was c.                                    *)
Turned(c, up, a, b) == IF up THEN a > c /\ b = c ELSE a = c /\ b > c

(* There is one least number.                                              *)
LEMMA LeastOne ==
  ASSUME NEW S \in SUBSET Nat, NEW v, NEW w, Least(v, S), Least(w, S)
  PROVE  v = w /\ v \in Nat
BY DEF Least

(* One number of a set is turned: the least number is the same or is       *)
(* turned the same way.                                                    *)
LEMMA LeastTurns ==
  ASSUME NEW S \in SUBSET Nat, NEW a \in Nat, NEW b \in Nat, NEW c \in Nat, NEW up \in BOOLEAN,
         a = b \/ Turned(c, up, a, b), NEW v, NEW w, Least(v, S \cup {a}), Least(w, S \cup {b})
  PROVE  w = v \/ Turned(c, up, v, w)
<1>1. v \in Nat /\ w \in Nat /\ v <= a /\ w <= b
  BY DEF Least
<1>2. v = a \/ v \in S
  BY DEF Least
<1>3. w = b \/ w \in S
  BY DEF Least
<1>4. v \in S => w <= v
  BY DEF Least
<1>5. w \in S => v <= w
  BY DEF Least
<1> QED
  BY <1>1, <1>2, <1>3, <1>4, <1>5 DEF Turned

(* What the waiters of mutex m ask for.                                    *)
Waiters(s, m) == {u \in Threads : WaitsAt(s, u, m)}
Asked(s, m) == {NoPrio} \cup {s.prio[u] : u \in Waiters(s, m)}

(* What thread t may be given by its own priority and its mutexes.         *)
Wanted(s, t) == {s.base[t]} \cup {s.mprio[m] : m \in s.taken[t]}

(* The books priorities rest on: every mutex is there, has no ceiling, is  *)
(* in the list of its owner, and its owner does not wait for it.           *)
Known(s) == \A m \in Mutexes :
  /\ s.obj[m] = "live" /\ s.ceil[m] = NoPrio
  /\ \A t \in Threads : /\ m \in s.taken[t] <=> s.owner[m] = t
                        /\ WaitsAt(s, t, m) => s.owner[m] # t

(* Every mutex has the priority of its most urgent waiter.                 *)
Raised(s) == \A m \in Mutexes : Least(s.mprio[m], Asked(s, m))

(* Every thread but x has the priority it should have.                     *)
RightBut(s, x) == \A t \in Threads \ {x} : Least(s.prio[t], Wanted(s, t))

(* The part of the invariant about priorities.                             *)
Lent(s) == Known(s) /\ Raised(s) /\ RightBut(s, NULL)

(* Priorities are numbers.                                                 *)
LEMMA PrioritiesAre ==
  ASSUME NEW s, Lists(s)
  PROVE  /\ \A t \in Threads : s.prio[t] \in Nat /\ s.prio[t] < NoPrio /\ Wanted(s, t) \in SUBSET Nat
                               /\ s.base[t] \in Nat /\ s.taken[t] \subseteq Mutexes
         /\ \A m \in Mutexes : Asked(s, m) \in SUBSET Nat /\ s.mprio[m] \in Nat
<1>1. /\ s.prio \in [Threads -> Priorities] /\ s.base \in [Threads -> Priorities]
      /\ s.taken \in [Threads -> SUBSET Mutexes] /\ s.mprio \in [Mutexes -> 0 .. NoPrio]
  BY DEF Lists, Inv, Sound, Typed, IpcTyped
<1>2. NoPrio \in Nat /\ \A p \in Priorities : p \in Nat /\ p < NoPrio
  BY LevelsAssumption DEF NoPrio, Priorities
<1>3. \A p \in 0 .. NoPrio : p \in Nat
  OBVIOUS
<1>4. \A t \in Threads : s.prio[t] \in Nat /\ s.prio[t] < NoPrio /\ s.base[t] \in Nat
  BY <1>1, <1>2
<1>5. \A m \in Mutexes : s.mprio[m] \in Nat
  BY <1>1, <1>3
<1>6. \A t \in Threads : Wanted(s, t) \in SUBSET Nat
  BY <1>1, <1>4, <1>5 DEF Wanted
<1>7. \A m \in Mutexes : Asked(s, m) \in SUBSET Nat
  BY <1>2, <1>4 DEF Asked, Waiters
<1> QED
  BY <1>1, <1>4, <1>5, <1>6, <1>7

(* _thread_get_mutex_priority finds the priority a thread should have, if  *)
(* no mutex has a ceiling.                                                 *)
LEMMA GetsLeastOf ==
  ASSUME NEW s, Lists(s), \A m \in Mutexes : s.ceil[m] = NoPrio, NEW t \in Threads
  PROVE  Least(_thread_get_mutex_priority(s, t), Wanted(s, t))
<1> DEFINE C == {s.ceil[m] : m \in s.taken[t]}
           S == {s.base[t]} \cup {s.mprio[m] : m \in s.taken[t]} \cup C
<1>1. Wanted(s, t) \in SUBSET Nat /\ s.base[t] \in Nat /\ s.taken[t] \subseteq Mutexes
  BY PrioritiesAre
<1>2. S = Wanted(s, t) \cup C
  BY DEF Wanted
<1>3. C \subseteq {NoPrio} /\ NoPrio \in Nat
  BY <1>1, LevelsAssumption DEF NoPrio
<1>4. s.base[t] \in Wanted(s, t) /\ s.base[t] < NoPrio
  <2>1. s.base[t] \in Priorities
    BY DEF Lists, IpcTyped
  <2> QED
    BY <2>1, LevelsAssumption DEF Wanted, Priorities, NoPrio
<1>5. _thread_get_mutex_priority(s, t) = Min(S)
  BY DEF _thread_get_mutex_priority
<1> HIDE DEF C, S
<1>6. S \in SUBSET Nat /\ S # {}
  BY <1>1, <1>2, <1>3, <1>4
<1>7. Min(S) \in S /\ \A y \in S : Min(S) <= y
  BY <1>6, MinIs
<1>8. Min(S) \in Nat /\ Min(S) <= s.base[t]
  BY <1>2, <1>4, <1>6, <1>7
<1>9. Min(S) \in Wanted(s, t)
  BY <1>1, <1>2, <1>3, <1>4, <1>7, <1>8
<1> QED
  BY <1>2, <1>5, <1>7, <1>9 DEF Least

(* So it does while the books are in order.                                *)
LEMMA GetsLeast ==
  ASSUME NEW s, Lists(s), Known(s), NEW t \in Threads
  PROVE  Least(_thread_get_mutex_priority(s, t), Wanted(s, t))
BY GetsLeastOf DEF Known

(* The first waiter of a sorted list is the most urgent.                   *)
LEMMA HeadLeast ==
  ASSUME NEW s, Lists(s), NEW m \in Mutexes
  PROVE  Least(IF s.list[m] = <<>> THEN NoPrio ELSE s.prio[Head(s.list[m])], Asked(s, m))
<1> DEFINE l == s.list[m]
<1>0. m \in Objects /\ m \in Heads
  BY MutexIs
<1>1. /\ l \in Seq(Threads) /\ Sorted(s.prio, l)
      /\ \A u \in Threads : On(u, l) <=> u \in Waiters(s, m)
  BY <1>0 DEF Lists, Inv, Sound, Typed, Queues, Ordered, Waiters
<1>2. \A u \in Threads : s.prio[u] \in Nat /\ s.prio[u] < NoPrio
  BY PrioritiesAre
<1>3. NoPrio \in Nat
  BY LevelsAssumption DEF NoPrio
<1>4. CASE l = <<>>
  <2>1. \A u \in Threads : ~On(u, l)
    BY <1>4 DEF On
  <2>2. Asked(s, m) = {NoPrio}
    BY <1>1, <2>1 DEF Asked, Waiters
  <2> QED
    BY <1>3, <1>4, <2>2 DEF Least
<1>5. CASE l # <<>>
  <2> DEFINE h == Head(l)
  <2>1. h \in Threads /\ On(h, l) /\ h = l[1] /\ 1 \in 1 .. Len(l)
    BY <1>1, <1>5, First
  <2>2. ASSUME NEW u \in Waiters(s, m) PROVE s.prio[h] <= s.prio[u]
    <3>1. u \in Threads /\ On(u, l)
      BY <1>1 DEF Waiters
    <3>2. PICK i \in 1 .. Len(l) : l[i] = u
      BY <3>1 DEF On
    <3>3. CASE i = 1
      BY <1>2, <2>1, <3>1, <3>2, <3>3
    <3>4. CASE 1 < i
      BY <1>1, <2>1, <3>2, <3>4 DEF Sorted
    <3> QED
      BY <3>2, <3>3, <3>4
  <2>3. s.prio[h] \in Asked(s, m)
    BY <1>1, <2>1 DEF Asked, Waiters
  <2>4. s.prio[h] <= NoPrio
    BY <1>2, <1>3, <2>1
  <2> HIDE DEF h
  <2>5. \A w \in Asked(s, m) : s.prio[h] <= w
    BY <2>2, <2>4 DEF Asked
  <2> QED
    BY <1>5, <2>3, <2>5 DEF Least, h
<1> QED
  BY <1>4, <1>5

-----------------------------------------------------------------------------
(* The walk along the owners.                                              *)

(* _mutex_update_priority sets one priority, to what the waiters ask for.  *)
LEMMA MutexRaised ==
  ASSUME NEW s, Lists(s), NEW m \in Mutexes
  PROVE  LET r == _mutex_update_priority(s, m) IN
         /\ Lists(r) /\ SameIpc(s, r) /\ r.stat = s.stat /\ r.prio = s.prio
         /\ \A n \in Mutexes \ {m} : r.mprio[n] = s.mprio[n]
         /\ Least(r.mprio[m], Asked(r, m))
<1> DEFINE r == _mutex_update_priority(s, m)
           p == IF s.list[m] = <<>> THEN NoPrio ELSE s.prio[Head(s.list[m])]
<1>1. Lists(r) /\ SameIpc(s, r) /\ r.stat = s.stat /\ r.prio = s.prio /\ r.list = s.list
  BY MutexPriority
<1>2. "mprio" \in DOMAIN s /\ s.mprio \in [Mutexes -> 0 .. NoPrio] /\ s = [x \in DOMAIN s |-> s[x]]
  BY DEF Lists, IpcTyped, IpcFields, Inv, Sound, Typed, Shape
<1>3. r = [s EXCEPT !.mprio[m] = p]
  BY DEF _mutex_update_priority
<1>4. r.mprio = [s.mprio EXCEPT ![m] = p]
  <2> HIDE DEF p, r
  <2> QED
    BY <1>2, <1>3
<1>5. r.mprio[m] = IF r.list[m] = <<>> THEN NoPrio ELSE r.prio[Head(r.list[m])]
  <2> HIDE DEF r
  <2> QED
    BY <1>1, <1>2, <1>4
<1>6. \A n \in Mutexes \ {m} : r.mprio[n] = s.mprio[n]
  <2> HIDE DEF r, p
  <2> QED
    BY <1>2, <1>4
<1> HIDE DEF r, p
<1>7. Least(r.mprio[m], Asked(r, m))
  BY <1>1, <1>5, HeadLeast
<1> QED
  BY <1>1, <1>6, <1>7 DEF r

(* One call of _thread_update_priority: what happens to the priorities.    *)
LEMMA UpdateOneIs ==
  ASSUME NEW s, Chainable(s), Known(s), NEW t \in Threads, NEW p \in Priorities
  PROVE  LET u == UpdateOne(s, t, p) IN
         /\ u.s.prio = [s.prio EXCEPT ![t] = p]
         /\ u.next = NULL => u.s.mprio = s.mprio /\ \A m \in Mutexes : ~WaitsAt(s, t, m)
         /\ u.next # NULL => \E m \in Mutexes :
              /\ WaitsAt(s, t, m) /\ u.next = s.owner[m]
              /\ \A n \in Mutexes \ {m} : u.s.mprio[n] = s.mprio[n]
              /\ Least(u.s.mprio[m], Asked(u.s, m))
<1> DEFINE changed == ChangePriority(s, t, p)
           m == s.pend[t]
           cut == rt_list_remove(changed, t)
           put == _ipc_list_suspend(cut, m, t)
           moved == _mutex_update_priority(put, m)
           F == {"prio", "stat", "group", "list"}
           u == UpdateOne(s, t, p)
<1>0. /\ Lists(s) /\ Inv(s) /\ Typed(s) /\ IpcTyped(s)
      /\ m \in Mutexes \cup {NULL} /\ s.owner \in [Mutexes -> Threads \cup {NULL}]
  BY DEF Chainable, Lists, Inv, Sound, Typed, IpcTyped
<1>1. /\ Inv(changed) /\ Changes(s, changed, F)
      /\ changed.stat = s.stat /\ changed.prio = [s.prio EXCEPT ![t] = p]
  BY <1>0, PriorityChanged
<1>2. IpcTyped(changed) /\ changed.mprio = s.mprio
  <2>1. F \cap IpcFields = {}
    BY DEF IpcFields
  <2> HIDE DEF changed, F
  <2> QED
    BY <1>0, <1>1, <2>1, SchedulerOnly
<1>3. CASE s.stat[t] # "SUSPEND" \/ m = NULL \/ s.obj[m] = "detached"
  <2>1. u = [s |-> changed, next |-> NULL]
    BY <1>3 DEF UpdateOne
  <2>2. \A n \in Mutexes : ~WaitsAt(s, t, n)
    <3>1. SUFFICES ASSUME NEW n \in Mutexes, WaitsAt(s, t, n) PROVE FALSE
      OBVIOUS
    <3>2. m = n /\ s.obj[n] = "live" /\ s.stat[t] = "SUSPEND"
      BY <3>1 DEF Chainable, WaitsAt
    <3> QED
      BY <1>3, <3>2, MutexIs
  <2> HIDE DEF changed, u
  <2> QED
    BY <1>1, <1>2, <2>1, <2>2 DEF u
<1>4. CASE s.stat[t] = "SUSPEND" /\ m # NULL /\ s.obj[m] # "detached"
  <2>1. m \in Mutexes /\ WaitsAt(s, t, m) /\ s.owner[m] \in Threads /\ s.owner[m] # NULL
    BY <1>0, <1>4 DEF Chainable, WaitsAt
  <2>2. u = [s |-> moved, next |-> s.owner[m]]
    <3>1. s.owner[m] # NULL /\ s.obj[m] # "freed"
      BY <2>1 DEF Chainable
    <3> QED
      BY <1>4, <3>1 DEF UpdateOne
  <2>3. Lists(moved)
    <3>1. Updated(s, u.s)
      BY UpdatesOne
    <3> HIDE DEF moved, u
    <3> QED
      BY <2>2, <3>1 DEF Updated, Chainable
  <2>4. changed.stat[t] = "SUSPEND"
    BY <1>1, <1>4
  <2> HIDE DEF changed, u
  <2>5. /\ Inv(cut) /\ Changes(changed, cut, {"list"}) /\ cut.stat = changed.stat /\ cut.prio = changed.prio
        /\ \A h \in Heads : ~On(t, cut.list[h])
    BY <1>1, <2>4, WaiterUnlinked
  <2>6. /\ Inv(put) /\ Changes(cut, put, {"stat", "group", "list", "timer"})
    <3>1. m \in Objects /\ ~On(t, cut.list[m]) /\ cut.stat[t] = "SUSPEND"
      BY <2>1, <2>4, <2>5, MutexIs
    <3> HIDE DEF cut, m
    <3> QED
      BY <2>5, <3>1, ListSuspended
  <2> HIDE DEF cut
  <2>7. IpcTyped(put) /\ put.mprio = s.mprio
    <3>1. {"list"} \cap IpcFields = {} /\ {"stat", "group", "list", "timer"} \cap IpcFields = {}
      BY DEF IpcFields
    <3>2. IpcTyped(cut) /\ cut.mprio = changed.mprio
      BY <1>2, <2>5, <3>1, SchedulerOnly
    <3> HIDE DEF put
    <3>3. IpcTyped(put) /\ put.mprio = cut.mprio
      BY <2>6, <3>1, <3>2, SchedulerOnly
    <3> QED
      BY <1>2, <3>2, <3>3
  <2>8. put.prio = cut.prio /\ Shape(put)
    <3> DEFINE G == {"stat", "group", "list", "timer"}
    <3>1. "prio" \notin G
      OBVIOUS
    <3>2. Shape(cut) /\ Shape(put) /\ Changes(cut, put, G)
      BY <2>5, <2>6 DEF Inv, Sound, Typed
    <3> HIDE DEF G, put
    <3>3. put.prio = cut.prio
      BY <3>1, <3>2, Kept
    <3> QED
      BY <3>2, <3>3
  <2> DEFINE v == IF put.list[m] = <<>> THEN NoPrio ELSE put.prio[Head(put.list[m])]
  <2>9. moved = [put EXCEPT !.mprio[m] = v]
    BY DEF _mutex_update_priority
  <2> HIDE DEF put, m
  <2>10. /\ moved.mprio = [put.mprio EXCEPT ![m] = v] /\ moved.prio = put.prio /\ moved.list = put.list
    <3>1. /\ "mprio" \in DOMAIN put /\ "prio" \in DOMAIN put /\ "list" \in DOMAIN put
          /\ put = [x \in DOMAIN put |-> put[x]]
      BY <2>7, <2>8 DEF IpcTyped, IpcFields, Shape, Fields
    <3> HIDE DEF v, moved
    <3> QED
      BY <2>9, <3>1
  <2>11. put.mprio \in [Mutexes -> 0 .. NoPrio]
    BY <2>7 DEF IpcTyped
  <2>12. moved.mprio[m] = IF moved.list[m] = <<>> THEN NoPrio ELSE moved.prio[Head(moved.list[m])]
    <3> HIDE DEF moved
    <3> QED
      BY <2>1, <2>10, <2>11
  <2>13. \A n \in Mutexes \ {m} : moved.mprio[n] = s.mprio[n]
    <3> HIDE DEF moved, v
    <3> QED
      BY <2>1, <2>7, <2>10, <2>11
  <2> HIDE DEF moved, v
  <2>14. Least(moved.mprio[m], Asked(moved, m))
    BY <2>1, <2>3, <2>12, HeadLeast
  <2>15. u.s = moved /\ u.next = s.owner[m]
    BY <2>2
  <2>16. moved.prio = [s.prio EXCEPT ![t] = p]
    BY <1>1, <2>5, <2>8, <2>10
  <2> QED
    BY <2>1, <2>13, <2>14, <2>15, <2>16 DEF u
<1> QED
  BY <1>3, <1>4

(* The books do not change with the priorities.                            *)
LEMMA KnownAgain ==
  ASSUME NEW s, Known(s), NEW r, SameIpc(s, r), r.stat = s.stat
  PROVE  /\ Known(r) /\ \A t, m : WaitsAt(r, t, m) <=> WaitsAt(s, t, m)
         /\ \A m : Waiters(r, m) = Waiters(s, m)
<1>1. \A t, m : WaitsAt(r, t, m) <=> WaitsAt(s, t, m)
  BY DEF WaitsAt, SameIpc
<1> QED
  BY <1>1 DEF Known, SameIpc, Waiters

(* What is handed on: all is right but the priority of the next owner,     *)
(* which is right too or should be turned.                                 *)
Walks(acc, c, up) ==
  /\ Chainable(acc.s) /\ Known(acc.s) /\ Raised(acc.s) /\ RightBut(acc.s, acc.next)
  /\ acc.next \in Threads \cup {NULL}
  /\ acc.next # NULL =>
       LET q == _thread_get_mutex_priority(acc.s, acc.next) IN
       q = acc.s.prio[acc.next] \/ Turned(c, up, acc.s.prio[acc.next], q)

(* One priority in the list of a mutex is turned.                          *)
LEMMA AskedTurns ==
  ASSUME NEW s, Lists(s), NEW r, Lists(r), NEW m \in Mutexes, NEW x \in Waiters(s, m), Waiters(r, m) = Waiters(s, m),
         \A t \in Threads \ {x} : r.prio[t] = s.prio[t], NEW c \in Nat, NEW up \in BOOLEAN,
         Turned(c, up, s.prio[x], r.prio[x]), Least(s.mprio[m], Asked(s, m)), Least(r.mprio[m], Asked(r, m))
  PROVE  r.mprio[m] = s.mprio[m] \/ Turned(c, up, s.mprio[m], r.mprio[m])
<1> DEFINE S == {NoPrio} \cup {s.prio[u] : u \in Waiters(s, m) \ {x}}
           a == s.prio[x]
           b == r.prio[x]
<1>1. x \in Threads /\ Waiters(s, m) \subseteq Threads
  BY DEF Waiters
<1>2. a \in Nat /\ b \in Nat /\ Asked(s, m) \in SUBSET Nat
  BY <1>1, PrioritiesAre
<1>3. Asked(s, m) = S \cup {a}
  BY DEF Asked
<1>4. Asked(r, m) = S \cup {b}
  <2>1. \A u \in Waiters(s, m) \ {x} : r.prio[u] = s.prio[u]
    BY <1>1
  <2>2. {r.prio[u] : u \in Waiters(s, m) \ {x}} = {s.prio[u] : u \in Waiters(s, m) \ {x}}
    BY <2>1
  <2>3. Asked(r, m) = {NoPrio} \cup {r.prio[u] : u \in Waiters(s, m) \ {x}} \cup {b}
    BY DEF Asked
  <2> QED
    BY <2>2, <2>3
<1>5. S \in SUBSET Nat
  BY <1>2, <1>3
<1>6. Turned(c, up, a, b) /\ Least(s.mprio[m], S \cup {a}) /\ Least(r.mprio[m], S \cup {b})
  BY <1>3, <1>4
<1> HIDE DEF S, a, b
<1> QED
  BY <1>2, <1>5, <1>6, LeastTurns

(* The priority of one mutex of a thread is turned.                        *)
LEMMA WantedTurns ==
  ASSUME NEW s, Lists(s), NEW r, Lists(r), NEW m \in Mutexes, NEW y \in Threads, m \in s.taken[y],
         r.taken[y] = s.taken[y], r.base[y] = s.base[y], \A n \in Mutexes \ {m} : r.mprio[n] = s.mprio[n],
         NEW c \in Nat, NEW up \in BOOLEAN,
         r.mprio[m] = s.mprio[m] \/ Turned(c, up, s.mprio[m], r.mprio[m]),
         NEW v, NEW w, Least(v, Wanted(s, y)), Least(w, Wanted(r, y))
  PROVE  w = v \/ Turned(c, up, v, w)
<1> DEFINE S == {s.base[y]} \cup {s.mprio[n] : n \in s.taken[y] \ {m}}
           a == s.mprio[m]
           b == r.mprio[m]
<1>1. a \in Nat /\ b \in Nat /\ Wanted(s, y) \in SUBSET Nat /\ s.taken[y] \subseteq Mutexes
  BY PrioritiesAre
<1>2. Wanted(s, y) = S \cup {a}
  BY DEF Wanted
<1>3. Wanted(r, y) = S \cup {b}
  <2>1. {r.mprio[n] : n \in s.taken[y] \ {m}} = {s.mprio[n] : n \in s.taken[y] \ {m}}
    BY <1>1
  <2>2. Wanted(r, y) = {s.base[y]} \cup {r.mprio[n] : n \in s.taken[y] \ {m}} \cup {b}
    BY DEF Wanted
  <2> QED
    BY <2>1, <2>2
<1>4. S \in SUBSET Nat
  BY <1>1, <1>2
<1>5. (a = b \/ Turned(c, up, a, b)) /\ Least(v, S \cup {a}) /\ Least(w, S \cup {b})
  BY <1>2, <1>3
<1> HIDE DEF S, a, b
<1> QED
  BY <1>1, <1>4, <1>5, LeastTurns

(* Mutexes that keep their priority want the same of a thread.             *)
LEMMA WantedSame ==
  ASSUME NEW s, NEW r, NEW t, s.taken[t] \subseteq Mutexes, r.taken[t] = s.taken[t], r.base[t] = s.base[t],
         \A n \in s.taken[t] : r.mprio[n] = s.mprio[n]
  PROVE  Wanted(r, t) = Wanted(s, t)
BY DEF Wanted

(* The waiters of a mutex that keep their priority ask for the same.       *)
LEMMA AskedSame ==
  ASSUME NEW s, NEW r, NEW m, Waiters(r, m) = Waiters(s, m), \A u \in Waiters(s, m) : r.prio[u] = s.prio[u]
  PROVE  Asked(r, m) = Asked(s, m)
BY DEF Asked

(* One call for a thread whose priority should be turned: then all is      *)
(* right but that of the next owner.                                       *)
LEMMA OneWalks ==
  ASSUME NEW s, Chainable(s), Known(s), Raised(s), NEW x \in Threads, RightBut(s, x), NEW q \in Priorities,
         Least(q, Wanted(s, x)), NEW c \in Nat, NEW up \in BOOLEAN, Turned(c, up, s.prio[x], q)
  PROVE  Walks(UpdateOne(s, x, q), c, up)
<1> DEFINE u == UpdateOne(s, x, q)
           r == u.s
<1>0. Lists(s) /\ s.prio \in [Threads -> Priorities] /\ s.taken \in [Threads -> SUBSET Mutexes]
  BY DEF Chainable, Lists, Inv, Sound, Typed, IpcTyped
<1>1. Updated(s, r) /\ u.next \in Threads \cup {NULL}
  BY UpdatesOne
<1>2. /\ r.prio = [s.prio EXCEPT ![x] = q]
      /\ u.next = NULL => r.mprio = s.mprio /\ \A m \in Mutexes : ~WaitsAt(s, x, m)
      /\ u.next # NULL => \E m \in Mutexes :
           /\ WaitsAt(s, x, m) /\ u.next = s.owner[m]
           /\ \A n \in Mutexes \ {m} : r.mprio[n] = s.mprio[n]
           /\ Least(r.mprio[m], Asked(r, m))
  BY UpdateOneIs
<1> HIDE DEF u, r
<1>3. Chainable(r) /\ Lists(r) /\ SameIpc(s, r) /\ r.stat = s.stat
  BY <1>1 DEF Updated, Chainable
<1>4. Known(r) /\ \A m : Waiters(r, m) = Waiters(s, m)
  BY <1>3, KnownAgain
<1>5. r.prio[x] = q /\ \A t \in Threads \ {x} : r.prio[t] = s.prio[t]
  BY <1>0, <1>2
<1>6. r.taken = s.taken /\ r.base = s.base
  BY <1>3 DEF SameIpc
<1>7. ASSUME NEW n \in Mutexes, ~WaitsAt(s, x, n), r.mprio[n] = s.mprio[n] PROVE Least(r.mprio[n], Asked(r, n))
  <2>1. \A v \in Waiters(s, n) : v \in Threads \ {x}
    BY <1>7 DEF Waiters
  <2>2. Asked(r, n) = Asked(s, n)
    BY <1>4, <1>5, <2>1, AskedSame
  <2> QED
    BY <1>7, <2>2 DEF Raised
<1>8. ASSUME NEW t \in Threads, \A n \in s.taken[t] : r.mprio[n] = s.mprio[n]
      PROVE  t = x \/ Least(s.prio[t], Wanted(s, t)) => Least(r.prio[t], Wanted(r, t))
  <2>1. Wanted(r, t) = Wanted(s, t)
    BY <1>0, <1>6, <1>8, WantedSame
  <2> QED
    BY <1>5, <2>1
<1>9. CASE u.next = NULL
  <2>1. Raised(r)
    BY <1>2, <1>7, <1>9 DEF Raised
  <2>2. RightBut(r, NULL)
    BY <1>2, <1>8, <1>9 DEF RightBut
  <2> QED
    BY <1>1, <1>3, <1>4, <1>9, <2>1, <2>2 DEF Walks, r, u
<1>10. CASE u.next # NULL
  <2>1. PICK m \in Mutexes :
           /\ WaitsAt(s, x, m) /\ u.next = s.owner[m]
           /\ \A n \in Mutexes \ {m} : r.mprio[n] = s.mprio[n]
           /\ Least(r.mprio[m], Asked(r, m))
    BY <1>2, <1>10
  <2> DEFINE y == u.next
             w == _thread_get_mutex_priority(r, y)
  <2>2. y \in Threads /\ y # x /\ m \in s.taken[y] /\ \A t \in Threads \ {y} : m \notin s.taken[t]
    BY <1>1, <1>10, <2>1 DEF Known
  <2> HIDE DEF y
  <2>3. Raised(r)
    <3>1. SUFFICES ASSUME NEW n \in Mutexes, n # m PROVE Least(r.mprio[n], Asked(r, n))
      BY <2>1 DEF Raised
    <3>2. ~WaitsAt(s, x, n)
      BY <2>1, <3>1 DEF WaitsAt
    <3> QED
      BY <1>7, <2>1, <3>1, <3>2
  <2>4. RightBut(r, y)
    <3>1. SUFFICES ASSUME NEW t \in Threads, t # y PROVE Least(r.prio[t], Wanted(r, t))
      BY DEF RightBut
    <3>2. \A n \in s.taken[t] : r.mprio[n] = s.mprio[n]
      BY <1>0, <2>1, <2>2, <3>1
    <3> QED
      BY <1>8, <3>1, <3>2 DEF RightBut
  <2>5. r.mprio[m] = s.mprio[m] \/ Turned(c, up, s.mprio[m], r.mprio[m])
    <3>1. x \in Waiters(s, m) /\ Waiters(r, m) = Waiters(s, m)
      BY <1>4, <2>1 DEF Waiters
    <3>2. Turned(c, up, s.prio[x], r.prio[x]) /\ Least(s.mprio[m], Asked(s, m))
      BY <1>5 DEF Raised
    <3> QED
      BY <1>0, <1>3, <1>5, <2>1, <3>1, <3>2, AskedTurns
  <2>6. Least(w, Wanted(r, y))
    BY <1>3, <1>4, <2>2, GetsLeast
  <2>7. Least(s.prio[y], Wanted(s, y))
    BY <2>2 DEF RightBut
  <2> HIDE DEF w
  <2>8. w = s.prio[y] \/ Turned(c, up, s.prio[y], w)
    <3>1. r.taken[y] = s.taken[y] /\ r.base[y] = s.base[y]
      BY <1>6
    <3> QED
      BY <1>0, <1>3, <2>1, <2>2, <2>5, <2>6, <2>7, <3>1, WantedTurns
  <2>9. r.prio[y] = s.prio[y]
    BY <1>5, <2>2
  <2>10. w = r.prio[y] \/ Turned(c, up, r.prio[y], w)
    BY <2>8, <2>9
  <2> QED
    BY <1>3, <1>4, <2>2, <2>3, <2>4, <2>10 DEF Walks, r, u, w, y
<1> QED
  BY <1>9, <1>10

(* The threads whose priority can still be turned.                         *)
Ahead(s, c, up) == {t \in Threads : IF up THEN s.prio[t] > c ELSE s.prio[t] = c}

(* There are so many.                                                      *)
LEMMA AheadIs ==
  ASSUME NEW s, NEW c, NEW up
  PROVE  /\ Cardinality(Ahead(s, c, up)) \in Nat /\ Cardinality(Ahead(s, c, up)) <= Cardinality(Threads)
         /\ IsFiniteSet(Ahead(s, c, up)) /\ Cardinality(Threads) \in Nat
<1>1. Ahead(s, c, up) \subseteq Threads /\ IsFiniteSet(Threads)
  BY ThreadsFinite DEF Ahead
<1>2. IsFiniteSet(Ahead(s, c, up)) /\ Cardinality(Ahead(s, c, up)) <= Cardinality(Threads)
  BY <1>1, FS_Subset
<1> QED
  BY <1>1, <1>2, FS_CardinalityType

(* A turned priority is not turned again.                                  *)
LEMMA AheadLess ==
  ASSUME NEW s, Lists(s), NEW x \in Threads, NEW q \in Nat, NEW c \in Nat, NEW up \in BOOLEAN,
         Turned(c, up, s.prio[x], q), NEW r, r.prio = [s.prio EXCEPT ![x] = q]
  PROVE  Cardinality(Ahead(r, c, up)) = Cardinality(Ahead(s, c, up)) - 1
<1>1. s.prio \in [Threads -> Priorities]
  BY DEF Lists, Inv, Sound, Typed
<1>2. x \in Ahead(s, c, up)
  BY DEF Ahead, Turned
<1>3. x \notin Ahead(r, c, up)
  BY <1>1 DEF Ahead, Turned
<1>4. \A t \in Threads \ {x} : t \in Ahead(r, c, up) <=> t \in Ahead(s, c, up)
  BY <1>1 DEF Ahead
<1>5. Ahead(r, c, up) \subseteq Threads /\ Ahead(s, c, up) \subseteq Threads
  BY DEF Ahead
<1>6. Ahead(r, c, up) = Ahead(s, c, up) \ {x}
  BY <1>2, <1>3, <1>4, <1>5
<1>7. IsFiniteSet(Ahead(s, c, up))
  BY AheadIs
<1> QED
  BY <1>2, <1>6, <1>7, FS_RemoveElement, ZenonT(60)

(* Each call leaves fewer of them.                                         *)
Counts(acc, c, up, i) == acc.next = NULL \/ Cardinality(Ahead(acc.s, c, up)) + i < Cardinality(Threads)

(* The call for the next owner.                                            *)
LEMMA NextWalks ==
  ASSUME NEW acc, acc = [s |-> acc.s, next |-> acc.next], NEW c \in Nat, NEW up \in BOOLEAN, Walks(acc, c, up),
         NEW i \in Nat, Counts(acc, c, up, i)
  PROVE  Walks(UpdateNext(acc), c, up) /\ Counts(UpdateNext(acc), c, up, i + 1)
<1> DEFINE y == acc.next
           q == _thread_get_mutex_priority(acc.s, y)
           u == UpdateOne(acc.s, y, q)
<1>0. /\ Chainable(acc.s) /\ Lists(acc.s) /\ IpcTyped(acc.s) /\ Known(acc.s) /\ Raised(acc.s) /\ RightBut(acc.s, y)
      /\ y \in Threads \cup {NULL} /\ (y # NULL => q = acc.s.prio[y] \/ Turned(c, up, acc.s.prio[y], q))
  BY DEF Walks, Chainable, Lists
<1>1. CASE y = NULL
  BY <1>1 DEF UpdateNext, Counts
<1>2. CASE y # NULL /\ q = acc.s.prio[y]
  <2>1. UpdateNext(acc) = [s |-> acc.s, next |-> NULL]
    BY <1>2 DEF UpdateNext
  <2>2. Least(q, Wanted(acc.s, y))
    BY <1>0, <1>2, GetsLeast
  <2> HIDE DEF q
  <2>3. RightBut(acc.s, NULL)
    BY <1>0, <1>2, <2>2 DEF RightBut
  <2> QED
    BY <1>0, <2>1, <2>3 DEF Walks, Counts
<1>3. CASE y # NULL /\ q # acc.s.prio[y]
  <2>1. UpdateNext(acc) = u
    BY <1>3 DEF UpdateNext
  <2>2. y \in Threads /\ Turned(c, up, acc.s.prio[y], q)
    BY <1>0, <1>3
  <2>3. q \in Priorities /\ q \in Nat
    <3>1. q \in Priorities
      BY <1>0, <2>2, MutexPriorityIs
    <3> QED
      BY <3>1 DEF Priorities
  <2>4. Least(q, Wanted(acc.s, y))
    BY <1>0, <2>2, GetsLeast
  <2> HIDE DEF q, y
  <2>5. Walks(u, c, up)
    BY <1>0, <2>2, <2>3, <2>4, OneWalks
  <2>6. u.s.prio = [acc.s.prio EXCEPT ![y] = q]
    BY <1>0, <2>2, <2>3, UpdateOneIs
  <2> HIDE DEF u
  <2>7. Cardinality(Ahead(u.s, c, up)) = Cardinality(Ahead(acc.s, c, up)) - 1
    BY <1>0, <2>2, <2>3, <2>6, AheadLess
  <2>8. Cardinality(Ahead(acc.s, c, up)) + i < Cardinality(Threads)
    BY <1>3 DEF Counts, y
  <2>9. /\ Cardinality(Ahead(acc.s, c, up)) \in Nat /\ Cardinality(Ahead(u.s, c, up)) \in Nat
        /\ Cardinality(Threads) \in Nat
    BY AheadIs
  <2>10. Cardinality(Ahead(u.s, c, up)) + (i + 1) < Cardinality(Threads)
    BY <2>7, <2>8, <2>9
  <2> QED
    BY <2>1, <2>5, <2>10 DEF Counts
<1> QED
  BY <1>1, <1>2, <1>3

(* _thread_update_priority leaves every priority right, if its thread's is *)
(* turned and the others are right before.                                 *)
LEMMA WalkEnds ==
  ASSUME NEW s, Chainable(s), Known(s), Raised(s), NEW x \in Threads, RightBut(s, x), NEW q \in Priorities,
         Least(q, Wanted(s, x)), NEW c \in Nat, NEW up \in BOOLEAN, Turned(c, up, s.prio[x], q)
  PROVE  Lent(_thread_update_priority(s, x, q))
<1> DEFINE n == 2 * Cardinality(Threads)
           g == ChainOf(s, x, q)
           Good(i) == Handed(s, g[i]) /\ Walks(g[i], c, up) /\ Counts(g[i], c, up, i)
           T == {i \in 0 .. n : Good(i)}
<1>0. n \in Nat /\ Cardinality(Threads) \in Nat
  BY ThreadsFinite, AheadIs
<1>1. /\ g[0] = UpdateOne(s, x, q)
      /\ \A i \in 1 .. n : g[i] = UpdateNext(g[i - 1])
      /\ _thread_update_priority(s, x, q) = g[n].s
  BY ChainIs
<1> DEFINE u == UpdateOne(s, x, q)
<1> HIDE DEF n, g
<1>2. 0 \in T
  <2>1. Handed(s, u)
    BY UpdatesOne, OnePair DEF Handed
  <2>2. Walks(u, c, up)
    BY OneWalks
  <2>3. u.s.prio = [s.prio EXCEPT ![x] = q]
    BY UpdateOneIs
  <2> HIDE DEF u
  <2>4. Cardinality(Ahead(u.s, c, up)) = Cardinality(Ahead(s, c, up)) - 1
    <3>1. Lists(s) /\ q \in Nat /\ x \in Threads /\ Turned(c, up, s.prio[x], q)
      BY DEF Chainable, Priorities
    <3> QED
      BY <2>3, <3>1, AheadLess
  <2>5. Cardinality(Ahead(s, c, up)) \in Nat /\ Cardinality(Ahead(s, c, up)) <= Cardinality(Threads)
    BY AheadIs
  <2>6. Cardinality(Ahead(u.s, c, up)) + 0 < Cardinality(Threads)
    BY <1>0, <2>4, <2>5
  <2>7. Counts(u, c, up, 0)
    BY <2>6 DEF Counts
  <2>8. Good(0)
    BY <1>1, <2>1, <2>2, <2>7 DEF u
  <2> HIDE DEF Good
  <2> QED
    BY <1>0, <2>8
<1>3. ASSUME NEW i \in 1 .. n, i - 1 \in T PROVE i \in T
  <2>1. Handed(s, g[i - 1]) /\ g[i] = UpdateNext(g[i - 1]) /\ Walks(g[i - 1], c, up) /\ Counts(g[i - 1], c, up, i - 1)
    BY <1>1, <1>3
  <2>2. Handed(s, g[i])
    BY <2>1, UpdatesNext
  <2>3. g[i - 1] = [s |-> g[i - 1].s, next |-> g[i - 1].next]
    BY <2>1 DEF Handed
  <2>4. i - 1 \in Nat /\ (i - 1) + 1 = i
    BY <1>0
  <2>5. Walks(g[i], c, up) /\ Counts(g[i], c, up, (i - 1) + 1)
    BY <2>1, <2>3, <2>4, NextWalks
  <2>6. Good(i)
    BY <2>2, <2>4, <2>5
  <2> HIDE DEF Good
  <2> QED
    BY <1>0, <2>6
<1>4. n \in T
  <2>1. T \in SUBSET (0 .. n)
    OBVIOUS
  <2> HIDE DEF T
  <2>2. \A i \in 0 .. n : i \in T
    BY <1>0, <1>2, <1>3, <2>1, UpTo
  <2> QED
    BY <1>0, <2>2
<1>5. Walks(g[n], c, up) /\ Counts(g[n], c, up, n)
  BY <1>4
<1>6. g[n].next = NULL
  <2>1. Cardinality(Ahead(g[n].s, c, up)) \in Nat
    BY AheadIs
  <2>2. ~(Cardinality(Ahead(g[n].s, c, up)) + n < Cardinality(Threads))
    BY <1>0, <2>1 DEF n
  <2> QED
    BY <1>5, <2>2 DEF Counts
<1> QED
  BY <1>1, <1>5, <1>6 DEF Walks, Lent

-----------------------------------------------------------------------------
(* Calls that leave priorities alone.                                      *)

(* The fields priorities rest on.                                          *)
PriorityFields == {"base", "prio", "taken", "mprio", "ceil", "owner", "obj"}

(* They are the same, and so are the waiters of every mutex.               *)
Still(s, r) ==
  /\ r.base = s.base /\ r.prio = s.prio /\ r.taken = s.taken /\ r.mprio = s.mprio
  /\ r.ceil = s.ceil /\ r.owner = s.owner
  /\ \A m \in Mutexes : r.obj[m] = s.obj[m] /\ \A t \in Threads : WaitsAt(r, t, m) <=> WaitsAt(s, t, m)

(* Then all priorities are right again.                                    *)
LEMMA LentStill ==
  ASSUME NEW s, Lent(s), NEW r, Still(s, r)
  PROVE  Lent(r)
<1>1. Known(r)
  BY DEF Lent, Known, Still
<1>2. \A m \in Mutexes : Waiters(r, m) = Waiters(s, m)
  BY DEF Still, Waiters
<1>3. \A m \in Mutexes : Asked(r, m) = Asked(s, m)
  BY <1>2 DEF Still, Asked
<1>4. \A t \in Threads : Wanted(r, t) = Wanted(s, t)
  BY DEF Still, Wanted
<1>5. Raised(r)
  BY <1>3 DEF Lent, Raised, Still
<1>6. RightBut(r, NULL)
  BY <1>4 DEF Lent, RightBut, Still
<1> QED
  BY <1>1, <1>5, <1>6 DEF Lent

(* One change follows the other.                                           *)
LEMMA StillTwice ==
  ASSUME NEW s, NEW q, NEW r, Still(s, q), Still(q, r)
  PROVE  Still(s, r)
BY DEF Still

(* No change at all.                                                       *)
LEMMA StillNot ==
  ASSUME NEW s
  PROVE  Still(s, s)
BY DEF Still

(* A change of other fields with the same waiters.                         *)
LEMMA StillChanges ==
  ASSUME NEW s, Shape(s), IpcFields \subseteq DOMAIN s, NEW r, NEW F, Changes(s, r, F), F \cap PriorityFields = {},
         \A t \in Threads, m \in Mutexes : WaitsAt(r, t, m) <=> WaitsAt(s, t, m)
  PROVE  Still(s, r)
<1>2. /\ "base" \notin F /\ "prio" \notin F /\ "taken" \notin F /\ "mprio" \notin F /\ "ceil" \notin F
      /\ "owner" \notin F /\ "obj" \notin F
  BY DEF PriorityFields
<1>3. r.prio = s.prio
  BY <1>2, Kept
<1>4. r.base = s.base /\ r.taken = s.taken /\ r.mprio = s.mprio /\ r.ceil = s.ceil /\ r.owner = s.owner /\ r.obj = s.obj
  BY <1>2, KeptIpc
<1> QED
  BY <1>3, <1>4 DEF Still

(* A change that does not say who waits.                                   *)
LEMMA StillFields ==
  ASSUME NEW s, Lists(s), NEW r, NEW F, Changes(s, r, F), F \cap PriorityFields = {}, "stat" \notin F, "at" \notin F
  PROVE  Still(s, r)
<1>1. IpcFields \subseteq DOMAIN s /\ Shape(s)
  BY DEF Lists, IpcTyped, Inv, Sound, Typed
<1>2. r.stat = s.stat /\ r.at = s.at
  BY <1>1, Kept, KeptIpc
<1>3. \A t \in Threads, m \in Mutexes : WaitsAt(r, t, m) <=> WaitsAt(s, t, m)
  BY <1>2 DEF WaitsAt
<1> QED
  BY <1>1, <1>3, StillChanges

(* The status of a thread that does not wait changes, and what it waits    *)
(* for is no mutex.                                                        *)
LEMMA StillOne ==
  ASSUME NEW s, Lists(s), NEW r, NEW F, Changes(s, r, F), F \cap PriorityFields = {},
         NEW t \in Threads, s.stat[t] # "SUSPEND" \/ s.at[t] \notin Mutexes,
         NEW x, r.stat = [s.stat EXCEPT ![t] = x],
         NEW o, r.at = [s.at EXCEPT ![t] = o], x # "SUSPEND" \/ o \notin Mutexes
  PROVE  Still(s, r)
<1>1. /\ s.stat \in [Threads -> Stats] /\ s.at \in [Threads -> Objects \cup {NULL, Sleep}]
      /\ Shape(s) /\ IpcFields \subseteq DOMAIN s
  BY DEF Lists, Inv, Sound, Typed, IpcTyped
<1>2. ASSUME NEW u \in Threads, NEW m \in Mutexes PROVE WaitsAt(r, u, m) <=> WaitsAt(s, u, m)
  <2>1. CASE u = t
    BY <1>1, <2>1 DEF WaitsAt
  <2>2. CASE u # t
    BY <1>1, <2>2 DEF WaitsAt
  <2> QED
    BY <2>1, <2>2
<1> QED
  BY <1>1, <1>2, StillChanges

(* rt_schedule.                                                            *)
LEMMA StillSchedule ==
  ASSUME NEW s, Lists(s), Lists(rt_schedule(s))
  PROVE  Still(s, rt_schedule(s))
<1> DEFINE r == rt_schedule(s)
<1>1. Inv(s) /\ Queues(s) /\ Queues(r) /\ s.lock \in Nat /\ Shape(s) /\ IpcFields \subseteq DOMAIN s
  BY DEF Lists, Inv, Sound, Typed, IpcTyped
<1>2. CASE s.lock = 0
  <2>1. Changes(s, r, Rescheduled) /\ \A h \in Heads \ Priorities : r.list[h] = s.list[h]
    BY <1>1, <1>2, Scheduled
  <2> HIDE DEF r
  <2>2. ASSUME NEW t \in Threads, NEW m \in Mutexes PROVE WaitsAt(r, t, m) <=> WaitsAt(s, t, m)
    <3>1. m \in Objects /\ m \in Heads \ Priorities
      BY MutexIs, HeadsAre
    <3> QED
      BY <1>1, <2>1, <3>1 DEF Queues
  <2>3. Rescheduled \cap PriorityFields = {}
    BY DEF Rescheduled, PriorityFields
  <2> QED
    BY <1>1, <2>1, <2>2, <2>3, StillChanges DEF r
<1>3. CASE s.lock # 0
  <2>1. r = s
    BY <1>3 DEF rt_schedule
  <2> QED
    BY <2>1, StillNot
<1> QED
  BY <1>2, <1>3

(* Also while lists are not in order, if the current thread does not wait  *)
(* for a mutex.                                                            *)
LEMMA StillSwitch ==
  ASSUME NEW s, Inv(s), IpcFields \subseteq DOMAIN s, s.lock = 0, s.stat[s.cur] # "SUSPEND" \/ s.at[s.cur] \notin Mutexes
  PROVE  Still(s, rt_schedule(s))
<1> DEFINE r == rt_schedule(s)
<1>1. Changes(s, r, Rescheduled) /\ Switch(s, r) /\ Shape(s)
  BY Scheduled DEF Inv, Sound, Typed
<1> HIDE DEF r
<1>2. r.at = s.at
  <2>1. "at" \notin Rescheduled
    BY DEF Rescheduled
  <2> QED
    BY <1>1, <2>1, KeptIpc
<1>3. ASSUME NEW t \in Threads, NEW m \in Mutexes PROVE WaitsAt(r, t, m) <=> WaitsAt(s, t, m)
  <2>1. CASE t # s.cur /\ t # r.cur
    BY <1>1, <1>2, <2>1 DEF Switch, WaitsAt
  <2>2. CASE t # s.cur /\ t = r.cur
    BY <1>1, <1>2, <2>2 DEF Switch, WaitsAt
  <2>3. CASE t = s.cur /\ t # r.cur
    BY <1>1, <1>2, <2>3 DEF Switch, WaitsAt
  <2>4. CASE t = s.cur /\ t = r.cur
    BY <1>1, <1>2, <2>4 DEF Switch, WaitsAt
  <2> QED
    BY <2>1, <2>2, <2>3, <2>4
<1>4. Rescheduled \cap PriorityFields = {}
  BY DEF Rescheduled, PriorityFields
<1> QED
  BY <1>1, <1>3, <1>4, StillChanges DEF r

(* Threads that wait for no mutex are woken.                               *)
LEMMA StillWoke ==
  ASSUME NEW s, NEW r, NEW S, Woke(s, r, S), \A u \in S : s.at[u] \notin Mutexes
  PROVE  Still(s, r)
<1>1. ASSUME NEW t \in Threads, NEW m \in Mutexes PROVE WaitsAt(r, t, m) <=> WaitsAt(s, t, m)
  <2>1. CASE t \in S
    BY <2>1 DEF Woke, WaitsAt
  <2>2. CASE t \notin S
    BY <2>2 DEF Woke, WaitsAt
  <2> QED
    BY <2>1, <2>2
<1> QED
  BY <1>1 DEF Still, Woke, SameBooks

(* The counts of a semaphore are set.                                      *)
LEMMA StillCounts ==
  ASSUME NEW s, Lists(s), NEW o, NEW v, NEW n
  PROVE  /\ Still(s, [s EXCEPT !.value[o] = v, !.net[o] = n])
         /\ Still(s, [s EXCEPT !.net[o] = n])
<1> DEFINE a == [s EXCEPT !.value[o] = v, !.net[o] = n]
           b == [s EXCEPT !.net[o] = n]
           F == {"value", "net"}
<1>1. IpcFields \subseteq DOMAIN s /\ Shape(s)
  BY DEF Lists, IpcTyped, Inv, Sound, Typed
<1>2. Changes(s, a, F) /\ Changes(s, b, F)
  BY <1>1 DEF Shape, Changes, IpcFields
<1>3. F \cap PriorityFields = {} /\ "stat" \notin F /\ "at" \notin F
  BY DEF PriorityFields
<1> HIDE DEF a, b, F
<1>4. Still(s, a) /\ Still(s, b)
  BY <1>2, <1>3, StillFields
<1> QED
  BY <1>4 DEF a, b

(* The error of a thread is set.                                           *)
LEMMA StillError ==
  ASSUME NEW s, Lists(s), NEW t \in Threads, NEW e \in Errors
  PROVE  Lists([s EXCEPT !.err[t] = e]) /\ Still(s, [s EXCEPT !.err[t] = e])
<1> DEFINE r == [s EXCEPT !.err[t] = e]
<1>1. Lists(r) /\ Changes(s, r, {"err"})
  BY ErrorSet
<1>2. {"err"} \cap PriorityFields = {} /\ "stat" \notin {"err"} /\ "at" \notin {"err"}
  BY DEF PriorityFields
<1> HIDE DEF r
<1> QED
  BY <1>1, <1>2, StillFields DEF r

(* _rt_sem_take.                                                           *)
LEMMA SemTakeStill ==
  ASSUME NEW s, Settled(s), s.cur # Idle, s.at[s.cur] = NULL, NEW o \in Sems, NEW wait \in Waits
  PROVE  Still(s, _rt_sem_take(s, o, wait))
<1>0. /\ Lists(s) /\ s.cur \in Threads /\ Up(s, s.cur) /\ o \in Objects /\ o \notin Mutexes
      /\ s.stat \in [Threads -> Stats]
  BY SettledIs, SemIs
<1>1. CASE s.value[o] > 0
  <2> DEFINE v == s.value[o] - 1
             n == s.net[o] - 1
             r == [s EXCEPT !.value[o] = v, !.net[o] = n]
  <2>1. _rt_sem_take(s, o, wait) = r
    BY <1>1 DEF _rt_sem_take
  <2> HIDE DEF v, n
  <2>2. Still(s, r)
    BY <1>0, StillCounts, ZenonT(60)
  <2> HIDE DEF r
  <2> QED
    BY <2>1, <2>2
<1>2. CASE ~(s.value[o] > 0) /\ wait = "no"
  <2>1. _rt_sem_take(s, o, wait) = s
    BY <1>2 DEF _rt_sem_take
  <2> QED
    BY <2>1, StillNot
<1>3. CASE ~(s.value[o] > 0) /\ wait # "no"
  <2> DEFINE timed == wait = "timed"
             t == s.cur
             x == [s EXCEPT !.err[t] = "EINTR"]
             w == Wait(x, t, o, timed)
             G == {"stat", "group", "list", "timer", "at"}
  <2>1. _rt_sem_take(s, o, wait) = rt_schedule(w)
    BY <1>3 DEF _rt_sem_take
  <2>2. timed \in BOOLEAN
    OBVIOUS
  <2> HIDE DEF timed
  <2>3. Lists(w)
    BY <1>3, <2>2, SemWaits
  <2>4. Lists(x) /\ Still(s, x) /\ x.stat = s.stat
    <3>1. "EINTR" \in Errors
      BY DEF Errors
    <3>2. x.stat = s.stat
      BY <1>0, <3>1, ErrorSet
    <3> HIDE DEF x
    <3> QED
      BY <1>0, <3>1, <3>2, StillError DEF x
  <2>5. Lists(rt_schedule(w))
    <3>1. Settled(_rt_sem_take(s, o, wait))
      BY SemTaken
    <3> HIDE DEF w
    <3> QED
      BY <2>1, <3>1 DEF Settled
  <2> HIDE DEF x
  <2>6. Changes(x, w, G) /\ w.stat = [x.stat EXCEPT ![t] = "SUSPEND"] /\ w.at = [x.at EXCEPT ![t] = o]
    <3>1. t \in Threads \ {Idle} /\ Up(x, t)
      BY <1>0, <2>4 DEF Up
    <3> HIDE DEF t
    <3> QED
      BY <1>0, <2>2, <2>4, <3>1, WaitBegins
  <2> HIDE DEF w
  <2>7. Still(x, w)
    <3>1. G \cap PriorityFields = {}
      BY DEF PriorityFields
    <3>2. x.stat[t] # "SUSPEND"
      BY <1>0, <2>4 DEF Up
    <3> HIDE DEF G
    <3> QED
      BY <1>0, <2>4, <2>6, <3>1, <3>2, StillOne
  <2>8. Still(w, rt_schedule(w))
    BY <2>3, <2>5, StillSchedule
  <2>9. Still(s, w)
    BY <2>4, <2>7, StillTwice
  <2> QED
    BY <2>1, <2>8, <2>9, StillTwice
<1> QED
  BY <1>1, <1>2, <1>3

(* rt_sem_release.                                                         *)
LEMMA SemReleaseStill ==
  ASSUME NEW s, Settled(s), NEW o \in Sems
  PROVE  Still(s, rt_sem_release(s, o))
<1>0. /\ Lists(s) /\ Shape(s) /\ IpcFields \subseteq DOMAIN s /\ o \in Objects /\ o \notin Mutexes
      /\ s.value \in [Sems -> 0 .. SemMax] /\ s.net \in [Sems -> Int]
  BY SettledIs, SemIs
<1>1. CASE s.list[o] # <<>>
  <2> DEFINE v == s.value[o]
             n == s.net[o] + 1
             q == [s EXCEPT !.net[o] = n]
             t == Head(q.list[o])
             r == rt_thread_resume([q EXCEPT !.err[t] = "EOK"], t)
  <2>1. rt_sem_release(s, o) = rt_schedule(r)
    BY <1>1 DEF rt_sem_release, _ipc_list_resume
  <2>2. v \in 0 .. SemMax /\ n \in Int
    BY <1>0
  <2>3. /\ Changes(s, q, {"value", "net"})
        /\ q.value = [s.value EXCEPT ![o] = v] /\ q.net = [s.net EXCEPT ![o] = n]
    <3> HIDE DEF n
    <3> QED
      BY <1>0 DEF Shape, Changes, IpcFields
  <2>4. Still(s, q)
    <3> HIDE DEF n
    <3> QED
      BY <1>0, StillCounts, ZenonT(60)
  <2>5. Lists(q) /\ q.list = s.list
    <3> HIDE DEF v, n, q
    <3> QED
      BY <1>0, <2>2, <2>3, CountsSet
  <2> HIDE DEF v, n, q
  <2>6. t \in Threads /\ WaitsAt(q, t, o)
    <3>1. q.list[o] \in Seq(Threads) /\ q.list[o] # <<>> /\ o \in Heads
      BY <1>0, <1>1, <2>5, HeadsAre DEF Lists, Inv, Sound, Typed
    <3>2. t \in Threads /\ On(t, q.list[o])
      BY <3>1, First
    <3> QED
      BY <1>0, <2>5, <3>2 DEF Lists, Queues
  <2>7. Lists(rt_schedule(r))
    <3>1. Settled(rt_sem_release(s, o))
      BY SemReleased
    <3> HIDE DEF r
    <3> QED
      BY <2>1, <3>1 DEF Settled
  <2>8. Woke(q, r, {t})
    <3>1. "EOK" \in Errors /\ q.stat[t] = "SUSPEND"
      BY <2>6 DEF Errors, WaitsAt
    <3> HIDE DEF t
    <3> QED
      BY <2>5, <2>6, <3>1, WakesOne
  <2> HIDE DEF r, t
  <2>9. Still(q, r)
    BY <1>0, <2>6, <2>8, StillWoke DEF WaitsAt
  <2>10. Still(r, rt_schedule(r))
    BY <2>7, <2>8, StillSchedule DEF Woke
  <2> QED
    BY <2>1, <2>4, <2>9, <2>10, StillTwice
<1>2. CASE s.list[o] = <<>> /\ s.value[o] < SemMax
  <2> DEFINE v == s.value[o] + 1
             n == s.net[o] + 1
             r == [s EXCEPT !.value[o] = v, !.net[o] = n]
  <2>1. rt_sem_release(s, o) = r
    BY <1>2 DEF rt_sem_release
  <2> HIDE DEF v, n
  <2>2. Still(s, r)
    BY <1>0, StillCounts, ZenonT(60)
  <2> HIDE DEF r
  <2> QED
    BY <2>1, <2>2
<1>3. CASE s.list[o] = <<>> /\ ~(s.value[o] < SemMax)
  <2>1. rt_sem_release(s, o) = s
    BY <1>3 DEF rt_sem_release
  <2> QED
    BY <2>1, StillNot
<1> QED
  BY <1>1, <1>2, <1>3

(* _ipc_list_resume_all of a semaphore.                                    *)
LEMMA ResumeAllStill ==
  ASSUME NEW s, Lists(s), NEW o \in Sems
  PROVE  Still(s, _ipc_list_resume_all(s, o)) /\ Lists(_ipc_list_resume_all(s, o))
<1> DEFINE q == _ipc_list_resume_all(s, o)
           S == {u \in Threads : WaitsAt(s, u, o)}
<1>1. Woke(s, q, S)
  BY WakesAll, SemIs
<1>2. \A u \in S : s.at[u] \notin Mutexes
  BY SemIs DEF WaitsAt
<1> HIDE DEF q, S
<1>3. Still(s, q)
  BY <1>1, <1>2, StillWoke
<1> QED
  BY <1>1, <1>3 DEF Woke, q

(* rt_sem_control.                                                         *)
LEMMA SemResetStill ==
  ASSUME NEW s, Settled(s), NEW o \in Sems, NEW v \in 0 .. SemMax
  PROVE  Still(s, SemReset(s, o, v))
<1> DEFINE c == Cardinality({t \in Threads : Granted(s, t, o)})
           q == _ipc_list_resume_all(s, o)
           n == v + c
           r == [q EXCEPT !.value[o] = v, !.net[o] = n]
<1>0. Lists(s)
  BY SettledIs
<1>1. SemReset(s, o, v) = rt_schedule(r)
  BY DEF SemReset
<1>2. Still(s, q) /\ Lists(q)
  BY <1>0, ResumeAllStill
<1>3. c \in Nat
  <2>1. c = Cardinality(Holders(s, o))
    BY DEF Holders
  <2> QED
    BY <2>1, HoldersFinite
<1>4. n \in Int
  BY <1>3
<1> HIDE DEF n, q
<1>5. Still(q, r)
  BY <1>2, StillCounts, ZenonT(60)
<1>6. Lists(r)
  <2>1. IpcFields \subseteq DOMAIN q /\ Shape(q) /\ q.value \in [Sems -> 0 .. SemMax] /\ q.net \in [Sems -> Int]
    BY <1>2 DEF Lists, IpcTyped, Inv, Sound, Typed
  <2>2. /\ Changes(q, r, {"value", "net"})
        /\ r.value = [q.value EXCEPT ![o] = v] /\ r.net = [q.net EXCEPT ![o] = n]
    BY <2>1 DEF Shape, Changes, IpcFields
  <2> HIDE DEF r
  <2> QED
    BY <1>2, <1>4, <2>2, CountsSet
<1>7. Settled(SemReset(s, o, v))
  BY SemWasReset
<1> HIDE DEF r
<1>8. Still(r, rt_schedule(r))
  BY <1>1, <1>6, <1>7, StillSchedule DEF Settled
<1> QED
  BY <1>1, <1>2, <1>5, <1>8, StillTwice

(* rt_sem_detach and rt_sem_delete.                                        *)
LEMMA SemRemoveStill ==
  ASSUME NEW s, Settled(s), NEW o \in Sems, NEW how \in {"detached", "freed"}
  PROVE  Still(s, SemRemove(s, o, how))
<1> DEFINE q == _ipc_list_resume_all(s, o)
           r == [q EXCEPT !.obj[o] = how]
<1>0. Lists(s)
  BY SettledIs
<1>1. Still(s, q) /\ Lists(q)
  BY <1>0, ResumeAllStill
<1>2. SemRemove(s, o, how) = r
  BY DEF SemRemove
<1> HIDE DEF q
<1>3. q.obj \in [Objects -> Conditions] /\ IpcFields \subseteq DOMAIN q /\ Shape(q)
  BY <1>1 DEF Lists, IpcTyped, Inv, Sound, Typed
<1>4. Changes(q, r, {"obj"}) /\ r.obj = [q.obj EXCEPT ![o] = how]
  BY <1>3 DEF Shape, Changes, IpcFields
<1> HIDE DEF r
<1>5. \A m \in Mutexes : r.obj[m] = q.obj[m]
  BY <1>3, <1>4, MutexIs
<1>6. /\ r.base = q.base /\ r.taken = q.taken /\ r.mprio = q.mprio /\ r.ceil = q.ceil /\ r.owner = q.owner
      /\ r.at = q.at /\ r.stat = q.stat /\ r.prio = q.prio
  BY <1>3, <1>4, Kept, KeptIpc
<1>7. Still(q, r)
  BY <1>5, <1>6 DEF Still, WaitsAt
<1> QED
  BY <1>1, <1>2, <1>7, StillTwice

(* The running thread leaves the call it waited in.                        *)
LEMMA ReturnStill ==
  ASSUME NEW s, Settled(s), NEW r, NEW F, Changes(s, r, F), F \cap PriorityFields = {}, "stat" \notin F,
         r.at = [s.at EXCEPT ![s.cur] = NULL]
  PROVE  Still(s, r)
<1>0. Lists(s) /\ s.cur \in Threads /\ Up(s, s.cur) /\ s.stat \in [Threads -> Stats] /\ Shape(s)
  BY SettledIs
<1>1. r.stat = s.stat
  BY <1>0, Kept
<1>2. r.stat = [s.stat EXCEPT ![s.cur] = s.stat[s.cur]] /\ s.stat[s.cur] # "SUSPEND"
  BY <1>0, <1>1 DEF Up
<1> QED
  BY <1>0, <1>2, StillOne

(* Each of the calls; a waiter of a mutex never has an error, unless the   *)
(* mutex was detached.                                                     *)
LEMMA ReturnsStill ==
  ASSUME NEW s, Settled(s), Known(s), s.at[s.cur] # NULL
  PROVE  /\ \A o \in Sems : s.at[s.cur] = o => Still(s, SemReturn(s, o))
         /\ \A m \in Mutexes : s.at[s.cur] = m => Still(s, MutexReturn(s, m))
         /\ Still(s, SleepReturn(s))
<1> DEFINE t == s.cur
<1>0. Shape(s) /\ IpcFields \subseteq DOMAIN s /\ t \in Threads
  BY SettledIs
<1>1. ASSUME NEW o \in Sems PROVE Still(s, SemReturn(s, o))
  <2> DEFINE n == IF s.err[t] = "EOK" THEN s.net[o] - 1 ELSE s.net[o]
             r == [s EXCEPT !.at[t] = NULL, !.net[o] = n]
             F == {"at", "net"}
  <2>1. SemReturn(s, o) = r
    BY DEF SemReturn
  <2>2. Changes(s, r, F) /\ r.at = [s.at EXCEPT ![t] = NULL]
    <3> HIDE DEF n
    <3> QED
      BY <1>0 DEF Shape, Changes, IpcFields
  <2>3. F \cap PriorityFields = {} /\ "stat" \notin F
    BY DEF PriorityFields
  <2> HIDE DEF r, F
  <2> QED
    BY <2>1, <2>2, <2>3, ReturnStill
<1>2. ASSUME NEW m \in Mutexes, s.at[t] = m PROVE Still(s, MutexReturn(s, m))
  <2> DEFINE r == [[s EXCEPT !.at[t] = NULL] EXCEPT !.got[m][t] = @ + 1]
             F == {"at", "got"}
  <2>1. s.err[t] = "EOK"
    <3>1. OwnerOf(s, m)
      BY DEF Settled, Books, Owners, Known
    <3> QED
      BY <1>0, <1>2, <3>1 DEF OwnerOf
  <2>2. MutexReturn(s, m) = r
    BY <2>1 DEF MutexReturn
  <2>3. Changes(s, r, F) /\ r.at = [s.at EXCEPT ![t] = NULL]
    BY <1>0 DEF Shape, Changes, IpcFields
  <2>4. F \cap PriorityFields = {} /\ "stat" \notin F
    BY DEF PriorityFields
  <2> HIDE DEF r, F
  <2> QED
    BY <2>2, <2>3, <2>4, ReturnStill
<1>3. Still(s, SleepReturn(s))
  <2> DEFINE e == IF s.err[t] = "ETIMEOUT" THEN "EOK" ELSE s.err[t]
             r == [s EXCEPT !.at[t] = NULL, !.err[t] = e]
             F == {"at", "err"}
  <2>1. SleepReturn(s) = r
    BY DEF SleepReturn
  <2>2. Changes(s, r, F) /\ r.at = [s.at EXCEPT ![t] = NULL]
    <3> HIDE DEF e
    <3> QED
      BY <1>0 DEF Shape, Changes, IpcFields
  <2>3. F \cap PriorityFields = {} /\ "stat" \notin F
    BY DEF PriorityFields
  <2> HIDE DEF r, F
  <2> QED
    BY <2>1, <2>2, <2>3, ReturnStill
<1> QED
  BY <1>1, <1>2, <1>3

(* The calls on threads.                                                   *)

(* rt_thread_suspend of the running thread.                                *)
LEMMA SuspendStill ==
  ASSUME NEW s, Settled(s), s.cur # Idle, s.at[s.cur] = NULL
  PROVE  LET q == rt_thread_suspend(s, s.cur) IN
         /\ Still(s, q) /\ Lists(q) /\ q.lock = 0 /\ q.cur = s.cur /\ q.at = s.at
         /\ Still(s, rt_schedule(q))
<1> DEFINE t == s.cur
           q == rt_thread_suspend(s, t)
           G == {"stat", "group", "list", "timer"}
<1>0. /\ Lists(s) /\ Inv(s) /\ t \in Threads \ {Idle} /\ Up(s, t) /\ s.stat \in [Threads -> Stats] /\ s.lock = 0
      /\ s.at \in [Threads -> Objects \cup {NULL, Sleep}] /\ NULL \notin Mutexes
  BY SettledIs, MutexIs DEF Settled, Books, Threadly
<1>1. Changes(s, q, G) /\ q.stat = [s.stat EXCEPT ![t] = "SUSPEND"]
  BY <1>0, Suspended DEF Up
<1>2. Lists(q) /\ SameIpc(s, q) /\ q.lock = s.lock /\ q.cur = s.cur
  BY SuspendsSelf
<1> HIDE DEF q
<1>3. Still(s, q)
  <2>1. G \cap PriorityFields = {}
    BY DEF PriorityFields
  <2>2. q.at = [s.at EXCEPT ![t] = NULL] /\ s.stat[t] # "SUSPEND"
    BY <1>0, <1>2 DEF SameIpc, Up
  <2> HIDE DEF G, t
  <2> QED
    BY <1>0, <1>1, <2>1, <2>2, StillOne
<1>4. Still(q, rt_schedule(q))
  <2>1. Inv(q) /\ IpcFields \subseteq DOMAIN q /\ q.lock = 0 /\ q.at[q.cur] \notin Mutexes
    BY <1>0, <1>2 DEF Lists, IpcTyped, SameIpc
  <2> QED
    BY <2>1, StillSwitch
<1>5. Still(s, rt_schedule(q))
  BY <1>3, <1>4, StillTwice
<1> QED
  BY <1>0, <1>2, <1>3, <1>5 DEF q, t, SameIpc

(* rt_thread_sleep.                                                        *)
LEMMA SleepStill ==
  ASSUME NEW s, Settled(s), s.cur # Idle, s.at[s.cur] = NULL
  PROVE  Still(s, rt_thread_sleep(s))
<1> DEFINE t == s.cur
           q == rt_thread_suspend(s, t)
           r == [q EXCEPT !.timer = @ \cup {t}, !.err[t] = "EINTR", !.at[t] = Sleep]
           F == {"timer", "err", "at"}
<1>1. Still(s, q) /\ Lists(q) /\ q.lock = 0 /\ q.cur = t /\ q.at = s.at
  BY SuspendStill
<1>2. rt_thread_sleep(s) = rt_schedule(r)
  BY DEF rt_thread_sleep
<1>3. t \in Threads /\ s.at[t] = NULL /\ NULL \notin Mutexes /\ Sleep \notin Mutexes
  BY SettledIs, MutexIs
<1> HIDE DEF q, t
<1>4. Inv(q) /\ Typed(q) /\ Shape(q) /\ IpcFields \subseteq DOMAIN q /\ q.stat \in [Threads -> Stats]
      /\ q.at \in [Threads -> Objects \cup {NULL, Sleep}]
  BY <1>1 DEF Lists, Inv, Sound, Typed, IpcTyped
<1>5. /\ Changes(q, r, F) /\ r.timer = q.timer \cup {t} /\ r.at = [q.at EXCEPT ![t] = Sleep]
  BY <1>4 DEF Shape, Changes, IpcFields, Fields
<1> HIDE DEF r
<1>6. /\ r.cur = q.cur /\ r.stat = q.stat /\ r.prio = q.prio /\ r.list = q.list /\ r.lock = q.lock
      /\ r.group = q.group /\ r.yield = q.yield
  BY <1>4, <1>5, Kept
<1>7. Inv(r)
  <2>1. r.timer \subseteq Threads
    BY <1>3, <1>4, <1>5 DEF Typed
  <2>2. Typed(r)
    BY <1>4, <1>5, <1>6, <2>1 DEF Typed, Changes
  <2>3. F \cap Fields \subseteq {"timer", "yield", "lock"}
    BY DEF Fields
  <2> HIDE DEF F
  <2> QED
    BY <1>4, <1>5, <2>2, <2>3, RunsAgain
<1>8. Still(q, r)
  <2>1. F \cap PriorityFields = {}
    BY DEF PriorityFields
  <2>2. r.stat = [q.stat EXCEPT ![t] = q.stat[t]] /\ q.at[t] \notin Mutexes
    BY <1>1, <1>3, <1>4, <1>6
  <2> HIDE DEF F
  <2> QED
    BY <1>1, <1>3, <1>5, <2>1, <2>2, StillOne
<1>9. Still(r, rt_schedule(r))
  <2>1. r.at[r.cur] \notin Mutexes /\ r.lock = 0 /\ IpcFields \subseteq DOMAIN r
    BY <1>1, <1>3, <1>4, <1>5, <1>6 DEF Changes
  <2> QED
    BY <1>7, <2>1, StillSwitch
<1> QED
  BY <1>1, <1>2, <1>8, <1>9, StillTwice

(* rt_thread_resume of a thread that does not wait for a mutex.            *)
LEMMA ResumeStill ==
  ASSUME NEW s, Settled(s), NEW t \in Threads, s.stat[t] = "SUSPEND", s.at[t] \notin Mutexes
  PROVE  Still(s, rt_thread_resume(s, t))
<1> DEFINE r == rt_thread_resume(s, t)
<1>1. Woke(s, r, {t})
  BY SettledIs, ResumeWakes
<1> HIDE DEF r
<1> QED
  BY <1>1, StillWoke DEF r

(* A timer expires.                                                        *)
LEMMA ExpireStill ==
  ASSUME NEW s, Settled(s), NEW t \in s.timer, s.at[t] \notin Mutexes
  PROVE  Still(s, rt_schedule(_thread_timeout(s, t)))
<1> DEFINE r == rt_thread_resume([s EXCEPT !.err[t] = "ETIMEOUT"], t)
<1>0. Lists(s) /\ Books(s) /\ t \in Threads /\ s.stat[t] = "SUSPEND"
  BY SettledIs DEF Books, Threadly
<1>1. _thread_timeout(s, t) = r
  BY <1>0, TimeoutIs
<1>2. Woke(s, r, {t})
  <2>1. "ETIMEOUT" \in Errors
    BY DEF Errors
  <2> QED
    BY <1>0, <2>1, WakesOne
<1>3. Settled(rt_schedule(r))
  BY <1>1, Expires
<1> HIDE DEF r
<1>4. Still(s, r)
  BY <1>2, StillWoke
<1>5. Still(r, rt_schedule(r))
  BY <1>2, <1>3, StillSchedule DEF Woke, Settled
<1> QED
  BY <1>1, <1>4, <1>5, StillTwice

(* rt_thread_startup.                                                      *)
LEMMA StartupStill ==
  ASSUME NEW s, Lists(s), Books(s), s.stat[s.cur] # "SUSPEND", NEW t \in Threads, s.stat[t] = "INIT"
  PROVE  Still(s, rt_thread_startup(s, t))
<1> DEFINE d == rt_thread_resume([s EXCEPT !.stat[t] = "SUSPEND"], t)
           G == {"stat", "group", "list", "timer"}
<1>0. /\ Inv(s) /\ Shape(s) /\ IpcFields \subseteq DOMAIN s /\ s.stat \in [Threads -> Stats] /\ s.lock = 0
      /\ s.at \in [Threads -> Objects \cup {NULL, Sleep}]
  BY DEF Lists, Inv, Sound, Typed, IpcTyped, Books, Threadly
<1>1. Inv(d) /\ Changes(s, d, G) /\ d.stat = [s.stat EXCEPT ![t] = "READY"]
  BY <1>0, StartedUp
<1>2. rt_thread_startup(s, t) = rt_schedule(d)
  BY DEF rt_thread_startup
<1> HIDE DEF d
<1>3. d.at = s.at /\ d.cur = s.cur /\ d.lock = s.lock /\ IpcFields \subseteq DOMAIN d
  BY <1>0, <1>1, Kept, KeptIpc
<1>4. Still(s, d)
  <2>1. G \cap PriorityFields = {}
    BY DEF PriorityFields
  <2> DEFINE o == s.at[t]
             x == "READY"
  <2>2. d.at = [s.at EXCEPT ![t] = o]
    BY <1>0, <1>3
  <2>3. s.stat[t] # "SUSPEND" /\ x # "SUSPEND" /\ Changes(s, d, G) /\ d.stat = [s.stat EXCEPT ![t] = x]
    BY <1>1
  <2> HIDE DEF G, o, x
  <2> QED
    BY <2>1, <2>2, <2>3, StillOne
<1>5. Still(d, rt_schedule(d))
  <2>1. d.stat[d.cur] # "SUSPEND"
    BY <1>0, <1>1, <1>3
  <2> QED
    BY <1>0, <1>1, <1>3, <2>1, StillSwitch
<1> QED
  BY <1>2, <1>4, <1>5, StillTwice

(* rt_thread_yield.                                                        *)
LEMMA YieldStill ==
  ASSUME NEW s, Settled(s)
  PROVE  Still(s, rt_thread_yield(s))
<1> DEFINE y == s.yield \cup {s.cur}
           q == [s EXCEPT !.yield = y]
           F == {"yield"}
<1>0. Lists(s) /\ Inv(s) /\ Typed(s) /\ Shape(s) /\ s.lock = 0 /\ IpcFields \subseteq DOMAIN s
      /\ s.stat[s.cur] = "RUNNING"
  BY SettledIs DEF Settled, Books, Threadly
<1>1. y \in SUBSET Threads
  BY <1>0 DEF Typed
<1>2. rt_thread_yield(s) = rt_schedule(q)
  BY DEF rt_thread_yield
<1> HIDE DEF y
<1>3. Typed(q) /\ Changes(s, q, F)
  BY <1>0, <1>1, FieldsSet
<1> HIDE DEF q
<1>4. q.cur = s.cur /\ q.stat = s.stat /\ q.lock = s.lock /\ IpcFields \subseteq DOMAIN q
  BY <1>0, <1>3, Kept, KeptIpc
<1>5. Inv(q) /\ Still(s, q)
  <2>1. F \cap PriorityFields = {} /\ "stat" \notin F /\ "at" \notin F /\ F \cap Fields \subseteq {"timer", "yield", "lock"}
    BY DEF PriorityFields
  <2> HIDE DEF F
  <2> QED
    BY <1>0, <1>3, <2>1, StillFields, RunsAgain
<1>6. Still(q, rt_schedule(q))
  BY <1>0, <1>4, <1>5, StillSwitch
<1> QED
  BY <1>2, <1>5, <1>6, StillTwice

(* rt_defunct_execute.                                                     *)
LEMMA IdleStill ==
  ASSUME NEW s, Settled(s), s.cur = Idle
  PROVE  Still(s, rt_defunct_execute(s))
<1> DEFINE r == rt_defunct_execute(s)
           F == {"stat", "list"}
<1>0. Inv(s) /\ Shape(s) /\ IpcFields \subseteq DOMAIN s
  BY SettledIs
<1>1. /\ Changes(s, r, F)
      /\ r.stat = [t \in Threads |-> IF s.stat[t] = "CLOSE" THEN "NONE" ELSE s.stat[t]]
  BY <1>0, Reaped
<1> HIDE DEF r
<1>2. r.at = s.at
  BY <1>0, <1>1, KeptIpc
<1>3. \A t \in Threads, m \in Mutexes : WaitsAt(r, t, m) <=> WaitsAt(s, t, m)
  BY <1>1, <1>2 DEF WaitsAt
<1>4. F \cap PriorityFields = {}
  BY DEF PriorityFields
<1> HIDE DEF F
<1> QED
  BY <1>0, <1>1, <1>3, <1>4, StillChanges DEF r

-----------------------------------------------------------------------------
(* Mutexes are taken.                                                      *)

(* Hold counts do not matter.                                              *)
LEMMA StillHolds ==
  ASSUME NEW s, Lists(s), NEW m, NEW t, NEW h, NEW g
  PROVE  Still(s, [s EXCEPT !.hold[m] = h, !.got[m][t] = g])
<1> DEFINE r == [s EXCEPT !.hold[m] = h, !.got[m][t] = g]
           F == {"hold", "got"}
<1>1. Shape(s) /\ IpcFields \subseteq DOMAIN s
  BY DEF Lists, Inv, Sound, Typed, IpcTyped
<1>2. Changes(s, r, F)
  BY <1>1 DEF Shape, Changes, IpcFields
<1>3. F \cap PriorityFields = {} /\ "stat" \notin F /\ "at" \notin F
  BY DEF PriorityFields
<1> HIDE DEF r, F
<1>4. Still(s, r)
  BY <1>2, <1>3, StillFields
<1> QED
  BY <1>4 DEF r

(* The caller becomes the owner of a mutex nobody waits for: it wants      *)
(* nothing more.                                                           *)
LEMMA GrabLent ==
  ASSUME NEW s, Settled(s), Lent(s), s.at[s.cur] = NULL, NEW m \in Mutexes, s.owner[m] = NULL
  PROVE  Lent(MutexGrab(s, m))
<1> DEFINE t == s.cur
           g == s.got[m][t] + 1
           b == s.taken[t] \cup {m}
           mine == [s EXCEPT !.owner[m] = t, !.mprio[m] = NoPrio, !.hold[m] = 1, !.got[m][t] = g]
           r == [mine EXCEPT !.taken[t] = b]
           F == {"owner", "mprio", "hold", "got", "taken"}
<1>0. /\ Lists(s) /\ Books(s) /\ t \in Threads /\ Shape(s) /\ IpcFields \subseteq DOMAIN s
      /\ s.obj[m] = "live" /\ s.ceil[m] = NoPrio /\ s.prio[t] \in Nat /\ s.prio[t] < NoPrio /\ NoPrio \in Nat
      /\ s.taken \in [Threads -> SUBSET Mutexes] /\ s.owner \in [Mutexes -> Threads \cup {NULL}]
      /\ s.mprio \in [Mutexes -> 0 .. NoPrio]
  BY SettledIs, PrioritiesAre, LevelsAssumption DEF Settled, Lent, Known, NoPrio, IpcTyped, Lists
<1>1. \A u \in Threads : ~WaitsAt(s, u, m)
  BY <1>0 DEF Books, Owners, OwnerOf
<1>2. MutexGrab(s, m) = r
  <2>1. ~(s.ceil[m] < s.prio[t])
    BY <1>0
  <2>2. mine.taken = s.taken
    BY <1>0 DEF Shape, IpcFields
  <2>3. mine = [s EXCEPT !.owner[m] = t, !.mprio[m] = NoPrio, !.hold[m] = 1, !.got[m][t] = @ + 1]
    OBVIOUS
  <2> HIDE DEF mine
  <2> QED
    BY <2>1, <2>2, <2>3 DEF MutexGrab
<1> HIDE DEF t, g
<1>3. /\ Changes(s, r, F) /\ r.owner = [s.owner EXCEPT ![m] = t] /\ r.mprio = [s.mprio EXCEPT ![m] = NoPrio]
      /\ r.taken = [s.taken EXCEPT ![t] = b]
  <2> HIDE DEF b
  <2> QED
    BY <1>0 DEF Shape, Changes, IpcFields
<1> HIDE DEF r
<1>4. r.base = s.base /\ r.prio = s.prio /\ r.stat = s.stat /\ r.at = s.at /\ r.ceil = s.ceil /\ r.obj = s.obj
  <2>1. /\ "base" \notin F /\ "prio" \notin F /\ "stat" \notin F /\ "at" \notin F /\ "ceil" \notin F /\ "obj" \notin F
    OBVIOUS
  <2> HIDE DEF F
  <2> QED
    BY <1>0, <1>3, <2>1, Kept, KeptIpc
<1>5. \A u, n : WaitsAt(r, u, n) <=> WaitsAt(s, u, n)
  BY <1>4 DEF WaitsAt
<1>6. Known(r)
  <2>1. SUFFICES ASSUME NEW n \in Mutexes, NEW u \in Threads
                 PROVE  /\ n \in r.taken[u] <=> r.owner[n] = u
                        /\ WaitsAt(r, u, n) => r.owner[n] # u
    BY <1>4 DEF Lent, Known
  <2>2. (n \in s.taken[u] <=> s.owner[n] = u) /\ (WaitsAt(s, u, n) => s.owner[n] # u)
    BY DEF Lent, Known
  <2>3. CASE n = m
    <3>1. r.owner[n] = t /\ ~WaitsAt(r, u, n) /\ s.owner[n] # u
      BY <1>0, <1>1, <1>3, <1>5, <2>3, NullAssumption
    <3>2. m \in r.taken[u] <=> u = t
      BY <1>0, <1>3, <2>2, <2>3, <3>1
    <3> QED
      BY <2>3, <3>1, <3>2
  <2>4. CASE n # m
    <3>1. r.owner[n] = s.owner[n] /\ (n \in r.taken[u] <=> n \in s.taken[u])
      BY <1>0, <1>3, <2>4
    <3> QED
      BY <1>5, <2>2, <3>1
  <2> QED
    BY <2>3, <2>4
<1>7. r.mprio = s.mprio /\ Raised(r)
  <2>1. s.mprio[m] = NoPrio
    BY <1>1 DEF Lent, Raised, Least, Asked, Waiters
  <2>2. r.mprio = s.mprio
    BY <1>0, <1>3, <2>1
  <2>3. \A n \in Mutexes : Asked(r, n) = Asked(s, n)
    BY <1>4, <1>5 DEF Asked, Waiters
  <2> QED
    BY <2>2, <2>3 DEF Lent, Raised
<1>8. RightBut(r, NULL)
  <2>1. SUFFICES ASSUME NEW u \in Threads PROVE Least(r.prio[u], Wanted(r, u))
    BY DEF RightBut
  <2>2. Least(s.prio[u], Wanted(s, u))
    BY NullAssumption DEF Lent, RightBut
  <2>3. CASE u = t
    <3>1. Wanted(r, u) = Wanted(s, u) \cup {NoPrio}
      BY <1>0, <1>3, <1>4, <1>7, <2>3 DEF Wanted
    <3> QED
      BY <1>0, <1>4, <2>2, <2>3, <3>1 DEF Least
  <2>4. CASE u # t
    <3>1. r.taken[u] = s.taken[u] /\ r.base[u] = s.base[u] /\ r.prio[u] = s.prio[u] /\ s.taken[u] \subseteq Mutexes
      BY <1>0, <1>3, <1>4, <2>4
    <3>2. \A n \in s.taken[u] : r.mprio[n] = s.mprio[n]
      BY <1>7
    <3>3. Wanted(r, u) = Wanted(s, u)
      BY <3>1, <3>2, WantedSame
    <3> QED
      BY <2>2, <3>1, <3>3
  <2> QED
    BY <2>3, <2>4
<1> QED
  BY <1>2, <1>6, <1>7, <1>8 DEF Lent

(* A waiter more asks for its priority.                                    *)
LEMMA AskedMore ==
  ASSUME NEW s, Lists(s), NEW r, Lists(r), NEW m \in Mutexes, NEW t \in Threads, r.prio = s.prio,
         Waiters(r, m) = Waiters(s, m) \cup {t}, Least(s.mprio[m], Asked(s, m)),
         r.mprio[m] = IF s.prio[t] < s.mprio[m] THEN s.prio[t] ELSE s.mprio[m]
  PROVE  Least(r.mprio[m], Asked(r, m)) /\ (r.mprio[m] = s.mprio[m] \/ Turned(s.prio[t], TRUE, s.mprio[m], r.mprio[m]))
<1>1. Asked(r, m) = Asked(s, m) \cup {s.prio[t]}
  BY DEF Asked
<1>2. Asked(s, m) \in SUBSET Nat /\ s.prio[t] \in Nat /\ s.mprio[m] \in Nat
  BY PrioritiesAre
<1> QED
  BY <1>1, <1>2 DEF Least, Turned

(* The caller waits for a mutex another thread owns and lends it its       *)
(* priority, and so on along the owners that wait.                         *)
LEMMA WaitLent ==
  ASSUME NEW s, Settled(s), Lent(s), s.cur # Idle, s.at[s.cur] = NULL, s.err[s.cur] = "EOK", NEW m \in Mutexes,
         s.owner[m] # NULL, s.owner[m] # s.cur
  PROVE  Lent(MutexWait(s, m))
<1> DEFINE t == s.cur
           p == s.prio[t]
           w == Waiting(s, m)
           o == s.owner[m]
<1>0. /\ Lists(s) /\ Books(s) /\ t \in Threads /\ s.stat \in [Threads -> Stats] /\ s.at \in [Threads -> Objects \cup {NULL, Sleep}]
      /\ s.mprio \in [Mutexes -> 0 .. NoPrio] /\ o \in Threads /\ s.obj[m] = "live" /\ o # t /\ p \in Priorities
      /\ s.stat[t] = "RUNNING" /\ o # NULL
  <2>1. s.obj[m] = "live" /\ s.prio \in [Threads -> Priorities]
    BY SettledIs DEF Lent, Known, Settled, Lists, Inv, Sound, Typed
  <2>2. s.mprio \in [Mutexes -> 0 .. NoPrio] /\ o \in Threads
    BY <2>1, MutexFacts
  <2> QED
    BY <2>1, <2>2, SettledIs DEF Settled, IpcTyped
<1>1. Queued(s, m, w)
  BY <1>0, MutexWaiting
<1> HIDE DEF w
<1>2. /\ Lists(w) /\ Books(w) /\ w.stat = [s.stat EXCEPT ![t] = "SUSPEND"] /\ w.at = [s.at EXCEPT ![t] = m]
      /\ w.prio = s.prio /\ w.mprio = [s.mprio EXCEPT ![m] = IF p < s.mprio[m] THEN p ELSE s.mprio[m]]
      /\ w.base = s.base /\ w.taken = s.taken /\ w.owner = s.owner /\ w.ceil = s.ceil /\ w.obj = s.obj
      /\ MutexWait(s, m) = IF p < s.mprio[m] /\ p < s.prio[o] THEN _thread_update_priority(w, o, p) ELSE w
  BY <1>1 DEF Queued
<1>3. Chainable(w)
  BY <1>2, BooksChainable
<1>4. /\ WaitsAt(w, t, m) /\ \A n \in Mutexes : ~WaitsAt(s, t, n) /\ (n # m => ~WaitsAt(w, t, n))
      /\ \A u \in Threads \ {t}, n \in Mutexes : WaitsAt(w, u, n) <=> WaitsAt(s, u, n)
  BY <1>0, <1>2 DEF WaitsAt
<1>5. Known(w)
  BY <1>0, <1>2, <1>4 DEF Lent, Known
<1>6. \A n \in Mutexes \ {m} : Waiters(w, n) = Waiters(s, n) /\ w.mprio[n] = s.mprio[n]
  BY <1>0, <1>2, <1>4 DEF Waiters
<1>7. Waiters(w, m) = Waiters(s, m) \cup {t}
  BY <1>0, <1>4 DEF Waiters
<1>8. w.mprio[m] = IF p < s.mprio[m] THEN p ELSE s.mprio[m]
  BY <1>0, <1>2
<1>9. Least(w.mprio[m], Asked(w, m)) /\ (w.mprio[m] = s.mprio[m] \/ Turned(p, TRUE, s.mprio[m], w.mprio[m]))
  <2>1. Least(s.mprio[m], Asked(s, m))
    BY DEF Lent, Raised
  <2> QED
    BY <1>0, <1>2, <1>7, <1>8, <2>1, AskedMore
<1>10. Raised(w)
  <2>1. SUFFICES ASSUME NEW n \in Mutexes \ {m} PROVE Least(w.mprio[n], Asked(w, n))
    BY <1>9 DEF Raised
  <2>2. Asked(w, n) = Asked(s, n)
    BY <1>2, <1>6, AskedSame
  <2> QED
    BY <1>6, <2>2 DEF Lent, Raised
<1>11. RightBut(w, o)
  <2>1. SUFFICES ASSUME NEW u \in Threads, u # o PROVE Least(w.prio[u], Wanted(w, u))
    BY DEF RightBut
  <2>2. m \notin s.taken[u] /\ s.taken[u] \subseteq Mutexes
    BY <1>0, <2>1, PrioritiesAre DEF Lent, Known
  <2>3. Wanted(w, u) = Wanted(s, u)
    <3>1. \A n \in s.taken[u] : w.mprio[n] = s.mprio[n]
      BY <1>6, <2>2
    <3>2. w.taken[u] = s.taken[u] /\ w.base[u] = s.base[u]
      BY <1>2
    <3> QED
      BY <2>2, <3>1, <3>2, WantedSame
  <2> QED
    BY <1>2, <2>3, NullAssumption DEF Lent, RightBut
<1> DEFINE q == _thread_get_mutex_priority(w, o)
<1>12. /\ Least(s.prio[o], Wanted(s, o)) /\ Least(q, Wanted(w, o)) /\ m \in s.taken[o]
       /\ p \in Nat /\ q \in Nat /\ s.prio[o] \in Nat /\ s.mprio[m] \in Nat
  <2>1. Least(s.prio[o], Wanted(s, o)) /\ m \in s.taken[o]
    BY <1>0, NullAssumption DEF Lent, RightBut, Known
  <2>2. Least(q, Wanted(w, o)) /\ Wanted(w, o) \in SUBSET Nat
    BY <1>0, <1>2, <1>5, GetsLeast, PrioritiesAre
  <2>3. p \in Nat /\ s.prio[o] \in Nat /\ s.mprio[m] \in Nat
    BY <1>0, PrioritiesAre
  <2> QED
    BY <2>1, <2>2, <2>3 DEF Least
<1> HIDE DEF q
<1>13. q = s.prio[o] \/ Turned(p, TRUE, s.prio[o], q)
  BY <1>0, <1>2, <1>6, <1>9, <1>12, WantedTurns
<1>14. CASE p < s.mprio[m] /\ p < s.prio[o]
  <2>1. w.mprio[m] = p /\ p \in Wanted(w, o)
    BY <1>2, <1>8, <1>12, <1>14 DEF Wanted
  <2>2. q = p
    BY <1>12, <1>13, <1>14, <2>1 DEF Least, Turned
  <2>3. Turned(p, TRUE, w.prio[o], p) /\ Least(p, Wanted(w, o)) /\ TRUE \in BOOLEAN
    BY <1>2, <1>12, <1>14, <2>2 DEF Turned
  <2> HIDE DEF p, o
  <2>4. Lent(_thread_update_priority(w, o, p))
    BY <1>0, <1>3, <1>5, <1>10, <1>11, <1>12, <2>3, WalkEnds
  <2> QED
    BY <1>2, <1>14, <2>4
<1>15. CASE ~(p < s.mprio[m] /\ p < s.prio[o])
  <2>1. q = s.prio[o]
    <3>1. CASE p < s.mprio[m]
      BY <1>12, <1>13, <1>15, <3>1 DEF Turned
    <3>2. CASE ~(p < s.mprio[m])
      <4>1. \A n \in Mutexes : w.mprio[n] = s.mprio[n]
        BY <1>6, <1>8, <3>2
      <4>2. s.taken[o] \subseteq Mutexes
        BY <1>0, PrioritiesAre
      <4>3. Wanted(w, o) = Wanted(s, o) /\ Wanted(s, o) \in SUBSET Nat
        BY <1>0, <1>2, <4>1, <4>2, WantedSame, PrioritiesAre
      <4> QED
        BY <1>12, <4>3, LeastOne
    <3> QED
      BY <3>1, <3>2
  <2>2. Least(w.prio[o], Wanted(w, o))
    BY <1>2, <1>12, <2>1
  <2>3. Lent(w)
    BY <1>5, <1>10, <1>11, <2>2 DEF Lent, RightBut
  <2> QED
    BY <1>2, <1>15, <2>3
<1> QED
  BY <1>14, <1>15

(* _rt_mutex_take.                                                         *)
LEMMA TakeLent ==
  ASSUME NEW s, Settled(s), Lent(s), s.cur # Idle, s.at[s.cur] = NULL, NEW m \in Mutexes, NEW wait \in Waits
  PROVE  Lent(_rt_mutex_take(s, m, wait))
<1> DEFINE t == s.cur
           x == [s EXCEPT !.err[t] = "EOK"]
<1>0. t \in Threads /\ s.err \in [Threads -> Errors] /\ "EOK" \in Errors /\ "ETIMEOUT" \in Errors /\ s.obj[m] = "live"
      /\ Lists(s)
  BY SettledIs DEF Errors, Lent, Known, Settled
<1>1. Settled(x) /\ SameBooks(s, x) /\ x.err = [s.err EXCEPT ![t] = "EOK"] /\ x.at = s.at /\ x.cur = s.cur
  BY <1>0, ErrorAlone
<1>2. Lent(x)
  <2>1. Still(s, x)
    BY <1>0, StillError
  <2> HIDE DEF x
  <2> QED
    BY <2>1, LentStill
<1>3. x.cur = t /\ x.at[t] = NULL /\ x.err[t] = "EOK" /\ x.obj[m] = "live" /\ x.owner = s.owner /\ x.hold = s.hold
      /\ x.got = s.got
  BY <1>0, <1>1 DEF SameBooks
<1>4. CASE s.owner[m] = t /\ ~HoldsMore(s, m)
  BY <1>2, <1>4 DEF _rt_mutex_take
<1>5. CASE s.owner[m] = t /\ HoldsMore(s, m)
  <2> HIDE DEF x
  <2> DEFINE h == x.hold[m] + 1
             g == x.got[m][t] + 1
             r == [x EXCEPT !.hold[m] = h, !.got[m][t] = g]
  <2>1. _rt_mutex_take(s, m, wait) = r
    BY <1>5 DEF _rt_mutex_take, x
  <2>2. Lists(x)
    BY <1>1 DEF Settled
  <2> HIDE DEF h, g, t
  <2>3. Still(x, r)
    BY <2>2, StillHolds, ZenonT(60)
  <2> HIDE DEF r
  <2> QED
    BY <1>2, <2>1, <2>3, LentStill
<1>6. CASE s.owner[m] # t /\ s.owner[m] = NULL
  <2>1. _rt_mutex_take(s, m, wait) = MutexGrab(x, m)
    BY <1>6 DEF _rt_mutex_take
  <2> HIDE DEF x
  <2> QED
    BY <1>1, <1>2, <1>3, <1>6, <2>1, GrabLent
<1>7. CASE s.owner[m] # t /\ s.owner[m] # NULL /\ wait = "no"
  <2> DEFINE e == [s EXCEPT !.err[t] = "ETIMEOUT"]
  <2>1. _rt_mutex_take(s, m, wait) = e
    BY <1>7 DEF _rt_mutex_take
  <2>2. Still(s, e)
    BY <1>0, StillError
  <2> HIDE DEF e
  <2> QED
    BY <2>1, <2>2, LentStill
<1>8. CASE s.owner[m] # t /\ s.owner[m] # NULL /\ wait # "no"
  <2> DEFINE w == MutexWait(x, m)
             v == [w EXCEPT !.timer = @ \cup {t}]
             z == IF wait = "timed" THEN v ELSE w
  <2>1. _rt_mutex_take(s, m, wait) = rt_schedule(z)
    BY <1>8 DEF _rt_mutex_take
  <2>2. Lists(w) /\ Books(w) /\ w.stat[t] = "SUSPEND" /\ Lent(w)
    <3>1. x.cur # Idle /\ x.at[x.cur] = NULL /\ x.err[x.cur] = "EOK" /\ x.owner[m] # NULL /\ x.owner[m] # x.cur
      BY <1>3, <1>8
    <3> HIDE DEF x, t
    <3>2. Lists(w) /\ Books(w) /\ w.stat[x.cur] = "SUSPEND" /\ Lent(w)
      BY <1>1, <1>2, <1>3, <3>1, MutexWaits, WaitLent
    <3> QED
      BY <1>3, <3>2
  <2> HIDE DEF w
  <2>3. Lists(v) /\ Books(v) /\ Still(w, v)
    <3>1. Lists(v) /\ Books(v)
      BY <1>0, <2>2, TimerStarted
    <3> DEFINE F == {"timer"}
    <3>2. Shape(w)
      BY <2>2 DEF Lists, Inv, Sound, Typed
    <3>3. Changes(w, v, F) /\ F \cap PriorityFields = {} /\ "stat" \notin F /\ "at" \notin F
      BY <3>2 DEF Shape, Changes, Fields, PriorityFields
    <3> HIDE DEF F, v
    <3> QED
      BY <2>2, <3>1, <3>3, StillFields
  <2> HIDE DEF v
  <2>4. Lists(z) /\ Books(z) /\ Lent(z)
    BY <2>2, <2>3, LentStill
  <2> HIDE DEF z
  <2>5. Lists(rt_schedule(z))
    BY <2>4, Settles DEF Settled
  <2> QED
    BY <2>1, <2>4, <2>5, StillSchedule, LentStill
<1> QED
  BY <1>4, <1>5, <1>6, <1>7, <1>8

-----------------------------------------------------------------------------
(* Mutexes are released.                                                   *)

(* The caller gives up mutex m: it has the priority it should have without *)
(* it, and no other thread and no waiter has another one.                  *)
LEMMA OwnRight ==
  ASSUME NEW s, Settled(s), Lent(s), NEW m \in Mutexes, s.owner[m] = s.cur, NEW own, GivesUp(s, m, own),
         own.mprio = s.mprio,
         own.prio = IF s.prio[s.cur] = s.mprio[m]
                    THEN [s.prio EXCEPT ![s.cur] = _thread_get_mutex_priority(own, s.cur)] ELSE s.prio
  PROVE  /\ \A u \in Threads : Least(own.prio[u], Wanted(own, u))
         /\ \A u \in Threads \ {s.cur} : own.prio[u] = s.prio[u] /\ own.taken[u] = s.taken[u]
         /\ \A n \in Mutexes : s.cur \notin Waiters(s, n) /\ Least(own.mprio[n], Asked(own, n))
<1> DEFINE t == s.cur
           q == _thread_get_mutex_priority(own, t)
<1>0. /\ Lists(s) /\ t \in Threads /\ s.stat[t] = "RUNNING" /\ s.prio \in [Threads -> Priorities]
      /\ s.taken \in [Threads -> SUBSET Mutexes] /\ m \in s.taken[t]
  BY SettledIs DEF Settled, Lent, Known, Typed, IpcTyped
<1>1. /\ Lists(own) /\ own.base = s.base /\ own.ceil = s.ceil /\ own.at = s.at /\ own.stat = s.stat /\ own.owner = s.owner
      /\ own.taken = [s.taken EXCEPT ![t] = s.taken[t] \ {m}]
  BY DEF GivesUp
<1>2. \A u \in Threads \ {t} : own.prio[u] = s.prio[u] /\ own.taken[u] = s.taken[u]
  BY <1>0, <1>1
<1>3. Least(s.prio[t], Wanted(s, t)) /\ own.taken[t] = s.taken[t] \ {m}
  BY <1>0, <1>1, NullAssumption DEF Lent, RightBut
<1>4. Least(own.prio[t], Wanted(own, t))
  <2>1. CASE s.prio[t] = s.mprio[m]
    <3>1. own.prio[t] = q
      BY <1>0, <2>1
    <3>2. Least(q, Wanted(own, t))
      BY <1>0, <1>1, GetsLeastOf DEF Lent, Known
    <3> QED
      BY <3>1, <3>2
  <2>2. CASE s.prio[t] # s.mprio[m]
    <3>1. own.prio[t] = s.prio[t]
      BY <2>2
    <3>2. Wanted(s, t) = Wanted(own, t) \cup {s.mprio[m]}
      BY <1>0, <1>1, <1>3 DEF Wanted
    <3> QED
      BY <1>3, <2>2, <3>1, <3>2 DEF Least
  <2> QED
    BY <2>1, <2>2
<1>5. ASSUME NEW u \in Threads, u # t PROVE Least(own.prio[u], Wanted(own, u))
  <2>1. Wanted(own, u) = Wanted(s, u)
    <3>1. own.taken[u] = s.taken[u] /\ own.base[u] = s.base[u] /\ s.taken[u] \subseteq Mutexes
      BY <1>0, <1>1, <1>2, <1>5
    <3> QED
      BY <3>1, WantedSame
  <2> QED
    BY <1>2, <1>5, <2>1, NullAssumption DEF Lent, RightBut
<1>6. ASSUME NEW n \in Mutexes PROVE t \notin Waiters(s, n) /\ Least(own.mprio[n], Asked(own, n))
  <2>1. t \notin Waiters(s, n) /\ Waiters(own, n) = Waiters(s, n)
    BY <1>0, <1>1 DEF Waiters, WaitsAt
  <2>2. \A u \in Waiters(s, n) : own.prio[u] = s.prio[u]
    BY <1>2, <2>1 DEF Waiters
  <2>3. Asked(own, n) = Asked(s, n)
    BY ONLY <2>1, <2>2, AskedSame
  <2> QED
    BY <2>1, <2>3 DEF Lent, Raised
<1> QED
  BY <1>2, <1>4, <1>5, <1>6

(* Nobody waits for the mutex: it is free.                                 *)
LEMMA FreeLent ==
  ASSUME NEW s, Settled(s), Lent(s), NEW m \in Mutexes, s.owner[m] = s.cur, s.list[m] = <<>>, NEW own, GivesUp(s, m, own),
         own.mprio = s.mprio, \A u \in Threads : Least(own.prio[u], Wanted(own, u)),
         \A u \in Threads \ {s.cur} : own.taken[u] = s.taken[u],
         \A n \in Mutexes : Least(own.mprio[n], Asked(own, n))
  PROVE  Lent([own EXCEPT !.owner[m] = NULL, !.mprio[m] = NoPrio])
<1> DEFINE r == [own EXCEPT !.owner[m] = NULL, !.mprio[m] = NoPrio]
           F == {"owner", "mprio"}
<1>0. /\ Lists(s) /\ s.owner \in [Mutexes -> Threads \cup {NULL}] /\ s.mprio \in [Mutexes -> 0 .. NoPrio]
      /\ m \in Objects /\ s.cur \in Threads /\ s.taken \in [Threads -> SUBSET Mutexes]
  BY SettledIs, MutexIs DEF Settled, IpcTyped
<1>1. /\ Shape(own) /\ IpcFields \subseteq DOMAIN own /\ own.base = s.base /\ own.ceil = s.ceil /\ own.at = s.at
      /\ own.stat = s.stat /\ own.owner = s.owner /\ own.obj = s.obj /\ own.taken[s.cur] = s.taken[s.cur] \ {m}
  BY <1>0 DEF GivesUp
<1>2. Changes(own, r, F) /\ r.owner = [s.owner EXCEPT ![m] = NULL] /\ r.mprio = [s.mprio EXCEPT ![m] = NoPrio]
  BY <1>1 DEF Shape, Changes, IpcFields
<1> HIDE DEF r
<1>3. /\ r.base = own.base /\ r.prio = own.prio /\ r.stat = own.stat /\ r.at = own.at /\ r.ceil = own.ceil
      /\ r.obj = own.obj /\ r.taken = own.taken
  <2>1. /\ "base" \notin F /\ "prio" \notin F /\ "stat" \notin F /\ "at" \notin F /\ "ceil" \notin F /\ "obj" \notin F
        /\ "taken" \notin F
    OBVIOUS
  <2> HIDE DEF F
  <2> QED
    BY <1>1, <1>2, <2>1, Kept, KeptIpc
<1>4. \A u \in Threads, n \in Mutexes : /\ WaitsAt(r, u, n) <=> WaitsAt(own, u, n)
                                        /\ WaitsAt(own, u, n) <=> WaitsAt(s, u, n)
  BY <1>1, <1>3 DEF WaitsAt
<1>5. \A u \in Threads : ~WaitsAt(s, u, m)
  <2>1. \A u : ~On(u, s.list[m])
    BY DEF On
  <2> QED
    BY <1>0, <2>1 DEF Lists, Queues
<1>6. r.mprio = own.mprio
  <2>1. s.mprio[m] = NoPrio
    BY <1>5 DEF Lent, Raised, Least, Asked, Waiters
  <2> QED
    BY <1>0, <1>2, <2>1
<1>7. Known(r)
  <2>1. SUFFICES ASSUME NEW n \in Mutexes, NEW u \in Threads
                 PROVE  /\ n \in r.taken[u] <=> r.owner[n] = u
                        /\ WaitsAt(r, u, n) => r.owner[n] # u
    BY <1>1, <1>3 DEF Lent, Known
  <2>2. (n \in s.taken[u] <=> s.owner[n] = u) /\ (WaitsAt(s, u, n) => s.owner[n] # u)
    BY DEF Lent, Known
  <2>3. CASE n = m
    <3>1. r.owner[n] = NULL /\ r.owner[n] # u
      BY <1>0, <1>2, <2>3, NullAssumption
    <3>2. n \notin r.taken[u]
      <4>1. CASE u = s.cur
        BY <1>1, <1>3, <2>3, <4>1
      <4>2. CASE u # s.cur
        BY <1>1, <1>3, <2>2, <2>3, <4>2
      <4> QED
        BY <4>1, <4>2
    <3> QED
      BY <3>1, <3>2
  <2>4. CASE n # m
    <3>1. r.owner[n] = s.owner[n]
      BY <1>0, <1>2, <2>4
    <3>2. n \in r.taken[u] <=> n \in s.taken[u]
      <4>1. CASE u = s.cur
        BY <1>1, <1>3, <2>4, <4>1
      <4>2. CASE u # s.cur
        BY <1>3, <4>2
      <4> QED
        BY <4>1, <4>2
    <3> QED
      BY <1>4, <2>2, <3>1, <3>2
  <2> QED
    BY <2>3, <2>4
<1>8. Raised(r)
  <2>1. \A n \in Mutexes : Asked(r, n) = Asked(own, n)
    BY <1>3, <1>4 DEF Asked, Waiters
  <2> QED
    BY <1>6, <2>1 DEF Raised
<1>9. RightBut(r, NULL)
  <2>1. \A u \in Threads : Wanted(r, u) = Wanted(own, u)
    BY <1>3, <1>6 DEF Wanted
  <2> QED
    BY <1>3, <2>1 DEF RightBut
<1> QED
  BY <1>7, <1>8, <1>9 DEF Lent, r

(* The first waiter becomes the owner: it is the most urgent of them.      *)
LEMMA HandLent ==
  ASSUME NEW s, Settled(s), Lent(s), NEW m \in Mutexes, s.owner[m] = s.cur, NEW own, GivesUp(s, m, own),
         own.mprio = s.mprio, \A u \in Threads : Least(own.prio[u], Wanted(own, u)),
         \A u \in Threads \ {s.cur} : own.prio[u] = s.prio[u] /\ own.taken[u] = s.taken[u],
         \A n \in Mutexes : s.cur \notin Waiters(s, n) /\ Least(own.mprio[n], Asked(own, n)),
         NEW h, h = Head(own.list[m]), NEW r, Passed(s, own, m, r, h)
  PROVE  Lent(r)
<1> DEFINE t == s.cur
<1> /\ h \in Threads /\ WaitsAt(s, h, m) /\ Lists(r) /\ HandsOn(s, r, m, s.cur, h) /\ r.prio = own.prio /\ r.base = s.base
    /\ r.ceil = s.ceil /\ \A n \in Mutexes \ {m} : r.mprio[n] = own.mprio[n]
    /\ r.mprio[m] = IF r.list[m] = <<>> THEN NoPrio ELSE r.prio[Head(r.list[m])]
  BY DEF Passed
<1>0. /\ Lists(s) /\ s.owner \in [Mutexes -> Threads \cup {NULL}] /\ s.taken \in [Threads -> SUBSET Mutexes]
      /\ m \in Objects /\ t \in Threads /\ h # t /\ m \in s.taken[t]
  <2>1. s.stat[t] = "RUNNING" /\ h # t
    BY DEF Settled, WaitsAt
  <2> QED
    BY <2>1, SettledIs, MutexIs DEF Settled, IpcTyped, Lent, Known
<1>1. /\ Lists(own) /\ own.base = s.base /\ own.at = s.at /\ own.stat = s.stat /\ own.taken[t] = s.taken[t] \ {m}
  BY <1>0 DEF GivesUp
<1>2. /\ r.at = s.at /\ r.obj = s.obj /\ r.owner = [s.owner EXCEPT ![m] = h] /\ r.stat[h] # "SUSPEND"
      /\ \A u \in Threads \ {h} : r.stat[u] = s.stat[u]
      /\ r.taken[t] = s.taken[t] \ {m} /\ r.taken[h] = s.taken[h] \cup {m}
      /\ \A u \in Threads \ {t, h} : r.taken[u] = s.taken[u]
  BY DEF HandsOn, Up
<1>3. \A u \in Threads, n \in Mutexes : /\ WaitsAt(r, u, n) <=> u # h /\ WaitsAt(s, u, n)
                                        /\ WaitsAt(own, u, n) <=> WaitsAt(s, u, n)
  BY <1>1, <1>2 DEF WaitsAt
<1>4. Known(r)
  <2>1. SUFFICES ASSUME NEW n \in Mutexes, NEW u \in Threads
                 PROVE  /\ n \in r.taken[u] <=> r.owner[n] = u
                        /\ WaitsAt(r, u, n) => r.owner[n] # u
    BY <1>2 DEF Lent, Known
  <2>2. (n \in s.taken[u] <=> s.owner[n] = u) /\ (WaitsAt(s, u, n) => s.owner[n] # u)
    BY DEF Lent, Known
  <2>3. CASE n = m
    <3>1. r.owner[n] = h /\ s.owner[n] = t
      BY <1>0, <1>2, <2>3
    <3>2. n \in r.taken[u] <=> u = h
      <4>1. CASE u = t
        BY <1>0, <1>2, <2>3, <4>1
      <4>2. CASE u = h
        BY <1>2, <2>3, <4>2
      <4>3. CASE u # t /\ u # h
        BY <1>2, <2>2, <3>1, <4>3
      <4> QED
        BY <4>1, <4>2, <4>3
    <3> QED
      BY <1>3, <3>1, <3>2
  <2>4. CASE n # m
    <3>1. r.owner[n] = s.owner[n]
      BY <1>0, <1>2, <2>4
    <3>2. n \in r.taken[u] <=> n \in s.taken[u]
      <4>1. CASE u = t
        BY <1>2, <2>4, <4>1
      <4>2. CASE u = h
        BY <1>2, <2>4, <4>2
      <4>3. CASE u # t /\ u # h
        BY <1>2, <4>3
      <4> QED
        BY <4>1, <4>2, <4>3
    <3> QED
      BY <1>3, <2>2, <3>1, <3>2
  <2> QED
    BY <2>3, <2>4
<1>5. Least(r.mprio[m], Asked(r, m))
  BY HeadLeast
<1>6. Raised(r)
  <2>1. SUFFICES ASSUME NEW n \in Mutexes \ {m} PROVE Least(r.mprio[n], Asked(r, n))
    BY <1>5 DEF Raised
  <2>2. ~WaitsAt(s, h, n)
    BY <2>1 DEF WaitsAt
  <2>3. Waiters(r, n) = Waiters(own, n)
    BY <1>3, <2>2 DEF Waiters
  <2>4. Asked(r, n) = Asked(own, n)
    BY <2>3, AskedSame
  <2> QED
    BY <2>4
<1>7. own.prio[h] <= r.mprio[m]
  <2>1. own.list[m] # <<>>
    <3>1. On(h, own.list[m])
      BY <1>0, <1>1, <1>3 DEF Lists, Queues
    <3> QED
      BY <3>1 DEF On
  <2>2. Least(own.prio[h], Asked(own, m))
    BY <1>1, <2>1, HeadLeast
  <2>3. Asked(r, m) \subseteq Asked(own, m)
    BY <1>3 DEF Asked, Waiters
  <2> QED
    BY <1>5, <2>2, <2>3 DEF Least
<1>8. RightBut(r, NULL)
  <2>1. SUFFICES ASSUME NEW u \in Threads PROVE Least(r.prio[u], Wanted(r, u))
    BY DEF RightBut
  <2>2. Least(own.prio[u], Wanted(own, u))
    OBVIOUS
  <2>3. CASE u = h
    <3>1. m \notin s.taken[h] /\ s.taken[h] \subseteq Mutexes /\ own.taken[h] = s.taken[h]
      BY <1>0 DEF Lent, Known
    <3>2. \A n \in s.taken[h] : r.mprio[n] = own.mprio[n]
      BY <3>1, SMTT(40)
    <3>3. Wanted(r, h) = Wanted(own, h) \cup {r.mprio[m]}
      BY <1>1, <1>2, <3>1, <3>2 DEF Wanted
    <3> QED
      BY <1>7, <2>2, <2>3, <3>3 DEF Least
  <2>4. CASE u # h
    <3>1. r.taken[u] = own.taken[u] /\ m \notin own.taken[u] /\ own.taken[u] \subseteq Mutexes /\ r.base[u] = own.base[u]
      <4>1. CASE u = t
        BY <1>0, <1>1, <1>2, <4>1
      <4>2. CASE u # t
        BY <1>0, <1>1, <1>2, <2>4, <4>2 DEF Lent, Known
      <4> QED
        BY <4>1, <4>2
    <3>2. \A n \in own.taken[u] : r.mprio[n] = own.mprio[n]
      BY <3>1
    <3>3. Wanted(r, u) = Wanted(own, u)
      BY <3>1, <3>2, WantedSame
    <3> QED
      BY <2>2, <3>3
  <2> QED
    BY <2>3, <2>4
<1> QED
  BY <1>4, <1>6, <1>8 DEF Lent

(* rt_mutex_release.                                                       *)
LEMMA ReleaseLent ==
  ASSUME NEW s, Settled(s), Lent(s), s.at[s.cur] = NULL, NEW m \in Mutexes
  PROVE  Lent(rt_mutex_release(s, m))
<1> DEFINE t == s.cur
           less == [s EXCEPT !.hold[m] = @ - 1, !.got[m][t] = @ - 1]
           off == [less EXCEPT !.taken[t] = @ \ {m}]
           lower == s.ceil[m] # NoPrio \/ s.prio[t] = s.mprio[m]
           own == IF lower THEN ChangePriority(off, t, _thread_get_mutex_priority(off, t)) ELSE off
           free == [own EXCEPT !.owner[m] = NULL, !.mprio[m] = NoPrio]
<1>0. /\ t \in Threads /\ Lists(s) /\ Books(s) /\ s.obj[m] = "live" /\ s.ceil[m] = NoPrio
  BY SettledIs DEF Settled, Lent, Known
<1>1. OwnerOf(s, m) /\ s.hold \in [Mutexes -> 0 .. HoldMax]
  BY <1>0, MutexFacts
<1>2. CASE s.owner[m] # t
  <2> DEFINE e == [s EXCEPT !.err[t] = "ERROR"]
  <2>1. rt_mutex_release(s, m) = e /\ "ERROR" \in Errors
    BY <1>2 DEF rt_mutex_release, Errors
  <2>2. Still(s, e)
    BY <1>0, <2>1, StillError
  <2> HIDE DEF e
  <2> QED
    BY <2>1, <2>2, LentStill
<1>3. CASE s.owner[m] = t /\ s.hold[m] > 1
  <2>1. rt_mutex_release(s, m) = less
    BY <1>3 DEF rt_mutex_release
  <2>2. Still(s, less)
    <3> DEFINE a == s.hold[m] - 1
               g == s.got[m][t] - 1
    <3>1. less = [s EXCEPT !.hold[m] = a, !.got[m][t] = g]
      OBVIOUS
    <3> HIDE DEF a, g, t, less
    <3> QED
      BY <1>0, <3>1, StillHolds, ZenonT(60)
  <2> HIDE DEF less
  <2> QED
    BY <2>1, <2>2, LentStill
<1>4. CASE s.owner[m] = t /\ ~(s.hold[m] > 1)
  <2>1. s.hold[m] = 1
    BY <1>0, <1>1, <1>4, NullAssumption DEF OwnerOf
  <2>2. /\ GivesUp(s, m, own) /\ own.mprio = s.mprio
        /\ own.prio = IF lower THEN [s.prio EXCEPT ![t] = _thread_get_mutex_priority(own, t)] ELSE s.prio
    <3>1. lower \in BOOLEAN
      OBVIOUS
    <3> HIDE DEF lower
    <3> QED
      BY <1>0, <1>4, <2>1, <3>1, GivenUp, ZenonT(60)
  <2>3. lower <=> s.prio[t] = s.mprio[m]
    BY <1>0
  <2>4. /\ \A u \in Threads : Least(own.prio[u], Wanted(own, u))
        /\ \A u \in Threads \ {s.cur} : own.prio[u] = s.prio[u] /\ own.taken[u] = s.taken[u]
        /\ \A n \in Mutexes : s.cur \notin Waiters(s, n) /\ Least(own.mprio[n], Asked(own, n))
    <3> HIDE DEF own, lower
    <3> QED
      BY <1>4, <2>2, <2>3, OwnRight
  <2>5. CASE s.list[m] # <<>>
    <3> DEFINE r == HandOver(own, m)
               h == Head(own.list[m])
    <3>1. rt_mutex_release(s, m) = rt_schedule(r)
      BY <1>4, <2>5 DEF rt_mutex_release
    <3> HIDE DEF own
    <3>2. Passed(s, own, m, r, h)
      BY <1>0, <1>4, <2>1, <2>2, <2>5, MutexHanded
    <3>3. Lists(r) /\ Books(r)
      BY <3>2 DEF Passed
    <3>4. Lent(r)
      <4>1. h = Head(own.list[m])
        OBVIOUS
      <4>2. s.owner[m] = s.cur
        BY <1>4
      <4>3. GivesUp(s, m, own) /\ own.mprio = s.mprio
        BY <2>2
      <4> HIDE DEF r, h, lower, t
      <4> QED
        BY <4>2, <4>3, <2>4, <3>2, <4>1, HandLent, ZenonT(60)
    <3> HIDE DEF r, h
    <3>5. Lists(rt_schedule(r))
      BY <3>3, Settles DEF Settled
    <3> QED
      BY <3>1, <3>3, <3>4, <3>5, StillSchedule, LentStill
  <2>6. CASE s.list[m] = <<>>
    <3>1. rt_mutex_release(s, m) = IF lower THEN rt_schedule(free) ELSE free
      BY <1>4, <2>6 DEF rt_mutex_release
    <3> HIDE DEF own, lower
    <3>2. Settled(free)
      BY <1>0, <1>4, <2>1, <2>2, <2>6, MutexFreed, ZenonT(60)
    <3>3. Lent(free)
      BY <1>4, <2>2, <2>4, <2>6, FreeLent, ZenonT(60)
    <3> HIDE DEF free
    <3>4. Lists(free) /\ Lists(rt_schedule(free))
      BY <3>2, Settles DEF Settled
    <3>5. Lent(rt_schedule(free))
      BY <3>3, <3>4, StillSchedule, LentStill
    <3> QED
      BY <3>1, <3>3, <3>5
  <2> QED
    BY <2>5, <2>6
<1> QED
  BY <1>2, <1>3, <1>4

-----------------------------------------------------------------------------
(* Threads are started and closed.                                         *)

(* A thread that was not there gets a priority of its own.                 *)
LEMMA NewLent ==
  ASSUME NEW s, Lists(s), Books(s), Lent(s), NEW t \in Threads, s.stat[t] = "NONE", NEW p \in Priorities,
         NEW r, r.stat = [s.stat EXCEPT ![t] = "INIT"], r.prio = [s.prio EXCEPT ![t] = p],
         r.base = [s.base EXCEPT ![t] = p], r.taken = s.taken, r.mprio = s.mprio, r.ceil = s.ceil,
         r.owner = s.owner, r.obj = s.obj, r.at = s.at
  PROVE  Lent(r)
<1>0. /\ s.stat \in [Threads -> Stats] /\ s.prio \in [Threads -> Priorities] /\ s.base \in [Threads -> Priorities]
      /\ s.taken \in [Threads -> SUBSET Mutexes] /\ s.taken[t] = {}
  BY NewAlone DEF Lists, Inv, Sound, Typed, IpcTyped
<1>1. \A u \in Threads, m \in Mutexes : WaitsAt(r, u, m) <=> WaitsAt(s, u, m)
  BY <1>0 DEF WaitsAt
<1>2. Known(r)
  BY <1>1 DEF Lent, Known
<1>3. Raised(r)
  <2>1. SUFFICES ASSUME NEW m \in Mutexes PROVE Least(r.mprio[m], Asked(r, m))
    BY DEF Raised
  <2>2. Waiters(r, m) = Waiters(s, m)
    BY <1>1 DEF Waiters
  <2>3. \A u \in Waiters(s, m) : u \in Threads /\ u # t
    BY DEF Waiters, WaitsAt
  <2>4. \A u \in Waiters(s, m) : r.prio[u] = s.prio[u]
    BY <1>0, <2>3
  <2>5. Asked(r, m) = Asked(s, m)
    BY ONLY <2>2, <2>4, AskedSame
  <2> QED
    BY <2>5 DEF Lent, Raised
<1>4. RightBut(r, NULL)
  <2>1. SUFFICES ASSUME NEW u \in Threads PROVE Least(r.prio[u], Wanted(r, u))
    BY DEF RightBut
  <2>2. CASE u = t
    <3>1. r.prio[t] = p /\ r.base[t] = p /\ r.taken[t] = {} /\ p \in Nat
      BY <1>0 DEF Priorities
    <3>2. Wanted(r, t) = {p}
      BY <3>1 DEF Wanted
    <3> QED
      BY <2>2, <3>1, <3>2 DEF Least
  <2>3. CASE u # t
    <3>1. r.prio[u] = s.prio[u] /\ r.base[u] = s.base[u] /\ s.taken[u] \subseteq Mutexes
      BY <1>0, <2>3
    <3>2. Wanted(r, u) = Wanted(s, u)
      BY <3>1, WantedSame
    <3> QED
      BY <3>1, <3>2, NullAssumption DEF Lent, RightBut
  <2> QED
    BY <2>2, <2>3
<1> QED
  BY <1>2, <1>3, <1>4 DEF Lent

(* rt_thread_create and rt_thread_startup.                                 *)
LEMMA StartLent ==
  ASSUME NEW s, Settled(s), Lent(s), NEW t \in Workers, s.stat[t] = "NONE"
  PROVE  Lent(Start(s, t))
<1> DEFINE p == Prio[t]
           a == _thread_init(s, t, p)
           b == [a EXCEPT !.base[t] = p, !.err[t] = "EOK", !.pend[t] = NULL, !.taken[t] = {}]
           F == {"base", "err", "pend", "taken"}
<1>0. /\ Lists(s) /\ Books(s) /\ s.stat \in [Threads -> Stats] /\ t \in Threads /\ p \in Priorities
      /\ s.stat[s.cur] = "RUNNING" /\ s.cur \in Threads
  BY SettledIs, PrioAssumption DEF Threads, Settled
<1>1. Start(s, t) = rt_thread_startup(b, t)
  BY DEF Start
<1> HIDE DEF p
<1>2. /\ Lists(a) /\ Books(a) /\ SameIpc(s, a) /\ a.mprio = s.mprio /\ a.cur = s.cur
      /\ a.stat = [s.stat EXCEPT ![t] = "INIT"] /\ a.prio = [s.prio EXCEPT ![t] = p]
  BY <1>0, Creates
<1>3. a.stat[t] = "INIT"
  BY <1>0, <1>2
<1> HIDE DEF a
<1>4. Lists(b) /\ Books(b) /\ b.stat = a.stat
  <2>1. t \in Threads /\ p \in Priorities /\ Lists(a) /\ Books(a) /\ a.stat[t] = "INIT"
    BY <1>0, <1>2, <1>3
  <2> QED
    BY <2>1, NewSet, ZenonT(40)
<1>5. Shape(a) /\ IpcFields \subseteq DOMAIN a /\ a.taken \in [Threads -> SUBSET Mutexes] /\ a.taken[t] = {}
  BY <1>0, <1>2, <1>3, NewAlone DEF Lists, Inv, Sound, Typed, IpcTyped
<1>6. /\ Changes(a, b, F) /\ b.base = [a.base EXCEPT ![t] = p] /\ b.taken = [a.taken EXCEPT ![t] = {}]
  BY <1>5 DEF Shape, Changes, IpcFields
<1> HIDE DEF b
<1>7. /\ b.cur = a.cur /\ b.prio = a.prio /\ b.mprio = a.mprio /\ b.ceil = a.ceil /\ b.owner = a.owner
      /\ b.obj = a.obj /\ b.at = a.at
  <2>1. /\ "cur" \notin F /\ "prio" \notin F /\ "mprio" \notin F /\ "ceil" \notin F /\ "owner" \notin F
        /\ "obj" \notin F /\ "at" \notin F
    OBVIOUS
  <2> HIDE DEF F
  <2> QED
    BY <1>5, <1>6, <2>1, Kept, KeptIpc
<1>8. b.taken = s.taken
  BY <1>2, <1>5, <1>6 DEF SameIpc
<1>9. Lent(b)
  <2>1. /\ b.stat = [s.stat EXCEPT ![t] = "INIT"] /\ b.prio = [s.prio EXCEPT ![t] = p]
        /\ b.base = [s.base EXCEPT ![t] = p] /\ b.mprio = s.mprio /\ b.ceil = s.ceil
        /\ b.owner = s.owner /\ b.obj = s.obj /\ b.at = s.at
    BY <1>2, <1>4, <1>6, <1>7 DEF SameIpc
  <2> QED
    BY <1>0, <1>8, <2>1, NewLent
<1>10. b.stat[b.cur] # "SUSPEND" /\ b.stat[t] = "INIT"
  BY <1>0, <1>2, <1>3, <1>4, <1>7
<1>11. Still(b, rt_thread_startup(b, t))
  BY <1>0, <1>4, <1>10, StartupStill
<1> QED
  BY <1>1, <1>9, <1>11, LentStill

(* Thread t leaves the list of mutex m, and the mutex asks for less.       *)
LEMMA LeaverAsked ==
  ASSUME NEW s, Lists(s), Lent(s), NEW t \in Threads, NEW m \in Mutexes, WaitsAt(s, t, m),
         NEW r, Lists(r), r.prio = s.prio, Waiters(r, m) = Waiters(s, m) \ {t}, Least(r.mprio[m], Asked(r, m))
  PROVE  r.mprio[m] = s.mprio[m] \/ Turned(s.prio[t], FALSE, s.mprio[m], r.mprio[m])
<1>1. Asked(s, m) = Asked(r, m) \cup {s.prio[t]}
  <2>1. t \in Waiters(s, m) /\ Waiters(s, m) = Waiters(r, m) \cup {t}
    BY DEF Waiters
  <2> QED
    BY <2>1 DEF Asked
<1>2. /\ s.prio[t] \in Nat /\ Asked(r, m) \in SUBSET Nat /\ s.mprio[m] \in Nat /\ r.mprio[m] \in Nat
      /\ Least(s.mprio[m], Asked(s, m))
  BY PrioritiesAre DEF Lent, Raised
<1> QED
  BY <1>1, <1>2 DEF Least, Turned

(* What a waiter that leaves lent is taken back along the chain of owners. *)
LEMMA DropLent ==
  ASSUME NEW s, Settled(s), Lent(s), NEW t \in Threads, NEW m \in Mutexes, WaitsAt(s, t, m),
         NEW z, Chainable(z), SameIpc(s, z), z.stat = [s.stat EXCEPT ![t] = "INIT"], z.prio = s.prio, z.mprio = s.mprio
  PROVE  Lent(DropPriority(z, m, t)) /\ Updated(z, DropPriority(z, m, t))
<1> DEFINE o == s.owner[m]
           out == _mutex_update_priority(z, m)
           q == _thread_get_mutex_priority(out, o)
           c == s.prio[t]
<1>0. /\ Lists(s) /\ Lists(z) /\ o \in Threads /\ o # t /\ z.owner[m] = o /\ z.obj[m] = "live"
      /\ s.stat \in [Threads -> Stats] /\ m \in s.taken[o]
  <2>1. Lists(s) /\ Books(s) /\ s.owner \in [Mutexes -> Threads \cup {NULL}] /\ s.stat \in [Threads -> Stats]
    BY SettledIs DEF Settled, IpcTyped
  <2>2. o # NULL
    BY <2>1 DEF Books, Pends, WaitsAt
  <2> QED
    BY <2>1, <2>2 DEF Lent, Known, SameIpc, Chainable
<1>1. /\ Lists(out) /\ SameIpc(z, out) /\ out.stat = z.stat /\ out.prio = z.prio
      /\ \A n \in Mutexes \ {m} : out.mprio[n] = z.mprio[n]
      /\ Least(out.mprio[m], Asked(out, m))
  BY <1>0, MutexRaised
<1>2. DropPriority(z, m, t) = IF s.prio[o] = s.prio[t] /\ q # s.prio[o] THEN _thread_update_priority(out, o, q) ELSE out
  BY <1>0, NullAssumption DEF DropPriority
<1>3. Updated(z, DropPriority(z, m, t))
  BY <1>0, NullAssumption, Drops
<1>4. q \in Priorities /\ Chainable(out)
  BY <1>0, <1>1, MutexPriorityIs, ChainableAgain DEF Lists
<1> HIDE DEF out
<1>5. \A u \in Threads, n \in Mutexes : WaitsAt(out, u, n) <=> u # t /\ WaitsAt(s, u, n)
  BY <1>0, <1>1 DEF WaitsAt, SameIpc
<1>6. SameIpc(s, out)
  BY <1>1 DEF SameIpc
<1>7. Known(out)
  BY <1>5, <1>6 DEF Lent, Known, SameIpc
<1>8. Raised(out)
  <2>1. SUFFICES ASSUME NEW n \in Mutexes \ {m} PROVE Least(out.mprio[n], Asked(out, n))
    BY <1>1 DEF Raised
  <2>2. Waiters(out, n) = Waiters(s, n)
    BY <1>5 DEF Waiters, WaitsAt
  <2>3. Asked(out, n) = Asked(s, n)
    BY <1>1, <2>2, AskedSame
  <2> QED
    BY <1>1, <2>3 DEF Lent, Raised
<1>9. RightBut(out, o)
  <2>1. SUFFICES ASSUME NEW u \in Threads \ {o} PROVE Least(out.prio[u], Wanted(out, u))
    BY DEF RightBut
  <2>2. m \notin s.taken[u] /\ s.taken[u] \subseteq Mutexes
    BY <1>0, PrioritiesAre DEF Lent, Known
  <2>3. Wanted(out, u) = Wanted(s, u)
    BY <1>1, <1>6, <2>2, WantedSame DEF SameIpc
  <2> QED
    BY <1>1, <2>3, NullAssumption DEF Lent, RightBut
<1>10. c \in Nat /\ s.prio[o] \in Nat /\ q \in Nat /\ Least(s.prio[o], Wanted(s, o)) /\ Least(q, Wanted(out, o))
  BY <1>0, <1>1, <1>4, <1>7, PrioritiesAre, GetsLeast, NullAssumption DEF Lent, RightBut, Priorities
<1>11. q = s.prio[o] \/ Turned(c, FALSE, s.prio[o], q)
  <2>1. Waiters(out, m) = Waiters(s, m) \ {t}
    BY <1>5 DEF Waiters
  <2>2. out.mprio[m] = s.mprio[m] \/ Turned(c, FALSE, s.mprio[m], out.mprio[m])
    BY <1>0, <1>1, <2>1, LeaverAsked
  <2>3. /\ out.taken[o] = s.taken[o] /\ out.base[o] = s.base[o] /\ \A n \in Mutexes \ {m} : out.mprio[n] = s.mprio[n]
        /\ FALSE \in BOOLEAN
    BY <1>1, <1>6 DEF SameIpc
  <2> HIDE DEF o, q, c
  <2> QED
    BY <1>0, <1>1, <1>10, <2>2, <2>3, WantedTurns
<1>12. CASE q # s.prio[o]
  <2>1. Turned(c, FALSE, out.prio[o], q) /\ s.prio[o] = s.prio[t] /\ FALSE \in BOOLEAN
    BY <1>1, <1>11, <1>12 DEF Turned
  <2> HIDE DEF o, q, c
  <2>2. Lent(_thread_update_priority(out, o, q))
    BY <1>0, <1>4, <1>7, <1>8, <1>9, <1>10, <2>1, WalkEnds
  <2> QED
    BY <1>2, <1>3, <1>12, <2>1, <2>2
<1>13. CASE q = s.prio[o]
  <2>1. Least(out.prio[o], Wanted(out, o))
    BY <1>1, <1>10, <1>13
  <2>2. RightBut(out, NULL)
    BY <1>9, <2>1 DEF RightBut
  <2> QED
    BY <1>2, <1>3, <1>7, <1>8, <1>13, <2>2 DEF Lent
<1> QED
  BY <1>12, <1>13

(* rt_thread_control with RT_THREAD_CTRL_CLOSE.                            *)
LEMMA CloseLent ==
  ASSUME NEW s, Settled(s), Lent(s), NEW t \in Threads \ {Idle}, s.stat[t] \notin {"NONE", "CLOSE"}, s.taken[t] = {}
  PROVE  Lent(rt_schedule(Kill(s, t)))
<1> DEFINE r == Kill(s, t)
<1>0. /\ Lists(s) /\ Books(s) /\ s.stat \in [Threads -> Stats] /\ s.at \in [Threads -> Objects \cup {NULL, Sleep}]
      /\ s.pend \in [Threads -> Mutexes \cup {NULL}] /\ t \in Threads
  BY SettledIs DEF Settled, IpcTyped
<1>1. s.pend[t] \in Mutexes \cup {NULL} /\ \A m \in Mutexes : s.obj[m] = "live" /\ NULL \notin Mutexes
  BY <1>0, MutexIs DEF Lent, Known
<1>2. ASSUME s.pend[t] = NULL PROVE Lists(r) /\ Lent(r)
  <2>1. Lists(r) /\ Gone(s, r, t) /\ r.prio = s.prio /\ r.mprio = s.mprio
    BY <1>0, <1>2, KillsOther
  <2> HIDE DEF r
  <2>2. \A m \in Mutexes : ~WaitsAt(s, t, m)
    BY <1>0, <1>1, <1>2 DEF Books, Pends
  <2>3. \A u \in Threads, m \in Mutexes : WaitsAt(r, u, m) <=> WaitsAt(s, u, m)
    BY <1>0, <2>1, <2>2 DEF Gone, WaitsAt
  <2>4. Still(s, r)
    BY <2>1, <2>3 DEF Still, Gone
  <2> QED
    BY <2>1, <2>4, LentStill
<1>3. ASSUME s.pend[t] # NULL PROVE Lists(r) /\ Lent(r)
  <2> DEFINE m == s.pend[t]
  <2>1. m \in Mutexes /\ s.obj[m] # "detached" /\ WaitsAt(s, t, m)
    BY <1>0, <1>1, <1>3 DEF Books, Pends
  <2>2. Lists(r) /\ Gone(s, r, t)
    BY <1>3, <2>1, KillsWaiter
  <2>3. PICK z : /\ Chainable(z) /\ SameIpc(s, z) /\ z.stat = [s.stat EXCEPT ![t] = "INIT"]
                 /\ z.prio = s.prio /\ z.mprio = s.mprio
                 /\ LET d == DropPriority(z, m, t) IN r.prio = d.prio /\ r.mprio = d.mprio
    BY <1>3, <2>1, KillsWaiter
  <2> DEFINE d == DropPriority(z, m, t)
  <2>4. r.prio = d.prio /\ r.mprio = d.mprio
    BY <2>3
  <2> HIDE DEF m
  <2>5. Lent(d) /\ Updated(z, d)
    BY <1>0, <2>1, <2>3, DropLent
  <2> HIDE DEF r, d
  <2>6. SameIpc(s, d) /\ d.stat = [s.stat EXCEPT ![t] = "INIT"]
    BY <2>3, <2>5 DEF Updated, SameIpc
  <2>7. \A u \in Threads, n \in Mutexes : WaitsAt(r, u, n) <=> WaitsAt(d, u, n)
    BY <1>0, <2>2, <2>6 DEF Gone, WaitsAt, SameIpc
  <2>8. Still(d, r)
    BY <2>2, <2>4, <2>6, <2>7 DEF Still, Gone, SameIpc
  <2> QED
    BY <2>2, <2>5, <2>8, LentStill
<1>4. Lists(r) /\ Lent(r)
  BY <1>2, <1>3
<1>5. Lists(rt_schedule(r))
  BY ThreadClosed DEF Settled
<1>6. Lent(rt_schedule(r))
  <2> HIDE DEF r
  <2> QED
    BY <1>4, <1>5, StillSchedule, LentStill
<1> QED
  BY <1>6

-----------------------------------------------------------------------------
(* The system: priorities are always right.                                *)

(* An application that leaves current_priority to the kernel, removes no   *)
(* mutex and sets no ceiling.                                              *)
Plain == app.calls \cap {"control", "create", "mutex_ceiling", "mutex_detach", "mutex_delete"} = {}

(* The invariant about priorities.                                         *)
LentInv == Orderly /\ Plain => Lent(k)

(* A call that leaves priorities alone.                                    *)
LEMMA LeavesLent ==
  ASSUME Lent(k), Still(k, k')
  PROVE  Lent(k')
BY LentStill

(* The kernel rtthread_startup leaves.                                     *)
LEMMA LentStarts == IpcInit => LentInv
<1> SUFFICES ASSUME IpcInit, Orderly PROVE Lent(k)
  BY DEF LentInv
<1>1. /\ k.base = Boot.prio /\ k.prio = Boot.prio /\ k.taken = [t \in Threads |-> {}] /\ k.at = [t \in Threads |-> NULL]
      /\ k.owner = [m \in Mutexes |-> NULL] /\ k.mprio = [m \in Mutexes |-> NoPrio]
      /\ k.ceil = [m \in Mutexes |-> NoPrio] /\ k.obj = [o \in Objects |-> "live"]
  BY DEF IpcInit
<1>2. Lists(k)
  BY IpcStarts DEF IpcInv, Settled
<1>3. \A t \in Threads, m \in Mutexes : ~WaitsAt(k, t, m)
  BY <1>1, MutexIs DEF WaitsAt
<1>4. Known(k)
  BY <1>1, <1>3, MutexIs, NullAssumption DEF Known
<1>5. Raised(k)
  <2>1. \A m \in Mutexes : Asked(k, m) = {NoPrio} /\ k.mprio[m] = NoPrio
    BY <1>1, <1>3 DEF Asked, Waiters
  <2>2. NoPrio \in Nat
    BY LevelsAssumption DEF NoPrio
  <2> QED
    BY <2>1, <2>2 DEF Raised, Least
<1>6. RightBut(k, NULL)
  <2>1. \A t \in Threads : Wanted(k, t) = {k.prio[t]}
    BY <1>1 DEF Wanted
  <2>2. \A t \in Threads : k.prio[t] \in Nat
    BY <1>2, PrioritiesAre
  <2> QED
    BY <2>1, <2>2 DEF RightBut, Least
<1> QED
  BY <1>4, <1>5, <1>6 DEF Lent

(* The calls on semaphores.                                                *)
LEMMA SemLent ==
  ASSUME IpcInv, Orderly, Lent(k), SemTake \/ SemTimedTake \/ SemRelease \/ SemControl \/ SemDelete
  PROVE  Lent(k')
<1>1. CASE SemTake
  <2>1. PICK o \in Live(Sems), w \in {"no", "forever"} : k' = _rt_sem_take(k, o, w)
    BY <1>1 DEF SemTake
  <2>2. Settled(k) /\ k.cur # Idle /\ k.at[k.cur] = NULL /\ o \in Sems /\ w \in Waits
    BY <1>1, CallIs DEF SemTake, Live, Waits
  <2> QED
    BY <2>1, <2>2, SemTakeStill, LeavesLent
<1>2. CASE SemTimedTake
  <2>1. PICK o \in Live(Sems) : k' = _rt_sem_take(k, o, "timed")
    BY <1>2 DEF SemTimedTake
  <2>2. Settled(k) /\ k.cur # Idle /\ k.at[k.cur] = NULL /\ o \in Sems /\ "timed" \in Waits
    BY <1>2, CallIs DEF SemTimedTake, Live, Waits
  <2> QED
    BY <2>1, <2>2, SemTakeStill, LeavesLent
<1>3. CASE SemRelease
  <2>1. PICK o \in Live(Sems) : k' = rt_sem_release(k, o)
    BY <1>3 DEF SemRelease
  <2>2. Settled(k) /\ o \in Sems
    BY <1>3, CallIs DEF SemRelease, Live
  <2> QED
    BY <2>1, <2>2, SemReleaseStill, LeavesLent
<1>4. CASE SemControl
  <2>1. PICK o \in Live(Sems), v \in 0 .. SemMax : k' = SemReset(k, o, v)
    BY <1>4 DEF SemControl
  <2>2. Settled(k) /\ o \in Sems
    BY <1>4, CallIs DEF SemControl, Live
  <2> QED
    BY <2>1, <2>2, SemResetStill, LeavesLent
<1>5. CASE SemDelete
  <2>1. PICK o \in Live(Sems), how \in {"detached", "freed"} : k' = SemRemove(k, o, how)
    BY <1>5 DEF SemDelete
  <2>2. Settled(k) /\ o \in Sems
    BY <1>5, CallIs DEF SemDelete, Live
  <2> QED
    BY <2>1, <2>2, SemRemoveStill, LeavesLent
<1> QED
  BY <1>1, <1>2, <1>3, <1>4, <1>5

(* The calls on mutexes.                                                   *)
LEMMA MutexLent ==
  ASSUME IpcInv, Orderly, Plain, Lent(k),
         MutexTake \/ MutexTimedTake \/ MutexRelease \/ MutexCeiling \/ MutexDetach \/ MutexDelete
  PROVE  Lent(k')
<1>1. CASE MutexTake
  <2>1. PICK m \in Live(Mutexes), w \in {"no", "forever"} : k' = _rt_mutex_take(k, m, w)
    BY <1>1 DEF MutexTake
  <2>2. Settled(k) /\ k.cur # Idle /\ k.at[k.cur] = NULL /\ m \in Mutexes /\ w \in Waits
    BY <1>1, CallIs DEF MutexTake, Live, Waits
  <2> QED
    BY <2>1, <2>2, TakeLent
<1>2. CASE MutexTimedTake
  <2>1. PICK m \in Live(Mutexes) : k' = _rt_mutex_take(k, m, "timed")
    BY <1>2 DEF MutexTimedTake
  <2>2. Settled(k) /\ k.cur # Idle /\ k.at[k.cur] = NULL /\ m \in Mutexes /\ "timed" \in Waits
    BY <1>2, CallIs DEF MutexTimedTake, Live, Waits
  <2> QED
    BY <2>1, <2>2, TakeLent
<1>3. CASE MutexRelease
  <2>1. PICK m \in Live(Mutexes) : k' = rt_mutex_release(k, m)
    BY <1>3 DEF MutexRelease
  <2>2. Settled(k) /\ k.at[k.cur] = NULL /\ m \in Mutexes
    BY <1>3, CallIs DEF MutexRelease, Live
  <2> QED
    BY <2>1, <2>2, ReleaseLent
<1>4. ~(MutexCeiling \/ MutexDetach \/ MutexDelete)
  BY DEF MutexCeiling, MutexDetach, MutexDelete, Calls, Plain
<1> QED
  BY <1>1, <1>2, <1>3, <1>4

(* The calls on threads.                                                   *)
LEMMA ThreadLent ==
  ASSUME IpcInv, Orderly, Lent(k), ThreadStart \/ ThreadSuspend \/ ThreadSleep \/ ThreadResume \/ ThreadClose
  PROVE  Lent(k')
<1>1. CASE ThreadStart
  <2>1. PICK t \in Workers : k.stat[t] = "NONE" /\ k' = Start(k, t)
    BY <1>1 DEF ThreadStart
  <2>2. Settled(k)
    BY DEF IpcInv
  <2> QED
    BY <2>1, <2>2, StartLent
<1>2. CASE ThreadSuspend
  <2>1. k' = rt_schedule(rt_thread_suspend(k, k.cur))
    BY <1>2 DEF ThreadSuspend
  <2>2. Settled(k) /\ k.cur # Idle /\ k.at[k.cur] = NULL
    BY <1>2, CallIs DEF ThreadSuspend
  <2> QED
    BY <2>1, <2>2, SuspendStill, LeavesLent
<1>3. CASE ThreadSleep
  <2>1. k' = rt_thread_sleep(k)
    BY <1>3 DEF ThreadSleep
  <2>2. Settled(k) /\ k.cur # Idle /\ k.at[k.cur] = NULL
    BY <1>3, CallIs DEF ThreadSleep
  <2> QED
    BY <2>1, <2>2, SleepStill, LeavesLent
<1>4. CASE ThreadResume
  <2>1. PICK t \in Threads : /\ IF k.at[t] \in Mutexes THEN Calls("resume_any") ELSE Calls("resume")
                             /\ k.stat[t] = "SUSPEND" /\ k' = rt_thread_resume(k, t)
    BY <1>4 DEF ThreadResume
  <2>2. ~Calls("resume_any")
    BY DEF Calls, Orderly, Served
  <2>3. Settled(k) /\ k.at[t] \notin Mutexes
    BY <2>1, <2>2 DEF IpcInv
  <2> QED
    BY <2>1, <2>3, ResumeStill, LeavesLent
<1>5. CASE ThreadClose
  <2>1. PICK t \in Threads \ {Idle} : /\ k.stat[t] \notin {"NONE", "CLOSE"} /\ k.taken[t] = {}
                                      /\ k' = rt_schedule(Kill(k, t))
    BY <1>5 DEF ThreadClose
  <2>2. Settled(k)
    BY DEF IpcInv
  <2> QED
    BY <2>1, <2>2, CloseLent
<1> QED
  BY <1>1, <1>2, <1>3, <1>4, <1>5

(* The running thread returns from the call it waited in.                  *)
LEMMA ReturnLent ==
  ASSUME IpcInv, Orderly, Lent(k), Return
  PROVE  Lent(k')
<1> DEFINE o == k.at[k.cur]
<1>1. /\ Settled(k) /\ Known(k) /\ o # NULL
      /\ k' = IF o \in Sems THEN SemReturn(k, o) ELSE IF o \in Mutexes THEN MutexReturn(k, o) ELSE SleepReturn(k)
  BY DEF IpcInv, Return, Lent
<1>2. Still(k, k')
  <2>1. /\ \A i \in Sems : o = i => Still(k, SemReturn(k, i))
        /\ \A m \in Mutexes : o = m => Still(k, MutexReturn(k, m))
        /\ Still(k, SleepReturn(k))
    BY <1>1, ReturnsStill
  <2> HIDE DEF o
  <2> QED
    BY <1>1, <2>1
<1> QED
  BY <1>2, LeavesLent

(* A timer expires.                                                        *)
LEMMA ExpireLent ==
  ASSUME IpcInv, Orderly, Lent(k), NEW t \in Threads, Expire(t)
  PROVE  Lent(k')
<1>1. Settled(k) /\ "tick" \in app.calls /\ t \in k.timer /\ k' = rt_schedule(_thread_timeout(k, t))
  BY DEF IpcInv, Expire
<1>2. k.at[t] \notin Mutexes
  BY <1>1 DEF IpcInv, Orderly, Untimed
<1> QED
  BY <1>1, <1>2, ExpireStill, LeavesLent

(* The scheduler's own calls.                                              *)
LEMMA SchedLent ==
  ASSUME IpcInv, Orderly, Plain, Lent(k), Next
  PROVE  Lent(k')
<1>0. Settled(k)
  BY DEF IpcInv
<1>1. CASE Startup
  <2>1. PICK t \in Workers : k.stat[t] = "INIT" /\ k' = rt_thread_startup(k, t)
    BY <1>1 DEF Startup
  <2>2. t \in Threads /\ Lists(k) /\ Books(k) /\ k.stat[k.cur] # "SUSPEND"
    BY <1>0 DEF Threads, Settled
  <2> QED
    BY <2>1, <2>2, StartupStill, LeavesLent
<1>2. CASE Yield
  BY <1>0, <1>2, YieldStill, LeavesLent DEF Yield
<1>3. CASE IdleLoop
  BY <1>0, <1>3, IdleStill, LeavesLent DEF IdleLoop
<1>4. ~(Create \/ Suspend \/ Resume \/ Control \/ Delete \/ ControlClose \/ Exit \/ EnterCritical \/ ExitCritical)
  BY DEF Create, Suspend, Resume, Control, Delete, ControlClose, Exit, EnterCritical, ExitCritical, Call, Orderly,
         Served, Plain
<1> QED
  BY <1>1, <1>2, <1>3, <1>4 DEF Next

(* All priorities are right always.                                        *)
LEMMA LentInvariant == IpcSpec => [](IpcInv /\ LentInv)
<1>1. IpcInit => LentInv
  BY LentStarts
<1>2. IpcInv /\ LentInv /\ [IpcNext]_vars => LentInv'
  <2> SUFFICES ASSUME IpcInv, LentInv, [IpcNext]_vars PROVE LentInv'
    OBVIOUS
  <2>1. CASE UNCHANGED vars
    BY <2>1 DEF vars, LentInv, Orderly, Plain
  <2>2. CASE IpcNext /\ Orderly /\ Plain
    <3>1. \/ SemTake \/ SemTimedTake \/ SemRelease \/ SemControl \/ SemDelete
          \/ MutexTake \/ MutexTimedTake \/ MutexRelease \/ MutexCeiling \/ MutexDetach \/ MutexDelete
          \/ ThreadStart \/ ThreadSuspend \/ ThreadSleep \/ ThreadResume \/ ThreadClose
          \/ Return \/ Next
          \/ \E t \in Threads : Expire(t)
      BY <2>2 DEF IpcNext
    <3>2. Lent(k)
      BY <2>2 DEF LentInv
    <3>3. Lent(k')
      BY <2>2, <3>1, <3>2, SemLent, MutexLent, ThreadLent, ReturnLent, SchedLent, ExpireLent
    <3> QED
      BY <3>3 DEF LentInv
  <2>3. CASE IpcNext /\ ~(Orderly /\ Plain)
    <3>1. UNCHANGED app
      BY <2>3, AppKept
    <3> QED
      BY <2>3, <3>1 DEF LentInv, Orderly, Plain
  <2> QED
    BY <2>1, <2>2, <2>3
<1> QED
  BY <1>1, <1>2, IpcInvariant, PTL DEF IpcSpec

(* A right priority is the one a thread inherits.                          *)
LEMMA InheritsLent ==
  ASSUME Lists(k), Lent(k), NEW t \in Threads
  PROVE  k.prio[t] = Inherited(t)
<1> DEFINE C == {k.ceil[m] : m \in k.taken[t]}
           U == UNION {ToSet(k.list[m]) : m \in k.taken[t]}
           P == {k.prio[u] : u \in U}
           S == {k.base[t]} \cup C \cup P
<1>0. /\ k.taken[t] \subseteq Mutexes /\ k.prio[t] \in Nat /\ k.prio[t] < NoPrio /\ k.base[t] \in Nat
      /\ NoPrio \in Nat /\ \A u \in Threads : k.prio[u] \in Nat
  BY PrioritiesAre, LevelsAssumption DEF NoPrio
<1>1. C \subseteq {NoPrio}
  BY <1>0 DEF Lent, Known
<1>2. ASSUME NEW m \in Mutexes PROVE ToSet(k.list[m]) = Waiters(k, m)
  <2>1. k.list[m] \in Seq(Threads) /\ m \in Objects
    BY MutexIs DEF Lists, Inv, Sound, Typed
  <2>2. \A u \in Threads : u \in ToSet(k.list[m]) <=> On(u, k.list[m])
    BY <2>1 DEF ToSet, On
  <2>3. ToSet(k.list[m]) \subseteq Threads
    BY <2>1 DEF ToSet
  <2>4. \A u \in Threads : On(u, k.list[m]) <=> WaitsAt(k, u, m)
    BY <2>1 DEF Lists, Queues
  <2> QED
    BY <2>2, <2>3, <2>4 DEF Waiters
<1>3. P = UNION {{k.prio[u] : u \in Waiters(k, m)} : m \in k.taken[t]}
  BY <1>0, <1>2
<1>4. Least(k.prio[t], Wanted(k, t)) /\ \A m \in k.taken[t] : Least(k.mprio[m], Asked(k, m)) /\ k.mprio[m] \in Nat
  BY <1>0, NullAssumption, PrioritiesAre DEF Lent, RightBut, Raised
<1>5. k.prio[t] \in S
  <2>1. CASE k.prio[t] = k.base[t]
    BY <2>1
  <2>2. CASE k.prio[t] # k.base[t]
    <3>1. PICK m \in k.taken[t] : k.prio[t] = k.mprio[m]
      BY <1>4, <2>2 DEF Least, Wanted
    <3>2. k.mprio[m] \in Asked(k, m) /\ k.mprio[m] # NoPrio
      BY <1>0, <1>4, <3>1 DEF Least
    <3>3. PICK u \in Waiters(k, m) : k.mprio[m] = k.prio[u]
      BY <3>2 DEF Asked
    <3>4. u \in U
      BY <1>0, <1>2, <3>3
    <3> HIDE DEF U
    <3> QED
      BY <3>1, <3>3, <3>4
  <2> QED
    BY <2>1, <2>2
<1>6. \A w \in S : w \in Nat /\ k.prio[t] <= w
  <2>1. SUFFICES ASSUME NEW w \in S PROVE w \in Nat /\ k.prio[t] <= w
    OBVIOUS
  <2>2. CASE w = k.base[t]
    BY <1>0, <1>4, <2>2 DEF Least, Wanted
  <2>3. CASE w \in C
    BY <1>0, <1>1, <2>3
  <2>4. CASE w \in P
    <3>1. PICK m \in k.taken[t] : \E u \in Waiters(k, m) : w = k.prio[u]
      <4>1. w \in UNION {{k.prio[u] : u \in Waiters(k, i)} : i \in k.taken[t]}
        BY <1>3, <2>4
      <4> QED
        BY <4>1
    <3>2. w \in Asked(k, m) /\ w \in Nat
      BY <1>0, <3>1 DEF Asked, Waiters
    <3>3. k.mprio[m] <= w /\ k.mprio[m] \in Nat
      BY <1>4, <3>2 DEF Least
    <3>4. k.prio[t] <= k.mprio[m]
      BY <1>4 DEF Least, Wanted
    <3> QED
      BY <1>0, <3>2, <3>3, <3>4
  <2> QED
    BY <2>2, <2>3, <2>4
<1>7. Inherited(t) = Min(S)
  BY DEF Inherited
<1> HIDE DEF S
<1>8. S \in SUBSET Nat /\ S # {}
  BY <1>5, <1>6
<1>9. Min(S) \in S /\ \A y \in S : Min(S) <= y
  BY <1>8, MinIs
<1>10. Min(S) = k.prio[t]
  <2> DEFINE w == Min(S)
  <2>1. w \in Nat /\ k.prio[t] <= w /\ w <= k.prio[t]
    <3> HIDE DEF w
    <3>1. w \in S /\ \A y \in S : w <= y
      BY <1>9 DEF w
    <3> QED
      BY <1>5, <1>6, <3>1
  <2> HIDE DEF w
  <2>2. w = k.prio[t]
    BY <1>0, <2>1
  <2> QED
    BY <2>2 DEF w
<1> QED
  BY <1>7, <1>10

(* A thread runs with its own priority or the best one of the threads that *)
(* wait for its mutexes, through every chain of owners that wait           *)
(* themselves, and keeps none whose reason is gone: whatever is taken,     *)
(* released, started or closed (_rt_mutex_take, rt_mutex_release and       *)
(* _thread_update_priority of ipc.c, rt_thread_detach), for an orderly     *)
(* application.                                                            *)
THEOREM PrioritiesInherited == IpcSpec => [](Orderly => PriorityInherited)
<1>1. IpcInv /\ LentInv => (Orderly => PriorityInherited)
  <2> SUFFICES ASSUME IpcInv, LentInv, Orderly, Plain, NEW t \in Threads PROVE k.prio[t] = Inherited(t)
    BY DEF PriorityInherited, Plain
  <2>1. Lists(k) /\ Lent(k)
    BY DEF IpcInv, LentInv, Settled
  <2> QED
    BY <2>1, InheritsLent
<1> QED
  BY <1>1, LentInvariant, PTL

=============================================================================
