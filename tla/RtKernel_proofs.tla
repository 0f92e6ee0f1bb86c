-------------------------- MODULE RtKernel_proofs ---------------------------
(***************************************************************************)
(* Proofs about the kernel of RT-Thread. First the scheduler (RtSched):    *)
(* after any sequence of calls on threads, in any order and with any       *)
(* priorities, the lists of threads agree with the statuses, the bitmap    *)
(* with the lists, and the thread on the processor is the most urgent one. *)
(* The lemmas about single kernel functions speak of any record that has   *)
(* the fields of the scheduler, so that they hold for the kernel with      *)
(* semaphores, mutexes and timers (RtIpc) as well; the second half is      *)
(* about that one.                                                         *)
(***************************************************************************)
EXTENDS RtIpc, WellFoundedInduction, SequenceTheorems, FiniteSetTheorems, TLAPS

-----------------------------------------------------------------------------
(* Lists: what linking and unlinking a node does.                          *)

(* Every set of numbers that is not empty has a least one.                 *)
LEMMA LeastNat ==
  ASSUME NEW T \in SUBSET Nat, T # {}
  PROVE  \E x \in T : \A y \in T : x <= y
<1> DEFINE R == OpToRel(<, Nat)
<1>1. IsWellFoundedOn(R, Nat)
  BY NatLessThanWellFounded
<1>2. \A x, y \in Nat : x < y => <<x, y>> \in R
  BY DEF OpToRel
<1> HIDE DEF R
<1>3. PICK x \in T : \A y \in T : <<y, x>> \notin R
  BY <1>1, WFMin
<1>4. ASSUME NEW y \in T PROVE x <= y
  <2>1. x \in Nat /\ y \in Nat /\ ~(y < x)
    BY <1>2, <1>3
  <2> QED
    BY <2>1
<1> QED
  BY <1>3, <1>4

(* Min is that number: rt_schedule takes the lowest bit that is set.       *)
LEMMA MinIs ==
  ASSUME NEW S \in SUBSET Nat, S # {}
  PROVE  Min(S) \in S /\ \A y \in S : Min(S) <= y
BY LeastNat DEF Min

(* What is left of a sequence without its entry i.                         *)
LEMMA RemoveAtIs ==
  ASSUME NEW T, NEW l \in Seq(T), NEW i \in 1 .. Len(l)
  PROVE  /\ RemoveAt(l, i) \in Seq(T) /\ Len(RemoveAt(l, i)) = Len(l) - 1
         /\ \A j \in 1 .. Len(l) - 1 : RemoveAt(l, i)[j] = IF j < i THEN l[j] ELSE l[j + 1]
<1> DEFINE a == SubSeq(l, 1, i - 1)
           b == SubSeq(l, i + 1, Len(l))
<1>1. a \in Seq(T) /\ Len(a) = i - 1 /\ \A j \in 1 .. i - 1 : a[j] = l[j]
  OBVIOUS
<1>2. b \in Seq(T) /\ Len(b) = Len(l) - i /\ \A j \in 1 .. Len(l) - i : b[j] = l[i + j]
  OBVIOUS
<1> HIDE DEF a, b
<1>5. a \o b \in Seq(T)
  BY <1>1, <1>2
<1>6. Len(a \o b) = Len(a) + Len(b)
  BY <1>1, <1>2, ConcatProperties
<1>3. a \o b \in Seq(T) /\ Len(a \o b) = Len(l) - 1
  BY <1>1, <1>2, <1>5, <1>6
<1>4. \A j \in 1 .. Len(l) - 1 : (a \o b)[j] = IF j < i THEN l[j] ELSE l[j + 1]
  BY <1>1, <1>2
<1> QED
  BY <1>3, <1>4 DEF RemoveAt, a, b

(* t is an entry of the list l.                                            *)
On(t, l) == \E i \in 1 .. Len(l) : l[i] = t

(* No entry occurs twice.                                                  *)
Distinct(l) == \A i, j \in 1 .. Len(l) : l[i] = l[j] => i = j

(* RemoveFirst takes an occurrence out, if there is one.                   *)
LEMMA RemoveFirstIs ==
  ASSUME NEW T, NEW l \in Seq(T), NEW t
  PROVE  \/ ~On(t, l) /\ RemoveFirst(l, t) = l
         \/ \E i \in 1 .. Len(l) : l[i] = t /\ RemoveFirst(l, t) = RemoveAt(l, i)
<1>1. CASE ~On(t, l)
  BY <1>1 DEF On, RemoveFirst
<1>2. CASE On(t, l)
  <2> DEFINE I == {i \in 1 .. Len(l) : l[i] = t}
  <2>1. I \in SUBSET Nat /\ I # {}
    BY <1>2 DEF On
  <2>2. Min(I) \in I
    BY <2>1, MinIs
  <2>3. SelectInSeq(l, LAMBDA v : v = t) = Min(I)
    BY <2>1 DEF SelectInSeq
  <2>4. RemoveFirst(l, t) = RemoveAt(l, Min(I))
    BY <1>2, <2>3 DEF On, RemoveFirst
  <2> QED
    BY <2>2, <2>4
<1> QED
  BY <1>1, <1>2

(* A node that is unlinked is gone, the others stay.                       *)
LEMMA Unlinked ==
  ASSUME NEW T, NEW l \in Seq(T), NEW t, Distinct(l)
  PROVE  LET r == RemoveFirst(l, t) IN
         /\ r \in Seq(T) /\ Distinct(r) /\ ~On(t, r)
         /\ \A u : u # t => (On(u, r) <=> On(u, l))
         /\ ~On(t, l) => r = l
<1> DEFINE r == RemoveFirst(l, t)
<1>1. CASE ~On(t, l) /\ r = l
  BY <1>1
<1>2. ASSUME NEW i \in 1 .. Len(l), l[i] = t, r = RemoveAt(l, i)
      PROVE  /\ r \in Seq(T) /\ Distinct(r) /\ ~On(t, r)
             /\ \A u : u # t => (On(u, r) <=> On(u, l))
             /\ On(t, l)
  <2> HIDE DEF r
  <2>1. r \in Seq(T) /\ Len(r) = Len(l) - 1 /\ \A j \in 1 .. Len(l) - 1 : r[j] = IF j < i THEN l[j] ELSE l[j + 1]
    BY <1>2, RemoveAtIs
  <2>2. Distinct(r) /\ ~On(t, r)
    <3> DEFINE p(j) == IF j < i THEN j ELSE j + 1
    <3>1. \A j \in 1 .. Len(r) : p(j) \in 1 .. Len(l) /\ p(j) # i /\ r[j] = l[p(j)]
      BY <2>1
    <3>2. \A j, n \in 1 .. Len(r) : p(j) = p(n) => j = n
      BY <2>1
    <3> HIDE DEF p
    <3>3. Distinct(r)
      BY <3>1, <3>2 DEF Distinct
    <3>4. ~On(t, r)
      BY <1>2, <3>1 DEF Distinct, On
    <3> QED
      BY <3>3, <3>4
  <2>3. ASSUME NEW u, u # t, On(u, r) PROVE On(u, l)
    BY <2>1, <2>3 DEF On
  <2>4. ASSUME NEW u, u # t, On(u, l) PROVE On(u, r)
    <3>1. PICK j \in 1 .. Len(l) : l[j] = u
      BY <2>4 DEF On
    <3>2. j # i
      BY <3>1, <2>4, <1>2
    <3>3. CASE j < i
      <4>1. j \in 1 .. Len(r) /\ r[j] = u
        BY <2>1, <3>1, <3>3
      <4> QED
        BY <4>1 DEF On
    <3>4. CASE j > i
      <4>1. j - 1 \in 1 .. Len(r) /\ r[j - 1] = u
        BY <2>1, <3>1, <3>4
      <4> QED
        BY <4>1 DEF On
    <3> QED
      BY <3>2, <3>3, <3>4
  <2>5. On(t, l)
    BY <1>2 DEF On
  <2> QED
    BY <2>1, <2>2, <2>3, <2>4, <2>5
<1> QED
  BY <1>1, <1>2, RemoveFirstIs

(* A node linked at the front is in the list, once.                        *)
LEMMA AtFront ==
  ASSUME NEW T, NEW l \in Seq(T), NEW t \in T, Distinct(l), ~On(t, l)
  PROVE  LET r == <<t>> \o l IN
         r \in Seq(T) /\ Distinct(r) /\ r # <<>> /\ \A u : On(u, r) <=> u = t \/ On(u, l)
<1> DEFINE r == <<t>> \o l
<1>1. r \in Seq(T) /\ Len(r) = Len(l) + 1 /\ r[1] = t /\ \A j \in 1 .. Len(l) : r[j + 1] = l[j]
  OBVIOUS
<1> HIDE DEF r
<1>2. \A j \in 2 .. Len(r) : j - 1 \in 1 .. Len(l) /\ r[j] = l[j - 1]
  BY <1>1
<1>3. Distinct(r)
  <2>1. SUFFICES ASSUME NEW i \in 1 .. Len(r), NEW j \in 1 .. Len(r), r[i] = r[j] PROVE i = j
    BY DEF Distinct
  <2>2. CASE i = 1 /\ j # 1
    <3>1. j - 1 \in 1 .. Len(l) /\ l[j - 1] = t
      BY <1>1, <1>2, <2>1, <2>2
    <3> QED
      BY <3>1 DEF On
  <2>3. CASE j = 1 /\ i # 1
    <3>1. i - 1 \in 1 .. Len(l) /\ l[i - 1] = t
      BY <1>1, <1>2, <2>1, <2>3
    <3> QED
      BY <3>1 DEF On
  <2>4. CASE i # 1 /\ j # 1
    <3>1. i - 1 \in 1 .. Len(l) /\ j - 1 \in 1 .. Len(l) /\ l[i - 1] = l[j - 1]
      BY <1>1, <1>2, <2>1, <2>4
    <3>2. i - 1 = j - 1
      BY <3>1 DEF Distinct
    <3> QED
      BY <1>1, <3>2
  <2> QED
    BY <2>2, <2>3, <2>4
<1>4. r # <<>>
  BY <1>1
<1>5. ASSUME NEW u, On(u, r) PROVE u = t \/ On(u, l)
  <2>1. PICK i \in 1 .. Len(r) : r[i] = u
    BY <1>5 DEF On
  <2>2. i # 1 => i - 1 \in 1 .. Len(l) /\ l[i - 1] = u
    BY <1>1, <1>2, <2>1
  <2> QED
    BY <1>1, <2>1, <2>2 DEF On
<1>6. ASSUME NEW u, u = t \/ On(u, l) PROVE On(u, r)
  <2>1. CASE u = t
    BY <1>1, <2>1 DEF On
  <2>2. CASE On(u, l)
    <3>1. PICK j \in 1 .. Len(l) : l[j] = u
      BY <2>2 DEF On
    <3>2. j + 1 \in 1 .. Len(r) /\ r[j + 1] = u
      BY <1>1, <3>1
    <3> QED
      BY <3>2 DEF On
  <2> QED
    BY <1>6, <2>1, <2>2
<1> QED
  BY <1>1, <1>3, <1>4, <1>5, <1>6 DEF r

(* The same at the end.                                                    *)
LEMMA AtEnd ==
  ASSUME NEW T, NEW l \in Seq(T), NEW t \in T, Distinct(l), ~On(t, l)
  PROVE  LET r == Append(l, t) IN
         r \in Seq(T) /\ Distinct(r) /\ r # <<>> /\ \A u : On(u, r) <=> u = t \/ On(u, l)
<1> DEFINE r == Append(l, t)
<1>1. r \in Seq(T) /\ Len(r) = Len(l) + 1 /\ r[Len(l) + 1] = t /\ \A j \in 1 .. Len(l) : r[j] = l[j]
  OBVIOUS
<1> HIDE DEF r
<1>3. Distinct(r)
  BY <1>1 DEF Distinct, On
<1>4. r # <<>>
  BY <1>1
<1>5. ASSUME NEW u, On(u, r) PROVE u = t \/ On(u, l)
  BY <1>1, <1>5 DEF On
<1>6. ASSUME NEW u, u = t \/ On(u, l) PROVE On(u, r)
  BY <1>1, <1>6 DEF On
<1> QED
  BY <1>1, <1>3, <1>4, <1>5, <1>6 DEF r

(* A list is empty when it has no entry.                                   *)
LEMMA Empty ==
  ASSUME NEW T, NEW l \in Seq(T)
  PROVE  l # <<>> <=> \E u \in T : On(u, l)
<1>1. l # <<>> => l[1] \in T /\ On(l[1], l)
  BY DEF On
<1>2. l = <<>> => \A u : ~On(u, l)
  BY DEF On
<1> QED
  BY <1>1, <1>2

(* The first entry of a list is one of its entries.                        *)
LEMMA First ==
  ASSUME NEW T, NEW l \in Seq(T), l # <<>>
  PROVE  Head(l) \in T /\ On(Head(l), l)
BY DEF On

-----------------------------------------------------------------------------
(* The kernel: its types, and where a thread is linked.                    *)

(* The fields of the kernel that the scheduler knows.                      *)
Fields == {"cur", "stat", "yield", "prio", "list", "group", "lock", "timer"}

(* s is a record with at least these fields.                               *)
Shape(s) == s = [x \in DOMAIN s |-> s[x]] /\ Fields \subseteq DOMAIN s

(* The kernel r differs from s in the fields F only.                       *)
Changes(s, r, F) == Shape(r) /\ DOMAIN r = DOMAIN s /\ \A x \in DOMAIN s \ F : r[x] = s[x]

(* The heads of the lists.                                                 *)
Heads == Priorities \cup {Defunct} \cup Objects

(* Every field has its type and no list holds a thread twice.              *)
Typed(s) ==
  /\ Shape(s)
  /\ s.cur \in Threads /\ s.stat \in [Threads -> Stats] /\ s.prio \in [Threads -> Priorities]
  /\ s.yield \subseteq Threads /\ s.timer \subseteq Threads
  /\ s.group \subseteq Priorities /\ s.lock \in Nat
  /\ s.list \in [Heads -> Seq(Threads)] /\ \A h \in Heads : Distinct(s.list[h])

(* A priority has its bit exactly when its list is not empty.              *)
Bits(s) == \A p \in Priorities : p \in s.group <=> s.list[p] # <<>>

(* Where the status of a thread says its node is linked.                   *)
Home(s, t, h) ==
  \/ s.stat[t] = "READY" /\ h = s.prio[t]
  \/ s.stat[t] = "CLOSE" /\ h = Defunct

(* A node is linked where its status says; only a suspended thread waits   *)
(* for an IPC object.                                                      *)
Placed(s, t) ==
  /\ \A h \in Priorities \cup {Defunct} : On(t, s.list[h]) <=> Home(s, t, h)
  /\ \A o \in Objects : On(t, s.list[o]) => s.stat[t] = "SUSPEND"

(* The part of the invariant about lists, bitmap and statuses.             *)
Sound(s) == Typed(s) /\ Bits(s) /\ \A t \in Threads : Placed(s, t)

(* A kernel function at work on t: t is in no list, everything else is     *)
(* sound.                                                                  *)
SoundBut(s, t) ==
  /\ Typed(s) /\ Bits(s)
  /\ \A h \in Heads : ~On(t, s.list[h])
  /\ \A u \in Threads \ {t} : Placed(s, u)

(* The heads of the lists are different.                                   *)
LEMMA HeadsAre ==
  /\ Priorities \subseteq Heads /\ Defunct \in Heads /\ Objects \subseteq Heads
  /\ Defunct \notin Priorities /\ Objects \cap Priorities = {} /\ Defunct \notin Objects
BY HeadsAssumption DEF Heads

(* Unlinking changes the lists only.                                       *)
LEMMA RemoveIs ==
  ASSUME NEW s, Shape(s), NEW t
  PROVE  LET r == rt_list_remove(s, t) IN
         /\ Changes(s, r, {"list"})
         /\ r.list = [h \in DOMAIN s.list |-> RemoveFirst(s.list[h], t)]
BY DEF rt_list_remove, Shape, Fields, Changes

(* A field that is not changed is the same.                                *)
LEMMA Kept ==
  ASSUME NEW s, Shape(s), NEW r, NEW F, Changes(s, r, F)
  PROVE  /\ "cur" \notin F => r.cur = s.cur
         /\ "stat" \notin F => r.stat = s.stat
         /\ "yield" \notin F => r.yield = s.yield
         /\ "prio" \notin F => r.prio = s.prio
         /\ "list" \notin F => r.list = s.list
         /\ "group" \notin F => r.group = s.group
         /\ "lock" \notin F => r.lock = s.lock
         /\ "timer" \notin F => r.timer = s.timer
BY DEF Shape, Changes, Fields

(* Two changes are one of the fields of both.                              *)
LEMMA ChangesTwice ==
  ASSUME NEW s, NEW r, NEW q, NEW F, NEW G, Changes(s, r, F), Changes(r, q, G)
  PROVE  Changes(s, q, F \cup G)
BY DEF Changes

(* Unlinking a thread leaves the others where they are.                    *)
LEMMA Unlinks ==
  ASSUME NEW s, Typed(s), NEW t
  PROVE  LET r == rt_list_remove(s, t) IN
         /\ Changes(s, r, {"list"}) /\ Typed(r)
         /\ \A h \in Heads : /\ ~On(t, r.list[h])
                             /\ \A u : u # t => (On(u, r.list[h]) <=> On(u, s.list[h]))
                             /\ ~On(t, s.list[h]) => r.list[h] = s.list[h]
<1> DEFINE r == rt_list_remove(s, t)
<1>1. Shape(s) /\ s.list \in [Heads -> Seq(Threads)] /\ \A h \in Heads : Distinct(s.list[h])
  BY DEF Typed
<1>2. Changes(s, r, {"list"}) /\ r.list = [h \in Heads |-> RemoveFirst(s.list[h], t)]
  BY <1>1, RemoveIs
<1> HIDE DEF r
<1>3. ASSUME NEW h \in Heads
      PROVE  /\ r.list[h] \in Seq(Threads) /\ Distinct(r.list[h]) /\ ~On(t, r.list[h])
             /\ \A u : u # t => (On(u, r.list[h]) <=> On(u, s.list[h]))
             /\ ~On(t, s.list[h]) => r.list[h] = s.list[h]
  <2>1. r.list[h] = RemoveFirst(s.list[h], t) /\ s.list[h] \in Seq(Threads) /\ Distinct(s.list[h])
    BY <1>1, <1>2
  <2> QED
    BY <2>1, Unlinked
<1>4. r.list \in [Heads -> Seq(Threads)]
  BY <1>2, <1>3
<1>5. Shape(r) /\ r.cur = s.cur /\ r.stat = s.stat /\ r.yield = s.yield /\ r.prio = s.prio
      /\ r.group = s.group /\ r.lock = s.lock /\ r.timer = s.timer
  <2>1. "cur" \notin {"list"} /\ "stat" \notin {"list"} /\ "yield" \notin {"list"} /\ "prio" \notin {"list"}
        /\ "group" \notin {"list"} /\ "lock" \notin {"list"} /\ "timer" \notin {"list"}
    OBVIOUS
  <2> QED
    BY <1>1, <1>2, <2>1, Kept DEF Changes
<1>6. Typed(r)
  BY <1>3, <1>4, <1>5 DEF Typed
<1> QED
  BY <1>2, <1>3, <1>6 DEF r

-----------------------------------------------------------------------------
(* Taking a thread off its list (scheduler_up.c).                          *)

(* A bit is cleared.                                                       *)
LEMMA BitOff ==
  ASSUME NEW s, Typed(s), NEW p
  PROVE  LET r == [s EXCEPT !.group = @ \ {p}] IN
         Typed(r) /\ Changes(s, r, {"group"}) /\ r.group = s.group \ {p}
<1> DEFINE r == [s EXCEPT !.group = @ \ {p}]
<1>1. Changes(s, r, {"group"}) /\ r.group = s.group \ {p}
  BY DEF Typed, Shape, Fields, Changes
<1>2. r.cur = s.cur /\ r.stat = s.stat /\ r.yield = s.yield /\ r.prio = s.prio
      /\ r.list = s.list /\ r.lock = s.lock /\ r.timer = s.timer
  BY DEF Typed, Shape, Fields
<1> HIDE DEF r
<1>3. Typed(r)
  BY <1>1, <1>2 DEF Typed, Changes
<1> QED
  BY <1>1, <1>3 DEF r

(* rt_schedule_remove_thread takes a thread off its list and clears the    *)
(* bit of its priority if that list is empty now: bitmap and lists agree   *)
(* again, wherever the thread was.                                         *)
LEMMA RemovedFromReady ==
  ASSUME NEW s, Sound(s), NEW t \in Threads
  PROVE  LET r == rt_schedule_remove_thread(s, t) IN
         /\ SoundBut(r, t) /\ Changes(s, r, {"list", "group"})
         /\ \A h \in Heads : /\ \A u : u # t => (On(u, r.list[h]) <=> On(u, s.list[h]))
                             /\ ~On(t, s.list[h]) => r.list[h] = s.list[h]
<1> DEFINE r == rt_schedule_remove_thread(s, t)
           o == rt_list_remove(s, t)
           p == s.prio[t]
<1>0. Typed(s) /\ Shape(s) /\ p \in Priorities
  BY DEF Sound, Typed
<1>1. /\ Changes(s, o, {"list"}) /\ Typed(o)
      /\ \A h \in Heads : /\ ~On(t, o.list[h])
                          /\ \A u : u # t => (On(u, o.list[h]) <=> On(u, s.list[h]))
                          /\ ~On(t, s.list[h]) => o.list[h] = s.list[h]
  BY <1>0, Unlinks
<1>2. o.stat = s.stat /\ o.prio = s.prio /\ o.group = s.group
  <2>1. "stat" \notin {"list"} /\ "prio" \notin {"list"} /\ "group" \notin {"list"}
    OBVIOUS
  <2> QED
    BY <1>0, <1>1, <2>1, Kept
<1>3. \A u \in Threads \ {t} : Placed(o, u)
  <2>1. ASSUME NEW u \in Threads \ {t} PROVE Placed(o, u)
    <3>1. Placed(s, u) /\ u # t
      BY DEF Sound
    <3>2. \A h \in Priorities \cup {Defunct} : Home(o, u, h) <=> Home(s, u, h)
      BY <1>2 DEF Home
    <3> QED
      BY <1>1, <1>2, <3>1, <3>2, HeadsAre DEF Placed
  <2> QED
    BY <2>1
<1>4. r = IF o.list[p] = <<>> THEN [o EXCEPT !.group = @ \ {p}] ELSE o
  BY DEF rt_schedule_remove_thread
<1>5. \A h \in Priorities : h # p => o.list[h] = s.list[h]
  <2>1. ASSUME NEW h \in Priorities, h # p PROVE ~On(t, s.list[h])
    BY <2>1, HeadsAre DEF Sound, Placed, Home
  <2> QED
    BY <1>1, <2>1, HeadsAre
<1>6. CASE o.list[p] = <<>>
  <2>1. r = [o EXCEPT !.group = @ \ {p}]
    BY <1>4, <1>6
  <2>2. Typed(r) /\ Changes(o, r, {"group"}) /\ r.group = o.group \ {p}
    BY <1>1, <2>1, BitOff
  <2> HIDE DEF r
  <2>3. r.list = o.list /\ r.stat = o.stat /\ r.prio = o.prio
    <3>1. "stat" \notin {"group"} /\ "prio" \notin {"group"} /\ "list" \notin {"group"}
      OBVIOUS
    <3> QED
      BY <1>1, <2>2, <3>1, Kept DEF Typed
  <2>4. Bits(r)
    BY <1>2, <1>5, <1>6, <2>2, <2>3 DEF Bits, Sound
  <2>5. \A u \in Threads \ {t} : Placed(r, u)
    BY <1>3, <2>3 DEF Placed, Home
  <2>6. Changes(s, r, {"list"} \cup {"group"})
    BY <1>1, <2>2, ChangesTwice
  <2>7. {"list"} \cup {"group"} = {"list", "group"}
    OBVIOUS
  <2> QED
    BY <1>1, <2>2, <2>3, <2>4, <2>5, <2>6, <2>7 DEF SoundBut, r
<1>7. CASE o.list[p] # <<>>
  <2>1. r = o
    BY <1>4, <1>7
  <2> HIDE DEF r
  <2>2. s.list[p] # <<>>
    <3>1. o.list[p] \in Seq(Threads) /\ s.list[p] \in Seq(Threads) /\ p \in Heads
      BY <1>0, <1>1, HeadsAre DEF Typed
    <3>2. PICK u \in Threads : On(u, o.list[p])
      BY <1>7, <3>1, Empty
    <3>3. On(u, s.list[p])
      BY <1>1, <3>1, <3>2
    <3> QED
      BY <3>1, <3>3, Empty
  <2>3. Bits(r)
    BY <1>2, <1>5, <1>7, <2>1, <2>2 DEF Bits, Sound
  <2>4. Changes(s, r, {"list", "group"})
    BY <1>1, <2>1 DEF Changes
  <2> QED
    BY <1>1, <1>3, <2>1, <2>3, <2>4 DEF SoundBut, r
<1> QED
  BY <1>6, <1>7 DEF r

(* A status is set.                                                        *)
LEMMA StatSet ==
  ASSUME NEW s, Typed(s), NEW t \in Threads, NEW x \in Stats
  PROVE  LET r == [s EXCEPT !.stat[t] = x] IN
         Typed(r) /\ Changes(s, r, {"stat"}) /\ r.stat = [s.stat EXCEPT ![t] = x]
<1> DEFINE r == [s EXCEPT !.stat[t] = x]
<1>1. Changes(s, r, {"stat"}) /\ r.stat = [s.stat EXCEPT ![t] = x]
  BY DEF Typed, Shape, Fields, Changes
<1>2. r.cur = s.cur /\ r.group = s.group /\ r.yield = s.yield /\ r.prio = s.prio
      /\ r.list = s.list /\ r.lock = s.lock /\ r.timer = s.timer
  BY DEF Typed, Shape, Fields
<1> HIDE DEF r
<1>3. r.stat \in [Threads -> Stats]
  BY <1>1 DEF Typed
<1>4. Typed(r)
  BY <1>1, <1>2, <1>3 DEF Typed, Changes
<1> QED
  BY <1>1, <1>4 DEF r

(* A thread that is in no list and whose status asks for none.             *)
LEMMA OffIsSound ==
  ASSUME NEW s, NEW t \in Threads, SoundBut(s, t), s.stat[t] \notin {"READY", "CLOSE"}
  PROVE  Sound(s)
BY HeadsAre DEF SoundBut, Sound, Placed, Home

(* Fields of t itself do not matter while it is in no list.                *)
LEMMA OffAgain ==
  ASSUME NEW s, NEW r, NEW t \in Threads, SoundBut(s, t), Typed(r),
         r.list = s.list, r.group = s.group,
         \A u \in Threads \ {t} : r.stat[u] = s.stat[u] /\ r.prio[u] = s.prio[u]
  PROVE  SoundBut(r, t)
BY DEF SoundBut, Bits, Placed, Home

(* The priority of a thread that is not ready does not matter.             *)
LEMMA SoundAgain ==
  ASSUME NEW s, NEW r, Sound(s), Typed(r),
         r.list = s.list, r.group = s.group, r.stat = s.stat,
         \A u \in Threads : s.stat[u] = "READY" => r.prio[u] = s.prio[u]
  PROVE  Sound(r)
BY DEF Sound, Bits, Placed, Home

(* A thread that is running, new or gone is in no list.                    *)
LEMMA NotLinked ==
  ASSUME NEW s, NEW t \in Threads, Sound(s), s.stat[t] \notin {"READY", "CLOSE", "SUSPEND"}
  PROVE  SoundBut(s, t)
BY HeadsAre DEF Sound, SoundBut, Placed, Home, Heads

(* Such a status makes the kernel sound again.                             *)
LEMMA StatusGiven ==
  ASSUME NEW s, NEW t \in Threads, SoundBut(s, t), NEW x \in Stats \ {"READY", "CLOSE"}
  PROVE  LET r == [s EXCEPT !.stat[t] = x] IN
         Sound(r) /\ Changes(s, r, {"stat"}) /\ r.stat = [s.stat EXCEPT ![t] = x]
<1> DEFINE r == [s EXCEPT !.stat[t] = x]
<1>1. Typed(r) /\ Changes(s, r, {"stat"}) /\ r.stat = [s.stat EXCEPT ![t] = x]
  BY StatSet DEF SoundBut
<1> HIDE DEF r
<1>2. r.list = s.list /\ r.group = s.group /\ r.prio = s.prio
  <2>1. "list" \notin {"stat"} /\ "group" \notin {"stat"} /\ "prio" \notin {"stat"}
    OBVIOUS
  <2> QED
    BY <1>1, <2>1, Kept DEF SoundBut, Typed
<1>3. r.stat[t] = x /\ \A u \in Threads \ {t} : r.stat[u] = s.stat[u]
  BY <1>1 DEF SoundBut, Typed
<1>4. SoundBut(r, t)
  BY <1>1, <1>2, <1>3, OffAgain
<1> QED
  BY <1>1, <1>3, <1>4, OffIsSound DEF r

-----------------------------------------------------------------------------
(* Putting a thread into a ready list; what holds of the running thread.   *)

(* A node is linked at the front or at the end.                            *)
LEMMA LinkedIn ==
  ASSUME NEW s, Typed(s), NEW t \in Threads, NEW h \in Heads, ~On(t, s.list[h]),
         NEW r, r \in {rt_list_insert_after(s, h, t), rt_list_insert_before(s, h, t)}
  PROVE  /\ Typed(r) /\ Changes(s, r, {"list"})
         /\ \A u : On(u, r.list[h]) <=> u = t \/ On(u, s.list[h])
         /\ \A g \in Heads \ {h} : r.list[g] = s.list[g]
<1> DEFINE l == s.list[h]
<1>0. l \in Seq(Threads) /\ Distinct(l) /\ Shape(s) /\ s.list \in [Heads -> Seq(Threads)]
  BY DEF Typed
<1>1. PICK n : /\ Changes(s, r, {"list"}) /\ r.list = [s.list EXCEPT ![h] = n]
               /\ n \in {<<t>> \o l, Append(l, t)}
  <2>1. CASE r = rt_list_insert_after(s, h, t)
    <3>1. Changes(s, r, {"list"}) /\ r.list = [s.list EXCEPT ![h] = <<t>> \o l]
      BY <1>0, <2>1 DEF rt_list_insert_after, Shape, Fields, Changes
    <3> QED
      BY <3>1
  <2>2. CASE r = rt_list_insert_before(s, h, t)
    <3>1. Changes(s, r, {"list"}) /\ r.list = [s.list EXCEPT ![h] = Append(l, t)]
      BY <1>0, <2>2 DEF rt_list_insert_before, Shape, Fields, Changes
    <3> QED
      BY <3>1
  <2> QED
    BY <2>1, <2>2
<1>2. n \in Seq(Threads) /\ Distinct(n) /\ \A u : On(u, n) <=> u = t \/ On(u, l)
  <2>1. CASE n = <<t>> \o l
    BY <1>0, <2>1, AtFront
  <2>2. CASE n = Append(l, t)
    BY <1>0, <2>2, AtEnd
  <2> QED
    BY <1>1, <2>1, <2>2
<1>3. r.list[h] = n /\ \A g \in Heads \ {h} : r.list[g] = s.list[g]
  BY <1>0, <1>1
<1>4. r.list \in [Heads -> Seq(Threads)]
  BY <1>0, <1>1, <1>2
<1>5. \A g \in Heads : Distinct(r.list[g])
  BY <1>2, <1>3 DEF Typed
<1>6. Shape(r) /\ r.cur = s.cur /\ r.stat = s.stat /\ r.yield = s.yield /\ r.prio = s.prio
      /\ r.group = s.group /\ r.lock = s.lock /\ r.timer = s.timer
  <2>1. "cur" \notin {"list"} /\ "stat" \notin {"list"} /\ "yield" \notin {"list"} /\ "prio" \notin {"list"}
        /\ "group" \notin {"list"} /\ "lock" \notin {"list"} /\ "timer" \notin {"list"}
    OBVIOUS
  <2> QED
    BY <1>0, <1>1, <2>1, Kept DEF Changes
<1>7. Typed(r)
  BY <1>4, <1>5, <1>6 DEF Typed
<1> QED
  BY <1>1, <1>2, <1>3, <1>7

(* A status and a bit are set.                                             *)
LEMMA BitOn ==
  ASSUME NEW s, Typed(s), NEW t \in Threads, NEW x \in Stats
  PROVE  LET r == [s EXCEPT !.stat[t] = x, !.group = @ \cup {s.prio[t]}] IN
         Typed(r) /\ Changes(s, r, {"stat", "group"}) /\ r.stat = [s.stat EXCEPT ![t] = x]
         /\ r.group = s.group \cup {s.prio[t]}
<1> DEFINE r == [s EXCEPT !.stat[t] = x, !.group = @ \cup {s.prio[t]}]
<1>1. Changes(s, r, {"stat", "group"}) /\ r.stat = [s.stat EXCEPT ![t] = x] /\ r.group = s.group \cup {s.prio[t]}
  BY DEF Typed, Shape, Fields, Changes
<1>2. r.cur = s.cur /\ r.yield = s.yield /\ r.prio = s.prio
      /\ r.list = s.list /\ r.lock = s.lock /\ r.timer = s.timer
  BY DEF Typed, Shape, Fields
<1> HIDE DEF r
<1>3. r.stat \in [Threads -> Stats] /\ r.group \subseteq Priorities
  BY <1>1 DEF Typed
<1>4. Typed(r)
  BY <1>1, <1>2, <1>3 DEF Typed, Changes
<1> QED
  BY <1>1, <1>4 DEF r

(* rt_schedule_insert_thread links a thread in the list of its priority    *)
(* and sets the bit, or marks the current thread as running.               *)
LEMMA InsertedInReady ==
  ASSUME NEW s, NEW t \in Threads, SoundBut(s, t)
  PROVE  LET r == rt_schedule_insert_thread(s, t) IN
         /\ Sound(r) /\ Changes(s, r, {"stat", "group", "list"})
         /\ r.stat = [s.stat EXCEPT ![t] = IF t = s.cur THEN "RUNNING" ELSE "READY"]
         /\ \A h \in Heads \ Priorities : r.list[h] = s.list[h]
<1> DEFINE r == rt_schedule_insert_thread(s, t)
           p == s.prio[t]
<1>0. Typed(s) /\ Shape(s) /\ p \in Priorities /\ p \in Heads /\ ~On(t, s.list[p])
  BY HeadsAre DEF SoundBut, Typed
<1>1. CASE t = s.cur
  <2>1. r = [s EXCEPT !.stat[t] = "RUNNING"]
    BY <1>1 DEF rt_schedule_insert_thread
  <2>2. "RUNNING" \in Stats \ {"READY", "CLOSE"}
    BY DEF Stats
  <2>3. Sound(r) /\ Changes(s, r, {"stat"}) /\ r.stat = [s.stat EXCEPT ![t] = "RUNNING"]
    BY <2>1, <2>2, StatusGiven
  <2>4. Changes(s, r, {"stat", "group", "list"})
    BY <2>3 DEF Changes
  <2>5. r.list = s.list
    <3>1. "list" \notin {"stat"}
      OBVIOUS
    <3> QED
      BY <1>0, <2>3, <3>1, Kept
  <2> QED
    BY <1>1, <2>3, <2>4, <2>5
<1>2. CASE t # s.cur
  <2> DEFINE q == [s EXCEPT !.stat[t] = "READY", !.group = @ \cup {s.prio[t]}]
  <2>1. r \in {rt_list_insert_after(q, p, t), rt_list_insert_before(q, p, t)}
    BY <1>2 DEF rt_schedule_insert_thread
  <2>2. "READY" \in Stats
    BY DEF Stats
  <2>3. Typed(q) /\ Changes(s, q, {"stat", "group"}) /\ q.stat = [s.stat EXCEPT ![t] = "READY"] /\ q.group = s.group \cup {p}
    BY <1>0, <2>2, BitOn
  <2> HIDE DEF q, r
  <2>4. q.list = s.list /\ q.prio = s.prio
    <3>1. "list" \notin {"stat", "group"} /\ "prio" \notin {"stat", "group"}
      OBVIOUS
    <3> QED
      BY <1>0, <2>3, <3>1, Kept
  <2>5. /\ Typed(r) /\ Changes(q, r, {"list"})
        /\ \A u : On(u, r.list[p]) <=> u = t \/ On(u, q.list[p])
        /\ \A g \in Heads \ {p} : r.list[g] = q.list[g]
    BY <1>0, <2>1, <2>3, <2>4, LinkedIn, SMTT(30)
  <2>6. r.stat = q.stat /\ r.group = q.group /\ r.prio = q.prio
    <3>1. "stat" \notin {"list"} /\ "prio" \notin {"list"} /\ "group" \notin {"list"}
      OBVIOUS
    <3> QED
      BY <2>3, <2>5, <3>1, Kept DEF Typed
  <2>7. r.stat[t] = "READY" /\ \A u \in Threads \ {t} : r.stat[u] = s.stat[u]
    BY <1>0, <2>3, <2>6 DEF Typed
  <2>8. Bits(r)
    <3>1. r.list[p] # <<>>
      BY <1>0, <2>5, Empty DEF Typed
    <3>2. \A g \in Priorities \ {p} : r.list[g] = s.list[g]
      BY <2>4, <2>5, HeadsAre
    <3> QED
      BY <2>3, <2>6, <3>1, <3>2 DEF Bits, SoundBut
  <2>9. ASSUME NEW u \in Threads PROVE Placed(r, u)
    <3>1. CASE u = t
      <4>1. \A h \in Heads : On(t, r.list[h]) <=> h = p
        BY <1>0, <2>4, <2>5 DEF SoundBut
      <4> QED
        BY <1>0, <2>4, <2>6, <2>7, <3>1, <4>1, HeadsAre DEF Placed, Home
    <3>2. CASE u # t
      <4>1. Placed(s, u) /\ r.stat[u] = s.stat[u] /\ r.prio[u] = s.prio[u]
        BY <2>4, <2>6, <2>7, <3>2 DEF SoundBut
      <4>2. \A h \in Heads : On(u, r.list[h]) <=> On(u, s.list[h])
        BY <2>4, <2>5, <3>2
      <4> QED
        BY <4>1, <4>2, HeadsAre DEF Placed, Home
    <3> QED
      BY <3>1, <3>2
  <2>10. Changes(s, r, {"stat", "group"} \cup {"list"})
    BY <2>3, <2>5, ChangesTwice
  <2>11. {"stat", "group"} \cup {"list"} = {"stat", "group", "list"}
    OBVIOUS
  <2> QED
    BY <1>0, <1>2, <2>3, <2>4, <2>5, <2>6, <2>8, <2>9, <2>10, <2>11 DEF Sound, r
<1> QED
  BY <1>1, <1>2 DEF r

(* The part of the invariant about the processor: only the current thread  *)
(* runs; it may be suspended or closed while the scheduler is locked,      *)
(* never gone; idle is always ready to run.                                *)
Runs(s) ==
  /\ s.stat[s.cur] \in {"RUNNING", "SUSPEND", "CLOSE"}
  /\ \A t \in Threads : s.stat[t] = "RUNNING" => t = s.cur
  /\ s.stat[Idle] \in {"READY", "RUNNING"}

(* The current thread runs and no ready one is more urgent.                *)
Best(s) ==
  /\ s.stat[s.cur] = "RUNNING"
  /\ \A t \in Threads : s.stat[t] = "READY" => s.prio[s.cur] <= s.prio[t]

(* The invariant of a kernel between two calls.                            *)
Inv(s) == Sound(s) /\ Runs(s)

(* What a schedule does to the statuses.                                   *)
Switch(s, r) ==
  /\ r.cur # s.cur => s.stat[r.cur] = "READY"
  /\ r.stat[r.cur] = "RUNNING"
  /\ r.cur # s.cur => r.stat[s.cur] = IF s.stat[s.cur] = "RUNNING" THEN "READY" ELSE s.stat[s.cur]
  /\ \A t \in Threads \ {s.cur, r.cur} : r.stat[t] = s.stat[t]

(* The head of the list of the lowest bit is a ready thread of that        *)
(* priority, and no ready thread is more urgent.                           *)
LEMMA ReadyBits ==
  ASSUME NEW s, Sound(s)
  PROVE  /\ \A t \in Threads : s.stat[t] = "READY" => s.prio[t] \in s.group
         /\ s.group # {} => LET h == Min(s.group) t == Head(s.list[h]) IN
              /\ h \in s.group /\ t \in Threads /\ s.stat[t] = "READY" /\ s.prio[t] = h
              /\ \A u \in Threads : s.stat[u] = "READY" => h <= s.prio[u]
<1>1. ASSUME NEW t \in Threads, s.stat[t] = "READY" PROVE s.prio[t] \in s.group
  <2>1. s.prio[t] \in Priorities /\ s.prio[t] \in Heads
    BY HeadsAre DEF Sound, Typed
  <2>2. On(t, s.list[s.prio[t]])
    BY <1>1, <2>1 DEF Sound, Placed, Home
  <2>3. s.list[s.prio[t]] # <<>>
    BY <2>1, <2>2, Empty DEF Sound, Typed
  <2> QED
    BY <2>1, <2>3 DEF Sound, Bits
<1>2. ASSUME s.group # {}
      PROVE  LET h == Min(s.group) t == Head(s.list[h]) IN
              /\ h \in s.group /\ t \in Threads /\ s.stat[t] = "READY" /\ s.prio[t] = h
              /\ \A u \in Threads : s.stat[u] = "READY" => h <= s.prio[u]
  <2> DEFINE h == Min(s.group)
             t == Head(s.list[h])
  <2>1. s.group \in SUBSET Nat
    BY LevelsAssumption DEF Sound, Typed, Priorities
  <2>2. h \in s.group /\ \A y \in s.group : h <= y
    BY <1>2, <2>1, MinIs
  <2>3. h \in Priorities /\ h \in Heads /\ s.list[h] # <<>> /\ s.list[h] \in Seq(Threads)
    BY <2>2, HeadsAre DEF Sound, Bits, Typed
  <2>4. t \in Threads /\ On(t, s.list[h])
    BY <2>3, First
  <2> HIDE DEF t, h
  <2>5. Home(s, t, h)
    BY <2>3, <2>4 DEF Sound, Placed
  <2>6. s.stat[t] = "READY" /\ s.prio[t] = h
    BY <2>3, <2>5, HeadsAre DEF Home
  <2> QED
    BY <1>1, <2>2, <2>4, <2>6 DEF t, h
<1> QED
  BY <1>1, <1>2

-----------------------------------------------------------------------------
(* rt_schedule.                                                            *)

(* The fields rt_schedule changes.                                         *)
Rescheduled == {"cur", "stat", "yield", "list", "group"}

(* The current thread is replaced.                                         *)
LEMMA Chosen ==
  ASSUME NEW s, Typed(s), NEW to \in Threads, NEW y \in SUBSET Threads
  PROVE  LET r == [s EXCEPT !.yield = y, !.cur = to] IN
         Typed(r) /\ Changes(s, r, {"cur", "yield"}) /\ r.cur = to
<1> DEFINE r == [s EXCEPT !.yield = y, !.cur = to]
<1>1. Changes(s, r, {"cur", "yield"}) /\ r.cur = to /\ r.yield = y
  BY DEF Typed, Shape, Fields, Changes
<1>2. r.stat = s.stat /\ r.group = s.group /\ r.prio = s.prio
      /\ r.list = s.list /\ r.lock = s.lock /\ r.timer = s.timer
  BY DEF Typed, Shape, Fields
<1> HIDE DEF r
<1>3. Typed(r)
  BY <1>1, <1>2 DEF Typed, Changes
<1> QED
  BY <1>1, <1>3 DEF r

(* The chosen thread leaves its ready list and runs.                       *)
LEMMA TakesOver ==
  ASSUME NEW s, Sound(s), NEW t \in Threads, s.cur = t
  PROVE  LET r == [rt_schedule_remove_thread(s, t) EXCEPT !.stat[t] = "RUNNING"] IN
         /\ Sound(r) /\ Changes(s, r, {"stat", "list", "group"}) /\ r.stat = [s.stat EXCEPT ![t] = "RUNNING"]
         /\ s.stat[t] # "CLOSE" => \A h \in Heads \ Priorities : ~On(t, s.list[h]) => r.list[h] = s.list[h]
<1> DEFINE o == rt_schedule_remove_thread(s, t)
           r == [o EXCEPT !.stat[t] = "RUNNING"]
<1>1. /\ SoundBut(o, t) /\ Changes(s, o, {"list", "group"})
      /\ \A h \in Heads : ~On(t, s.list[h]) => o.list[h] = s.list[h]
  BY RemovedFromReady
<1>2. "RUNNING" \in Stats \ {"READY", "CLOSE"}
  BY DEF Stats
<1> HIDE DEF o
<1>3. Sound(r) /\ Changes(o, r, {"stat"}) /\ r.stat = [o.stat EXCEPT ![t] = "RUNNING"]
  BY <1>1, <1>2, StatusGiven
<1> HIDE DEF r
<1>4. o.stat = s.stat /\ r.list = o.list
  <2>1. "stat" \notin {"list", "group"} /\ "list" \notin {"stat"}
    OBVIOUS
  <2> QED
    BY <1>1, <1>3, <2>1, Kept DEF Sound, SoundBut, Typed
<1>5. Changes(s, r, {"list", "group"} \cup {"stat"})
  BY <1>1, <1>3, ChangesTwice
<1>6. {"list", "group"} \cup {"stat"} = {"stat", "list", "group"}
  OBVIOUS
<1> QED
  BY <1>1, <1>3, <1>4, <1>5, <1>6 DEF r, o

(* With the scheduler unlocked rt_schedule puts the most urgent thread on  *)
(* the processor, also when the current one has been suspended, closed or  *)
(* has yielded, and the thread it takes away goes back into its list.      *)
LEMMA Scheduled ==
  ASSUME NEW s, Inv(s), s.lock = 0
  PROVE  LET r == rt_schedule(s) IN
         /\ Inv(r) /\ Best(r) /\ Switch(s, r) /\ Changes(s, r, Rescheduled)
         /\ \A h \in Heads \ Priorities : r.list[h] = s.list[h]
<1> DEFINE r == rt_schedule(s)
<1>0. /\ Sound(s) /\ Typed(s) /\ Shape(s) /\ Runs(s) /\ s.cur \in Threads /\ Idle \in Threads
      /\ s.stat \in [Threads -> Stats] /\ s.prio \in [Threads -> Priorities]
  BY DEF Inv, Sound, Typed, Threads
<1>1. CASE s.group = {}
  <2>1. r = s
    BY <1>1 DEF rt_schedule
  <2>2. \A t \in Threads : s.stat[t] # "READY"
    BY <1>0, <1>1, ReadyBits
  <2>3. s.stat[s.cur] = "RUNNING"
    BY <1>0, <2>2 DEF Runs
  <2>4. Best(s) /\ Switch(s, s)
    BY <2>2, <2>3 DEF Best, Switch
  <2>5. Changes(s, s, Rescheduled)
    BY <1>0 DEF Changes
  <2> QED
    BY <2>1, <2>4, <2>5
<1>2. CASE s.group # {}
  <2> DEFINE highest == Min(s.group)
             first == Head(s.list[highest])
             running == s.stat[s.cur] = "RUNNING"
             to == IF StaysOn(s, highest) THEN s.cur ELSE first
             c == [s EXCEPT !.yield = IF running THEN s.yield \ {s.cur} ELSE s.yield, !.cur = to]
             put == IF running /\ to # s.cur THEN rt_schedule_insert_thread(c, s.cur) ELSE c
  <2>1. r = [rt_schedule_remove_thread(put, to) EXCEPT !.stat[to] = "RUNNING"]
    BY <1>2, Zenon DEF rt_schedule
  <2>2. /\ first \in Threads /\ s.stat[first] = "READY" /\ s.prio[first] = highest /\ highest \in Priorities
        /\ \A u \in Threads : s.stat[u] = "READY" => highest <= s.prio[u]
    BY <1>0, <1>2, ReadyBits DEF Typed
  <2>3. first # s.cur
    BY <1>0, <2>2 DEF Runs
  <2>4. /\ to \in Threads
        /\ to # s.cur => to = first
        /\ to = s.cur => running /\ s.prio[s.cur] <= highest
        /\ running /\ to # s.cur => highest <= s.prio[s.cur]
    <3>1. highest \in Int /\ s.prio[s.cur] \in Int
      BY <1>0, <2>2 DEF Priorities
    <3>2. CASE StaysOn(s, highest)
      BY <1>0, <3>1, <3>2 DEF StaysOn
    <3>3. CASE ~StaysOn(s, highest)
      <4>1. to = first
        BY <3>3
      <4>2. running => ~(s.prio[s.cur] < highest)
        BY <3>3 DEF StaysOn
      <4> QED
        BY <2>2, <2>3, <3>1, <4>1, <4>2
    <3> QED
      BY <3>2, <3>3
  <2> HIDE DEF r, to, first, highest
  <2>5. Typed(c) /\ Changes(s, c, {"cur", "yield"}) /\ c.cur = to
    <3> DEFINE y == IF running THEN s.yield \ {s.cur} ELSE s.yield
    <3>1. y \in SUBSET Threads
      BY <1>0 DEF Typed
    <3> HIDE DEF y
    <3>2. LET q == [s EXCEPT !.yield = y, !.cur = to] IN Typed(q) /\ Changes(s, q, {"cur", "yield"}) /\ q.cur = to
      BY <1>0, <2>4, <3>1, Chosen
    <3> QED
      BY <3>2 DEF y
  <2> HIDE DEF c
  <2>6. c.stat = s.stat /\ c.prio = s.prio /\ c.list = s.list /\ c.group = s.group
    <3>1. "stat" \notin {"cur", "yield"} /\ "prio" \notin {"cur", "yield"} /\ "list" \notin {"cur", "yield"}
          /\ "group" \notin {"cur", "yield"}
      OBVIOUS
    <3> QED
      BY <1>0, <2>5, <3>1, Kept
  <2>7. Sound(c)
    BY <1>0, <2>5, <2>6, SoundAgain
  <2>8. /\ Sound(put) /\ Changes(s, put, Rescheduled) /\ put.cur = to /\ put.prio = s.prio
        /\ put.stat = [s.stat EXCEPT ![s.cur] = IF running /\ to # s.cur THEN "READY" ELSE s.stat[s.cur]]
        /\ \A h \in Heads \ Priorities : put.list[h] = s.list[h]
    <3>1. CASE running /\ to # s.cur
      <4>1. put = rt_schedule_insert_thread(c, s.cur)
        BY <3>1
      <4>2. SoundBut(c, s.cur)
        BY <1>0, <2>6, <2>7, <3>1, NotLinked
      <4>3. /\ Sound(put) /\ Changes(c, put, {"stat", "group", "list"})
            /\ put.stat = [c.stat EXCEPT ![s.cur] = "READY"]
            /\ \A h \in Heads \ Priorities : put.list[h] = c.list[h]
        <5> DEFINE g == rt_schedule_insert_thread(c, s.cur)
        <5>1. /\ Sound(g) /\ Changes(c, g, {"stat", "group", "list"})
              /\ g.stat = [c.stat EXCEPT ![s.cur] = IF s.cur = c.cur THEN "RUNNING" ELSE "READY"]
              /\ \A h \in Heads \ Priorities : g.list[h] = c.list[h]
          BY <1>0, <4>2, InsertedInReady
        <5>2. s.cur # c.cur
          BY <2>5, <3>1
        <5> QED
          BY <4>1, <5>1, <5>2
      <4> HIDE DEF put
      <4>4. put.cur = c.cur /\ put.prio = c.prio
        <5>1. "cur" \notin {"stat", "group", "list"} /\ "prio" \notin {"stat", "group", "list"}
          OBVIOUS
        <5> QED
          BY <2>5, <4>3, <5>1, Kept DEF Typed
      <4>5. Changes(s, put, {"cur", "yield"} \cup {"stat", "group", "list"})
        BY <2>5, <4>3, ChangesTwice
      <4>6. {"cur", "yield"} \cup {"stat", "group", "list"} = Rescheduled
        BY DEF Rescheduled
      <4> QED
        BY <2>5, <2>6, <3>1, <4>3, <4>4, <4>5, <4>6
    <3>2. CASE ~(running /\ to # s.cur)
      <4>1. put = c
        BY <3>2
      <4>2. Changes(s, c, Rescheduled)
        BY <2>5 DEF Changes, Rescheduled
      <4>3. s.stat = [s.stat EXCEPT ![s.cur] = s.stat[s.cur]]
        BY <1>0
      <4> QED
        BY <2>5, <2>6, <2>7, <3>2, <4>1, <4>2, <4>3
    <3> QED
      BY <3>1, <3>2
  <2> HIDE DEF put
  <2>9. /\ Sound(r) /\ Changes(put, r, {"stat", "list", "group"}) /\ r.stat = [put.stat EXCEPT ![to] = "RUNNING"]
        /\ put.stat[to] # "CLOSE" => \A h \in Heads \ Priorities : ~On(to, put.list[h]) => r.list[h] = put.list[h]
    <3>1. Sound(put) /\ to \in Threads /\ put.cur = to
      BY <2>4, <2>8
    <3> QED
      BY <2>1, <3>1, TakesOver
  <2>10. r.cur = to /\ r.prio = s.prio
    <3>1. "cur" \notin {"stat", "list", "group"} /\ "prio" \notin {"stat", "list", "group"}
      OBVIOUS
    <3>2. Shape(put)
      BY <2>8 DEF Sound, Typed
    <3>3. r.cur = put.cur /\ r.prio = put.prio
      BY <2>9, <3>1, <3>2, Kept
    <3> QED
      BY <2>8, <3>3
  <2>11. Changes(s, r, Rescheduled)
    <3>1. Changes(s, r, Rescheduled \cup {"stat", "list", "group"})
      BY <2>8, <2>9, ChangesTwice
    <3>2. Rescheduled \cup {"stat", "list", "group"} = Rescheduled
      BY DEF Rescheduled
    <3> QED
      BY <3>1, <3>2
  <2>12. put.stat[to] \in {"READY", "RUNNING"}
    BY <1>0, <2>2, <2>4, <2>8
  <2>13. \A h \in Heads \ Priorities : r.list[h] = s.list[h]
    <3>1. \A h \in Heads \ Priorities : ~On(to, put.list[h])
      <4>1. Placed(put, to)
        BY <2>4, <2>8 DEF Sound
      <4>2. ~On(to, put.list[Defunct])
        <5>1. put.prio[to] \in Priorities
          BY <1>0, <2>4, <2>8
        <5> QED
          BY <2>12, <4>1, <5>1, HeadsAre DEF Placed, Home
      <4>3. \A o \in Objects : ~On(to, put.list[o])
        BY <2>12, <4>1 DEF Placed
      <4> QED
        BY <4>2, <4>3 DEF Heads
    <3> QED
      BY <2>8, <2>9, <2>12, <3>1
  <2>14. /\ r.stat[to] = "RUNNING"
         /\ to # s.cur => r.stat[s.cur] = IF running THEN "READY" ELSE s.stat[s.cur]
         /\ \A t \in Threads \ {s.cur, to} : r.stat[t] = s.stat[t]
    BY <1>0, <2>4, <2>8, <2>9
  <2>15. Switch(s, r)
    BY <2>2, <2>4, <2>10, <2>14 DEF Switch
  <2>16. \A t \in Threads : r.stat[t] = "RUNNING" => t = to
    BY <1>0, <2>14 DEF Runs
  <2>17. Runs(r)
    BY <1>0, <2>10, <2>14, <2>16 DEF Runs
  <2>18. Best(r)
    <3>1. ASSUME NEW t \in Threads, r.stat[t] = "READY" PROVE s.prio[to] <= s.prio[t]
      <4>1. s.prio[to] \in Int /\ s.prio[t] \in Int /\ highest \in Int
        BY <1>0, <2>2, <2>4 DEF Priorities
      <4>2. t # to /\ s.prio[to] <= highest
        BY <2>2, <2>4, <2>14, <3>1, <4>1
      <4>3. CASE t = s.cur
        <5>1. running
          BY <1>0, <2>14, <3>1, <4>2, <4>3 DEF Runs
        <5> QED
          BY <2>4, <4>1, <4>2, <4>3, <5>1
      <4>4. CASE t # s.cur
        BY <2>2, <2>14, <3>1, <4>1, <4>2, <4>4
      <4> QED
        BY <4>3, <4>4
    <3> QED
      BY <2>10, <2>14, <3>1 DEF Best
  <2>19. Inv(r)
    BY <2>9, <2>17 DEF Inv
  <2> QED
    BY <2>11, <2>13, <2>15, <2>18, <2>19, Zenon DEF r
<1> QED
  BY <1>1, <1>2 DEF r

-----------------------------------------------------------------------------
(* Resuming, suspending and closing a thread (thread.c).                   *)

(* Locked or not, rt_schedule keeps the invariant.                         *)
LEMMA Schedules ==
  ASSUME NEW s, Inv(s)
  PROVE  LET r == rt_schedule(s) IN
         /\ Inv(r) /\ Changes(s, r, Rescheduled) /\ (s.lock = 0 => Best(r)) /\ r.lock = s.lock
<1> DEFINE r == rt_schedule(s)
<1>1. CASE s.lock = 0
  <2>1. Inv(r) /\ Best(r) /\ Changes(s, r, Rescheduled)
    BY <1>1, Scheduled
  <2> HIDE DEF r
  <2>2. r.lock = s.lock
    <3>1. "lock" \notin Rescheduled
      BY DEF Rescheduled
    <3> QED
      BY <2>1, <3>1, Kept DEF Inv, Sound, Typed
  <2> QED
    BY <2>1, <2>2 DEF r
<1>2. CASE s.lock # 0
  <2>1. r = s
    BY <1>2 DEF rt_schedule
  <2>2. Changes(s, s, Rescheduled)
    BY DEF Changes, Inv, Sound, Typed
  <2> QED
    BY <1>2, <2>1, <2>2
<1> QED
  BY <1>1, <1>2

(* other fields                                                            *)
LEMMA FieldsSet ==
  ASSUME NEW s, Typed(s), NEW tm \in SUBSET Threads, NEW y \in SUBSET Threads
  PROVE  /\ LET r == [s EXCEPT !.timer = tm] IN Typed(r) /\ Changes(s, r, {"timer"})
         /\ LET r == [s EXCEPT !.yield = y] IN Typed(r) /\ Changes(s, r, {"yield"})
<1>1. LET r == [s EXCEPT !.timer = tm] IN Typed(r) /\ Changes(s, r, {"timer"})
  <2> DEFINE r == [s EXCEPT !.timer = tm]
  <2>1. Changes(s, r, {"timer"}) /\ r.timer = tm
    BY DEF Typed, Shape, Fields, Changes
  <2>2. r.stat = s.stat /\ r.group = s.group /\ r.prio = s.prio /\ r.cur = s.cur
        /\ r.list = s.list /\ r.lock = s.lock /\ r.yield = s.yield
    BY DEF Typed, Shape, Fields
  <2> HIDE DEF r
  <2>3. Typed(r)
    BY <2>1, <2>2 DEF Typed, Changes
  <2> QED
    BY <2>1, <2>3 DEF r
<1>2. LET r == [s EXCEPT !.yield = y] IN Typed(r) /\ Changes(s, r, {"yield"})
  <2> DEFINE r == [s EXCEPT !.yield = y]
  <2>1. Changes(s, r, {"yield"}) /\ r.yield = y
    BY DEF Typed, Shape, Fields, Changes
  <2>2. r.stat = s.stat /\ r.group = s.group /\ r.prio = s.prio /\ r.cur = s.cur
        /\ r.list = s.list /\ r.lock = s.lock /\ r.timer = s.timer
    BY DEF Typed, Shape, Fields
  <2> HIDE DEF r
  <2>3. Typed(r)
    BY <2>1, <2>2 DEF Typed, Changes
  <2> QED
    BY <2>1, <2>3 DEF r
<1> QED
  BY <1>1, <1>2

(* Changes of these fields leave the others alone.                         *)
LEMMA AloneFields ==
  ASSUME NEW s, Shape(s), NEW r, NEW F, Changes(s, r, F), F \cap Fields \subseteq {"timer", "yield", "lock"}
  PROVE  /\ r.stat = s.stat /\ r.group = s.group /\ r.prio = s.prio /\ r.cur = s.cur /\ r.list = s.list
BY Kept DEF Fields

(* They do not matter to the invariant.                                    *)
LEMMA RunsAgain ==
  ASSUME NEW s, NEW r, Inv(s), Typed(r), NEW F, Changes(s, r, F), F \cap Fields \subseteq {"timer", "yield", "lock"}
  PROVE  Inv(r)
<1>1. r.stat = s.stat /\ r.group = s.group /\ r.prio = s.prio /\ r.cur = s.cur /\ r.list = s.list
  BY AloneFields DEF Inv, Sound, Typed
<1>2. Sound(r)
  BY <1>1, SoundAgain DEF Inv
<1> QED
  BY <1>1, <1>2 DEF Inv, Runs

(* a suspended thread is resumed                                           *)
LEMMA Resumed ==
  ASSUME NEW s, Inv(s), NEW t \in Threads
  PROVE  LET r == rt_thread_resume(s, t) IN
         /\ Inv(r) /\ Changes(s, r, {"stat", "group", "list", "timer"})
         /\ s.stat[t] # "SUSPEND" => r = s
         /\ s.stat[t] = "SUSPEND" => r.stat = [s.stat EXCEPT ![t] = IF t = s.cur THEN "RUNNING" ELSE "READY"]
<1> DEFINE r == rt_thread_resume(s, t)
<1>0. Sound(s) /\ Typed(s) /\ Shape(s) /\ Runs(s) /\ s.stat \in [Threads -> Stats]
  BY DEF Inv, Sound, Typed
<1>1. CASE s.stat[t] # "SUSPEND"
  <2>1. r = s
    BY <1>1 DEF rt_thread_resume
  <2>2. Changes(s, s, {"stat", "group", "list", "timer"})
    BY <1>0 DEF Changes
  <2> QED
    BY <1>1, <2>1, <2>2
<1>2. CASE s.stat[t] = "SUSPEND"
  <2> DEFINE o == rt_list_remove(s, t)
             q == [o EXCEPT !.timer = @ \ {t}]
  <2>1. r = rt_schedule_insert_thread(q, t)
    BY <1>2 DEF rt_thread_resume
  <2>2. /\ Changes(s, o, {"list"}) /\ Typed(o)
        /\ \A h \in Heads : /\ ~On(t, o.list[h])
                            /\ \A u : u # t => (On(u, o.list[h]) <=> On(u, s.list[h]))
                            /\ ~On(t, s.list[h]) => o.list[h] = s.list[h]
    BY <1>0, Unlinks
  <2> HIDE DEF o, r
  <2>3. o.stat = s.stat /\ o.prio = s.prio /\ o.group = s.group /\ o.cur = s.cur /\ o.timer = s.timer
    <3>1. "stat" \notin {"list"} /\ "prio" \notin {"list"} /\ "group" \notin {"list"} /\ "cur" \notin {"list"}
          /\ "timer" \notin {"list"}
      OBVIOUS
    <3> QED
      BY <1>0, <2>2, <3>1, Kept
  <2>4. SoundBut(o, t)
    <3>1. \A p \in Priorities : ~On(t, s.list[p])
      BY <1>0, <1>2, HeadsAre DEF Sound, Placed, Home
    <3>2. Bits(o)
      BY <1>0, <2>2, <2>3, <3>1, HeadsAre DEF Sound, Bits
    <3>3. ASSUME NEW u \in Threads \ {t} PROVE Placed(o, u)
      <4>1. Placed(s, u) /\ u # t
        BY <1>0 DEF Sound
      <4> QED
        BY <2>2, <2>3, <4>1, HeadsAre DEF Placed, Home
    <3> QED
      BY <2>2, <3>2, <3>3 DEF SoundBut
  <2>5. Typed(q) /\ Changes(o, q, {"timer"})
    <3>1. o.timer \ {t} \in SUBSET Threads
      BY <2>2 DEF Typed
    <3> QED
      BY <2>2, <3>1, FieldsSet
  <2> HIDE DEF q
  <2>6. q.stat = o.stat /\ q.group = o.group /\ q.prio = o.prio /\ q.cur = o.cur /\ q.list = o.list
    <3>1. {"timer"} \cap Fields \subseteq {"timer", "yield", "lock"}
      OBVIOUS
    <3> QED
      BY <2>2, <2>5, <3>1, AloneFields DEF Typed
  <2>7. SoundBut(q, t)
    BY <2>4, <2>5, <2>6, OffAgain
  <2>8. /\ Sound(r) /\ Changes(q, r, {"stat", "group", "list"})
        /\ r.stat = [q.stat EXCEPT ![t] = IF t = q.cur THEN "RUNNING" ELSE "READY"]
    BY <2>1, <2>7, InsertedInReady
  <2>9. Changes(s, r, {"stat", "group", "list", "timer"})
    <3>1. Changes(s, q, {"list"} \cup {"timer"})
      BY <2>2, <2>5, ChangesTwice
    <3>2. Changes(s, r, ({"list"} \cup {"timer"}) \cup {"stat", "group", "list"})
      BY <2>8, <3>1, ChangesTwice
    <3>3. ({"list"} \cup {"timer"}) \cup {"stat", "group", "list"} = {"stat", "group", "list", "timer"}
      OBVIOUS
    <3> QED
      BY <3>2, <3>3
  <2>10. r.cur = s.cur
    <3>1. "cur" \notin {"stat", "group", "list", "timer"}
      OBVIOUS
    <3> QED
      BY <1>0, <2>9, <3>1, Kept
  <2>11. r.stat = [s.stat EXCEPT ![t] = IF t = s.cur THEN "RUNNING" ELSE "READY"]
    BY <2>3, <2>6, <2>8
  <2>12. Runs(r)
    BY <1>0, <1>2, <2>10, <2>11 DEF Runs
  <2> QED
    BY <1>2, <2>8, <2>9, <2>11, <2>12 DEF Inv, r
<1> QED
  BY <1>1, <1>2 DEF r

(* a ready or running thread suspends                                      *)
LEMMA Suspended ==
  ASSUME NEW s, Inv(s), NEW t \in Threads \ {Idle}
  PROVE  LET r == rt_thread_suspend(s, t) IN
         /\ Inv(r) /\ Changes(s, r, {"stat", "group", "list", "timer"})
         /\ s.stat[t] \notin {"READY", "RUNNING"} => r = s
         /\ s.stat[t] \in {"READY", "RUNNING"} => r.stat = [s.stat EXCEPT ![t] = "SUSPEND"]
<1> DEFINE r == rt_thread_suspend(s, t)
<1>0. Sound(s) /\ Typed(s) /\ Shape(s) /\ Runs(s) /\ s.stat \in [Threads -> Stats]
  BY DEF Inv, Sound, Typed
<1>1. CASE s.stat[t] \notin {"READY", "RUNNING"}
  <2>1. r = s
    BY <1>1 DEF rt_thread_suspend
  <2>2. Changes(s, s, {"stat", "group", "list", "timer"})
    BY <1>0 DEF Changes
  <2> QED
    BY <1>1, <2>1, <2>2
<1>2. CASE s.stat[t] \in {"READY", "RUNNING"}
  <2> DEFINE o == rt_schedule_remove_thread(s, t)
             q == [o EXCEPT !.stat[t] = "SUSPEND"]
             m == [q EXCEPT !.timer = o.timer \ {t}]
  <2>1. /\ SoundBut(o, t) /\ Changes(s, o, {"list", "group"})
    BY <1>0, RemovedFromReady
  <2> HIDE DEF o
  <2>2. r = m
    <3>1. r = [o EXCEPT !.stat[t] = "SUSPEND", !.timer = @ \ {t}]
      BY <1>2 DEF rt_thread_suspend, o
    <3>2. [o EXCEPT !.stat[t] = "SUSPEND", !.timer = @ \ {t}] = m
      BY <2>1 DEF SoundBut, Typed, Shape, Fields
    <3> QED
      BY <3>1, <3>2
  <2> HIDE DEF r
  <2>3. "SUSPEND" \in Stats \ {"READY", "CLOSE"}
    BY DEF Stats
  <2>4. Sound(q) /\ Changes(o, q, {"stat"}) /\ q.stat = [o.stat EXCEPT ![t] = "SUSPEND"]
    BY <2>1, <2>3, StatusGiven
  <2> HIDE DEF q
  <2>5. Typed(m) /\ Changes(q, m, {"timer"})
    <3>1. o.timer \ {t} \in SUBSET Threads
      BY <2>1 DEF SoundBut, Typed
    <3> QED
      BY <2>4, <3>1, FieldsSet DEF Sound
  <2> HIDE DEF m
  <2>6. m.stat = q.stat /\ m.group = q.group /\ m.prio = q.prio /\ m.cur = q.cur /\ m.list = q.list
    <3>1. {"timer"} \cap Fields \subseteq {"timer", "yield", "lock"}
      OBVIOUS
    <3> QED
      BY <2>4, <2>5, <3>1, AloneFields DEF Sound, Typed
  <2>7. Sound(m)
    BY <2>4, <2>5, <2>6, SoundAgain
  <2>8. Changes(s, m, {"stat", "group", "list", "timer"})
    <3>1. Changes(s, q, {"list", "group"} \cup {"stat"})
      BY <2>1, <2>4, ChangesTwice
    <3>2. Changes(s, m, ({"list", "group"} \cup {"stat"}) \cup {"timer"})
      BY <2>5, <3>1, ChangesTwice
    <3>3. ({"list", "group"} \cup {"stat"}) \cup {"timer"} = {"stat", "group", "list", "timer"}
      OBVIOUS
    <3> QED
      BY <3>2, <3>3
  <2>9. m.cur = s.cur /\ o.stat = s.stat
    <3>1. "cur" \notin {"stat", "group", "list", "timer"} /\ "stat" \notin {"list", "group"}
      OBVIOUS
    <3> QED
      BY <1>0, <2>1, <2>8, <3>1, Kept
  <2>10. m.stat = [s.stat EXCEPT ![t] = "SUSPEND"]
    BY <2>4, <2>6, <2>9
  <2>11. Runs(m)
    <3>1. Idle \in Threads /\ t # Idle
      BY DEF Threads
    <3> QED
      BY <1>0, <1>2, <2>9, <2>10, <3>1 DEF Runs
  <2> QED
    BY <1>2, <2>2, <2>7, <2>8, <2>10, <2>11 DEF Inv, r
<1> QED
  BY <1>1, <1>2 DEF r

(* a thread is closed and waits to be freed                                *)
LEMMA Closed ==
  ASSUME NEW s, Inv(s), NEW t \in Threads \ {Idle}, s.stat[t] # "NONE"
  PROVE  LET r == rt_thread_defunct_enqueue(Close(s, t), t) IN
         /\ Inv(r) /\ Changes(s, r, {"stat", "group", "list", "timer", "yield"})
         /\ r.stat = [s.stat EXCEPT ![t] = "CLOSE"]
<1> DEFINE o == IF s.stat[t] = "INIT" THEN s ELSE rt_schedule_remove_thread(s, t)
           c == [o EXCEPT !.stat[t] = "CLOSE"]
           y == [c EXCEPT !.yield = o.yield \ {t}]
           m == [y EXCEPT !.timer = o.timer \ {t}]
           r == rt_list_insert_after(m, Defunct, t)
<1>0. Sound(s) /\ Typed(s) /\ Shape(s) /\ Runs(s) /\ s.stat \in [Threads -> Stats] /\ t \in Threads
      /\ s.prio[t] \in Priorities
  BY DEF Inv, Sound, Typed
<1>1. /\ SoundBut(o, t) /\ Changes(s, o, {"list", "group"})
  <2>1. CASE s.stat[t] = "INIT"
    <3>1. SoundBut(s, t)
      BY <1>0, <2>1, NotLinked
    <3>2. Changes(s, s, {"list", "group"})
      BY <1>0 DEF Changes
    <3> QED
      BY <2>1, <3>1, <3>2
  <2>2. CASE s.stat[t] # "INIT"
    BY <1>0, <2>2, RemovedFromReady
  <2> QED
    BY <2>1, <2>2
<1>2. rt_thread_defunct_enqueue(Close(s, t), t) = r
  <2>1. Close(s, t) = [o EXCEPT !.stat[t] = "CLOSE", !.yield = @ \ {t}, !.timer = @ \ {t}]
    BY DEF Close
  <2> HIDE DEF o
  <2>2. [o EXCEPT !.stat[t] = "CLOSE", !.yield = @ \ {t}, !.timer = @ \ {t}] = m
    BY <1>1 DEF SoundBut, Typed, Shape, Fields
  <2> QED
    BY <2>1, <2>2 DEF rt_thread_defunct_enqueue
<1> HIDE DEF o
<1>3. "CLOSE" \in Stats
  BY DEF Stats
<1>4. Typed(c) /\ Changes(o, c, {"stat"}) /\ c.stat = [o.stat EXCEPT ![t] = "CLOSE"]
  BY <1>0, <1>1, <1>3, StatSet DEF SoundBut
<1> HIDE DEF c
<1>5. Typed(y) /\ Changes(c, y, {"yield"})
  <2>1. o.yield \ {t} \in SUBSET Threads
    BY <1>1 DEF SoundBut, Typed
  <2> QED
    BY <1>4, <2>1, FieldsSet
<1> HIDE DEF y
<1>6. Typed(m) /\ Changes(y, m, {"timer"})
  <2>1. o.timer \ {t} \in SUBSET Threads
    BY <1>1 DEF SoundBut, Typed
  <2> QED
    BY <1>5, <2>1, FieldsSet
<1> HIDE DEF m
<1>7. Changes(o, m, {"stat", "yield", "timer"})
  <2>1. Changes(o, y, {"stat"} \cup {"yield"})
    BY <1>4, <1>5, ChangesTwice
  <2>2. Changes(o, m, ({"stat"} \cup {"yield"}) \cup {"timer"})
    BY <1>6, <2>1, ChangesTwice
  <2>3. ({"stat"} \cup {"yield"}) \cup {"timer"} = {"stat", "yield", "timer"}
    OBVIOUS
  <2> QED
    BY <2>2, <2>3
<1>8. m.list = o.list /\ m.group = o.group /\ m.prio = o.prio /\ m.stat = c.stat
  <2>1. "list" \notin {"stat", "yield", "timer"} /\ "group" \notin {"stat", "yield", "timer"}
        /\ "prio" \notin {"stat", "yield", "timer"} /\ "stat" \notin {"yield"} /\ "stat" \notin {"timer"}
    OBVIOUS
  <2> QED
    BY <1>1, <1>4, <1>5, <1>6, <1>7, <2>1, Kept DEF SoundBut, Typed
<1>9. o.stat = s.stat /\ o.prio = s.prio
  <2>1. "stat" \notin {"list", "group"} /\ "prio" \notin {"list", "group"}
    OBVIOUS
  <2> QED
    BY <1>0, <1>1, <2>1, Kept
<1>10. SoundBut(m, t)
  <2>1. \A u \in Threads \ {t} : m.stat[u] = o.stat[u] /\ m.prio[u] = o.prio[u]
    BY <1>4, <1>8 DEF Typed
  <2> QED
    BY <1>0, <1>1, <1>6, <1>8, <2>1, OffAgain
<1>11. /\ Typed(r) /\ Changes(m, r, {"list"})
       /\ \A u : On(u, r.list[Defunct]) <=> u = t \/ On(u, m.list[Defunct])
       /\ \A g \in Heads \ {Defunct} : r.list[g] = m.list[g]
  <2>1. Defunct \in Heads /\ ~On(t, m.list[Defunct])
    BY <1>10, HeadsAre DEF SoundBut
  <2> QED
    BY <1>0, <1>6, <2>1, LinkedIn
<1> HIDE DEF r
<1>12. r.stat = m.stat /\ r.group = m.group /\ r.prio = m.prio
  <2>1. "stat" \notin {"list"} /\ "prio" \notin {"list"} /\ "group" \notin {"list"}
    OBVIOUS
  <2> QED
    BY <1>6, <1>11, <2>1, Kept DEF Typed
<1>13. r.stat = [s.stat EXCEPT ![t] = "CLOSE"]
  BY <1>4, <1>8, <1>9, <1>12
<1>14. Bits(r)
  BY <1>10, <1>11, <1>12, HeadsAre DEF SoundBut, Bits
<1>15. ASSUME NEW u \in Threads PROVE Placed(r, u)
  <2>1. CASE u = t
    <3>1. \A h \in Heads : On(t, r.list[h]) <=> h = Defunct
      BY <1>10, <1>11 DEF SoundBut
    <3>2. r.stat[t] = "CLOSE"
      BY <1>0, <1>13
    <3> QED
      BY <2>1, <3>1, <3>2, HeadsAre DEF Placed, Home
  <2>2. CASE u # t
    <3>1. Placed(m, u)
      BY <1>10, <2>2 DEF SoundBut
    <3>2. \A h \in Heads : On(u, r.list[h]) <=> On(u, m.list[h])
      BY <1>11, <2>2
    <3> QED
      BY <1>12, <3>1, <3>2, HeadsAre DEF Placed, Home
  <2> QED
    BY <2>1, <2>2
<1>16. Changes(s, r, {"stat", "group", "list", "timer", "yield"})
  <2>1. Changes(s, m, {"list", "group"} \cup {"stat", "yield", "timer"})
    BY <1>1, <1>7, ChangesTwice
  <2>2. Changes(s, r, ({"list", "group"} \cup {"stat", "yield", "timer"}) \cup {"list"})
    BY <1>11, <2>1, ChangesTwice
  <2>3. ({"list", "group"} \cup {"stat", "yield", "timer"}) \cup {"list"} = {"stat", "group", "list", "timer", "yield"}
    OBVIOUS
  <2> QED
    BY <2>2, <2>3
<1>17. r.cur = s.cur
  <2>1. "cur" \notin {"stat", "group", "list", "timer", "yield"}
    OBVIOUS
  <2> QED
    BY <1>0, <1>16, <2>1, Kept
<1>18. Runs(r)
  <2>1. Idle \in Threads /\ t # Idle
    BY DEF Threads
  <2> QED
    BY <1>0, <1>13, <1>17, <2>1 DEF Runs
<1> QED
  BY <1>2, <1>11, <1>13, <1>14, <1>15, <1>16, <1>18 DEF Inv, Sound

-----------------------------------------------------------------------------
(* Priorities, creation, start, the idle thread, critical sections.        *)

(* A priority is set.                                                      *)
LEMMA PrioSet ==
  ASSUME NEW s, Typed(s), NEW t \in Threads, NEW p \in Priorities
  PROVE  LET r == [s EXCEPT !.prio[t] = p] IN
         Typed(r) /\ Changes(s, r, {"prio"}) /\ r.prio = [s.prio EXCEPT ![t] = p]
<1> DEFINE r == [s EXCEPT !.prio[t] = p]
<1>1. Changes(s, r, {"prio"}) /\ r.prio = [s.prio EXCEPT ![t] = p]
  BY DEF Typed, Shape, Fields, Changes
<1>2. r.cur = s.cur /\ r.group = s.group /\ r.yield = s.yield /\ r.stat = s.stat
      /\ r.list = s.list /\ r.lock = s.lock /\ r.timer = s.timer
  BY DEF Typed, Shape, Fields
<1> HIDE DEF r
<1>3. r.prio \in [Threads -> Priorities]
  BY <1>1 DEF Typed
<1>4. Typed(r)
  BY <1>1, <1>2, <1>3 DEF Typed, Changes
<1> QED
  BY <1>1, <1>4 DEF r

(* A ready thread moves to the list of its new priority, another only gets *)
(* it.                                                                     *)
LEMMA PriorityChanged ==
  ASSUME NEW s, Inv(s), NEW t \in Threads, NEW p \in Priorities
  PROVE  LET r == ChangePriority(s, t, p) IN
         /\ Inv(r) /\ Changes(s, r, {"prio", "stat", "group", "list"})
         /\ r.stat = s.stat /\ r.prio = [s.prio EXCEPT ![t] = p]
<1> DEFINE r == ChangePriority(s, t, p)
           F == {"prio", "stat", "group", "list"}
<1>0. Sound(s) /\ Typed(s) /\ Shape(s) /\ Runs(s) /\ s.stat \in [Threads -> Stats]
  BY DEF Inv, Sound, Typed
<1>1. CASE s.stat[t] = "READY"
  <2> DEFINE o == rt_schedule_remove_thread(s, t)
             q == [o EXCEPT !.prio[t] = p]
  <2>1. r = rt_schedule_insert_thread(q, t)
    BY <1>1 DEF ChangePriority
  <2>2. SoundBut(o, t) /\ Changes(s, o, {"list", "group"})
    BY <1>0, RemovedFromReady
  <2> HIDE DEF o, r
  <2>3. Typed(q) /\ Changes(o, q, {"prio"}) /\ q.prio = [o.prio EXCEPT ![t] = p]
    BY <2>2, PrioSet DEF SoundBut
  <2> HIDE DEF q
  <2>4. q.list = o.list /\ q.group = o.group /\ q.stat = o.stat /\ q.cur = o.cur
    <3>1. "list" \notin {"prio"} /\ "group" \notin {"prio"} /\ "stat" \notin {"prio"} /\ "cur" \notin {"prio"}
      OBVIOUS
    <3> QED
      BY <2>2, <2>3, <3>1, Kept DEF SoundBut, Typed
  <2>5. o.stat = s.stat /\ o.cur = s.cur /\ o.prio = s.prio
    <3>1. "stat" \notin {"list", "group"} /\ "cur" \notin {"list", "group"} /\ "prio" \notin {"list", "group"}
      OBVIOUS
    <3> QED
      BY <1>0, <2>2, <3>1, Kept
  <2>6. SoundBut(q, t)
    <3>1. \A u \in Threads \ {t} : q.stat[u] = o.stat[u] /\ q.prio[u] = o.prio[u]
      BY <2>3, <2>4, <1>0, <2>5 DEF Typed
    <3> QED
      BY <2>2, <2>3, <2>4, <3>1, OffAgain
  <2>7. t # s.cur
    BY <1>0, <1>1 DEF Runs
  <2>8. Sound(r) /\ Changes(q, r, {"stat", "group", "list"})
        /\ r.stat = [q.stat EXCEPT ![t] = IF t = q.cur THEN "RUNNING" ELSE "READY"]
    BY <2>1, <2>6, InsertedInReady
  <2>9. r.stat = s.stat
    BY <1>0, <1>1, <2>4, <2>5, <2>7, <2>8
  <2>10. Changes(s, r, F)
    <3>1. Changes(s, q, {"list", "group"} \cup {"prio"})
      BY <2>2, <2>3, ChangesTwice
    <3>2. Changes(s, r, ({"list", "group"} \cup {"prio"}) \cup {"stat", "group", "list"})
      BY <2>8, <3>1, ChangesTwice
    <3>3. ({"list", "group"} \cup {"prio"}) \cup {"stat", "group", "list"} = F
      OBVIOUS
    <3> QED
      BY <3>2, <3>3
  <2>11. r.cur = s.cur /\ r.prio = q.prio
    <3>1. "cur" \notin F /\ "prio" \notin {"stat", "group", "list"}
      OBVIOUS
    <3> QED
      BY <1>0, <2>3, <2>8, <2>10, <3>1, Kept DEF Typed
  <2>12. Runs(r)
    BY <1>0, <2>9, <2>11 DEF Runs
  <2> QED
    BY <2>3, <2>5, <2>8, <2>9, <2>10, <2>11, <2>12 DEF Inv, r
<1>2. CASE s.stat[t] # "READY"
  <2>1. r = [s EXCEPT !.prio[t] = p]
    BY <1>2 DEF ChangePriority
  <2> HIDE DEF r
  <2>2. Typed(r) /\ Changes(s, r, {"prio"}) /\ r.prio = [s.prio EXCEPT ![t] = p]
    BY <1>0, <2>1, PrioSet
  <2>3. r.list = s.list /\ r.group = s.group /\ r.stat = s.stat /\ r.cur = s.cur
    <3>1. "list" \notin {"prio"} /\ "group" \notin {"prio"} /\ "stat" \notin {"prio"} /\ "cur" \notin {"prio"}
      OBVIOUS
    <3> QED
      BY <1>0, <2>2, <3>1, Kept
  <2>4. \A u \in Threads : s.stat[u] = "READY" => r.prio[u] = s.prio[u]
    BY <1>0, <1>2, <2>2 DEF Typed
  <2>5. Sound(r)
    BY <1>0, <2>2, <2>3, <2>4, SoundAgain
  <2>6. Changes(s, r, F)
    BY <2>2 DEF Changes
  <2>7. Runs(r)
    BY <1>0, <2>3 DEF Runs
  <2> QED
    BY <2>2, <2>3, <2>5, <2>6, <2>7 DEF Inv, r
<1> QED
  BY <1>1, <1>2 DEF r

(* A new thread is in no list.                                             *)
LEMMA Initialised ==
  ASSUME NEW s, Inv(s), NEW t \in Threads, NEW p \in Priorities, s.stat[t] = "NONE"
  PROVE  LET r == _thread_init(s, t, p) IN
         /\ Inv(r) /\ Changes(s, r, {"prio", "stat", "yield"})
         /\ r.stat = [s.stat EXCEPT ![t] = "INIT"]
<1> DEFINE r == _thread_init(s, t, p)
           F == {"prio", "stat", "yield"}
<1>0. Sound(s) /\ Typed(s) /\ Shape(s) /\ Runs(s) /\ s.stat \in [Threads -> Stats]
  BY DEF Inv, Sound, Typed
<1>1. Changes(s, r, F)
  BY <1>0 DEF _thread_init, Shape, Fields, Changes
<1>2. r.stat = [s.stat EXCEPT ![t] = "INIT"] /\ r.prio = [s.prio EXCEPT ![t] = p] /\ r.yield = s.yield \ {t}
  BY <1>0 DEF _thread_init, Shape, Fields
<1>3. r.cur = s.cur /\ r.group = s.group /\ r.list = s.list /\ r.lock = s.lock /\ r.timer = s.timer
  BY <1>0 DEF _thread_init, Shape, Fields
<1> HIDE DEF r
<1>4. r.stat \in [Threads -> Stats] /\ r.prio \in [Threads -> Priorities] /\ r.yield \subseteq Threads
  BY <1>0, <1>2 DEF Typed, Stats
<1>5. Typed(r)
  BY <1>0, <1>1, <1>3, <1>4 DEF Typed, Changes
<1>6. SoundBut(s, t)
  BY <1>0, NotLinked
<1>7. SoundBut(r, t)
  <2>1. \A u \in Threads \ {t} : r.stat[u] = s.stat[u] /\ r.prio[u] = s.prio[u]
    BY <1>0, <1>2 DEF Typed
  <2> QED
    BY <1>3, <1>5, <1>6, <2>1, OffAgain
<1>8. r.stat[t] = "INIT"
  BY <1>0, <1>2
<1>9. Sound(r)
  BY <1>7, <1>8, OffIsSound
<1>10. Runs(r)
  <2>1. Idle \in Threads /\ t # Idle
    BY <1>0 DEF Threads, Runs
  <2> QED
    BY <1>0, <1>2, <1>3, <2>1 DEF Runs
<1> QED
  BY <1>1, <1>2, <1>9, <1>10 DEF Inv, r

(* A new thread becomes ready.                                             *)
LEMMA StartedUp ==
  ASSUME NEW s, Inv(s), NEW t \in Threads, s.stat[t] = "INIT"
  PROVE  LET q == rt_thread_resume([s EXCEPT !.stat[t] = "SUSPEND"], t) IN
         Inv(q) /\ Changes(s, q, {"stat", "group", "list", "timer"}) /\ q.stat = [s.stat EXCEPT ![t] = "READY"]
<1> DEFINE m == [s EXCEPT !.stat[t] = "SUSPEND"]
           q == rt_thread_resume(m, t)
<1>0. Sound(s) /\ Typed(s) /\ Shape(s) /\ Runs(s) /\ s.stat \in [Threads -> Stats]
  BY DEF Inv, Sound, Typed
<1>1. SoundBut(s, t)
  BY <1>0, NotLinked
<1>2. "SUSPEND" \in Stats \ {"READY", "CLOSE"}
  BY DEF Stats
<1>3. Sound(m) /\ Changes(s, m, {"stat"}) /\ m.stat = [s.stat EXCEPT ![t] = "SUSPEND"]
  BY <1>1, <1>2, StatusGiven
<1> HIDE DEF m
<1>4. m.cur = s.cur
  <2>1. "cur" \notin {"stat"}
    OBVIOUS
  <2> QED
    BY <1>0, <1>3, <2>1, Kept
<1>5. t # s.cur /\ t # Idle /\ Idle \in Threads
  BY <1>0 DEF Runs, Threads
<1>6. Inv(m)
  BY <1>0, <1>3, <1>4, <1>5 DEF Inv, Runs
<1>7. m.stat[t] = "SUSPEND"
  BY <1>0, <1>3
<1>8. /\ Inv(q) /\ Changes(m, q, {"stat", "group", "list", "timer"})
      /\ q.stat = [m.stat EXCEPT ![t] = IF t = m.cur THEN "RUNNING" ELSE "READY"]
  BY <1>6, <1>7, Resumed
<1> HIDE DEF q
<1>9. q.stat = [s.stat EXCEPT ![t] = "READY"]
  BY <1>0, <1>3, <1>4, <1>5, <1>8
<1>10. Changes(s, q, {"stat"} \cup {"stat", "group", "list", "timer"})
  BY <1>3, <1>8, ChangesTwice
<1>11. {"stat"} \cup {"stat", "group", "list", "timer"} = {"stat", "group", "list", "timer"}
  OBVIOUS
<1> QED
  BY <1>8, <1>9, <1>10, <1>11 DEF q, m

(* The idle thread frees every closed thread, and never the one on the     *)
(* processor.                                                              *)
LEMMA Reaped ==
  ASSUME NEW s, Inv(s), s.cur = Idle
  PROVE  LET r == rt_defunct_execute(s) IN
         /\ Inv(r) /\ Changes(s, r, {"stat", "list"})
         /\ r.stat = [t \in Threads |-> IF s.stat[t] = "CLOSE" THEN "NONE" ELSE s.stat[t]]
<1> DEFINE r == rt_defunct_execute(s)
           d == s.list[Defunct]
<1>0. Sound(s) /\ Typed(s) /\ Shape(s) /\ Runs(s) /\ s.stat \in [Threads -> Stats] /\ d \in Seq(Threads)
      /\ s.list \in [Heads -> Seq(Threads)]
  BY HeadsAre DEF Inv, Sound, Typed
<1>1. Changes(s, r, {"stat", "list"})
  BY <1>0 DEF rt_defunct_execute, Shape, Fields, Changes
<1>2. r.stat = [t \in Threads |-> IF t \in ToSet(d) THEN "NONE" ELSE s.stat[t]] /\ r.list = [s.list EXCEPT ![Defunct] = <<>>]
  BY <1>0 DEF rt_defunct_execute, Shape, Fields
<1>3. r.cur = s.cur /\ r.group = s.group /\ r.prio = s.prio /\ r.lock = s.lock /\ r.timer = s.timer /\ r.yield = s.yield
  BY <1>0 DEF rt_defunct_execute, Shape, Fields
<1> HIDE DEF r
<1>4. \A t \in Threads : t \in ToSet(d) <=> s.stat[t] = "CLOSE"
  <2>1. \A t \in Threads : t \in ToSet(d) <=> On(t, d)
    BY <1>0 DEF ToSet, On
  <2>2. \A t \in Threads : On(t, d) <=> Home(s, t, Defunct)
    BY <1>0 DEF Sound, Placed
  <2>3. \A t \in Threads : s.prio[t] # Defunct
    BY <1>0, HeadsAre DEF Typed
  <2> QED
    BY <2>1, <2>2, <2>3 DEF Home
<1>5. r.stat = [t \in Threads |-> IF s.stat[t] = "CLOSE" THEN "NONE" ELSE s.stat[t]]
  BY <1>2, <1>4
<1>6. r.stat \in [Threads -> Stats]
  BY <1>0, <1>5 DEF Stats
<1>7. <<>> \in Seq(Threads) /\ Distinct(<<>>) /\ \A u : ~On(u, <<>>)
  BY DEF Distinct, On
<1>8. r.list[Defunct] = <<>> /\ \A h \in Heads \ {Defunct} : r.list[h] = s.list[h]
  BY <1>0, <1>2, HeadsAre
<1>9. r.list \in [Heads -> Seq(Threads)]
  BY <1>0, <1>2, <1>7
<1>10. \A h \in Heads : Distinct(r.list[h])
  BY <1>0, <1>7, <1>8 DEF Typed
<1>11. Typed(r)
  BY <1>0, <1>1, <1>3, <1>6, <1>9, <1>10 DEF Typed, Changes
<1>12. Bits(r)
  BY <1>0, <1>3, <1>8, HeadsAre DEF Bits, Sound
<1>13. ASSUME NEW u \in Threads PROVE Placed(r, u)
  <2>1. Placed(s, u) /\ s.prio[u] \in Priorities
    BY <1>0 DEF Sound, Typed
  <2>2. r.stat[u] = IF s.stat[u] = "CLOSE" THEN "NONE" ELSE s.stat[u]
    BY <1>5
  <2>3. \A h \in Priorities : On(u, r.list[h]) <=> Home(r, u, h)
    BY <1>3, <1>8, <2>1, <2>2, HeadsAre DEF Placed, Home
  <2>4. On(u, r.list[Defunct]) <=> Home(r, u, Defunct)
    BY <1>3, <1>7, <1>8, <2>1, <2>2, HeadsAre DEF Home
  <2>5. \A o \in Objects : On(u, r.list[o]) => r.stat[u] = "SUSPEND"
    BY <1>8, <2>1, <2>2, HeadsAre DEF Placed
  <2> QED
    BY <2>3, <2>4, <2>5 DEF Placed
<1>14. Runs(r)
  <2>1. Idle \in Threads
    BY DEF Threads
  <2> QED
    BY <1>0, <1>3, <1>5, <2>1 DEF Runs
<1> QED
  BY <1>1, <1>5, <1>11, <1>12, <1>13, <1>14 DEF Inv, Sound, r

(* The scheduler is locked or unlocked.                                    *)
LEMMA LockSet ==
  ASSUME NEW s, Inv(s), NEW n \in Nat
  PROVE  LET r == [s EXCEPT !.lock = n] IN Inv(r) /\ Changes(s, r, {"lock"}) /\ r.lock = n
<1> DEFINE r == [s EXCEPT !.lock = n]
<1>1. Changes(s, r, {"lock"}) /\ r.lock = n
  BY DEF Inv, Sound, Typed, Shape, Fields, Changes
<1>2. r.stat = s.stat /\ r.group = s.group /\ r.prio = s.prio /\ r.cur = s.cur
      /\ r.list = s.list /\ r.timer = s.timer /\ r.yield = s.yield
  BY DEF Inv, Sound, Typed, Shape, Fields
<1> HIDE DEF r
<1>3. Typed(r)
  BY <1>1, <1>2 DEF Inv, Sound, Typed, Changes
<1>4. Inv(r)
  BY <1>1, <1>2, <1>3, SoundAgain DEF Inv, Runs
<1> QED
  BY <1>1, <1>4 DEF r

-----------------------------------------------------------------------------
(* The system.                                                             *)

(* The inductive invariant of the system: that of the kernel, the bound of *)
(* the lock, and the most urgent thread runs after a call that             *)
(* reschedules.                                                            *)
SchedInv ==
  /\ Inv(k) /\ k.lock <= LockMax
  /\ op \in Rescheduling /\ k.lock = 0 => Best(k)

(* The kernel as rtthread_startup leaves it.                               *)
LEMMA BootInv == Inv(Boot) /\ Boot.lock = 0
<1> DEFINE b == Boot
<1>1. /\ b.cur = Main /\ b.yield = {} /\ b.group = {Levels - 1} /\ b.lock = 0 /\ b.timer = {}
      /\ b.stat = [t \in Threads |-> CASE t = Main -> "RUNNING" [] t = Idle -> "READY" [] OTHER -> "NONE"]
      /\ b.prio = [t \in Threads |-> IF t = Main THEN Levels \div 2 ELSE Levels - 1]
      /\ b.list = [h \in Heads |-> IF h = Levels - 1 THEN <<Idle>> ELSE <<>>]
      /\ DOMAIN b = Fields
  BY DEF Boot, Heads, Fields
<1>2. b = [x \in DOMAIN b |-> b[x]]
  BY DEF Boot
<1> HIDE DEF b
<1>3. Main \in Threads /\ Idle \in Threads /\ Main # Idle /\ Levels - 1 \in Priorities /\ Levels \div 2 \in Priorities
  BY ThreadsAssumption, LevelsAssumption DEF Threads, Priorities
<1>4. b.stat[Main] = "RUNNING" /\ b.stat[Idle] = "READY" /\ \A t \in Threads \ {Main, Idle} : b.stat[t] = "NONE"
  BY <1>1, <1>3
<1>5. b.stat \in [Threads -> Stats]
  BY <1>1 DEF Stats
<1>6. b.prio \in [Threads -> Priorities] /\ b.prio[Idle] = Levels - 1
  BY <1>1, <1>3
<1>7. <<Idle>> \in Seq(Threads) /\ Distinct(<<Idle>>) /\ <<Idle>> # <<>> /\ \A u : On(u, <<Idle>>) <=> u = Idle
  BY <1>3 DEF Distinct, On
<1>8. <<>> \in Seq(Threads) /\ Distinct(<<>>) /\ \A u : ~On(u, <<>>)
  BY DEF Distinct, On
<1>9. b.list \in [Heads -> Seq(Threads)] /\ \A h \in Heads : Distinct(b.list[h])
  BY <1>1, <1>7, <1>8
<1>10. Typed(b)
  BY <1>1, <1>2, <1>3, <1>5, <1>6, <1>9 DEF Typed, Shape
<1>11. \A h \in Heads : b.list[h] = IF h = Levels - 1 THEN <<Idle>> ELSE <<>>
  BY <1>1
<1>12. Bits(b)
  BY <1>1, <1>3, <1>7, <1>11, HeadsAre DEF Bits
<1>13. ASSUME NEW t \in Threads PROVE Placed(b, t)
  <2>1. \A h \in Heads : On(t, b.list[h]) <=> h = Levels - 1 /\ t = Idle
    BY <1>7, <1>8, <1>11
  <2>2. b.stat[t] = "READY" <=> t = Idle
    BY <1>3, <1>4
  <2>3. b.stat[t] # "CLOSE"
    BY <1>3, <1>4
  <2>4. \A h \in Priorities \cup {Defunct} : On(t, b.list[h]) <=> Home(b, t, h)
    BY <1>6, <2>1, <2>2, <2>3, HeadsAre DEF Home
  <2>5. \A o \in Objects : ~On(t, b.list[o])
    BY <1>3, <2>1, HeadsAre
  <2> QED
    BY <2>4, <2>5 DEF Placed
<1>14. Runs(b)
  BY <1>1, <1>3, <1>4 DEF Runs
<1> QED
  BY <1>1, <1>10, <1>12, <1>13, <1>14 DEF Inv, Sound, b

(* The system starts so.                                                   *)
LEMMA SchedStarts == Init => SchedInv
<1> SUFFICES ASSUME Init PROVE SchedInv
  OBVIOUS
<1>1. k = Boot /\ op = "boot"
  BY DEF Init
<1>2. op \notin Rescheduling
  BY <1>1 DEF Rescheduling
<1> QED
  BY <1>1, <1>2, BootInv, LevelsAssumption DEF SchedInv

(* Only three calls change the lock.                                       *)
LEMMA LockKept ==
  ASSUME NEW s, NEW r, Inv(s), NEW F, Changes(s, r, F), "lock" \notin F
  PROVE  r.lock = s.lock
BY Kept DEF Inv, Sound, Typed

(* a call that ends with rt_schedule                                       *)
LEMMA EndsWithSchedule ==
  ASSUME SchedInv, NEW s, Inv(s), s.lock <= LockMax, k' = rt_schedule(s)
  PROVE  SchedInv'
<1>1. Inv(k') /\ (s.lock = 0 => Best(k')) /\ k'.lock = s.lock
  BY Schedules
<1> QED
  BY <1>1 DEF SchedInv

(* A call that does not.                                                   *)
LEMMA EndsWithout ==
  ASSUME SchedInv, Inv(k'), k'.lock <= LockMax, op' \notin Rescheduling
  PROVE  SchedInv'
BY DEF SchedInv

(* rt_thread_create.                                                       *)
LEMMA CreateStep == SchedInv /\ Create => SchedInv'
<1> SUFFICES ASSUME SchedInv, Create PROVE SchedInv'
  OBVIOUS
<1>1. PICK t \in Workers, p \in Priorities : k.stat[t] = "NONE" /\ k' = _thread_init(k, t, p)
  BY DEF Create
<1>2. Inv(k) /\ t \in Threads /\ op' = "create"
  BY DEF SchedInv, Threads, Create, Call
<1>3. Inv(k') /\ Changes(k, k', {"prio", "stat", "yield"})
  BY <1>1, <1>2, Initialised
<1>4. "lock" \notin {"prio", "stat", "yield"} /\ op' \notin Rescheduling
  BY <1>2 DEF Rescheduling
<1> QED
  BY <1>2, <1>3, <1>4, LockKept, EndsWithout DEF SchedInv

(* rt_thread_startup.                                                      *)
LEMMA StartupStep == SchedInv /\ Startup => SchedInv'
<1> SUFFICES ASSUME SchedInv, Startup PROVE SchedInv'
  OBVIOUS
<1>1. PICK t \in Workers : k.stat[t] = "INIT" /\ k' = rt_thread_startup(k, t)
  BY DEF Startup
<1> DEFINE q == rt_thread_resume([k EXCEPT !.stat[t] = "SUSPEND"], t)
<1>2. Inv(k) /\ t \in Threads /\ k' = rt_schedule(q)
  BY <1>1 DEF SchedInv, Threads, rt_thread_startup
<1>3. Inv(q) /\ Changes(k, q, {"stat", "group", "list", "timer"})
  BY <1>1, <1>2, StartedUp
<1> HIDE DEF q
<1>4. "lock" \notin {"stat", "group", "list", "timer"}
  OBVIOUS
<1>5. q.lock <= LockMax
  BY <1>2, <1>3, <1>4, LockKept DEF SchedInv
<1> QED
  BY <1>2, <1>3, <1>5, EndsWithSchedule

(* rt_thread_yield.                                                        *)
LEMMA YieldStep == SchedInv /\ Yield => SchedInv'
<1> SUFFICES ASSUME SchedInv, Yield PROVE SchedInv'
  OBVIOUS
<1> DEFINE q == [k EXCEPT !.yield = k.yield \cup {k.cur}]
<1>1. Inv(k) /\ k' = rt_schedule(q)
  BY DEF SchedInv, Yield, rt_thread_yield
<1>2. Typed(k) /\ k.yield \cup {k.cur} \in SUBSET Threads
  BY <1>1 DEF Inv, Sound, Typed
<1>3. Typed(q) /\ Changes(k, q, {"yield"})
  BY <1>2, FieldsSet
<1> HIDE DEF q
<1>4. {"yield"} \cap Fields \subseteq {"timer", "yield", "lock"} /\ "lock" \notin {"yield"}
  OBVIOUS
<1>5. Inv(q) /\ q.lock <= LockMax
  BY <1>1, <1>3, <1>4, RunsAgain, LockKept DEF SchedInv
<1> QED
  BY <1>1, <1>5, EndsWithSchedule

(* rt_thread_suspend of the caller.                                        *)
LEMMA SuspendStep == SchedInv /\ Suspend => SchedInv'
<1> SUFFICES ASSUME SchedInv, Suspend PROVE SchedInv'
  OBVIOUS
<1> DEFINE q == rt_thread_suspend(k, k.cur)
<1>1. Inv(k) /\ k' = rt_schedule(q) /\ k.cur \in Threads \ {Idle}
  BY DEF SchedInv, Suspend, Call, Inv, Sound, Typed
<1>2. Inv(q) /\ Changes(k, q, {"stat", "group", "list", "timer"})
  BY <1>1, Suspended
<1> HIDE DEF q
<1>3. "lock" \notin {"stat", "group", "list", "timer"}
  OBVIOUS
<1>4. q.lock <= LockMax
  BY <1>1, <1>2, <1>3, LockKept DEF SchedInv
<1> QED
  BY <1>1, <1>2, <1>4, EndsWithSchedule

(* rt_thread_resume of any thread.                                         *)
LEMMA ResumeStep == SchedInv /\ Resume => SchedInv'
<1> SUFFICES ASSUME SchedInv, Resume PROVE SchedInv'
  OBVIOUS
<1>1. PICK t \in Threads : k' = rt_thread_resume(k, t)
  BY DEF Resume
<1>2. Inv(k) /\ op' = "thread_resume"
  BY DEF SchedInv, Resume, Call
<1>3. Inv(k') /\ Changes(k, k', {"stat", "group", "list", "timer"})
  BY <1>1, <1>2, Resumed
<1>4. "lock" \notin {"stat", "group", "list", "timer"} /\ op' \notin Rescheduling
  BY <1>2 DEF Rescheduling
<1> QED
  BY <1>2, <1>3, <1>4, LockKept, EndsWithout DEF SchedInv

(* rt_thread_control changes a priority.                                   *)
LEMMA ControlStep == SchedInv /\ Control => SchedInv'
<1> SUFFICES ASSUME SchedInv, Control PROVE SchedInv'
  OBVIOUS
<1>1. PICK t \in Threads \ {Idle}, p \in Priorities : k' = ChangePriority(k, t, p)
  BY DEF Control
<1>2. Inv(k) /\ op' = "control" /\ t \in Threads
  BY DEF SchedInv, Control, Call
<1>3. Inv(k') /\ Changes(k, k', {"prio", "stat", "group", "list"})
  BY <1>1, <1>2, PriorityChanged
<1>4. "lock" \notin {"prio", "stat", "group", "list"} /\ op' \notin Rescheduling
  BY <1>2 DEF Rescheduling
<1> QED
  BY <1>2, <1>3, <1>4, LockKept, EndsWithout DEF SchedInv

(* rt_thread_delete, of the caller too.                                    *)
LEMMA Deleted ==
  ASSUME SchedInv, NEW t \in Threads \ {Idle}, k.stat[t] # "NONE"
  PROVE  LET r == rt_thread_delete(k, t) IN Inv(r) /\ r.lock <= LockMax
<1> DEFINE r == rt_thread_delete(k, t)
           c == rt_thread_defunct_enqueue(Close(k, t), t)
<1>1. Inv(k) /\ k.lock <= LockMax
  BY DEF SchedInv
<1>2. CASE k.stat[t] = "CLOSE"
  BY <1>1, <1>2 DEF rt_thread_delete
<1>3. CASE k.stat[t] # "CLOSE"
  <2>1. r = c
    BY <1>3 DEF rt_thread_delete
  <2>2. Inv(c) /\ Changes(k, c, {"stat", "group", "list", "timer", "yield"})
    BY <1>1, Closed
  <2> HIDE DEF c, r
  <2>3. "lock" \notin {"stat", "group", "list", "timer", "yield"}
    OBVIOUS
  <2>4. c.lock = k.lock
    BY <1>1, <2>2, <2>3, LockKept
  <2> QED
    BY <1>1, <2>1, <2>2, <2>4 DEF r
<1> QED
  BY <1>2, <1>3

(* rt_thread_delete as a call.                                             *)
LEMMA DeleteStep == SchedInv /\ Delete => SchedInv'
<1> SUFFICES ASSUME SchedInv, Delete PROVE SchedInv'
  OBVIOUS
<1>1. PICK t \in Threads \ {Idle} : k.stat[t] # "NONE" /\ k' = rt_thread_delete(k, t)
  BY DEF Delete
<1>2. Inv(k') /\ k'.lock <= LockMax
  BY <1>1, Deleted
<1>3. op' \notin Rescheduling
  BY DEF Delete, Call, Rescheduling
<1> QED
  BY <1>2, <1>3, EndsWithout

(* rt_thread_control closes a thread.                                      *)
LEMMA ControlCloseStep == SchedInv /\ ControlClose => SchedInv'
<1> SUFFICES ASSUME SchedInv, ControlClose PROVE SchedInv'
  OBVIOUS
<1>1. PICK t \in Threads \ {Idle} : k.stat[t] # "NONE" /\ k' = rt_schedule(rt_thread_delete(k, t))
  BY DEF ControlClose
<1> DEFINE q == rt_thread_delete(k, t)
<1>2. Inv(q) /\ q.lock <= LockMax /\ k' = rt_schedule(q)
  BY <1>1, Deleted
<1> HIDE DEF q
<1> QED
  BY <1>2, EndsWithSchedule

(* The entry of a thread returns.                                          *)
LEMMA ExitStep == SchedInv /\ Exit => SchedInv'
<1> SUFFICES ASSUME SchedInv, Exit PROVE SchedInv'
  OBVIOUS
<1> DEFINE q == rt_thread_defunct_enqueue(Close(k, k.cur), k.cur)
<1>1. Inv(k) /\ k' = rt_schedule(q) /\ k.cur \in Threads \ {Idle} /\ k.stat[k.cur] # "NONE"
  BY DEF SchedInv, Exit, Call, Inv, Sound, Typed, Runs
<1>2. Inv(q) /\ Changes(k, q, {"stat", "group", "list", "timer", "yield"})
  BY <1>1, Closed
<1> HIDE DEF q
<1>3. "lock" \notin {"stat", "group", "list", "timer", "yield"}
  OBVIOUS
<1>4. q.lock <= LockMax
  BY <1>1, <1>2, <1>3, LockKept DEF SchedInv
<1> QED
  BY <1>1, <1>2, <1>4, EndsWithSchedule

(* rt_enter_critical.                                                      *)
LEMMA EnterStep == SchedInv /\ EnterCritical => SchedInv'
<1> SUFFICES ASSUME SchedInv, EnterCritical PROVE SchedInv'
  OBVIOUS
<1>1. Inv(k) /\ k.lock \in Nat /\ k.lock < LockMax /\ op' = "enter"
  BY DEF SchedInv, EnterCritical, Call, Inv, Sound, Typed
<1>2. k' = [k EXCEPT !.lock = k.lock + 1]
  BY DEF EnterCritical, rt_enter_critical
<1>3. k.lock + 1 \in Nat /\ k.lock + 1 <= LockMax
  BY <1>1, LevelsAssumption
<1>4. Inv(k') /\ k'.lock = k.lock + 1
  BY <1>1, <1>2, <1>3, LockSet
<1>5. op' \notin Rescheduling
  BY <1>1 DEF Rescheduling
<1> QED
  BY <1>3, <1>4, <1>5, EndsWithout

(* rt_exit_critical.                                                       *)
LEMMA LeaveStep == SchedInv /\ ExitCritical => SchedInv'
<1> SUFFICES ASSUME SchedInv, ExitCritical PROVE SchedInv'
  OBVIOUS
<1>1. Inv(k) /\ k.lock \in Nat /\ k.lock <= LockMax /\ k.lock > 0 /\ k' = rt_exit_critical(k)
  BY DEF SchedInv, ExitCritical, Inv, Sound, Typed
<1>2. CASE k.lock > 1
  <2>1. k' = [k EXCEPT !.lock = k.lock - 1]
    BY <1>1, <1>2 DEF rt_exit_critical
  <2>2. k.lock - 1 \in Nat /\ k.lock - 1 <= LockMax /\ k.lock - 1 # 0
    BY <1>1, <1>2, LevelsAssumption
  <2>3. Inv(k') /\ k'.lock = k.lock - 1
    BY <1>1, <2>1, <2>2, LockSet
  <2> QED
    BY <2>2, <2>3 DEF SchedInv
<1>3. CASE ~(k.lock > 1)
  <2> DEFINE q == [k EXCEPT !.lock = 0]
  <2>1. k' = rt_schedule(q)
    BY <1>1, <1>3 DEF rt_exit_critical
  <2>2. Inv(q) /\ q.lock = 0
    BY <1>1, LockSet
  <2> HIDE DEF q
  <2>3. q.lock <= LockMax
    BY <2>2, LevelsAssumption
  <2> QED
    BY <2>1, <2>2, <2>3, EndsWithSchedule
<1> QED
  BY <1>2, <1>3

(* A round of the idle thread.                                             *)
LEMMA IdleStep == SchedInv /\ IdleLoop => SchedInv'
<1> SUFFICES ASSUME SchedInv, IdleLoop PROVE SchedInv'
  OBVIOUS
<1>1. Inv(k) /\ k.cur = Idle /\ op' = "idle" /\ k' = rt_defunct_execute(k)
  BY DEF SchedInv, IdleLoop
<1>2. Inv(k') /\ Changes(k, k', {"stat", "list"})
  BY <1>1, Reaped
<1>3. "lock" \notin {"stat", "list"} /\ op' \notin Rescheduling
  BY <1>1 DEF Rescheduling
<1> QED
  BY <1>1, <1>2, <1>3, LockKept, EndsWithout DEF SchedInv

(* The invariant holds always.                                             *)
LEMMA SchedInvariant == Spec => []SchedInv
<1>1. Init => SchedInv
  BY SchedStarts
<1>2. SchedInv /\ [Next]_vars => SchedInv'
  <2> SUFFICES ASSUME SchedInv, [Next]_vars PROVE SchedInv'
    OBVIOUS
  <2>1. CASE Next
    BY <2>1, CreateStep, StartupStep, YieldStep, SuspendStep, ResumeStep, ControlStep,
       DeleteStep,
       ControlCloseStep, ExitStep, EnterStep, LeaveStep, IdleStep DEF Next
  <2>2. CASE UNCHANGED vars
    BY <2>2 DEF vars, SchedInv, Inv, Sound, Runs, Best, Typed, Bits, Placed, Home, Shape
  <2> QED
    BY <2>1, <2>2
<1> QED
  BY <1>1, <1>2, PTL DEF Spec

(* A list without duplicates links a thread once or not at all.            *)
LEMMA LinkedOnce ==
  ASSUME NEW t, NEW h \in Heads, k.list[h] \in Seq(Threads), Distinct(k.list[h])
  PROVE  Linked(t, h) = IF On(t, k.list[h]) THEN 1 ELSE 0
<1> DEFINE l == k.list[h]
           S == {i \in DOMAIN l : l[i] = t}
<1>1. DOMAIN l = 1 .. Len(l)
  OBVIOUS
<1>2. CASE On(t, l)
  <2>1. PICK i \in 1 .. Len(l) : l[i] = t
    BY <1>2 DEF On
  <2>2. S = {i}
    BY <1>1, <2>1 DEF Distinct
  <2> QED
    BY <1>2, <2>2, FS_Singleton DEF Linked
<1>3. CASE ~On(t, l)
  <2>1. S = {}
    BY <1>1, <1>3 DEF On
  <2> QED
    BY <1>3, <2>1, FS_EmptySet DEF Linked
<1> QED
  BY <1>2, <1>3

(* The invariant says all that the properties do.                          *)
LEMMA InvSays == SchedInv => TypeOK /\ ListsAgree /\ HighestRuns /\ CurrentExists
<1> SUFFICES ASSUME SchedInv PROVE TypeOK /\ ListsAgree /\ HighestRuns /\ CurrentExists
  OBVIOUS
<1>1. Inv(k) /\ Sound(k) /\ Typed(k) /\ Runs(k) /\ k.lock <= LockMax /\ (op \in Rescheduling /\ k.lock = 0 => Best(k))
  BY DEF SchedInv, Inv, Sound
<1>2. TypeOK
  <2>1. DOMAIN k.list = Heads /\ \A h \in Heads : ToSet(k.list[h]) \subseteq Threads
    BY <1>1 DEF Typed, ToSet
  <2> QED
    BY <1>1, <2>1, LevelsAssumption DEF TypeOK, Typed, Heads
<1>3. ListsAgree
  <2>1. \A p \in Priorities : p \in k.group <=> k.list[p] # <<>>
    BY <1>1 DEF Sound, Bits
  <2>2. ASSUME NEW t \in Threads, NEW h \in Priorities \cup {Defunct}
        PROVE  Linked(t, h) = IF \/ k.stat[t] = "READY" /\ h = k.prio[t]
                                 \/ k.stat[t] = "CLOSE" /\ h = Defunct
                              THEN 1 ELSE 0
    <3>1. h \in Heads
      BY HeadsAre
    <3>2. Linked(t, h) = IF On(t, k.list[h]) THEN 1 ELSE 0
      BY <1>1, <3>1, LinkedOnce DEF Typed
    <3>3. On(t, k.list[h]) <=> Home(k, t, h)
      BY <1>1 DEF Sound, Placed
    <3> QED
      BY <3>2, <3>3 DEF Home
  <2> QED
    BY <2>1, <2>2 DEF ListsAgree
<1>4. HighestRuns
  BY <1>1 DEF HighestRuns, Best, Runs
<1>5. CurrentExists
  BY <1>1 DEF CurrentExists, Runs
<1> QED
  BY <1>2, <1>3, <1>4, <1>5

(* Whatever calls on threads an application makes, with any threads and    *)
(* priorities: after one that ends with rt_schedule, with the scheduler    *)
(* unlocked, exactly the current thread is running and no ready thread is  *)
(* more urgent (scheduler_up.c, thread.c).                                 *)
THEOREM UrgentRuns == Spec => []HighestRuns
BY SchedInvariant, InvSays, PTL

(* Every thread is linked once where its status says and nowhere else, a   *)
(* priority has its bit exactly when its ready list is not empty, the      *)
(* thread on the processor is never one that has been freed, and every     *)
(* field keeps its type (scheduler_up.c, thread.c, idle.c).                *)
THEOREM KernelLists == Spec => [](TypeOK /\ ListsAgree /\ CurrentExists)
BY SchedInvariant, InvSays, PTL

-----------------------------------------------------------------------------
(* The waiting lists of IPC objects.                                       *)

(* The heads of lists that are not ready lists.                            *)
Others == Heads \ Priorities

(* Unlinking shows in every list, linking in a ready list in no other.     *)
LEMMA ListsOf ==
  ASSUME NEW s, Typed(s), NEW t \in Threads
  PROVE  /\ \A h \in Heads : rt_list_remove(s, t).list[h] = RemoveFirst(s.list[h], t)
         /\ \A h \in Heads : rt_schedule_remove_thread(s, t).list[h] = RemoveFirst(s.list[h], t)
         /\ \A h \in Others : rt_schedule_insert_thread(s, t).list[h] = s.list[h]
<1>1. Shape(s) /\ s.list \in [Heads -> Seq(Threads)] /\ s.prio[t] \in Priorities
  BY DEF Typed
<1> DEFINE o == rt_list_remove(s, t)
<1>2. Shape(o) /\ o.list = [h \in Heads |-> RemoveFirst(s.list[h], t)]
  BY <1>1, RemoveIs DEF Changes
<1>3. \A h \in Heads : rt_schedule_remove_thread(s, t).list[h] = o.list[h]
  <2> DEFINE p == s.prio[t]
  <2>1. rt_schedule_remove_thread(s, t) = IF o.list[p] = <<>> THEN [o EXCEPT !.group = @ \ {p}] ELSE o
    BY DEF rt_schedule_remove_thread
  <2> HIDE DEF o
  <2>2. [o EXCEPT !.group = @ \ {p}].list = o.list
    BY <1>2 DEF Shape, Fields
  <2> QED
    BY <2>1, <2>2
<1>4. ASSUME NEW h \in Others PROVE rt_schedule_insert_thread(s, t).list[h] = s.list[h]
  <2> DEFINE p == s.prio[t]
             q == [s EXCEPT !.stat[t] = "READY", !.group = @ \cup {p}]
  <2>1. rt_schedule_insert_thread(s, t) =
          IF t = s.cur THEN [s EXCEPT !.stat[t] = "RUNNING"]
          ELSE IF t \in s.yield THEN rt_list_insert_before(q, p, t) ELSE rt_list_insert_after(q, p, t)
    BY DEF rt_schedule_insert_thread
  <2>2. [s EXCEPT !.stat[t] = "RUNNING"].list = s.list
    BY <1>1 DEF Shape, Fields
  <2>3. q.list = s.list /\ Shape(q)
    BY <1>1 DEF Shape, Fields
  <2>4. h \in Heads /\ h # p
    BY <1>1 DEF Others
  <2> HIDE DEF q
  <2>5. rt_list_insert_before(q, p, t).list[h] = q.list[h]
    BY <1>1, <2>3, <2>4 DEF rt_list_insert_before, Shape, Fields
  <2>6. rt_list_insert_after(q, p, t).list[h] = q.list[h]
    BY <1>1, <2>3, <2>4 DEF rt_list_insert_after, Shape, Fields
  <2> QED
    BY <2>1, <2>2, <2>3, <2>5, <2>6
<1> QED
  BY <1>2, <1>3, <1>4

(* A list a thread is not on does not change when it is unlinked.          *)
LEMMA NotThere ==
  ASSUME NEW l \in Seq(Threads), NEW t, ~On(t, l)
  PROVE  RemoveFirst(l, t) = l
BY RemoveFirstIs DEF On

(* Only suspended threads wait.                                            *)
LEMMA WaitersSuspended ==
  ASSUME NEW s, Sound(s), NEW t \in Threads, NEW o \in Objects, s.stat[t] # "SUSPEND"
  PROVE  /\ ~On(t, s.list[o]) /\ s.list[o] \in Seq(Threads)
         /\ RemoveFirst(s.list[o], t) = s.list[o]
<1>1. ~On(t, s.list[o]) /\ s.list[o] \in Seq(Threads)
  BY HeadsAre DEF Sound, Typed, Placed
<1> QED
  BY <1>1, NotThere

(* rt_thread_resume unlinks the thread from the object it waits for and    *)
(* stops its timer.                                                        *)
LEMMA ResumedLists ==
  ASSUME NEW s, Inv(s), NEW t \in Threads, s.stat[t] = "SUSPEND"
  PROVE  LET r == rt_thread_resume(s, t) IN
         /\ \A h \in Others : r.list[h] = RemoveFirst(s.list[h], t)
         /\ r.timer = s.timer \ {t}
<1> DEFINE o == rt_list_remove(s, t)
           q == [o EXCEPT !.timer = o.timer \ {t}]
           r == rt_schedule_insert_thread(q, t)
<1>1. Typed(s)
  BY DEF Inv, Sound
<1>2. Changes(s, o, {"list"}) /\ Typed(o)
  BY <1>1, Unlinks
<1>3. \A h \in Heads : o.list[h] = RemoveFirst(s.list[h], t)
  BY <1>1, ListsOf
<1>4. rt_thread_resume(s, t) = r
  <2>1. rt_thread_resume(s, t) = rt_schedule_insert_thread([o EXCEPT !.timer = @ \ {t}], t)
    BY DEF rt_thread_resume
  <2> HIDE DEF o
  <2>2. [o EXCEPT !.timer = @ \ {t}] = q
    BY <1>2 DEF Typed, Shape, Fields
  <2> QED
    BY <2>1, <2>2
<1> HIDE DEF o
<1>5. o.timer = s.timer /\ o.timer \ {t} \in SUBSET Threads
  <2>1. "timer" \notin {"list"}
    OBVIOUS
  <2> QED
    BY <1>1, <1>2, <2>1, Kept DEF Typed
<1>6. Typed(q) /\ Changes(o, q, {"timer"})
  BY <1>2, <1>5, FieldsSet
<1>7. q.timer = s.timer \ {t} /\ q.list = o.list
  BY <1>2, <1>5 DEF Typed, Shape, Fields
<1> HIDE DEF q
<1>8. \A h \in Others : r.list[h] = q.list[h]
  BY <1>6, ListsOf
<1>9. r.timer = q.timer
  BY <1>6 DEF rt_schedule_insert_thread, rt_list_insert_before, rt_list_insert_after, Typed, Shape, Fields
<1> QED
  BY <1>3, <1>4, <1>7, <1>8, <1>9 DEF Others

(* rt_thread_suspend leaves the waiting lists alone and stops the timer.   *)
LEMMA SuspendedLists ==
  ASSUME NEW s, Inv(s), NEW t \in Threads, s.stat[t] \in {"READY", "RUNNING"}
  PROVE  LET r == rt_thread_suspend(s, t) IN
         /\ \A o \in Objects : r.list[o] = s.list[o]
         /\ r.timer = s.timer \ {t}
<1> DEFINE o == rt_schedule_remove_thread(s, t)
           r == rt_thread_suspend(s, t)
<1>1. Typed(s) /\ Sound(s)
  BY DEF Inv, Sound
<1>2. Changes(s, o, {"list", "group"}) /\ Typed(o)
  BY <1>1, RemovedFromReady DEF SoundBut
<1>3. \A h \in Heads : o.list[h] = RemoveFirst(s.list[h], t)
  BY <1>1, ListsOf
<1>4. r = [o EXCEPT !.stat[t] = "SUSPEND", !.timer = @ \ {t}]
  BY DEF rt_thread_suspend
<1> HIDE DEF o, r
<1>5. r.list = o.list /\ r.timer = o.timer \ {t}
  BY <1>2, <1>4 DEF Typed, Shape, Fields
<1>6. o.timer = s.timer
  <2>1. "timer" \notin {"list", "group"}
    OBVIOUS
  <2> QED
    BY <1>1, <1>2, <2>1, Kept DEF Typed
<1>7. \A h \in Objects : RemoveFirst(s.list[h], t) = s.list[h]
  BY <1>1, WaitersSuspended
<1> QED
  BY <1>3, <1>5, <1>6, <1>7, HeadsAre DEF r

(* A thread that is closed leaves the object it waits for; its timer       *)
(* stops.                                                                  *)
LEMMA ClosedLists ==
  ASSUME NEW s, Inv(s), NEW t \in Threads
  PROVE  LET r == Close(s, t) IN
         /\ \A h \in Objects : r.list[h] = RemoveFirst(s.list[h], t)
         /\ r.timer = s.timer \ {t}
<1> DEFINE o == IF s.stat[t] = "INIT" THEN s ELSE rt_schedule_remove_thread(s, t)
           r == Close(s, t)
<1>1. Typed(s) /\ Sound(s)
  BY DEF Inv, Sound
<1>2. /\ Typed(o) /\ o.timer = s.timer
      /\ \A h \in Objects : o.list[h] = RemoveFirst(s.list[h], t)
  <2>1. CASE s.stat[t] = "INIT"
    BY <1>1, <2>1, WaitersSuspended
  <2>2. CASE s.stat[t] # "INIT"
    <3> DEFINE q == rt_schedule_remove_thread(s, t)
    <3>1. Changes(s, q, {"list", "group"}) /\ Typed(q)
      BY <1>1, RemovedFromReady DEF SoundBut
    <3>2. \A h \in Heads : q.list[h] = RemoveFirst(s.list[h], t)
      BY <1>1, ListsOf
    <3> HIDE DEF q
    <3>3. q.timer = s.timer
      <4>1. "timer" \notin {"list", "group"}
        OBVIOUS
      <4> QED
        BY <1>1, <3>1, <4>1, Kept DEF Typed
    <3> QED
      BY <2>2, <3>1, <3>2, <3>3, HeadsAre DEF q
  <2> QED
    BY <2>1, <2>2
<1>3. r = [o EXCEPT !.stat[t] = "CLOSE", !.yield = @ \ {t}, !.timer = @ \ {t}]
  BY DEF Close
<1> HIDE DEF o, r
<1>4. r.list = o.list /\ r.timer = o.timer \ {t}
  BY <1>2, <1>3 DEF Typed, Shape, Fields
<1> QED
  BY <1>2, <1>4 DEF r

(* A change of priority leaves the waiting lists alone.                    *)
LEMMA PriorityLists ==
  ASSUME NEW s, Inv(s), NEW t \in Threads, NEW p \in Priorities
  PROVE  \A o \in Objects : ChangePriority(s, t, p).list[o] = s.list[o]
<1>1. Typed(s) /\ Sound(s)
  BY DEF Inv, Sound
<1>2. CASE s.stat[t] = "READY"
  <2> DEFINE o == rt_schedule_remove_thread(s, t)
             q == [o EXCEPT !.prio[t] = p]
  <2>1. ChangePriority(s, t, p) = rt_schedule_insert_thread(q, t)
    BY <1>2 DEF ChangePriority
  <2>2. Typed(o)
    BY <1>1, RemovedFromReady DEF SoundBut
  <2>3. \A h \in Heads : o.list[h] = RemoveFirst(s.list[h], t)
    BY <1>1, ListsOf
  <2> HIDE DEF o
  <2>4. Typed(q) /\ Changes(o, q, {"prio"})
    BY <2>2, PrioSet
  <2> HIDE DEF q
  <2>7. q.list = o.list
    <3>1. "list" \notin {"prio"}
      OBVIOUS
    <3> QED
      BY <2>2, <2>4, <3>1, Kept DEF Typed
  <2>5. \A h \in Others : rt_schedule_insert_thread(q, t).list[h] = q.list[h]
    BY <2>4, ListsOf
  <2>6. \A h \in Objects : RemoveFirst(s.list[h], t) = s.list[h]
    BY <1>1, <1>2, WaitersSuspended
  <2> QED
    BY <2>1, <2>3, <2>5, <2>6, <2>7, HeadsAre DEF Others
<1>3. CASE s.stat[t] # "READY"
  BY <1>1, <1>3 DEF ChangePriority, Typed, Shape, Fields
<1> QED
  BY <1>2, <1>3

(* A list is in the order of the priorities f.                             *)
Sorted(f, l) == \A i, j \in 1 .. Len(l) : i < j => f[l[i]] <= f[l[j]]

(* Taking an entry out keeps the order.                                    *)
LEMMA SortedWithout ==
  ASSUME NEW l \in Seq(Threads), NEW t, NEW f, Sorted(f, l)
  PROVE  Sorted(f, RemoveFirst(l, t))
<1> DEFINE r == RemoveFirst(l, t)
<1>1. CASE r = l
  BY <1>1
<1>2. ASSUME NEW i \in 1 .. Len(l), r = RemoveAt(l, i) PROVE Sorted(f, r)
  <2> HIDE DEF r
  <2>1. r \in Seq(Threads) /\ Len(r) = Len(l) - 1 /\ \A j \in 1 .. Len(l) - 1 : r[j] = IF j < i THEN l[j] ELSE l[j + 1]
    BY <1>2, RemoveAtIs
  <2>2. SUFFICES ASSUME NEW m \in 1 .. Len(r), NEW n \in 1 .. Len(r), m < n PROVE f[r[m]] <= f[r[n]]
    BY DEF Sorted
  <2> DEFINE p(j) == IF j < i THEN j ELSE j + 1
  <2>3. p(m) \in 1 .. Len(l) /\ p(n) \in 1 .. Len(l) /\ p(m) < p(n) /\ r[m] = l[p(m)] /\ r[n] = l[p(n)]
    BY <2>1, <2>2
  <2> HIDE DEF p
  <2> QED
    BY <2>3 DEF Sorted
<1> QED
  BY <1>1, <1>2, RemoveFirstIs

(* A sequence with an entry put in at place i.                             *)
LEMMA InsertAtIs ==
  ASSUME NEW T, NEW l \in Seq(T), NEW i \in 1 .. Len(l) + 1, NEW t \in T
  PROVE  LET r == InsertAt(l, i, t) IN
         /\ r \in Seq(T) /\ Len(r) = Len(l) + 1
         /\ \A j \in 1 .. Len(r) : r[j] = IF j < i THEN l[j] ELSE IF j = i THEN t ELSE l[j - 1]
<1> DEFINE a == SubSeq(l, 1, i - 1)
           b == SubSeq(l, i, Len(l))
           c == a \o <<t>>
           r == c \o b
<1>1. a \in Seq(T) /\ Len(a) = i - 1 /\ \A j \in 1 .. i - 1 : a[j] = l[j]
  OBVIOUS
<1>2. b \in Seq(T) /\ Len(b) = Len(l) - i + 1 /\ \A j \in 1 .. Len(l) - i + 1 : b[j] = l[i + j - 1]
  OBVIOUS
<1> HIDE DEF a, b
<1>3. c \in Seq(T) /\ Len(c) = i /\ \A j \in 1 .. i : c[j] = IF j = i THEN t ELSE l[j]
  BY <1>1
<1> HIDE DEF c
<1>4. r \in Seq(T) /\ Len(r) = Len(l) + 1
  <2>1. r \in Seq(T)
    BY <1>2, <1>3
  <2>2. Len(r) = Len(c) + Len(b)
    BY <1>2, <1>3, ConcatProperties
  <2> QED
    BY <1>2, <1>3, <2>1, <2>2
<1>5. ASSUME NEW j \in 1 .. Len(r) PROVE r[j] = IF j < i THEN l[j] ELSE IF j = i THEN t ELSE l[j - 1]
  <2>1. r[j] = IF j <= Len(c) THEN c[j] ELSE b[j - Len(c)]
    BY <1>2, <1>3, <1>4
  <2>2. CASE j <= i
    BY <1>3, <2>1, <2>2
  <2>3. CASE j > i
    <3>1. j - i \in 1 .. Len(l) - i + 1
      BY <1>4, <2>3
    <3>2. b[j - i] = l[i + (j - i) - 1]
      BY <1>2, <3>1
    <3>3. i + (j - i) - 1 = j - 1
      OBVIOUS
    <3>4. r[j] = b[j - i]
      BY <1>3, <2>1, <2>3
    <3> QED
      BY <2>3, <3>2, <3>3, <3>4
  <2> QED
    BY <2>2, <2>3
<1>6. InsertAt(l, i, t) = r
  BY DEF InsertAt, r, c, a, b
<1> QED
  BY <1>4, <1>5, <1>6

(* The new entry is on the list, the others stay.                          *)
LEMMA Inserted ==
  ASSUME NEW T, NEW l \in Seq(T), NEW i \in 1 .. Len(l) + 1, NEW t \in T, Distinct(l), ~On(t, l)
  PROVE  LET r == InsertAt(l, i, t) IN
         r \in Seq(T) /\ Distinct(r) /\ \A u : On(u, r) <=> u = t \/ On(u, l)
<1> DEFINE r == InsertAt(l, i, t)
<1>1. /\ r \in Seq(T) /\ Len(r) = Len(l) + 1
      /\ \A j \in 1 .. Len(r) : r[j] = IF j < i THEN l[j] ELSE IF j = i THEN t ELSE l[j - 1]
  <2>1. i \in 1 .. Len(l) + 1 /\ l \in Seq(T) /\ t \in T
    OBVIOUS
  <2>2. r = InsertAt(l, i, t)
    OBVIOUS
  <2> HIDE DEF r
  <2> QED
    BY <2>1, <2>2, InsertAtIs, SMTT(30)
<1> HIDE DEF r
<1> DEFINE p(j) == IF j < i THEN j ELSE j - 1
           q(j) == IF j < i THEN j ELSE j + 1
<1>2. \A j \in 1 .. Len(r) : j # i => p(j) \in 1 .. Len(l) /\ r[j] = l[p(j)]
  BY <1>1
<1>3. \A j, n \in 1 .. Len(r) : j # i /\ n # i /\ p(j) = p(n) => j = n
  OBVIOUS
<1>4. i \in 1 .. Len(r) /\ r[i] = t
  BY <1>1
<1>5. \A j \in 1 .. Len(l) : q(j) \in 1 .. Len(r) /\ r[q(j)] = l[j]
  BY <1>1
<1> HIDE DEF p, q
<1>6. Distinct(r)
  <2>1. SUFFICES ASSUME NEW j \in 1 .. Len(r), NEW n \in 1 .. Len(r), r[j] = r[n] PROVE j = n
    BY DEF Distinct
  <2>2. CASE j # i /\ n # i
    BY <1>2, <1>3, <2>1, <2>2 DEF Distinct
  <2>3. CASE j = i /\ n # i
    BY <1>2, <1>4, <2>1, <2>3 DEF On
  <2>4. CASE j # i /\ n = i
    BY <1>2, <1>4, <2>1, <2>4 DEF On
  <2> QED
    BY <2>2, <2>3, <2>4
<1>7. ASSUME NEW u, On(u, r) PROVE u = t \/ On(u, l)
  <2>1. PICK j \in 1 .. Len(r) : r[j] = u
    BY <1>7 DEF On
  <2> QED
    BY <1>2, <1>4, <2>1 DEF On
<1>8. ASSUME NEW u, u = t \/ On(u, l) PROVE On(u, r)
  <2>1. CASE u = t
    BY <1>4, <2>1 DEF On
  <2>2. CASE On(u, l)
    <3>1. PICK j \in 1 .. Len(l) : l[j] = u
      BY <2>2 DEF On
    <3> QED
      BY <1>5, <3>1 DEF On
  <2> QED
    BY <1>8, <2>1, <2>2
<1> QED
  BY <1>1, <1>6, <1>7, <1>8 DEF r

(* The place _ipc_list_suspend finds in a sorted list.                     *)
Place(f, l, t, fifo) ==
  LET behind == {i \in DOMAIN l : f[t] < f[l[i]]}
  IN IF fifo \/ behind = {} THEN Len(l) + 1 ELSE Min(behind)

(* It is a place of the list, and after insertion there the list is still  *)
(* sorted.                                                                 *)
LEMMA Placing ==
  ASSUME NEW l \in Seq(Threads), NEW t \in Threads, NEW f \in [Threads -> Int], NEW fifo \in BOOLEAN
  PROVE  /\ Place(f, l, t, fifo) \in 1 .. Len(l) + 1
         /\ ~fifo /\ Sorted(f, l) => Sorted(f, InsertAt(l, Place(f, l, t, fifo), t))
<1> DEFINE behind == {i \in DOMAIN l : f[t] < f[l[i]]}
           i == Place(f, l, t, fifo)
<1>1. behind \in SUBSET Nat /\ behind \subseteq 1 .. Len(l)
  OBVIOUS
<1>2. behind # {} => Min(behind) \in behind /\ \A y \in behind : Min(behind) <= y
  <2> HIDE DEF behind
  <2> QED
    BY <1>1, MinIs
<1>3. i = IF fifo \/ behind = {} THEN Len(l) + 1 ELSE Min(behind)
  BY DEF Place
<1>4. i \in 1 .. Len(l) + 1
  <2> HIDE DEF behind, i
  <2> QED
    BY <1>1, <1>2, <1>3
<1>5. ASSUME ~fifo, Sorted(f, l) PROVE Sorted(f, InsertAt(l, i, t))
  <2> DEFINE r == InsertAt(l, i, t)
  <2>0. \A j \in 1 .. Len(l) : l[j] \in Threads /\ f[l[j]] \in Int
    OBVIOUS
  <2>1. \A j \in 1 .. Len(l) : j < i => f[l[j]] <= f[t]
    <3>1. SUFFICES ASSUME NEW j \in 1 .. Len(l), j < i, ~(f[l[j]] <= f[t]) PROVE FALSE
      OBVIOUS
    <3>2. j \in behind
      BY <2>0, <3>1
    <3> HIDE DEF behind, i
    <3> QED
      BY <1>1, <1>2, <1>3, <1>4, <1>5, <3>1, <3>2, SMTT(30)
  <2>2. \A j \in 1 .. Len(l) : j >= i => f[t] <= f[l[j]]
    <3>1. SUFFICES ASSUME NEW j \in 1 .. Len(l), j >= i PROVE f[t] <= f[l[j]]
      OBVIOUS
    <3>2. i \in behind
      <4> HIDE DEF behind, i
      <4> QED
        BY <1>1, <1>2, <1>3, <1>4, <1>5, <3>1
    <3>3. i \in 1 .. Len(l) /\ f[t] < f[l[i]]
      BY <3>2
    <3>4. f[l[i]] <= f[l[j]]
      <4>1. CASE i = j
        BY <2>0, <3>3, <4>1
      <4>2. CASE i # j
        <5>1. i < j
          BY <1>4, <3>1, <4>2
        <5> HIDE DEF i, behind
        <5> QED
          BY <1>5, <3>3, <5>1 DEF Sorted
      <4> QED
        BY <4>1, <4>2
    <3> HIDE DEF i, behind
    <3> QED
      BY <2>0, <3>3, <3>4
  <2> HIDE DEF i, behind
  <2>3. /\ r \in Seq(Threads) /\ Len(r) = Len(l) + 1
        /\ \A j \in 1 .. Len(r) : r[j] = IF j < i THEN l[j] ELSE IF j = i THEN t ELSE l[j - 1]
    BY <1>4, InsertAtIs
  <2> HIDE DEF r
  <2>4. SUFFICES ASSUME NEW m \in 1 .. Len(r), NEW n \in 1 .. Len(r), m < n PROVE f[r[m]] <= f[r[n]]
    BY DEF Sorted, r
  <2>5. CASE n < i
    <3>1. m \in 1 .. Len(l) /\ n \in 1 .. Len(l) /\ r[m] = l[m] /\ r[n] = l[n]
      BY <1>4, <2>3, <2>4, <2>5, SMTT(30)
    <3> QED
      BY <1>5, <2>4, <3>1 DEF Sorted
  <2>6. CASE n = i
    <3>1. m \in 1 .. Len(l) /\ r[m] = l[m] /\ r[n] = t
      BY <1>4, <2>3, <2>4, <2>6
    <3> QED
      BY <2>1, <2>4, <2>6, <3>1
  <2>7. CASE m = i
    <3>1. n - 1 \in 1 .. Len(l) /\ n - 1 >= i /\ r[m] = t /\ r[n] = l[n - 1]
      BY <1>4, <2>3, <2>4, <2>7
    <3> QED
      BY <2>2, <3>1
  <2>8. CASE m < i /\ n > i
    <3>1. r[m] = l[m]
      BY <2>3, <2>8
    <3>2. r[n] = l[n - 1]
      BY <1>4, <2>3, <2>4, <2>8
    <3>3. m \in 1 .. Len(l) /\ n - 1 \in 1 .. Len(l) /\ n - 1 >= i
      BY <1>4, <2>3, <2>4, <2>8
    <3>4. f[l[m]] <= f[t]
      BY <2>1, <2>8, <3>3
    <3>5. f[t] <= f[l[n - 1]]
      BY <2>2, <3>3
    <3>6. f[l[m]] \in Int /\ f[t] \in Int /\ f[l[n - 1]] \in Int
      BY <2>0, <3>3
    <3> QED
      BY <3>1, <3>2, <3>4, <3>5, <3>6
  <2>9. CASE m > i
    <3>1. m - 1 \in 1 .. Len(l) /\ n - 1 \in 1 .. Len(l) /\ m - 1 < n - 1 /\ r[m] = l[m - 1] /\ r[n] = l[n - 1]
      BY <1>4, <2>3, <2>4, <2>9
    <3> QED
      BY <1>5, <3>1 DEF Sorted
  <2> QED
    BY <1>4, <2>4, <2>5, <2>6, <2>7, <2>8, <2>9
<1> QED
  BY <1>4, <1>5

(* The order depends on the priorities of the entries only.                *)
LEMMA SortedBy ==
  ASSUME NEW l \in Seq(Threads), NEW f, NEW g, Sorted(f, l), \A u \in Threads : On(u, l) => g[u] = f[u]
  PROVE  Sorted(g, l)
BY DEF Sorted, On

-----------------------------------------------------------------------------
(* The kernel with IPC objects (ipc.c).                                    *)

(* The fields of the IPC code.                                             *)
IpcFields == {"base", "err", "pend", "taken", "at", "value", "net", "owner", "hold", "mprio", "ceil",
              "got", "obj", "fault"}

(* What a thread's error can be.                                           *)
Errors == {"EOK", "EINTR", "ERROR", "ETIMEOUT"}

(* The condition of an object.                                             *)
Conditions == {"live", "detached", "freed"}

(* Their types.                                                            *)
IpcTyped(s) ==
  /\ IpcFields \subseteq DOMAIN s
  /\ s.base \in [Threads -> Priorities] /\ s.err \in [Threads -> Errors]
  /\ s.pend \in [Threads -> Mutexes \cup {NULL}] /\ s.taken \in [Threads -> SUBSET Mutexes]
  /\ s.at \in [Threads -> Objects \cup {NULL, Sleep}]
  /\ s.value \in [Sems -> 0 .. SemMax] /\ s.net \in [Sems -> Int]
  /\ s.owner \in [Mutexes -> Threads \cup {NULL}] /\ s.hold \in [Mutexes -> 0 .. HoldMax]
  /\ s.mprio \in [Mutexes -> 0 .. NoPrio] /\ s.ceil \in [Mutexes -> 0 .. NoPrio]
  /\ s.got \in [Mutexes -> [Threads -> Nat]] /\ s.obj \in [Objects -> Conditions]
  /\ s.fault \in BOOLEAN

(* Thread t is suspended in its take call on object o.                     *)
WaitsAt(s, t, o) == s.stat[t] = "SUSPEND" /\ s.at[t] = o

(* It is ready or runs.                                                    *)
Up(s, t) == s.stat[t] \in {"READY", "RUNNING"}

(* The waiting list of an object holds the threads suspended in a take     *)
(* call on it.                                                             *)
Queues(s) == \A t \in Threads, o \in Objects : On(t, s.list[o]) <=> WaitsAt(s, t, o)

(* The waiting list of a mutex is sorted by the current priorities.        *)
Ordered(s) == \A m \in Mutexes : Sorted(s.prio, s.list[m])

(* The part of the invariant about lists.                                  *)
Lists(s) == Inv(s) /\ IpcTyped(s) /\ Queues(s) /\ Ordered(s)

(* Only a thread that is alive has something to wait for or to own; only a *)
(* suspended one has a timer; nothing freed was read.                      *)
Threadly(s) ==
  /\ s.lock = 0 /\ ~s.fault
  /\ \A t \in Threads : s.at[t] # NULL \/ s.taken[t] # {} => s.stat[t] = "SUSPEND" \/ Up(s, t)
  /\ \A t \in s.timer : s.stat[t] = "SUSPEND"

(* What a thread has in pending_object: the mutex it waits for, which is   *)
(* there and has an owner, or one that was detached.                       *)
Pends(s) ==
  /\ \A m \in Mutexes : s.obj[m] # "freed"
  /\ \A t \in Threads : s.at[t] \in Mutexes => s.owner[s.at[t]] # NULL
  /\ \A t \in Threads, m \in Mutexes : WaitsAt(s, t, m) => s.pend[t] = m /\ s.obj[m] = "live"
  /\ \A t \in Threads : s.pend[t] # NULL /\ s.obj[s.pend[t]] # "detached" => WaitsAt(s, t, s.pend[t])

(* The threads woken with a token of o.                                    *)
Holders(s, o) == {t \in Threads : Granted(s, t, o)}

(* The count of a semaphore is what is left of the releases; nobody waits  *)
(* while it is positive; a waiter has no token.                            *)
TokenOf(s, o) ==
  /\ s.value[o] = s.net[o] - Cardinality(Holders(s, o))
  /\ s.value[o] > 0 => \A t \in Threads : ~WaitsAt(s, t, o)
  /\ \A t \in Threads : WaitsAt(s, t, o) => s.err[t] # "EOK"

(* So it is for every semaphore.                                           *)
Tokens(s) == \A o \in Sems : TokenOf(s, o)

(* What a thread got of a mutex that is there, and who owns it.            *)
OwnerOf(s, m) ==
  /\ \A t \in Threads :
       /\ s.got[m][t] + (IF Granted(s, t, m) THEN 1 ELSE 0) = IF s.owner[m] = t THEN s.hold[m] ELSE 0
       /\ m \in s.taken[t] <=> s.owner[m] = t
       /\ s.at[t] = m => s.err[t] = "EOK"
  /\ s.owner[m] = NULL => \A t \in Threads : ~WaitsAt(s, t, m)
  /\ s.owner[m] # NULL => s.hold[m] >= 1

(* A mutex that is not there is on no taken_object_list.                   *)
Owners(s) ==
  /\ \A m \in Mutexes : s.obj[m] = "live" => OwnerOf(s, m)
  /\ \A m \in Mutexes, t \in Threads : s.obj[m] # "live" => m \notin s.taken[t]

(* The parts about threads, semaphores and mutexes.                        *)
Books(s) == Threadly(s) /\ Pends(s) /\ Tokens(s) /\ Owners(s)

(* The fields a change leaves alone.                                       *)
LEMMA KeptIpc ==
  ASSUME NEW s, IpcFields \subseteq DOMAIN s, NEW r, NEW F, Changes(s, r, F)
  PROVE  /\ IpcFields \subseteq DOMAIN r
         /\ "base" \notin F => r.base = s.base
         /\ "err" \notin F => r.err = s.err
         /\ "pend" \notin F => r.pend = s.pend
         /\ "taken" \notin F => r.taken = s.taken
         /\ "at" \notin F => r.at = s.at
         /\ "value" \notin F => r.value = s.value
         /\ "net" \notin F => r.net = s.net
         /\ "owner" \notin F => r.owner = s.owner
         /\ "hold" \notin F => r.hold = s.hold
         /\ "mprio" \notin F => r.mprio = s.mprio
         /\ "ceil" \notin F => r.ceil = s.ceil
         /\ "got" \notin F => r.got = s.got
         /\ "obj" \notin F => r.obj = s.obj
         /\ "fault" \notin F => r.fault = s.fault
BY DEF Changes, IpcFields

(* All fields of the IPC code but the counts of priorities are the same.   *)
SameIpc(s, r) ==
  /\ r.base = s.base /\ r.err = s.err /\ r.pend = s.pend /\ r.taken = s.taken /\ r.at = s.at
  /\ r.value = s.value /\ r.net = s.net /\ r.owner = s.owner /\ r.hold = s.hold /\ r.ceil = s.ceil
  /\ r.got = s.got /\ r.obj = s.obj /\ r.fault = s.fault

(* The scheduler's functions know nothing of IPC objects.                  *)
LEMMA SchedulerOnly ==
  ASSUME NEW s, IpcTyped(s), NEW r, NEW F, Changes(s, r, F), F \cap IpcFields = {}
  PROVE  IpcTyped(r) /\ SameIpc(s, r) /\ r.mprio = s.mprio
<1>1. \A x \in IpcFields : x \notin F
  OBVIOUS
<1>2. "base" \notin F /\ "err" \notin F /\ "pend" \notin F /\ "taken" \notin F /\ "at" \notin F
      /\ "value" \notin F /\ "net" \notin F /\ "owner" \notin F /\ "hold" \notin F /\ "mprio" \notin F
      /\ "ceil" \notin F /\ "got" \notin F /\ "obj" \notin F /\ "fault" \notin F
  BY <1>1 DEF IpcFields
<1>3. IpcFields \subseteq DOMAIN r /\ SameIpc(s, r) /\ r.mprio = s.mprio
  BY <1>2, KeptIpc DEF IpcTyped, SameIpc
<1> QED
  BY <1>3 DEF IpcTyped, SameIpc

(* The IPC code's own assignments change none of the scheduler's fields.   *)
LEMMA IpcOnly ==
  ASSUME NEW s, Inv(s), NEW r, NEW F, Changes(s, r, F), F \cap Fields = {}
  PROVE  /\ Inv(r)
         /\ r.cur = s.cur /\ r.stat = s.stat /\ r.yield = s.yield /\ r.prio = s.prio /\ r.list = s.list
         /\ r.group = s.group /\ r.lock = s.lock /\ r.timer = s.timer
<1>1. \A x \in Fields : x \notin F
  OBVIOUS
<1>2. "cur" \notin F /\ "stat" \notin F /\ "yield" \notin F /\ "prio" \notin F /\ "list" \notin F
      /\ "group" \notin F /\ "lock" \notin F /\ "timer" \notin F
  BY <1>1 DEF Fields
<1>3. r.cur = s.cur /\ r.stat = s.stat /\ r.yield = s.yield /\ r.prio = s.prio /\ r.list = s.list
      /\ r.group = s.group /\ r.lock = s.lock /\ r.timer = s.timer
  BY <1>2, Kept DEF Inv, Sound, Typed
<1>4. Typed(r)
  BY <1>3 DEF Inv, Sound, Typed, Changes
<1>5. F \cap Fields \subseteq {"timer", "yield", "lock"}
  OBVIOUS
<1> QED
  BY <1>3, <1>4, <1>5, RunsAgain

(* The same threads wait, and the same are woken, for o.                   *)
SameAt(s, r, o) == \A t \in Threads :
  /\ r.at[t] = o <=> s.at[t] = o
  /\ WaitsAt(r, t, o) <=> WaitsAt(s, t, o)
  /\ Granted(r, t, o) <=> Granted(s, t, o)
  /\ r.at[t] = o => r.err[t] = s.err[t]

(* The counts of a semaphore depend on that only.                          *)
LEMMA TokenKept ==
  ASSUME NEW s, NEW r, NEW o, TokenOf(s, o), r.value[o] = s.value[o], r.net[o] = s.net[o], SameAt(s, r, o)
  PROVE  TokenOf(r, o)
<1>1. Holders(r, o) = Holders(s, o)
  BY DEF SameAt, Holders
<1>2. \A t \in Threads : WaitsAt(r, t, o) => WaitsAt(s, t, o) /\ r.err[t] = s.err[t]
  BY DEF SameAt, WaitsAt
<1> QED
  BY <1>1, <1>2 DEF TokenOf

(* Of all of them.                                                         *)
LEMMA TokensKept ==
  ASSUME NEW s, Tokens(s), NEW r, r.value = s.value, r.net = s.net, \A o \in Sems : SameAt(s, r, o)
  PROVE  Tokens(r)
BY TokenKept DEF Tokens

(* So do the books of a mutex.                                             *)
LEMMA OwnersKept ==
  ASSUME NEW s, Owners(s), NEW r, r.got = s.got, r.owner = s.owner, r.hold = s.hold, r.taken = s.taken,
         r.obj = s.obj, \A m \in Mutexes : SameAt(s, r, m)
  PROVE  Owners(r)
<1>1. ASSUME NEW m \in Mutexes, r.obj[m] = "live" PROVE OwnerOf(r, m)
  <2>1. OwnerOf(s, m) /\ SameAt(s, r, m)
    BY <1>1 DEF Owners
  <2> QED
    BY <2>1 DEF OwnerOf, SameAt
<1> QED
  BY <1>1 DEF Owners

(* And the pending objects.                                                *)
LEMMA PendsKept ==
  ASSUME NEW s, Pends(s), IpcTyped(s), NEW r, r.pend = s.pend, r.owner = s.owner, r.obj = s.obj,
         \A m \in Mutexes : SameAt(s, r, m)
  PROVE  Pends(r)
<1>1. \A t \in Threads : r.at[t] \in Mutexes => r.owner[r.at[t]] # NULL
  BY DEF Pends, SameAt
<1>2. \A t \in Threads, m \in Mutexes : WaitsAt(r, t, m) => r.pend[t] = m /\ r.obj[m] = "live"
  BY DEF Pends, SameAt
<1>3. ASSUME NEW t \in Threads, r.pend[t] # NULL, r.obj[r.pend[t]] # "detached" PROVE WaitsAt(r, t, r.pend[t])
  <2>1. WaitsAt(s, t, s.pend[t]) /\ s.pend[t] \in Mutexes
    BY <1>3 DEF Pends, IpcTyped
  <2>2. SameAt(s, r, s.pend[t])
    BY <2>1
  <2> QED
    BY <2>1, <2>2 DEF SameAt
<1> QED
  BY <1>1, <1>2, <1>3 DEF Pends

(* Every thread is alive, suspended or closed as before.                   *)
SameStat(s, r) == \A t \in Threads :
  (r.stat[t] = "SUSPEND" <=> s.stat[t] = "SUSPEND") /\ (Up(r, t) <=> Up(s, t))

(* Then no book is touched.                                                *)
LEMMA BooksKept ==
  ASSUME NEW s, Books(s), IpcTyped(s), NEW r, SameIpc(s, r), SameStat(s, r), r.lock = s.lock,
         s.timer \subseteq Threads, r.timer \subseteq s.timer
  PROVE  Books(r)
<1>1. \A o : SameAt(s, r, o)
  BY DEF SameIpc, SameStat, SameAt, WaitsAt, Granted, Up
<1>2. Tokens(r) /\ Owners(r) /\ Pends(r)
  BY <1>1, TokensKept, OwnersKept, PendsKept DEF Books, SameIpc
<1>3. Threadly(r)
  BY DEF Books, Threadly, SameIpc, SameStat
<1> QED
  BY <1>2, <1>3 DEF Books

(* rt_schedule keeps lists and books, and leaves the most urgent thread on *)
(* the processor.                                                          *)
LEMMA SchedulesAll ==
  ASSUME NEW s, Lists(s), Books(s)
  PROVE  LET r == rt_schedule(s) IN Lists(r) /\ Books(r) /\ Best(r)
<1> DEFINE r == rt_schedule(s)
<1>0. Inv(s) /\ Sound(s) /\ Typed(s) /\ Runs(s) /\ IpcTyped(s) /\ s.lock = 0 /\ s.cur \in Threads
      /\ s.stat \in [Threads -> Stats]
  BY DEF Lists, Books, Threadly, Inv, Sound, Typed
<1>1. /\ Inv(r) /\ Best(r) /\ Switch(s, r) /\ Changes(s, r, Rescheduled)
      /\ \A h \in Heads \ Priorities : r.list[h] = s.list[h]
  BY <1>0, Scheduled
<1> HIDE DEF r
<1>2. IpcTyped(r) /\ SameIpc(s, r)
  <2>1. Rescheduled \cap IpcFields = {}
    BY DEF Rescheduled, IpcFields
  <2> QED
    BY <1>0, <1>1, <2>1, SchedulerOnly
<1>3. r.prio = s.prio /\ r.lock = s.lock /\ r.timer = s.timer
  <2>1. "prio" \notin Rescheduled /\ "lock" \notin Rescheduled /\ "timer" \notin Rescheduled
    BY DEF Rescheduled
  <2> QED
    BY <1>0, <1>1, <2>1, Kept DEF Typed
<1>4. SameStat(s, r)
  <2>1. s.stat[s.cur] \in {"RUNNING", "SUSPEND", "CLOSE"}
    BY <1>0 DEF Runs
  <2>2. r.cur \in Threads
    BY <1>1 DEF Inv, Sound, Typed
  <2>3. ASSUME r.cur = s.cur, s.stat[s.cur] # "RUNNING" PROVE FALSE
    <3>1. CASE s.group = {}
      <4>1. r = s
        BY <3>1 DEF rt_schedule, r
      <4> QED
        BY <1>1, <2>3, <4>1 DEF Switch
    <3>2. CASE s.group # {}
      <4> DEFINE h == Min(s.group)
                 t == Head(s.list[h])
      <4>1. t \in Threads /\ s.stat[t] = "READY"
        BY <1>0, <3>2, ReadyBits
      <4>2. ~StaysOn(s, h)
        BY <2>3, SMTT(30) DEF StaysOn
      <4>3. r.cur = t
        <5> DEFINE chosen == [s EXCEPT !.yield = s.yield, !.cur = t]
        <5>1. r = [rt_schedule_remove_thread(chosen, t) EXCEPT !.stat[t] = "RUNNING"]
          BY <1>0, <2>3, <3>2, <4>2 DEF rt_schedule, r
        <5>2. Typed(chosen) /\ chosen.cur = t
          <6>1. s.yield \in SUBSET Threads
            BY <1>0 DEF Typed
          <6> QED
            BY <1>0, <4>1, <6>1, Chosen
        <5> HIDE DEF chosen
        <5>3. Shape(chosen)
          BY <5>2 DEF Typed
        <5> QED
          BY <5>1, <5>2, <5>3, ZenonT(40) DEF rt_schedule_remove_thread, rt_list_remove, Shape, Fields
      <4> QED
        BY <2>1, <2>3, <4>1, <4>3
    <3> QED
      BY <3>1, <3>2
  <2>4. ASSUME NEW t \in Threads PROVE (r.stat[t] = "SUSPEND" <=> s.stat[t] = "SUSPEND") /\ (Up(r, t) <=> Up(s, t))
    <3>1. CASE t = r.cur /\ t = s.cur
      BY <1>1, <2>3, <3>1 DEF Switch, Up
    <3>2. CASE t = r.cur /\ t # s.cur
      BY <1>1, <3>2 DEF Switch, Up
    <3>3. CASE t # r.cur /\ t = s.cur
      BY <1>1, <2>1, <3>3 DEF Switch, Up
    <3>4. CASE t # r.cur /\ t # s.cur
      BY <1>1, <3>4 DEF Switch, Up
    <3> QED
      BY <3>1, <3>2, <3>3, <3>4
  <2> QED
    BY <2>4 DEF SameStat
<1>5. \A o \in Objects : r.list[o] = s.list[o]
  BY <1>1, HeadsAre
<1>6. Queues(r) /\ Ordered(r)
  <2>1. Mutexes \subseteq Objects
    BY ObjectsAssumption
  <2> QED
    BY <1>2, <1>3, <1>4, <1>5, <2>1 DEF Lists, Queues, Ordered, WaitsAt, SameStat, SameIpc
<1>7. Books(r)
  BY <1>0, <1>2, <1>3, <1>4, BooksKept DEF Typed
<1> QED
  BY <1>1, <1>2, <1>6, <1>7 DEF Lists, r

(* An assignment of the IPC code keeps the lists, unless it says who       *)
(* waits.                                                                  *)
LEMMA ListsKept ==
  ASSUME NEW s, Lists(s), NEW r, IpcTyped(r), NEW F, Changes(s, r, F), F \cap Fields = {}, "at" \notin F
  PROVE  /\ Lists(r) /\ r.at = s.at
         /\ r.cur = s.cur /\ r.stat = s.stat /\ r.prio = s.prio /\ r.list = s.list
         /\ r.lock = s.lock /\ r.timer = s.timer /\ r.group = s.group /\ r.yield = s.yield
<1>1. /\ Inv(r) /\ r.cur = s.cur /\ r.stat = s.stat /\ r.prio = s.prio /\ r.list = s.list
      /\ r.lock = s.lock /\ r.timer = s.timer /\ r.group = s.group /\ r.yield = s.yield
  BY IpcOnly DEF Lists
<1>2. r.at = s.at
  BY KeptIpc DEF Lists, IpcTyped
<1> QED
  BY <1>1, <1>2 DEF Lists, Queues, Ordered, WaitsAt

(* A thread is linked in a waiting list.                                   *)
LEMMA WaiterLinked ==
  ASSUME NEW s, Inv(s), NEW t \in Threads, NEW o \in Objects, s.stat[t] = "SUSPEND", ~On(t, s.list[o]),
         NEW i \in 1 .. Len(s.list[o]) + 1
  PROVE  LET l == InsertAt(s.list[o], i, t)
             r == [s EXCEPT !.list[o] = l] IN
         /\ Inv(r) /\ Changes(s, r, {"list"})
         /\ \A u : On(u, r.list[o]) <=> u = t \/ On(u, s.list[o])
         /\ r.list[o] = l /\ \A h \in Heads \ {o} : r.list[h] = s.list[h]
<1> DEFINE l == InsertAt(s.list[o], i, t)
           r == [s EXCEPT !.list[o] = l]
<1>0. Typed(s) /\ Sound(s) /\ Runs(s) /\ o \in Heads /\ s.list[o] \in Seq(Threads) /\ Distinct(s.list[o])
      /\ s.list \in [Heads -> Seq(Threads)]
  BY HeadsAre DEF Inv, Sound, Typed
<1>1. l \in Seq(Threads) /\ Distinct(l) /\ \A u : On(u, l) <=> u = t \/ On(u, s.list[o])
  BY <1>0, Inserted
<1> HIDE DEF l
<1>2. Changes(s, r, {"list"}) /\ r.list = [s.list EXCEPT ![o] = l]
  BY <1>0 DEF Typed, Shape, Fields, Changes
<1> HIDE DEF r
<1>3. r.list[o] = l /\ \A h \in Heads \ {o} : r.list[h] = s.list[h]
  BY <1>0, <1>2
<1>4. r.cur = s.cur /\ r.stat = s.stat /\ r.yield = s.yield /\ r.prio = s.prio
      /\ r.group = s.group /\ r.lock = s.lock /\ r.timer = s.timer
  <2>1. "cur" \notin {"list"} /\ "stat" \notin {"list"} /\ "yield" \notin {"list"} /\ "prio" \notin {"list"}
        /\ "group" \notin {"list"} /\ "lock" \notin {"list"} /\ "timer" \notin {"list"}
    OBVIOUS
  <2> QED
    BY <1>0, <1>2, <2>1, Kept DEF Typed
<1>5. Typed(r)
  <2>1. r.list \in [Heads -> Seq(Threads)]
    BY <1>0, <1>1, <1>2
  <2>2. \A h \in Heads : Distinct(r.list[h])
    BY <1>0, <1>1, <1>3 DEF Typed
  <2> QED
    BY <1>0, <1>2, <1>4, <2>1, <2>2 DEF Typed, Changes
<1>6. \A h \in Priorities \cup {Defunct} : r.list[h] = s.list[h]
  BY <1>3, HeadsAre
<1>7. Bits(r)
  BY <1>0, <1>4, <1>6 DEF Sound, Bits
<1>8. ASSUME NEW u \in Threads PROVE Placed(r, u)
  <2>1. Placed(s, u)
    BY <1>0 DEF Sound
  <2>2. \A h \in Priorities \cup {Defunct} : On(u, r.list[h]) <=> Home(r, u, h)
    BY <1>4, <1>6, <2>1 DEF Placed, Home
  <2>3. ASSUME NEW h \in Objects, On(u, r.list[h]) PROVE r.stat[u] = "SUSPEND"
    <3>1. CASE h = o
      BY <1>1, <1>3, <1>4, <2>1, <2>3, <3>1 DEF Placed
    <3>2. CASE h # o
      BY <1>3, <1>4, <2>1, <2>3, <3>2, HeadsAre DEF Placed
    <3> QED
      BY <3>1, <3>2
  <2> QED
    BY <2>2, <2>3 DEF Placed
<1>9. Inv(r)
  BY <1>0, <1>4, <1>5, <1>7, <1>8 DEF Inv, Sound, Runs
<1> QED
  BY <1>1, <1>2, <1>3, <1>9 DEF r, l

(* _ipc_list_suspend: a thread that goes on, or is suspended already and   *)
(* in no waiting list, is linked in that of o, in order.                   *)
LEMMA ListSuspended ==
  ASSUME NEW s, Inv(s), NEW t \in Threads, NEW o \in Objects,
         (Up(s, t) /\ t # Idle) \/ s.stat[t] = "SUSPEND", ~On(t, s.list[o])
  PROVE  LET r == _ipc_list_suspend(s, o, t) IN
         /\ Inv(r) /\ Changes(s, r, {"stat", "group", "list", "timer"})
         /\ r.stat = [s.stat EXCEPT ![t] = "SUSPEND"] /\ r.timer \subseteq s.timer
         /\ \A u : On(u, r.list[o]) <=> u = t \/ On(u, s.list[o])
         /\ \A h \in Objects \ {o} : r.list[h] = s.list[h]
         /\ o \notin FifoSems /\ Sorted(s.prio, s.list[o]) => Sorted(s.prio, r.list[o])
<1> DEFINE out == rt_thread_suspend(s, t)
           r == _ipc_list_suspend(s, o, t)
           F == {"stat", "group", "list", "timer"}
<1>0. Typed(s) /\ Shape(s) /\ s.stat \in [Threads -> Stats] /\ s.prio \in [Threads -> Int]
      /\ s.list[o] \in Seq(Threads) /\ o \in Heads
  BY HeadsAre DEF Inv, Sound, Typed, Priorities
<1>1. /\ Inv(out) /\ Changes(s, out, F) /\ out.stat = [s.stat EXCEPT ![t] = "SUSPEND"]
      /\ out.timer \subseteq s.timer /\ \A h \in Objects : out.list[h] = s.list[h]
  <2>1. CASE s.stat[t] = "SUSPEND"
    <3>1. out = s
      BY <2>1 DEF rt_thread_suspend
    <3>2. s.stat = [s.stat EXCEPT ![t] = "SUSPEND"]
      BY <1>0, <2>1
    <3>3. Changes(s, s, F)
      BY <1>0 DEF Changes
    <3> QED
      BY <3>1, <3>2, <3>3
  <2>2. CASE Up(s, t) /\ t # Idle
    BY <2>2, Suspended, SuspendedLists DEF Up
  <2> QED
    BY <2>1, <2>2
<1> DEFINE l == s.list[o]
           i == Place(s.prio, l, t, o \in FifoSems)
<1>2. r = [out EXCEPT !.list[o] = InsertAt(out.list[o], i, t)]
  <2>1. out.list[o] = l
    BY <1>1
  <2> HIDE DEF out
  <2> QED
    BY <2>1 DEF _ipc_list_suspend, Place, out
<1>3. i \in 1 .. Len(l) + 1 /\ (o \notin FifoSems /\ Sorted(s.prio, l) => Sorted(s.prio, InsertAt(l, i, t)))
  <2>1. (o \in FifoSems) \in BOOLEAN
    OBVIOUS
  <2> HIDE DEF l
  <2> QED
    BY <1>0, <2>1, Placing DEF l
<1> HIDE DEF out, i, r
<1>4. out.list[o] = l /\ out.stat[t] = "SUSPEND" /\ ~On(t, out.list[o]) /\ i \in 1 .. Len(out.list[o]) + 1
  BY <1>0, <1>1, <1>3
<1>5. /\ Inv(r) /\ Changes(out, r, {"list"})
      /\ \A u : On(u, r.list[o]) <=> u = t \/ On(u, out.list[o])
      /\ r.list[o] = InsertAt(out.list[o], i, t) /\ \A h \in Heads \ {o} : r.list[h] = out.list[h]
  <2> HIDE DEF l, F
  <2> DEFINE x == [out EXCEPT !.list[o] = InsertAt(out.list[o], i, t)]
  <2>1. /\ Inv(x) /\ Changes(out, x, {"list"})
        /\ \A u : On(u, x.list[o]) <=> u = t \/ On(u, out.list[o])
        /\ x.list[o] = InsertAt(out.list[o], i, t) /\ \A h \in Heads \ {o} : x.list[h] = out.list[h]
    BY <1>1, <1>4, WaiterLinked, ZenonT(40)
  <2>2. r = x
    BY <1>2
  <2> QED
    BY <2>1, <2>2
<1>6. Changes(s, r, F \cup {"list"}) /\ F \cup {"list"} = F
  BY <1>1, <1>5, ChangesTwice
<1>7. r.stat = out.stat /\ r.timer = out.timer
  <2>1. "stat" \notin {"list"} /\ "timer" \notin {"list"}
    OBVIOUS
  <2> QED
    BY <1>1, <1>5, <2>1, Kept DEF Inv, Sound, Typed
<1>8. \A h \in Objects \ {o} : r.list[h] = s.list[h]
  BY <1>1, <1>5, HeadsAre
<1> QED
  BY <1>1, <1>3, <1>4, <1>5, <1>6, <1>7, <1>8, ZenonT(40) DEF r

(* rt_thread_resume takes a thread off the list it waits in; the others    *)
(* wait on.                                                                *)
LEMMA ResumesOne ==
  ASSUME NEW s, Lists(s), NEW t \in Threads, s.stat[t] = "SUSPEND"
  PROVE  LET r == rt_thread_resume(s, t) IN
         /\ Lists(r) /\ SameIpc(s, r) /\ r.mprio = s.mprio
         /\ r.cur = s.cur /\ r.lock = s.lock /\ r.prio = s.prio /\ r.timer = s.timer \ {t}
         /\ Up(r, t) /\ r.stat = [s.stat EXCEPT ![t] = r.stat[t]]
<1> DEFINE r == rt_thread_resume(s, t)
           F == {"stat", "group", "list", "timer"}
<1>0. Inv(s) /\ Typed(s) /\ IpcTyped(s) /\ s.stat \in [Threads -> Stats]
  BY DEF Lists, Inv, Sound, Typed
<1>1. /\ Inv(r) /\ Changes(s, r, F)
      /\ r.stat = [s.stat EXCEPT ![t] = IF t = s.cur THEN "RUNNING" ELSE "READY"]
  BY <1>0, Resumed
<1>2. (\A h \in Others : r.list[h] = RemoveFirst(s.list[h], t)) /\ r.timer = s.timer \ {t}
  BY <1>0, ResumedLists
<1> HIDE DEF r
<1>3. IpcTyped(r) /\ SameIpc(s, r) /\ r.mprio = s.mprio
  <2>1. F \cap IpcFields = {}
    BY DEF IpcFields
  <2> QED
    BY <1>0, <1>1, <2>1, SchedulerOnly
<1>4. r.cur = s.cur /\ r.lock = s.lock /\ r.prio = s.prio
  <2>1. "cur" \notin F /\ "lock" \notin F /\ "prio" \notin F
    OBVIOUS
  <2> QED
    BY <1>0, <1>1, <2>1, Kept DEF Typed
<1>5. Up(r, t) /\ r.stat = [s.stat EXCEPT ![t] = r.stat[t]]
  BY <1>0, <1>1 DEF Up
<1>6. ASSUME NEW o \in Objects
      PROVE  /\ r.list[o] = RemoveFirst(s.list[o], t)
             /\ \A u \in Threads : On(u, r.list[o]) <=> u # t /\ On(u, s.list[o])
  <2>1. s.list[o] \in Seq(Threads) /\ Distinct(s.list[o]) /\ o \in Others
    BY <1>0, HeadsAre DEF Typed, Others
  <2> QED
    BY <1>2, <2>1, Unlinked
<1>7. Queues(r)
  <2>1. ASSUME NEW u \in Threads, NEW o \in Objects PROVE On(u, r.list[o]) <=> WaitsAt(r, u, o)
    <3>1. On(u, s.list[o]) <=> WaitsAt(s, u, o)
      BY DEF Lists, Queues
    <3>2. CASE u = t
      BY <1>5, <1>6, <3>2 DEF WaitsAt, Up
    <3>3. CASE u # t
      BY <1>0, <1>3, <1>5, <1>6, <3>1, <3>3 DEF WaitsAt, SameIpc
    <3> QED
      BY <3>2, <3>3
  <2> QED
    BY <2>1 DEF Queues
<1>8. Ordered(r)
  <2>1. ASSUME NEW m \in Mutexes PROVE Sorted(r.prio, r.list[m])
    <3>1. m \in Objects /\ Sorted(s.prio, s.list[m])
      BY ObjectsAssumption DEF Lists, Ordered
    <3>2. s.list[m] \in Seq(Threads)
      BY <1>0, <3>1, HeadsAre DEF Typed
    <3> QED
      BY <1>4, <1>6, <3>1, <3>2, SortedWithout
  <2> QED
    BY <2>1 DEF Ordered
<1> QED
  BY <1>1, <1>2, <1>3, <1>4, <1>5, <1>7, <1>8 DEF Lists, r

(* Wait: the thread is suspended and waits for o; the others wait on.      *)
LEMMA WaitBegins ==
  ASSUME NEW s, Lists(s), NEW t \in Threads \ {Idle}, Up(s, t), NEW o \in Objects, NEW timed \in BOOLEAN
  PROVE  LET r == Wait(s, t, o, timed) IN
         /\ Lists(r) /\ Changes(s, r, {"stat", "group", "list", "timer", "at"})
         /\ r.stat = [s.stat EXCEPT ![t] = "SUSPEND"] /\ r.at = [s.at EXCEPT ![t] = o]
         /\ r.timer \subseteq s.timer \cup {t} /\ (~timed => r.timer \subseteq s.timer)
<1> DEFINE q == _ipc_list_suspend(s, o, t)
           r == Wait(s, t, o, timed)
           F == {"stat", "group", "list", "timer"}
<1>0. Inv(s) /\ Typed(s) /\ IpcTyped(s) /\ s.stat \in [Threads -> Stats] /\ ~On(t, s.list[o])
      /\ s.at \in [Threads -> Objects \cup {NULL, Sleep}]
  BY DEF Lists, Inv, Sound, Typed, Queues, WaitsAt, Up, IpcTyped
<1>1. /\ Inv(q) /\ Changes(s, q, F)
      /\ q.stat = [s.stat EXCEPT ![t] = "SUSPEND"] /\ q.timer \subseteq s.timer
      /\ \A u : On(u, q.list[o]) <=> u = t \/ On(u, s.list[o])
      /\ \A h \in Objects \ {o} : q.list[h] = s.list[h]
      /\ o \notin FifoSems /\ Sorted(s.prio, s.list[o]) => Sorted(s.prio, q.list[o])
  BY <1>0, ListSuspended
<1>2. r = [q EXCEPT !.at[t] = o, !.timer = IF timed THEN @ \cup {t} ELSE @]
  BY DEF Wait
<1> HIDE DEF q, r
<1>3. IpcTyped(q) /\ SameIpc(s, q)
  <2>1. F \cap IpcFields = {}
    BY DEF IpcFields
  <2> QED
    BY <1>0, <1>1, <2>1, SchedulerOnly
<1>4. /\ Changes(q, r, {"at", "timer"}) /\ r.at = [q.at EXCEPT ![t] = o]
      /\ r.timer = IF timed THEN q.timer \cup {t} ELSE q.timer
  <2>1. Shape(q) /\ "at" \in DOMAIN q
    BY <1>1, <1>3 DEF Inv, Sound, Typed, IpcTyped, IpcFields
  <2> QED
    BY <1>2, <2>1 DEF Shape, Fields, Changes
<1>5. r.stat = q.stat /\ r.list = q.list /\ r.prio = q.prio /\ r.cur = q.cur /\ r.group = q.group
      /\ r.yield = q.yield /\ r.lock = q.lock
  <2>1. "stat" \notin {"at", "timer"} /\ "list" \notin {"at", "timer"} /\ "prio" \notin {"at", "timer"}
        /\ "cur" \notin {"at", "timer"} /\ "group" \notin {"at", "timer"} /\ "yield" \notin {"at", "timer"}
        /\ "lock" \notin {"at", "timer"}
    OBVIOUS
  <2> QED
    BY <1>1, <1>4, <2>1, Kept DEF Inv, Sound, Typed
<1>6. Typed(r)
  BY <1>1, <1>4, <1>5 DEF Inv, Sound, Typed, Changes
<1>7. Inv(r)
  <2>1. {"at", "timer"} \cap Fields \subseteq {"timer", "yield", "lock"}
    BY DEF Fields
  <2> QED
    BY <1>1, <1>4, <1>6, <2>1, RunsAgain
<1>8. IpcTyped(r)
  <2>1. "base" \notin {"at", "timer"} /\ "err" \notin {"at", "timer"} /\ "pend" \notin {"at", "timer"}
        /\ "taken" \notin {"at", "timer"} /\ "value" \notin {"at", "timer"} /\ "net" \notin {"at", "timer"}
        /\ "owner" \notin {"at", "timer"} /\ "hold" \notin {"at", "timer"} /\ "mprio" \notin {"at", "timer"}
        /\ "ceil" \notin {"at", "timer"} /\ "got" \notin {"at", "timer"} /\ "obj" \notin {"at", "timer"}
        /\ "fault" \notin {"at", "timer"}
    OBVIOUS
  <2>2. /\ IpcFields \subseteq DOMAIN r
        /\ r.base = q.base /\ r.err = q.err /\ r.pend = q.pend /\ r.taken = q.taken
        /\ r.value = q.value /\ r.net = q.net /\ r.owner = q.owner /\ r.hold = q.hold /\ r.mprio = q.mprio
        /\ r.ceil = q.ceil /\ r.got = q.got /\ r.obj = q.obj /\ r.fault = q.fault
    <3>1. IpcFields \subseteq DOMAIN q
      BY <1>3 DEF IpcTyped
    <3> QED
      BY <1>4, <2>1, <3>1, KeptIpc
  <2>3. r.at \in [Threads -> Objects \cup {NULL, Sleep}]
    BY <1>3, <1>4 DEF IpcTyped
  <2> QED
    BY <1>3, <2>2, <2>3 DEF IpcTyped
<1>9. r.at = [s.at EXCEPT ![t] = o] /\ r.stat = [s.stat EXCEPT ![t] = "SUSPEND"]
  BY <1>1, <1>3, <1>4, <1>5 DEF SameIpc
<1>10. Queues(r)
  <2>1. ASSUME NEW u \in Threads, NEW h \in Objects PROVE On(u, r.list[h]) <=> WaitsAt(r, u, h)
    <3>1. On(u, s.list[h]) <=> WaitsAt(s, u, h)
      BY DEF Lists, Queues
    <3>2. CASE h = o
      BY <1>0, <1>1, <1>5, <1>9, <3>1, <3>2 DEF WaitsAt
    <3>3. CASE h # o
      <4>1. r.list[h] = s.list[h]
        BY <1>1, <1>5, <3>3
      <4> QED
        BY <1>0, <1>9, <3>1, <3>3, <4>1 DEF WaitsAt, Up
    <3> QED
      BY <3>2, <3>3
  <2> QED
    BY <2>1 DEF Queues
<1>11. Ordered(r)
  <2>1. ASSUME NEW m \in Mutexes PROVE Sorted(r.prio, r.list[m])
    <3>1. m \in Objects /\ m \notin FifoSems /\ Sorted(s.prio, s.list[m])
      BY ObjectsAssumption DEF Lists, Ordered
    <3>2. r.prio = s.prio
      <4>1. "prio" \notin F
        OBVIOUS
      <4> QED
        BY <1>0, <1>1, <1>5, <4>1, Kept DEF Typed
    <3> QED
      BY <1>1, <1>5, <3>1, <3>2
  <2> QED
    BY <2>1 DEF Ordered
<1>12. Changes(s, r, {"stat", "group", "list", "timer", "at"})
  <2>1. Changes(s, r, F \cup {"at", "timer"})
    BY <1>1, <1>4, ChangesTwice
  <2>2. F \cup {"at", "timer"} = {"stat", "group", "list", "timer", "at"}
    OBVIOUS
  <2> QED
    BY <2>1, <2>2
<1>13. r.timer \subseteq s.timer \cup {t} /\ (~timed => r.timer \subseteq s.timer)
  BY <1>1, <1>4
<1> QED
  BY <1>7, <1>8, <1>9, <1>10, <1>11, <1>12, <1>13 DEF Lists, r

-----------------------------------------------------------------------------
(* Priority inheritance.                                                   *)

(* A thread that waits is in the list of a mutex that is there and has an  *)
(* owner; a pending_object that is not detached is where it waits.         *)
Chainable(s) ==
  /\ Lists(s)
  /\ \A m \in Mutexes : s.obj[m] # "freed"
  /\ \A t \in Threads, m \in Mutexes :
       WaitsAt(s, t, m) => s.pend[t] = m /\ s.obj[m] = "live" /\ s.owner[m] # NULL
  /\ \A t \in Threads :
       s.stat[t] = "SUSPEND" /\ s.pend[t] # NULL /\ s.obj[s.pend[t]] # "detached" => s.at[t] = s.pend[t]

(* What an update of priorities leaves: nothing but priorities and places  *)
(* in lists has changed.                                                   *)
Updated(s, r) ==
  /\ Chainable(r) /\ SameIpc(s, r) /\ r.stat = s.stat
  /\ r.cur = s.cur /\ r.lock = s.lock /\ r.timer \subseteq s.timer

(* One update follows the other.                                           *)
LEMMA UpdatedTwice ==
  ASSUME NEW s, NEW r, NEW q, Updated(s, r), Updated(r, q)
  PROVE  Updated(s, q)
BY DEF Updated, SameIpc

(* No update is one.                                                       *)
LEMMA UpdatedNot ==
  ASSUME NEW s, Chainable(s)
  PROVE  Updated(s, s)
BY DEF Updated, SameIpc

(* The pending objects need nothing but the threads that wait.             *)
LEMMA ChainableAgain ==
  ASSUME NEW s, Chainable(s), NEW r, Lists(r), SameIpc(s, r), r.stat = s.stat
  PROVE  Chainable(r)
BY DEF Chainable, SameIpc, WaitsAt

(* Mutexes are objects.                                                    *)
LEMMA MutexIs ==
  ASSUME NEW m \in Mutexes
  PROVE  m \in Objects /\ m \notin FifoSems /\ m \in Heads /\ m \notin Sems /\ m # NULL /\ m # Sleep
BY ObjectsAssumption, NullAssumption, HeadsAre

(* _mutex_update_priority sets the priority of the mutex.                  *)
LEMMA MutexPriority ==
  ASSUME NEW s, Lists(s), NEW m \in Mutexes
  PROVE  LET r == _mutex_update_priority(s, m) IN
         /\ Lists(r) /\ Changes(s, r, {"mprio"}) /\ SameIpc(s, r)
         /\ r.cur = s.cur /\ r.stat = s.stat /\ r.prio = s.prio /\ r.list = s.list
         /\ r.lock = s.lock /\ r.timer = s.timer
<1> DEFINE p == IF s.list[m] = <<>> THEN NoPrio ELSE s.prio[Head(s.list[m])]
           r == [s EXCEPT !.mprio[m] = p]
<1>0. Shape(s) /\ Typed(s) /\ IpcTyped(s)
  BY DEF Lists, Inv, Sound, Typed
<1>1. p \in 0 .. NoPrio
  <2>1. s.list[m] \in Seq(Threads) /\ s.prio \in [Threads -> Priorities]
    BY <1>0, MutexIs DEF Typed
  <2>2. CASE s.list[m] = <<>>
    BY <2>2, LevelsAssumption DEF NoPrio
  <2>3. CASE s.list[m] # <<>>
    <3>1. s.prio[Head(s.list[m])] \in Priorities
      BY <2>1, <2>3, First
    <3> QED
      BY <2>3, <3>1, LevelsAssumption DEF NoPrio, Priorities
  <2> QED
    BY <2>2, <2>3
<1>2. _mutex_update_priority(s, m) = r
  BY DEF _mutex_update_priority
<1> HIDE DEF p
<1>3. Changes(s, r, {"mprio"}) /\ r.mprio = [s.mprio EXCEPT ![m] = p]
  <2>1. "mprio" \in DOMAIN s
    BY <1>0 DEF IpcTyped, IpcFields
  <2> QED
    BY <1>0, <2>1 DEF Shape, Changes
<1> HIDE DEF r
<1>4. "base" \notin {"mprio"} /\ "err" \notin {"mprio"} /\ "pend" \notin {"mprio"} /\ "taken" \notin {"mprio"}
      /\ "at" \notin {"mprio"} /\ "value" \notin {"mprio"} /\ "net" \notin {"mprio"} /\ "owner" \notin {"mprio"}
      /\ "hold" \notin {"mprio"} /\ "ceil" \notin {"mprio"} /\ "got" \notin {"mprio"} /\ "obj" \notin {"mprio"}
      /\ "fault" \notin {"mprio"} /\ {"mprio"} \cap Fields = {}
  BY DEF Fields
<1>5. IpcFields \subseteq DOMAIN r /\ SameIpc(s, r)
  <2>1. IpcFields \subseteq DOMAIN s
    BY <1>0 DEF IpcTyped
  <2> QED
    BY <1>3, <1>4, <2>1, KeptIpc DEF SameIpc
<1>6. IpcTyped(r)
  <2>1. r.mprio \in [Mutexes -> 0 .. NoPrio]
    BY <1>0, <1>1, <1>3 DEF IpcTyped
  <2> QED
    BY <1>0, <1>5, <2>1 DEF IpcTyped, SameIpc
<1>7. /\ Lists(r) /\ r.cur = s.cur /\ r.stat = s.stat /\ r.prio = s.prio /\ r.list = s.list
      /\ r.lock = s.lock /\ r.timer = s.timer
  BY <1>3, <1>4, <1>6, ListsKept
<1> QED
  BY <1>2, <1>3, <1>5, <1>7 DEF r

(* The priority a thread should have is one.                               *)
LEMMA MutexPriorityIs ==
  ASSUME NEW s, IpcTyped(s), NEW t \in Threads
  PROVE  _thread_get_mutex_priority(s, t) \in Priorities
<1> DEFINE S == {s.base[t]} \cup {s.mprio[m] : m \in s.taken[t]} \cup {s.ceil[m] : m \in s.taken[t]}
<1>1. s.base[t] \in Priorities /\ s.taken[t] \subseteq Mutexes
  BY DEF IpcTyped
<1>2. \A m \in Mutexes : s.mprio[m] \in Nat /\ s.ceil[m] \in Nat
  BY DEF IpcTyped
<1>3. S \in SUBSET Nat /\ s.base[t] \in S
  BY <1>1, <1>2 DEF Priorities
<1>4. _thread_get_mutex_priority(s, t) = Min(S)
  BY DEF _thread_get_mutex_priority
<1> HIDE DEF S
<1>5. Min(S) \in S /\ Min(S) <= s.base[t]
  BY <1>3, MinIs
<1>6. Min(S) \in Nat
  BY <1>3, <1>5
<1> QED
  BY <1>1, <1>4, <1>5, <1>6, LevelsAssumption DEF Priorities

(* A suspended thread is taken off the list it waits in.                   *)
LEMMA WaiterUnlinked ==
  ASSUME NEW s, Inv(s), NEW t \in Threads, s.stat[t] \notin {"READY", "CLOSE"}
  PROVE  LET r == rt_list_remove(s, t) IN
         /\ Inv(r) /\ Changes(s, r, {"list"}) /\ r.stat = s.stat /\ r.prio = s.prio
         /\ \A h \in Heads : /\ r.list[h] = RemoveFirst(s.list[h], t) /\ ~On(t, r.list[h])
                             /\ \A u : u # t => (On(u, r.list[h]) <=> On(u, s.list[h]))
<1> DEFINE r == rt_list_remove(s, t)
<1>0. Sound(s) /\ Typed(s) /\ Runs(s)
  BY DEF Inv, Sound
<1>1. /\ Changes(s, r, {"list"}) /\ Typed(r)
      /\ \A h \in Heads : /\ ~On(t, r.list[h])
                          /\ \A u : u # t => (On(u, r.list[h]) <=> On(u, s.list[h]))
                          /\ ~On(t, s.list[h]) => r.list[h] = s.list[h]
  BY <1>0, Unlinks
<1>2. \A h \in Heads : r.list[h] = RemoveFirst(s.list[h], t)
  BY <1>0, ListsOf
<1> HIDE DEF r
<1>3. r.stat = s.stat /\ r.prio = s.prio /\ r.group = s.group /\ r.cur = s.cur
  <2>1. "stat" \notin {"list"} /\ "prio" \notin {"list"} /\ "group" \notin {"list"} /\ "cur" \notin {"list"}
    OBVIOUS
  <2> QED
    BY <1>0, <1>1, <2>1, Kept DEF Typed
<1>4. \A h \in Priorities \cup {Defunct} : ~On(t, s.list[h]) /\ r.list[h] = s.list[h]
  BY <1>0, <1>1, HeadsAre DEF Sound, Placed, Home
<1>5. Bits(r)
  BY <1>0, <1>3, <1>4 DEF Sound, Bits
<1>6. ASSUME NEW u \in Threads PROVE Placed(r, u)
  <2>1. Placed(s, u)
    BY <1>0 DEF Sound
  <2>2. \A h \in Priorities \cup {Defunct} : On(u, r.list[h]) <=> Home(r, u, h)
    BY <1>3, <1>4, <2>1 DEF Placed, Home
  <2>3. \A h \in Objects : On(u, r.list[h]) => r.stat[u] = "SUSPEND"
    BY <1>1, <1>3, <2>1, HeadsAre DEF Placed
  <2> QED
    BY <2>2, <2>3 DEF Placed
<1>7. Inv(r)
  BY <1>0, <1>1, <1>3, <1>5, <1>6 DEF Inv, Sound, Runs
<1> QED
  BY <1>1, <1>2, <1>3, <1>7 DEF r

(* One call of _thread_update_priority: the thread gets its priority, and  *)
(* if it waits for a mutex its place in the list; nothing freed is read.   *)
LEMMA UpdatesOne ==
  ASSUME NEW s, Chainable(s), NEW t \in Threads, NEW p \in Priorities
  PROVE  Updated(s, UpdateOne(s, t, p).s) /\ UpdateOne(s, t, p).next \in Threads \cup {NULL}
<1> DEFINE changed == ChangePriority(s, t, p)
           m == s.pend[t]
           cut == rt_list_remove(changed, t)
           put == _ipc_list_suspend(cut, m, t)
           moved == _mutex_update_priority(put, m)
           F == {"prio", "stat", "group", "list"}
<1>0. /\ Lists(s) /\ Inv(s) /\ Typed(s) /\ IpcTyped(s) /\ Queues(s) /\ Ordered(s)
      /\ s.stat \in [Threads -> Stats] /\ s.prio \in [Threads -> Priorities]
      /\ m \in Mutexes \cup {NULL} /\ s.owner \in [Mutexes -> Threads \cup {NULL}]
  BY DEF Chainable, Lists, Inv, Sound, Typed, IpcTyped
<1>1. /\ Inv(changed) /\ Changes(s, changed, F)
      /\ changed.stat = s.stat /\ changed.prio = [s.prio EXCEPT ![t] = p]
      /\ \A o \in Objects : changed.list[o] = s.list[o]
  BY <1>0, PriorityChanged, PriorityLists
<1>2. /\ IpcTyped(changed) /\ SameIpc(s, changed)
      /\ changed.cur = s.cur /\ changed.lock = s.lock /\ changed.timer = s.timer
  <2>1. F \cap IpcFields = {} /\ "cur" \notin F /\ "lock" \notin F /\ "timer" \notin F
    BY DEF IpcFields
  <2> HIDE DEF changed
  <2> QED
    BY <1>0, <1>1, <2>1, SchedulerOnly, Kept, ZenonT(40) DEF Typed
<1>3. Queues(changed)
  BY <1>0, <1>1, <1>2 DEF Queues, WaitsAt, SameIpc
<1>4. \A l \in Seq(Threads) : ~On(t, l) /\ Sorted(s.prio, l) => Sorted(changed.prio, l)
  <2>1. SUFFICES ASSUME NEW l \in Seq(Threads), ~On(t, l), Sorted(s.prio, l) PROVE Sorted(changed.prio, l)
    OBVIOUS
  <2>2. \A u \in Threads : On(u, l) => changed.prio[u] = s.prio[u]
    BY <1>0, <1>1, <2>1
  <2> QED
    BY <2>1, <2>2, SortedBy
<1>5. \A n \in Mutexes : s.list[n] \in Seq(Threads) /\ Sorted(s.prio, s.list[n])
  BY <1>0, MutexIs DEF Typed, Ordered
<1> DEFINE u == UpdateOne(s, t, p)
<1>6. CASE s.stat[t] # "SUSPEND" \/ m = NULL \/ s.obj[m] = "detached"
  <2>1. u = [s |-> changed, next |-> NULL]
    BY <1>6 DEF UpdateOne
  <2>2. \A n \in Mutexes : ~On(t, s.list[n])
    <3>1. SUFFICES ASSUME NEW n \in Mutexes, On(t, s.list[n]) PROVE FALSE
      OBVIOUS
    <3>2. WaitsAt(s, t, n)
      BY <1>0, <3>1, MutexIs DEF Queues
    <3>3. m = n /\ s.obj[n] = "live" /\ s.stat[t] = "SUSPEND"
      BY <3>2 DEF Chainable, WaitsAt
    <3> QED
      BY <1>6, <3>3, MutexIs
  <2> HIDE DEF changed, u
  <2>3. Ordered(changed)
    BY <1>1, <1>4, <1>5, <2>2, MutexIs DEF Ordered
  <2>4. Chainable(changed)
    BY <1>1, <1>2, <1>3, <2>3, ChainableAgain DEF Lists
  <2> QED
    BY <1>1, <1>2, <2>1, <2>4 DEF Updated, u
<1>7. CASE s.stat[t] = "SUSPEND" /\ m # NULL /\ s.obj[m] # "detached"
  <2>1. m \in Mutexes /\ WaitsAt(s, t, m) /\ s.obj[m] = "live" /\ s.owner[m] \in Threads
    BY <1>0, <1>7 DEF Chainable, WaitsAt
  <2>2. u = [s |-> moved, next |-> s.owner[m]]
    <3>1. s.owner[m] # NULL /\ s.obj[m] # "freed"
      BY <2>1 DEF Chainable
    <3> QED
      BY <1>7, <3>1 DEF UpdateOne
  <2>3. changed.stat[t] = "SUSPEND"
    BY <1>1, <1>7
  <2> HIDE DEF changed, u
  <2>4. /\ Inv(cut) /\ Changes(changed, cut, {"list"}) /\ cut.stat = changed.stat /\ cut.prio = changed.prio
        /\ \A h \in Heads : /\ cut.list[h] = RemoveFirst(changed.list[h], t) /\ ~On(t, cut.list[h])
                            /\ \A v : v # t => (On(v, cut.list[h]) <=> On(v, changed.list[h]))
    BY <1>1, <2>3, WaiterUnlinked
  <2>5. \A n \in Mutexes : cut.list[n] \in Seq(Threads) /\ Sorted(cut.prio, cut.list[n])
    <3>1. SUFFICES ASSUME NEW n \in Mutexes PROVE cut.list[n] \in Seq(Threads) /\ Sorted(cut.prio, cut.list[n])
      OBVIOUS
    <3>2. n \in Heads /\ n \in Objects
      BY MutexIs
    <3>3. cut.list[n] \in Seq(Threads)
      BY <2>4, <3>2 DEF Inv, Sound, Typed
    <3>4. cut.list[n] = RemoveFirst(s.list[n], t) /\ ~On(t, cut.list[n])
      BY <1>1, <2>4, <3>2
    <3>5. Sorted(s.prio, cut.list[n])
      BY <1>5, <3>4, SortedWithout
    <3> QED
      BY <1>4, <2>4, <3>3, <3>4, <3>5
  <2>6. /\ Inv(put) /\ Changes(cut, put, {"stat", "group", "list", "timer"})
        /\ put.stat = [cut.stat EXCEPT ![t] = "SUSPEND"] /\ put.timer \subseteq cut.timer
        /\ \A v : On(v, put.list[m]) <=> v = t \/ On(v, cut.list[m])
        /\ \A h \in Objects \ {m} : put.list[h] = cut.list[h]
        /\ m \notin FifoSems /\ Sorted(cut.prio, cut.list[m]) => Sorted(cut.prio, put.list[m])
    <3>1. m \in Objects /\ ~On(t, cut.list[m]) /\ cut.stat[t] = "SUSPEND"
      BY <2>1, <2>3, <2>4, MutexIs
    <3> HIDE DEF cut, m
    <3> QED
      BY <2>4, <3>1, ListSuspended
  <2> HIDE DEF cut, put
  <2>7. cut.cur = s.cur /\ cut.lock = s.lock /\ cut.timer = s.timer
    <3>1. "cur" \notin {"list"} /\ "lock" \notin {"list"} /\ "timer" \notin {"list"}
      OBVIOUS
    <3> QED
      BY <1>1, <1>2, <2>4, <3>1, Kept DEF Inv, Sound, Typed
  <2>8. put.cur = s.cur /\ put.lock = s.lock /\ put.prio = cut.prio
    <3> DEFINE G == {"stat", "group", "list", "timer"}
    <3>1. "cur" \notin G /\ "lock" \notin G /\ "prio" \notin G
      OBVIOUS
    <3>2. Shape(cut) /\ Changes(cut, put, G)
      BY <2>4, <2>6 DEF Inv, Sound, Typed
    <3> HIDE DEF G
    <3>3. put.cur = cut.cur /\ put.lock = cut.lock /\ put.prio = cut.prio
      BY <3>1, <3>2, Kept
    <3> QED
      BY <2>7, <3>3
  <2>9. IpcTyped(put) /\ SameIpc(s, put)
    <3>1. {"list"} \cap IpcFields = {} /\ {"stat", "group", "list", "timer"} \cap IpcFields = {}
      BY DEF IpcFields
    <3>2. IpcTyped(cut) /\ SameIpc(changed, cut)
      BY <1>2, <2>4, <3>1, SchedulerOnly
    <3>3. IpcTyped(put) /\ SameIpc(cut, put)
      BY <2>6, <3>1, <3>2, SchedulerOnly
    <3> QED
      BY <1>2, <3>2, <3>3 DEF SameIpc
  <2>10. put.stat = s.stat
    <3>1. cut.stat = s.stat /\ s.stat[t] = "SUSPEND"
      BY <1>1, <1>7, <2>4
    <3> QED
      BY <1>0, <2>6, <3>1
  <2>11. ASSUME NEW v \in Threads, NEW o \in Objects PROVE On(v, put.list[o]) <=> WaitsAt(put, v, o)
    <3>1. On(v, s.list[o]) <=> WaitsAt(s, v, o)
      BY <1>0 DEF Queues
    <3>2. WaitsAt(put, v, o) <=> WaitsAt(s, v, o)
      BY <2>9, <2>10 DEF WaitsAt, SameIpc
    <3>3. o \in Heads /\ changed.list[o] = s.list[o]
      BY <1>1, HeadsAre
    <3>4. On(v, cut.list[o]) <=> v # t /\ On(v, s.list[o])
      BY <2>4, <3>3
    <3>5. WaitsAt(s, t, o) <=> o = m
      BY <2>1 DEF WaitsAt
    <3>6. CASE o = m
      BY <2>6, <3>1, <3>2, <3>4, <3>5, <3>6
    <3>7. CASE o # m
      BY <2>6, <3>1, <3>2, <3>4, <3>5, <3>7
    <3> QED
      BY <3>6, <3>7
  <2>12. ASSUME NEW n \in Mutexes PROVE Sorted(put.prio, put.list[n])
    <3>1. CASE n = m
      BY <2>5, <2>6, <2>8, <3>1, MutexIs
    <3>2. CASE n # m
      <4>1. put.list[n] = cut.list[n]
        BY <2>6, <3>2, MutexIs
      <4> QED
        BY <2>5, <2>8, <4>1
    <3> QED
      BY <3>1, <3>2
  <2>13. Lists(put)
    BY <2>6, <2>9, <2>11, <2>12 DEF Lists, Queues, Ordered
  <2>14. /\ Lists(moved) /\ SameIpc(put, moved) /\ moved.cur = put.cur /\ moved.stat = put.stat
         /\ moved.lock = put.lock /\ moved.timer = put.timer
    BY <2>1, <2>13, MutexPriority
  <2> HIDE DEF moved
  <2>15. SameIpc(s, moved) /\ moved.stat = s.stat
    BY <2>9, <2>10, <2>14 DEF SameIpc
  <2>16. Chainable(moved)
    BY <2>14, <2>15, ChainableAgain
  <2>17. moved.timer \subseteq s.timer
    BY <2>6, <2>7, <2>14
  <2>18. Updated(s, moved)
    BY <2>8, <2>14, <2>15, <2>16, <2>17 DEF Updated
  <2> QED
    BY <2>1, <2>2, <2>18 DEF u
<1> QED
  BY <1>6, <1>7 DEF u

(* Counting from 0 to n reaches every number.                              *)
LEMMA UpTo ==
  ASSUME NEW n \in Nat, NEW T \in SUBSET (0 .. n), 0 \in T, \A i \in 1 .. n : i - 1 \in T => i \in T
  PROVE  \A i \in 0 .. n : i \in T
<1> DEFINE M == {i \in 0 .. n : i \notin T}
<1>1. SUFFICES ASSUME M # {} PROVE FALSE
  OBVIOUS
<1>2. M \in SUBSET Nat
  OBVIOUS
<1>3. PICK x \in M : \A y \in M : x <= y
  BY <1>1, <1>2, LeastNat
<1>4. x \in 1 .. n /\ x - 1 \in 0 .. n /\ x - 1 \notin M
  BY <1>3
<1> QED
  BY <1>3, <1>4

(* There are so many threads.                                              *)
LEMMA ThreadsFinite == IsFiniteSet(Threads) /\ 2 * Cardinality(Threads) \in Nat
<1>1. IsFiniteSet(Workers \cup {Main}) /\ IsFiniteSet((Workers \cup {Main}) \cup {Idle})
  BY WorkersAssumption, FS_AddElement
<1>2. (Workers \cup {Main}) \cup {Idle} = Threads
  BY DEF Threads
<1>3. IsFiniteSet(Threads)
  BY <1>1, <1>2
<1>4. Cardinality(Threads) \in Nat
  BY <1>3, FS_CardinalityType
<1> QED
  BY <1>3, <1>4

(* What the calls of _thread_update_priority hand on: the kernel, updated  *)
(* since s, and the next owner, if there is one.                           *)
Handed(s, acc) ==
  /\ acc = [s |-> acc.s, next |-> acc.next]
  /\ Updated(s, acc.s) /\ acc.next \in Threads \cup {NULL}

(* The result of one call has two parts.                                   *)
LEMMA OnePair ==
  ASSUME NEW s, NEW t, NEW p
  PROVE  LET u == UpdateOne(s, t, p) IN u = [s |-> u.s, next |-> u.next]
BY DEF UpdateOne

(* The call for the next owner.                                            *)
LEMMA UpdatesNext ==
  ASSUME NEW s, NEW acc, Handed(s, acc)
  PROVE  Handed(s, UpdateNext(acc))
<1> DEFINE q == _thread_get_mutex_priority(acc.s, acc.next)
           u == UpdateOne(acc.s, acc.next, q)
<1>1. acc = [s |-> acc.s, next |-> acc.next] /\ Updated(s, acc.s) /\ acc.next \in Threads \cup {NULL}
      /\ Chainable(acc.s)
  BY DEF Handed, Updated
<1>2. CASE acc.next = NULL
  BY <1>2 DEF UpdateNext
<1>3. CASE acc.next # NULL /\ q = acc.s.prio[acc.next]
  <2>1. UpdateNext(acc) = [acc EXCEPT !.next = NULL]
    BY <1>3 DEF UpdateNext
  <2>2. [acc EXCEPT !.next = NULL] = [s |-> acc.s, next |-> NULL]
    BY <1>1
  <2> QED
    BY <1>1, <2>1, <2>2 DEF Handed
<1>4. CASE acc.next # NULL /\ q # acc.s.prio[acc.next]
  <2>1. UpdateNext(acc) = u
    BY <1>4 DEF UpdateNext
  <2>2. acc.next \in Threads
    BY <1>1, <1>4
  <2>3. q \in Priorities
    <3>1. IpcTyped(acc.s)
      BY <1>1 DEF Chainable, Lists
    <3> QED
      BY <2>2, <3>1, MutexPriorityIs
  <2> HIDE DEF q
  <2>4. Updated(acc.s, u.s) /\ u.next \in Threads \cup {NULL}
    BY <1>1, <2>2, <2>3, UpdatesOne
  <2>5. u = [s |-> u.s, next |-> u.next]
    BY OnePair
  <2> HIDE DEF u
  <2>6. Updated(s, u.s)
    BY <1>1, <2>4, UpdatedTwice
  <2> QED
    BY <2>1, <2>4, <2>5, <2>6 DEF Handed
<1> QED
  BY <1>2, <1>3, <1>4

(* The calls of _thread_update_priority by itself.                         *)
ChainOf(s, t, p) == CHOOSE D : D = [i \in 0 .. 2 * Cardinality(Threads) |->
  IF i = 0 THEN UpdateOne(s, t, p) ELSE UpdateNext(D[i - 1])]

(* They are made one after the other.                                      *)
LEMMA ChainIs ==
  ASSUME NEW s, NEW t, NEW p
  PROVE  LET n == 2 * Cardinality(Threads)
             g == ChainOf(s, t, p) IN
         /\ g[0] = UpdateOne(s, t, p)
         /\ \A i \in 1 .. n : g[i] = UpdateNext(g[i - 1])
         /\ _thread_update_priority(s, t, p) = g[n].s
<1> DEFINE n == 2 * Cardinality(Threads)
           a == UpdateOne(s, t, p)
           Body(D) == [i \in 0 .. n |-> IF i = 0 THEN a ELSE UpdateNext(D[i - 1])]
           Loops(f, j) == f = [i \in 0 .. j |-> IF i = 0 THEN a ELSE UpdateNext(f[i - 1])]
           T == {j \in 0 .. n : \E f : Loops(f, j)}
           g == ChainOf(s, t, p)
<1>0. n \in Nat
  BY ThreadsFinite
<1> HIDE DEF n, a
<1>1. 0 \in T
  <2> DEFINE f == [i \in 0 .. 0 |-> a]
  <2>1. Loops(f, 0)
    OBVIOUS
  <2> HIDE DEF Loops
  <2> QED
    BY <1>0, <2>1
<1>2. ASSUME NEW j \in 1 .. n, j - 1 \in T PROVE j \in T
  <2>1. PICK f : Loops(f, j - 1)
    BY <1>2
  <2> DEFINE h == [i \in 0 .. j |-> IF i < j THEN f[i] ELSE UpdateNext(f[j - 1])]
  <2>2. f = [i \in 0 .. j - 1 |-> IF i = 0 THEN a ELSE UpdateNext(f[i - 1])]
    BY <2>1
  <2>3. \A i \in 0 .. j : h[i] = IF i = 0 THEN a ELSE UpdateNext(h[i - 1])
    <3> TAKE i \in 0 .. j
    <3>1. CASE i = 0
      <4>1. f[0] = a
        BY <2>2, <1>0
      <4> QED
        BY <3>1, <4>1, <1>0
    <3>2. CASE i # 0
      <4>1. i - 1 \in 0 .. j /\ i - 1 < j /\ h[i - 1] = f[i - 1]
        BY <3>2, <1>0
      <4>2. CASE i < j
        <5>1. i \in 0 .. j - 1
          BY <4>2, <1>0
        <5>2. f[i] = UpdateNext(f[i - 1])
          BY <2>2, <3>2, <5>1
        <5> QED
          BY <3>2, <4>1, <4>2, <5>2
      <4>3. CASE i = j
        BY <3>2, <4>1, <4>3
      <4> QED
        BY <4>2, <4>3, <1>0
    <3> QED
      BY <3>1, <3>2
  <2>4. Loops(h, j)
    <3>1. h = [i \in 0 .. j |-> h[i]]
      OBVIOUS
    <3> HIDE DEF h
    <3> QED
      BY <2>3, <3>1
  <2> HIDE DEF Loops, h
  <2>5. j \in 0 .. n
    BY <1>0
  <2> QED
    BY <2>4, <2>5
<1>3. n \in T
  <2>1. T \in SUBSET (0 .. n)
    OBVIOUS
  <2> HIDE DEF T
  <2>2. \A i \in 0 .. n : i \in T
    BY <1>0, <1>1, <1>2, <2>1, UpTo
  <2> QED
    BY <1>0, <2>2
<1>4. PICK f : Loops(f, n)
  BY <1>3
<1>5. f = Body(f)
  BY <1>4
<1>6. g = CHOOSE D : D = Body(D)
  BY DEF ChainOf, n, a
<1>7. _thread_update_priority(s, t, p) = g[n].s
  BY DEF _thread_update_priority, ChainOf, n
<1>8. g = Body(g)
  <2> HIDE DEF Body, g
  <2> QED
    BY <1>5, <1>6
<1>9. g[0] = a /\ \A i \in 1 .. n : g[i] = UpdateNext(g[i - 1])
  <2> HIDE DEF g
  <2> QED
    BY <1>0, <1>8
<1> QED
  BY <1>7, <1>9 DEF n, a

(* _thread_update_priority changes priorities and places in lists only.    *)
LEMMA Updates ==
  ASSUME NEW s, Chainable(s), NEW t \in Threads, NEW p \in Priorities
  PROVE  Updated(s, _thread_update_priority(s, t, p))
<1> DEFINE n == 2 * Cardinality(Threads)
           g == ChainOf(s, t, p)
           T == {i \in 0 .. n : Handed(s, g[i])}
<1>0. n \in Nat
  BY ThreadsFinite
<1>1. /\ g[0] = UpdateOne(s, t, p)
      /\ \A i \in 1 .. n : g[i] = UpdateNext(g[i - 1])
      /\ _thread_update_priority(s, t, p) = g[n].s
  BY ChainIs
<1> HIDE DEF n, g
<1>2. 0 \in T
  <2>1. Handed(s, UpdateOne(s, t, p))
    BY UpdatesOne, OnePair DEF Handed
  <2> QED
    BY <1>0, <1>1, <2>1
<1>3. ASSUME NEW i \in 1 .. n, i - 1 \in T PROVE i \in T
  <2>1. Handed(s, g[i - 1]) /\ g[i] = UpdateNext(g[i - 1])
    BY <1>1, <1>3
  <2>2. Handed(s, g[i])
    BY <2>1, UpdatesNext
  <2> QED
    BY <1>0, <2>2
<1>4. n \in T
  <2>1. T \in SUBSET (0 .. n)
    OBVIOUS
  <2> HIDE DEF T
  <2>2. \A i \in 0 .. n : i \in T
    BY <1>0, <1>2, <1>3, <2>1, UpTo
  <2> QED
    BY <1>0, <2>2
<1> QED
  BY <1>1, <1>4 DEF Handed

(* DropPriority reads no freed mutex and the owner of one that has one.    *)
LEMMA Drops ==
  ASSUME NEW s, Chainable(s), NEW m \in Mutexes, s.owner[m] # NULL, NEW t
  PROVE  Updated(s, DropPriority(s, m, t))
<1> DEFINE o == s.owner[m]
           out == _mutex_update_priority(s, m)
           q == _thread_get_mutex_priority(out, o)
<1>0. o \in Threads /\ Lists(s) /\ IpcTyped(s) /\ s.obj[m] # "freed"
  BY DEF Chainable, Lists, IpcTyped
<1>1. /\ Lists(out) /\ SameIpc(s, out) /\ out.cur = s.cur /\ out.stat = s.stat /\ out.lock = s.lock
      /\ out.timer = s.timer
  BY <1>0, MutexPriority
<1>2. DropPriority(s, m, t) = IF s.prio[o] = s.prio[t] /\ q # s.prio[o] THEN _thread_update_priority(out, o, q) ELSE out
  BY <1>0 DEF DropPriority
<1> HIDE DEF out
<1>3. Chainable(out) /\ Updated(s, out)
  BY <1>1, ChainableAgain DEF Updated
<1>4. q \in Priorities
  BY <1>0, <1>1, MutexPriorityIs DEF Lists
<1> HIDE DEF q, o
<1>5. Updated(out, _thread_update_priority(out, o, q))
  BY <1>0, <1>3, <1>4, Updates
<1> QED
  BY <1>2, <1>3, <1>5, UpdatedTwice

-----------------------------------------------------------------------------
(* Waking threads.                                                         *)

(* The types again after a change, if those of the changed fields hold.    *)
LEMMA IpcTypedAgain ==
  ASSUME NEW s, IpcTyped(s), NEW r, NEW F, Changes(s, r, F),
         "base" \in F => r.base \in [Threads -> Priorities],
         "err" \in F => r.err \in [Threads -> Errors],
         "pend" \in F => r.pend \in [Threads -> Mutexes \cup {NULL}],
         "taken" \in F => r.taken \in [Threads -> SUBSET Mutexes],
         "at" \in F => r.at \in [Threads -> Objects \cup {NULL, Sleep}],
         "value" \in F => r.value \in [Sems -> 0 .. SemMax],
         "net" \in F => r.net \in [Sems -> Int],
         "owner" \in F => r.owner \in [Mutexes -> Threads \cup {NULL}],
         "hold" \in F => r.hold \in [Mutexes -> 0 .. HoldMax],
         "mprio" \in F => r.mprio \in [Mutexes -> 0 .. NoPrio],
         "ceil" \in F => r.ceil \in [Mutexes -> 0 .. NoPrio],
         "got" \in F => r.got \in [Mutexes -> [Threads -> Nat]],
         "obj" \in F => r.obj \in [Objects -> Conditions],
         "fault" \in F => r.fault \in BOOLEAN
  PROVE  IpcTyped(r)
<1>1. IpcFields \subseteq DOMAIN s
  BY DEF IpcTyped
<1>2. IpcFields \subseteq DOMAIN r
  BY <1>1, KeptIpc
<1>3. /\ r.base \in [Threads -> Priorities] /\ r.err \in [Threads -> Errors]
      /\ r.pend \in [Threads -> Mutexes \cup {NULL}] /\ r.taken \in [Threads -> SUBSET Mutexes]
      /\ r.at \in [Threads -> Objects \cup {NULL, Sleep}] /\ r.value \in [Sems -> 0 .. SemMax]
      /\ r.net \in [Sems -> Int]
  BY <1>1, KeptIpc, SMTT(30) DEF IpcTyped
<1>4. /\ r.owner \in [Mutexes -> Threads \cup {NULL}] /\ r.hold \in [Mutexes -> 0 .. HoldMax]
      /\ r.mprio \in [Mutexes -> 0 .. NoPrio] /\ r.ceil \in [Mutexes -> 0 .. NoPrio]
      /\ r.got \in [Mutexes -> [Threads -> Nat]] /\ r.obj \in [Objects -> Conditions]
      /\ r.fault \in BOOLEAN
  BY <1>1, KeptIpc DEF IpcTyped
<1> QED
  BY <1>2, <1>3, <1>4 DEF IpcTyped

(* The books of the threads are the same but for their errors.             *)
SameBooks(s, r) ==
  /\ r.base = s.base /\ r.pend = s.pend /\ r.taken = s.taken /\ r.owner = s.owner /\ r.hold = s.hold
  /\ r.ceil = s.ceil /\ r.got = s.got /\ r.obj = s.obj /\ r.fault = s.fault

(* The error of a thread is set.                                           *)
LEMMA ErrorSet ==
  ASSUME NEW s, Lists(s), NEW t \in Threads, NEW e \in Errors
  PROVE  LET r == [s EXCEPT !.err[t] = e] IN
         /\ Lists(r) /\ Changes(s, r, {"err"}) /\ SameBooks(s, r) /\ r.err = [s.err EXCEPT ![t] = e] /\ r.at = s.at
         /\ r.value = s.value /\ r.net = s.net /\ r.mprio = s.mprio
         /\ r.cur = s.cur /\ r.stat = s.stat /\ r.prio = s.prio /\ r.list = s.list
         /\ r.lock = s.lock /\ r.timer = s.timer /\ r.group = s.group /\ r.yield = s.yield
<1> DEFINE r == [s EXCEPT !.err[t] = e]
           F == {"err"}
<1>0. Shape(s) /\ IpcTyped(s) /\ IpcFields \subseteq DOMAIN s
  BY DEF Lists, Inv, Sound, Typed, IpcTyped
<1>1. Changes(s, r, F) /\ r.err = [s.err EXCEPT ![t] = e]
  BY <1>0 DEF Shape, Changes, IpcFields
<1> HIDE DEF r
<1>2. /\ SameBooks(s, r) /\ r.at = s.at /\ r.value = s.value /\ r.net = s.net /\ r.mprio = s.mprio
  BY <1>0, <1>1, KeptIpc DEF SameBooks
<1>3. r.err \in [Threads -> Errors]
  BY <1>0, <1>1 DEF IpcTyped
<1>4. IpcTyped(r)
  BY <1>0, <1>1, <1>3, IpcTypedAgain
<1>5. F \cap Fields = {} /\ "at" \notin F
  BY DEF Fields
<1> HIDE DEF F
<1>6. /\ Lists(r) /\ r.cur = s.cur /\ r.stat = s.stat /\ r.prio = s.prio /\ r.list = s.list
      /\ r.lock = s.lock /\ r.timer = s.timer /\ r.group = s.group /\ r.yield = s.yield
  BY <1>1, <1>4, <1>5, ListsKept
<1> QED
  BY <1>1, <1>2, <1>6 DEF r, F

(* The threads of S, which were suspended, were woken; nothing else        *)
(* changed.                                                                *)
Woke(s, r, S) ==
  /\ Lists(r) /\ SameBooks(s, r) /\ r.at = s.at /\ r.value = s.value /\ r.net = s.net /\ r.mprio = s.mprio
  /\ r.cur = s.cur /\ r.lock = s.lock /\ r.prio = s.prio /\ r.timer = s.timer \ S
  /\ \A u \in S : u \in Threads /\ s.stat[u] = "SUSPEND" /\ Up(r, u)
  /\ \A u \in Threads \ S : r.stat[u] = s.stat[u] /\ r.err[u] = s.err[u]

(* One thread is woken with an error.                                      *)
LEMMA WakesOne ==
  ASSUME NEW s, Lists(s), NEW t \in Threads, s.stat[t] = "SUSPEND",
         NEW e \in Errors
  PROVE  LET r == rt_thread_resume([s EXCEPT !.err[t] = e], t) IN Woke(s, r, {t}) /\ r.err[t] = e
<1> DEFINE x == [s EXCEPT !.err[t] = e]
           r == rt_thread_resume(x, t)
<1>0. s.stat \in [Threads -> Stats] /\ s.err \in [Threads -> Errors]
  BY DEF Lists, Inv, Sound, Typed, IpcTyped
<1>1. /\ Lists(x) /\ SameBooks(s, x) /\ x.err = [s.err EXCEPT ![t] = e] /\ x.at = s.at
      /\ x.value = s.value /\ x.net = s.net /\ x.mprio = s.mprio
      /\ x.cur = s.cur /\ x.stat = s.stat /\ x.prio = s.prio /\ x.lock = s.lock /\ x.timer = s.timer
  <2>1. e \in Errors /\ t \in Threads /\ Lists(s)
    OBVIOUS
  <2> QED
    BY <2>1, ErrorSet, SMTT(30)
<1> HIDE DEF x
<1>a. x.stat[t] = "SUSPEND" /\ t \in Threads /\ Lists(x)
  BY <1>1
<1>2. /\ Lists(r) /\ SameIpc(x, r) /\ r.mprio = x.mprio
      /\ r.cur = x.cur /\ r.lock = x.lock /\ r.prio = x.prio /\ r.timer = x.timer \ {t}
      /\ Up(r, t) /\ r.stat = [x.stat EXCEPT ![t] = r.stat[t]]
  BY <1>a, ResumesOne
<1> HIDE DEF r
<1>3. r.err = [s.err EXCEPT ![t] = e] /\ r.at = s.at /\ SameBooks(s, r) /\ r.value = s.value /\ r.net = s.net
  BY <1>1, <1>2 DEF SameIpc, SameBooks
<1>4. r.err[t] = e /\ \A u \in Threads \ {t} : r.stat[u] = s.stat[u] /\ r.err[u] = s.err[u]
  BY <1>0, <1>1, <1>2, <1>3
<1>5. Woke(s, r, {t})
  BY <1>1, <1>2, <1>3, <1>4 DEF Woke
<1> QED
  BY <1>4, <1>5 DEF x, r

(* Then another one.                                                       *)
LEMMA WokeMore ==
  ASSUME NEW s, NEW q, NEW r, NEW S, NEW t, Woke(s, q, S), Woke(q, r, {t})
  PROVE  Woke(s, r, S \cup {t}) /\ t \notin S
<1>1. t \notin S
  BY DEF Woke, Up
<1>2. SameBooks(s, r) /\ r.timer = s.timer \ (S \cup {t})
  BY DEF Woke, SameBooks
<1>3. \A u \in S \cup {t} : u \in Threads /\ s.stat[u] = "SUSPEND" /\ Up(r, u)
  BY <1>1 DEF Woke, Up
<1>4. \A u \in Threads \ (S \cup {t}) : r.stat[u] = s.stat[u] /\ r.err[u] = s.err[u]
  BY DEF Woke
<1> QED
  BY <1>1, <1>2, <1>3, <1>4 DEF Woke

(* The turns of the loop of _ipc_list_resume_all.                          *)
WokenOf(s, o) == CHOOSE D : D = [i \in 0 .. Len(s.list[o]) |->
  IF i = 0 THEN s ELSE LET t == s.list[o][i] IN rt_thread_resume([D[i - 1] EXCEPT !.err[t] = "ERROR"], t)]

(* One turn.                                                               *)
WakeNext(q, t) == rt_thread_resume([q EXCEPT !.err[t] = "ERROR"], t)

(* They follow each other.                                                 *)
LEMMA WokenIs ==
  ASSUME NEW s, NEW o, Len(s.list[o]) \in Nat
  PROVE  LET n == Len(s.list[o])
             g == WokenOf(s, o) IN
         /\ g[0] = s
         /\ \A i \in 1 .. n : g[i] = WakeNext(g[i - 1], s.list[o][i])
         /\ _ipc_list_resume_all(s, o) = g[n]
<1> DEFINE n == Len(s.list[o])
           Step(q, i) == WakeNext(q, s.list[o][i])
           Body(D) == [i \in 0 .. n |-> IF i = 0 THEN s ELSE Step(D[i - 1], i)]
           Loops(f, j) == f = [i \in 0 .. j |-> IF i = 0 THEN s ELSE Step(f[i - 1], i)]
           T == {j \in 0 .. n : \E f : Loops(f, j)}
           g == WokenOf(s, o)
<1>6. g = CHOOSE D : D = Body(D)
  BY DEF WokenOf, WakeNext
<1>7. _ipc_list_resume_all(s, o) = g[n]
  BY DEF _ipc_list_resume_all, WokenOf
<1>0. n \in Nat
  OBVIOUS
<1> HIDE DEF n, Step
<1>1. 0 \in T
  <2> DEFINE f == [i \in 0 .. 0 |-> s]
  <2>1. Loops(f, 0)
    OBVIOUS
  <2> HIDE DEF Loops
  <2> QED
    BY <1>0, <2>1
<1>2. ASSUME NEW j \in 1 .. n, j - 1 \in T PROVE j \in T
  <2>1. PICK f : Loops(f, j - 1)
    BY <1>2
  <2> DEFINE h == [i \in 0 .. j |-> IF i < j THEN f[i] ELSE Step(f[j - 1], j)]
  <2>2. f = [i \in 0 .. j - 1 |-> IF i = 0 THEN s ELSE Step(f[i - 1], i)]
    BY <2>1
  <2>3. \A i \in 0 .. j : h[i] = IF i = 0 THEN s ELSE Step(h[i - 1], i)
    <3> TAKE i \in 0 .. j
    <3>1. CASE i = 0
      <4>1. f[0] = s
        BY <2>2, <1>0
      <4> QED
        BY <3>1, <4>1, <1>0
    <3>2. CASE i # 0
      <4>1. i - 1 \in 0 .. j /\ i - 1 < j /\ h[i - 1] = f[i - 1]
        BY <3>2, <1>0
      <4>2. CASE i < j
        <5>1. i \in 0 .. j - 1
          BY <4>2, <1>0
        <5>2. f[i] = Step(f[i - 1], i)
          BY <2>2, <3>2, <5>1
        <5> QED
          BY <3>2, <4>1, <4>2, <5>2
      <4>3. CASE i = j
        BY <3>2, <4>1, <4>3
      <4> QED
        BY <4>2, <4>3, <1>0
    <3> QED
      BY <3>1, <3>2
  <2>4. Loops(h, j)
    <3>1. h = [i \in 0 .. j |-> h[i]]
      OBVIOUS
    <3> HIDE DEF h
    <3> QED
      BY <2>3, <3>1
  <2> HIDE DEF Loops, h
  <2>5. j \in 0 .. n
    BY <1>0
  <2> QED
    BY <2>4, <2>5
<1>3. n \in T
  <2>1. T \in SUBSET (0 .. n)
    OBVIOUS
  <2> HIDE DEF T
  <2>2. \A i \in 0 .. n : i \in T
    BY <1>0, <1>1, <1>2, <2>1, UpTo
  <2> QED
    BY <1>0, <2>2
<1>4. PICK f : Loops(f, n)
  BY <1>3
<1>5. f = Body(f)
  BY <1>4
<1>8. g = Body(g)
  <2> HIDE DEF Body, g
  <2> QED
    BY <1>5, <1>6
<1>9. g[0] = s /\ \A i \in 1 .. n : g[i] = Step(g[i - 1], i)
  <2> HIDE DEF g
  <2> QED
    BY <1>0, <1>8
<1> QED
  BY <1>7, <1>9 DEF n, Step

(* _ipc_list_resume_all wakes every waiter of o with an error.             *)
LEMMA WakesAll ==
  ASSUME NEW s, Lists(s), NEW o \in Objects
  PROVE  LET r == _ipc_list_resume_all(s, o)
             S == {u \in Threads : WaitsAt(s, u, o)} IN
         Woke(s, r, S) /\ \A u \in S : r.err[u] = "ERROR"
<1> DEFINE l == s.list[o]
           n == Len(l)
           g == WokenOf(s, o)
           U(i) == {l[j] : j \in 1 .. i}
           Done(i) == Woke(s, g[i], U(i)) /\ \A u \in U(i) : g[i].err[u] = "ERROR"
           T == {i \in 0 .. n : Done(i)}
<1>0. l \in Seq(Threads) /\ n \in Nat /\ Distinct(l) /\ \A u \in Threads : On(u, l) <=> WaitsAt(s, u, o)
  BY HeadsAre DEF Lists, Inv, Sound, Typed, Queues
<1>1. /\ g[0] = s /\ \A i \in 1 .. n : g[i] = WakeNext(g[i - 1], l[i])
      /\ _ipc_list_resume_all(s, o) = g[n]
  BY <1>0, WokenIs
<1> HIDE DEF l, n, g
<1>2. 0 \in T
  <2>1. U(0) = {}
    OBVIOUS
  <2>2. Woke(s, s, {})
    BY DEF Woke, SameBooks
  <2>3. Done(0)
    <3> HIDE DEF U
    <3> QED
      BY <1>1, <2>1, <2>2
  <2>4. 0 \in 0 .. n
    BY <1>0
  <2> HIDE DEF Done
  <2> QED
    BY <2>3, <2>4
<1>3. ASSUME NEW i \in 1 .. n, i - 1 \in T PROVE i \in T
  <2>1. Done(i - 1) /\ g[i] = WakeNext(g[i - 1], l[i])
    BY <1>1, <1>3
  <2>2. l[i] \in Threads /\ i \in Nat
    BY <1>0 DEF n
  <2>3. U(i) = U(i - 1) \cup {l[i]}
    BY <1>0, <2>2
  <2>4. l[i] \notin U(i - 1)
    BY <1>0, <2>2 DEF Distinct, n
  <2>5. s.stat[l[i]] = "SUSPEND"
    <3>1. On(l[i], l)
      BY <1>0, <2>2 DEF On, n
    <3> QED
      BY <1>0, <2>2, <3>1 DEF WaitsAt
  <2> HIDE DEF U
  <2>6. Lists(g[i - 1]) /\ g[i - 1].stat[l[i]] = "SUSPEND"
    BY <2>1, <2>2, <2>4, <2>5 DEF Woke
  <2>7. Woke(g[i - 1], g[i], {l[i]}) /\ g[i].err[l[i]] = "ERROR"
    <3> DEFINE q == g[i - 1]
               t == l[i]
               r == rt_thread_resume([q EXCEPT !.err[t] = "ERROR"], t)
    <3>1. Lists(q) /\ t \in Threads /\ q.stat[t] = "SUSPEND"
      BY <2>2, <2>6
    <3>2. g[i] = r
      BY <2>1 DEF WakeNext
    <3> HIDE DEF q, t
    <3>3. Woke(q, r, {t}) /\ r.err[t] = "ERROR"
      <4>1. "ERROR" \in Errors
        BY DEF Errors
      <4> QED
        BY <3>1, <4>1, WakesOne
    <3> QED
      BY <3>2, <3>3 DEF q, t
  <2>8. Woke(s, g[i], U(i)) /\ g[i].err[l[i]] = "ERROR"
    BY <2>1, <2>3, <2>7, WokeMore
  <2>9. \A u \in U(i) : g[i].err[u] = "ERROR"
    <3> TAKE u \in U(i)
    <3>1. CASE u = l[i]
      BY <2>7, <3>1
    <3>2. CASE u # l[i]
      <4>1. u \in U(i - 1) /\ u \in Threads
        BY <2>1, <2>3, <3>2 DEF Woke
      <4> QED
        BY <2>1, <2>7, <3>2, <4>1 DEF Woke
    <3> QED
      BY <3>1, <3>2
  <2> QED
    BY <1>0, <2>8, <2>9
<1>4. n \in T
  <2>1. T \in SUBSET (0 .. n)
    OBVIOUS
  <2> HIDE DEF T
  <2>2. \A i \in 0 .. n : i \in T
    BY <1>0, <1>2, <1>3, <2>1, UpTo
  <2> QED
    BY <1>0, <2>2
<1>5. U(n) = {u \in Threads : WaitsAt(s, u, o)}
  <2>1. \A u \in Threads : WaitsAt(s, u, o) <=> u \in U(n)
    BY <1>0 DEF On, n
  <2>2. U(n) \subseteq Threads
    BY <1>0 DEF n
  <2> QED
    BY <2>1, <2>2
<1> QED
  BY <1>1, <1>4, <1>5

-----------------------------------------------------------------------------
(* The books.                                                              *)

(* Mutexes whose waiters are the same keep their books.                    *)
LEMMA BooksBut ==
  ASSUME NEW s, Books(s), IpcTyped(s), NEW r, SameBooks(s, r), \A m \in Mutexes : SameAt(s, r, m),
         Tokens(r), Threadly(r)
  PROVE  Books(r)
<1>1. Pends(r) /\ Owners(r)
  BY PendsKept, OwnersKept DEF Books, SameBooks
<1> QED
  BY <1>1 DEF Books

(* Woken threads have no timer any more.                                   *)
LEMMA WokeThreadly ==
  ASSUME NEW s, Lists(s), Threadly(s), NEW r, NEW S, Woke(s, r, S)
  PROVE  Threadly(r)
<1>1. s.timer \subseteq Threads
  BY DEF Lists, Inv, Sound, Typed
<1>2. ASSUME NEW t \in Threads, r.at[t] # NULL \/ r.taken[t] # {} PROVE r.stat[t] = "SUSPEND" \/ Up(r, t)
  <2>1. CASE t \in S
    BY <2>1 DEF Woke
  <2>2. CASE t \notin S
    <3>1. s.at[t] # NULL \/ s.taken[t] # {}
      BY <1>2 DEF Woke, SameBooks
    <3>2. r.stat[t] = s.stat[t]
      BY <2>2 DEF Woke
    <3> QED
      BY <3>1, <3>2 DEF Threadly, Up
  <2> QED
    BY <2>1, <2>2
<1>3. ASSUME NEW t \in r.timer PROVE r.stat[t] = "SUSPEND"
  BY <1>1, <1>3 DEF Threadly, Woke
<1> QED
  BY <1>2, <1>3 DEF Threadly, Woke, SameBooks

(* A waiter that is woken with an error gets nothing: those of semaphores  *)
(* keep the counts as they are.                                            *)
LEMMA WokeAt ==
  ASSUME NEW s, NEW r, NEW S, Woke(s, r, S), NEW o, NEW t \in Threads, s.at[t] = o /\ t \in S => r.err[t] # "EOK"
  PROVE  /\ r.at[t] = s.at[t] /\ (Granted(r, t, o) <=> Granted(s, t, o))
         /\ WaitsAt(r, t, o) => WaitsAt(s, t, o) /\ t \notin S /\ r.err[t] = s.err[t]
<1>1. CASE t \in S
  BY <1>1 DEF Woke, Granted, WaitsAt, Up
<1>2. CASE t \notin S
  BY <1>2 DEF Woke, Granted, WaitsAt
<1> QED
  BY <1>1, <1>2

(* The tokens after that.                                                  *)
LEMMA WokeToken ==
  ASSUME NEW s, NEW r, NEW S, Woke(s, r, S), NEW o, TokenOf(s, o),
         \A t \in Threads : s.at[t] = o /\ t \in S => r.err[t] # "EOK"
  PROVE  TokenOf(r, o) /\ Holders(r, o) = Holders(s, o)
<1>1. \A t \in Threads : /\ Granted(r, t, o) <=> Granted(s, t, o)
                         /\ WaitsAt(r, t, o) => WaitsAt(s, t, o) /\ r.err[t] = s.err[t]
  BY WokeAt
<1>2. Holders(r, o) = Holders(s, o)
  BY <1>1 DEF Holders
<1>3. r.value = s.value /\ r.net = s.net
  BY DEF Woke
<1> QED
  BY <1>1, <1>2, <1>3 DEF TokenOf

(* Waiters of semaphores are woken with an error, and sleeping and         *)
(* suspended threads are woken.                                            *)
LEMMA WokeBooks ==
  ASSUME NEW s, Lists(s), Books(s), NEW r, NEW S, Woke(s, r, S),
         \A t \in S : s.at[t] \notin Mutexes /\ (s.at[t] \in Sems => r.err[t] # "EOK")
  PROVE  Books(r)
<1>1. Threadly(r)
  BY WokeThreadly DEF Books
<1>2. Tokens(r)
  <2>1. SUFFICES ASSUME NEW o \in Sems PROVE TokenOf(r, o)
    BY DEF Tokens
  <2>2. TokenOf(s, o)
    BY DEF Books, Tokens
  <2> QED
    BY <2>2, WokeToken
<1>3. \A m \in Mutexes : SameAt(s, r, m)
  <2>1. SUFFICES ASSUME NEW m \in Mutexes, NEW t \in Threads
                 PROVE  /\ r.at[t] = m <=> s.at[t] = m
                        /\ WaitsAt(r, t, m) <=> WaitsAt(s, t, m)
                        /\ Granted(r, t, m) <=> Granted(s, t, m)
                        /\ r.at[t] = m => r.err[t] = s.err[t]
    BY DEF SameAt
  <2>2. r.at[t] = s.at[t]
    BY DEF Woke
  <2>3. CASE s.at[t] = m
    <3>1. t \notin S
      BY <2>3
    <3> QED
      BY <2>2, <3>1 DEF Woke, WaitsAt, Granted
  <2>4. CASE s.at[t] # m
    BY <2>2, <2>4 DEF WaitsAt, Granted
  <2> QED
    BY <2>3, <2>4
<1>4. IpcTyped(s) /\ SameBooks(s, r)
  BY DEF Lists, Woke
<1> QED
  BY <1>1, <1>2, <1>3, <1>4, BooksBut

(* The running thread t suspends itself; if it waits for a semaphore, its  *)
(* count is zero and the thread has an error to return with.               *)
Parked(s, r, t) ==
  /\ s.at[t] = NULL /\ Up(s, t) /\ t \in Threads
  /\ Lists(r) /\ SameBooks(s, r) /\ r.value = s.value /\ r.net = s.net /\ r.lock = s.lock
  /\ r.stat = [s.stat EXCEPT ![t] = "SUSPEND"] /\ r.timer \subseteq s.timer \cup {t}
  /\ \A u \in Threads \ {t} : r.at[u] = s.at[u] /\ r.err[u] = s.err[u]
  /\ r.at[t] \notin Mutexes
  /\ r.at[t] \in Sems => s.value[r.at[t]] = 0 /\ r.err[t] # "EOK"

(* The books do not mind.                                                  *)
LEMMA ParkedBooks ==
  ASSUME NEW s, Lists(s), Books(s), NEW r, NEW t, Parked(s, r, t)
  PROVE  Books(r)
<1>0. /\ s.stat \in [Threads -> Stats] /\ s.timer \subseteq Threads /\ IpcTyped(s) /\ s.value \in [Sems -> Nat]
      /\ t \in Threads
  BY SMTT(30) DEF Lists, Inv, Sound, Typed, IpcTyped, Parked
<1>1. r.stat[t] = "SUSPEND" /\ \A u \in Threads \ {t} : r.stat[u] = s.stat[u]
  BY <1>0 DEF Parked
<1>2. Threadly(r)
  <2>1. \A u \in Threads : r.at[u] # NULL \/ r.taken[u] # {} => r.stat[u] = "SUSPEND" \/ Up(r, u)
    BY <1>1 DEF Books, Threadly, Parked, SameBooks, Up
  <2>2. \A u \in r.timer : r.stat[u] = "SUSPEND"
    BY <1>0, <1>1 DEF Books, Threadly, Parked
  <2> QED
    BY <2>1, <2>2 DEF Books, Threadly, Parked, SameBooks
<1>3. \A m \in Mutexes : SameAt(s, r, m)
  <2>1. SUFFICES ASSUME NEW m \in Mutexes, NEW u \in Threads
                 PROVE  /\ r.at[u] = m <=> s.at[u] = m
                        /\ WaitsAt(r, u, m) <=> WaitsAt(s, u, m)
                        /\ Granted(r, u, m) <=> Granted(s, u, m)
                        /\ r.at[u] = m => r.err[u] = s.err[u]
    BY DEF SameAt
  <2>2. CASE u = t
    BY <2>2, MutexIs DEF Parked, WaitsAt, Granted
  <2>3. CASE u # t
    BY <1>1, <2>3 DEF Parked, WaitsAt, Granted
  <2> QED
    BY <2>2, <2>3
<1>4. Tokens(r)
  <2>1. SUFFICES ASSUME NEW o \in Sems PROVE TokenOf(r, o)
    BY DEF Tokens
  <2>2. TokenOf(s, o) /\ o # NULL /\ r.value[o] = s.value[o] /\ r.net[o] = s.net[o]
    BY ObjectsAssumption, NullAssumption DEF Books, Tokens, Parked
  <2>3. CASE r.at[t] # o
    <3>1. SameAt(s, r, o)
      <4>1. SUFFICES ASSUME NEW u \in Threads
                     PROVE  /\ r.at[u] = o <=> s.at[u] = o
                            /\ WaitsAt(r, u, o) <=> WaitsAt(s, u, o)
                            /\ Granted(r, u, o) <=> Granted(s, u, o)
                            /\ r.at[u] = o => r.err[u] = s.err[u]
        BY DEF SameAt
      <4>2. CASE u = t
        BY <2>2, <2>3, <4>2 DEF Parked, WaitsAt, Granted
      <4>3. CASE u # t
        BY <1>1, <4>3 DEF Parked, WaitsAt, Granted
      <4> QED
        BY <4>2, <4>3
    <3> QED
      BY <2>2, <3>1, TokenKept
  <2>4. CASE r.at[t] = o
    <3>1. s.value[o] = 0 /\ r.err[t] # "EOK" /\ s.at[t] # o
      BY <2>2, <2>4 DEF Parked
    <3>2. \A u \in Threads : Granted(r, u, o) <=> Granted(s, u, o)
      <4> TAKE u \in Threads
      <4>1. CASE u = t
        BY <3>1, <4>1 DEF Granted
      <4>2. CASE u # t
        BY <1>1, <4>2 DEF Parked, Granted
      <4> QED
        BY <4>1, <4>2
    <3>3. Holders(r, o) = Holders(s, o)
      BY <3>2 DEF Holders
    <3>4. \A u \in Threads : WaitsAt(r, u, o) => r.err[u] # "EOK"
      <4> TAKE u \in Threads
      <4>1. CASE u = t
        BY <3>1, <4>1
      <4>2. CASE u # t
        BY <1>1, <2>2, <4>2 DEF Parked, WaitsAt, TokenOf
      <4> QED
        BY <4>1, <4>2
    <3>5. ~(r.value[o] > 0)
      BY <2>2, <3>1
    <3> QED
      BY <2>2, <3>3, <3>4, <3>5 DEF TokenOf
  <2> QED
    BY <2>3, <2>4
<1>5. SameBooks(s, r)
  BY DEF Parked
<1> QED
  BY <1>0, <1>2, <1>3, <1>4, <1>5, BooksBut

(* The counts of a semaphore are set.                                      *)
LEMMA CountsSet ==
  ASSUME NEW s, Lists(s), NEW r, Changes(s, r, {"value", "net"}), NEW o \in Sems,
         NEW v \in 0 .. SemMax, NEW n \in Int,
         r.value = [s.value EXCEPT ![o] = v], r.net = [s.net EXCEPT ![o] = n]
  PROVE  /\ Lists(r) /\ SameBooks(s, r) /\ r.at = s.at /\ r.err = s.err /\ r.cur = s.cur /\ r.stat = s.stat
         /\ r.lock = s.lock /\ r.timer = s.timer /\ r.list = s.list /\ r.prio = s.prio
         /\ Holders(r, o) = Holders(s, o)
         /\ Books(s) /\ TokenOf(r, o) => Books(r)
<1> DEFINE F == {"value", "net"}
<1>0. IpcTyped(s) /\ IpcFields \subseteq DOMAIN s /\ s.timer \subseteq Threads
      /\ s.value \in [Sems -> 0 .. SemMax] /\ s.net \in [Sems -> Int]
  BY DEF Lists, IpcTyped, Inv, Sound, Typed
<1>1. SameBooks(s, r) /\ r.at = s.at /\ r.err = s.err
  BY <1>0, KeptIpc DEF SameBooks
<1>2. r.value \in [Sems -> 0 .. SemMax] /\ r.net \in [Sems -> Int]
  BY <1>0
<1>3. IpcTyped(r)
  BY <1>0, <1>2, IpcTypedAgain
<1>4. F \cap Fields = {} /\ "at" \notin F /\ Changes(s, r, F)
  BY DEF Fields
<1> HIDE DEF F
<1>5. /\ Lists(r) /\ r.cur = s.cur /\ r.stat = s.stat /\ r.prio = s.prio /\ r.list = s.list
      /\ r.lock = s.lock /\ r.timer = s.timer
  BY <1>3, <1>4, ListsKept
<1>6. \A x : SameAt(s, r, x)
  BY <1>1, <1>5 DEF SameAt, WaitsAt, Granted
<1>7. Holders(r, o) = Holders(s, o)
  BY <1>6 DEF SameAt, Holders
<1>8. ASSUME Books(s), TokenOf(r, o) PROVE Books(r)
  <2>1. Tokens(r)
    <3>1. SUFFICES ASSUME NEW x \in Sems, x # o PROVE TokenOf(r, x)
      BY <1>8 DEF Tokens
    <3>2. TokenOf(s, x) /\ r.value[x] = s.value[x] /\ r.net[x] = s.net[x]
      BY <1>0, <1>8, <3>1 DEF Books, Tokens
    <3> QED
      BY <1>6, <3>2, TokenKept
  <2>2. Threadly(r)
    BY <1>0, <1>1, <1>5, <1>8 DEF Books, Threadly, SameBooks, Up
  <2> QED
    BY <1>0, <1>1, <1>6, <1>8, <2>1, <2>2, BooksBut
<1> QED
  BY <1>1, <1>5, <1>7, <1>8

-----------------------------------------------------------------------------
(* Semaphores.                                                             *)

(* The kernel between two calls.                                           *)
Settled(s) == Lists(s) /\ Books(s) /\ s.stat[s.cur] = "RUNNING"

(* No thread that waits for a mutex got a timer.                           *)
Quiet(s, r) == \A t \in r.timer : r.at[t] \in Mutexes => t \in s.timer /\ s.at[t] \in Mutexes

(* One change follows the other.                                           *)
LEMMA QuietTwice ==
  ASSUME NEW s, NEW q, NEW r, Quiet(s, q), Quiet(q, r)
  PROVE  Quiet(s, r)
BY DEF Quiet

(* No timer is started, and nobody starts to wait.                         *)
LEMMA QuietSame ==
  ASSUME NEW s, NEW r, r.at = s.at, r.timer \subseteq s.timer
  PROVE  Quiet(s, r)
BY DEF Quiet

(* One thread waits for something else than a mutex.                       *)
LEMMA QuietOther ==
  ASSUME NEW s, NEW r, s.at \in [Threads -> Objects \cup {NULL, Sleep}], NEW t \in Threads, NEW x, x \notin Mutexes,
         s.timer \subseteq Threads, r.at = [s.at EXCEPT ![t] = x], r.timer \subseteq s.timer \cup {t}
  PROVE  Quiet(s, r)
BY DEF Quiet

(* One thread, which has no timer, waits for a mutex, and gets none.       *)
LEMMA QuietWait ==
  ASSUME NEW s, NEW r, s.at \in [Threads -> Objects \cup {NULL, Sleep}], NEW t \in Threads \ s.timer, NEW x,
         s.timer \subseteq Threads, r.at = [s.at EXCEPT ![t] = x], r.timer \subseteq s.timer
  PROVE  Quiet(s, r)
BY DEF Quiet

(* rt_schedule is no such change either.                                   *)
LEMMA QuietSchedule ==
  ASSUME NEW s, Lists(s)
  PROVE  Quiet(s, rt_schedule(s))
<1> DEFINE r == rt_schedule(s)
<1>1. Inv(s) /\ Shape(s) /\ IpcFields \subseteq DOMAIN s
  BY DEF Lists, Inv, Sound, Typed, IpcTyped
<1>2. Changes(s, r, Rescheduled)
  BY <1>1, Schedules
<1> HIDE DEF r
<1>3. "timer" \notin Rescheduled /\ "at" \notin Rescheduled
  BY DEF Rescheduled
<1>4. r.timer = s.timer /\ r.at = s.at
  BY <1>1, <1>2, <1>3, Kept, KeptIpc
<1> QED
  BY <1>4, QuietSame DEF r

(* After rt_schedule the kernel is settled.                                *)
LEMMA Settles ==
  ASSUME NEW s, Lists(s), Books(s)
  PROVE  Settled(rt_schedule(s)) /\ Best(rt_schedule(s))
BY SchedulesAll DEF Settled, Best

(* A call that ends with rt_schedule.                                      *)
LEMMA SettlesFrom ==
  ASSUME NEW s, NEW w, Lists(w), Books(w), Quiet(s, w)
  PROVE  Settled(rt_schedule(w)) /\ Best(rt_schedule(w)) /\ Quiet(s, rt_schedule(w))
BY Settles, QuietSchedule, QuietTwice

(* A call that changes nothing.                                            *)
LEMMA QuietNot ==
  ASSUME NEW s
  PROVE  Quiet(s, s)
BY DEF Quiet

(* Facts about a settled kernel.                                           *)
LEMMA SettledIs ==
  ASSUME NEW s, Settled(s)
  PROVE  /\ Lists(s) /\ Books(s) /\ Inv(s) /\ Typed(s) /\ Shape(s) /\ IpcTyped(s) /\ IpcFields \subseteq DOMAIN s
         /\ s.cur \in Threads /\ Up(s, s.cur) /\ s.timer \subseteq Threads /\ s.stat \in [Threads -> Stats]
         /\ s.at \in [Threads -> Objects \cup {NULL, Sleep}] /\ s.err \in [Threads -> Errors]
         /\ s.value \in [Sems -> 0 .. SemMax] /\ s.net \in [Sems -> Int]
BY DEF Settled, Lists, Inv, Sound, Typed, IpcTyped, Up

(* Semaphores are objects.                                                 *)
LEMMA SemIs ==
  ASSUME NEW o \in Sems
  PROVE  o \in Objects /\ o \notin Mutexes /\ o # NULL /\ o # Sleep
BY ObjectsAssumption, NullAssumption

(* The caller waits for a semaphore whose count is zero.                   *)
LEMMA SemWaits ==
  ASSUME NEW s, Settled(s), s.cur # Idle, s.at[s.cur] = NULL, NEW o \in Sems, ~(s.value[o] > 0),
         NEW timed \in BOOLEAN
  PROVE  LET w == Wait([s EXCEPT !.err[s.cur] = "EINTR"], s.cur, o, timed) IN
         Lists(w) /\ Books(w) /\ Quiet(s, w)
<1> DEFINE t == s.cur
           x == [s EXCEPT !.err[t] = "EINTR"]
           w == Wait(x, t, o, timed)
           G == {"stat", "group", "list", "timer", "at"}
<1>0. /\ Lists(s) /\ Books(s) /\ t \in Threads /\ Up(s, t) /\ t # Idle /\ s.stat \in [Threads -> Stats]
      /\ s.at \in [Threads -> Objects \cup {NULL, Sleep}] /\ s.err \in [Threads -> Errors]
      /\ s.value \in [Sems -> 0 .. SemMax]
  BY SettledIs
<1>1. /\ Lists(x) /\ SameBooks(s, x) /\ x.err = [s.err EXCEPT ![t] = "EINTR"] /\ x.at = s.at
      /\ x.value = s.value /\ x.net = s.net /\ x.stat = s.stat /\ x.lock = s.lock /\ x.timer = s.timer
  <2>1. "EINTR" \in Errors
    BY DEF Errors
  <2> QED
    BY <1>0, <2>1, ErrorSet
<1> HIDE DEF x, t
<1>2. /\ Lists(w) /\ Changes(x, w, G)
      /\ w.stat = [x.stat EXCEPT ![t] = "SUSPEND"] /\ w.at = [x.at EXCEPT ![t] = o]
      /\ w.timer \subseteq x.timer \cup {t}
  <2>1. t \in Threads \ {Idle} /\ Up(x, t) /\ o \in Objects
    BY <1>0, <1>1, SemIs DEF Up
  <2> QED
    BY <1>1, <2>1, WaitBegins
<1> HIDE DEF w
<1>3. /\ SameBooks(x, w) /\ w.err = x.err /\ w.value = x.value /\ w.net = x.net /\ w.lock = x.lock
  <2>1. IpcFields \subseteq DOMAIN x /\ Shape(x)
    BY <1>1 DEF Lists, IpcTyped, Inv, Sound, Typed
  <2>2. "lock" \notin G /\ "base" \notin G /\ "pend" \notin G /\ "taken" \notin G /\ "owner" \notin G
        /\ "hold" \notin G /\ "ceil" \notin G /\ "got" \notin G /\ "obj" \notin G /\ "fault" \notin G
        /\ "err" \notin G /\ "value" \notin G /\ "net" \notin G
    OBVIOUS
  <2> HIDE DEF G
  <2>3. w.lock = x.lock
    BY <1>2, <2>1, <2>2, Kept
  <2> QED
    BY <1>2, <2>1, <2>2, <2>3, KeptIpc DEF SameBooks
<1>4. Parked(s, w, t)
  <2>1. SameBooks(s, w) /\ w.value = s.value /\ w.net = s.net /\ w.lock = s.lock
        /\ w.stat = [s.stat EXCEPT ![t] = "SUSPEND"] /\ w.timer \subseteq s.timer \cup {t}
    BY <1>1, <1>2, <1>3 DEF SameBooks
  <2>2. \A u \in Threads \ {t} : w.at[u] = s.at[u] /\ w.err[u] = s.err[u]
    BY <1>0, <1>1, <1>2, <1>3
  <2>3. w.at[t] = o /\ w.err[t] = "EINTR" /\ s.value[o] = 0
    BY <1>0, <1>1, <1>2, <1>3
  <2> QED
    BY <1>0, <1>2, <2>1, <2>2, <2>3, SemIs DEF Parked, t
<1>5. Books(w)
  BY <1>0, <1>4, ParkedBooks
<1>6. Quiet(s, w)
  <2>1. s.timer \subseteq Threads /\ w.at = [s.at EXCEPT ![t] = o] /\ w.timer \subseteq s.timer \cup {t} /\ o \notin Mutexes
    BY <1>1, <1>2, SettledIs, SemIs
  <2> QED
    BY <1>0, <2>1, QuietOther
<1> QED
  BY <1>2, <1>5, <1>6 DEF w, x, t

(* The threads with a token of o are so many.                              *)
LEMMA HoldersFinite ==
  ASSUME NEW s, NEW o
  PROVE  IsFiniteSet(Holders(s, o)) /\ Cardinality(Holders(s, o)) \in Nat
<1>1. Holders(s, o) \in SUBSET Threads
  BY DEF Holders
<1>2. IsFiniteSet(Holders(s, o))
  BY <1>1, ThreadsFinite, FS_Subset
<1> QED
  BY <1>2, FS_CardinalityType

(* _rt_sem_take: a token is taken, or the thread waits.                    *)
LEMMA SemTaken ==
  ASSUME NEW s, Settled(s), s.cur # Idle, s.at[s.cur] = NULL, NEW o \in Sems, NEW wait \in Waits
  PROVE  Settled(_rt_sem_take(s, o, wait)) /\ Quiet(s, _rt_sem_take(s, o, wait))
<1>0. /\ Lists(s) /\ Books(s) /\ Shape(s) /\ IpcFields \subseteq DOMAIN s
      /\ s.value \in [Sems -> 0 .. SemMax] /\ s.net \in [Sems -> Int]
  BY SettledIs
<1>1. CASE s.value[o] > 0
  <2> DEFINE v == s.value[o] - 1
             n == s.net[o] - 1
             r == [s EXCEPT !.value[o] = v, !.net[o] = n]
  <2>1. _rt_sem_take(s, o, wait) = r
    BY <1>1 DEF _rt_sem_take
  <2>2. v \in 0 .. SemMax /\ n \in Int
    BY <1>0, <1>1, BoundsAssumption
  <2>3. /\ Changes(s, r, {"value", "net"})
        /\ r.value = [s.value EXCEPT ![o] = v] /\ r.net = [s.net EXCEPT ![o] = n]
    <3> HIDE DEF v, n
    <3> QED
      BY <1>0 DEF Shape, Changes, IpcFields
  <2>4. /\ Lists(r) /\ r.at = s.at /\ r.err = s.err /\ r.cur = s.cur /\ r.stat = s.stat /\ r.timer = s.timer
        /\ Holders(r, o) = Holders(s, o) /\ (Books(s) /\ TokenOf(r, o) => Books(r))
    <3> HIDE DEF v, n, r
    <3> QED
      BY <1>0, <2>2, <2>3, CountsSet
  <2>5. TokenOf(r, o)
    <3>1. TokenOf(s, o) /\ r.value[o] = s.value[o] - 1 /\ r.net[o] = s.net[o] - 1
      BY <1>0, <2>3 DEF Books, Tokens
    <3> DEFINE c == Cardinality(Holders(s, o))
    <3>2. c \in Nat
      BY HoldersFinite
    <3> HIDE DEF r, c
    <3>3. r.value[o] = r.net[o] - Cardinality(Holders(r, o))
      BY <1>0, <2>4, <3>1, <3>2 DEF TokenOf, c
    <3>4. \A u \in Threads : ~WaitsAt(r, u, o)
      BY <1>1, <2>4, <3>1 DEF TokenOf, WaitsAt
    <3> QED
      BY <3>3, <3>4 DEF TokenOf
  <2> HIDE DEF r
  <2>6. Settled(r)
    BY <1>0, <2>4, <2>5 DEF Settled
  <2>7. Quiet(s, r)
    BY <2>4, QuietSame
  <2> QED
    BY <2>1, <2>6, <2>7
<1>2. CASE ~(s.value[o] > 0) /\ wait = "no"
  <2>1. _rt_sem_take(s, o, wait) = s
    BY <1>2 DEF _rt_sem_take
  <2> QED
    BY <2>1, QuietNot
<1>3. CASE ~(s.value[o] > 0) /\ wait # "no"
  <2> DEFINE timed == wait = "timed"
             w == Wait([s EXCEPT !.err[s.cur] = "EINTR"], s.cur, o, timed)
  <2>1. _rt_sem_take(s, o, wait) = rt_schedule(w)
    BY <1>3 DEF _rt_sem_take
  <2>2. timed \in BOOLEAN
    OBVIOUS
  <2> HIDE DEF timed
  <2>3. Lists(w) /\ Books(w) /\ Quiet(s, w)
    BY <1>3, <2>2, SemWaits
  <2> HIDE DEF w
  <2> QED
    BY <2>1, <2>3, SettlesFrom
<1> QED
  BY <1>1, <1>2, <1>3

(* rt_sem_release: the first waiter gets the token, or it is counted.      *)
LEMMA SemReleased ==
  ASSUME NEW s, Settled(s), NEW o \in Sems
  PROVE  Settled(rt_sem_release(s, o)) /\ Quiet(s, rt_sem_release(s, o))
<1>0. /\ Lists(s) /\ Books(s) /\ Shape(s) /\ IpcFields \subseteq DOMAIN s /\ TokenOf(s, o)
      /\ s.value \in [Sems -> 0 .. SemMax] /\ s.net \in [Sems -> Int] /\ o \in Objects
  BY SettledIs, SemIs DEF Books, Tokens
<1> DEFINE c == Cardinality(Holders(s, o))
<1>a. c \in Nat /\ IsFiniteSet(Holders(s, o))
  BY HoldersFinite
<1>1. CASE s.list[o] # <<>>
  <2> DEFINE v == s.value[o]
             n == s.net[o] + 1
             q == [s EXCEPT !.net[o] = n]
             t == Head(q.list[o])
             r == rt_thread_resume([q EXCEPT !.err[t] = "EOK"], t)
  <2>1. rt_sem_release(s, o) = rt_schedule(r)
    BY <1>1 DEF rt_sem_release, _ipc_list_resume
  <2>2. v \in 0 .. SemMax /\ n \in Int
    BY <1>0
  <2>3. /\ Changes(s, q, {"value", "net"})
        /\ q.value = [s.value EXCEPT ![o] = v] /\ q.net = [s.net EXCEPT ![o] = n]
    <3>1. q.value = s.value /\ s.value = [s.value EXCEPT ![o] = v]
      BY <1>0
    <3> HIDE DEF v, n
    <3> QED
      BY <1>0, <3>1 DEF Shape, Changes, IpcFields
  <2> HIDE DEF q
  <2>4. /\ Lists(q) /\ SameBooks(s, q) /\ q.at = s.at /\ q.err = s.err /\ q.cur = s.cur /\ q.stat = s.stat
        /\ q.lock = s.lock /\ q.timer = s.timer /\ q.list = s.list /\ Holders(q, o) = Holders(s, o)
    <3> HIDE DEF v, n
    <3> QED
      BY <1>0, <2>2, <2>3, CountsSet
  <2>5. t \in Threads /\ WaitsAt(s, t, o)
    <3>1. s.list[o] \in Seq(Threads)
      BY <1>0, HeadsAre DEF Lists, Inv, Sound, Typed
    <3>2. t \in Threads /\ On(t, s.list[o])
      BY <1>1, <2>4, <3>1, First
    <3> QED
      BY <1>0, <3>2 DEF Lists, Queues
  <2> HIDE DEF t
  <2>6. Woke(q, r, {t}) /\ r.err[t] = "EOK"
    <3>1. "EOK" \in Errors /\ q.stat[t] = "SUSPEND"
      BY <2>4, <2>5 DEF Errors, WaitsAt
    <3> QED
      BY <2>4, <2>5, <3>1, WakesOne
  <2> HIDE DEF r
  <2>7. Threadly(r)
    <3>1. Threadly(q)
      BY <1>0, <2>4 DEF Books, Threadly, SameBooks, Up
    <3> QED
      BY <2>4, <2>6, <3>1, WokeThreadly
  <2>8. \A x : x # o => SameAt(s, r, x)
    <3>1. SUFFICES ASSUME NEW x, x # o, NEW u \in Threads
                   PROVE  /\ r.at[u] = x <=> s.at[u] = x
                          /\ WaitsAt(r, u, x) <=> WaitsAt(s, u, x)
                          /\ Granted(r, u, x) <=> Granted(s, u, x)
                          /\ r.at[u] = x => r.err[u] = s.err[u]
      BY DEF SameAt
    <3>2. CASE u = t
      BY <2>4, <2>5, <2>6, <3>1, <3>2 DEF Woke, WaitsAt, Granted
    <3>3. CASE u # t
      BY <2>4, <2>6, <3>3 DEF Woke, WaitsAt, Granted
    <3> QED
      BY <3>2, <3>3
  <2>9. TokenOf(r, o)
    <3>1. ~(s.value[o] > 0)
      BY <1>0, <2>5 DEF TokenOf
    <3>2. r.value = s.value /\ r.net[o] = s.net[o] + 1
      <4>1. q.value = s.value
        BY <1>0, <2>3
      <4> QED
        BY <1>0, <2>3, <2>6, <4>1 DEF Woke
    <3>3. Granted(r, t, o) /\ ~Granted(s, t, o)
      BY <2>4, <2>5, <2>6 DEF Woke, WaitsAt, Granted, Up
    <3>4. \A u \in Threads \ {t} : (Granted(r, u, o) <=> Granted(s, u, o)) /\ (WaitsAt(r, u, o) <=> WaitsAt(s, u, o))
                                   /\ r.err[u] = s.err[u]
      BY <2>4, <2>6 DEF Woke, WaitsAt, Granted
    <3>5. Holders(r, o) = Holders(s, o) \cup {t} /\ t \notin Holders(s, o)
      BY <2>5, <3>3, <3>4 DEF Holders
    <3>6. Cardinality(Holders(r, o)) = c + 1
      BY <1>a, <3>5, FS_AddElement
    <3>7. ~WaitsAt(r, t, o)
      BY <2>6 DEF Woke, WaitsAt, Up
    <3>8. \A u \in Threads : WaitsAt(r, u, o) => r.err[u] # "EOK"
      BY <1>0, <3>4, <3>7 DEF TokenOf
    <3>9. r.value[o] = r.net[o] - Cardinality(Holders(r, o))
      <4> HIDE DEF c
      <4> QED
        BY <1>0, <1>a, <3>2, <3>6 DEF TokenOf, c
    <3> QED
      BY <3>1, <3>2, <3>8, <3>9 DEF TokenOf
  <2>10. Tokens(r)
    <3>1. SUFFICES ASSUME NEW x \in Sems, x # o PROVE TokenOf(r, x)
      BY <2>9 DEF Tokens
    <3>2. TokenOf(s, x) /\ SameAt(s, r, x) /\ r.value[x] = s.value[x] /\ r.net[x] = s.net[x]
      BY <1>0, <2>3, <2>6, <2>8, <3>1 DEF Books, Tokens, Woke
    <3> QED
      BY <3>2, TokenKept
  <2>11. SameBooks(s, r) /\ \A m \in Mutexes : SameAt(s, r, m)
    BY <2>4, <2>6, <2>8, SemIs DEF Woke, SameBooks
  <2>12. Books(r)
    <3>1. IpcTyped(s)
      BY <1>0 DEF Lists
    <3> QED
      BY <1>0, <2>7, <2>10, <2>11, <3>1, BooksBut
  <2>13. Lists(r) /\ Quiet(s, r)
    <3>1. r.at = s.at /\ r.timer \subseteq s.timer /\ Lists(r)
      BY <2>4, <2>6 DEF Woke
    <3> QED
      BY <3>1, QuietSame
  <2> QED
    BY <2>1, <2>12, <2>13, SettlesFrom
<1>2. CASE s.list[o] = <<>> /\ s.value[o] < SemMax
  <2> DEFINE v == s.value[o] + 1
             n == s.net[o] + 1
             r == [s EXCEPT !.value[o] = v, !.net[o] = n]
  <2>1. rt_sem_release(s, o) = r
    BY <1>2 DEF rt_sem_release
  <2>2. v \in 0 .. SemMax /\ n \in Int
    BY <1>0, <1>2, BoundsAssumption
  <2>3. /\ Changes(s, r, {"value", "net"})
        /\ r.value = [s.value EXCEPT ![o] = v] /\ r.net = [s.net EXCEPT ![o] = n]
    <3> HIDE DEF v, n
    <3> QED
      BY <1>0 DEF Shape, Changes, IpcFields
  <2>4. /\ Lists(r) /\ r.at = s.at /\ r.err = s.err /\ r.cur = s.cur /\ r.stat = s.stat /\ r.timer = s.timer
        /\ Holders(r, o) = Holders(s, o) /\ (Books(s) /\ TokenOf(r, o) => Books(r))
    <3> HIDE DEF v, n, r
    <3> QED
      BY <1>0, <2>2, <2>3, CountsSet
  <2>5. TokenOf(r, o)
    <3>1. r.value[o] = s.value[o] + 1 /\ r.net[o] = s.net[o] + 1
      BY <1>0, <2>3
    <3> HIDE DEF r, c
    <3>2. r.value[o] = r.net[o] - Cardinality(Holders(r, o))
      BY <1>0, <1>a, <2>4, <3>1 DEF TokenOf, c
    <3>3. \A u \in Threads : ~WaitsAt(r, u, o)
      <4>1. \A u \in Threads : ~On(u, s.list[o])
        BY <1>2 DEF On
      <4> QED
        BY <1>0, <2>4, <4>1 DEF Lists, Queues, WaitsAt
    <3> QED
      BY <3>2, <3>3 DEF TokenOf
  <2> HIDE DEF r
  <2>6. Settled(r)
    BY <1>0, <2>4, <2>5 DEF Settled
  <2>7. Quiet(s, r)
    BY <2>4, QuietSame
  <2> QED
    BY <2>1, <2>6, <2>7
<1>3. CASE s.list[o] = <<>> /\ ~(s.value[o] < SemMax)
  <2>1. rt_sem_release(s, o) = s
    BY <1>3 DEF rt_sem_release
  <2> QED
    BY <2>1, QuietNot
<1> QED
  BY <1>1, <1>2, <1>3

(* rt_sem_control with RT_IPC_CMD_RESET: the waiters return with an error, *)
(* the count is new.                                                       *)
LEMMA SemWasReset ==
  ASSUME NEW s, Settled(s), NEW o \in Sems, NEW v \in 0 .. SemMax
  PROVE  Settled(SemReset(s, o, v)) /\ Quiet(s, SemReset(s, o, v))
<1> DEFINE c == Cardinality({t \in Threads : Granted(s, t, o)})
           q == _ipc_list_resume_all(s, o)
           S == {u \in Threads : WaitsAt(s, u, o)}
           n == v + c
           r == [q EXCEPT !.value[o] = v, !.net[o] = n]
<1>0. Lists(s) /\ Books(s) /\ TokenOf(s, o) /\ o \in Objects /\ o \notin Mutexes /\ o # NULL
  BY SettledIs, SemIs DEF Books, Tokens
<1>1. c \in Nat /\ c = Cardinality(Holders(s, o))
  BY HoldersFinite DEF Holders
<1>2. SemReset(s, o, v) = rt_schedule(r)
  BY DEF SemReset
<1>3. Woke(s, q, S) /\ \A u \in S : q.err[u] = "ERROR"
  BY <1>0, WakesAll
<1> HIDE DEF c, q, S
<1>4. \A t \in S : s.at[t] = o /\ q.err[t] # "EOK"
  BY <1>3 DEF S, WaitsAt
<1>5. Books(q) /\ Lists(q)
  BY <1>0, <1>3, <1>4, WokeBooks DEF Woke
<1>6. Holders(q, o) = Holders(s, o)
  BY <1>0, <1>3, <1>4, WokeToken
<1>7. n \in Int /\ Shape(q) /\ IpcFields \subseteq DOMAIN q
      /\ q.value \in [Sems -> 0 .. SemMax] /\ q.net \in [Sems -> Int]
  BY <1>1, <1>5, BoundsAssumption DEF Lists, Inv, Sound, Typed, IpcTyped
<1> DEFINE N == n
<1>8. /\ Changes(q, r, {"value", "net"})
      /\ r.value = [q.value EXCEPT ![o] = v] /\ r.net = [q.net EXCEPT ![o] = n]
  <2> HIDE DEF n
  <2> QED
    BY <1>7 DEF Shape, Changes, IpcFields
<1>9. /\ Lists(r) /\ r.at = q.at /\ r.stat = q.stat /\ r.timer = q.timer /\ Holders(r, o) = Holders(q, o)
      /\ (Books(q) /\ TokenOf(r, o) => Books(r))
  <2> HIDE DEF r, n
  <2> QED
    BY <1>5, <1>7, <1>8, CountsSet, SMTT(30)
<1>10. TokenOf(r, o)
  <2>1. r.value[o] = v /\ r.net[o] = v + c
    BY <1>7, <1>8
  <2> HIDE DEF r
  <2>2. \A u \in Threads : ~WaitsAt(r, u, o)
    <3> TAKE u \in Threads
    <3>1. CASE u \in S
      BY <1>3, <1>9, <3>1 DEF Woke, WaitsAt, Up
    <3>2. CASE u \notin S
      BY <1>3, <1>9, <3>2 DEF Woke, WaitsAt, S
    <3> QED
      BY <3>1, <3>2
  <2>3. r.value[o] = r.net[o] - Cardinality(Holders(r, o))
    BY <1>1, <1>6, <1>9, <2>1
  <2> QED
    BY <2>2, <2>3 DEF TokenOf
<1>11. Quiet(s, r)
  <2>1. r.at = s.at /\ r.timer \subseteq s.timer
    BY <1>3, <1>9 DEF Woke
  <2> QED
    BY <2>1, QuietSame
<1> HIDE DEF r
<1> QED
  BY <1>2, <1>5, <1>9, <1>10, <1>11, SettlesFrom

(* The state of an object is set.                                          *)
LEMMA ObjectSet ==
  ASSUME NEW s, Lists(s), NEW o \in Objects, NEW how \in Conditions
  PROVE  LET r == [s EXCEPT !.obj[o] = how] IN
         /\ Lists(r) /\ r.obj = [s.obj EXCEPT ![o] = how]
         /\ r.base = s.base /\ r.pend = s.pend /\ r.taken = s.taken /\ r.owner = s.owner /\ r.hold = s.hold
         /\ r.ceil = s.ceil /\ r.got = s.got /\ r.fault = s.fault
         /\ r.err = s.err /\ r.at = s.at /\ r.value = s.value /\ r.net = s.net
         /\ r.cur = s.cur /\ r.stat = s.stat /\ r.lock = s.lock /\ r.timer = s.timer
<1> DEFINE r == [s EXCEPT !.obj[o] = how]
           F == {"obj"}
<1>0. Shape(s) /\ IpcTyped(s) /\ IpcFields \subseteq DOMAIN s
  BY DEF Lists, Inv, Sound, Typed, IpcTyped
<1>1. Changes(s, r, F) /\ r.obj = [s.obj EXCEPT ![o] = how]
  BY <1>0 DEF Shape, Changes, IpcFields
<1> HIDE DEF r
<1>2. /\ r.base = s.base /\ r.pend = s.pend /\ r.taken = s.taken /\ r.owner = s.owner /\ r.hold = s.hold
      /\ r.ceil = s.ceil /\ r.got = s.got /\ r.fault = s.fault
      /\ r.err = s.err /\ r.at = s.at /\ r.value = s.value /\ r.net = s.net
  BY <1>0, <1>1, KeptIpc
<1>3. r.obj \in [Objects -> Conditions]
  BY <1>0, <1>1 DEF IpcTyped
<1>4. IpcTyped(r)
  BY <1>0, <1>1, <1>3, IpcTypedAgain
<1>5. F \cap Fields = {} /\ "at" \notin F
  BY DEF Fields
<1> HIDE DEF F
<1>6. Lists(r) /\ r.cur = s.cur /\ r.stat = s.stat /\ r.lock = s.lock /\ r.timer = s.timer
  BY <1>1, <1>4, <1>5, ListsKept
<1> QED
  BY <1>1, <1>2, <1>6 DEF r

(* rt_sem_detach and rt_sem_delete: the waiters return with an error.      *)
LEMMA SemRemoved ==
  ASSUME NEW s, Settled(s), NEW o \in Sems, NEW how \in {"detached", "freed"}
  PROVE  Settled(SemRemove(s, o, how)) /\ Quiet(s, SemRemove(s, o, how))
<1> DEFINE q == _ipc_list_resume_all(s, o)
           S == {u \in Threads : WaitsAt(s, u, o)}
           r == [q EXCEPT !.obj[o] = how]
<1>0. Lists(s) /\ Books(s) /\ o \in Objects /\ o \notin Mutexes /\ s.stat[s.cur] = "RUNNING" /\ s.cur \in Threads
  BY SettledIs, SemIs DEF Settled
<1>1. SemRemove(s, o, how) = r
  BY DEF SemRemove
<1>2. Woke(s, q, S) /\ \A u \in S : q.err[u] = "ERROR"
  BY <1>0, WakesAll
<1> HIDE DEF q, S
<1>3. \A t \in S : s.at[t] = o /\ q.err[t] # "EOK" /\ t # s.cur
  BY <1>0, <1>2 DEF S, WaitsAt
<1>4. Books(q) /\ Lists(q)
  BY <1>0, <1>2, <1>3, WokeBooks DEF Woke
<1>5. /\ Lists(r) /\ r.obj = [q.obj EXCEPT ![o] = how]
      /\ r.base = q.base /\ r.pend = q.pend /\ r.taken = q.taken /\ r.owner = q.owner /\ r.hold = q.hold
      /\ r.ceil = q.ceil /\ r.got = q.got /\ r.fault = q.fault
      /\ r.err = q.err /\ r.at = q.at /\ r.value = q.value /\ r.net = q.net
      /\ r.cur = q.cur /\ r.stat = q.stat /\ r.lock = q.lock /\ r.timer = q.timer
  <2>1. how \in Conditions
    BY DEF Conditions
  <2> QED
    BY <1>0, <1>4, <2>1, ObjectSet
<1> HIDE DEF r
<1>6. \A m \in Mutexes : r.obj[m] = q.obj[m]
  <2>1. q.obj \in [Objects -> Conditions]
    BY <1>4 DEF Lists, IpcTyped
  <2> QED
    BY <1>0, <1>5, <2>1, MutexIs
<1>7. \A x : SameAt(q, r, x)
  BY <1>5 DEF SameAt, WaitsAt, Granted
<1>8. Tokens(r)
  BY <1>4, <1>5, <1>7, TokensKept DEF Books
<1>9. Threadly(r)
  BY <1>4, <1>5 DEF Books, Threadly, Up
<1>10. Pends(r)
  <2>1. q.pend \in [Threads -> Mutexes \cup {NULL}]
    BY <1>4 DEF Lists, IpcTyped
  <2>2. \A t \in Threads : r.pend[t] # NULL /\ r.obj[r.pend[t]] # "detached" => WaitsAt(r, t, r.pend[t])
    BY <1>4, <1>5, <1>6, <2>1 DEF Books, Pends, WaitsAt
  <2> QED
    BY <1>4, <1>5, <1>6, <2>2 DEF Books, Pends, WaitsAt
<1>11. Owners(r)
  BY <1>4, <1>5, <1>6 DEF Books, Owners, OwnerOf, WaitsAt, Granted
<1>12. r.stat[r.cur] = "RUNNING"
  BY <1>0, <1>2, <1>3, <1>5 DEF Woke
<1>13. Settled(r)
  BY <1>5, <1>8, <1>9, <1>10, <1>11, <1>12 DEF Settled, Books
<1>14. Quiet(s, r)
  <2>1. r.at = s.at /\ r.timer \subseteq s.timer
    BY <1>2, <1>5 DEF Woke
  <2> QED
    BY <2>1, QuietSame
<1> QED
  BY <1>1, <1>13, <1>14

(* A thread that goes on is in no waiting list, whatever it waited for.    *)
LEMMA AtSet ==
  ASSUME NEW s, Lists(s), NEW t \in Threads, s.stat[t] # "SUSPEND", NEW r, NEW F, Changes(s, r, F),
         F \cap Fields = {}, IpcTyped(r), r.at = [s.at EXCEPT ![t] = NULL]
  PROVE  /\ Lists(r) /\ r.cur = s.cur /\ r.stat = s.stat /\ r.prio = s.prio /\ r.list = s.list
         /\ r.lock = s.lock /\ r.timer = s.timer
<1>1. /\ Inv(r) /\ r.cur = s.cur /\ r.stat = s.stat /\ r.prio = s.prio /\ r.list = s.list
      /\ r.lock = s.lock /\ r.timer = s.timer
  BY IpcOnly DEF Lists
<1>2. s.at \in [Threads -> Objects \cup {NULL, Sleep}]
  BY DEF Lists, IpcTyped
<1>3. \A u \in Threads, o \in Objects : WaitsAt(r, u, o) <=> WaitsAt(s, u, o)
  BY <1>1, <1>2 DEF WaitsAt
<1>4. Queues(r)
  BY <1>1, <1>3 DEF Lists, Queues
<1>5. Ordered(r)
  BY <1>1 DEF Lists, Ordered
<1> QED
  BY <1>1, <1>4, <1>5 DEF Lists

(* The woken thread returns from its take call, with the token if it has   *)
(* one.                                                                    *)
LEMMA SemReturned ==
  ASSUME NEW s, Settled(s), NEW o \in Sems, s.at[s.cur] = o
  PROVE  Settled(SemReturn(s, o)) /\ Quiet(s, SemReturn(s, o))
<1> DEFINE t == s.cur
           n == IF s.err[t] = "EOK" THEN s.net[o] - 1 ELSE s.net[o]
           r == [s EXCEPT !.at[t] = NULL, !.net[o] = n]
           F == {"at", "net"}
<1>0. /\ Lists(s) /\ Books(s) /\ Shape(s) /\ IpcTyped(s) /\ IpcFields \subseteq DOMAIN s /\ TokenOf(s, o)
      /\ s.value \in [Sems -> 0 .. SemMax] /\ s.net \in [Sems -> Int] /\ o \in Objects /\ o # NULL /\ o \notin Mutexes
      /\ t \in Threads /\ s.stat[t] = "RUNNING" /\ s.at \in [Threads -> Objects \cup {NULL, Sleep}]
      /\ s.timer \subseteq Threads
  BY SettledIs, SemIs DEF Books, Tokens, Settled
<1>1. SemReturn(s, o) = r
  BY DEF SemReturn
<1>2. n \in Int
  BY <1>0
<1>3. Changes(s, r, F) /\ r.at = [s.at EXCEPT ![t] = NULL] /\ r.net = [s.net EXCEPT ![o] = n]
  <2> HIDE DEF n, t
  <2> QED
    BY <1>0 DEF Shape, Changes, IpcFields
<1> HIDE DEF r, t
<1>4. SameBooks(s, r) /\ r.value = s.value /\ r.err = s.err
  BY <1>0, <1>3, KeptIpc DEF SameBooks
<1>5. IpcTyped(r)
  <2>1. r.at \in [Threads -> Objects \cup {NULL, Sleep}] /\ r.net \in [Sems -> Int]
    BY <1>0, <1>2, <1>3
  <2> QED
    BY <1>0, <1>3, <2>1, IpcTypedAgain
<1>6. Lists(r) /\ r.cur = s.cur /\ r.stat = s.stat /\ r.lock = s.lock /\ r.timer = s.timer
  <2>1. F \cap Fields = {} /\ s.stat[t] # "SUSPEND"
    BY <1>0 DEF Fields
  <2> HIDE DEF F
  <2> QED
    BY <1>0, <1>3, <1>5, <2>1, AtSet
<1>7. \A x : x # o /\ x # NULL => SameAt(s, r, x)
  <2>1. SUFFICES ASSUME NEW x, x # o, x # NULL, NEW u \in Threads
                 PROVE  /\ r.at[u] = x <=> s.at[u] = x
                        /\ WaitsAt(r, u, x) <=> WaitsAt(s, u, x)
                        /\ Granted(r, u, x) <=> Granted(s, u, x)
                        /\ r.at[u] = x => r.err[u] = s.err[u]
    BY DEF SameAt
  <2>2. r.at[u] = x <=> s.at[u] = x
    BY <1>0, <1>3, <2>1 DEF t
  <2> QED
    BY <1>4, <1>6, <2>2 DEF WaitsAt, Granted
<1>8. TokenOf(r, o)
  <2>1. \A u \in Threads : /\ Granted(r, u, o) <=> u # t /\ Granted(s, u, o)
                           /\ WaitsAt(r, u, o) <=> WaitsAt(s, u, o)
    BY <1>0, <1>3, <1>4, <1>6 DEF Granted, WaitsAt
  <2>2. Holders(r, o) = Holders(s, o) \ {t}
    BY <2>1 DEF Holders
  <2>3. t \in Holders(s, o) <=> s.err[t] = "EOK"
    BY <1>0 DEF Holders, Granted, t
  <2> DEFINE c == Cardinality(Holders(s, o))
             d == Cardinality(Holders(r, o))
  <2>4. c \in Nat /\ d = IF s.err[t] = "EOK" THEN c - 1 ELSE c
    <3>1. IsFiniteSet(Holders(s, o)) /\ c \in Nat
      BY HoldersFinite
    <3>2. Cardinality(Holders(s, o) \ {t}) = IF t \in Holders(s, o) THEN c - 1 ELSE c
      BY <3>1, FS_RemoveElement
    <3> QED
      BY <2>2, <2>3, <3>1, <3>2
  <2>5. r.net[o] = n /\ s.value[o] = s.net[o] - c
    BY <1>0, <1>3 DEF TokenOf
  <2> HIDE DEF c, d
  <2>6. r.value[o] = r.net[o] - d
    BY <1>0, <1>4, <2>4, <2>5
  <2> QED
    BY <1>0, <1>4, <2>1, <2>6 DEF TokenOf, d
<1>9. Tokens(r)
  <2>1. SUFFICES ASSUME NEW x \in Sems, x # o PROVE TokenOf(r, x)
    BY <1>8 DEF Tokens
  <2>2. TokenOf(s, x) /\ SameAt(s, r, x) /\ r.value[x] = s.value[x] /\ r.net[x] = s.net[x]
    BY <1>0, <1>3, <1>4, <1>7, <2>1, SemIs DEF Books, Tokens
  <2> QED
    BY <2>2, TokenKept
<1>10. Threadly(r)
  <2>1. \A u \in Threads : r.at[u] # NULL => s.at[u] # NULL
    BY <1>0, <1>3
  <2> QED
    BY <1>0, <1>4, <1>6, <2>1 DEF Books, Threadly, SameBooks, Up
<1>11. \A m \in Mutexes : SameAt(s, r, m)
  BY <1>0, <1>7, MutexIs
<1>12. Books(r)
  BY <1>0, <1>4, <1>9, <1>10, <1>11, BooksBut
<1>13. Settled(r)
  BY <1>0, <1>6, <1>12 DEF Settled, t
<1>14. Quiet(s, r)
  <2>1. NULL \notin Mutexes /\ r.timer \subseteq s.timer \cup {t}
    BY <1>6, MutexIs
  <2> QED
    BY <1>0, <1>3, <2>1, QuietOther
<1> QED
  BY <1>1, <1>13, <1>14

-----------------------------------------------------------------------------
(* Threads.                                                                *)

(* A thread that waits for nothing changes its status: no book is touched. *)
LEMMA AloneBooks ==
  ASSUME NEW s, Lists(s), Books(s), NEW t \in Threads, s.at[t] = NULL, NEW r,
         r.at = s.at, r.taken = s.taken, r.owner = s.owner, r.hold = s.hold, r.got = s.got, r.obj = s.obj,
         r.fault = s.fault, r.value = s.value, r.net = s.net, r.lock = s.lock, r.pend[t] \in {NULL, s.pend[t]},
         \A u \in Threads \ {t} : r.stat[u] = s.stat[u] /\ r.err[u] = s.err[u] /\ r.pend[u] = s.pend[u],
         s.taken[t] = {} \/ r.stat[t] = "SUSPEND" \/ Up(r, t),
         r.timer \subseteq s.timer, t \in r.timer => r.stat[t] = "SUSPEND"
  PROVE  Books(r)
<1>0. s.timer \subseteq Threads /\ IpcTyped(s)
  BY DEF Lists, Inv, Sound, Typed
<1>1. \A x : x # NULL => SameAt(s, r, x)
  <2>1. SUFFICES ASSUME NEW x, x # NULL, NEW u \in Threads
                 PROVE  /\ r.at[u] = x <=> s.at[u] = x
                        /\ WaitsAt(r, u, x) <=> WaitsAt(s, u, x)
                        /\ Granted(r, u, x) <=> Granted(s, u, x)
                        /\ r.at[u] = x => r.err[u] = s.err[u]
    BY DEF SameAt
  <2>2. CASE u = t
    BY <2>1, <2>2 DEF WaitsAt, Granted
  <2>3. CASE u # t
    BY <2>3 DEF WaitsAt, Granted
  <2> QED
    BY <2>2, <2>3
<1>2. Tokens(r) /\ Owners(r)
  BY <1>1, TokensKept, OwnersKept, SemIs, MutexIs DEF Books
<1>3. Threadly(r)
  <2>1. ASSUME NEW u \in Threads, r.at[u] # NULL \/ r.taken[u] # {} PROVE r.stat[u] = "SUSPEND" \/ Up(r, u)
    BY <2>1 DEF Books, Threadly, Up
  <2>2. ASSUME NEW u \in r.timer PROVE r.stat[u] = "SUSPEND"
    BY <1>0, <2>2 DEF Books, Threadly
  <2> QED
    BY <2>1, <2>2 DEF Books, Threadly
<1>4. Pends(r)
  <2>1. \A u \in Threads, m \in Mutexes : WaitsAt(r, u, m) => WaitsAt(s, u, m) /\ u # t
    BY <1>1, MutexIs DEF SameAt, WaitsAt
  <2>2. ASSUME NEW u \in Threads, r.pend[u] # NULL, r.obj[r.pend[u]] # "detached" PROVE WaitsAt(r, u, r.pend[u])
    <3>1. r.pend[u] = s.pend[u]
      BY <2>2
    <3>2. WaitsAt(s, u, s.pend[u]) /\ s.pend[u] \in Mutexes
      BY <1>0, <2>2, <3>1 DEF Books, Pends, IpcTyped
    <3>3. SameAt(s, r, s.pend[u])
      BY <1>1, <3>2, MutexIs
    <3> QED
      BY <3>1, <3>2, <3>3 DEF SameAt
  <2> QED
    BY <2>1, <2>2 DEF Books, Pends
<1> QED
  BY <1>2, <1>3, <1>4 DEF Books

(* A thread that is not there, or not started, waits for nothing and owns  *)
(* nothing.                                                                *)
LEMMA NewAlone ==
  ASSUME NEW s, Lists(s), Books(s), NEW t \in Threads, s.stat[t] \in {"NONE", "INIT", "CLOSE"}
  PROVE  s.at[t] = NULL /\ s.taken[t] = {} /\ t \notin s.timer /\ \A o \in Objects : ~On(t, s.list[o])
BY DEF Books, Threadly, Up, Lists, Inv, Sound, Placed

(* rt_thread_create.                                                       *)
LEMMA Creates ==
  ASSUME NEW s, Lists(s), Books(s), NEW t \in Threads, NEW p \in Priorities, s.stat[t] = "NONE"
  PROVE  LET r == _thread_init(s, t, p) IN
         /\ Lists(r) /\ Books(r) /\ SameIpc(s, r) /\ r.mprio = s.mprio /\ r.cur = s.cur
         /\ r.stat = [s.stat EXCEPT ![t] = "INIT"] /\ r.prio = [s.prio EXCEPT ![t] = p] /\ Quiet(s, r)
<1> DEFINE r == _thread_init(s, t, p)
           F == {"prio", "stat", "yield"}
<1>0. Inv(s) /\ Typed(s) /\ Shape(s) /\ IpcTyped(s) /\ s.stat \in [Threads -> Stats] /\ s.prio \in [Threads -> Priorities]
  BY DEF Lists, Inv, Sound, Typed
<1>1. Inv(r) /\ Changes(s, r, F) /\ r.stat = [s.stat EXCEPT ![t] = "INIT"]
  BY <1>0, Initialised
<1>2. r.prio = [s.prio EXCEPT ![t] = p]
  BY <1>0 DEF _thread_init, Shape, Fields
<1> HIDE DEF r
<1>3. r.cur = s.cur /\ r.list = s.list /\ r.lock = s.lock /\ r.timer = s.timer
  BY <1>0, <1>1, Kept
<1>4. IpcTyped(r) /\ SameIpc(s, r) /\ r.mprio = s.mprio
  <2>1. F \cap IpcFields = {}
    BY DEF IpcFields
  <2> QED
    BY <1>0, <1>1, <2>1, SchedulerOnly
<1>5. s.at[t] = NULL /\ s.taken[t] = {} /\ t \notin s.timer /\ \A o \in Objects : ~On(t, s.list[o])
  BY NewAlone
<1>6. Queues(r)
  <2>1. SUFFICES ASSUME NEW u \in Threads, NEW o \in Objects PROVE On(u, r.list[o]) <=> WaitsAt(r, u, o)
    BY DEF Queues
  <2>2. On(u, s.list[o]) <=> WaitsAt(s, u, o)
    BY DEF Lists, Queues
  <2> QED
    BY <1>0, <1>1, <1>3, <1>4, <2>2 DEF WaitsAt, SameIpc
<1>7. Ordered(r)
  <2>1. SUFFICES ASSUME NEW m \in Mutexes PROVE Sorted(r.prio, r.list[m])
    BY DEF Ordered
  <2>2. s.list[m] \in Seq(Threads) /\ Sorted(s.prio, s.list[m]) /\ ~On(t, s.list[m])
    BY <1>0, <1>5, MutexIs DEF Lists, Typed, Ordered
  <2>3. \A u \in Threads : On(u, s.list[m]) => r.prio[u] = s.prio[u]
    BY <1>0, <1>2, <2>2
  <2> QED
    BY <1>3, <2>2, <2>3, SortedBy
<1>8. Books(r)
  <2>1. SameStat(s, r)
    BY <1>0, <1>1 DEF SameStat, Up
  <2>2. s.timer \subseteq Threads
    BY <1>0 DEF Typed
  <2> QED
    BY <1>0, <1>3, <1>4, <2>1, <2>2, BooksKept
<1>9. Quiet(s, r)
  BY <1>3, <1>4, QuietSame DEF SameIpc
<1> QED
  BY <1>1, <1>2, <1>3, <1>4, <1>6, <1>7, <1>8, <1>9 DEF Lists, r

(* A resumed thread is woken.                                              *)
LEMMA ResumeWakes ==
  ASSUME NEW s, Lists(s), NEW t \in Threads, s.stat[t] = "SUSPEND"
  PROVE  LET r == rt_thread_resume(s, t) IN Woke(s, r, {t}) /\ r.err = s.err
<1> DEFINE r == rt_thread_resume(s, t)
<1>0. s.stat \in [Threads -> Stats]
  BY DEF Lists, Inv, Sound, Typed
<1>1. /\ Lists(r) /\ SameIpc(s, r) /\ r.mprio = s.mprio
      /\ r.cur = s.cur /\ r.lock = s.lock /\ r.prio = s.prio /\ r.timer = s.timer \ {t}
      /\ Up(r, t) /\ r.stat = [s.stat EXCEPT ![t] = r.stat[t]]
  BY ResumesOne
<1> HIDE DEF r
<1>2. SameBooks(s, r) /\ r.err = s.err /\ r.at = s.at /\ r.value = s.value /\ r.net = s.net
  BY <1>1 DEF SameIpc, SameBooks
<1>3. \A u \in Threads \ {t} : r.stat[u] = s.stat[u] /\ r.err[u] = s.err[u]
  BY <1>0, <1>1, <1>2
<1> QED
  BY <1>1, <1>2, <1>3 DEF Woke, r

(* rt_thread_startup of a new thread.                                      *)
LEMMA Starts ==
  ASSUME NEW s, Lists(s), Books(s), NEW t \in Threads, s.stat[t] = "INIT"
  PROVE  Settled(rt_thread_startup(s, t)) /\ Best(rt_thread_startup(s, t)) /\ Quiet(s, rt_thread_startup(s, t))
<1> DEFINE c == [s EXCEPT !.stat[t] = "SUSPEND"]
           d == rt_thread_resume(c, t)
<1>0. Inv(s) /\ Sound(s) /\ Runs(s) /\ Typed(s) /\ Shape(s) /\ IpcTyped(s) /\ s.stat \in [Threads -> Stats]
      /\ Idle \in Threads
  BY DEF Lists, Inv, Sound, Typed, Threads
<1>1. s.at[t] = NULL /\ s.taken[t] = {} /\ t \notin s.timer
  BY NewAlone
<1>2. Sound(c) /\ Changes(s, c, {"stat"}) /\ c.stat = [s.stat EXCEPT ![t] = "SUSPEND"]
  <2>1. SoundBut(s, t)
    BY <1>0, NotLinked
  <2>2. "SUSPEND" \in Stats \ {"READY", "CLOSE"}
    BY DEF Stats
  <2> QED
    BY <2>1, <2>2, StatusGiven
<1> HIDE DEF c
<1>3. c.cur = s.cur /\ c.list = s.list /\ c.prio = s.prio /\ c.lock = s.lock /\ c.timer = s.timer
  BY <1>0, <1>2, Kept
<1>4. IpcTyped(c) /\ SameIpc(s, c)
  <2>1. {"stat"} \cap IpcFields = {}
    BY DEF IpcFields
  <2> QED
    BY <1>0, <1>2, <2>1, SchedulerOnly
<1>5. Inv(c)
  <2>1. Runs(c)
    BY <1>0, <1>2, <1>3 DEF Runs
  <2> QED
    BY <1>2, <2>1 DEF Inv
<1>6. Queues(c)
  <2>1. SUFFICES ASSUME NEW u \in Threads, NEW o \in Objects PROVE On(u, c.list[o]) <=> WaitsAt(c, u, o)
    BY DEF Queues
  <2>2. (On(u, s.list[o]) <=> WaitsAt(s, u, o)) /\ o # NULL
    BY NullAssumption DEF Lists, Queues
  <2>3. CASE u = t
    BY <1>1, <1>3, <1>4, <2>2, <2>3 DEF WaitsAt, SameIpc
  <2>4. CASE u # t
    BY <1>0, <1>2, <1>3, <1>4, <2>2, <2>4 DEF WaitsAt, SameIpc
  <2> QED
    BY <2>3, <2>4
<1>7. Lists(c)
  BY <1>3, <1>4, <1>5, <1>6 DEF Lists, Ordered
<1>8. Books(c)
  <2>1. \A u \in Threads \ {t} : c.stat[u] = s.stat[u] /\ c.err[u] = s.err[u] /\ c.pend[u] = s.pend[u]
    BY <1>0, <1>2, <1>4 DEF SameIpc
  <2>2. c.pend[t] \in {NULL, s.pend[t]} /\ c.timer \subseteq s.timer /\ t \notin c.timer
    BY <1>1, <1>3, <1>4 DEF SameIpc
  <2> QED
    BY <1>1, <1>3, <1>4, <2>1, <2>2, AloneBooks DEF SameIpc
<1>9. Woke(c, d, {t})
  <2>1. c.stat[t] = "SUSPEND"
    BY <1>0, <1>2
  <2> QED
    BY <1>7, <2>1, ResumeWakes
<1>10. rt_thread_startup(s, t) = rt_schedule(d)
  BY DEF rt_thread_startup, c
<1> HIDE DEF d
<1>11. Books(d) /\ Lists(d)
  <2>1. c.at[t] = NULL /\ NULL \notin Sems /\ NULL \notin Mutexes
    BY <1>1, <1>4, SemIs, MutexIs DEF SameIpc
  <2> QED
    BY <1>7, <1>8, <1>9, <2>1, WokeBooks DEF Woke
<1>12. Quiet(s, d)
  <2>1. d.at = s.at /\ d.timer \subseteq s.timer
    BY <1>3, <1>4, <1>9 DEF Woke, SameIpc
  <2> QED
    BY <2>1, QuietSame
<1> QED
  BY <1>10, <1>11, <1>12, SettlesFrom

(* The fields of a new thread are set.                                     *)
LEMMA NewSet ==
  ASSUME NEW s, Lists(s), Books(s), NEW t \in Threads, NEW p \in Priorities, s.stat[t] = "INIT"
  PROVE  LET r == [s EXCEPT !.base[t] = p, !.err[t] = "EOK", !.pend[t] = NULL, !.taken[t] = {}] IN
         Lists(r) /\ Books(r) /\ r.stat = s.stat /\ Quiet(s, r)
<1> DEFINE r == [s EXCEPT !.base[t] = p, !.err[t] = "EOK", !.pend[t] = NULL, !.taken[t] = {}]
           F == {"base", "err", "pend", "taken"}
<1>0. /\ Shape(s) /\ IpcTyped(s) /\ IpcFields \subseteq DOMAIN s /\ s.base \in [Threads -> Priorities]
      /\ s.err \in [Threads -> Errors] /\ s.pend \in [Threads -> Mutexes \cup {NULL}]
      /\ s.taken \in [Threads -> SUBSET Mutexes]
  BY DEF Lists, Inv, Sound, Typed, IpcTyped
<1>1. s.at[t] = NULL /\ s.taken[t] = {} /\ t \notin s.timer
  BY NewAlone
<1>2. /\ Changes(s, r, F) /\ r.base = [s.base EXCEPT ![t] = p] /\ r.err = [s.err EXCEPT ![t] = "EOK"]
      /\ r.pend = [s.pend EXCEPT ![t] = NULL] /\ r.taken = [s.taken EXCEPT ![t] = {}]
  BY <1>0 DEF Shape, Changes, IpcFields
<1> HIDE DEF r
<1>3. r.taken = s.taken
  BY <1>0, <1>1, <1>2
<1>4. IpcTyped(r)
  <2>1. /\ r.base \in [Threads -> Priorities] /\ r.err \in [Threads -> Errors]
        /\ r.pend \in [Threads -> Mutexes \cup {NULL}] /\ r.taken \in [Threads -> SUBSET Mutexes]
    BY <1>0, <1>2 DEF Errors
  <2> QED
    BY <1>0, <1>2, <2>1, IpcTypedAgain
<1>5. Lists(r) /\ r.at = s.at /\ r.stat = s.stat /\ r.lock = s.lock /\ r.timer = s.timer
  <2>1. F \cap Fields = {} /\ "at" \notin F
    BY DEF Fields
  <2> HIDE DEF F
  <2> QED
    BY <1>2, <1>4, <2>1, ListsKept
<1>6. r.owner = s.owner /\ r.hold = s.hold /\ r.got = s.got /\ r.obj = s.obj /\ r.fault = s.fault
      /\ r.value = s.value /\ r.net = s.net
  BY <1>0, <1>2, KeptIpc
<1>7. \A u \in Threads \ {t} : r.stat[u] = s.stat[u] /\ r.err[u] = s.err[u] /\ r.pend[u] = s.pend[u]
  BY <1>0, <1>2, <1>5
<1>8. r.pend[t] \in {NULL, s.pend[t]} /\ r.timer \subseteq s.timer /\ t \notin r.timer
  BY <1>0, <1>1, <1>2, <1>5
<1>9. Books(r)
  BY <1>1, <1>3, <1>5, <1>6, <1>7, <1>8, AloneBooks
<1>10. Quiet(s, r)
  BY <1>5, QuietSame
<1> QED
  BY <1>5, <1>9, <1>10 DEF r

(* Start: a thread is created and started.                                 *)
LEMMA ThreadStarted ==
  ASSUME NEW s, Settled(s), NEW t \in Workers, s.stat[t] = "NONE"
  PROVE  Settled(Start(s, t)) /\ Best(Start(s, t)) /\ Quiet(s, Start(s, t))
<1> DEFINE p == Prio[t]
           a == _thread_init(s, t, p)
           b == [a EXCEPT !.base[t] = p, !.err[t] = "EOK", !.pend[t] = NULL, !.taken[t] = {}]
<1>0. Lists(s) /\ Books(s) /\ s.stat \in [Threads -> Stats] /\ t \in Threads /\ p \in Priorities
  BY SettledIs, PrioAssumption DEF Threads
<1>1. Start(s, t) = rt_thread_startup(b, t)
  BY DEF Start
<1> HIDE DEF p
<1>2. Lists(a) /\ Books(a) /\ a.stat = [s.stat EXCEPT ![t] = "INIT"] /\ Quiet(s, a)
  BY <1>0, Creates
<1>3. a.stat[t] = "INIT"
  BY <1>0, <1>2
<1> HIDE DEF a
<1>4. Lists(b) /\ Books(b) /\ b.stat = a.stat /\ Quiet(a, b)
  <2>1. t \in Threads /\ p \in Priorities /\ Lists(a) /\ Books(a) /\ a.stat[t] = "INIT"
    BY <1>0, <1>2, <1>3
  <2> QED
    BY <2>1, NewSet, ZenonT(40)
<1> HIDE DEF b
<1>5. Settled(Start(s, t)) /\ Best(Start(s, t)) /\ Quiet(b, Start(s, t))
  BY <1>0, <1>1, <1>3, <1>4, Starts
<1> QED
  BY <1>2, <1>4, <1>5, QuietTwice

(* rt_thread_yield.                                                        *)
LEMMA Yields ==
  ASSUME NEW s, Settled(s)
  PROVE  Settled(rt_thread_yield(s)) /\ Best(rt_thread_yield(s)) /\ Quiet(s, rt_thread_yield(s))
<1> DEFINE y == s.yield \cup {s.cur}
           q == [s EXCEPT !.yield = y]
           F == {"yield"}
<1>0. Lists(s) /\ Books(s) /\ Inv(s) /\ Typed(s) /\ Shape(s) /\ IpcTyped(s) /\ s.timer \subseteq Threads
  BY SettledIs
<1>1. y \in SUBSET Threads
  BY <1>0 DEF Typed
<1>2. rt_thread_yield(s) = rt_schedule(q)
  BY DEF rt_thread_yield
<1> HIDE DEF y
<1>3. Typed(q) /\ Changes(s, q, F)
  BY <1>0, <1>1, FieldsSet
<1> HIDE DEF q
<1>4. q.cur = s.cur /\ q.stat = s.stat /\ q.prio = s.prio /\ q.list = s.list /\ q.lock = s.lock /\ q.timer = s.timer
  BY <1>0, <1>3, Kept
<1>5. IpcTyped(q) /\ SameIpc(s, q) /\ Inv(q)
  <2>1. F \cap IpcFields = {} /\ F \cap Fields \subseteq {"timer", "yield", "lock"}
    BY DEF IpcFields
  <2> HIDE DEF F
  <2> QED
    BY <1>0, <1>3, <2>1, SchedulerOnly, RunsAgain
<1>6. Lists(q)
  BY <1>0, <1>4, <1>5 DEF Lists, Queues, Ordered, WaitsAt, SameIpc
<1>7. Books(q)
  <2>1. SameStat(s, q)
    BY <1>4 DEF SameStat, Up
  <2> QED
    BY <1>0, <1>4, <1>5, <2>1, BooksKept
<1>8. Quiet(s, q)
  BY <1>4, <1>5, QuietSame DEF SameIpc
<1> QED
  BY <1>2, <1>6, <1>7, <1>8, SettlesFrom

(* The idle thread frees closed threads.                                   *)
LEMMA IdleReaps ==
  ASSUME NEW s, Settled(s), s.cur = Idle
  PROVE  Settled(rt_defunct_execute(s)) /\ Quiet(s, rt_defunct_execute(s))
<1> DEFINE r == rt_defunct_execute(s)
           F == {"stat", "list"}
<1>0. Lists(s) /\ Books(s) /\ Inv(s) /\ Typed(s) /\ Shape(s) /\ IpcTyped(s) /\ s.timer \subseteq Threads
      /\ s.stat \in [Threads -> Stats] /\ s.stat[s.cur] = "RUNNING" /\ s.cur \in Threads
      /\ s.list \in [Heads -> Seq(Threads)]
  BY SettledIs DEF Settled, Typed
<1>1. /\ Inv(r) /\ Changes(s, r, F)
      /\ r.stat = [t \in Threads |-> IF s.stat[t] = "CLOSE" THEN "NONE" ELSE s.stat[t]]
  BY <1>0, Reaped
<1>2. \A o \in Objects : r.list[o] = s.list[o]
  BY <1>0, HeadsAre DEF rt_defunct_execute, Shape, Fields
<1> HIDE DEF r
<1>3. r.cur = s.cur /\ r.prio = s.prio /\ r.lock = s.lock /\ r.timer = s.timer
  BY <1>0, <1>1, Kept
<1>4. IpcTyped(r) /\ SameIpc(s, r)
  <2>1. F \cap IpcFields = {}
    BY DEF IpcFields
  <2> HIDE DEF F
  <2> QED
    BY <1>0, <1>1, <2>1, SchedulerOnly
<1>5. SameStat(s, r) /\ r.stat[r.cur] = "RUNNING"
  BY <1>0, <1>1, <1>3 DEF SameStat, Up
<1>6. Lists(r)
  <2>1. \A m \in Mutexes : r.list[m] = s.list[m]
    BY <1>2, MutexIs
  <2> QED
    BY <1>0, <1>1, <1>2, <1>3, <1>4, <1>5, <2>1 DEF Lists, Queues, Ordered, WaitsAt, SameIpc, SameStat
<1>7. Books(r)
  BY <1>0, <1>3, <1>4, <1>5, BooksKept
<1>8. Quiet(s, r)
  BY <1>3, <1>4, QuietSame DEF SameIpc
<1> QED
  BY <1>5, <1>6, <1>7, <1>8 DEF Settled, r

(* rt_thread_suspend of the running thread, which waits for nothing.       *)
LEMMA SuspendsSelf ==
  ASSUME NEW s, Settled(s), s.cur # Idle, s.at[s.cur] = NULL
  PROVE  LET r == rt_thread_suspend(s, s.cur) IN
         /\ Lists(r) /\ SameIpc(s, r) /\ r.mprio = s.mprio /\ r.stat = [s.stat EXCEPT ![s.cur] = "SUSPEND"]
         /\ r.timer = s.timer \ {s.cur} /\ r.lock = s.lock /\ r.cur = s.cur
<1> DEFINE t == s.cur
           r == rt_thread_suspend(s, t)
           F == {"stat", "group", "list", "timer"}
<1>0. /\ Lists(s) /\ Inv(s) /\ Typed(s) /\ Shape(s) /\ IpcTyped(s) /\ s.stat \in [Threads -> Stats]
      /\ t \in Threads \ {Idle} /\ s.stat[t] \in {"READY", "RUNNING"}
  BY SettledIs DEF Settled
<1>1. /\ Inv(r) /\ Changes(s, r, F) /\ r.stat = [s.stat EXCEPT ![t] = "SUSPEND"]
      /\ \A o \in Objects : r.list[o] = s.list[o]
      /\ r.timer = s.timer \ {t}
  BY <1>0, Suspended, SuspendedLists
<1> HIDE DEF r
<1>2. r.cur = s.cur /\ r.lock = s.lock /\ r.prio = s.prio
  BY <1>0, <1>1, Kept
<1>3. IpcTyped(r) /\ SameIpc(s, r) /\ r.mprio = s.mprio
  <2>1. F \cap IpcFields = {}
    BY DEF IpcFields
  <2> HIDE DEF F
  <2> QED
    BY <1>0, <1>1, <2>1, SchedulerOnly
<1>4. Queues(r)
  <2>1. SUFFICES ASSUME NEW u \in Threads, NEW o \in Objects PROVE On(u, r.list[o]) <=> WaitsAt(r, u, o)
    BY DEF Queues
  <2>2. (On(u, s.list[o]) <=> WaitsAt(s, u, o)) /\ o # NULL
    BY <1>0, NullAssumption DEF Lists, Queues
  <2>3. CASE u = t
    BY <1>0, <1>1, <1>3, <2>2, <2>3 DEF WaitsAt, SameIpc
  <2>4. CASE u # t
    BY <1>0, <1>1, <1>3, <2>2, <2>4 DEF WaitsAt, SameIpc
  <2> QED
    BY <2>3, <2>4
<1>5. Ordered(r)
  BY <1>0, <1>1, <1>2, MutexIs DEF Lists, Ordered
<1> QED
  BY <1>1, <1>2, <1>3, <1>4, <1>5 DEF Lists, r

(* A thread suspends itself.                                               *)
LEMMA SelfSuspended ==
  ASSUME NEW s, Settled(s), s.cur # Idle, s.at[s.cur] = NULL
  PROVE  LET r == rt_schedule(rt_thread_suspend(s, s.cur)) IN Settled(r) /\ Best(r) /\ Quiet(s, r)
<1> DEFINE t == s.cur
           q == rt_thread_suspend(s, t)
<1>0. Lists(s) /\ Books(s) /\ t \in Threads /\ Up(s, t)
  BY SettledIs
<1>1. /\ Lists(q) /\ SameIpc(s, q) /\ q.stat = [s.stat EXCEPT ![t] = "SUSPEND"]
      /\ q.timer = s.timer \ {t} /\ q.lock = s.lock
  BY SuspendsSelf
<1> HIDE DEF q
<1>2. Parked(s, q, t)
  <2>1. NULL \notin Sems /\ NULL \notin Mutexes
    BY SemIs, MutexIs
  <2> QED
    BY <1>0, <1>1, <2>1 DEF Parked, SameBooks, SameIpc
<1>3. Books(q)
  BY <1>0, <1>2, ParkedBooks
<1>4. Quiet(s, q)
  BY <1>1, QuietSame DEF SameIpc
<1> QED
  BY <1>1, <1>3, <1>4, SettlesFrom DEF q, t

(* rt_thread_sleep.                                                        *)
LEMMA Sleeps ==
  ASSUME NEW s, Settled(s), s.cur # Idle, s.at[s.cur] = NULL
  PROVE  Settled(rt_thread_sleep(s)) /\ Best(rt_thread_sleep(s)) /\ Quiet(s, rt_thread_sleep(s))
<1> DEFINE t == s.cur
           q == rt_thread_suspend(s, t)
           r == [q EXCEPT !.timer = @ \cup {t}, !.err[t] = "EINTR", !.at[t] = Sleep]
           F == {"timer", "err", "at"}
<1>0. Lists(s) /\ Books(s) /\ t \in Threads /\ Up(s, t) /\ s.stat \in [Threads -> Stats]
      /\ s.at \in [Threads -> Objects \cup {NULL, Sleep}] /\ s.err \in [Threads -> Errors]
  BY SettledIs
<1>1. /\ Lists(q) /\ SameIpc(s, q) /\ q.stat = [s.stat EXCEPT ![t] = "SUSPEND"]
      /\ q.timer = s.timer \ {t} /\ q.lock = s.lock
  BY SuspendsSelf
<1>2. rt_thread_sleep(s) = rt_schedule(r)
  BY DEF rt_thread_sleep
<1> HIDE DEF q, t
<1>3. Inv(q) /\ Typed(q) /\ Shape(q) /\ IpcTyped(q) /\ IpcFields \subseteq DOMAIN q /\ Queues(q) /\ Ordered(q)
  BY <1>1 DEF Lists, Inv, Sound, Typed, IpcTyped
<1>4. /\ Changes(q, r, F) /\ r.timer = q.timer \cup {t} /\ r.err = [q.err EXCEPT ![t] = "EINTR"]
      /\ r.at = [q.at EXCEPT ![t] = Sleep]
  BY <1>3 DEF Shape, Changes, IpcFields, Fields
<1> HIDE DEF r
<1>5. /\ r.cur = q.cur /\ r.stat = q.stat /\ r.prio = q.prio /\ r.list = q.list /\ r.lock = q.lock
      /\ r.group = q.group /\ r.yield = q.yield
  BY <1>3, <1>4, Kept
<1>6. SameBooks(q, r) /\ r.value = q.value /\ r.net = q.net
  BY <1>3, <1>4, KeptIpc DEF SameBooks
<1>7. q.err = s.err /\ q.at = s.at
  BY <1>1 DEF SameIpc
<1>8. IpcTyped(r)
  <2>1. r.err \in [Threads -> Errors] /\ r.at \in [Threads -> Objects \cup {NULL, Sleep}]
    BY <1>0, <1>4, <1>7 DEF Errors
  <2> QED
    BY <1>3, <1>4, <2>1, IpcTypedAgain
<1>9. Inv(r)
  <2>1. r.timer \subseteq Threads
    BY <1>0, <1>3, <1>4 DEF Typed
  <2>2. Typed(r)
    BY <1>3, <1>4, <1>5, <2>1 DEF Typed, Changes
  <2>3. F \cap Fields \subseteq {"timer", "yield", "lock"}
    BY DEF Fields
  <2> HIDE DEF F
  <2> QED
    BY <1>3, <1>4, <2>2, <2>3, RunsAgain
<1>10. Queues(r)
  <2>1. SUFFICES ASSUME NEW u \in Threads, NEW o \in Objects PROVE On(u, r.list[o]) <=> WaitsAt(r, u, o)
    BY DEF Queues
  <2>2. (On(u, q.list[o]) <=> WaitsAt(q, u, o)) /\ o # NULL /\ o # Sleep
    BY <1>3, NullAssumption DEF Queues
  <2>3. CASE u = t
    BY <1>0, <1>4, <1>5, <1>7, <2>2, <2>3 DEF WaitsAt, t
  <2>4. CASE u # t
    BY <1>0, <1>4, <1>5, <1>7, <2>2, <2>4 DEF WaitsAt
  <2> QED
    BY <2>3, <2>4
<1>11. Lists(r)
  BY <1>3, <1>5, <1>8, <1>9, <1>10 DEF Lists, Ordered
<1>12. Parked(s, r, t)
  <2>1. SameBooks(s, r) /\ r.value = s.value /\ r.net = s.net /\ r.lock = s.lock
        /\ r.stat = [s.stat EXCEPT ![t] = "SUSPEND"] /\ r.timer \subseteq s.timer \cup {t}
    BY <1>1, <1>4, <1>5, <1>6 DEF SameBooks, SameIpc
  <2>2. \A u \in Threads \ {t} : r.at[u] = s.at[u] /\ r.err[u] = s.err[u]
    BY <1>0, <1>4, <1>7
  <2>3. r.at[t] = Sleep /\ Sleep \notin Sems /\ Sleep \notin Mutexes
    BY <1>0, <1>4, <1>7, SemIs, MutexIs
  <2>4. s.at[t] = NULL
    BY DEF t
  <2> QED
    BY <1>0, <1>11, <2>1, <2>2, <2>3, <2>4 DEF Parked
<1>13. Books(r)
  BY <1>0, <1>12, ParkedBooks
<1>14. Quiet(s, r)
  <2>1. /\ s.timer \subseteq Threads /\ r.at = [s.at EXCEPT ![t] = Sleep] /\ r.timer \subseteq s.timer \cup {t}
        /\ Sleep \notin Mutexes
    BY <1>1, <1>4, <1>7, SettledIs, MutexIs
  <2> QED
    BY <1>0, <2>1, QuietOther
<1> QED
  BY <1>2, <1>11, <1>13, <1>14, SettlesFrom

(* The end of rt_thread_sleep.                                             *)
LEMMA SleepReturned ==
  ASSUME NEW s, Settled(s), s.at[s.cur] = Sleep
  PROVE  Settled(SleepReturn(s)) /\ Quiet(s, SleepReturn(s))
<1> DEFINE t == s.cur
           e == IF s.err[t] = "ETIMEOUT" THEN "EOK" ELSE s.err[t]
           r == [s EXCEPT !.at[t] = NULL, !.err[t] = e]
           F == {"at", "err"}
<1>0. /\ Lists(s) /\ Books(s) /\ Shape(s) /\ IpcTyped(s) /\ IpcFields \subseteq DOMAIN s
      /\ t \in Threads /\ s.stat[t] = "RUNNING" /\ s.at \in [Threads -> Objects \cup {NULL, Sleep}]
      /\ s.err \in [Threads -> Errors] /\ s.timer \subseteq Threads
  BY SettledIs DEF Settled
<1>1. SleepReturn(s) = r
  BY DEF SleepReturn
<1>2. e \in Errors
  BY <1>0 DEF Errors
<1>3. Changes(s, r, F) /\ r.at = [s.at EXCEPT ![t] = NULL] /\ r.err = [s.err EXCEPT ![t] = e]
  <2> HIDE DEF e, t
  <2> QED
    BY <1>0 DEF Shape, Changes, IpcFields
<1> HIDE DEF r, e
<1>4. SameBooks(s, r) /\ r.value = s.value /\ r.net = s.net
  BY <1>0, <1>3, KeptIpc DEF SameBooks
<1>5. IpcTyped(r)
  <2>1. r.at \in [Threads -> Objects \cup {NULL, Sleep}] /\ r.err \in [Threads -> Errors]
    BY <1>0, <1>2, <1>3
  <2> QED
    BY <1>0, <1>3, <2>1, IpcTypedAgain
<1>6. Lists(r) /\ r.cur = s.cur /\ r.stat = s.stat /\ r.lock = s.lock /\ r.timer = s.timer
  <2>1. F \cap Fields = {} /\ s.stat[t] # "SUSPEND"
    BY <1>0 DEF Fields
  <2> HIDE DEF F
  <2> QED
    BY <1>0, <1>3, <1>5, <2>1, AtSet
<1>7. \A x \in Objects : SameAt(s, r, x)
  <2>1. SUFFICES ASSUME NEW x \in Objects, NEW u \in Threads
                 PROVE  /\ r.at[u] = x <=> s.at[u] = x
                        /\ WaitsAt(r, u, x) <=> WaitsAt(s, u, x)
                        /\ Granted(r, u, x) <=> Granted(s, u, x)
                        /\ r.at[u] = x => r.err[u] = s.err[u]
    BY DEF SameAt
  <2>2. x # NULL /\ x # Sleep
    BY NullAssumption
  <2>3. CASE u = t
    BY <1>0, <1>3, <2>2, <2>3 DEF WaitsAt, Granted
  <2>4. CASE u # t
    BY <1>0, <1>3, <1>6, <2>4 DEF WaitsAt, Granted
  <2> QED
    BY <2>3, <2>4
<1>8. Tokens(r) /\ \A m \in Mutexes : SameAt(s, r, m)
  BY <1>0, <1>4, <1>7, TokensKept, SemIs, MutexIs DEF Books
<1>9. Threadly(r)
  <2>1. \A u \in Threads : r.at[u] # NULL => s.at[u] # NULL
    BY <1>0, <1>3
  <2> QED
    BY <1>0, <1>4, <1>6, <2>1 DEF Books, Threadly, SameBooks, Up
<1>10. Books(r)
  BY <1>0, <1>4, <1>8, <1>9, BooksBut
<1>11. Quiet(s, r)
  <2>1. NULL \notin Mutexes /\ r.timer \subseteq s.timer \cup {t}
    BY <1>6, MutexIs
  <2> QED
    BY <1>0, <1>3, <2>1, QuietOther
<1> QED
  BY <1>0, <1>1, <1>6, <1>10, <1>11 DEF Settled

(* A thread that does not wait for a mutex is resumed.                     *)
LEMMA ThreadResumed ==
  ASSUME NEW s, Settled(s), NEW t \in Threads, s.stat[t] = "SUSPEND", s.at[t] \notin Mutexes
  PROVE  Settled(rt_thread_resume(s, t)) /\ Quiet(s, rt_thread_resume(s, t))
<1> DEFINE r == rt_thread_resume(s, t)
<1>0. Lists(s) /\ Books(s) /\ s.stat[s.cur] = "RUNNING" /\ s.cur \in Threads
  BY SettledIs DEF Settled
<1>1. Woke(s, r, {t}) /\ r.err = s.err
  BY <1>0, ResumeWakes
<1> HIDE DEF r
<1>2. s.at[t] \in Sems => r.err[t] # "EOK"
  BY <1>0, <1>1 DEF Books, Tokens, TokenOf, WaitsAt
<1>3. Books(r) /\ Lists(r)
  BY <1>0, <1>1, <1>2, WokeBooks DEF Woke
<1>4. r.stat[r.cur] = "RUNNING"
  BY <1>0, <1>1 DEF Woke
<1>5. Quiet(s, r)
  BY <1>1, QuietSame DEF Woke
<1> QED
  BY <1>3, <1>4, <1>5 DEF Settled, r

(* A timer expires: what _thread_timeout does is a resume with a timeout.  *)
LEMMA TimeoutIs ==
  ASSUME NEW s, Lists(s), NEW t \in Threads, s.stat[t] = "SUSPEND"
  PROVE  _thread_timeout(s, t) = rt_thread_resume([s EXCEPT !.err[t] = "ETIMEOUT"], t)
<1> DEFINE x == [s EXCEPT !.err[t] = "ETIMEOUT"]
           y == [s EXCEPT !.timer = @ \ {t}, !.err[t] = "ETIMEOUT"]
           a == [rt_list_remove(x, t) EXCEPT !.timer = @ \ {t}]
           b == rt_list_remove(y, t)
<1>0. Shape(s) /\ IpcFields \subseteq DOMAIN s
  BY DEF Lists, Inv, Sound, Typed, IpcTyped
<1>1. /\ Shape(x) /\ DOMAIN x = DOMAIN s /\ x.list = s.list /\ x.timer = s.timer /\ x.stat = s.stat
      /\ x.err = [s.err EXCEPT ![t] = "ETIMEOUT"] /\ \A f \in DOMAIN s \ {"err"} : x[f] = s[f]
  BY <1>0 DEF Shape, IpcFields, Fields
<1>2. /\ Shape(y) /\ DOMAIN y = DOMAIN s /\ y.list = s.list /\ y.timer = s.timer \ {t}
      /\ y.err = [s.err EXCEPT ![t] = "ETIMEOUT"] /\ \A f \in DOMAIN s \ {"err", "timer"} : y[f] = s[f]
  BY <1>0 DEF Shape, IpcFields, Fields
<1>3. rt_thread_resume(x, t) = rt_schedule_insert_thread(a, t)
  <2> HIDE DEF x
  <2> QED
    BY <1>1 DEF rt_thread_resume
<1>4. _thread_timeout(s, t) = rt_schedule_insert_thread(b, t)
  BY DEF _thread_timeout
<1> HIDE DEF x, y
<1>5. /\ Changes(x, rt_list_remove(x, t), {"list"})
      /\ rt_list_remove(x, t).list = [h \in DOMAIN x.list |-> RemoveFirst(x.list[h], t)]
  BY <1>1, RemoveIs
<1>6. /\ Changes(y, b, {"list"}) /\ b.list = [h \in DOMAIN y.list |-> RemoveFirst(y.list[h], t)]
  BY <1>2, RemoveIs
<1> DEFINE z == rt_list_remove(x, t)
<1>7. Shape(z) /\ z.timer = s.timer /\ DOMAIN z = DOMAIN s
  BY <1>1, <1>5 DEF Changes, Shape, Fields
<1> HIDE DEF z
<1>8. Shape(a) /\ DOMAIN a = DOMAIN s /\ a.timer = s.timer \ {t} /\ \A f \in DOMAIN s \ {"timer"} : a[f] = z[f]
  <2>1. a = [z EXCEPT !.timer = @ \ {t}]
    BY DEF z
  <2> HIDE DEF a
  <2> QED
    BY <1>7, <2>1 DEF Shape, Fields
<1> HIDE DEF a, b
<1>9. Shape(b) /\ DOMAIN b = DOMAIN s
  BY <1>2, <1>6 DEF Changes
<1>10. \A f \in DOMAIN s : a[f] = b[f]
  <2> TAKE f \in DOMAIN s
  <2>0. "timer" \in DOMAIN s /\ "list" \in DOMAIN s /\ "err" \in DOMAIN s
    BY <1>0 DEF Shape, Fields, IpcFields
  <2>1. CASE f = "timer"
    <3>1. b["timer"] = y["timer"] /\ y["timer"] = s.timer \ {t} /\ a["timer"] = s.timer \ {t}
      BY <1>2, <1>6, <1>8, <2>0 DEF Changes
    <3> QED
      BY <2>1, <3>1
  <2>2. CASE f = "list"
    <3>1. a["list"] = z["list"] /\ z["list"] = b["list"]
      BY <1>1, <1>2, <1>5, <1>6, <1>8, <2>0 DEF z
    <3> QED
      BY <2>2, <3>1
  <2>3. CASE f \notin {"timer", "list"}
    <3>1. a[f] = z[f] /\ z[f] = x[f] /\ b[f] = y[f]
      BY <1>1, <1>2, <1>5, <1>6, <1>8, <2>3 DEF Changes, z
    <3>2. x[f] = y[f]
      BY <1>1, <1>2, <2>3
    <3> QED
      BY <3>1, <3>2
  <2> QED
    BY <2>1, <2>2, <2>3
<1>11. a = b
  BY <1>8, <1>9, <1>10 DEF Shape
<1> QED
  BY <1>3, <1>4, <1>11 DEF x

(* The thread whose timer expired is woken with a timeout.                 *)
LEMMA Expires ==
  ASSUME NEW s, Settled(s), NEW t \in s.timer, s.at[t] \notin Mutexes
  PROVE  LET r == rt_schedule(_thread_timeout(s, t)) IN Settled(r) /\ Quiet(s, r)
<1> DEFINE r == rt_thread_resume([s EXCEPT !.err[t] = "ETIMEOUT"], t)
<1>0. Lists(s) /\ Books(s) /\ t \in Threads /\ s.stat[t] = "SUSPEND"
  BY SettledIs DEF Books, Threadly
<1>1. _thread_timeout(s, t) = r
  BY <1>0, TimeoutIs
<1>2. Woke(s, r, {t}) /\ r.err[t] = "ETIMEOUT"
  <2>1. "ETIMEOUT" \in Errors
    BY DEF Errors
  <2> QED
    BY <1>0, <2>1, WakesOne
<1> HIDE DEF r
<1>3. Books(r) /\ Lists(r)
  BY <1>0, <1>2, WokeBooks DEF Woke
<1>4. Quiet(s, r)
  BY <1>2, QuietSame DEF Woke
<1> QED
  BY <1>1, <1>3, <1>4, SettlesFrom

(* A thread that owns no mutex and has been woken has none to come back    *)
(* to but a detached one.                                                  *)
LEMMA BackToNone ==
  ASSUME NEW s, Lists(s), Books(s), NEW t \in Threads, s.taken[t] = {}, s.stat[t] # "SUSPEND",
         NEW m \in Mutexes, s.obj[m] = "live"
  PROVE  s.at[t] # m
<1>1. SUFFICES ASSUME s.at[t] = m PROVE FALSE
  OBVIOUS
<1>2. Up(s, t)
  BY <1>1, MutexIs DEF Books, Threadly
<1>3. OwnerOf(s, m) /\ s.got[m][t] \in Nat
  BY DEF Books, Owners, Lists, IpcTyped
<1>4. s.owner[m] # t
  BY <1>3 DEF OwnerOf
<1>5. Granted(s, t, m)
  BY <1>1, <1>2, <1>3 DEF OwnerOf, Granted, Up
<1>6. s.got[m][t] + 1 = 0
  BY <1>3, <1>4, <1>5 DEF OwnerOf
<1> QED
  BY <1>3, <1>6

(* What is left of the tokens when thread t is gone.                       *)
Left(s, t) == [o \in Sems |-> IF Granted(s, t, o) THEN s.net[o] - 1 ELSE s.net[o]]

(* Thread t is gone: in no waiting list, closed, with nothing in its       *)
(* books.                                                                  *)
Gone(s, r, t) ==
  /\ Lists(r) /\ r.base = s.base /\ r.taken = s.taken /\ r.owner = s.owner /\ r.hold = s.hold
  /\ r.ceil = s.ceil /\ r.got = s.got /\ r.obj = s.obj /\ r.fault = s.fault /\ r.err = s.err /\ r.value = s.value
  /\ r.net = Left(s, t) /\ r.at = [s.at EXCEPT ![t] = NULL] /\ r.stat = [s.stat EXCEPT ![t] = "CLOSE"]
  /\ r.timer \subseteq s.timer \ {t} /\ r.lock = s.lock
  /\ \A u \in Threads \ {t} : r.pend[u] = s.pend[u]
  /\ r.pend[t] = NULL \/ (r.pend[t] = s.pend[t] /\ s.obj[s.pend[t]] = "detached")

(* The books say so.                                                       *)
LEMMA GoneBooks ==
  ASSUME NEW s, Lists(s), Books(s), NEW t \in Threads, s.taken[t] = {}, NEW r, Gone(s, r, t)
  PROVE  Books(r)
<1>0. /\ s.stat \in [Threads -> Stats] /\ s.timer \subseteq Threads /\ IpcTyped(s)
      /\ s.at \in [Threads -> Objects \cup {NULL, Sleep}] /\ s.value \in [Sems -> 0 .. SemMax] /\ s.net \in [Sems -> Int]
  BY DEF Lists, Inv, Sound, Typed, IpcTyped
<1>1. /\ r.stat[t] = "CLOSE" /\ r.at[t] = NULL
      /\ \A u \in Threads \ {t} : r.stat[u] = s.stat[u] /\ r.at[u] = s.at[u]
  BY <1>0 DEF Gone
<1>2. Threadly(r)
  <2>1. \A u \in Threads : r.at[u] # NULL \/ r.taken[u] # {} => r.stat[u] = "SUSPEND" \/ Up(r, u)
    BY <1>1 DEF Gone, Books, Threadly, Up
  <2>2. \A u \in r.timer : r.stat[u] = "SUSPEND"
    BY <1>0, <1>1 DEF Gone, Books, Threadly
  <2> QED
    BY <2>1, <2>2 DEF Gone, Books, Threadly
<1>3. ASSUME NEW u \in Threads, NEW x, x # NULL
      PROVE  /\ WaitsAt(r, u, x) <=> u # t /\ WaitsAt(s, u, x)
             /\ Granted(r, u, x) <=> u # t /\ Granted(s, u, x)
  <2>2. CASE u = t
    BY <1>1, <1>3, <2>2 DEF WaitsAt, Granted
  <2>3. CASE u # t
    BY <1>1, <2>3 DEF WaitsAt, Granted, Gone
  <2> QED
    BY <2>2, <2>3
<1>4. Tokens(r)
  <2>1. SUFFICES ASSUME NEW o \in Sems PROVE TokenOf(r, o)
    BY DEF Tokens
  <2>2. TokenOf(s, o) /\ o # NULL /\ r.value[o] = s.value[o] /\ r.err = s.err
    BY SemIs DEF Books, Tokens, Gone
  <2>3. Holders(r, o) = Holders(s, o) \ {t}
    BY <1>3, <2>2 DEF Holders
  <2>4. t \in Holders(s, o) <=> Granted(s, t, o)
    BY DEF Holders
  <2> DEFINE c == Cardinality(Holders(s, o))
             d == Cardinality(Holders(r, o))
  <2>5. c \in Nat /\ d = IF Granted(s, t, o) THEN c - 1 ELSE c
    <3>1. IsFiniteSet(Holders(s, o)) /\ c \in Nat
      BY HoldersFinite
    <3>2. Cardinality(Holders(s, o) \ {t}) = IF t \in Holders(s, o) THEN c - 1 ELSE c
      BY <3>1, FS_RemoveElement
    <3> QED
      BY <2>3, <2>4, <3>1, <3>2
  <2>6. r.net[o] = (IF Granted(s, t, o) THEN s.net[o] - 1 ELSE s.net[o]) /\ s.value[o] = s.net[o] - c
    BY <2>2 DEF Gone, Left, TokenOf
  <2> HIDE DEF c, d
  <2>7. r.value[o] = r.net[o] - d
    BY <1>0, <2>2, <2>5, <2>6
  <2> QED
    BY <1>3, <2>2, <2>7 DEF TokenOf, d
<1>5. Owners(r)
  <2>1. ASSUME NEW m \in Mutexes, r.obj[m] = "live" PROVE OwnerOf(r, m)
    <3>1. OwnerOf(s, m) /\ m # NULL /\ s.obj[m] = "live"
      BY <2>1, MutexIs DEF Books, Owners, Gone
    <3>2. ~Granted(s, t, m)
      <4>1. CASE s.stat[t] = "SUSPEND"
        BY <4>1 DEF Granted
      <4>2. CASE s.stat[t] # "SUSPEND"
        BY <3>1, <4>2, BackToNone DEF Granted
      <4> QED
        BY <4>1, <4>2
    <3>3. \A u \in Threads : Granted(r, u, m) <=> Granted(s, u, m)
      BY <1>3, <3>1, <3>2
    <3>4. \A u \in Threads : r.at[u] = m => s.at[u] = m
      BY <1>1, <3>1
    <3>5. \A u \in Threads : WaitsAt(r, u, m) => WaitsAt(s, u, m)
      BY <1>3, <3>1
    <3>6. r.got = s.got /\ r.owner = s.owner /\ r.hold = s.hold /\ r.taken = s.taken /\ r.err = s.err
      BY DEF Gone
    <3> QED
      BY <3>1, <3>3, <3>4, <3>5, <3>6 DEF OwnerOf
  <2> QED
    BY <2>1 DEF Books, Owners, Gone
<1>6. Pends(r)
  <2>1. r.owner = s.owner /\ r.obj = s.obj
    BY DEF Gone
  <2>2. \A u \in Threads : r.at[u] \in Mutexes => r.owner[r.at[u]] # NULL
    BY <1>1, <2>1, MutexIs DEF Books, Pends
  <2>3. \A u \in Threads, m \in Mutexes : WaitsAt(r, u, m) => r.pend[u] = m /\ r.obj[m] = "live"
    BY <1>3, <2>1, MutexIs DEF Books, Pends, Gone
  <2>4. ASSUME NEW u \in Threads, r.pend[u] # NULL, r.obj[r.pend[u]] # "detached" PROVE WaitsAt(r, u, r.pend[u])
    <3>1. u # t
      BY <2>1, <2>4 DEF Gone
    <3>2. r.pend[u] = s.pend[u]
      BY <3>1 DEF Gone
    <3>3. WaitsAt(s, u, s.pend[u])
      BY <2>1, <2>4, <3>2 DEF Books, Pends
    <3> QED
      BY <1>3, <2>4, <3>1, <3>2, <3>3
  <2> QED
    BY <2>1, <2>2, <2>3, <2>4 DEF Books, Pends
<1> QED
  BY <1>2, <1>4, <1>5, <1>6 DEF Books

(* It waits for no mutex.                                                  *)
LEMMA GoneQuiet ==
  ASSUME NEW s, Lists(s), NEW t \in Threads, NEW r, Gone(s, r, t)
  PROVE  Quiet(s, r)
<1>1. s.at \in [Threads -> Objects \cup {NULL, Sleep}] /\ s.timer \subseteq Threads /\ NULL \notin Mutexes
  BY MutexIs DEF Lists, Inv, Sound, Typed, IpcTyped
<1>2. r.at = [s.at EXCEPT ![t] = NULL] /\ r.timer \subseteq s.timer \cup {t}
  BY DEF Gone
<1> QED
  BY <1>1, <1>2, QuietOther

(* The waiting lists hold the waiters, but t is not asked.                 *)
QueuesBut(s, t) == \A u \in Threads \ {t}, o \in Objects : On(u, s.list[o]) <=> WaitsAt(s, u, o)

(* The books of a closed thread are cleared: it is in no waiting list.     *)
LEMMA Cleared ==
  ASSUME NEW s, Inv(s), IpcTyped(s), Ordered(s), NEW t \in Threads, s.stat[t] = "CLOSE",
         QueuesBut(s, t), NEW n \in [Sems -> Int],
         NEW r, Changes(s, r, {"at", "net"}), r.at = [s.at EXCEPT ![t] = NULL], r.net = n
  PROVE  /\ Lists(r)
         /\ r.stat = s.stat /\ r.timer = s.timer /\ r.lock = s.lock /\ r.cur = s.cur /\ r.prio = s.prio
         /\ r.mprio = s.mprio /\ r.pend = s.pend /\ r.err = s.err /\ r.value = s.value
         /\ r.base = s.base /\ r.taken = s.taken /\ r.owner = s.owner /\ r.hold = s.hold
         /\ r.ceil = s.ceil /\ r.got = s.got /\ r.obj = s.obj /\ r.fault = s.fault
<1> DEFINE F == {"at", "net"}
<1>0. Shape(s) /\ IpcFields \subseteq DOMAIN s /\ s.at \in [Threads -> Objects \cup {NULL, Sleep}]
  BY DEF Inv, Sound, Typed, IpcTyped
<1>1. Changes(s, r, F)
  OBVIOUS
<1>2. /\ Inv(r) /\ r.cur = s.cur /\ r.stat = s.stat /\ r.prio = s.prio /\ r.list = s.list
      /\ r.lock = s.lock /\ r.timer = s.timer
  <2>1. F \cap Fields = {}
    BY DEF Fields
  <2> HIDE DEF F
  <2> QED
    BY <1>1, <2>1, IpcOnly
<1>3. /\ r.mprio = s.mprio /\ r.pend = s.pend /\ r.err = s.err /\ r.value = s.value
      /\ r.base = s.base /\ r.taken = s.taken /\ r.owner = s.owner /\ r.hold = s.hold
      /\ r.ceil = s.ceil /\ r.got = s.got /\ r.obj = s.obj /\ r.fault = s.fault
  BY <1>0, <1>1, KeptIpc
<1>4. IpcTyped(r)
  <2>1. r.at \in [Threads -> Objects \cup {NULL, Sleep}] /\ r.net \in [Sems -> Int]
    BY <1>0, <1>1
  <2> QED
    BY <1>1, <2>1, IpcTypedAgain
<1>5. Queues(r)
  <2>1. SUFFICES ASSUME NEW u \in Threads, NEW o \in Objects PROVE On(u, r.list[o]) <=> WaitsAt(r, u, o)
    BY DEF Queues
  <2>2. CASE u = t
    <3>1. ~On(t, s.list[o])
      BY DEF Inv, Sound, Placed
    <3> QED
      BY <1>2, <2>2, <3>1 DEF WaitsAt
  <2>3. CASE u # t
    BY <1>0, <1>1, <1>2, <2>3 DEF WaitsAt, QueuesBut
  <2> QED
    BY <2>2, <2>3
<1>6. Ordered(r)
  BY <1>2 DEF Ordered
<1> QED
  BY <1>1, <1>2, <1>3, <1>4, <1>5, <1>6 DEF Lists

(* What is true of a kernel in which thread t has just been closed: its    *)
(* books are still those of s.                                             *)
Closing(s, y, t) ==
  /\ Inv(y) /\ IpcTyped(y) /\ SameIpc(s, y) /\ Ordered(y) /\ QueuesBut(y, t)
  /\ y.stat = [s.stat EXCEPT ![t] = "CLOSE"] /\ y.timer = s.timer \ {t} /\ y.lock = s.lock
  /\ y.prio = s.prio /\ y.mprio = s.mprio

(* A thread is closed and put in the defunct list.                         *)
LEMMA ClosedFirst ==
  ASSUME NEW s, Lists(s), NEW t \in Threads \ {Idle}, s.stat[t] # "NONE"
  PROVE  Closing(s, rt_thread_defunct_enqueue(Close(s, t), t), t)
<1> DEFINE c == Close(s, t)
           y == rt_thread_defunct_enqueue(c, t)
           F == {"stat", "group", "list", "timer", "yield"}
<1>0. /\ Inv(s) /\ Typed(s) /\ Shape(s) /\ IpcTyped(s) /\ s.stat \in [Threads -> Stats]
      /\ s.list \in [Heads -> Seq(Threads)] /\ t \in Threads
  BY DEF Lists, Inv, Sound, Typed, IpcTyped
<1>1. Inv(y) /\ Changes(s, y, F) /\ y.stat = [s.stat EXCEPT ![t] = "CLOSE"]
  BY <1>0, Closed
<1>2. (\A h \in Objects : c.list[h] = RemoveFirst(s.list[h], t)) /\ c.timer = s.timer \ {t}
  BY <1>0, ClosedLists
<1>5. (\A h \in Objects : y.list[h] = RemoveFirst(s.list[h], t)) /\ y.timer = s.timer \ {t}
  <2>1. y = [c EXCEPT !.list[Defunct] = <<t>> \o @]
    BY DEF rt_thread_defunct_enqueue, rt_list_insert_after
  <2>2. DOMAIN y = DOMAIN s /\ Fields \subseteq DOMAIN y
    BY <1>0, <1>1 DEF Changes, Shape
  <2>3. Shape(y) /\ y.list \in [Heads -> Seq(Threads)]
    BY <1>1 DEF Inv, Sound, Typed
  <2> HIDE DEF c, y
  <2>4. DOMAIN c = DOMAIN y
    BY <2>1
  <2>5. y.list = [c.list EXCEPT ![Defunct] = <<t>> \o @] /\ y.timer = c.timer
    BY <2>1, <2>2, <2>4 DEF Fields
  <2>6. DOMAIN c.list = Heads
    BY <2>3, <2>5
  <2> QED
    BY <1>2, <2>5, <2>6, HeadsAre
<1> HIDE DEF c, y
<1>6. IpcTyped(y) /\ SameIpc(s, y) /\ y.cur = s.cur /\ y.prio = s.prio /\ y.lock = s.lock /\ y.mprio = s.mprio
  <2>1. F \cap IpcFields = {} /\ "cur" \notin F /\ "prio" \notin F /\ "lock" \notin F
    BY DEF IpcFields
  <2> HIDE DEF F
  <2> QED
    BY <1>0, <1>1, <2>1, SchedulerOnly, Kept
<1>7. Ordered(y)
  <2>1. SUFFICES ASSUME NEW m \in Mutexes PROVE Sorted(y.prio, y.list[m])
    BY DEF Ordered
  <2>2. s.list[m] \in Seq(Threads) /\ Sorted(s.prio, s.list[m]) /\ m \in Objects
    BY <1>0, MutexIs DEF Lists, Ordered
  <2> QED
    BY <1>5, <1>6, <2>2, SortedWithout
<1>8. ASSUME NEW u \in Threads \ {t}, NEW o \in Objects PROVE On(u, y.list[o]) <=> WaitsAt(y, u, o)
  <2>1. On(u, s.list[o]) <=> WaitsAt(s, u, o)
    BY DEF Lists, Queues
  <2>2. s.list[o] \in Seq(Threads) /\ Distinct(s.list[o])
    BY <1>0, HeadsAre DEF Typed
  <2>3. On(u, y.list[o]) <=> On(u, s.list[o])
    BY <1>5, <2>2, Unlinked
  <2> QED
    BY <1>0, <1>1, <1>6, <2>1, <2>3 DEF WaitsAt, SameIpc
<1>9. QueuesBut(y, t)
  BY <1>8 DEF QueuesBut
<1>10. Closing(s, y, t)
  BY <1>1, <1>5, <1>6, <1>7, <1>9 DEF Closing
<1> QED
  BY <1>10 DEF y, c

(* Then its books are cleared.                                             *)
LEMMA ClosedThen ==
  ASSUME NEW s, Lists(s), NEW t \in Threads, NEW y, Closing(s, y, t),
         NEW r, Changes(y, r, {"at", "net"}), r.at = [y.at EXCEPT ![t] = NULL], r.net = Left(s, t)
  PROVE  /\ Lists(r) /\ r.at = [s.at EXCEPT ![t] = NULL] /\ r.stat = [s.stat EXCEPT ![t] = "CLOSE"]
         /\ r.timer = s.timer \ {t} /\ r.lock = s.lock /\ r.prio = s.prio /\ r.mprio = s.mprio
         /\ r.pend = s.pend /\ r.err = s.err /\ r.value = s.value
         /\ r.base = s.base /\ r.taken = s.taken /\ r.owner = s.owner /\ r.hold = s.hold
         /\ r.ceil = s.ceil /\ r.got = s.got /\ r.obj = s.obj /\ r.fault = s.fault
<1> DEFINE n == Left(s, t)
<1>0. s.stat \in [Threads -> Stats] /\ s.net \in [Sems -> Int]
  BY DEF Lists, Inv, Sound, Typed, IpcTyped
<1>1. Inv(y) /\ IpcTyped(y) /\ SameIpc(s, y) /\ Ordered(y) /\ QueuesBut(y, t) /\ y.stat[t] = "CLOSE"
      /\ y.stat = [s.stat EXCEPT ![t] = "CLOSE"] /\ y.timer = s.timer \ {t} /\ y.lock = s.lock
      /\ y.prio = s.prio /\ y.mprio = s.mprio
  BY <1>0 DEF Closing
<1>2. n \in [Sems -> Int]
  BY <1>0 DEF Left
<1> HIDE DEF n
<1>3. /\ Lists(r) /\ r.stat = y.stat /\ r.timer = y.timer /\ r.lock = y.lock /\ r.prio = y.prio /\ r.mprio = y.mprio
      /\ r.pend = y.pend /\ r.err = y.err /\ r.value = y.value
      /\ r.base = y.base /\ r.taken = y.taken /\ r.owner = y.owner /\ r.hold = y.hold
      /\ r.ceil = y.ceil /\ r.got = y.got /\ r.obj = y.obj /\ r.fault = y.fault
  <2>1. Inv(y) /\ IpcTyped(y) /\ Ordered(y) /\ t \in Threads /\ y.stat[t] = "CLOSE" /\ n \in [Sems -> Int]
    BY <1>1, <1>2
  <2>2. QueuesBut(y, t)
    BY <1>1
  <2>3. Changes(y, r, {"at", "net"}) /\ r.at = [y.at EXCEPT ![t] = NULL] /\ r.net = n
    BY DEF n
  <2> QED
    BY ONLY <2>1, <2>2, <2>3, Cleared
<1> QED
  BY <1>1, <1>3 DEF SameIpc

(* A thread that does not wait for a mutex is closed.                      *)
LEMMA KillsOther ==
  ASSUME NEW s, Lists(s), Books(s), NEW t \in Threads \ {Idle}, s.stat[t] \notin {"NONE", "CLOSE"},
         s.taken[t] = {}, s.pend[t] = NULL \/ s.obj[s.pend[t]] = "detached"
  PROVE  /\ Lists(Kill(s, t)) /\ Books(Kill(s, t)) /\ Quiet(s, Kill(s, t))
         /\ Gone(s, Kill(s, t), t) /\ Kill(s, t).prio = s.prio /\ Kill(s, t).mprio = s.mprio
<1> DEFINE n == Left(s, t)
           c == Close(s, t)
           y == rt_thread_defunct_enqueue(c, t)
           r == [y EXCEPT !.at[t] = NULL, !.net = n]
<1>1. Closing(s, y, t)
  BY ClosedFirst
<1>2. Kill(s, t) = rt_thread_defunct_enqueue([c EXCEPT !.at[t] = NULL, !.net = n], t)
  <2> HIDE DEF c
  <2> QED
    BY DEF Kill, Left, c
<1>3. rt_thread_defunct_enqueue([c EXCEPT !.at[t] = NULL, !.net = n], t) = r
  <2> HIDE DEF c, n
  <2> QED
    BY DEF rt_thread_defunct_enqueue, rt_list_insert_after
<1> HIDE DEF c, y, n
<1>4. Changes(y, r, {"at", "net"}) /\ r.at = [y.at EXCEPT ![t] = NULL] /\ r.net = n
  <2>1. Shape(y) /\ IpcFields \subseteq DOMAIN y
    BY <1>1 DEF Closing, Inv, Sound, Typed, IpcTyped
  <2> QED
    BY <2>1 DEF Shape, Changes, IpcFields
<1> HIDE DEF r
<1>5. /\ Lists(r) /\ r.at = [s.at EXCEPT ![t] = NULL] /\ r.stat = [s.stat EXCEPT ![t] = "CLOSE"]
      /\ r.timer = s.timer \ {t} /\ r.lock = s.lock /\ r.prio = s.prio /\ r.mprio = s.mprio
      /\ r.pend = s.pend /\ r.err = s.err /\ r.value = s.value
      /\ r.base = s.base /\ r.taken = s.taken /\ r.owner = s.owner /\ r.hold = s.hold
      /\ r.ceil = s.ceil /\ r.got = s.got /\ r.obj = s.obj /\ r.fault = s.fault
  BY <1>1, <1>4, ClosedThen DEF n
<1>6. Gone(s, r, t)
  BY <1>4, <1>5 DEF Gone, n
<1>7. Books(r)
  BY <1>6, GoneBooks
<1>8. Quiet(s, r)
  BY <1>6, GoneQuiet
<1> QED
  BY <1>2, <1>3, <1>5, <1>6, <1>7, <1>8

-----------------------------------------------------------------------------
(* Mutexes.                                                                *)

(* Kernels with their books in order can update priorities.                *)
LEMMA BooksChainable ==
  ASSUME NEW s, Lists(s), Books(s)
  PROVE  Chainable(s)
<1>1. Pends(s)
  BY DEF Books
<1>2. \A t \in Threads, m \in Mutexes : WaitsAt(s, t, m) => s.pend[t] = m /\ s.obj[m] = "live" /\ s.owner[m] # NULL
  BY <1>1 DEF Pends, WaitsAt
<1>3. \A t \in Threads : s.stat[t] = "SUSPEND" /\ s.pend[t] # NULL /\ s.obj[s.pend[t]] # "detached" => s.at[t] = s.pend[t]
  BY <1>1 DEF Pends, WaitsAt
<1> QED
  BY <1>1, <1>2, <1>3 DEF Pends, Chainable

(* No book is touched by that.                                             *)
LEMMA UpdatedBooks ==
  ASSUME NEW s, Lists(s), Books(s), NEW r, Updated(s, r)
  PROVE  Lists(r) /\ Books(r) /\ r.stat = s.stat /\ r.cur = s.cur /\ Quiet(s, r)
<1>1. IpcTyped(s) /\ s.timer \subseteq Threads
  BY DEF Lists, Inv, Sound, Typed
<1>2. SameStat(s, r)
  BY DEF Updated, SameStat, Up
<1>3. Quiet(s, r)
  BY QuietSame DEF Updated, SameIpc
<1> QED
  BY <1>1, <1>2, <1>3, BooksKept DEF Updated, Chainable

(* The books of mutex m are written anew, by a thread t that waits for     *)
(* nothing.                                                                *)
LEMMA MutexBooks ==
  ASSUME NEW s, Lists(s), Books(s), NEW m \in Mutexes, s.obj[m] = "live", NEW t \in Threads, s.at[t] = NULL, Up(s, t),
         NEW r, r.at = s.at, r.stat = s.stat, r.pend = s.pend, r.value = s.value, r.net = s.net, r.obj = s.obj,
         r.fault = s.fault, r.lock = s.lock, r.timer \subseteq s.timer,
         \A u \in Threads \ {t} : r.err[u] = s.err[u],
         \A u \in Threads \ {t} : r.taken[u] = s.taken[u],
         \A n \in Mutexes \ {m} : /\ r.owner[n] = s.owner[n] /\ r.hold[n] = s.hold[n] /\ r.got[n] = s.got[n]
                                  /\ n \in r.taken[t] <=> n \in s.taken[t],
         r.owner[m] # NULL \/ \A u \in Threads : s.at[u] # m,
         OwnerOf(r, m)
  PROVE  Books(r)
<1>1. \A x : x # NULL => SameAt(s, r, x)
  <2>1. SUFFICES ASSUME NEW x, x # NULL, NEW u \in Threads
                 PROVE  /\ r.at[u] = x <=> s.at[u] = x
                        /\ WaitsAt(r, u, x) <=> WaitsAt(s, u, x)
                        /\ Granted(r, u, x) <=> Granted(s, u, x)
                        /\ r.at[u] = x => r.err[u] = s.err[u]
    BY DEF SameAt
  <2>2. CASE u = t
    BY <2>1, <2>2 DEF WaitsAt, Granted
  <2>3. CASE u # t
    BY <2>3 DEF WaitsAt, Granted
  <2> QED
    BY <2>2, <2>3
<1>2. Tokens(r)
  <2>1. \A o \in Sems : SameAt(s, r, o)
    BY <1>1, SemIs
  <2> QED
    BY <2>1, TokensKept DEF Books
<1>3. Threadly(r)
  <2>1. \A u \in Threads : r.at[u] # NULL \/ r.taken[u] # {} => r.stat[u] = "SUSPEND" \/ Up(r, u)
    BY DEF Books, Threadly, Up
  <2> QED
    BY <2>1 DEF Books, Threadly
<1>4. Owners(r)
  <2>1. ASSUME NEW n \in Mutexes, r.obj[n] = "live" PROVE OwnerOf(r, n)
    <3>1. SUFFICES ASSUME n # m PROVE OwnerOf(r, n)
      OBVIOUS
    <3>2. OwnerOf(s, n) /\ SameAt(s, r, n)
      BY <1>1, <2>1, MutexIs DEF Books, Owners
    <3>3. \A u \in Threads : n \in r.taken[u] <=> n \in s.taken[u]
      BY <3>1
    <3>4. r.owner[n] = s.owner[n] /\ r.hold[n] = s.hold[n] /\ r.got[n] = s.got[n]
      BY <3>1
    <3> QED
      BY <3>2, <3>3, <3>4 DEF OwnerOf, SameAt
  <2>2. ASSUME NEW n \in Mutexes, NEW u \in Threads, r.obj[n] # "live" PROVE n \notin r.taken[u]
    <3>1. n # m /\ n \notin s.taken[u]
      BY <2>2 DEF Books, Owners
    <3> QED
      BY <3>1
  <2> QED
    BY <2>1, <2>2 DEF Owners
<1>5. Pends(r)
  <2>1. \A u \in Threads : r.at[u] \in Mutexes => r.owner[r.at[u]] # NULL
    BY DEF Books, Pends
  <2>2. \A u \in Threads, n \in Mutexes : WaitsAt(r, u, n) => r.pend[u] = n /\ r.obj[n] = "live"
    BY DEF Books, Pends, WaitsAt
  <2>3. \A u \in Threads : r.pend[u] # NULL /\ r.obj[r.pend[u]] # "detached" => WaitsAt(r, u, r.pend[u])
    BY DEF Books, Pends, WaitsAt
  <2> QED
    BY <2>1, <2>2, <2>3 DEF Books, Pends
<1> QED
  BY <1>2, <1>3, <1>4, <1>5 DEF Books

(* The timer of a suspended thread is started.                             *)
LEMMA TimerStarted ==
  ASSUME NEW s, Lists(s), Books(s), NEW t \in Threads, s.stat[t] = "SUSPEND"
  PROVE  LET r == [s EXCEPT !.timer = @ \cup {t}] IN Lists(r) /\ Books(r)
<1> DEFINE r == [s EXCEPT !.timer = @ \cup {t}]
           F == {"timer"}
<1>0. Inv(s) /\ Typed(s) /\ Shape(s) /\ IpcTyped(s) /\ Queues(s) /\ Ordered(s)
  BY DEF Lists, Inv, Sound, Typed
<1>1. Changes(s, r, F) /\ r.timer = s.timer \cup {t}
  BY <1>0 DEF Shape, Changes, Fields
<1> HIDE DEF r
<1>2. /\ r.cur = s.cur /\ r.stat = s.stat /\ r.prio = s.prio /\ r.list = s.list /\ r.lock = s.lock
      /\ r.group = s.group /\ r.yield = s.yield
  BY <1>0, <1>1, Kept
<1>3. IpcTyped(r) /\ SameIpc(s, r)
  <2>1. F \cap IpcFields = {}
    BY DEF IpcFields
  <2> HIDE DEF F
  <2> QED
    BY <1>0, <1>1, <2>1, SchedulerOnly
<1>4. Inv(r)
  <2>1. r.timer \subseteq Threads
    BY <1>0, <1>1 DEF Typed
  <2>2. Typed(r)
    BY <1>0, <1>1, <1>2, <2>1 DEF Typed, Changes
  <2>3. F \cap Fields \subseteq {"timer", "yield", "lock"}
    BY DEF Fields
  <2> HIDE DEF F
  <2> QED
    BY <1>0, <1>1, <2>2, <2>3, RunsAgain
<1>5. Lists(r)
  BY <1>0, <1>2, <1>3, <1>4 DEF Lists, Queues, Ordered, WaitsAt, SameIpc
<1>6. \A o : SameAt(s, r, o)
  BY <1>2, <1>3 DEF SameIpc, SameAt, WaitsAt, Granted
<1>7. Tokens(r) /\ Owners(r) /\ Pends(r)
  BY <1>0, <1>3, <1>6, TokensKept, OwnersKept, PendsKept DEF Books, SameIpc
<1>8. Threadly(r)
  BY <1>1, <1>2, <1>3 DEF Books, Threadly, SameIpc, Up
<1> QED
  BY <1>5, <1>7, <1>8 DEF Books, r

(* The running thread t waits for mutex m, which another one owns.         *)
LEMMA MutexParked ==
  ASSUME NEW s, Lists(s), Books(s), NEW m \in Mutexes, s.obj[m] = "live", s.owner[m] # NULL,
         NEW t \in Threads, s.owner[m] # t, s.at[t] = NULL, Up(s, t),
         NEW r, r.at = [s.at EXCEPT ![t] = m], r.stat = [s.stat EXCEPT ![t] = "SUSPEND"], r.pend = [s.pend EXCEPT ![t] = m],
         r.err = [s.err EXCEPT ![t] = "EOK"], r.value = s.value, r.net = s.net, r.obj = s.obj,
         r.taken = s.taken, r.owner = s.owner, r.hold = s.hold, r.got = s.got,
         r.fault = s.fault, r.lock = s.lock, r.timer \subseteq s.timer \cup {t}
  PROVE  Books(r)
<1>0. /\ s.at \in [Threads -> Objects \cup {NULL, Sleep}] /\ s.stat \in [Threads -> Stats] /\ s.err \in [Threads -> Errors]
      /\ s.pend \in [Threads -> Mutexes \cup {NULL}] /\ s.timer \subseteq Threads /\ m # NULL
  BY MutexIs DEF Lists, Inv, Sound, Typed, IpcTyped
<1>1. /\ r.at[t] = m /\ r.stat[t] = "SUSPEND" /\ r.pend[t] = m /\ r.err[t] = "EOK"
      /\ \A u \in Threads \ {t} : r.at[u] = s.at[u] /\ r.stat[u] = s.stat[u] /\ r.pend[u] = s.pend[u] /\ r.err[u] = s.err[u]
  BY <1>0
<1>2. \A x : x # NULL /\ x # m => SameAt(s, r, x)
  <2>1. SUFFICES ASSUME NEW x, x # NULL, x # m, NEW u \in Threads
                 PROVE  /\ r.at[u] = x <=> s.at[u] = x
                        /\ WaitsAt(r, u, x) <=> WaitsAt(s, u, x)
                        /\ Granted(r, u, x) <=> Granted(s, u, x)
                        /\ r.at[u] = x => r.err[u] = s.err[u]
    BY DEF SameAt
  <2>2. CASE u = t
    BY <1>1, <2>1, <2>2 DEF WaitsAt, Granted
  <2>3. CASE u # t
    BY <1>1, <2>3 DEF WaitsAt, Granted
  <2> QED
    BY <2>2, <2>3
<1>3. \A u \in Threads : Granted(r, u, m) <=> Granted(s, u, m)
  <2>1. SUFFICES ASSUME NEW u \in Threads PROVE Granted(r, u, m) <=> Granted(s, u, m)
    OBVIOUS
  <2>2. CASE u = t
    BY <1>0, <1>1, <2>2 DEF Granted
  <2>3. CASE u # t
    BY <1>1, <2>3 DEF Granted
  <2> QED
    BY <2>2, <2>3
<1>4. Tokens(r)
  <2>1. \A o \in Sems : SameAt(s, r, o)
    BY <1>2, SemIs
  <2> QED
    BY <2>1, TokensKept DEF Books
<1>5. Threadly(r)
  <2>1. \A u \in Threads : r.at[u] # NULL \/ r.taken[u] # {} => r.stat[u] = "SUSPEND" \/ Up(r, u)
    BY <1>1 DEF Books, Threadly, Up
  <2>2. \A u \in r.timer : r.stat[u] = "SUSPEND"
    BY <1>0, <1>1 DEF Books, Threadly
  <2> QED
    BY <2>1, <2>2 DEF Books, Threadly
<1>6. OwnerOf(r, m)
  <2>1. OwnerOf(s, m)
    BY DEF Books, Owners
  <2>2. \A u \in Threads : r.at[u] = m => r.err[u] = "EOK"
    BY <1>1, <2>1 DEF OwnerOf
  <2> QED
    BY <1>3, <2>1, <2>2 DEF OwnerOf
<1>7. Owners(r)
  <2>1. ASSUME NEW n \in Mutexes, r.obj[n] = "live", n # m PROVE OwnerOf(r, n)
    <3>1. OwnerOf(s, n) /\ SameAt(s, r, n)
      BY <1>2, <2>1, MutexIs DEF Books, Owners
    <3> QED
      BY <3>1 DEF OwnerOf, SameAt
  <2> QED
    BY <1>6, <2>1 DEF Books, Owners
<1>8. Pends(r)
  <2>1. \A u \in Threads : r.at[u] \in Mutexes => r.owner[r.at[u]] # NULL
    BY <1>1 DEF Books, Pends
  <2>2. ASSUME NEW u \in Threads, NEW n \in Mutexes, WaitsAt(r, u, n) PROVE r.pend[u] = n /\ r.obj[n] = "live"
    <3>1. CASE u = t
      BY <1>1, <2>2, <3>1 DEF WaitsAt
    <3>2. CASE u # t
      BY <1>1, <2>2, <3>2 DEF Books, Pends, WaitsAt
    <3> QED
      BY <3>1, <3>2
  <2>3. ASSUME NEW u \in Threads, r.pend[u] # NULL, r.obj[r.pend[u]] # "detached" PROVE WaitsAt(r, u, r.pend[u])
    <3>1. CASE u = t
      BY <1>1, <3>1 DEF WaitsAt
    <3>2. CASE u # t
      BY <1>1, <2>3, <3>2 DEF Books, Pends, WaitsAt
    <3> QED
      BY <3>1, <3>2
  <2> QED
    BY <2>1, <2>2, <2>3 DEF Books, Pends
<1> QED
  BY <1>4, <1>5, <1>7, <1>8 DEF Books

(* The error of the running thread, which waits for nothing, is set.       *)
LEMMA ErrorAlone ==
  ASSUME NEW s, Settled(s), s.at[s.cur] = NULL, NEW e \in Errors
  PROVE  LET r == [s EXCEPT !.err[s.cur] = e] IN
         /\ Settled(r) /\ Changes(s, r, {"err"}) /\ SameBooks(s, r) /\ r.err = [s.err EXCEPT ![s.cur] = e] /\ r.at = s.at
         /\ r.value = s.value /\ r.net = s.net /\ r.mprio = s.mprio
         /\ r.cur = s.cur /\ r.stat = s.stat /\ r.prio = s.prio /\ r.lock = s.lock /\ r.timer = s.timer /\ r.list = s.list
<1> DEFINE t == s.cur
           r == [s EXCEPT !.err[t] = e]
<1>0. Lists(s) /\ Books(s) /\ t \in Threads /\ Up(s, t) /\ s.err \in [Threads -> Errors] /\ s.stat[t] = "RUNNING"
      /\ s.timer \subseteq Threads
  BY SettledIs DEF Settled
<1>1. /\ Lists(r) /\ Changes(s, r, {"err"}) /\ SameBooks(s, r) /\ r.err = [s.err EXCEPT ![t] = e] /\ r.at = s.at
      /\ r.value = s.value /\ r.net = s.net /\ r.mprio = s.mprio
      /\ r.cur = s.cur /\ r.stat = s.stat /\ r.prio = s.prio /\ r.lock = s.lock /\ r.timer = s.timer /\ r.list = s.list
  BY <1>0, ErrorSet
<1> HIDE DEF r
<1>2. Books(r)
  <2>1. \A u \in Threads \ {t} : r.stat[u] = s.stat[u] /\ r.err[u] = s.err[u] /\ r.pend[u] = s.pend[u]
    BY <1>0, <1>1 DEF SameBooks
  <2>2. r.pend[t] \in {NULL, s.pend[t]} /\ Up(r, t) /\ s.at[t] = NULL /\ (t \in r.timer => r.stat[t] = "SUSPEND")
    BY <1>0, <1>1 DEF SameBooks, Up, Books, Threadly
  <2>3. r.taken = s.taken /\ r.owner = s.owner /\ r.hold = s.hold /\ r.got = s.got /\ r.obj = s.obj /\ r.fault = s.fault
    BY <1>1 DEF SameBooks
  <2> HIDE DEF t
  <2> QED
    BY <1>0, <1>1, <2>1, <2>2, <2>3, AloneBooks
<1> QED
  BY <1>0, <1>1, <1>2 DEF Settled, r, t

(* The running thread and a mutex that is there.                           *)
LEMMA MutexFacts ==
  ASSUME NEW s, Settled(s), s.at[s.cur] = NULL, NEW m \in Mutexes, s.obj[m] = "live"
  PROVE  /\ OwnerOf(s, m) /\ ~Granted(s, s.cur, m) /\ s.owner \in [Mutexes -> Threads \cup {NULL}]
         /\ s.hold \in [Mutexes -> 0 .. HoldMax] /\ s.got \in [Mutexes -> [Threads -> Nat]]
         /\ s.mprio \in [Mutexes -> 0 .. NoPrio] /\ s.taken \in [Threads -> SUBSET Mutexes]
         /\ s.ceil \in [Mutexes -> 0 .. NoPrio] /\ s.pend \in [Threads -> Mutexes \cup {NULL}]
         /\ s.got[m][s.cur] = IF s.owner[m] = s.cur THEN s.hold[m] ELSE 0
         /\ \A u \in Threads : s.owner[m] # u => s.got[m][u] = 0 /\ ~Granted(s, u, m)
<1>0. Lists(s) /\ Books(s) /\ IpcTyped(s) /\ s.cur \in Threads
  BY SettledIs
<1>1. OwnerOf(s, m)
  BY <1>0 DEF Books, Owners
<1>2. /\ s.owner \in [Mutexes -> Threads \cup {NULL}]
      /\ s.hold \in [Mutexes -> 0 .. HoldMax] /\ s.got \in [Mutexes -> [Threads -> Nat]]
      /\ s.mprio \in [Mutexes -> 0 .. NoPrio] /\ s.taken \in [Threads -> SUBSET Mutexes]
      /\ s.ceil \in [Mutexes -> 0 .. NoPrio] /\ s.pend \in [Threads -> Mutexes \cup {NULL}]
  BY <1>0 DEF IpcTyped
<1>3. ~Granted(s, s.cur, m)
  BY MutexIs DEF Granted
<1>4. s.got[m][s.cur] = IF s.owner[m] = s.cur THEN s.hold[m] ELSE 0
  <2>1. s.got[m][s.cur] \in Nat
    BY <1>0, <1>2
  <2>2. s.got[m][s.cur] + 0 = IF s.owner[m] = s.cur THEN s.hold[m] ELSE 0
    BY <1>0, <1>1, <1>3 DEF OwnerOf
  <2> QED
    BY <2>1, <2>2
<1>5. ASSUME NEW u \in Threads, s.owner[m] # u PROVE s.got[m][u] = 0 /\ ~Granted(s, u, m)
  <2>1. s.got[m][u] \in Nat /\ s.got[m][u] + (IF Granted(s, u, m) THEN 1 ELSE 0) = 0
    BY <1>1, <1>2, <1>5 DEF OwnerOf
  <2> QED
    BY <2>1
<1> QED
  BY <1>1, <1>2, <1>3, <1>4, <1>5

(* A take or a release of a mutex the caller owns: hold counts.            *)
LEMMA HoldCounted ==
  ASSUME NEW s, Settled(s), s.at[s.cur] = NULL, NEW m \in Mutexes, s.obj[m] = "live", s.owner[m] = s.cur,
         NEW h \in 1 .. HoldMax,
         NEW r, Changes(s, r, {"hold", "got"}), r.hold = [s.hold EXCEPT ![m] = h],
         r.got = [s.got EXCEPT ![m][s.cur] = h]
  PROVE  Settled(r) /\ Quiet(s, r)
<1> DEFINE t == s.cur
           F == {"hold", "got"}
<1>0. Lists(s) /\ Books(s) /\ t \in Threads /\ Up(s, t) /\ s.stat[t] = "RUNNING" /\ IpcTyped(s) /\ IpcFields \subseteq DOMAIN s
      /\ s.at[t] = NULL
  BY SettledIs DEF Settled
<1>1. /\ OwnerOf(s, m) /\ ~Granted(s, t, m) /\ s.hold \in [Mutexes -> 0 .. HoldMax] /\ s.got \in [Mutexes -> [Threads -> Nat]]
  BY MutexFacts
<1>2. /\ r.base = s.base /\ r.err = s.err /\ r.pend = s.pend /\ r.taken = s.taken /\ r.at = s.at
      /\ r.value = s.value /\ r.net = s.net /\ r.owner = s.owner /\ r.obj = s.obj /\ r.fault = s.fault
  <2>1. /\ "base" \notin F /\ "err" \notin F /\ "pend" \notin F /\ "taken" \notin F /\ "at" \notin F
        /\ "value" \notin F /\ "net" \notin F /\ "owner" \notin F /\ "obj" \notin F /\ "fault" \notin F
    OBVIOUS
  <2>2. Changes(s, r, F)
    OBVIOUS
  <2> HIDE DEF F
  <2> QED
    BY <1>0, <2>1, <2>2, KeptIpc
<1>3. r.hold[m] = h /\ r.got[m][t] = h /\ \A u \in Threads \ {t} : r.got[m][u] = s.got[m][u]
  BY <1>0, <1>1
<1>4. IpcTyped(r)
  <2>1. r.hold \in [Mutexes -> 0 .. HoldMax] /\ r.got \in [Mutexes -> [Threads -> Nat]]
    <3>1. h \in 0 .. HoldMax /\ h \in Nat
      BY BoundsAssumption
    <3> QED
      BY <1>0, <1>1, <3>1
  <2> QED
    BY <1>0, <2>1, IpcTypedAgain
<1>5. /\ Lists(r) /\ r.cur = s.cur /\ r.stat = s.stat /\ r.lock = s.lock /\ r.timer = s.timer
  <2>1. F \cap Fields = {} /\ "at" \notin F /\ Changes(s, r, F)
    BY DEF Fields
  <2> HIDE DEF F
  <2> QED
    BY <1>0, <1>4, <2>1, ListsKept
<1>6. OwnerOf(r, m)
  <2>1. \A u \in Threads : Granted(r, u, m) <=> Granted(s, u, m)
    BY <1>2, <1>5 DEF Granted
  <2>2. ASSUME NEW u \in Threads
        PROVE  r.got[m][u] + (IF Granted(r, u, m) THEN 1 ELSE 0) = IF r.owner[m] = u THEN r.hold[m] ELSE 0
    <3>1. CASE u = t
      BY <1>1, <1>2, <1>3, <2>1, <3>1
    <3>2. CASE u # t
      <4>1. s.got[m][u] + (IF Granted(s, u, m) THEN 1 ELSE 0) = 0
        BY <1>1, <3>2 DEF OwnerOf
      <4> QED
        BY <1>2, <1>3, <2>1, <3>2, <4>1
    <3> QED
      BY <3>1, <3>2
  <2>3. r.owner[m] # NULL /\ r.hold[m] >= 1
    BY <1>0, <1>2, <1>3, NullAssumption
  <2>4. \A u \in Threads : (m \in r.taken[u] <=> r.owner[m] = u) /\ (r.at[u] = m => r.err[u] = "EOK")
    BY <1>1, <1>2 DEF OwnerOf
  <2> QED
    BY <2>2, <2>3, <2>4 DEF OwnerOf
<1>7. Books(r)
  <2>1. \A n \in Mutexes \ {m} : r.owner[n] = s.owner[n] /\ r.hold[n] = s.hold[n] /\ r.got[n] = s.got[n]
                                 /\ (n \in r.taken[t] <=> n \in s.taken[t])
    BY <1>1, <1>2
  <2>2. r.owner[m] # NULL
    BY <1>0, <1>2, NullAssumption
  <2> HIDE DEF t
  <2> QED
    BY <1>0, <1>2, <1>5, <1>6, <2>1, <2>2, MutexBooks
<1>8. Quiet(s, r)
  BY <1>2, <1>5, QuietSame
<1> QED
  BY <1>0, <1>5, <1>7, <1>8 DEF Settled

(* The caller becomes the owner of a free mutex.                           *)
LEMMA MutexGrabbed ==
  ASSUME NEW s, Settled(s), s.at[s.cur] = NULL, NEW m \in Mutexes, s.obj[m] = "live", s.owner[m] = NULL
  PROVE  Settled(MutexGrab(s, m)) /\ Quiet(s, MutexGrab(s, m))
<1> DEFINE t == s.cur
           g == s.got[m][t] + 1
           mine == [s EXCEPT !.owner[m] = t, !.mprio[m] = NoPrio, !.hold[m] = 1, !.got[m][t] = g]
           lifted == IF s.ceil[m] < s.prio[t] THEN _thread_update_priority(mine, t, s.ceil[m]) ELSE mine
           r == [lifted EXCEPT !.taken[t] = @ \cup {m}]
           F == {"owner", "mprio", "hold", "got"}
<1>0. /\ Lists(s) /\ Books(s) /\ t \in Threads /\ Up(s, t) /\ s.stat[t] = "RUNNING" /\ IpcTyped(s) /\ Shape(s)
      /\ IpcFields \subseteq DOMAIN s /\ s.at[t] = NULL /\ s.prio \in [Threads -> Priorities]
  BY SettledIs DEF Settled, Typed
<1>1. /\ OwnerOf(s, m) /\ s.owner \in [Mutexes -> Threads \cup {NULL}] /\ s.hold \in [Mutexes -> 0 .. HoldMax]
      /\ s.got \in [Mutexes -> [Threads -> Nat]] /\ s.mprio \in [Mutexes -> 0 .. NoPrio]
      /\ s.taken \in [Threads -> SUBSET Mutexes] /\ s.ceil \in [Mutexes -> 0 .. NoPrio]
      /\ s.got[m][t] = 0 /\ \A u \in Threads : s.got[m][u] = 0 /\ ~Granted(s, u, m)
  <2>1. \A u \in Threads : s.owner[m] # u
    BY NullAssumption
  <2> QED
    BY <1>0, <2>1, MutexFacts
<1>2. MutexGrab(s, m) = r
  BY DEF MutexGrab
<1>3. g = 1
  BY <1>1
<1> HIDE DEF t, g
<1>4. /\ Changes(s, mine, F) /\ mine.owner = [s.owner EXCEPT ![m] = t] /\ mine.mprio = [s.mprio EXCEPT ![m] = NoPrio]
      /\ mine.hold = [s.hold EXCEPT ![m] = 1] /\ mine.got = [s.got EXCEPT ![m][t] = g]
  BY <1>0 DEF Shape, Changes, IpcFields
<1> HIDE DEF mine
<1>5. /\ mine.base = s.base /\ mine.err = s.err /\ mine.pend = s.pend /\ mine.taken = s.taken /\ mine.at = s.at
      /\ mine.value = s.value /\ mine.net = s.net /\ mine.obj = s.obj /\ mine.fault = s.fault /\ mine.ceil = s.ceil
  <2>1. /\ "base" \notin F /\ "err" \notin F /\ "pend" \notin F /\ "taken" \notin F /\ "at" \notin F
        /\ "value" \notin F /\ "net" \notin F /\ "ceil" \notin F /\ "obj" \notin F /\ "fault" \notin F
    OBVIOUS
  <2> HIDE DEF F
  <2> QED
    BY <1>0, <1>4, <2>1, KeptIpc
<1>6. IpcTyped(mine)
  <2>1. mine.owner \in [Mutexes -> Threads \cup {NULL}] /\ mine.mprio \in [Mutexes -> 0 .. NoPrio]
    <3>1. NoPrio \in 0 .. NoPrio
      BY LevelsAssumption DEF NoPrio
    <3> QED
      BY <1>0, <1>1, <1>4, <3>1
  <2>2. mine.hold \in [Mutexes -> 0 .. HoldMax] /\ mine.got \in [Mutexes -> [Threads -> Nat]]
    <3>1. 1 \in 0 .. HoldMax
      BY BoundsAssumption
    <3> QED
      BY <1>0, <1>1, <1>3, <1>4, <3>1
  <2> QED
    BY <1>0, <1>4, <2>1, <2>2, IpcTypedAgain
<1>7. /\ Lists(mine) /\ mine.cur = s.cur /\ mine.stat = s.stat /\ mine.lock = s.lock /\ mine.timer = s.timer
  <2>1. F \cap Fields = {} /\ "at" \notin F
    BY DEF Fields
  <2> HIDE DEF F
  <2> QED
    BY <1>0, <1>4, <1>6, <2>1, ListsKept
<1>8. Chainable(mine)
  <2>1. Chainable(s)
    BY <1>0, BooksChainable
  <2>2. \A n \in Mutexes : s.owner[n] # NULL => mine.owner[n] # NULL
    BY <1>0, <1>1, <1>4, NullAssumption
  <2> QED
    BY <1>5, <1>7, <2>1, <2>2 DEF Chainable, WaitsAt
<1>9. Updated(mine, lifted)
  <2>1. CASE s.ceil[m] < s.prio[t]
    <3>1. s.ceil[m] \in Priorities
      BY <1>0, <1>1, <2>1, LevelsAssumption DEF Priorities
    <3> QED
      BY <1>0, <1>8, <2>1, <3>1, Updates
  <2>2. CASE ~(s.ceil[m] < s.prio[t])
    BY <1>8, <2>2, UpdatedNot
  <2> QED
    BY <2>1, <2>2
<1> HIDE DEF lifted
<1>10. Lists(lifted) /\ SameIpc(mine, lifted) /\ lifted.stat = s.stat /\ lifted.cur = s.cur /\ lifted.lock = s.lock
       /\ lifted.timer \subseteq s.timer /\ IpcTyped(lifted) /\ Shape(lifted) /\ IpcFields \subseteq DOMAIN lifted
  BY <1>7, <1>9 DEF Updated, Chainable, Lists, IpcTyped, Inv, Sound, Typed
<1>11. Changes(lifted, r, {"taken"}) /\ r.taken = [s.taken EXCEPT ![t] = @ \cup {m}]
  <2>1. lifted.taken = s.taken
    BY <1>5, <1>10 DEF SameIpc
  <2> QED
    BY <1>10, <2>1 DEF Shape, Changes, IpcFields
<1> HIDE DEF r
<1>12. /\ r.err = s.err /\ r.pend = s.pend /\ r.at = s.at /\ r.value = s.value /\ r.net = s.net /\ r.obj = s.obj
       /\ r.fault = s.fault /\ r.owner = mine.owner /\ r.hold = mine.hold /\ r.got = mine.got
  <2>1. /\ "err" \notin {"taken"} /\ "pend" \notin {"taken"} /\ "at" \notin {"taken"} /\ "value" \notin {"taken"}
        /\ "net" \notin {"taken"} /\ "obj" \notin {"taken"} /\ "fault" \notin {"taken"} /\ "owner" \notin {"taken"}
        /\ "hold" \notin {"taken"} /\ "got" \notin {"taken"}
    OBVIOUS
  <2>2. /\ r.err = lifted.err /\ r.pend = lifted.pend /\ r.at = lifted.at /\ r.value = lifted.value /\ r.net = lifted.net
        /\ r.obj = lifted.obj /\ r.fault = lifted.fault /\ r.owner = lifted.owner /\ r.hold = lifted.hold /\ r.got = lifted.got
    BY <1>10, <1>11, <2>1, KeptIpc
  <2> QED
    BY <1>5, <1>10, <2>2 DEF SameIpc
<1>13. IpcTyped(r)
  <2>1. r.taken \in [Threads -> SUBSET Mutexes]
    <3>1. s.taken[t] \cup {m} \in SUBSET Mutexes
      BY <1>0, <1>1
    <3> QED
      BY <1>0, <1>1, <1>11, <3>1
  <2> QED
    BY <1>10, <1>11, <2>1, IpcTypedAgain
<1>14. /\ Lists(r) /\ r.cur = s.cur /\ r.stat = s.stat /\ r.lock = s.lock /\ r.timer \subseteq s.timer
  <2>1. {"taken"} \cap Fields = {} /\ "at" \notin {"taken"}
    BY DEF Fields
  <2> QED
    BY <1>10, <1>11, <1>13, <2>1, ListsKept
<1>15. OwnerOf(r, m)
  <2>1. \A u \in Threads : ~Granted(r, u, m)
    BY <1>1, <1>12, <1>14 DEF Granted
  <2>2. r.owner[m] = t /\ r.hold[m] = 1 /\ r.got[m][t] = 1 /\ \A u \in Threads \ {t} : r.got[m][u] = 0
    BY <1>0, <1>1, <1>3, <1>4, <1>12
  <2>3. \A u \in Threads : r.got[m][u] + (IF Granted(r, u, m) THEN 1 ELSE 0) = IF r.owner[m] = u THEN r.hold[m] ELSE 0
    BY <2>1, <2>2
  <2>4. \A u \in Threads : m \in r.taken[u] <=> r.owner[m] = u
    <3>1. \A u \in Threads : m \notin s.taken[u]
      BY <1>1, NullAssumption DEF OwnerOf
    <3> QED
      BY <1>0, <1>1, <1>11, <2>2, <3>1
  <2>5. \A u \in Threads : r.at[u] = m => r.err[u] = "EOK"
    BY <1>1, <1>12 DEF OwnerOf
  <2>6. r.owner[m] # NULL
    BY <1>0, <2>2, NullAssumption
  <2> QED
    BY <2>2, <2>3, <2>4, <2>5, <2>6 DEF OwnerOf
<1>16. Books(r)
  <2>1. \A n \in Mutexes \ {m} : r.owner[n] = s.owner[n] /\ r.hold[n] = s.hold[n] /\ r.got[n] = s.got[n]
                                 /\ (n \in r.taken[t] <=> n \in s.taken[t])
    BY <1>0, <1>1, <1>4, <1>11, <1>12
  <2>2. r.owner[m] # NULL /\ \A u \in Threads \ {t} : r.taken[u] = s.taken[u]
    BY <1>0, <1>1, <1>4, <1>11, <1>12, NullAssumption
  <2> QED
    BY <1>0, <1>12, <1>14, <1>15, <2>1, <2>2, MutexBooks
<1>17. Quiet(s, r)
  BY <1>12, <1>14, QuietSame
<1> QED
  BY <1>0, <1>2, <1>14, <1>16, <1>17 DEF Settled, t

(* The caller is in the list of a mutex another thread owns, and has not   *)
(* lent its priority yet.                                                  *)
Waiting(s, m) ==
  [Wait(s, s.cur, m, FALSE) EXCEPT !.pend[s.cur] = m,
                                   !.mprio[m] = IF s.prio[s.cur] < s.mprio[m] THEN s.prio[s.cur] ELSE s.mprio[m]]

(* Lists and books are in order; only then may the owner get the priority. *)
Queued(s, m, r) ==
  LET t == s.cur
      p == s.prio[t] IN
  /\ Lists(r) /\ Books(r) /\ r.stat = [s.stat EXCEPT ![t] = "SUSPEND"] /\ r.at = [s.at EXCEPT ![t] = m]
  /\ r.timer \subseteq s.timer /\ r.prio = s.prio
  /\ r.mprio = [s.mprio EXCEPT ![m] = IF p < s.mprio[m] THEN p ELSE s.mprio[m]]
  /\ r.base = s.base /\ r.taken = s.taken /\ r.owner = s.owner /\ r.ceil = s.ceil /\ r.obj = s.obj
  /\ MutexWait(s, m) = IF p < s.mprio[m] /\ p < s.prio[s.owner[m]] THEN _thread_update_priority(r, s.owner[m], p) ELSE r

(* The caller is queued so.                                                *)
LEMMA MutexWaiting ==
  ASSUME NEW s, Settled(s), s.cur # Idle, s.at[s.cur] = NULL, s.err[s.cur] = "EOK", NEW m \in Mutexes,
         s.obj[m] = "live", s.owner[m] # NULL, s.owner[m] # s.cur
  PROVE  Queued(s, m, Waiting(s, m))
<1> DEFINE t == s.cur
           p == s.prio[t]
           q == IF p < s.mprio[m] THEN p ELSE s.mprio[m]
           timed == FALSE
           w == Wait(s, t, m, timed)
           waiting == [w EXCEPT !.pend[t] = m, !.mprio[m] = q]
           o == s.owner[m]
           G == {"stat", "group", "list", "timer", "at"}
           F == {"pend", "mprio"}
<1>0. /\ Lists(s) /\ Books(s) /\ t \in Threads /\ t # Idle /\ Up(s, t) /\ s.stat[t] = "RUNNING" /\ IpcTyped(s) /\ Shape(s)
      /\ IpcFields \subseteq DOMAIN s /\ s.at[t] = NULL /\ s.prio \in [Threads -> Priorities] /\ s.stat \in [Threads -> Stats]
      /\ s.err \in [Threads -> Errors] /\ s.mprio \in [Mutexes -> 0 .. NoPrio] /\ s.pend \in [Threads -> Mutexes \cup {NULL}]
      /\ o \in Threads /\ m \in Objects
  <2>1. s.mprio \in [Mutexes -> 0 .. NoPrio] /\ s.pend \in [Threads -> Mutexes \cup {NULL}] /\ o \in Threads
    BY MutexFacts
  <2> QED
    BY <2>1, SettledIs, MutexIs DEF Settled, Typed
<1>1. /\ Lists(w) /\ Changes(s, w, G) /\ w.stat = [s.stat EXCEPT ![t] = "SUSPEND"] /\ w.at = [s.at EXCEPT ![t] = m]
      /\ w.timer \subseteq s.timer \cup {t} /\ (~timed => w.timer \subseteq s.timer)
  <2>1. t \in Threads \ {Idle} /\ timed \in BOOLEAN
    BY <1>0
  <2> HIDE DEF t, timed
  <2> QED
    BY <1>0, <2>1, WaitBegins
<1> HIDE DEF w
<1>2. /\ SameBooks(s, w) /\ w.err = s.err /\ w.value = s.value /\ w.net = s.net /\ w.lock = s.lock /\ w.mprio = s.mprio
      /\ w.prio = s.prio
  <2>1. /\ "lock" \notin G /\ "prio" \notin G /\ "base" \notin G /\ "pend" \notin G /\ "taken" \notin G /\ "owner" \notin G
        /\ "hold" \notin G /\ "ceil" \notin G /\ "got" \notin G /\ "obj" \notin G /\ "fault" \notin G
        /\ "err" \notin G /\ "value" \notin G /\ "net" \notin G /\ "mprio" \notin G
    OBVIOUS
  <2> HIDE DEF G
  <2>2. w.lock = s.lock /\ w.prio = s.prio
    BY <1>0, <1>1, <2>1, Kept
  <2> QED
    BY <1>0, <1>1, <2>1, <2>2, KeptIpc DEF SameBooks
<1>3. /\ waiting = Waiting(s, m)
      /\ MutexWait(s, m) = IF p < s.mprio[m] /\ p < s.prio[o] THEN _thread_update_priority(waiting, o, p) ELSE waiting
  <2>1. waiting = [w EXCEPT !.pend[t] = m, !.mprio[m] = IF p < @ THEN p ELSE @]
    BY <1>2
  <2>2. waiting = Waiting(s, m)
    BY DEF Waiting, w
  <2> HIDE DEF waiting
  <2> QED
    BY <2>1, <2>2 DEF MutexWait, w
<1>4. q \in 0 .. NoPrio
  <2>1. p \in 0 .. NoPrio
    BY <1>0, LevelsAssumption DEF Priorities, NoPrio
  <2> QED
    BY <1>0, <2>1
<1>5. Shape(w) /\ IpcTyped(w) /\ IpcFields \subseteq DOMAIN w
  BY <1>1 DEF Lists, Inv, Sound, Typed, IpcTyped
<1>6. Changes(w, waiting, F) /\ waiting.pend = [w.pend EXCEPT ![t] = m] /\ waiting.mprio = [w.mprio EXCEPT ![m] = q]
  <2> HIDE DEF q, t
  <2> QED
    BY <1>5 DEF Shape, Changes, IpcFields
<1> HIDE DEF waiting, q
<1>7. /\ waiting.base = w.base /\ waiting.err = w.err /\ waiting.taken = w.taken /\ waiting.at = w.at
      /\ waiting.value = w.value /\ waiting.net = w.net /\ waiting.obj = w.obj /\ waiting.fault = w.fault
      /\ waiting.owner = w.owner /\ waiting.hold = w.hold /\ waiting.got = w.got /\ waiting.ceil = w.ceil
  <2>1. /\ "base" \notin F /\ "err" \notin F /\ "owner" \notin F /\ "taken" \notin F /\ "at" \notin F
        /\ "value" \notin F /\ "net" \notin F /\ "ceil" \notin F /\ "obj" \notin F /\ "fault" \notin F
        /\ "hold" \notin F /\ "got" \notin F
    OBVIOUS
  <2> HIDE DEF F
  <2> QED
    BY <1>5, <1>6, <2>1, KeptIpc
<1>8. IpcTyped(waiting)
  <2>1. waiting.pend \in [Threads -> Mutexes \cup {NULL}] /\ waiting.mprio \in [Mutexes -> 0 .. NoPrio]
    BY <1>0, <1>2, <1>4, <1>6 DEF SameBooks
  <2> QED
    BY <1>5, <1>6, <2>1, IpcTypedAgain
<1>9. /\ Lists(waiting) /\ waiting.stat = w.stat /\ waiting.lock = w.lock /\ waiting.timer = w.timer
      /\ waiting.prio = w.prio
  <2>1. F \cap Fields = {} /\ "at" \notin F
    BY DEF Fields
  <2> HIDE DEF F
  <2> QED
    BY <1>1, <1>6, <1>8, <2>1, ListsKept
<1>10. Books(waiting)
  <2>1. /\ waiting.at = [s.at EXCEPT ![t] = m] /\ waiting.stat = [s.stat EXCEPT ![t] = "SUSPEND"]
        /\ waiting.pend = [s.pend EXCEPT ![t] = m] /\ waiting.value = s.value /\ waiting.net = s.net
        /\ waiting.obj = s.obj /\ waiting.taken = s.taken /\ waiting.owner = s.owner /\ waiting.hold = s.hold
        /\ waiting.got = s.got /\ waiting.fault = s.fault /\ waiting.lock = s.lock /\ waiting.timer \subseteq s.timer \cup {t}
    BY <1>1, <1>2, <1>6, <1>7, <1>9 DEF SameBooks
  <2>2. waiting.err = [s.err EXCEPT ![t] = "EOK"]
    BY <1>0, <1>2, <1>7
  <2>3. /\ Lists(s) /\ Books(s) /\ m \in Mutexes /\ s.obj[m] = "live" /\ s.owner[m] # NULL
        /\ t \in Threads /\ s.owner[m] # t /\ s.at[t] = NULL /\ Up(s, t)
    BY <1>0
  <2> HIDE DEF t, o
  <2> QED
    BY <2>1, <2>2, <2>3, MutexParked, ZenonT(120)
<1>11. /\ waiting.stat = [s.stat EXCEPT ![t] = "SUSPEND"] /\ waiting.at = [s.at EXCEPT ![t] = m]
       /\ waiting.timer \subseteq s.timer /\ waiting.prio = s.prio /\ waiting.mprio = [s.mprio EXCEPT ![m] = q]
       /\ waiting.base = s.base /\ waiting.taken = s.taken /\ waiting.owner = s.owner /\ waiting.ceil = s.ceil
       /\ waiting.obj = s.obj
  BY <1>1, <1>2, <1>6, <1>7, <1>9 DEF SameBooks
<1> QED
  BY <1>3, <1>9, <1>10, <1>11 DEF Queued, q

(* The caller waits for a mutex another thread owns, which may get its     *)
(* priority.                                                               *)
LEMMA MutexWaits ==
  ASSUME NEW s, Settled(s), s.cur # Idle, s.at[s.cur] = NULL, s.err[s.cur] = "EOK", NEW m \in Mutexes,
         s.obj[m] = "live", s.owner[m] # NULL, s.owner[m] # s.cur
  PROVE  LET r == MutexWait(s, m) IN Lists(r) /\ Books(r) /\ r.stat[s.cur] = "SUSPEND" /\ Quiet(s, r)
<1> DEFINE t == s.cur
           p == s.prio[t]
           waiting == Waiting(s, m)
           o == s.owner[m]
           r == IF p < s.mprio[m] /\ p < s.prio[o] THEN _thread_update_priority(waiting, o, p) ELSE waiting
<1>0. /\ Lists(s) /\ Books(s) /\ t \in Threads /\ s.stat[t] = "RUNNING" /\ s.prio \in [Threads -> Priorities]
      /\ s.stat \in [Threads -> Stats] /\ o \in Threads
  <2>1. o \in Threads
    BY MutexFacts
  <2> QED
    BY <2>1, SettledIs DEF Settled, Typed
<1>1. /\ Lists(waiting) /\ Books(waiting) /\ waiting.stat = [s.stat EXCEPT ![t] = "SUSPEND"]
      /\ waiting.at = [s.at EXCEPT ![t] = m] /\ waiting.timer \subseteq s.timer /\ MutexWait(s, m) = r
  <2>1. Queued(s, m, waiting)
    BY MutexWaiting
  <2> HIDE DEF waiting
  <2> QED
    BY <2>1 DEF Queued
<1> HIDE DEF waiting
<1>2. Updated(waiting, r)
  <2>1. Chainable(waiting)
    BY <1>1, BooksChainable
  <2>2. p \in Priorities
    BY <1>0
  <2> HIDE DEF p, o
  <2>3. CASE p < s.mprio[m] /\ p < s.prio[o]
    BY <1>0, <2>1, <2>2, <2>3, Updates DEF o
  <2>4. CASE ~(p < s.mprio[m] /\ p < s.prio[o])
    BY <2>1, <2>4, UpdatedNot
  <2> QED
    BY <2>3, <2>4
<1> HIDE DEF r
<1>3. Lists(r) /\ Books(r) /\ r.stat = waiting.stat
  BY <1>1, <1>2, UpdatedBooks
<1>4. r.stat[t] = "SUSPEND"
  BY <1>0, <1>1, <1>3
<1>5. Quiet(s, r)
  <2>1. r.at = [s.at EXCEPT ![t] = m] /\ r.timer \subseteq s.timer
    BY <1>1, <1>2 DEF Updated, SameIpc
  <2>2. t \in Threads \ s.timer /\ s.timer \subseteq Threads /\ s.at \in [Threads -> Objects \cup {NULL, Sleep}]
    BY <1>0, SettledIs DEF Books, Threadly
  <2> QED
    BY <2>1, <2>2, QuietWait
<1> QED
  BY <1>1, <1>3, <1>4, <1>5

(* _rt_mutex_take: the mutex is taken, once more perhaps, or waited for.   *)
LEMMA MutexTaken ==
  ASSUME NEW s, Settled(s), s.cur # Idle, s.at[s.cur] = NULL, NEW m \in Mutexes, s.obj[m] = "live", NEW wait \in Waits
  PROVE  Settled(_rt_mutex_take(s, m, wait)) /\ (wait # "timed" => Quiet(s, _rt_mutex_take(s, m, wait)))
<1> DEFINE t == s.cur
           x == [s EXCEPT !.err[t] = "EOK"]
<1>0. t \in Threads /\ s.err \in [Threads -> Errors] /\ "EOK" \in Errors /\ "ETIMEOUT" \in Errors
  BY SettledIs DEF Errors
<1>1. /\ Settled(x) /\ Changes(s, x, {"err"}) /\ SameBooks(s, x) /\ x.err = [s.err EXCEPT ![t] = "EOK"] /\ x.at = s.at
      /\ x.mprio = s.mprio /\ x.cur = s.cur /\ x.timer = s.timer
  BY <1>0, ErrorAlone
<1>q. Quiet(s, x)
  BY <1>1, QuietSame
<1>2. x.cur = t /\ x.at[t] = NULL /\ x.err[t] = "EOK" /\ x.obj[m] = "live" /\ x.owner = s.owner /\ x.hold = s.hold
      /\ x.got = s.got
  BY <1>0, <1>1 DEF SameBooks
<1>3. CASE s.owner[m] = t /\ ~HoldsMore(s, m)
  BY <1>1, <1>3, <1>q DEF _rt_mutex_take
<1>4. CASE s.owner[m] = t /\ HoldsMore(s, m)
  <2> HIDE DEF x
  <2> DEFINE h == x.hold[m] + 1
             g == x.got[m][t] + 1
             r == [x EXCEPT !.hold[m] = h, !.got[m][t] = g]
  <2>1. _rt_mutex_take(s, m, wait) = r
    BY <1>4 DEF _rt_mutex_take, x
  <2>2. Shape(x) /\ IpcFields \subseteq DOMAIN x
    BY <1>1, SettledIs
  <2>3. h \in 1 .. HoldMax /\ g = h
    <3>1. x.hold \in [Mutexes -> 0 .. HoldMax] /\ x.got[m][t] = x.hold[m]
      BY <1>1, <1>2, <1>4, MutexFacts
    <3> QED
      BY <1>2, <1>4, <3>1, BoundsAssumption DEF HoldsMore
  <2>4. Changes(x, r, {"hold", "got"}) /\ r.hold = [x.hold EXCEPT ![m] = h] /\ r.got = [x.got EXCEPT ![m][t] = g]
    <3> HIDE DEF h, g, t
    <3> QED
      BY <2>2 DEF Shape, Changes, IpcFields
  <2>6. x.at[x.cur] = NULL /\ x.owner[m] = x.cur /\ r.got = [x.got EXCEPT ![m][x.cur] = h]
        /\ r.hold = [x.hold EXCEPT ![m] = h] /\ Changes(x, r, {"hold", "got"})
    BY <1>2, <1>4, <2>3, <2>4
  <2> HIDE DEF h, g, r, t
  <2>5. Settled(r) /\ Quiet(x, r)
    BY <1>1, <1>2, <2>3, <2>6, HoldCounted
  <2> QED
    BY <1>q, <2>1, <2>5, QuietTwice
<1>5. CASE s.owner[m] # t /\ s.owner[m] = NULL
  <2>1. _rt_mutex_take(s, m, wait) = MutexGrab(x, m)
    BY <1>5 DEF _rt_mutex_take
  <2> HIDE DEF x
  <2>2. Settled(MutexGrab(x, m)) /\ Quiet(x, MutexGrab(x, m))
    BY <1>1, <1>2, <1>5, MutexGrabbed
  <2> QED
    BY <1>q, <2>1, <2>2, QuietTwice
<1>6. CASE s.owner[m] # t /\ s.owner[m] # NULL /\ wait = "no"
  <2>1. _rt_mutex_take(s, m, wait) = [s EXCEPT !.err[t] = "ETIMEOUT"]
    BY <1>6 DEF _rt_mutex_take
  <2> DEFINE e == [s EXCEPT !.err[t] = "ETIMEOUT"]
  <2>2. Settled(e) /\ e.at = s.at /\ e.timer = s.timer
    BY <1>0, ErrorAlone
  <2> HIDE DEF e
  <2>3. Quiet(s, e)
    BY <2>2, QuietSame
  <2> QED
    BY <2>1, <2>2, <2>3 DEF e
<1>7. CASE s.owner[m] # t /\ s.owner[m] # NULL /\ wait # "no"
  <2> DEFINE w == MutexWait(x, m)
             v == [w EXCEPT !.timer = @ \cup {t}]
  <2>1. _rt_mutex_take(s, m, wait) = rt_schedule(IF wait = "timed" THEN v ELSE w)
    BY <1>7 DEF _rt_mutex_take
  <2>2. Lists(w) /\ Books(w) /\ w.stat[t] = "SUSPEND" /\ Quiet(x, w)
    <3>1. x.cur # Idle /\ x.at[x.cur] = NULL /\ x.err[x.cur] = "EOK" /\ x.owner[m] # NULL /\ x.owner[m] # x.cur
      BY <1>2, <1>7
    <3> HIDE DEF x, t
    <3>2. Lists(w) /\ Books(w) /\ w.stat[x.cur] = "SUSPEND" /\ Quiet(x, w)
      BY <1>1, <1>2, <3>1, MutexWaits
    <3> QED
      BY <1>2, <3>2
  <2> HIDE DEF w
  <2>3. Lists(v) /\ Books(v)
    BY <1>0, <2>2, TimerStarted
  <2> HIDE DEF v
  <2>4. Settled(rt_schedule(v)) /\ Settled(rt_schedule(w))
    BY <2>2, <2>3, Settles
  <2>5. Quiet(s, rt_schedule(w))
    <3> HIDE DEF x
    <3> QED
      BY <1>q, <2>2, QuietTwice, SettlesFrom
  <2> QED
    BY <2>1, <2>4, <2>5
<1> QED
  BY <1>3, <1>4, <1>5, <1>6, <1>7

(* A woken thread t leaves its take call on mutex m, which counts for it   *)
(* if the mutex is there.                                                  *)
LEMMA MutexLeft ==
  ASSUME NEW s, Lists(s), Books(s), NEW t \in Threads, Up(s, t), NEW m \in Mutexes, s.at[t] = m,
         NEW r, r.at = [s.at EXCEPT ![t] = NULL], r.stat = s.stat, r.pend = s.pend, r.value = s.value, r.net = s.net,
         r.obj = s.obj, r.err = s.err, r.fault = s.fault, r.lock = s.lock, r.timer = s.timer,
         r.taken = s.taken, r.owner = s.owner, r.hold = s.hold,
         \A n \in Mutexes \ {m} : r.got[n] = s.got[n],
         \A u \in Threads \ {t} : r.got[m][u] = s.got[m][u],
         s.obj[m] = "live" => r.got[m][t] = s.got[m][t] + 1
  PROVE  Books(r)
<1>0. /\ s.at \in [Threads -> Objects \cup {NULL, Sleep}] /\ s.timer \subseteq Threads /\ m # NULL
      /\ s.got \in [Mutexes -> [Threads -> Nat]] /\ s.hold \in [Mutexes -> 0 .. HoldMax]
  BY MutexIs DEF Lists, Inv, Sound, Typed, IpcTyped
<1>1. r.at[t] = NULL /\ \A u \in Threads \ {t} : r.at[u] = s.at[u]
  BY <1>0
<1>2. \A x : x # NULL /\ x # m => SameAt(s, r, x)
  <2>1. SUFFICES ASSUME NEW x, x # NULL, x # m, NEW u \in Threads
                 PROVE  /\ r.at[u] = x <=> s.at[u] = x
                        /\ WaitsAt(r, u, x) <=> WaitsAt(s, u, x)
                        /\ Granted(r, u, x) <=> Granted(s, u, x)
                        /\ r.at[u] = x => r.err[u] = s.err[u]
    BY DEF SameAt
  <2>2. CASE u = t
    BY <1>1, <2>1, <2>2 DEF WaitsAt, Granted
  <2>3. CASE u # t
    BY <1>1, <2>3 DEF WaitsAt, Granted
  <2> QED
    BY <2>2, <2>3
<1>3. ~WaitsAt(s, t, m)
  BY DEF WaitsAt, Up
<1>4. Tokens(r)
  <2>1. \A o \in Sems : SameAt(s, r, o)
    BY <1>2, SemIs
  <2> QED
    BY <2>1, TokensKept DEF Books
<1>5. Threadly(r)
  BY <1>0, <1>1 DEF Books, Threadly, Up
<1>6. ASSUME s.obj[m] = "live" PROVE OwnerOf(r, m)
  <2>1. OwnerOf(s, m) /\ s.err[t] = "EOK"
    BY <1>6 DEF Books, Owners, OwnerOf
  <2>2. Granted(s, t, m) /\ ~Granted(r, t, m) /\ s.got[m][t] \in Nat
    BY <1>0, <1>1, <2>1 DEF Granted, Up
  <2>3. \A u \in Threads \ {t} : Granted(r, u, m) <=> Granted(s, u, m)
    BY <1>1 DEF Granted
  <2>4. ASSUME NEW u \in Threads
        PROVE  r.got[m][u] + (IF Granted(r, u, m) THEN 1 ELSE 0) = IF r.owner[m] = u THEN r.hold[m] ELSE 0
    <3>1. CASE u = t
      <4>1. s.got[m][t] + 1 = IF s.owner[m] = t THEN s.hold[m] ELSE 0
        BY <2>1, <2>2 DEF OwnerOf
      <4>2. r.got[m][t] = s.got[m][t] + 1
        BY <1>6
      <4>3. r.got[m][t] + 0 = r.got[m][t]
        BY <2>2, <4>2
      <4> QED
        BY <2>2, <3>1, <4>1, <4>2, <4>3
    <3>2. CASE u # t
      BY <2>1, <2>3, <3>2 DEF OwnerOf
    <3> QED
      BY <3>1, <3>2
  <2>5. \A u \in Threads : (m \in r.taken[u] <=> r.owner[m] = u) /\ (r.at[u] = m => r.err[u] = "EOK")
    BY <1>0, <1>1, <2>1 DEF OwnerOf
  <2>6. \A u \in Threads : WaitsAt(r, u, m) => WaitsAt(s, u, m)
    BY <1>0, <1>1 DEF WaitsAt
  <2> QED
    BY <2>1, <2>4, <2>5, <2>6 DEF OwnerOf
<1>7. Owners(r)
  <2>1. ASSUME NEW n \in Mutexes, r.obj[n] = "live", n # m PROVE OwnerOf(r, n)
    <3>1. OwnerOf(s, n) /\ SameAt(s, r, n) /\ r.got[n] = s.got[n]
      BY <1>2, <2>1, MutexIs DEF Books, Owners
    <3> QED
      BY <3>1 DEF OwnerOf, SameAt
  <2> QED
    BY <1>6, <2>1 DEF Books, Owners
<1>8. Pends(r)
  <2>1. \A u \in Threads : r.at[u] \in Mutexes => r.owner[r.at[u]] # NULL
    BY <1>1, MutexIs DEF Books, Pends
  <2>2. \A u \in Threads, n \in Mutexes : WaitsAt(r, u, n) => WaitsAt(s, u, n)
    BY <1>1, MutexIs DEF WaitsAt
  <2>3. \A u \in Threads, n \in Mutexes : WaitsAt(s, u, n) => WaitsAt(r, u, n)
    BY <1>1, <1>3 DEF WaitsAt, Up
  <2>4. ASSUME NEW u \in Threads, r.pend[u] # NULL, r.obj[r.pend[u]] # "detached" PROVE WaitsAt(r, u, r.pend[u])
    <3>1. s.pend[u] \in Mutexes
      BY <2>4 DEF Lists, IpcTyped
    <3> QED
      BY <2>3, <2>4, <3>1 DEF Books, Pends
  <2> QED
    BY <2>1, <2>2, <2>4 DEF Books, Pends
<1> QED
  BY <1>4, <1>5, <1>7, <1>8 DEF Books

(* The end of _rt_mutex_take: the caller has the mutex, or takes its       *)
(* priority back from the owner.                                           *)
LEMMA MutexReturned ==
  ASSUME NEW s, Settled(s), NEW m \in Mutexes, s.at[s.cur] = m
  PROVE  Settled(MutexReturn(s, m)) /\ Quiet(s, MutexReturn(s, m))
<1> DEFINE t == s.cur
           back == [s EXCEPT !.at[t] = NULL]
           g == s.got[m][t] + 1
           r == [back EXCEPT !.got[m][t] = g]
<1>0. /\ Lists(s) /\ Books(s) /\ t \in Threads /\ Up(s, t) /\ s.stat[t] = "RUNNING" /\ s.stat[t] # "SUSPEND"
      /\ IpcTyped(s) /\ Shape(s) /\ IpcFields \subseteq DOMAIN s /\ s.got \in [Mutexes -> [Threads -> Nat]]
      /\ s.at \in [Threads -> Objects \cup {NULL, Sleep}] /\ g \in Nat
  BY SettledIs DEF Settled, IpcTyped
<1>1. CASE s.err[t] = "EOK"
  <2> DEFINE F == {"at", "got"}
  <2>1. MutexReturn(s, m) = r
    <3>1. back.got = s.got
      BY <1>0 DEF IpcFields
    <3> HIDE DEF back
    <3>2. r = [back EXCEPT !.got[m][t] = @ + 1]
      BY <3>1
    <3> HIDE DEF r
    <3> QED
      BY <1>1, <3>2 DEF MutexReturn, back
  <2>2. Changes(s, r, F) /\ r.at = [s.at EXCEPT ![t] = NULL] /\ r.got = [s.got EXCEPT ![m][t] = g]
    <3> HIDE DEF g, t
    <3> QED
      BY <1>0 DEF Shape, Changes, IpcFields
  <2> HIDE DEF r, g, t
  <2>3. IpcTyped(r)
    <3>1. r.at \in [Threads -> Objects \cup {NULL, Sleep}] /\ r.got \in [Mutexes -> [Threads -> Nat]]
      BY <1>0, <2>2
    <3> QED
      BY <1>0, <2>2, <3>1, IpcTypedAgain
  <2>4. Lists(r) /\ r.cur = s.cur /\ r.stat = s.stat /\ r.lock = s.lock /\ r.timer = s.timer
    <3>1. F \cap Fields = {}
      BY DEF Fields
    <3> HIDE DEF F
    <3> QED
      BY <1>0, <2>2, <2>3, <3>1, AtSet
  <2>5. /\ r.pend = s.pend /\ r.value = s.value /\ r.net = s.net /\ r.obj = s.obj /\ r.err = s.err /\ r.fault = s.fault
        /\ r.taken = s.taken /\ r.owner = s.owner /\ r.hold = s.hold
    BY <1>0, <2>2, KeptIpc, SMTT(30)
  <2>6. /\ \A n \in Mutexes \ {m} : r.got[n] = s.got[n]
        /\ \A u \in Threads \ {t} : r.got[m][u] = s.got[m][u]
        /\ r.got[m][t] = s.got[m][t] + 1
    BY <1>0, <2>2 DEF g
  <2>7. s.at[t] = m
    BY DEF t
  <2>8. Books(r)
    BY <1>0, <2>2, <2>4, <2>5, <2>6, <2>7, MutexLeft
  <2>9. Quiet(s, r)
    <3>1. NULL \notin Mutexes /\ r.timer \subseteq s.timer \cup {t} /\ s.timer \subseteq Threads
      BY <2>4, MutexIs, SettledIs
    <3> QED
      BY <1>0, <2>2, <3>1, QuietOther
  <2> QED
    BY <1>0, <2>1, <2>4, <2>8, <2>9 DEF Settled, t
<1>2. CASE s.err[t] # "EOK"
  <2> DEFINE q == DropPriority(back, m, t)
             F == {"at"}
  <2>1. MutexReturn(s, m) = q
    BY <1>2 DEF MutexReturn
  <2>2. Changes(s, back, F) /\ back.at = [s.at EXCEPT ![t] = NULL]
    <3> HIDE DEF t
    <3> QED
      BY <1>0 DEF Shape, Changes, IpcFields
  <2>3. s.obj[m] # "live" /\ s.at[t] = m /\ s.owner[m] # NULL
    BY <1>0, <1>2 DEF Books, Owners, OwnerOf, Pends
  <2> HIDE DEF back, t
  <2>4. IpcTyped(back)
    <3>1. back.at \in [Threads -> Objects \cup {NULL, Sleep}]
      BY <1>0, <2>2
    <3> QED
      BY <1>0, <2>2, <3>1, IpcTypedAgain
  <2>5. Lists(back) /\ back.cur = s.cur /\ back.stat = s.stat /\ back.lock = s.lock /\ back.timer = s.timer
    <3>1. F \cap Fields = {}
      BY DEF Fields
    <3> HIDE DEF F
    <3> QED
      BY <1>0, <2>2, <2>4, <3>1, AtSet
  <2>6. /\ back.pend = s.pend /\ back.value = s.value /\ back.net = s.net /\ back.obj = s.obj /\ back.err = s.err
        /\ back.fault = s.fault /\ back.taken = s.taken /\ back.owner = s.owner /\ back.hold = s.hold /\ back.got = s.got
    BY <1>0, <2>2, KeptIpc
  <2>7. Books(back)
    <3>1. /\ \A n \in Mutexes \ {m} : back.got[n] = s.got[n]
          /\ \A u \in Threads \ {t} : back.got[m][u] = s.got[m][u]
      BY <2>6
    <3> QED
      BY <1>0, <2>2, <2>3, <2>5, <2>6, <3>1, MutexLeft
  <2>8. Updated(back, q)
    <3>1. Chainable(back) /\ back.owner[m] # NULL
      BY <2>3, <2>5, <2>6, <2>7, BooksChainable
    <3> QED
      BY <3>1, Drops
  <2> HIDE DEF q
  <2>9. Lists(q) /\ Books(q) /\ q.stat = back.stat /\ q.cur = back.cur /\ Quiet(back, q)
    BY <2>5, <2>7, <2>8, UpdatedBooks
  <2>10. Quiet(s, back)
    <3>1. NULL \notin Mutexes /\ back.timer \subseteq s.timer \cup {t} /\ s.timer \subseteq Threads
      BY <2>5, MutexIs, SettledIs
    <3> QED
      BY <1>0, <2>2, <3>1, QuietOther
  <2>11. Quiet(s, q)
    BY <2>9, <2>10, QuietTwice
  <2> QED
    BY <1>0, <2>1, <2>5, <2>9, <2>11 DEF Settled, t
<1> QED
  BY <1>1, <1>2

(* rt_mutex_setprioceiling: the owner may get another priority.            *)
LEMMA CeilingSet ==
  ASSUME NEW s, Settled(s), s.at[s.cur] = NULL, NEW m \in Mutexes, NEW p \in Priorities
  PROVE  Settled(rt_mutex_setprioceiling(s, m, p)) /\ Quiet(s, rt_mutex_setprioceiling(s, m, p))
<1> DEFINE t == s.cur
           c == [s EXCEPT !.ceil[m] = p]
           o == s.owner[m]
           q == _thread_get_mutex_priority(c, o)
           r == IF q # s.prio[o] THEN _thread_update_priority(c, o, q) ELSE c
           F == {"ceil"}
<1>0. /\ Lists(s) /\ Books(s) /\ t \in Threads /\ Up(s, t) /\ s.stat[t] = "RUNNING" /\ s.at[t] = NULL
      /\ IpcTyped(s) /\ Shape(s) /\ IpcFields \subseteq DOMAIN s /\ s.ceil \in [Mutexes -> 0 .. NoPrio]
      /\ o \in Threads \cup {NULL}
  BY SettledIs DEF Settled, IpcTyped
<1>1. Changes(s, c, F) /\ c.ceil = [s.ceil EXCEPT ![m] = p]
  BY <1>0 DEF Shape, Changes, IpcFields
<1>2. rt_mutex_setprioceiling(s, m, p) = IF o = NULL THEN c ELSE r
  BY DEF rt_mutex_setprioceiling
<1> HIDE DEF c
<1>3. IpcTyped(c)
  <2>1. c.ceil \in [Mutexes -> 0 .. NoPrio]
    <3>1. p \in 0 .. NoPrio
      BY LevelsAssumption DEF Priorities, NoPrio
    <3> QED
      BY <1>0, <1>1, <3>1
  <2> QED
    BY <1>0, <1>1, <2>1, IpcTypedAgain
<1>4. Lists(c) /\ c.cur = s.cur /\ c.stat = s.stat /\ c.lock = s.lock /\ c.timer = s.timer
  <2>1. F \cap Fields = {} /\ "at" \notin F
    BY DEF Fields
  <2> HIDE DEF F
  <2> QED
    BY <1>0, <1>1, <1>3, <2>1, ListsKept
<1>5. /\ c.pend = s.pend /\ c.value = s.value /\ c.net = s.net /\ c.obj = s.obj /\ c.err = s.err /\ c.at = s.at
      /\ c.fault = s.fault /\ c.taken = s.taken /\ c.owner = s.owner /\ c.hold = s.hold /\ c.got = s.got
  BY <1>0, <1>1, KeptIpc
<1>6. Books(c)
  <2>1. c.pend[t] \in {NULL, s.pend[t]} /\ Up(c, t) /\ (t \in c.timer => c.stat[t] = "SUSPEND")
    BY <1>0, <1>4, <1>5 DEF Up, Books, Threadly
  <2>2. \A u \in Threads \ {t} : c.stat[u] = s.stat[u] /\ c.err[u] = s.err[u] /\ c.pend[u] = s.pend[u]
    BY <1>4, <1>5
  <2> HIDE DEF t
  <2> QED
    BY <1>0, <1>4, <1>5, <2>1, <2>2, AloneBooks
<1>q. Quiet(s, c)
  BY <1>4, <1>5, QuietSame
<1>7. CASE o = NULL
  BY <1>0, <1>2, <1>4, <1>6, <1>7, <1>q DEF Settled
<1>8. CASE o # NULL
  <2>1. Updated(c, r)
    <3>1. Chainable(c)
      BY <1>4, <1>6, BooksChainable
    <3>2. o \in Threads /\ q \in Priorities
      BY <1>0, <1>3, <1>8, MutexPriorityIs
    <3> HIDE DEF q, o
    <3>3. CASE q # s.prio[o]
      BY <3>1, <3>2, <3>3, Updates
    <3>4. CASE q = s.prio[o]
      BY <3>1, <3>4, UpdatedNot
    <3> QED
      BY <3>3, <3>4
  <2> HIDE DEF r
  <2>2. Lists(r) /\ Books(r) /\ r.stat = c.stat /\ r.cur = c.cur /\ Quiet(c, r)
    BY <1>4, <1>6, <2>1, UpdatedBooks
  <2>3. Quiet(s, r)
    BY <1>q, <2>2, QuietTwice
  <2> QED
    BY <1>0, <1>2, <1>4, <1>8, <2>2, <2>3 DEF Settled
<1> QED
  BY <1>7, <1>8

(* rt_mutex_detach: the waiters return with an error, and the mutex is on  *)
(* no taken_object_list any more.                                          *)
LEMMA MutexRemoved ==
  ASSUME NEW s, Settled(s), NEW m \in Mutexes, s.obj[m] = "live"
  PROVE  Settled(MutexRemove(s, m, "detached")) /\ Quiet(s, MutexRemove(s, m, "detached"))
<1> DEFINE w == _ipc_list_resume_all(s, m)
           S == {u \in Threads : WaitsAt(s, u, m)}
           b == [t \in Threads |-> w.taken[t] \ {m}]
           r == [w EXCEPT !.taken = b, !.obj[m] = "detached"]
           F == {"taken", "obj"}
<1>0. /\ Lists(s) /\ Books(s) /\ IpcTyped(s) /\ s.cur \in Threads /\ s.stat[s.cur] = "RUNNING" /\ m \in Objects /\ m # NULL
      /\ s.obj \in [Objects -> Conditions] /\ s.taken \in [Threads -> SUBSET Mutexes]
  BY SettledIs, MutexIs DEF Settled, IpcTyped
<1>1. Woke(s, w, S) /\ \A u \in S : w.err[u] = "ERROR"
  BY <1>0, WakesAll
<1>2. MutexRemove(s, m, "detached") = r
  BY DEF MutexRemove
<1> HIDE DEF w, S
<1>3. Lists(w) /\ Shape(w) /\ IpcTyped(w) /\ IpcFields \subseteq DOMAIN w /\ w.taken = s.taken /\ w.obj = s.obj
  BY <1>1 DEF Woke, SameBooks, Lists, IpcTyped, Inv, Sound, Typed
<1>4. Changes(w, r, F) /\ r.taken = b /\ r.obj = [w.obj EXCEPT ![m] = "detached"]
  <2> HIDE DEF b
  <2> QED
    BY <1>3 DEF Shape, Changes, IpcFields
<1> HIDE DEF r
<1>5. IpcTyped(r)
  <2>1. r.taken \in [Threads -> SUBSET Mutexes]
    BY <1>0, <1>3, <1>4
  <2>2. r.obj \in [Objects -> Conditions]
    <3>1. "detached" \in Conditions
      BY DEF Conditions
    <3> QED
      BY <1>0, <1>3, <1>4, <3>1
  <2> QED
    BY <1>3, <1>4, <2>1, <2>2, IpcTypedAgain
<1>6. Lists(r) /\ r.cur = w.cur /\ r.stat = w.stat /\ r.lock = w.lock /\ r.timer = w.timer
  <2>1. F \cap Fields = {} /\ "at" \notin F
    BY DEF Fields
  <2> HIDE DEF F
  <2> QED
    BY <1>3, <1>4, <1>5, <2>1, ListsKept
<1>7. /\ r.pend = s.pend /\ r.value = s.value /\ r.net = s.net /\ r.err = w.err /\ r.at = s.at
      /\ r.fault = s.fault /\ r.owner = s.owner /\ r.hold = s.hold /\ r.got = s.got
  <2>1. /\ r.pend = w.pend /\ r.value = w.value /\ r.net = w.net /\ r.err = w.err /\ r.at = w.at
        /\ r.fault = w.fault /\ r.owner = w.owner /\ r.hold = w.hold /\ r.got = w.got
    BY <1>3, <1>4, KeptIpc
  <2> QED
    BY <1>1, <2>1 DEF Woke, SameBooks
<1>8. /\ r.obj[m] = "detached" /\ \A n \in Objects \ {m} : r.obj[n] = s.obj[n]
      /\ \A u \in Threads : r.taken[u] = s.taken[u] \ {m}
  BY <1>0, <1>3, <1>4
<1>9. \A u \in Threads \ S : r.stat[u] = s.stat[u] /\ r.err[u] = s.err[u]
  BY <1>1, <1>6, <1>7 DEF Woke
<1>10. \A u \in S : u \in Threads /\ WaitsAt(s, u, m) /\ Up(r, u)
  BY <1>1, <1>6 DEF Woke, S, Up
<1>11. \A x : x # NULL /\ x # m => SameAt(s, r, x)
  <2>1. SUFFICES ASSUME NEW x, x # NULL, x # m, NEW u \in Threads
                 PROVE  /\ r.at[u] = x <=> s.at[u] = x
                        /\ WaitsAt(r, u, x) <=> WaitsAt(s, u, x)
                        /\ Granted(r, u, x) <=> Granted(s, u, x)
                        /\ r.at[u] = x => r.err[u] = s.err[u]
    BY DEF SameAt
  <2>2. CASE u \in S
    BY <1>7, <1>10, <2>1, <2>2 DEF WaitsAt, Granted
  <2>3. CASE u \notin S
    BY <1>7, <1>9, <2>3 DEF WaitsAt, Granted
  <2> QED
    BY <2>2, <2>3
<1>12. \A u \in Threads : ~WaitsAt(r, u, m)
  <2>1. SUFFICES ASSUME NEW u \in Threads, WaitsAt(r, u, m) PROVE FALSE
    OBVIOUS
  <2>2. u \notin S
    BY <1>10, <2>1 DEF WaitsAt, Up
  <2>3. WaitsAt(s, u, m)
    BY <1>7, <1>9, <2>1, <2>2 DEF WaitsAt
  <2> QED
    BY <2>2, <2>3 DEF S
<1>13. Tokens(r)
  <2>1. \A o \in Sems : SameAt(s, r, o)
    BY <1>11, SemIs
  <2> QED
    BY <1>0, <1>7, <2>1, TokensKept DEF Books
<1>14. Threadly(r)
  <2>1. Threadly(w)
    BY <1>0, <1>1, WokeThreadly DEF Books
  <2>2. \A u \in Threads : r.at[u] # NULL \/ r.taken[u] # {} => r.stat[u] = "SUSPEND" \/ Up(r, u)
    <3>1. \A u \in Threads : r.at[u] = w.at[u] /\ (r.taken[u] # {} => w.taken[u] # {})
      BY <1>1, <1>3, <1>7, <1>8 DEF Woke
    <3> QED
      BY <1>6, <2>1, <3>1 DEF Threadly, Up
  <2>3. r.fault = w.fault
    BY <1>1, <1>7 DEF Woke, SameBooks
  <2> QED
    BY <1>6, <2>1, <2>2, <2>3 DEF Threadly
<1>15. Owners(r)
  <2>1. ASSUME NEW n \in Mutexes, r.obj[n] = "live" PROVE OwnerOf(r, n)
    <3>1. n # m /\ n # NULL /\ s.obj[n] = "live"
      BY <1>8, <2>1, MutexIs
    <3>2. OwnerOf(s, n) /\ SameAt(s, r, n)
      BY <1>0, <1>11, <3>1 DEF Books, Owners
    <3>3. \A u \in Threads : n \in r.taken[u] <=> n \in s.taken[u]
      BY <1>8, <3>1
    <3> QED
      BY <1>7, <3>2, <3>3 DEF OwnerOf, SameAt
  <2>2. ASSUME NEW n \in Mutexes, NEW u \in Threads, r.obj[n] # "live" PROVE n \notin r.taken[u]
    <3>1. CASE n = m
      BY <1>8, <3>1
    <3>2. CASE n # m
      BY <1>0, <1>8, <2>2, <3>2, MutexIs DEF Books, Owners
    <3> QED
      BY <3>1, <3>2
  <2> QED
    BY <2>1, <2>2 DEF Owners
<1>16. Pends(r)
  <2>1. \A u \in Threads : r.at[u] \in Mutexes => r.owner[r.at[u]] # NULL
    BY <1>0, <1>7 DEF Books, Pends
  <2>2. \A n \in Mutexes : r.obj[n] # "freed"
    BY <1>0, <1>8, MutexIs DEF Books, Pends
  <2>3. ASSUME NEW u \in Threads, NEW n \in Mutexes, WaitsAt(r, u, n) PROVE r.pend[u] = n /\ r.obj[n] = "live"
    <3>1. n # m /\ n # NULL /\ n \in Objects
      BY <1>12, <2>3, MutexIs
    <3>2. WaitsAt(s, u, n)
      BY <1>11, <2>3, <3>1 DEF SameAt
    <3> QED
      BY <1>0, <1>7, <1>8, <3>1, <3>2 DEF Books, Pends
  <2>4. ASSUME NEW u \in Threads, r.pend[u] # NULL, r.obj[r.pend[u]] # "detached" PROVE WaitsAt(r, u, r.pend[u])
    <3>1. s.pend[u] \in Mutexes /\ s.pend[u] # m
      BY <1>0, <1>7, <1>8, <2>4 DEF IpcTyped
    <3>2. s.obj[s.pend[u]] # "detached" /\ s.pend[u] # NULL
      BY <1>7, <1>8, <2>4, <3>1, MutexIs
    <3>3. WaitsAt(s, u, s.pend[u])
      BY <1>0, <3>2 DEF Books, Pends
    <3> QED
      BY <1>7, <1>11, <3>1, <3>2, <3>3 DEF SameAt
  <2> QED
    BY <2>1, <2>2, <2>3, <2>4 DEF Pends
<1>17. r.stat[r.cur] = "RUNNING"
  <2>1. r.cur = s.cur /\ s.cur \notin S
    BY <1>0, <1>1, <1>6 DEF Woke
  <2> QED
    BY <1>0, <1>9, <2>1
<1>18. Quiet(s, r)
  <2>1. r.timer \subseteq s.timer
    BY <1>1, <1>6 DEF Woke
  <2> QED
    BY <1>7, <2>1, QuietSame
<1> QED
  BY <1>2, <1>6, <1>13, <1>14, <1>15, <1>16, <1>17, <1>18 DEF Settled, Books

(* Thread h was woken and owns mutex m, which thread t has no more.        *)
HandsOn(s, r, m, t, h) ==
  /\ r.at = s.at /\ r.err = s.err /\ r.value = s.value /\ r.net = s.net /\ r.obj = s.obj /\ r.fault = s.fault
  /\ r.lock = s.lock /\ r.timer \subseteq s.timer \ {h} /\ Up(r, h) /\ \A u \in Threads \ {h} : r.stat[u] = s.stat[u]
  /\ r.pend = [s.pend EXCEPT ![h] = NULL] /\ r.owner = [s.owner EXCEPT ![m] = h] /\ r.hold = [s.hold EXCEPT ![m] = 1]
  /\ r.got = [s.got EXCEPT ![m][t] = 0]
  /\ r.taken[t] = s.taken[t] \ {m} /\ r.taken[h] = s.taken[h] \cup {m}
  /\ \A u \in Threads \ {t, h} : r.taken[u] = s.taken[u]

(* The first waiter h of mutex m, which thread t had held once, is its     *)
(* owner and goes on.                                                      *)
LEMMA HandedBooks ==
  ASSUME NEW s, Lists(s), Books(s), NEW m \in Mutexes, s.obj[m] = "live",
         NEW t \in Threads, s.owner[m] = t, s.got[m][t] = 1, s.at[t] = NULL, Up(s, t),
         NEW h \in Threads, WaitsAt(s, h, m),
         NEW r, HandsOn(s, r, m, t, h)
  PROVE  Books(r)
<1> USE DEF HandsOn
<1>0. /\ s.at \in [Threads -> Objects \cup {NULL, Sleep}] /\ s.stat \in [Threads -> Stats] /\ s.timer \subseteq Threads
      /\ s.pend \in [Threads -> Mutexes \cup {NULL}] /\ s.got \in [Mutexes -> [Threads -> Nat]]
      /\ s.hold \in [Mutexes -> 0 .. HoldMax] /\ s.owner \in [Mutexes -> Threads \cup {NULL}]
      /\ OwnerOf(s, m) /\ s.at[h] = m /\ s.stat[h] = "SUSPEND" /\ h # t /\ s.err[h] = "EOK" /\ m # NULL
  BY MutexIs DEF Lists, Inv, Sound, Typed, IpcTyped, Books, Owners, OwnerOf, WaitsAt, Up
<1>1. \A x : x # NULL /\ x # m => SameAt(s, r, x)
  <2>1. SUFFICES ASSUME NEW x, x # NULL, x # m, NEW u \in Threads
                 PROVE  /\ r.at[u] = x <=> s.at[u] = x
                        /\ WaitsAt(r, u, x) <=> WaitsAt(s, u, x)
                        /\ Granted(r, u, x) <=> Granted(s, u, x)
                        /\ r.at[u] = x => r.err[u] = s.err[u]
    BY DEF SameAt
  <2>2. CASE u = h
    BY <1>0, <2>1, <2>2 DEF WaitsAt, Granted
  <2>3. CASE u # h
    BY <2>3 DEF WaitsAt, Granted
  <2> QED
    BY <2>2, <2>3
<1>2. Tokens(r)
  <2>1. \A o \in Sems : SameAt(s, r, o)
    BY <1>1, SemIs
  <2> QED
    BY <2>1, TokensKept DEF Books
<1>3. Threadly(r)
  <2>1. ASSUME NEW u \in Threads, r.at[u] # NULL \/ r.taken[u] # {} PROVE r.stat[u] = "SUSPEND" \/ Up(r, u)
    <3>1. CASE u = h
      BY <3>1
    <3>2. CASE u # h
      <4>1. s.at[u] # NULL \/ s.taken[u] # {}
        BY <2>1, <3>2
      <4> QED
        BY <3>2, <4>1 DEF Books, Threadly, Up
    <3> QED
      BY <3>1, <3>2
  <2>2. \A u \in r.timer : r.stat[u] = "SUSPEND"
    BY <1>0 DEF Books, Threadly
  <2> QED
    BY <2>1, <2>2 DEF Books, Threadly
<1>4. OwnerOf(r, m)
  <2>1. r.owner[m] = h /\ r.hold[m] = 1 /\ r.got[m][t] = 0 /\ \A u \in Threads \ {t} : r.got[m][u] = s.got[m][u]
    BY <1>0
  <2>2. Granted(r, h, m)
    BY <1>0 DEF Granted, Up
  <2>3. \A u \in Threads \ {h} : Granted(r, u, m) <=> Granted(s, u, m)
    BY DEF Granted
  <2>4. ~Granted(s, t, m)
    BY <1>0 DEF Granted
  <2>5. \A u \in Threads \ {t} : s.got[m][u] = 0 /\ ~Granted(s, u, m)
    <3>1. SUFFICES ASSUME NEW u \in Threads, u # t PROVE s.got[m][u] = 0 /\ ~Granted(s, u, m)
      OBVIOUS
    <3>2. s.got[m][u] \in Nat /\ s.got[m][u] + (IF Granted(s, u, m) THEN 1 ELSE 0) = 0
      BY <1>0, <3>1 DEF OwnerOf
    <3> QED
      BY <3>2
  <2>6. ASSUME NEW u \in Threads
        PROVE  r.got[m][u] + (IF Granted(r, u, m) THEN 1 ELSE 0) = IF r.owner[m] = u THEN r.hold[m] ELSE 0
    <3>1. CASE u = h
      BY <1>0, <2>1, <2>2, <2>5, <3>1
    <3>2. CASE u = t
      BY <1>0, <2>1, <2>3, <2>4, <3>2
    <3>3. CASE u # h /\ u # t
      BY <2>1, <2>3, <2>5, <3>3
    <3> QED
      BY <3>1, <3>2, <3>3
  <2>7. ASSUME NEW u \in Threads PROVE m \in r.taken[u] <=> r.owner[m] = u
    <3>1. CASE u = h
      BY <2>1, <3>1
    <3>2. CASE u = t
      BY <1>0, <2>1, <3>2
    <3>3. CASE u # h /\ u # t
      BY <1>0, <2>1, <3>3 DEF OwnerOf
    <3> QED
      BY <3>1, <3>2, <3>3
  <2>8. \A u \in Threads : r.at[u] = m => r.err[u] = "EOK"
    BY <1>0 DEF OwnerOf
  <2>9. r.owner[m] # NULL
    BY <2>1, NullAssumption
  <2> QED
    BY <2>1, <2>6, <2>7, <2>8, <2>9 DEF OwnerOf
<1>5. \A n \in Mutexes \ {m} : /\ r.owner[n] = s.owner[n] /\ r.hold[n] = s.hold[n] /\ r.got[n] = s.got[n]
                               /\ \A u \in Threads : n \in r.taken[u] <=> n \in s.taken[u]
  <2>1. SUFFICES ASSUME NEW n \in Mutexes, n # m
                 PROVE  /\ r.owner[n] = s.owner[n] /\ r.hold[n] = s.hold[n] /\ r.got[n] = s.got[n]
                        /\ \A u \in Threads : n \in r.taken[u] <=> n \in s.taken[u]
    OBVIOUS
  <2>2. r.owner[n] = s.owner[n] /\ r.hold[n] = s.hold[n] /\ r.got[n] = s.got[n]
    BY <1>0, <2>1
  <2>3. ASSUME NEW u \in Threads PROVE n \in r.taken[u] <=> n \in s.taken[u]
    <3>1. CASE u = h
      BY <2>1, <3>1
    <3>2. CASE u = t
      BY <2>1, <3>2
    <3>3. CASE u # h /\ u # t
      BY <3>3
    <3> QED
      BY <3>1, <3>2, <3>3
  <2> QED
    BY <2>2, <2>3
<1>6. Owners(r)
  <2>1. ASSUME NEW n \in Mutexes, r.obj[n] = "live", n # m PROVE OwnerOf(r, n)
    <3>1. OwnerOf(s, n) /\ SameAt(s, r, n)
      BY <1>1, <2>1, MutexIs DEF Books, Owners
    <3>2. /\ r.owner[n] = s.owner[n] /\ r.hold[n] = s.hold[n] /\ r.got[n] = s.got[n]
          /\ \A u \in Threads : n \in r.taken[u] <=> n \in s.taken[u]
      BY <1>5, <2>1
    <3> QED
      BY <3>1, <3>2 DEF OwnerOf, SameAt
  <2>2. ASSUME NEW n \in Mutexes, NEW u \in Threads, r.obj[n] # "live" PROVE n \notin r.taken[u]
    BY <1>5, <2>2 DEF Books, Owners
  <2> QED
    BY <1>4, <2>1, <2>2 DEF Owners
<1>7. Pends(r)
  <2>0. r.pend[h] = NULL /\ \A u \in Threads \ {h} : r.pend[u] = s.pend[u]
    BY <1>0
  <2>1. \A u \in Threads : r.at[u] \in Mutexes => r.owner[r.at[u]] # NULL
    BY <1>0, NullAssumption DEF Books, Pends
  <2>2. ASSUME NEW u \in Threads, NEW n \in Mutexes, WaitsAt(r, u, n) PROVE r.pend[u] = n /\ r.obj[n] = "live"
    <3>1. u # h
      BY <2>2 DEF WaitsAt, Up
    <3> QED
      BY <2>0, <2>2, <3>1 DEF Books, Pends, WaitsAt
  <2>3. ASSUME NEW u \in Threads, r.pend[u] # NULL, r.obj[r.pend[u]] # "detached" PROVE WaitsAt(r, u, r.pend[u])
    <3>1. u # h
      BY <2>0, <2>3
    <3> QED
      BY <2>0, <2>3, <3>1 DEF Books, Pends, WaitsAt
  <2> QED
    BY <2>1, <2>2, <2>3 DEF Books, Pends
<1> QED
  BY <1>2, <1>3, <1>6, <1>7 DEF Books

(* The kernel while rt_mutex_release gives up mutex m: the hold count is   *)
(* zero, the mutex is off the caller's list, and the caller may have       *)
(* another priority.                                                       *)
GivesUp(s, m, own) ==
  /\ Lists(own) /\ IpcTyped(own) /\ Shape(own) /\ IpcFields \subseteq DOMAIN own
  /\ own.hold = [s.hold EXCEPT ![m] = 0] /\ own.got = [s.got EXCEPT ![m][s.cur] = 0]
  /\ own.taken = [s.taken EXCEPT ![s.cur] = @ \ {m}]
  /\ own.base = s.base /\ own.err = s.err /\ own.pend = s.pend /\ own.at = s.at /\ own.value = s.value
  /\ own.net = s.net /\ own.owner = s.owner /\ own.ceil = s.ceil /\ own.obj = s.obj /\ own.fault = s.fault
  /\ own.stat = s.stat /\ own.cur = s.cur /\ own.lock = s.lock /\ own.timer \subseteq s.timer

(* It gives it up.                                                         *)
LEMMA GivenUp ==
  ASSUME NEW s, Settled(s), s.at[s.cur] = NULL, NEW m \in Mutexes, s.obj[m] = "live",
         s.owner[m] = s.cur, s.hold[m] = 1, NEW lower \in BOOLEAN
  PROVE  LET t    == s.cur
             less == [s EXCEPT !.hold[m] = @ - 1, !.got[m][t] = @ - 1]
             off  == [less EXCEPT !.taken[t] = @ \ {m}]
             own  == IF lower THEN ChangePriority(off, t, _thread_get_mutex_priority(off, t)) ELSE off
         IN  /\ GivesUp(s, m, own) /\ own.mprio = s.mprio
             /\ own.prio = IF lower THEN [s.prio EXCEPT ![t] = _thread_get_mutex_priority(own, t)] ELSE s.prio
<1> DEFINE t == s.cur
           a == s.hold[m] - 1
           g == s.got[m][t] - 1
           b == s.taken[t] \ {m}
           less == [s EXCEPT !.hold[m] = a, !.got[m][t] = g]
           off == [less EXCEPT !.taken[t] = b]
           q == _thread_get_mutex_priority(off, t)
           own == IF lower THEN ChangePriority(off, t, q) ELSE off
           F == {"hold", "got", "taken"}
<1>0. /\ Lists(s) /\ Books(s) /\ t \in Threads /\ Up(s, t) /\ s.stat[t] = "RUNNING" /\ s.at[t] = NULL
      /\ IpcTyped(s) /\ Shape(s) /\ IpcFields \subseteq DOMAIN s
  BY SettledIs DEF Settled
<1>1. /\ s.hold \in [Mutexes -> 0 .. HoldMax] /\ s.got \in [Mutexes -> [Threads -> Nat]]
      /\ s.taken \in [Threads -> SUBSET Mutexes] /\ s.got[m][t] = 1 /\ a = 0 /\ g = 0 /\ b \in SUBSET Mutexes
  <2>1. /\ s.hold \in [Mutexes -> 0 .. HoldMax] /\ s.got \in [Mutexes -> [Threads -> Nat]]
        /\ s.taken \in [Threads -> SUBSET Mutexes] /\ s.got[m][t] = 1
    BY MutexFacts
  <2> QED
    BY <1>0, <2>1
<1>2. less = [s EXCEPT !.hold[m] = @ - 1, !.got[m][t] = @ - 1]
  OBVIOUS
<1>3. off = [[s EXCEPT !.hold[m] = @ - 1, !.got[m][t] = @ - 1] EXCEPT !.taken[t] = @ \ {m}]
  <2>1. less.taken = s.taken
    BY <1>0 DEF IpcFields
  <2> HIDE DEF less, t
  <2> QED
    BY <1>2, <2>1
<1>4. /\ Changes(s, off, F) /\ off.hold = [s.hold EXCEPT ![m] = a] /\ off.got = [s.got EXCEPT ![m][t] = g]
      /\ off.taken = [s.taken EXCEPT ![t] = b]
  <2> HIDE DEF a, g, b, t
  <2> QED
    BY <1>0 DEF Shape, Changes, IpcFields
<1> HIDE DEF off, a, g, b
<1>5. IpcTyped(off)
  <2>1. off.hold \in [Mutexes -> 0 .. HoldMax] /\ off.got \in [Mutexes -> [Threads -> Nat]]
    <3>1. a \in 0 .. HoldMax /\ g \in Nat
      BY <1>1, BoundsAssumption
    <3> QED
      BY <1>0, <1>1, <1>4, <3>1
  <2>2. off.taken \in [Threads -> SUBSET Mutexes]
    BY <1>0, <1>1, <1>4
  <2> QED
    BY <1>0, <1>4, <2>1, <2>2, IpcTypedAgain
<1>6. Lists(off) /\ off.cur = s.cur /\ off.stat = s.stat /\ off.lock = s.lock /\ off.timer = s.timer /\ off.prio = s.prio
  <2>1. F \cap Fields = {} /\ "at" \notin F
    BY DEF Fields
  <2> HIDE DEF F
  <2> QED
    BY <1>0, <1>4, <1>5, <2>1, ListsKept
<1>7. /\ off.base = s.base /\ off.err = s.err /\ off.pend = s.pend /\ off.at = s.at /\ off.value = s.value
      /\ off.net = s.net /\ off.owner = s.owner /\ off.ceil = s.ceil /\ off.obj = s.obj /\ off.fault = s.fault
      /\ off.mprio = s.mprio
  BY <1>0, <1>4, KeptIpc
<1>8. Chainable(off)
  <2>1. Chainable(s)
    BY <1>0, BooksChainable
  <2> QED
    BY <1>6, <1>7, <2>1 DEF Chainable, WaitsAt
<1>9. Updated(off, own)
  <2>1. CASE lower
    <3>1. q \in Priorities
      BY <1>0, <1>5, MutexPriorityIs
    <3> HIDE DEF q
    <3>2. Updated(off, UpdateOne(off, t, q).s)
      BY <1>0, <1>8, <3>1, UpdatesOne
    <3>3. UpdateOne(off, t, q).s = ChangePriority(off, t, q)
      BY <1>0, <1>6 DEF UpdateOne
    <3> QED
      BY <2>1, <3>2, <3>3
  <2>2. CASE ~lower
    BY <1>8, <2>2, UpdatedNot
  <2> QED
    BY <2>1, <2>2
<1>10. own = LET o == [[s EXCEPT !.hold[m] = @ - 1, !.got[m][t] = @ - 1] EXCEPT !.taken[t] = @ \ {m}]
             IN  IF lower THEN ChangePriority(o, t, _thread_get_mutex_priority(o, t)) ELSE o
  <2> HIDE DEF t
  <2> QED
    BY <1>3
<1>11. /\ Lists(own) /\ IpcTyped(own) /\ Shape(own) /\ IpcFields \subseteq DOMAIN own /\ SameIpc(off, own)
       /\ own.stat = s.stat /\ own.cur = s.cur /\ own.lock = s.lock /\ own.timer \subseteq s.timer
  <2> HIDE DEF own
  <2> QED
    BY <1>6, <1>9 DEF Updated, Chainable, Lists, IpcTyped, Inv, Sound, Typed
<1>m. own.mprio = s.mprio /\ own.prio = IF lower THEN [s.prio EXCEPT ![t] = q] ELSE s.prio
  <2>1. CASE lower
    <3>1. own = [off EXCEPT !.prio[t] = q]
      BY <1>0, <1>6, <2>1 DEF ChangePriority
    <3>2. Shape(off) /\ IpcFields \subseteq DOMAIN off
      BY <1>5, <1>6 DEF Lists, Inv, Sound, Typed, IpcTyped
    <3>3. own.mprio = off.mprio /\ own.prio = [off.prio EXCEPT ![t] = q]
      BY <3>1, <3>2 DEF Shape, Fields, IpcFields
    <3> QED
      BY <1>6, <1>7, <2>1, <3>3
  <2>2. CASE ~lower
    BY <1>6, <1>7, <2>2
  <2> QED
    BY <2>1, <2>2
<1> HIDE DEF own
<1>q. q = _thread_get_mutex_priority(own, t)
  BY <1>7, <1>11, <1>m DEF SameIpc, _thread_get_mutex_priority
<1>12. GivesUp(s, m, own)
  <2>1. own.hold = off.hold /\ own.got = off.got /\ own.taken = off.taken
    BY <1>11 DEF SameIpc
  <2>2. /\ own.hold = [s.hold EXCEPT ![m] = 0] /\ own.got = [s.got EXCEPT ![m][s.cur] = 0]
        /\ own.taken = [s.taken EXCEPT ![s.cur] = @ \ {m}]
    BY <1>1, <1>4, <2>1 DEF b
  <2> QED
    BY <1>7, <1>11, <2>2 DEF GivesUp, SameIpc
<1> QED
  BY <1>10, <1>12, <1>m, <1>q

(* A mutex nobody waits for is free.                                       *)
LEMMA MutexFreed ==
  ASSUME NEW s, Settled(s), s.at[s.cur] = NULL, NEW m \in Mutexes, s.obj[m] = "live",
         s.owner[m] = s.cur, s.hold[m] = 1, s.list[m] = <<>>, NEW own, GivesUp(s, m, own)
  PROVE  LET r == [own EXCEPT !.owner[m] = NULL, !.mprio[m] = NoPrio] IN Settled(r) /\ Quiet(s, r)
<1> DEFINE t == s.cur
           r == [own EXCEPT !.owner[m] = NULL, !.mprio[m] = NoPrio]
           F == {"owner", "mprio"}
<1>0. /\ Lists(s) /\ Books(s) /\ t \in Threads /\ Up(s, t) /\ s.stat[t] = "RUNNING" /\ s.at[t] = NULL /\ IpcTyped(s)
  BY SettledIs DEF Settled
<1>1. /\ OwnerOf(s, m) /\ ~Granted(s, t, m)
      /\ s.owner \in [Mutexes -> Threads \cup {NULL}]
      /\ s.hold \in [Mutexes -> 0 .. HoldMax] /\ s.got \in [Mutexes -> [Threads -> Nat]]
      /\ s.taken \in [Threads -> SUBSET Mutexes]
      /\ \A u \in Threads : s.owner[m] # u => s.got[m][u] = 0 /\ ~Granted(s, u, m)
  BY MutexFacts
<1>2. Changes(own, r, F) /\ r.owner = [own.owner EXCEPT ![m] = NULL] /\ r.mprio = [own.mprio EXCEPT ![m] = NoPrio]
  BY DEF Shape, Changes, IpcFields, GivesUp
<1> HIDE DEF r
<1>3. IpcTyped(r)
  <2>1. r.owner \in [Mutexes -> Threads \cup {NULL}] /\ r.mprio \in [Mutexes -> 0 .. NoPrio]
    <3>1. NoPrio \in 0 .. NoPrio
      BY LevelsAssumption DEF NoPrio
    <3> QED
      BY <1>2, <3>1 DEF GivesUp, IpcTyped
  <2> QED
    BY <1>2, <2>1, IpcTypedAgain DEF GivesUp
<1>4. Lists(r) /\ r.cur = own.cur /\ r.stat = own.stat /\ r.lock = own.lock /\ r.timer = own.timer
  <2>1. F \cap Fields = {} /\ "at" \notin F
    BY DEF Fields
  <2> HIDE DEF F
  <2> QED
    BY <1>2, <1>3, <2>1, ListsKept DEF GivesUp
<1>5. /\ r.pend = own.pend /\ r.value = own.value /\ r.net = own.net /\ r.obj = own.obj /\ r.err = own.err /\ r.at = own.at
      /\ r.fault = own.fault /\ r.taken = own.taken /\ r.hold = own.hold /\ r.got = own.got
  BY <1>2, KeptIpc DEF GivesUp
<1>6. /\ r.pend = s.pend /\ r.value = s.value /\ r.net = s.net /\ r.obj = s.obj /\ r.err = s.err /\ r.at = s.at
      /\ r.fault = s.fault /\ r.cur = s.cur /\ r.stat = s.stat /\ r.lock = s.lock /\ r.timer \subseteq s.timer
      /\ r.owner = [s.owner EXCEPT ![m] = NULL] /\ r.hold = [s.hold EXCEPT ![m] = 0]
      /\ r.got = [s.got EXCEPT ![m][t] = 0] /\ r.taken = [s.taken EXCEPT ![t] = @ \ {m}]
  BY <1>2, <1>4, <1>5 DEF GivesUp
<1>7. \A u \in Threads : s.at[u] # m
  <2>1. SUFFICES ASSUME NEW u \in Threads, s.at[u] = m PROVE FALSE
    OBVIOUS
  <2>2. ~On(u, s.list[m])
    BY DEF On
  <2>3. ~WaitsAt(s, u, m)
    BY <1>0, <2>2, MutexIs DEF Lists, Queues
  <2>4. Up(s, u) /\ s.err[u] = "EOK"
    BY <1>0, <1>1, <2>1, <2>3, MutexIs DEF Books, Threadly, WaitsAt, OwnerOf
  <2>5. Granted(s, u, m)
    BY <2>1, <2>4 DEF Granted, Up
  <2> QED
    BY <1>1, <2>5
<1>8. OwnerOf(r, m)
  <2>1. r.owner[m] = NULL /\ r.hold[m] = 0 /\ r.got[m][t] = 0 /\ \A u \in Threads \ {t} : r.got[m][u] = s.got[m][u]
    BY <1>0, <1>1, <1>6
  <2>2. \A u \in Threads : r.got[m][u] = 0
    BY <1>1, <2>1
  <2>3. \A u \in Threads : ~Granted(r, u, m) /\ ~WaitsAt(r, u, m) /\ r.at[u] # m
    BY <1>6, <1>7 DEF Granted, WaitsAt
  <2>4. \A u \in Threads : m \notin r.taken[u]
    BY <1>0, <1>1, <1>6 DEF OwnerOf
  <2>5. \A u \in Threads : r.owner[m] # u
    BY <2>1, NullAssumption
  <2> QED
    BY <2>1, <2>2, <2>3, <2>4, <2>5 DEF OwnerOf
<1>9. Books(r)
  <2>1. \A n \in Mutexes \ {m} : r.owner[n] = s.owner[n] /\ r.hold[n] = s.hold[n] /\ r.got[n] = s.got[n]
                                 /\ (n \in r.taken[t] <=> n \in s.taken[t])
    BY <1>0, <1>1, <1>6
  <2>2. (\A u \in Threads \ {t} : r.taken[u] = s.taken[u]) /\ (\A u \in Threads \ {t} : r.err[u] = s.err[u])
    BY <1>0, <1>1, <1>6
  <2> HIDE DEF t
  <2> QED
    BY <1>0, <1>6, <1>7, <1>8, <2>1, <2>2, MutexBooks
<1>10. Quiet(s, r)
  BY <1>6, QuietSame
<1> QED
  BY <1>0, <1>4, <1>6, <1>9, <1>10 DEF Settled, r

(* A thread that was unlinked already is resumed like one that was not.    *)
LEMMA ResumedUnlinked ==
  ASSUME NEW s, Typed(s), NEW t \in Threads, s.stat[t] = "SUSPEND", NEW r, Changes(s, r, {"list"}),
         r.list = [h \in DOMAIN s.list |-> RemoveFirst(s.list[h], t)]
  PROVE  rt_thread_resume(r, t) = rt_thread_resume(s, t)
<1> DEFINE a == rt_list_remove(s, t)
           b == rt_list_remove(r, t)
<1>0. Shape(s) /\ Shape(r) /\ DOMAIN r = DOMAIN s /\ s.list \in [Heads -> Seq(Threads)] /\ r.stat = s.stat
      /\ \A h \in Heads : Distinct(s.list[h])
  <2>1. Shape(s) /\ Shape(r) /\ DOMAIN r = DOMAIN s /\ s.list \in [Heads -> Seq(Threads)]
        /\ \A h \in Heads : Distinct(s.list[h])
    BY DEF Typed, Changes
  <2>2. "stat" \notin {"list"}
    OBVIOUS
  <2> QED
    BY <2>1, <2>2, Kept
<1>1. Changes(s, a, {"list"}) /\ a.list = [h \in DOMAIN s.list |-> RemoveFirst(s.list[h], t)]
  BY <1>0, RemoveIs
<1>2. Changes(r, b, {"list"}) /\ b.list = [h \in DOMAIN r.list |-> RemoveFirst(r.list[h], t)]
  BY ONLY <1>0, RemoveIs
<1> HIDE DEF a, b
<1>3. b.list = a.list
  <2>1. \A h \in Heads : RemoveFirst(RemoveFirst(s.list[h], t), t) = RemoveFirst(s.list[h], t)
    <3>1. SUFFICES ASSUME NEW h \in Heads PROVE RemoveFirst(RemoveFirst(s.list[h], t), t) = RemoveFirst(s.list[h], t)
      OBVIOUS
    <3> DEFINE l == RemoveFirst(s.list[h], t)
    <3>2. l \in Seq(Threads) /\ ~On(t, l)
      BY <1>0, Unlinked
    <3> HIDE DEF l
    <3>3. RemoveFirst(l, t) = l
      BY <3>2, NotThere
    <3> QED
      BY <3>3 DEF l
  <2> QED
    BY <1>0, <1>1, <1>2, <2>1
<1>4. \A f \in DOMAIN s : b[f] = a[f]
  BY <1>0, <1>1, <1>2, <1>3 DEF Changes
<1>5. b = a
  <2>1. a = [f \in DOMAIN s |-> a[f]] /\ b = [f \in DOMAIN s |-> b[f]]
    BY <1>0, <1>1, <1>2 DEF Changes, Shape
  <2> QED
    BY <1>4, <2>1
<1> QED
  BY <1>0, <1>5 DEF rt_thread_resume, a, b

(* Kernel r is s after its caller, who gave up mutex m in own, handed it to *)
(* thread h: nobody's priority changed, and m asks for what its first       *)
(* waiter, if there is one, has.                                            *)
Passed(s, own, m, r, h) ==
  /\ Lists(r) /\ Books(r) /\ Quiet(s, r)
  /\ h \in Threads /\ WaitsAt(s, h, m) /\ HandsOn(s, r, m, s.cur, h) /\ r.prio = own.prio /\ r.base = s.base
  /\ r.ceil = s.ceil /\ \A n \in Mutexes \ {m} : r.mprio[n] = own.mprio[n]
  /\ r.mprio[m] = IF r.list[m] = <<>> THEN NoPrio ELSE r.prio[Head(r.list[m])]

(* The released mutex goes to its first waiter.                            *)
LEMMA MutexHanded ==
  ASSUME NEW s, Settled(s), s.at[s.cur] = NULL, NEW m \in Mutexes, s.obj[m] = "live",
         s.owner[m] = s.cur, s.hold[m] = 1, s.list[m] # <<>>, NEW own, GivesUp(s, m, own)
  PROVE  Passed(s, own, m, HandOver(own, m), Head(own.list[m]))
<1> DEFINE t == s.cur
           h == Head(own.list[m])
           c == rt_list_remove(own, h)
           given == [c EXCEPT !.owner[m] = h, !.hold[m] = 1, !.pend[h] = NULL, !.taken[h] = @ \cup {m}]
           b == own.taken[h] \cup {m}
           g == [own EXCEPT !.owner[m] = h, !.hold[m] = 1, !.pend[h] = NULL, !.taken[h] = b]
           x == rt_thread_resume(given, h)
           r == _mutex_update_priority(x, m)
           F == {"owner", "hold", "pend", "taken"}
<1>0. /\ Lists(s) /\ Books(s) /\ t \in Threads /\ Up(s, t) /\ s.stat[t] = "RUNNING" /\ s.at[t] = NULL /\ IpcTyped(s)
      /\ m \in Objects /\ m \in Heads
  BY SettledIs, MutexIs DEF Settled
<1>1. /\ OwnerOf(s, m) /\ s.owner \in [Mutexes -> Threads \cup {NULL}]
      /\ s.hold \in [Mutexes -> 0 .. HoldMax] /\ s.got \in [Mutexes -> [Threads -> Nat]]
      /\ s.taken \in [Threads -> SUBSET Mutexes] /\ s.pend \in [Threads -> Mutexes \cup {NULL}] /\ s.got[m][t] = 1
  BY MutexFacts
<1>2. HandOver(own, m) = r
  BY DEF HandOver
<1>3. Lists(own) /\ Inv(own) /\ Typed(own) /\ IpcTyped(own) /\ Shape(own) /\ IpcFields \subseteq DOMAIN own
      /\ own.list[m] \in Seq(Threads) /\ own.stat = s.stat /\ own.at = s.at /\ own.taken = [s.taken EXCEPT ![t] = @ \ {m}]
  <2>1. Lists(own) /\ IpcTyped(own) /\ Shape(own) /\ IpcFields \subseteq DOMAIN own /\ own.stat = s.stat /\ own.at = s.at
        /\ own.taken = [s.taken EXCEPT ![t] = @ \ {m}]
    BY DEF GivesUp
  <2> QED
    BY <1>0, <2>1 DEF Lists, Inv, Sound, Typed
<1>4. h \in Threads /\ WaitsAt(s, h, m)
  <2>1. \E u \in Threads : On(u, s.list[m])
    <3>1. s.list[m] \in Seq(Threads)
      BY <1>0 DEF Lists, Inv, Sound, Typed
    <3> QED
      BY <3>1, Empty
  <2>2. \A u \in Threads : On(u, own.list[m]) <=> On(u, s.list[m])
    BY <1>0, <1>3 DEF Lists, Queues, WaitsAt
  <2>3. own.list[m] # <<>>
    BY <1>3, <2>1, <2>2, Empty
  <2>4. h \in Threads /\ On(h, own.list[m])
    BY <1>3, <2>3, First
  <2> QED
    BY <1>0, <2>2, <2>4 DEF Lists, Queues
<1> HIDE DEF h
<1>5. /\ Changes(own, g, F) /\ g.owner = [own.owner EXCEPT ![m] = h] /\ g.hold = [own.hold EXCEPT ![m] = 1]
      /\ g.pend = [own.pend EXCEPT ![h] = NULL] /\ g.taken = [own.taken EXCEPT ![h] = b]
  <2> HIDE DEF b
  <2> QED
    BY <1>3 DEF Shape, Changes, IpcFields
<1>6. b \in SUBSET Mutexes
  BY <1>0, <1>1, <1>3, <1>4
<1>7. IpcTyped(g)
  <2>1. own.hold = [s.hold EXCEPT ![m] = 0] /\ own.owner = s.owner /\ own.pend = s.pend
    BY DEF GivesUp
  <2>2. 1 \in 0 .. HoldMax /\ 0 \in 0 .. HoldMax
    BY BoundsAssumption
  <2> HIDE DEF g, b
  <2>3. g.owner \in [Mutexes -> Threads \cup {NULL}] /\ g.pend \in [Threads -> Mutexes \cup {NULL}]
    BY <1>1, <1>4, <1>5, <2>1
  <2>4. g.hold \in [Mutexes -> 0 .. HoldMax]
    BY <1>1, <1>5, <2>1, <2>2
  <2>5. g.taken \in [Threads -> SUBSET Mutexes]
    <3>1. own.taken \in [Threads -> SUBSET Mutexes]
      BY <1>3 DEF IpcTyped
    <3> QED
      BY <1>4, <1>5, <1>6, <3>1
  <2> QED
    BY <1>3, <1>5, <2>3, <2>4, <2>5, IpcTypedAgain
<1>8. x = rt_thread_resume(g, h)
  <2>1. Changes(own, c, {"list"}) /\ c.list = [i \in DOMAIN own.list |-> RemoveFirst(own.list[i], h)]
    BY <1>3, RemoveIs
  <2>2. Shape(c) /\ DOMAIN c = DOMAIN own /\ c.taken = own.taken
    BY <1>3, <2>1 DEF Changes, IpcFields
  <2>3. given = [c EXCEPT !.owner[m] = h, !.hold[m] = 1, !.pend[h] = NULL, !.taken[h] = b]
    <3> HIDE DEF c
    <3> QED
      BY <2>2
  <2> HIDE DEF given, c, b
  <2>4. /\ Changes(c, given, F) /\ given.owner = [c.owner EXCEPT ![m] = h] /\ given.hold = [c.hold EXCEPT ![m] = 1]
        /\ given.pend = [c.pend EXCEPT ![h] = NULL] /\ given.taken = [c.taken EXCEPT ![h] = b]
    BY <1>3, <2>2, <2>3 DEF Shape, Changes, IpcFields
  <2> HIDE DEF g
  <2>5. Shape(g) /\ Shape(given) /\ DOMAIN g = DOMAIN own /\ DOMAIN given = DOMAIN own
    BY <1>5, <2>2, <2>4 DEF Changes
  <2>6. "list" \in DOMAIN own /\ F \subseteq DOMAIN own /\ "list" \notin F
    BY <1>3 DEF Shape, Fields, IpcFields
  <2>7. c.owner = own.owner /\ c.hold = own.hold /\ c.pend = own.pend /\ g.list = own.list /\ given.list = c.list
    BY <1>5, <2>1, <2>2, <2>4, <2>6 DEF Changes
  <2>8. \A f \in DOMAIN own \ {"list"} : given[f] = g[f]
    <3> TAKE f \in DOMAIN own \ {"list"}
    <3>1. CASE f \in F
      <4>1. given.owner = g.owner /\ given.hold = g.hold /\ given.pend = g.pend /\ given.taken = g.taken
        BY <1>5, <2>2, <2>4, <2>7
      <4> QED
        BY <3>1, <4>1
    <3>2. CASE f \notin F
      BY <1>5, <2>1, <2>2, <2>4, <3>2 DEF Changes
    <3> QED
      BY <3>1, <3>2
  <2>9. Changes(g, given, {"list"}) /\ given.list = [i \in DOMAIN g.list |-> RemoveFirst(g.list[i], h)]
    BY <2>1, <2>5, <2>7, <2>8 DEF Changes
  <2>10. Typed(g)
    <3>1. F \cap Fields = {}
      BY DEF Fields
    <3> HIDE DEF F
    <3>2. Inv(g)
      BY <1>3, <1>5, <3>1, IpcOnly
    <3> QED
      BY <3>2 DEF Inv, Sound
  <2>11. g.stat[h] = "SUSPEND"
    <3>1. "stat" \notin F
      OBVIOUS
    <3>2. g.stat = own.stat
      BY <1>3, <1>5, <3>1, Kept
    <3> QED
      BY <1>3, <1>4, <3>2 DEF WaitsAt
  <2> QED
    BY <1>4, <2>9, <2>10, <2>11, ResumedUnlinked
<1> HIDE DEF g, x, given, b
<1>9. /\ Lists(g) /\ g.at = own.at /\ g.cur = own.cur /\ g.stat = own.stat /\ g.lock = own.lock /\ g.timer = own.timer
      /\ g.prio = own.prio
  <2>1. F \cap Fields = {} /\ "at" \notin F
    BY DEF Fields
  <2> HIDE DEF F
  <2> QED
    BY <1>3, <1>5, <1>7, <2>1, ListsKept
<1>10. /\ g.err = s.err /\ g.value = s.value /\ g.net = s.net /\ g.obj = s.obj /\ g.fault = s.fault
       /\ g.got = [s.got EXCEPT ![m][t] = 0] /\ g.base = s.base /\ g.ceil = s.ceil /\ g.mprio = own.mprio
  <2>1. /\ g.err = own.err /\ g.value = own.value /\ g.net = own.net /\ g.obj = own.obj /\ g.fault = own.fault
        /\ g.got = own.got /\ g.base = own.base /\ g.ceil = own.ceil /\ g.mprio = own.mprio
    BY <1>3, <1>5, KeptIpc, SMTT(30)
  <2> QED
    BY <2>1 DEF GivesUp
<1>11. Woke(g, x, {h}) /\ x.err = g.err
  <2>1. g.stat[h] = "SUSPEND"
    BY <1>3, <1>4, <1>9 DEF WaitsAt
  <2> QED
    BY <1>4, <1>8, <1>9, <2>1, ResumeWakes
<1>12. /\ Lists(r) /\ SameIpc(x, r) /\ r.stat = x.stat /\ r.lock = x.lock /\ r.timer = x.timer /\ r.prio = x.prio
       /\ \A n \in Mutexes \ {m} : r.mprio[n] = x.mprio[n]
       /\ r.mprio[m] = IF r.list[m] = <<>> THEN NoPrio ELSE r.prio[Head(r.list[m])]
  <2>1. Lists(x) /\ Shape(x) /\ IpcTyped(x)
    BY <1>11 DEF Woke, Lists, Inv, Sound, Typed
  <2>2. /\ \A n \in Mutexes \ {m} : r.mprio[n] = x.mprio[n]
        /\ r.mprio[m] = IF x.list[m] = <<>> THEN NoPrio ELSE x.prio[Head(x.list[m])]
    BY <2>1 DEF _mutex_update_priority, IpcTyped, IpcFields, Shape
  <2>3. /\ Lists(r) /\ SameIpc(x, r) /\ r.stat = x.stat /\ r.lock = x.lock /\ r.timer = x.timer /\ r.prio = x.prio
        /\ r.list = x.list
    BY <2>1, MutexPriority
  <2> HIDE DEF r
  <2> QED
    BY <2>2, <2>3
<1> HIDE DEF r
<1>13. /\ r.at = s.at /\ r.err = s.err /\ r.value = s.value /\ r.net = s.net /\ r.obj = s.obj /\ r.fault = s.fault
       /\ r.got = [s.got EXCEPT ![m][t] = 0] /\ r.pend = g.pend /\ r.owner = g.owner /\ r.hold = g.hold /\ r.taken = g.taken
  BY <1>3, <1>9, <1>10, <1>11, <1>12 DEF Woke, SameBooks, SameIpc
<1>p. /\ r.prio = own.prio /\ r.base = s.base /\ r.ceil = s.ceil /\ \A n \in Mutexes \ {m} : r.mprio[n] = own.mprio[n]
  BY <1>9, <1>10, <1>11, <1>12 DEF Woke, SameBooks, SameIpc
<1>14. /\ r.lock = s.lock /\ r.timer \subseteq s.timer \ {h} /\ Up(r, h) /\ \A u \in Threads \ {h} : r.stat[u] = s.stat[u]
  <2>1. own.lock = s.lock /\ own.timer \subseteq s.timer /\ own.stat = s.stat
    BY DEF GivesUp
  <2>2. Up(x, h) /\ x.lock = g.lock /\ x.timer = g.timer \ {h} /\ \A u \in Threads \ {h} : x.stat[u] = g.stat[u]
    BY <1>11 DEF Woke
  <2> QED
    BY <1>9, <1>12, <2>1, <2>2 DEF Up
<1>15. /\ r.pend = [s.pend EXCEPT ![h] = NULL] /\ r.owner = [s.owner EXCEPT ![m] = h] /\ r.hold = [s.hold EXCEPT ![m] = 1]
  <2>1. own.hold = [s.hold EXCEPT ![m] = 0] /\ own.owner = s.owner /\ own.pend = s.pend
    BY DEF GivesUp
  <2>2. [[s.hold EXCEPT ![m] = 0] EXCEPT ![m] = 1] = [s.hold EXCEPT ![m] = 1]
    BY <1>1
  <2> QED
    BY <1>5, <1>13, <2>1, <2>2
<1>16. h # t
  BY <1>0, <1>4 DEF WaitsAt
<1>17. /\ r.taken[t] = s.taken[t] \ {m} /\ r.taken[h] = s.taken[h] \cup {m}
       /\ \A u \in Threads \ {t, h} : r.taken[u] = s.taken[u]
  BY <1>0, <1>1, <1>3, <1>4, <1>5, <1>13, <1>16 DEF b
<1>18. Books(r) /\ HandsOn(s, r, m, t, h)
  <2>1. /\ Lists(s) /\ Books(s) /\ s.obj[m] = "live" /\ t \in Threads /\ s.owner[m] = t /\ s.got[m][t] = 1
        /\ s.at[t] = NULL /\ Up(s, t) /\ h \in Threads /\ WaitsAt(s, h, m)
    BY <1>0, <1>1, <1>4
  <2>2. HandsOn(s, r, m, t, h)
    BY <1>13, <1>14, <1>15, <1>17 DEF HandsOn
  <2> HIDE DEF t
  <2> QED
    BY <2>1, <2>2, HandedBooks
<1>19. Quiet(s, r)
  BY <1>13, <1>14, QuietSame
<1>20. Passed(s, own, m, r, h)
  BY <1>4, <1>12, <1>18, <1>19, <1>p DEF Passed
<1> QED
  BY <1>2, <1>20 DEF h

(* rt_mutex_release.                                                       *)
LEMMA MutexReleased ==
  ASSUME NEW s, Settled(s), s.at[s.cur] = NULL, NEW m \in Mutexes, s.obj[m] = "live"
  PROVE  Settled(rt_mutex_release(s, m)) /\ Quiet(s, rt_mutex_release(s, m))
<1> DEFINE t == s.cur
           less == [s EXCEPT !.hold[m] = @ - 1, !.got[m][t] = @ - 1]
           off == [less EXCEPT !.taken[t] = @ \ {m}]
           lower == s.ceil[m] # NoPrio \/ s.prio[t] = s.mprio[m]
           own == IF lower THEN ChangePriority(off, t, _thread_get_mutex_priority(off, t)) ELSE off
           free == [own EXCEPT !.owner[m] = NULL, !.mprio[m] = NoPrio]
<1>0. /\ t \in Threads /\ Shape(s) /\ IpcFields \subseteq DOMAIN s
  BY SettledIs
<1>1. /\ OwnerOf(s, m) /\ s.hold \in [Mutexes -> 0 .. HoldMax] /\ s.got \in [Mutexes -> [Threads -> Nat]]
      /\ s.got[m][t] = IF s.owner[m] = t THEN s.hold[m] ELSE 0
  BY MutexFacts
<1>2. CASE s.owner[m] # t
  <2>1. rt_mutex_release(s, m) = [s EXCEPT !.err[t] = "ERROR"]
    BY <1>2 DEF rt_mutex_release
  <2>2. "ERROR" \in Errors
    BY DEF Errors
  <2> DEFINE e == [s EXCEPT !.err[t] = "ERROR"]
  <2>3. Settled(e) /\ e.at = s.at /\ e.timer = s.timer
    BY <2>2, ErrorAlone
  <2> HIDE DEF e
  <2>4. Quiet(s, e)
    BY <2>3, QuietSame
  <2> QED
    BY <2>1, <2>3, <2>4 DEF e
<1>3. CASE s.owner[m] = t /\ s.hold[m] > 1
  <2> DEFINE a == s.hold[m] - 1
             r == [s EXCEPT !.hold[m] = a, !.got[m][t] = a]
  <2>1. rt_mutex_release(s, m) = less
    BY <1>3 DEF rt_mutex_release
  <2>2. a \in 1 .. HoldMax
    BY <1>1, <1>3, BoundsAssumption
  <2>3. less = r
    BY <1>0, <1>1, <1>3
  <2>4. Changes(s, r, {"hold", "got"}) /\ r.hold = [s.hold EXCEPT ![m] = a] /\ r.got = [s.got EXCEPT ![m][s.cur] = a]
    <3> HIDE DEF a
    <3> QED
      BY <1>0 DEF Shape, Changes, IpcFields
  <2> HIDE DEF a, r, less
  <2>5. Settled(r) /\ Quiet(s, r)
    BY <1>3, <2>2, <2>4, HoldCounted
  <2> QED
    BY <2>1, <2>3, <2>5
<1>4. CASE s.owner[m] = t /\ ~(s.hold[m] > 1)
  <2>1. s.hold[m] = 1
    BY <1>0, <1>1, <1>4, NullAssumption DEF OwnerOf
  <2>2. GivesUp(s, m, own)
    <3>1. lower \in BOOLEAN
      OBVIOUS
    <3> HIDE DEF lower
    <3> QED
      BY <1>4, <2>1, <3>1, GivenUp, ZenonT(40)
  <2>3. CASE s.list[m] # <<>>
    <3>1. rt_mutex_release(s, m) = rt_schedule(HandOver(own, m))
      BY <1>4, <2>3 DEF rt_mutex_release
    <3> HIDE DEF own
    <3>2. Lists(HandOver(own, m)) /\ Books(HandOver(own, m)) /\ Quiet(s, HandOver(own, m))
      BY <1>4, <2>1, <2>2, <2>3, MutexHanded DEF Passed
    <3> QED
      BY <3>1, <3>2, SettlesFrom
  <2>4. CASE s.list[m] = <<>>
    <3>1. rt_mutex_release(s, m) = IF lower THEN rt_schedule(free) ELSE free
      BY <1>4, <2>4 DEF rt_mutex_release
    <3> HIDE DEF own, lower
    <3>2. Settled(free) /\ Quiet(s, free)
      BY <1>4, <2>1, <2>2, <2>4, MutexFreed, ZenonT(40)
    <3> HIDE DEF free
    <3>3. Settled(rt_schedule(free)) /\ Quiet(s, rt_schedule(free))
      BY <3>2, SettlesFrom DEF Settled
    <3> QED
      BY <3>1, <3>2, <3>3
  <2> QED
    BY <2>3, <2>4
<1> QED
  BY <1>2, <1>3, <1>4

(* What Close does to a thread that is in no list.                         *)
Shut(s, t) == [s EXCEPT !.stat[t] = "CLOSE", !.yield = @ \ {t}, !.timer = @ \ {t}]

(* The fields of such a kernel.                                            *)
LEMMA ShutIs ==
  ASSUME NEW s, Shape(s), NEW t
  PROVE  LET r == Shut(s, t) IN
         /\ Changes(s, r, {"stat", "yield", "timer"})
         /\ r.stat = [s.stat EXCEPT ![t] = "CLOSE"] /\ r.yield = s.yield \ {t} /\ r.timer = s.timer \ {t}
         /\ r.cur = s.cur /\ r.prio = s.prio /\ r.list = s.list /\ r.group = s.group /\ r.lock = s.lock
BY DEF Shut, Shape, Changes, Fields

(* The parts of an update do the same to the kernel with another thread    *)
(* shut.                                                                   *)
LEMMA RemoveShut ==
  ASSUME NEW s, Shape(s), NEW t, NEW u
  PROVE  rt_list_remove(Shut(s, t), u) = Shut(rt_list_remove(s, u), t)
BY DEF Shut, Shape, Fields, rt_list_remove

(* Taking a thread off its ready list.                                     *)
LEMMA RemoveReadyShut ==
  ASSUME NEW s, Typed(s), NEW t, NEW u \in Threads, u # t
  PROVE  rt_schedule_remove_thread(Shut(s, t), u) = Shut(rt_schedule_remove_thread(s, u), t)
<1> DEFINE q == rt_list_remove(s, u)
<1>1. Shape(s)
  BY DEF Typed
<1>2. rt_list_remove(Shut(s, t), u) = Shut(q, t)
  BY <1>1, RemoveShut
<1>3. Shape(q)
  BY <1>1, RemoveIs DEF Changes
<1>4. Shut(s, t).prio = s.prio /\ Shut(q, t).list = q.list
  BY <1>1, <1>3, ShutIs
<1> HIDE DEF q
<1> DEFINE p == s.prio[u]
<1>5. rt_schedule_remove_thread(s, u) = IF q.list[p] = <<>> THEN [q EXCEPT !.group = @ \ {p}] ELSE q
  BY DEF rt_schedule_remove_thread, q
<1>6. rt_schedule_remove_thread(Shut(s, t), u)
        = IF q.list[p] = <<>> THEN [Shut(q, t) EXCEPT !.group = @ \ {p}] ELSE Shut(q, t)
  BY <1>2, <1>4 DEF rt_schedule_remove_thread
<1> HIDE DEF p
<1>7. [Shut(q, t) EXCEPT !.group = @ \ {p}] = Shut([q EXCEPT !.group = @ \ {p}], t)
  BY <1>3 DEF Shut, Shape, Fields
<1> QED
  BY <1>5, <1>6, <1>7

(* Putting it into its ready list.                                         *)
LEMMA InsertReadyShut ==
  ASSUME NEW s, Typed(s), NEW t \in Threads, NEW u \in Threads, u # t
  PROVE  rt_schedule_insert_thread(Shut(s, t), u) = Shut(rt_schedule_insert_thread(s, u), t)
<1> DEFINE p == s.prio[u]
           ready == [s EXCEPT !.stat[u] = "READY", !.group = @ \cup {p}]
           shut == [Shut(s, t) EXCEPT !.stat[u] = "READY", !.group = @ \cup {p}]
<1>1. Shape(s) /\ s.stat \in [Threads -> Stats]
  BY DEF Typed
<1>2. Shut(s, t).prio = s.prio /\ Shut(s, t).cur = s.cur /\ Shut(s, t).yield = s.yield \ {t}
  BY <1>1, ShutIs
<1>3. [Shut(s, t) EXCEPT !.stat[u] = "RUNNING"] = Shut([s EXCEPT !.stat[u] = "RUNNING"], t)
  BY <1>1 DEF Shut, Shape, Fields
<1>4. shut = Shut(ready, t)
  <2> HIDE DEF p
  <2> QED
    BY <1>1, ZenonT(40) DEF Shut, Shape, Fields
<1>5. Shape(ready)
  BY <1>1 DEF Shape, Fields
<1> HIDE DEF ready, shut
<1>6. /\ rt_list_insert_before(shut, p, u) = Shut(rt_list_insert_before(ready, p, u), t)
      /\ rt_list_insert_after(shut, p, u) = Shut(rt_list_insert_after(ready, p, u), t)
  <2> HIDE DEF p
  <2> QED
    BY <1>4, <1>5 DEF Shut, Shape, Fields, rt_list_insert_before, rt_list_insert_after
<1>7. rt_schedule_insert_thread(s, u)
        = IF u = s.cur THEN [s EXCEPT !.stat[u] = "RUNNING"]
          ELSE IF u \in s.yield THEN rt_list_insert_before(ready, p, u) ELSE rt_list_insert_after(ready, p, u)
  BY DEF rt_schedule_insert_thread, ready
<1>8. rt_schedule_insert_thread(Shut(s, t), u)
        = IF u = s.cur THEN [Shut(s, t) EXCEPT !.stat[u] = "RUNNING"]
          ELSE IF u \in s.yield THEN rt_list_insert_before(shut, p, u) ELSE rt_list_insert_after(shut, p, u)
  BY <1>2 DEF rt_schedule_insert_thread, shut
<1> QED
  BY <1>3, <1>6, <1>7, <1>8

(* A change of priority.                                                   *)
LEMMA PriorityShut ==
  ASSUME NEW s, Inv(s), NEW t \in Threads, NEW u \in Threads, u # t, NEW p \in Priorities
  PROVE  ChangePriority(Shut(s, t), u, p) = Shut(ChangePriority(s, u, p), t)
<1> DEFINE q == rt_schedule_remove_thread(s, u)
           x == [q EXCEPT !.prio[u] = p]
<1>1. Typed(s) /\ Shape(s) /\ s.stat \in [Threads -> Stats] /\ Sound(s)
  BY DEF Inv, Sound, Typed
<1>2. Shut(s, t).stat[u] = s.stat[u]
  <2>1. Shut(s, t).stat = [s.stat EXCEPT ![t] = "CLOSE"]
    BY <1>1, ShutIs
  <2> QED
    BY <1>1, <2>1
<1>3. rt_schedule_remove_thread(Shut(s, t), u) = Shut(q, t)
  BY <1>1, RemoveReadyShut
<1>4. Typed(q) /\ Shape(q)
  BY <1>1, RemovedFromReady DEF SoundBut, Typed
<1> HIDE DEF q
<1>5. [Shut(q, t) EXCEPT !.prio[u] = p] = Shut(x, t)
  BY <1>4 DEF Shut, Shape, Fields
<1>6. Typed(x)
  BY <1>4, PrioSet
<1> HIDE DEF x
<1>7. rt_schedule_insert_thread(Shut(x, t), u) = Shut(rt_schedule_insert_thread(x, u), t)
  BY <1>6, InsertReadyShut
<1>8. [Shut(s, t) EXCEPT !.prio[u] = p] = Shut([s EXCEPT !.prio[u] = p], t)
  BY <1>1 DEF Shut, Shape, Fields
<1>9. ChangePriority(s, u, p) = IF s.stat[u] = "READY" THEN rt_schedule_insert_thread(x, u) ELSE [s EXCEPT !.prio[u] = p]
  BY DEF ChangePriority, x, q
<1>10. ChangePriority(Shut(s, t), u, p)
         = IF s.stat[u] = "READY" THEN rt_schedule_insert_thread(Shut(x, t), u) ELSE [Shut(s, t) EXCEPT !.prio[u] = p]
  BY <1>2, <1>3, <1>5 DEF ChangePriority
<1> QED
  BY <1>7, <1>8, <1>9, <1>10

(* The place in a waiting list of a suspended thread.                      *)
LEMMA ListSuspendShut ==
  ASSUME NEW s, Inv(s), NEW t \in Threads, NEW u \in Threads, u # t, s.stat[u] = "SUSPEND", NEW o
  PROVE  _ipc_list_suspend(Shut(s, t), o, u) = Shut(_ipc_list_suspend(s, o, u), t)
<1>1. Shape(s) /\ s.stat \in [Threads -> Stats]
  BY DEF Inv, Sound, Typed
<1>2. Shut(s, t).stat[u] = "SUSPEND" /\ Shut(s, t).prio = s.prio /\ Shut(s, t).list = s.list
  <2>1. /\ Shut(s, t).stat = [s.stat EXCEPT ![t] = "CLOSE"]
        /\ Shut(s, t).prio = s.prio /\ Shut(s, t).list = s.list
    BY <1>1, ShutIs
  <2> QED
    BY <1>1, <2>1
<1>3. rt_thread_suspend(s, u) = s /\ rt_thread_suspend(Shut(s, t), u) = Shut(s, t)
  BY <1>2 DEF rt_thread_suspend
<1> DEFINE behind == {i \in DOMAIN s.list[o] : s.prio[u] < s.prio[s.list[o][i]]}
           place == IF o \in FifoSems \/ behind = {} THEN Len(s.list[o]) + 1 ELSE Min(behind)
           l == InsertAt(s.list[o], place, u)
<1>4. _ipc_list_suspend(s, o, u) = [s EXCEPT !.list[o] = l]
  BY <1>3 DEF _ipc_list_suspend
<1>5. _ipc_list_suspend(Shut(s, t), o, u) = [Shut(s, t) EXCEPT !.list[o] = l]
  BY <1>2, <1>3 DEF _ipc_list_suspend
<1> HIDE DEF l
<1>6. [Shut(s, t) EXCEPT !.list[o] = l] = Shut([s EXCEPT !.list[o] = l], t)
  BY <1>1 DEF Shut, Shape, Fields
<1> QED
  BY <1>4, <1>5, <1>6

(* The priorities of mutexes.                                              *)
LEMMA MutexPriorityShut ==
  ASSUME NEW s, Shape(s), IpcFields \subseteq DOMAIN s, NEW t, NEW m, NEW u
  PROVE  /\ _mutex_update_priority(Shut(s, t), m) = Shut(_mutex_update_priority(s, m), t)
         /\ _thread_get_mutex_priority(Shut(s, t), u) = _thread_get_mutex_priority(s, u)
<1> DEFINE p == IF s.list[m] = <<>> THEN NoPrio ELSE s.prio[Head(s.list[m])]
           r == Shut(s, t)
<1>1. r.prio = s.prio /\ r.list = s.list /\ Changes(s, r, {"stat", "yield", "timer"})
  BY ShutIs
<1>2. r.base = s.base /\ r.mprio = s.mprio /\ r.taken = s.taken /\ r.ceil = s.ceil
  BY <1>1, KeptIpc
<1>3. _mutex_update_priority(s, m) = [s EXCEPT !.mprio[m] = p]
  BY DEF _mutex_update_priority
<1>4. _mutex_update_priority(r, m) = [r EXCEPT !.mprio[m] = p]
  <2> HIDE DEF r
  <2> QED
    BY <1>1 DEF _mutex_update_priority
<1> HIDE DEF p
<1>5. [r EXCEPT !.mprio[m] = p] = Shut([s EXCEPT !.mprio[m] = p], t)
  BY DEF Shut, Shape, Fields, IpcFields
<1>6. _thread_get_mutex_priority(r, u) = _thread_get_mutex_priority(s, u)
  <2> HIDE DEF r
  <2> QED
    BY <1>2 DEF _thread_get_mutex_priority
<1> QED
  BY <1>3, <1>4, <1>5, <1>6

(* Thread t owns no mutex that is there.                                   *)
OwnsNone(s, t) == \A m \in Mutexes : s.obj[m] = "live" => s.owner[m] # t

(* What an update hands on, with thread t shut.                            *)
ShutPair(acc, t) == [s |-> Shut(acc.s, t), next |-> acc.next]

(* One call of _thread_update_priority for a thread other than t.          *)
LEMMA UpdateOneShut ==
  ASSUME NEW s, Chainable(s), NEW t \in Threads, OwnsNone(s, t), NEW u \in Threads, u # t, NEW p \in Priorities
  PROVE  /\ UpdateOne(Shut(s, t), u, p) = ShutPair(UpdateOne(s, u, p), t)
         /\ UpdateOne(s, u, p).next # t
<1> DEFINE z == Shut(s, t)
           c == ChangePriority(s, u, p)
           m == s.pend[u]
           x == rt_list_remove(c, u)
           y == _ipc_list_suspend(x, m, u)
           w == _mutex_update_priority(y, m)
<1>0. /\ Lists(s) /\ Inv(s) /\ Shape(s) /\ IpcTyped(s) /\ s.stat \in [Threads -> Stats] /\ m \in Mutexes \cup {NULL}
      /\ IpcFields \subseteq DOMAIN s
  BY DEF Chainable, Lists, Inv, Sound, Typed, IpcTyped
<1>1. Changes(s, z, {"stat", "yield", "timer"}) /\ z.stat = [s.stat EXCEPT ![t] = "CLOSE"]
  BY <1>0, ShutIs
<1>2. z.stat[u] = s.stat[u]
  BY <1>0, <1>1
<1>3. z.pend = s.pend /\ z.obj = s.obj /\ z.owner = s.owner
  BY <1>0, <1>1, KeptIpc
<1>4. ChangePriority(z, u, p) = Shut(c, t)
  BY <1>0, PriorityShut
<1>5. t # NULL
  BY NullAssumption
<1>6. CASE s.stat[u] # "SUSPEND" \/ m = NULL \/ s.obj[m] = "detached"
  <2>1. UpdateOne(s, u, p) = [s |-> c, next |-> NULL]
    BY <1>6 DEF UpdateOne
  <2>2. UpdateOne(z, u, p) = [s |-> ChangePriority(z, u, p), next |-> NULL]
    <3> HIDE DEF z, m
    <3>1. z.stat[u] # "SUSPEND" \/ z.pend[u] = NULL \/ z.obj[z.pend[u]] = "detached"
      BY <1>2, <1>3, <1>6 DEF m
    <3> QED
      BY <3>1 DEF UpdateOne
  <2> HIDE DEF c, z
  <2> QED
    BY <1>4, <1>5, <2>1, <2>2 DEF ShutPair, z
<1>7. CASE s.stat[u] = "SUSPEND" /\ m # NULL /\ s.obj[m] # "detached"
  <2>1. m \in Mutexes /\ WaitsAt(s, u, m) /\ s.obj[m] = "live" /\ s.owner[m] # NULL
    BY <1>0, <1>7 DEF Chainable, WaitsAt
  <2>2. UpdateOne(s, u, p) = [s |-> w, next |-> s.owner[m]]
    BY <1>7, <2>1 DEF UpdateOne
  <2>3. UpdateOne(z, u, p)
          = [s |-> _mutex_update_priority(_ipc_list_suspend(rt_list_remove(ChangePriority(z, u, p), u), m, u), m),
             next |-> s.owner[m]]
    <3> HIDE DEF z, m
    <3>1. /\ z.stat[u] = "SUSPEND" /\ z.pend[u] = m /\ m # NULL /\ z.obj[m] = "live" /\ z.owner[m] # NULL
          /\ z.owner[m] = s.owner[m]
      BY <1>2, <1>3, <1>7, <2>1 DEF m
    <3> QED
      BY <3>1 DEF UpdateOne
  <2>4. s.owner[m] # t
    BY <2>1 DEF OwnsNone
  <2>5. /\ Inv(c) /\ Changes(s, c, {"prio", "stat", "group", "list"}) /\ c.stat = s.stat /\ Shape(c)
    <3>1. Inv(c) /\ Changes(s, c, {"prio", "stat", "group", "list"}) /\ c.stat = s.stat
      BY <1>0, PriorityChanged
    <3> QED
      BY <3>1 DEF Changes
  <2> HIDE DEF c, m
  <2>6. rt_list_remove(Shut(c, t), u) = Shut(x, t)
    BY <2>5, RemoveShut
  <2>7. Inv(x) /\ Changes(c, x, {"list"}) /\ x.stat = c.stat
    <3>1. c.stat[u] \notin {"READY", "CLOSE"}
      BY <1>7, <2>5
    <3> QED
      BY <2>5, <3>1, WaiterUnlinked
  <2>8. \A h \in Heads : ~On(u, x.list[h])
    <3>1. c.stat[u] \notin {"READY", "CLOSE"}
      BY <1>7, <2>5
    <3> QED
      BY <2>5, <3>1, WaiterUnlinked
  <2> HIDE DEF x
  <2>9. x.stat[u] = "SUSPEND"
    BY <1>7, <2>5, <2>7
  <2>10. _ipc_list_suspend(Shut(x, t), m, u) = Shut(y, t)
    BY <2>7, <2>9, ListSuspendShut
  <2>11. Changes(x, y, {"stat", "group", "list", "timer"}) /\ Shape(y)
    <3>1. m \in Objects /\ m \in Heads
      BY <2>1, MutexIs
    <3>2. Changes(x, y, {"stat", "group", "list", "timer"})
      BY <2>7, <2>8, <2>9, <3>1, ListSuspended
    <3> QED
      BY <3>2 DEF Changes
  <2> HIDE DEF y
  <2>12. IpcFields \subseteq DOMAIN y
    BY <1>0, <2>5, <2>7, <2>11 DEF Changes
  <2>13. _mutex_update_priority(Shut(y, t), m) = Shut(w, t)
    BY <2>11, <2>12, MutexPriorityShut
  <2> HIDE DEF w, z
  <2> QED
    BY <1>4, <2>2, <2>3, <2>4, <2>6, <2>10, <2>13 DEF ShutPair, z
<1> QED
  BY <1>6, <1>7

(* What is handed on: as before, and the next owner is not t.              *)
HandedPast(s, acc, t) == Handed(s, acc) /\ acc.next # t

(* The call for the next owner.                                            *)
LEMMA UpdateNextShut ==
  ASSUME NEW s, NEW t \in Threads, OwnsNone(s, t), NEW acc, HandedPast(s, acc, t)
  PROVE  UpdateNext(ShutPair(acc, t)) = ShutPair(UpdateNext(acc), t) /\ HandedPast(s, UpdateNext(acc), t)
<1> DEFINE x == acc.s
           u == acc.next
           q == _thread_get_mutex_priority(x, u)
           z == ShutPair(acc, t)
<1>1. acc = [s |-> x, next |-> u] /\ Updated(s, x) /\ u \in Threads \cup {NULL} /\ Chainable(x) /\ u # t
  BY DEF HandedPast, Handed, Updated
<1>2. z = [s |-> Shut(x, t), next |-> u] /\ z.s = Shut(x, t) /\ z.next = u
  BY DEF ShutPair
<1>3. OwnsNone(x, t)
  BY <1>1 DEF OwnsNone, Updated, SameIpc
<1>4. Shape(x) /\ IpcFields \subseteq DOMAIN x /\ IpcTyped(x)
  BY <1>1 DEF Chainable, Lists, Inv, Sound, Typed, IpcTyped
<1>5. Handed(s, UpdateNext(acc))
  BY UpdatesNext DEF HandedPast
<1>6. t # NULL
  BY NullAssumption
<1> HIDE DEF x, u, z
<1>7. z.s.prio = x.prio /\ _thread_get_mutex_priority(z.s, u) = q
  <2>1. Shut(x, t).prio = x.prio
    BY <1>4, ShutIs
  <2>2. _thread_get_mutex_priority(Shut(x, t), u) = q
    BY <1>4, MutexPriorityShut
  <2> QED
    BY <1>2, <2>1, <2>2
<1>8. CASE u = NULL
  <2>1. UpdateNext(acc) = acc /\ UpdateNext(z) = z
    BY <1>2, <1>8 DEF UpdateNext, u
  <2> QED
    BY <2>1 DEF z
<1>9. CASE u # NULL /\ q = x.prio[u]
  <2>1. UpdateNext(acc) = [acc EXCEPT !.next = NULL] /\ UpdateNext(z) = [z EXCEPT !.next = NULL]
    BY <1>2, <1>7, <1>9 DEF UpdateNext, u, x
  <2>2. UpdateNext(acc) = [s |-> x, next |-> NULL] /\ UpdateNext(z) = [s |-> Shut(x, t), next |-> NULL]
    BY <1>1, <1>2, <2>1
  <2> QED
    BY <1>5, <1>6, <2>2 DEF ShutPair, HandedPast, z
<1>10. CASE u # NULL /\ q # x.prio[u]
  <2>1. UpdateNext(acc) = UpdateOne(x, u, q)
    BY <1>10 DEF UpdateNext, u, x
  <2>2. UpdateNext(z) = UpdateOne(Shut(x, t), u, q)
    BY <1>2, <1>7, <1>10 DEF UpdateNext
  <2>3. q \in Priorities /\ u \in Threads
    BY <1>1, <1>4, <1>10, MutexPriorityIs
  <2> HIDE DEF q
  <2>4. UpdateOne(Shut(x, t), u, q) = ShutPair(UpdateOne(x, u, q), t) /\ UpdateOne(x, u, q).next # t
    BY <1>1, <1>3, <2>3, UpdateOneShut
  <2> QED
    BY <1>5, <2>1, <2>2, <2>4 DEF HandedPast, z
<1> QED
  BY <1>8, <1>9, <1>10 DEF z

(* All the calls.                                                          *)
LEMMA UpdateShut ==
  ASSUME NEW s, Chainable(s), NEW t \in Threads, OwnsNone(s, t), NEW u \in Threads, u # t, NEW p \in Priorities
  PROVE  _thread_update_priority(Shut(s, t), u, p) = Shut(_thread_update_priority(s, u, p), t)
<1> DEFINE n == 2 * Cardinality(Threads)
           g == ChainOf(s, u, p)
           f == ChainOf(Shut(s, t), u, p)
           T == {i \in 0 .. n : HandedPast(s, g[i], t) /\ f[i] = ShutPair(g[i], t)}
<1>0. n \in Nat
  BY ThreadsFinite
<1>1. /\ g[0] = UpdateOne(s, u, p) /\ \A i \in 1 .. n : g[i] = UpdateNext(g[i - 1])
      /\ _thread_update_priority(s, u, p) = g[n].s
  BY ChainIs
<1>2. /\ f[0] = UpdateOne(Shut(s, t), u, p) /\ \A i \in 1 .. n : f[i] = UpdateNext(f[i - 1])
      /\ _thread_update_priority(Shut(s, t), u, p) = f[n].s
  BY ChainIs
<1> HIDE DEF n, g, f
<1>3. 0 \in T
  <2>1. Handed(s, UpdateOne(s, u, p))
    BY UpdatesOne, OnePair DEF Handed
  <2>2. UpdateOne(Shut(s, t), u, p) = ShutPair(UpdateOne(s, u, p), t) /\ UpdateOne(s, u, p).next # t
    BY UpdateOneShut
  <2> QED
    BY <1>0, <1>1, <1>2, <2>1, <2>2 DEF HandedPast
<1>4. ASSUME NEW i \in 1 .. n, i - 1 \in T PROVE i \in T
  <2>1. HandedPast(s, g[i - 1], t) /\ f[i - 1] = ShutPair(g[i - 1], t)
    BY <1>4
  <2>2. g[i] = UpdateNext(g[i - 1]) /\ f[i] = UpdateNext(f[i - 1])
    BY <1>1, <1>2, <1>4
  <2>3. UpdateNext(ShutPair(g[i - 1], t)) = ShutPair(UpdateNext(g[i - 1]), t) /\ HandedPast(s, UpdateNext(g[i - 1]), t)
    BY <2>1, UpdateNextShut
  <2> QED
    BY <1>0, <2>1, <2>2, <2>3
<1>5. n \in T
  <2>1. T \in SUBSET (0 .. n)
    OBVIOUS
  <2> HIDE DEF T
  <2>2. \A i \in 0 .. n : i \in T
    BY <1>0, <1>3, <1>4, <2>1, UpTo
  <2> QED
    BY <1>0, <2>2
<1>6. f[n] = ShutPair(g[n], t)
  BY <1>5
<1> QED
  BY <1>1, <1>2, <1>6 DEF ShutPair

(* DropPriority for a mutex that another thread owns.                      *)
LEMMA DropShut ==
  ASSUME NEW s, Chainable(s), NEW t \in Threads, OwnsNone(s, t), NEW m \in Mutexes, s.owner[m] \in Threads,
         s.obj[m] = "live", NEW v
  PROVE  DropPriority(Shut(s, t), m, v) = Shut(DropPriority(s, m, v), t)
<1> DEFINE o == s.owner[m]
           z == Shut(s, t)
           out == _mutex_update_priority(s, m)
           q == _thread_get_mutex_priority(out, o)
<1>0. /\ o \in Threads /\ o # t /\ o # NULL /\ Lists(s) /\ IpcTyped(s) /\ Shape(s) /\ IpcFields \subseteq DOMAIN s
  BY NullAssumption DEF Chainable, Lists, IpcTyped, OwnsNone, Inv, Sound, Typed
<1>1. Lists(out) /\ SameIpc(s, out) /\ out.stat = s.stat
  BY <1>0, MutexPriority
<1>2. DropPriority(s, m, v) = IF s.prio[o] = s.prio[v] /\ q # s.prio[o] THEN _thread_update_priority(out, o, q) ELSE out
  BY <1>0 DEF DropPriority
<1>3. _mutex_update_priority(z, m) = Shut(out, t)
  BY <1>0, MutexPriorityShut
<1>4. z.prio = s.prio /\ z.owner = s.owner /\ z.obj = s.obj
  <2>1. z.prio = s.prio /\ Changes(s, z, {"stat", "yield", "timer"})
    BY <1>0, ShutIs
  <2> QED
    BY <1>0, <2>1, KeptIpc
<1> HIDE DEF out
<1>5. Chainable(out) /\ OwnsNone(out, t)
  BY <1>1, ChainableAgain DEF OwnsNone, SameIpc
<1>6. _thread_get_mutex_priority(Shut(out, t), o) = q
  <2>1. Shape(out) /\ IpcFields \subseteq DOMAIN out
    BY <1>1 DEF Lists, IpcTyped, Inv, Sound, Typed
  <2> QED
    BY <2>1, MutexPriorityShut
<1>7. q \in Priorities
  BY <1>0, <1>1, MutexPriorityIs DEF Lists
<1> HIDE DEF z, o
<1>8. DropPriority(z, m, v)
        = IF s.prio[o] = s.prio[v] /\ q # s.prio[o] THEN _thread_update_priority(Shut(out, t), o, q) ELSE Shut(out, t)
  <2>1. z.owner[m] = o /\ z.owner[m] # NULL /\ z.obj[m] # "freed"
    BY <1>0, <1>4 DEF o
  <2> QED
    BY <1>3, <1>4, <1>6, <2>1 DEF DropPriority
<1> HIDE DEF q
<1>9. _thread_update_priority(Shut(out, t), o, q) = Shut(_thread_update_priority(out, o, q), t)
  BY <1>0, <1>5, <1>7, UpdateShut
<1> QED
  BY <1>2, <1>8, <1>9 DEF z

(* A suspended thread is taken out of every list and counts as not started *)
(* yet: the kernel in which _thread_update_priority runs while the thread  *)
(* is closed, but for the thread's own status.                             *)
LEMMA TakenOut ==
  ASSUME NEW s, Settled(s), NEW t \in Threads \ {Idle}, s.stat[t] = "SUSPEND"
  PROVE  LET a == rt_list_remove(rt_schedule_remove_thread(s, t), t)
             z == [a EXCEPT !.stat[t] = "INIT"] IN
         /\ rt_list_remove(Close(s, t), t) = Shut(z, t)
         /\ Chainable(z) /\ SameIpc(s, z) /\ z.stat = [s.stat EXCEPT ![t] = "INIT"]
         /\ z.cur = s.cur /\ z.lock = s.lock /\ z.timer = s.timer /\ z.prio = s.prio /\ z.mprio = s.mprio
<1> DEFINE out == rt_schedule_remove_thread(s, t)
           a == rt_list_remove(out, t)
           z == [a EXCEPT !.stat[t] = "INIT"]
           F == {"list", "group"}
           G == {"list", "group", "stat"}
<1>0. /\ Lists(s) /\ Books(s) /\ Inv(s) /\ Sound(s) /\ Typed(s) /\ Shape(s) /\ IpcTyped(s) /\ s.stat \in [Threads -> Stats]
      /\ s.list \in [Heads -> Seq(Threads)] /\ t \in Threads /\ s.cur \in Threads /\ s.stat[s.cur] = "RUNNING"
  BY DEF Settled, Lists, Inv, Sound, Typed
<1>1. SoundBut(out, t) /\ Changes(s, out, F) /\ Typed(out) /\ Shape(out)
  BY <1>0, RemovedFromReady DEF SoundBut, Typed
<1>2. \A h \in Heads : out.list[h] = RemoveFirst(s.list[h], t)
  BY <1>0, ListsOf
<1>3. \A h \in Heads : /\ ~On(t, out.list[h])
                       /\ \A u : u # t => (On(u, out.list[h]) <=> On(u, s.list[h]))
  <2>1. SUFFICES ASSUME NEW h \in Heads
                 PROVE ~On(t, out.list[h]) /\ \A u : u # t => (On(u, out.list[h]) <=> On(u, s.list[h]))
    OBVIOUS
  <2>2. s.list[h] \in Seq(Threads) /\ Distinct(s.list[h])
    BY <1>0 DEF Typed
  <2> HIDE DEF out
  <2> QED
    BY <1>2, <2>2, Unlinked
<1>4. Close(s, t) = Shut(out, t)
  <2>1. s.stat[t] # "INIT"
    OBVIOUS
  <2> QED
    BY <2>1 DEF Close, Shut
<1> HIDE DEF out
<1>5. rt_list_remove(Shut(out, t), t) = Shut(a, t)
  BY <1>1, RemoveShut
<1>6. Typed(a) /\ Changes(out, a, {"list"}) /\ \A h \in Heads : a.list[h] = out.list[h]
  BY <1>1, <1>3, Unlinks
<1>7. a.list = out.list
  <2>1. a.list \in [Heads -> Seq(Threads)] /\ out.list \in [Heads -> Seq(Threads)]
    BY <1>1, <1>6 DEF Typed
  <2> QED
    BY <1>6, <2>1
<1> HIDE DEF a
<1>8. a.stat = out.stat /\ a.prio = out.prio /\ a.group = out.group /\ Shape(a)
  <2>1. "stat" \notin {"list"} /\ "prio" \notin {"list"} /\ "group" \notin {"list"}
    OBVIOUS
  <2> QED
    BY <1>1, <1>6, <2>1, Kept DEF Typed
<1>9. SoundBut(a, t)
  BY <1>1, <1>6, <1>7, <1>8, OffAgain
<1>10. Sound(z) /\ Changes(a, z, {"stat"}) /\ z.stat = [a.stat EXCEPT ![t] = "INIT"]
  <2>1. "INIT" \in Stats \ {"READY", "CLOSE"}
    BY DEF Stats
  <2> QED
    BY <1>9, <2>1, StatusGiven
<1>11. Shut(z, t) = Shut(a, t)
  <2>1. a.stat \in [Threads -> Stats]
    BY <1>6 DEF Typed
  <2> QED
    BY <1>8, <2>1 DEF Shut, Shape, Fields
<1> HIDE DEF z
<1>12. Changes(s, z, G)
  <2>1. Changes(s, a, F \cup {"list"})
    BY <1>1, <1>6, ChangesTwice
  <2>2. Changes(s, z, (F \cup {"list"}) \cup {"stat"})
    BY <1>10, <2>1, ChangesTwice
  <2>3. (F \cup {"list"}) \cup {"stat"} = G
    OBVIOUS
  <2> QED
    BY <2>2, <2>3
<1>13. /\ z.cur = s.cur /\ z.lock = s.lock /\ z.timer = s.timer /\ z.prio = s.prio /\ z.mprio = s.mprio
       /\ IpcTyped(z) /\ SameIpc(s, z)
  <2>1. "cur" \notin G /\ "lock" \notin G /\ "timer" \notin G /\ "prio" \notin G /\ G \cap IpcFields = {}
    BY DEF IpcFields
  <2> HIDE DEF G
  <2> QED
    BY <1>0, <1>12, <2>1, Kept, SchedulerOnly
<1>14. z.stat = [s.stat EXCEPT ![t] = "INIT"]
  <2>1. "stat" \notin F
    OBVIOUS
  <2> HIDE DEF F
  <2>2. out.stat = s.stat
    BY <1>0, <1>1, <2>1, Kept
  <2> QED
    BY <1>8, <1>10, <2>2
<1>15. z.list = out.list
  <2>1. "list" \notin {"stat"}
    OBVIOUS
  <2>2. z.list = a.list
    BY <1>8, <1>10, <2>1, Kept
  <2> QED
    BY <1>7, <2>2
<1>16. Inv(z)
  <2>1. Runs(s) /\ Idle \in Threads /\ s.cur # t
    BY <1>0 DEF Inv, Threads
  <2>2. Runs(z)
    BY <1>0, <1>13, <1>14, <2>1 DEF Runs
  <2> QED
    BY <1>10, <2>2 DEF Inv
<1>17. Queues(z)
  <2>1. SUFFICES ASSUME NEW u \in Threads, NEW o \in Objects PROVE On(u, z.list[o]) <=> WaitsAt(z, u, o)
    BY DEF Queues
  <2>2. o \in Heads
    BY HeadsAre
  <2>3. On(u, s.list[o]) <=> WaitsAt(s, u, o)
    BY <1>0 DEF Lists, Queues
  <2>4. CASE u = t
    BY <1>0, <1>3, <1>14, <1>15, <2>2, <2>4 DEF WaitsAt
  <2>5. CASE u # t
    <3>1. z.stat[u] = s.stat[u] /\ z.at[u] = s.at[u]
      BY <1>0, <1>13, <1>14, <2>5 DEF SameIpc
    <3> QED
      BY <1>3, <1>15, <2>2, <2>3, <2>5, <3>1 DEF WaitsAt
  <2> QED
    BY <2>4, <2>5
<1>18. Ordered(z)
  <2>1. SUFFICES ASSUME NEW m \in Mutexes PROVE Sorted(z.prio, z.list[m])
    BY DEF Ordered
  <2>2. s.list[m] \in Seq(Threads) /\ Sorted(s.prio, s.list[m]) /\ m \in Heads
    BY <1>0, MutexIs DEF Lists, Ordered
  <2> QED
    BY <1>2, <1>13, <1>15, <2>2, SortedWithout
<1>19. Lists(z)
  BY <1>13, <1>16, <1>17, <1>18 DEF Lists
<1>20. \A u \in Threads : z.stat[u] = "SUSPEND" => s.stat[u] = "SUSPEND"
  BY <1>0, <1>14
<1>21. Chainable(z)
  <2>1. Chainable(s)
    BY <1>0, BooksChainable
  <2> QED
    BY <1>13, <1>19, <1>20, <2>1 DEF Chainable, SameIpc, WaitsAt
<1> QED
  BY <1>4, <1>5, <1>11, <1>13, <1>14, <1>21 DEF z, a, out

(* A thread that waits for a mutex and owns none is closed: it leaves the  *)
(* list, and what it lent is taken back along the chain of owners.         *)
LEMMA KillsWaiter ==
  ASSUME NEW s, Settled(s), NEW t \in Threads \ {Idle}, s.taken[t] = {}, s.pend[t] # NULL,
         s.obj[s.pend[t]] # "detached"
  PROVE  /\ Lists(Kill(s, t)) /\ Books(Kill(s, t)) /\ Quiet(s, Kill(s, t)) /\ Gone(s, Kill(s, t), t)
         /\ \E z : /\ Chainable(z) /\ SameIpc(s, z) /\ z.stat = [s.stat EXCEPT ![t] = "INIT"]
                  /\ z.prio = s.prio /\ z.mprio = s.mprio
                  /\ LET d == DropPriority(z, s.pend[t], t) IN Kill(s, t).prio = d.prio /\ Kill(s, t).mprio = d.mprio
<1> DEFINE m == s.pend[t]
           n == Left(s, t)
           z == [rt_list_remove(rt_schedule_remove_thread(s, t), t) EXCEPT !.stat[t] = "INIT"]
           d == DropPriority(z, m, t)
           y == rt_thread_defunct_enqueue(Shut(d, t), t)
           x == [y EXCEPT !.pend[t] = NULL]
           r == [x EXCEPT !.at[t] = NULL, !.net = n]
<1>0. /\ Lists(s) /\ Books(s) /\ IpcTyped(s) /\ s.stat \in [Threads -> Stats] /\ t \in Threads
      /\ s.pend \in [Threads -> Mutexes \cup {NULL}] /\ s.owner \in [Mutexes -> Threads \cup {NULL}]
  BY DEF Settled, Lists, Inv, Sound, Typed, IpcTyped
<1>1. m \in Mutexes /\ WaitsAt(s, t, m) /\ s.stat[t] = "SUSPEND" /\ s.obj[m] = "live" /\ s.owner[m] \in Threads
  <2>1. m \in Mutexes /\ WaitsAt(s, t, m)
    BY <1>0 DEF Books, Pends
  <2> QED
    BY <1>0, <2>1 DEF Books, Pends, WaitsAt
<1>2. /\ rt_list_remove(Close(s, t), t) = Shut(z, t)
      /\ Chainable(z) /\ SameIpc(s, z) /\ z.stat = [s.stat EXCEPT ![t] = "INIT"]
      /\ z.cur = s.cur /\ z.lock = s.lock /\ z.timer = s.timer /\ z.prio = s.prio /\ z.mprio = s.mprio
  BY <1>1, TakenOut
<1> HIDE DEF z
<1>3. OwnsNone(z, t) /\ z.owner[m] \in Threads /\ z.obj[m] = "live"
  <2>1. OwnsNone(s, t)
    BY <1>0 DEF OwnsNone, Books, Owners, OwnerOf
  <2> QED
    BY <1>1, <1>2, <2>1 DEF OwnsNone, SameIpc
<1> HIDE DEF m
<1>4. DropPriority(Shut(z, t), m, t) = Shut(d, t)
  BY <1>0, <1>1, <1>2, <1>3, DropShut
<1>5. Updated(z, d)
  <2>1. z.owner[m] # NULL
    BY <1>3, NullAssumption
  <2> QED
    BY <1>1, <1>2, <2>1, Drops
<1> HIDE DEF d
<1>6. /\ Lists(d) /\ SameIpc(s, d) /\ d.stat = [s.stat EXCEPT ![t] = "INIT"] /\ d.lock = s.lock
      /\ d.timer \subseteq s.timer
  BY <1>2, <1>5 DEF Updated, SameIpc, Chainable
<1>7. Close(d, t) = Shut(d, t)
  <2>1. d.stat[t] = "INIT"
    BY <1>0, <1>6
  <2> QED
    BY <2>1 DEF Close, Shut
<1>8. Closing(d, y, t)
  <2>1. d.stat[t] # "NONE"
    BY <1>0, <1>6
  <2> QED
    BY <1>6, <1>7, <2>1, ClosedFirst
<1>9. Kill(s, t) = rt_thread_defunct_enqueue([[Shut(d, t) EXCEPT !.pend[t] = NULL] EXCEPT !.at[t] = NULL, !.net = n], t)
  <2>1. rt_mutex_drop_thread(Close(s, t), m, t) = Shut(d, t)
    BY <1>2, <1>4 DEF rt_mutex_drop_thread
  <2>2. m # NULL /\ s.obj[m] # "detached" /\ m = s.pend[t]
    BY <1>1, MutexIs DEF m
  <2> QED
    BY <2>1, <2>2 DEF Kill, Left
<1>10. rt_thread_defunct_enqueue([[Shut(d, t) EXCEPT !.pend[t] = NULL] EXCEPT !.at[t] = NULL, !.net = n], t) = r
  <2> DEFINE v == Shut(d, t)
  <2> HIDE DEF v, n
  <2>1. rt_thread_defunct_enqueue([[v EXCEPT !.pend[t] = NULL] EXCEPT !.at[t] = NULL, !.net = n], t)
          = [[rt_thread_defunct_enqueue(v, t) EXCEPT !.pend[t] = NULL] EXCEPT !.at[t] = NULL, !.net = n]
    BY DEF rt_thread_defunct_enqueue, rt_list_insert_after
  <2> QED
    BY <2>1 DEF v
<1> HIDE DEF y, n
<1>11. n = Left(d, t)
  <2>1. ASSUME NEW o \in Sems PROVE ~Granted(s, t, o) /\ ~Granted(d, t, o)
    BY <1>0, <1>1, <1>6 DEF Granted
  <2> QED
    BY <1>6, <2>1 DEF n, Left, SameIpc
<1>12. /\ Closing(d, y, t) /\ Shape(y) /\ IpcFields \subseteq DOMAIN y /\ IpcTyped(y) /\ Inv(y)
       /\ y.pend \in [Threads -> Mutexes \cup {NULL}] /\ y.pend = s.pend
  BY <1>6, <1>8 DEF Closing, Inv, Sound, Typed, IpcTyped, SameIpc
<1>13. Changes(y, x, {"pend"}) /\ x.pend = [y.pend EXCEPT ![t] = NULL]
  BY <1>12 DEF Shape, Changes, IpcFields
<1>14. Changes(x, r, {"at", "net"}) /\ r.at = [x.at EXCEPT ![t] = NULL] /\ r.net = n
  <2>1. Shape(x) /\ IpcFields \subseteq DOMAIN x
    BY <1>12, <1>13 DEF Changes
  <2> HIDE DEF x
  <2> QED
    BY <2>1 DEF Shape, Changes, IpcFields
<1> HIDE DEF x, r
<1> DEFINE e == [d EXCEPT !.pend[t] = NULL]
<1>15. Changes(d, e, {"pend"}) /\ e.pend = [d.pend EXCEPT ![t] = NULL]
  <2>1. Shape(d) /\ IpcFields \subseteq DOMAIN d
    BY <1>6 DEF Lists, Inv, Sound, Typed, IpcTyped
  <2> QED
    BY <2>1 DEF Shape, Changes, IpcFields
<1> HIDE DEF e
<1>16. IpcTyped(e) /\ IpcTyped(x)
  <2>1. d.pend \in [Threads -> Mutexes \cup {NULL}] /\ IpcTyped(d)
    BY <1>6 DEF Lists, IpcTyped
  <2>2. e.pend \in [Threads -> Mutexes \cup {NULL}] /\ x.pend \in [Threads -> Mutexes \cup {NULL}]
    BY <1>12, <1>13, <1>15, <2>1
  <2>3. IpcTyped(e)
    BY <1>15, <2>1, <2>2, IpcTypedAgain
  <2>4. IpcTyped(x)
    BY <1>12, <1>13, <2>2, IpcTypedAgain
  <2> QED
    BY <2>3, <2>4
<1>17. {"pend"} \cap Fields = {} /\ "at" \notin {"pend"}
  BY DEF Fields
<1>18. /\ Lists(e) /\ e.at = d.at /\ e.stat = d.stat /\ e.lock = d.lock /\ e.timer = d.timer /\ e.prio = d.prio
  BY <1>6, <1>15, <1>16, <1>17, ListsKept
<1>19. /\ Inv(x) /\ x.stat = y.stat /\ x.prio = y.prio /\ x.list = y.list /\ x.lock = y.lock /\ x.timer = y.timer
  BY <1>12, <1>13, <1>17, IpcOnly
<1>20. /\ x.base = y.base /\ x.err = y.err /\ x.taken = y.taken /\ x.at = y.at /\ x.value = y.value /\ x.net = y.net
       /\ x.owner = y.owner /\ x.hold = y.hold /\ x.ceil = y.ceil /\ x.got = y.got /\ x.obj = y.obj /\ x.fault = y.fault
       /\ x.mprio = y.mprio
  BY <1>12, <1>13, KeptIpc
<1>21. /\ e.base = d.base /\ e.err = d.err /\ e.taken = d.taken /\ e.at = d.at /\ e.value = d.value /\ e.net = d.net
       /\ e.owner = d.owner /\ e.hold = d.hold /\ e.ceil = d.ceil /\ e.got = d.got /\ e.obj = d.obj /\ e.fault = d.fault
       /\ e.mprio = d.mprio
  <2>1. IpcFields \subseteq DOMAIN d
    BY <1>6 DEF Lists, IpcTyped
  <2> QED
    BY <1>15, <2>1, KeptIpc
<1>22. Closing(e, x, t)
  <2>1. SameIpc(d, y) /\ Ordered(y) /\ QueuesBut(y, t) /\ y.stat = [d.stat EXCEPT ![t] = "CLOSE"]
        /\ y.timer = d.timer \ {t} /\ y.lock = d.lock /\ y.prio = d.prio /\ y.mprio = d.mprio
    BY <1>12 DEF Closing
  <2>2. SameIpc(e, x)
    BY <1>13, <1>15, <1>20, <1>21, <2>1 DEF SameIpc
  <2>3. Ordered(x) /\ QueuesBut(x, t)
    BY <1>19, <1>20, <2>1 DEF Ordered, QueuesBut, WaitsAt
  <2> QED
    BY <1>16, <1>18, <1>19, <1>20, <1>21, <2>1, <2>2, <2>3 DEF Closing
<1>23. n = Left(e, t)
  BY <1>11, <1>18, <1>21 DEF Left, Granted
<1>24. /\ Lists(r) /\ r.at = [e.at EXCEPT ![t] = NULL] /\ r.stat = [e.stat EXCEPT ![t] = "CLOSE"]
       /\ r.timer = e.timer \ {t} /\ r.lock = e.lock /\ r.prio = e.prio /\ r.mprio = e.mprio
       /\ r.pend = e.pend /\ r.err = e.err /\ r.value = e.value
       /\ r.base = e.base /\ r.taken = e.taken /\ r.owner = e.owner /\ r.hold = e.hold
       /\ r.ceil = e.ceil /\ r.got = e.got /\ r.obj = e.obj /\ r.fault = e.fault
  <2>1. Lists(e) /\ t \in Threads /\ Closing(e, x, t) /\ Changes(x, r, {"at", "net"})
        /\ r.at = [x.at EXCEPT ![t] = NULL] /\ r.net = Left(e, t)
    BY <1>0, <1>14, <1>18, <1>22, <1>23
  <2> QED
    BY ONLY <2>1, ClosedThen
<1>25. Gone(s, r, t)
  <2>1. r.stat = [s.stat EXCEPT ![t] = "CLOSE"] /\ r.timer \subseteq s.timer \ {t} /\ r.lock = s.lock
    BY <1>0, <1>6, <1>18, <1>24
  <2>2. r.pend = [s.pend EXCEPT ![t] = NULL] /\ r.at = [s.at EXCEPT ![t] = NULL]
    BY <1>6, <1>15, <1>21, <1>24 DEF SameIpc
  <2>3. /\ r.base = s.base /\ r.taken = s.taken /\ r.owner = s.owner /\ r.hold = s.hold
        /\ r.ceil = s.ceil /\ r.got = s.got /\ r.obj = s.obj /\ r.fault = s.fault /\ r.err = s.err /\ r.value = s.value
    BY <1>6, <1>21, <1>24 DEF SameIpc
  <2>4. r.pend[t] = NULL /\ \A u \in Threads \ {t} : r.pend[u] = s.pend[u]
    BY <1>0, <2>2
  <2> QED
    BY <1>14, <1>24, <2>1, <2>2, <2>3, <2>4 DEF Gone, n
<1>26. Books(r)
  BY <1>0, <1>25, GoneBooks
<1>27. Quiet(s, r)
  BY <1>0, <1>25, GoneQuiet
<1>28. r.prio = d.prio /\ r.mprio = d.mprio
  BY <1>18, <1>21, <1>24
<1>29. Kill(s, t) = r
  BY <1>9, <1>10
<1> HIDE DEF m
<1>30. \E v : /\ Chainable(v) /\ SameIpc(s, v) /\ v.stat = [s.stat EXCEPT ![t] = "INIT"]
             /\ v.prio = s.prio /\ v.mprio = s.mprio
             /\ r.prio = DropPriority(v, m, t).prio /\ r.mprio = DropPriority(v, m, t).mprio
  <2> WITNESS z
  <2> QED
    BY <1>2, <1>28 DEF d
<1> QED
  BY <1>24, <1>25, <1>26, <1>27, <1>29, <1>30 DEF m

(* Whatever thread that owns no mutex is closed, its books are in order    *)
(* and the most urgent thread runs.                                        *)
LEMMA ThreadClosed ==
  ASSUME NEW s, Settled(s), NEW t \in Threads \ {Idle}, s.stat[t] \notin {"NONE", "CLOSE"}, s.taken[t] = {}
  PROVE  LET r == rt_schedule(Kill(s, t)) IN Settled(r) /\ Best(r) /\ Quiet(s, r)
<1>1. Lists(s) /\ Books(s)
  BY DEF Settled
<1>2. Lists(Kill(s, t)) /\ Books(Kill(s, t)) /\ Quiet(s, Kill(s, t))
  <2>1. CASE s.pend[t] = NULL \/ s.obj[s.pend[t]] = "detached"
    BY <1>1, <2>1, KillsOther
  <2>2. CASE s.pend[t] # NULL /\ s.obj[s.pend[t]] # "detached"
    BY <2>2, KillsWaiter
  <2> QED
    BY <2>1, <2>2
<1> QED
  BY <1>2, SettlesFrom

-----------------------------------------------------------------------------
(* The system with IPC objects.                                            *)

(* The calls on threads and semaphores, and on mutexes, that keep the      *)
(* kernel consistent: a thread is closed as ThreadClose does it, a waiter  *)
(* for a mutex is not resumed and a mutex not deleted.                     *)
Served == {"create", "startup", "start", "yield", "suspend", "resume", "close", "sleep", "tick",
           "sem_take", "sem_timed_take", "sem_release", "sem_control", "sem_delete",
           "mutex_take", "mutex_timed_take", "mutex_release", "mutex_ceiling", "mutex_detach"}

(* An application that calls no other, and whose waits for a mutex do not  *)
(* time out: a thread that timed out keeps its pending_object (ipc.c:1254) *)
(* and a later change of its priority moves it to a list it is not         *)
(* waiting in.                                                             *)
Orderly == app.calls \subseteq Served /\ ("tick" \in app.calls => "mutex_timed_take" \notin app.calls)

(* No thread that waits for a mutex has a timer.                           *)
Untimed(s) == \A t \in s.timer : s.at[t] \notin Mutexes

(* The inductive invariant of the system with IPC objects.                 *)
IpcInv ==
  Orderly => /\ Settled(k)
             /\ "mutex_timed_take" \notin app.calls => Untimed(k)
             /\ op \in Rescheduling => Best(k)

(* What a step has to keep.                                                *)
LEMMA Keeps ==
  ASSUME IpcInv, Orderly, UNCHANGED app, Settled(k'), "mutex_timed_take" \notin app.calls => Quiet(k, k'),
         op' \in Rescheduling => Best(k')
  PROVE  IpcInv'
<1>1. Settled(k)' /\ (op \in Rescheduling => Best(k))'
  OBVIOUS
<1>2. ("mutex_timed_take" \notin app.calls => Untimed(k))'
  BY DEF IpcInv, Quiet, Untimed
<1> QED
  BY <1>1, <1>2 DEF IpcInv

(* The kernel rtthread_startup leaves, with its IPC objects.               *)
LEMMA IpcStarts == IpcInit => IpcInv
<1> SUFFICES ASSUME IpcInit PROVE IpcInv
  OBVIOUS
<1>1. /\ k.base = Boot.prio /\ k.err = [t \in Threads |-> "EOK"] /\ k.pend = [t \in Threads |-> NULL]
      /\ k.taken = [t \in Threads |-> {}] /\ k.at = [t \in Threads |-> NULL]
      /\ k.value = [o \in Sems |-> 0] /\ k.net = [o \in Sems |-> 0]
      /\ k.owner = [m \in Mutexes |-> NULL] /\ k.hold = [m \in Mutexes |-> 0]
      /\ k.mprio = [m \in Mutexes |-> NoPrio] /\ k.ceil = [m \in Mutexes |-> NoPrio]
      /\ k.got = [m \in Mutexes |-> [t \in Threads |-> 0]]
      /\ k.obj = [o \in Objects |-> "live"] /\ ~k.fault /\ k.fault \in BOOLEAN
  BY DEF IpcInit
<1>2. /\ k.cur = Boot.cur /\ k.stat = Boot.stat /\ k.yield = Boot.yield /\ k.prio = Boot.prio
      /\ k.list = Boot.list /\ k.group = Boot.group /\ k.lock = Boot.lock /\ k.timer = Boot.timer
  BY DEF IpcInit
<1>3. k = [x \in DOMAIN k |-> k[x]] /\ DOMAIN k = IpcFields \cup Fields
  BY DEF IpcInit, IpcFields, Fields
<1>4. Inv(Boot) /\ Boot.lock = 0
  BY BootInv
<1>5. Shape(k) /\ IpcFields \subseteq DOMAIN k
  BY <1>3 DEF Shape
<1>6. \A t \in Threads : k.at[t] = NULL
  BY <1>1
<1>8. Inv(k)
  BY <1>2, <1>4, <1>5 DEF Inv, Sound, Typed, Bits, Placed, Home, Runs
<1>9. IpcTyped(k)
  <2>1. 0 \in 0 .. SemMax /\ 0 \in 0 .. HoldMax /\ NoPrio \in 0 .. NoPrio
    BY BoundsAssumption, LevelsAssumption DEF NoPrio
  <2>2. Boot.prio \in [Threads -> Priorities]
    BY <1>4 DEF Inv, Sound, Typed
  <2> QED
    BY <1>1, <1>5, <2>1, <2>2 DEF IpcTyped, Errors, Conditions
<1>10. \A t \in Threads, o \in Objects : ~On(t, k.list[o]) /\ ~WaitsAt(k, t, o)
  <2>1. Levels - 1 \in Priorities
    BY LevelsAssumption DEF Priorities
  <2>2. \A o \in Objects : k.list[o] = <<>>
    BY <1>2, <2>1, HeadsAre DEF Boot
  <2> QED
    BY <1>6, <2>2, NullAssumption DEF On, WaitsAt
<1>11. Lists(k)
  <2>1. \A m \in Mutexes : k.list[m] \in Seq(Threads) /\ \A t \in Threads : ~On(t, k.list[m])
    BY <1>8, <1>10, MutexIs, HeadsAre DEF Inv, Sound, Typed
  <2>2. \A m \in Mutexes : k.list[m] = <<>>
    BY <2>1, Empty
  <2>3. Ordered(k)
    BY <2>2 DEF Ordered, Sorted
  <2> QED
    BY <1>8, <1>9, <1>10, <2>3 DEF Lists, Queues
<1>12. k.cur = Main /\ k.stat[k.cur] = "RUNNING" /\ k.timer = {} /\ k.lock = 0
  <2>1. Boot.cur = Main /\ Boot.timer = {}
        /\ Boot.stat = [t \in Threads |-> CASE t = Main -> "RUNNING" [] t = Idle -> "READY" [] OTHER -> "NONE"]
    BY DEF Boot
  <2>2. Main \in Threads /\ Main # Idle
    BY ThreadsAssumption DEF Threads
  <2>3. Boot.stat[Main] = "RUNNING"
    BY <2>1, <2>2
  <2> QED
    BY <1>2, <1>4, <2>1, <2>3
<1>13. \A t \in Threads : \A o : ~Granted(k, t, o) \/ o = NULL
  BY <1>1, <1>6 DEF Granted
<1>14. Books(k)
  <2>1. Threadly(k)
    BY <1>1, <1>6, <1>12 DEF Threadly
  <2>2. Pends(k)
    BY <1>1, <1>6, <1>10, MutexIs DEF Pends
  <2>3. ASSUME NEW o \in Sems PROVE TokenOf(k, o)
    <3>1. Holders(k, o) = {}
      BY <1>13, SemIs DEF Holders
    <3>2. Cardinality(Holders(k, o)) = 0 /\ k.value[o] = 0 /\ k.net[o] = 0
      BY <1>1, <1>6, <3>1, FS_EmptySet
    <3> QED
      BY <1>10, <3>2, SemIs DEF TokenOf
  <2>4. ASSUME NEW m \in Mutexes PROVE OwnerOf(k, m)
    <3>1. \A t \in Threads : k.got[m][t] = 0 /\ ~Granted(k, t, m) /\ k.taken[t] = {} /\ k.at[t] # m
      BY <1>1, <1>6, <1>13, MutexIs
    <3>2. k.owner[m] = NULL /\ NULL \notin Threads
      BY <1>1, <1>6, NullAssumption
    <3> QED
      BY <1>10, <3>1, <3>2, MutexIs DEF OwnerOf
  <2>5. \A m \in Mutexes, t \in Threads : m \notin k.taken[t]
    BY <1>1, <1>6
  <2> QED
    BY <2>1, <2>2, <2>3, <2>4, <2>5 DEF Books, Tokens, Owners
<1>15. op \notin Rescheduling
  BY DEF IpcInit, Rescheduling
<1> QED
  BY <1>11, <1>12, <1>14, <1>15 DEF IpcInv, Settled, Untimed

(* A call of the running thread, which is not idle and waits for nothing.  *)
LEMMA CallIs ==
  ASSUME IpcInv, Orderly, NEW name, Calls(name)
  PROVE  /\ Settled(k) /\ k.cur # Idle /\ k.at[k.cur] = NULL /\ op' = name /\ UNCHANGED app /\ name \in app.calls
         /\ "mutex_timed_take" \notin app.calls => Untimed(k)
BY DEF IpcInv, Calls

(* The calls on semaphores.                                                *)
LEMMA SemSteps ==
  ASSUME IpcInv, Orderly, SemTake \/ SemTimedTake \/ SemRelease \/ SemControl \/ SemDelete
  PROVE  IpcInv'
<1>1. CASE SemTake
  <2>1. PICK o \in Live(Sems), w \in {"no", "forever"} : k' = _rt_sem_take(k, o, w)
    BY <1>1 DEF SemTake
  <2>2. Settled(k) /\ k.cur # Idle /\ k.at[k.cur] = NULL /\ op' = "sem_take" /\ UNCHANGED app
    BY <1>1, CallIs DEF SemTake
  <2>3. o \in Sems /\ w \in Waits
    BY DEF Live, Waits
  <2>4. Settled(k') /\ Quiet(k, k')
    BY <2>1, <2>2, <2>3, SemTaken
  <2>5. op' \notin Rescheduling
    BY <2>2 DEF Rescheduling
  <2> QED
    BY <2>2, <2>4, <2>5, Keeps
<1>2. CASE SemTimedTake
  <2>1. PICK o \in Live(Sems) : k' = _rt_sem_take(k, o, "timed")
    BY <1>2 DEF SemTimedTake
  <2>2. Settled(k) /\ k.cur # Idle /\ k.at[k.cur] = NULL /\ op' = "sem_timed_take" /\ UNCHANGED app
    BY <1>2, CallIs DEF SemTimedTake
  <2>3. o \in Sems /\ "timed" \in Waits
    BY DEF Live, Waits
  <2>4. Settled(k') /\ Quiet(k, k')
    BY <2>1, <2>2, <2>3, SemTaken
  <2>5. op' \notin Rescheduling
    BY <2>2 DEF Rescheduling
  <2> QED
    BY <2>2, <2>4, <2>5, Keeps
<1>3. CASE SemRelease
  <2>1. PICK o \in Live(Sems) : k' = rt_sem_release(k, o)
    BY <1>3 DEF SemRelease
  <2>2. Settled(k) /\ op' = "sem_release" /\ UNCHANGED app
    BY <1>3, CallIs DEF SemRelease
  <2>3. o \in Sems
    BY DEF Live
  <2>4. Settled(k') /\ Quiet(k, k')
    BY <2>1, <2>2, <2>3, SemReleased
  <2>5. op' \notin Rescheduling
    BY <2>2 DEF Rescheduling
  <2> QED
    BY <2>2, <2>4, <2>5, Keeps
<1>4. CASE SemControl
  <2>1. PICK o \in Live(Sems), v \in 0 .. SemMax : k' = SemReset(k, o, v)
    BY <1>4 DEF SemControl
  <2>2. Settled(k) /\ op' = "sem_control" /\ UNCHANGED app
    BY <1>4, CallIs DEF SemControl
  <2>3. o \in Sems
    BY DEF Live
  <2>4. Settled(k') /\ Quiet(k, k')
    BY <2>1, <2>2, <2>3, SemWasReset
  <2>5. op' \notin Rescheduling
    BY <2>2 DEF Rescheduling
  <2> QED
    BY <2>2, <2>4, <2>5, Keeps
<1>5. CASE SemDelete
  <2>1. PICK o \in Live(Sems), how \in {"detached", "freed"} : k' = SemRemove(k, o, how)
    BY <1>5 DEF SemDelete
  <2>2. Settled(k) /\ op' = "sem_delete" /\ UNCHANGED app
    BY <1>5, CallIs DEF SemDelete
  <2>3. o \in Sems
    BY DEF Live
  <2>4. Settled(k') /\ Quiet(k, k')
    BY <2>1, <2>2, <2>3, SemRemoved
  <2>5. op' \notin Rescheduling
    BY <2>2 DEF Rescheduling
  <2> QED
    BY <2>2, <2>4, <2>5, Keeps
<1> QED
  BY <1>1, <1>2, <1>3, <1>4, <1>5

(* The calls on mutexes; an orderly application deletes none.              *)
LEMMA MutexSteps ==
  ASSUME IpcInv, Orderly,
         MutexTake \/ MutexTimedTake \/ MutexRelease \/ MutexCeiling \/ MutexDetach \/ MutexDelete
  PROVE  IpcInv'
<1>1. CASE MutexTake
  <2>1. PICK m \in Live(Mutexes), w \in {"no", "forever"} : k' = _rt_mutex_take(k, m, w)
    BY <1>1 DEF MutexTake
  <2>2. Settled(k) /\ k.cur # Idle /\ k.at[k.cur] = NULL /\ op' = "mutex_take" /\ UNCHANGED app
    BY <1>1, CallIs DEF MutexTake
  <2>3. m \in Mutexes /\ k.obj[m] = "live" /\ w \in Waits /\ w # "timed"
    BY DEF Live, Waits
  <2>4. Settled(k') /\ Quiet(k, k')
    BY <2>1, <2>2, <2>3, MutexTaken
  <2>5. op' \notin Rescheduling
    BY <2>2 DEF Rescheduling
  <2> QED
    BY <2>2, <2>4, <2>5, Keeps
<1>2. CASE MutexTimedTake
  <2>1. PICK m \in Live(Mutexes) : k' = _rt_mutex_take(k, m, "timed")
    BY <1>2 DEF MutexTimedTake
  <2>2. /\ Settled(k) /\ k.cur # Idle /\ k.at[k.cur] = NULL /\ op' = "mutex_timed_take" /\ UNCHANGED app
        /\ "mutex_timed_take" \in app.calls
    BY <1>2, CallIs DEF MutexTimedTake
  <2>3. m \in Mutexes /\ k.obj[m] = "live" /\ "timed" \in Waits
    BY DEF Live, Waits
  <2>4. Settled(k')
    BY <2>1, <2>2, <2>3, MutexTaken
  <2>5. op' \notin Rescheduling
    BY <2>2 DEF Rescheduling
  <2> QED
    BY <2>2, <2>4, <2>5, Keeps
<1>3. CASE MutexRelease
  <2>1. PICK m \in Live(Mutexes) : k' = rt_mutex_release(k, m)
    BY <1>3 DEF MutexRelease
  <2>2. Settled(k) /\ k.at[k.cur] = NULL /\ op' = "mutex_release" /\ UNCHANGED app
    BY <1>3, CallIs DEF MutexRelease
  <2>3. m \in Mutexes /\ k.obj[m] = "live"
    BY DEF Live
  <2>4. Settled(k') /\ Quiet(k, k')
    BY <2>1, <2>2, <2>3, MutexReleased
  <2>5. op' \notin Rescheduling
    BY <2>2 DEF Rescheduling
  <2> QED
    BY <2>2, <2>4, <2>5, Keeps
<1>4. CASE MutexCeiling
  <2>1. PICK m \in Live(Mutexes), p \in Priorities : k' = rt_mutex_setprioceiling(k, m, p)
    BY <1>4 DEF MutexCeiling
  <2>2. Settled(k) /\ k.at[k.cur] = NULL /\ op' = "mutex_ceiling" /\ UNCHANGED app
    BY <1>4, CallIs DEF MutexCeiling
  <2>3. m \in Mutexes
    BY DEF Live
  <2>4. Settled(k') /\ Quiet(k, k')
    BY <2>1, <2>2, <2>3, CeilingSet
  <2>5. op' \notin Rescheduling
    BY <2>2 DEF Rescheduling
  <2> QED
    BY <2>2, <2>4, <2>5, Keeps
<1>5. CASE MutexDetach
  <2>1. PICK m \in Live(Mutexes) : k' = MutexRemove(k, m, "detached")
    BY <1>5 DEF MutexDetach
  <2>2. Settled(k) /\ op' = "mutex_detach" /\ UNCHANGED app
    BY <1>5, CallIs DEF MutexDetach
  <2>3. m \in Mutexes /\ k.obj[m] = "live"
    BY DEF Live
  <2>4. Settled(k') /\ Quiet(k, k')
    BY <2>1, <2>2, <2>3, MutexRemoved
  <2>5. op' \notin Rescheduling
    BY <2>2 DEF Rescheduling
  <2> QED
    BY <2>2, <2>4, <2>5, Keeps
<1>6. CASE MutexDelete
  BY <1>6 DEF MutexDelete, Calls, Orderly, Served
<1> QED
  BY <1>1, <1>2, <1>3, <1>4, <1>5, <1>6

(* The calls on threads.                                                   *)
LEMMA ThreadSteps ==
  ASSUME IpcInv, Orderly, ThreadStart \/ ThreadSuspend \/ ThreadSleep \/ ThreadResume \/ ThreadClose
  PROVE  IpcInv'
<1>1. CASE ThreadStart
  <2>1. PICK t \in Workers : k.stat[t] = "NONE" /\ k' = Start(k, t)
    BY <1>1 DEF ThreadStart
  <2>2. Settled(k) /\ UNCHANGED app
    BY <1>1, CallIs DEF ThreadStart
  <2>3. Settled(k') /\ Best(k') /\ Quiet(k, k')
    BY <2>1, <2>2, ThreadStarted
  <2> QED
    BY <2>2, <2>3, Keeps
<1>2. CASE ThreadSuspend
  <2>1. k' = rt_schedule(rt_thread_suspend(k, k.cur))
    BY <1>2 DEF ThreadSuspend
  <2>2. Settled(k) /\ k.cur # Idle /\ k.at[k.cur] = NULL /\ UNCHANGED app
    BY <1>2, CallIs DEF ThreadSuspend
  <2>3. Settled(k') /\ Best(k') /\ Quiet(k, k')
    BY <2>1, <2>2, SelfSuspended
  <2> QED
    BY <2>2, <2>3, Keeps
<1>3. CASE ThreadSleep
  <2>1. k' = rt_thread_sleep(k)
    BY <1>3 DEF ThreadSleep
  <2>2. Settled(k) /\ k.cur # Idle /\ k.at[k.cur] = NULL /\ UNCHANGED app
    BY <1>3, CallIs DEF ThreadSleep
  <2>3. Settled(k') /\ Best(k') /\ Quiet(k, k')
    BY <2>1, <2>2, Sleeps
  <2> QED
    BY <2>2, <2>3, Keeps
<1>4. CASE ThreadResume
  <2>1. PICK t \in Threads : /\ IF k.at[t] \in Mutexes THEN Calls("resume_any") ELSE Calls("resume")
                             /\ k.stat[t] = "SUSPEND" /\ k' = rt_thread_resume(k, t)
    BY <1>4 DEF ThreadResume
  <2>2. ~Calls("resume_any")
    BY DEF Calls, Orderly, Served
  <2>3. Settled(k) /\ op' = "resume" /\ UNCHANGED app /\ k.at[t] \notin Mutexes
    BY <2>1, <2>2, CallIs
  <2>4. Settled(k') /\ Quiet(k, k')
    BY <2>1, <2>3, ThreadResumed
  <2>5. op' \notin Rescheduling
    BY <2>3 DEF Rescheduling
  <2> QED
    BY <2>3, <2>4, <2>5, Keeps
<1>5. CASE ThreadClose
  <2>1. PICK t \in Threads \ {Idle} : /\ k.stat[t] \notin {"NONE", "CLOSE"} /\ k.taken[t] = {}
                                      /\ k' = rt_schedule(Kill(k, t))
    BY <1>5 DEF ThreadClose
  <2>2. Settled(k) /\ UNCHANGED app
    BY <1>5, CallIs DEF ThreadClose
  <2>3. Settled(k') /\ Best(k') /\ Quiet(k, k')
    BY <2>1, <2>2, ThreadClosed
  <2> QED
    BY <2>2, <2>3, Keeps
<1> QED
  BY <1>1, <1>2, <1>3, <1>4, <1>5

(* The running thread returns from the call it waited in.                  *)
LEMMA ReturnStep ==
  ASSUME IpcInv, Orderly, Return
  PROVE  IpcInv'
<1> DEFINE o == k.at[k.cur]
<1>1. Settled(k) /\ o # NULL /\ op' = "return" /\ UNCHANGED app
      /\ k' = IF o \in Sems THEN SemReturn(k, o) ELSE IF o \in Mutexes THEN MutexReturn(k, o) ELSE SleepReturn(k)
  BY DEF IpcInv, Return
<1>2. k.cur \in Threads /\ k.at \in [Threads -> Objects \cup {NULL, Sleep}]
  BY <1>1, SettledIs
<1>3. o \in Sems \/ o \in Mutexes \/ o = Sleep
  BY <1>1, <1>2, ObjectsAssumption
<1>4. Sleep \notin Sems /\ Sleep \notin Mutexes /\ \A m \in Mutexes : m \notin Sems
  BY SemIs, MutexIs
<1>5. Settled(k') /\ Quiet(k, k')
  <2>1. CASE o \in Sems
    BY <1>1, <2>1, SemReturned
  <2>2. CASE o \in Mutexes
    BY <1>1, <1>4, <2>2, MutexReturned
  <2>3. CASE o = Sleep
    BY <1>1, <1>4, <2>3, SleepReturned
  <2> QED
    BY <1>3, <2>1, <2>2, <2>3
<1>6. op' \notin Rescheduling
  BY <1>1 DEF Rescheduling
<1> QED
  BY <1>1, <1>5, <1>6, Keeps

(* A timer expires.                                                        *)
LEMMA ExpireStep ==
  ASSUME IpcInv, Orderly, NEW t \in Threads, Expire(t)
  PROVE  IpcInv'
<1>1. Settled(k) /\ "tick" \in app.calls /\ t \in k.timer /\ op' = "tick" /\ UNCHANGED app
      /\ k' = rt_schedule(_thread_timeout(k, t))
  BY DEF IpcInv, Expire
<1>2. k.at[t] \notin Mutexes
  BY <1>1 DEF IpcInv, Orderly, Untimed
<1>3. Settled(k') /\ Quiet(k, k')
  BY <1>1, <1>2, Expires
<1>4. op' \notin Rescheduling
  BY <1>1 DEF Rescheduling
<1> QED
  BY <1>1, <1>3, <1>4, Keeps

(* The scheduler's own calls; of them an orderly application makes three.  *)
LEMMA SchedSteps ==
  ASSUME IpcInv, Orderly, Next
  PROVE  IpcInv'
<1>0. Settled(k)
  BY DEF IpcInv
<1>1. CASE Create
  <2>1. PICK t \in Workers, p \in Priorities : k.stat[t] = "NONE" /\ k' = _thread_init(k, t, p)
    BY <1>1 DEF Create
  <2>2. op' = "create" /\ UNCHANGED app /\ t \in Threads /\ k.cur \in Threads /\ k.stat \in [Threads -> Stats]
        /\ Lists(k) /\ Books(k) /\ k.stat[k.cur] = "RUNNING"
    BY <1>0, <1>1, SettledIs DEF Create, Call, Threads, Settled
  <2>3. Lists(k') /\ Books(k') /\ k'.cur = k.cur /\ k'.stat = [k.stat EXCEPT ![t] = "INIT"] /\ Quiet(k, k')
    BY <2>1, <2>2, Creates, ZenonT(60)
  <2>4. k'.stat[k'.cur] = "RUNNING"
    BY <2>1, <2>2, <2>3
  <2>5. op' \notin Rescheduling
    BY <2>2 DEF Rescheduling
  <2>6. Settled(k')
    BY <2>3, <2>4 DEF Settled
  <2> QED
    BY <2>2, <2>3, <2>5, <2>6, Keeps
<1>2. CASE Startup
  <2>1. PICK t \in Workers : k.stat[t] = "INIT" /\ k' = rt_thread_startup(k, t)
    BY <1>2 DEF Startup
  <2>2. UNCHANGED app /\ t \in Threads /\ Lists(k) /\ Books(k)
    BY <1>0, <1>2 DEF Startup, Call, Threads, Settled
  <2>3. Settled(k') /\ Best(k') /\ Quiet(k, k')
    BY <2>1, <2>2, Starts
  <2> QED
    BY <2>2, <2>3, Keeps
<1>3. CASE Yield
  <2>1. UNCHANGED app /\ k' = rt_thread_yield(k)
    BY <1>3 DEF Yield, Call
  <2>2. Settled(k') /\ Best(k') /\ Quiet(k, k')
    BY <1>0, <2>1, Yields
  <2> QED
    BY <2>1, <2>2, Keeps
<1>4. CASE IdleLoop
  <2>1. k.cur = Idle /\ op' = "idle" /\ UNCHANGED app /\ k' = rt_defunct_execute(k)
    BY <1>4 DEF IdleLoop
  <2>2. Settled(k') /\ Quiet(k, k')
    BY <1>0, <2>1, IdleReaps
  <2>3. op' \notin Rescheduling
    BY <2>1 DEF Rescheduling
  <2> QED
    BY <2>1, <2>2, <2>3, Keeps
<1>5. ~(Suspend \/ Resume \/ Control \/ Delete \/ ControlClose \/ Exit \/ EnterCritical \/ ExitCritical)
  BY DEF Suspend, Resume, Control, Delete, ControlClose, Exit, EnterCritical, ExitCritical, Call, Orderly, Served
<1> QED
  BY <1>1, <1>2, <1>3, <1>4, <1>5 DEF Next

(* The application stays the same.                                         *)
LEMMA AppKept ==
  ASSUME IpcNext
  PROVE  UNCHANGED app
<1>1. \A name : Calls(name) \/ Call(name) => UNCHANGED app
  BY DEF Calls, Call
<1>2. CASE SemTake \/ SemTimedTake \/ SemRelease \/ SemControl \/ SemDelete
  BY <1>1, <1>2 DEF SemTake, SemTimedTake, SemRelease, SemControl, SemDelete
<1>3. CASE MutexTake \/ MutexTimedTake \/ MutexRelease \/ MutexCeiling \/ MutexDetach \/ MutexDelete
  BY <1>1, <1>3 DEF MutexTake, MutexTimedTake, MutexRelease, MutexCeiling, MutexDetach, MutexDelete
<1>4. CASE ThreadStart \/ ThreadSuspend \/ ThreadSleep \/ ThreadResume \/ ThreadClose
  BY <1>1, <1>4 DEF ThreadStart, ThreadSuspend, ThreadSleep, ThreadResume, ThreadClose
<1>5. CASE Return \/ \E t \in Threads : Expire(t)
  BY <1>5 DEF Return, Expire
<1>6. CASE Next
  BY <1>1, <1>6 DEF Next, Create, Startup, Yield, Suspend, Resume, Control, Delete, ControlClose, Exit,
                    EnterCritical, ExitCritical, IdleLoop
<1> QED
  BY <1>2, <1>3, <1>4, <1>5, <1>6 DEF IpcNext

(* The invariant holds always.                                             *)
LEMMA IpcInvariant == IpcSpec => []IpcInv
<1>1. IpcInit => IpcInv
  BY IpcStarts
<1>2. IpcInv /\ [IpcNext]_vars => IpcInv'
  <2> SUFFICES ASSUME IpcInv, [IpcNext]_vars PROVE IpcInv'
    OBVIOUS
  <2>1. CASE UNCHANGED vars
    BY <2>1 DEF vars, IpcInv, Orderly, Untimed
  <2>2. CASE IpcNext /\ Orderly
    <3>1. \/ SemTake \/ SemTimedTake \/ SemRelease \/ SemControl \/ SemDelete
          \/ MutexTake \/ MutexTimedTake \/ MutexRelease \/ MutexCeiling \/ MutexDetach \/ MutexDelete
          \/ ThreadStart \/ ThreadSuspend \/ ThreadSleep \/ ThreadResume \/ ThreadClose
          \/ Return \/ Next
          \/ \E t \in Threads : Expire(t)
      BY <2>2 DEF IpcNext
    <3> QED
      BY <2>2, <3>1, SemSteps, MutexSteps, ThreadSteps, ReturnStep, SchedSteps, ExpireStep
  <2>3. CASE IpcNext /\ ~Orderly
    <3>1. UNCHANGED app
      BY <2>3, AppKept
    <3> QED
      BY <2>3, <3>1 DEF IpcInv, Orderly
  <2> QED
    BY <2>1, <2>2, <2>3
<1> QED
  BY <1>1, <1>2, PTL DEF IpcSpec

(* What the invariant says of the threads' lists and statuses.             *)
LEMMA SettledLists ==
  ASSUME Settled(k)
  PROVE  IpcTypeOK /\ ListsAgree /\ CurrentExists
<1>1. Inv(k) /\ Sound(k) /\ Typed(k) /\ IpcTyped(k) /\ k.lock = 0 /\ k.stat[k.cur] = "RUNNING"
  BY DEF Settled, Lists, Books, Threadly, Inv, Sound
<1>2. TypeOK
  <2>1. DOMAIN k.list = Heads /\ \A h \in Heads : ToSet(k.list[h]) \subseteq Threads
    BY <1>1 DEF Typed, ToSet
  <2>2. k.lock \in 0 .. LockMax
    BY <1>1, LevelsAssumption
  <2> QED
    BY <1>1, <2>1, <2>2 DEF TypeOK, Typed, Heads
<1>3. IpcTypeOK
  BY <1>1, <1>2 DEF IpcTypeOK, IpcTyped
<1>4. ListsAgree
  <2>1. \A p \in Priorities : p \in k.group <=> k.list[p] # <<>>
    BY <1>1 DEF Sound, Bits
  <2>2. ASSUME NEW t \in Threads, NEW h \in Priorities \cup {Defunct}
        PROVE  Linked(t, h) = IF \/ k.stat[t] = "READY" /\ h = k.prio[t]
                                 \/ k.stat[t] = "CLOSE" /\ h = Defunct
                              THEN 1 ELSE 0
    <3>1. h \in Heads
      BY HeadsAre
    <3>2. Linked(t, h) = IF On(t, k.list[h]) THEN 1 ELSE 0
      BY <1>1, <3>1, LinkedOnce DEF Typed
    <3>3. On(t, k.list[h]) <=> Home(k, t, h)
      BY <1>1 DEF Sound, Placed
    <3> QED
      BY <3>2, <3>3 DEF Home
  <2> QED
    BY <2>1, <2>2 DEF ListsAgree
<1> QED
  BY <1>1, <1>3, <1>4 DEF CurrentExists

(* A list nobody waits in is empty.                                        *)
LEMMA NobodyWaits ==
  ASSUME Settled(k), NEW o \in Objects, \A t \in Threads : ~WaitsAt(k, t, o)
  PROVE  k.list[o] = <<>>
<1>1. k.list[o] \in Seq(Threads)
  BY HeadsAre DEF Settled, Lists, Inv, Sound, Typed
<1>2. \A t \in Threads : ~On(t, k.list[o])
  BY DEF Settled, Lists, Queues
<1> QED
  BY <1>1, <1>2, Empty

(* The invariant says all that the properties do.                          *)
LEMMA IpcInvSays ==
  ASSUME IpcInv, Orderly
  PROVE  WaitersListed /\ TokensConserved /\ OwnerHolds /\ NoUseAfterFree /\ HighestRuns
<1>1. Settled(k) /\ Lists(k) /\ Books(k) /\ Inv(k) /\ Sound(k) /\ Typed(k)
  BY DEF IpcInv, Settled, Lists, Inv, Sound
<1>2. IpcTypeOK /\ ListsAgree /\ CurrentExists
  BY <1>1, SettledLists
<1>3. ASSUME NEW t \in Threads, NEW o \in Objects
      PROVE  Linked(t, o) = IF k.stat[t] = "SUSPEND" /\ k.at[t] = o THEN 1 ELSE 0
  <2>1. o \in Heads
    BY HeadsAre
  <2>2. Linked(t, o) = IF On(t, k.list[o]) THEN 1 ELSE 0
    BY <1>1, <2>1, LinkedOnce DEF Typed
  <2>3. On(t, k.list[o]) <=> WaitsAt(k, t, o)
    BY <1>1 DEF Lists, Queues
  <2> QED
    BY <2>2, <2>3 DEF WaitsAt
<1>4. ASSUME NEW m \in Mutexes, NEW i \in DOMAIN k.list[m], NEW j \in DOMAIN k.list[m], i < j
      PROVE  k.prio[k.list[m][i]] <= k.prio[k.list[m][j]]
  <2>1. k.list[m] \in Seq(Threads)
    BY <1>1, MutexIs DEF Typed
  <2>2. DOMAIN k.list[m] = 1 .. Len(k.list[m])
    BY <2>1
  <2>3. Sorted(k.prio, k.list[m])
    BY <1>1 DEF Lists, Ordered
  <2> QED
    BY <1>4, <2>2, <2>3 DEF Sorted
<1>5. WaitersListed
  BY <1>2, <1>3, <1>4 DEF WaitersListed
<1>6. TokensConserved
  <2> SUFFICES ASSUME NEW o \in Live(Sems)
               PROVE  /\ k.value[o] = k.net[o] - Cardinality({t \in Threads : Granted(k, t, o)})
                      /\ k.value[o] > 0 => k.list[o] = <<>>
    BY DEF TokensConserved
  <2>1. o \in Sems /\ o \in Objects
    BY SemIs DEF Live
  <2>2. TokenOf(k, o)
    BY <1>1, <2>1 DEF Books, Tokens
  <2>3. k.value[o] > 0 => k.list[o] = <<>>
    BY <1>1, <2>1, <2>2, NobodyWaits DEF TokenOf
  <2> QED
    BY <2>2, <2>3 DEF TokenOf, Holders
<1>7. OwnerHolds
  <2> SUFFICES ASSUME NEW m \in Live(Mutexes)
               PROVE  /\ \A t \in Threads : /\ k.got[m][t] + (IF Granted(k, t, m) THEN 1 ELSE 0)
                                                = IF k.owner[m] = t THEN k.hold[m] ELSE 0
                                            /\ m \in k.taken[t] <=> k.owner[m] = t
                      /\ k.owner[m] = NULL => k.list[m] = <<>>
    BY DEF OwnerHolds
  <2>1. m \in Mutexes /\ m \in Objects /\ k.obj[m] = "live"
    BY MutexIs DEF Live
  <2>2. OwnerOf(k, m)
    BY <1>1, <2>1 DEF Books, Owners
  <2>3. k.owner[m] = NULL => k.list[m] = <<>>
    BY <1>1, <2>1, <2>2, NobodyWaits DEF OwnerOf
  <2> QED
    BY <2>2, <2>3 DEF OwnerOf
<1>8. NoUseAfterFree
  BY <1>1, <1>2 DEF NoUseAfterFree, NoBadRead, Books, Threadly
<1>9. HighestRuns
  <2>1. op \in Rescheduling => Best(k)
    BY DEF IpcInv
  <2> QED
    BY <1>1, <2>1 DEF HighestRuns, Best, Runs, Inv
<1> QED
  BY <1>5, <1>6, <1>7, <1>8, <1>9

(* Whoever is linked in the list of a semaphore or a mutex is suspended in *)
(* a take call on it, linked there once and nowhere else, and everybody    *)
(* suspended in such a call is linked; the list of a mutex is in the order *)
(* of the current priorities, through every chain of inherited ones        *)
(* (ipc.c), for an orderly application.                                    *)
THEOREM WaitersAreListed == IpcSpec => [](Orderly => WaitersListed)
<1>1. IpcInv => (Orderly => WaitersListed)
  BY IpcInvSays
<1> QED
  BY <1>1, IpcInvariant, PTL

(* No token of a semaphore is lost or made up, whatever resumes, times     *)
(* out, resets or deletes a waiter, and nobody waits while its count is    *)
(* positive (_rt_sem_take, rt_sem_release, rt_sem_control of ipc.c), for   *)
(* an orderly application.                                                 *)
THEOREM TokensAreConserved == IpcSpec => [](Orderly => TokensConserved)
<1>1. IpcInv => (Orderly => TokensConserved)
  BY IpcInvSays
<1> QED
  BY <1>1, IpcInvariant, PTL

(* A thread has a mutex exactly when a take of it returned RT_EOK, or is   *)
(* about to, as many times as the mutex counts for its owner; a mutex      *)
(* without an owner has no waiter; a taken_object_list holds exactly the   *)
(* mutexes its thread owns (_rt_mutex_take and rt_mutex_release of ipc.c), *)
(* for an orderly application.                                             *)
THEOREM OwnersHold == IpcSpec => [](Orderly => OwnerHolds)
<1>1. IpcInv => (Orderly => OwnerHolds)
  BY IpcInvSays
<1> QED
  BY <1>1, IpcInvariant, PTL

(* The thread on the processor has not been freed, and no path of ipc.c    *)
(* reads a freed mutex or the owner of a mutex that has none, for an       *)
(* orderly application.                                                    *)
THEOREM NothingFreedIsUsed == IpcSpec => [](Orderly => NoUseAfterFree)
<1>1. IpcInv => (Orderly => NoUseAfterFree)
  BY IpcInvSays
<1> QED
  BY <1>1, IpcInvariant, PTL

(* rt_schedule picks the most urgent thread with semaphores, mutexes,      *)
(* inherited priorities and sleeping threads too, for an orderly           *)
(* application.                                                            *)
THEOREM UrgentRunsWithIpc == IpcSpec => [](Orderly => HighestRuns)
<1>1. IpcInv => (Orderly => HighestRuns)
  BY IpcInvSays
<1> QED
  BY <1>1, IpcInvariant, PTL

=============================================================================
