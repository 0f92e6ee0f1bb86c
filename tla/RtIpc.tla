-------------------------------- MODULE RtIpc --------------------------------
(***************************************************************************)
(* Semaphores and mutexes of RT-Thread (src/ipc.c) over the scheduler of   *)
(* RtSched, with sleeping threads (src/thread.c, src/clock.c, src/timer.c).*)
(*                                                                         *)
(* The kernel record gets the fields of the IPC code:                      *)
(*   base, err, pend, taken   init_priority, error, pending_object and     *)
(*                            taken_object_list of a thread                *)
(*   value                    of a semaphore                               *)
(*   owner, hold, mprio, ceil owner, hold, priority, ceiling_priority of a *)
(*                            mutex; NoPrio stands for 0xFF                *)
(*   obj                      "live", "detached" or "freed"                *)
(*   at                       the object in whose take call the thread     *)
(*                            waits, or has been woken and not returned    *)
(*   fault                    a freed mutex or a null owner was read       *)
(* and two counts the code does not keep: net[s], the releases of a        *)
(* semaphore minus the takes that returned RT_EOK, and got[m][t], the      *)
(* takes of a mutex that returned RT_EOK minus its releases.               *)
(*                                                                         *)
(* A take that waits is two steps: the call up to rt_schedule, and Return, *)
(* when the thread runs again.                                             *)
(***************************************************************************)
EXTENDS RtSched

CONSTANTS Sems, Mutexes,
          FifoSems,          \* the semaphores created with RT_IPC_FLAG_FIFO
          Prio,              \* the priority each worker is created with
          SemMax, HoldMax,   \* RT_SEM_VALUE_MAX and RT_MUTEX_HOLD_MAX
          Sleep,             \* what a thread in rt_thread_sleep waits for
          NULL

ASSUME ObjectsAssumption == Objects = Sems \cup Mutexes /\ Sems \cap Mutexes = {} /\ FifoSems \subseteq Sems
ASSUME PrioAssumption == Prio \in [Workers -> Priorities]
ASSUME BoundsAssumption == SemMax \in Nat \ {0} /\ HoldMax \in Nat \ {0}
ASSUME WorkersAssumption == IsFiniteSet(Workers)
ASSUME NullAssumption == NULL \notin Threads \cup Objects \cup {Sleep} /\ Sleep \notin Objects

NoPrio == Levels

-----------------------------------------------------------------------------
(* Waiting lists *)

\* _ipc_list_suspend: at the tail, or before the first less urgent waiter; the
\* thread is suspended unless it already is
_ipc_list_suspend(s, o, t) ==
    LET out    == rt_thread_suspend(s, t)
        queue  == out.list[o]
        behind == {i \in DOMAIN queue : s.prio[t] < s.prio[queue[i]]}
        place  == IF o \in FifoSems \/ behind = {} THEN Len(queue) + 1 ELSE Min(behind)
    IN [out EXCEPT !.list[o] = InsertAt(queue, place, t)]

_ipc_list_resume(s, o) ==
    LET t == Head(s.list[o]) IN rt_thread_resume([s EXCEPT !.err[t] = "EOK"], t)

\* Woken[i]: after i turns of the loop
_ipc_list_resume_all(s, o) ==
    LET queue == s.list[o]
        Woken[i \in 0 .. Len(queue)] ==
            IF i = 0 THEN s
            ELSE LET t == queue[i] IN rt_thread_resume([Woken[i - 1] EXCEPT !.err[t] = "ERROR"], t)
    IN Woken[Len(queue)]

-----------------------------------------------------------------------------
(* Priority inheritance *)

_mutex_update_priority(s, m) ==
    [s EXCEPT !.mprio[m] = IF s.list[m] = <<>> THEN NoPrio ELSE s.prio[Head(s.list[m])]]

\* the mutexes of the thread as its taken_object_list links them
_thread_get_mutex_priority(s, t) ==
    Min({s.base[t]} \cup {s.mprio[m] : m \in s.taken[t]} \cup {s.ceil[m] : m \in s.taken[t]})

\* Mutation: the owner that waits itself does not pass the priority on.
UpdateOne_not_chained(s, t, p) == [s |-> ChangePriority(s, t, p), next |-> NULL]

\* what one call of _thread_update_priority does before it calls itself for
\* the owner of the mutex the thread waits for
UpdateOne(s, t, p) ==
    LET changed == ChangePriority(s, t, p)
        m       == s.pend[t]
        moved   == _mutex_update_priority(_ipc_list_suspend(rt_list_remove(changed, t), m, t), m)
    IN IF s.stat[t] # "SUSPEND" \/ m = NULL \/ s.obj[m] = "detached" THEN [s |-> changed, next |-> NULL]
       ELSE IF s.obj[m] = "freed" \/ s.owner[m] = NULL THEN [s |-> [moved EXCEPT !.fault = TRUE], next |-> NULL]
       ELSE [s |-> moved, next |-> s.owner[m]]

\* its call for the next owner, unless that one's priority is right already
UpdateNext(acc) ==
    IF acc.next = NULL THEN acc
    ELSE LET q == _thread_get_mutex_priority(acc.s, acc.next)
         IN IF q = acc.s.prio[acc.next] THEN [acc EXCEPT !.next = NULL]
            ELSE UpdateOne(acc.s, acc.next, q)

\* The chain is no longer than the threads that wait. Chain[i]: after i calls
\* of the function by itself
_thread_update_priority(s, t, p) ==
    LET Turns == 2 * Cardinality(Threads)
        Chain[i \in 0 .. Turns] == IF i = 0 THEN UpdateOne(s, t, p) ELSE UpdateNext(Chain[i - 1])
    IN Chain[Turns].s

\* the owner's priority is computed again if it may come from thread t, which
\* has left the mutex's list (rt_mutex_drop_thread, and the failing end of
\* _rt_mutex_take, which repeats it)
DropPriority(s, m, t) ==
    IF s.owner[m] = NULL \/ s.obj[m] = "freed" THEN [s EXCEPT !.fault = TRUE]
    ELSE LET o   == s.owner[m]
             out == _mutex_update_priority(s, m)
             q   == _thread_get_mutex_priority(out, o)
         IN IF s.prio[o] = s.prio[t] /\ q # s.prio[o] THEN _thread_update_priority(out, o, q) ELSE out

rt_mutex_drop_thread(s, m, t) == DropPriority(rt_list_remove(s, t), m, t)

-----------------------------------------------------------------------------
(* Semaphores *)

\* the thread waits for o in its take call; a timed wait starts its timer
Wait(s, t, o, timed) ==
    [_ipc_list_suspend(s, o, t) EXCEPT !.at[t] = o, !.timer = IF timed THEN @ \cup {t} ELSE @]

\* the wait of a thread, unless it is 0: forever, or until a tick
Waits == {"no", "timed", "forever"}

\* Mutation: the error of the waiting thread starts as RT_EOK.
_rt_sem_take_ok(s, o, wait) ==
    LET t == s.cur
    IN IF s.value[o] > 0 THEN [s EXCEPT !.value[o] = @ - 1, !.net[o] = @ - 1]
       ELSE IF wait = "no" THEN s
       ELSE rt_schedule(Wait([s EXCEPT !.err[t] = "EOK"], t, o, wait = "timed"))

_rt_sem_take(s, o, wait) ==
    LET t == s.cur
    IN IF s.value[o] > 0 THEN [s EXCEPT !.value[o] = @ - 1, !.net[o] = @ - 1]
       ELSE IF wait = "no" THEN s
       ELSE rt_schedule(Wait([s EXCEPT !.err[t] = "EINTR"], t, o, wait = "timed"))

rt_sem_release(s, o) ==
    IF s.list[o] # <<>> THEN rt_schedule(_ipc_list_resume([s EXCEPT !.net[o] = @ + 1], o))
    ELSE IF s.value[o] < SemMax THEN [s EXCEPT !.value[o] = @ + 1, !.net[o] = @ + 1]
    ELSE s

\* woken with a token and not yet returned
Granted(s, t, o) == s.at[t] = o /\ s.err[t] = "EOK" /\ s.stat[t] \in {"READY", "RUNNING"}

\* rt_sem_control with RT_IPC_CMD_RESET
SemReset(s, o, v) ==
    LET granted == Cardinality({t \in Threads : Granted(s, t, o)})
    IN rt_schedule([_ipc_list_resume_all(s, o) EXCEPT !.value[o] = v, !.net[o] = v + granted])

SemReturn(s, o) ==
    LET t == s.cur
    IN [s EXCEPT !.at[t] = NULL, !.net[o] = IF s.err[t] = "EOK" THEN @ - 1 ELSE @]

-----------------------------------------------------------------------------
(* Mutexes *)

\* the nesting of takes has a largest value
HoldsMore(s, m) == s.hold[m] < HoldMax

\* the caller suspends itself and lends its priority to the owner
MutexWait(s, m) ==
    LET t == s.cur
        p == s.prio[t]
        waiting == [Wait(s, t, m, FALSE) EXCEPT !.pend[t] = m, !.mprio[m] = IF p < @ THEN p ELSE @]
        o == s.owner[m]
    IN IF p < s.mprio[m] /\ p < s.prio[o] THEN _thread_update_priority(waiting, o, p) ELSE waiting

\* a free mutex: the caller becomes its owner, at its ceiling priority at least
MutexGrab(s, m) ==
    LET t == s.cur
        mine == [s EXCEPT !.owner[m] = t, !.mprio[m] = NoPrio, !.hold[m] = 1, !.got[m][t] = @ + 1]
        lifted == IF s.ceil[m] < s.prio[t] THEN _thread_update_priority(mine, t, s.ceil[m]) ELSE mine
    IN [lifted EXCEPT !.taken[t] = @ \cup {m}]

_rt_mutex_take(s, m, wait) ==
    LET t == s.cur
        r == [s EXCEPT !.err[t] = "EOK"]
    IN IF s.owner[m] = t
       THEN IF HoldsMore(s, m) THEN [r EXCEPT !.hold[m] = @ + 1, !.got[m][t] = @ + 1] ELSE r
       ELSE IF s.owner[m] = NULL THEN MutexGrab(r, m)
       ELSE IF wait = "no" THEN [s EXCEPT !.err[t] = "ETIMEOUT"]
       ELSE LET w == MutexWait(r, m)
            IN rt_schedule(IF wait = "timed" THEN [w EXCEPT !.timer = @ \cup {t}] ELSE w)

\* what _rt_mutex_take does when the thread runs again
MutexReturn(s, m) ==
    LET t == s.cur
        back == [s EXCEPT !.at[t] = NULL]
    IN IF s.err[t] = "EOK" THEN [back EXCEPT !.got[m][t] = @ + 1] ELSE DropPriority(back, m, t)

\* Mutation: the new owner keeps its pending_object.
HandOver_keeps_pend(s, m) ==
    LET t == Head(s.list[m])
        given == [rt_list_remove(s, t) EXCEPT !.owner[m] = t, !.hold[m] = 1, !.taken[t] = @ \cup {m}]
    IN _mutex_update_priority(rt_thread_resume(given, t), m)

\* Mutation: the waiter is woken without being made the owner.
HandOver_keeps_owner(s, m) == _mutex_update_priority(_ipc_list_resume(s, m), m)

\* the mutex goes to its first waiter
HandOver(s, m) ==
    LET t == Head(s.list[m])
        given == [rt_list_remove(s, t) EXCEPT !.owner[m] = t, !.hold[m] = 1, !.pend[t] = NULL,
                                              !.taken[t] = @ \cup {m}]
    IN _mutex_update_priority(rt_thread_resume(given, t), m)

rt_mutex_release(s, m) ==
    LET t == s.cur
        less == [s EXCEPT !.hold[m] = @ - 1, !.got[m][t] = @ - 1]
        off  == [less EXCEPT !.taken[t] = @ \ {m}]
        lower == s.ceil[m] # NoPrio \/ s.prio[t] = s.mprio[m]
        own  == IF lower THEN ChangePriority(off, t, _thread_get_mutex_priority(off, t)) ELSE off
    IN IF s.owner[m] # t THEN [s EXCEPT !.err[t] = "ERROR"]
       ELSE IF s.hold[m] > 1 THEN less
       ELSE IF s.list[m] # <<>> THEN rt_schedule(HandOver(own, m))
       ELSE LET free == [own EXCEPT !.owner[m] = NULL, !.mprio[m] = NoPrio]
            IN IF lower THEN rt_schedule(free) ELSE free

rt_mutex_setprioceiling(s, m, p) ==
    LET set == [s EXCEPT !.ceil[m] = p]
        o   == s.owner[m]
    IN IF o = NULL THEN set
       ELSE LET q == _thread_get_mutex_priority(set, o)
            IN IF q # s.prio[o] THEN _thread_update_priority(set, o, q) ELSE set

\* rt_mutex_detach and rt_mutex_delete: the object is unregistered, or freed
MutexRemove(s, m, how) ==
    LET woken == _ipc_list_resume_all(s, m)
    IN [woken EXCEPT !.taken = [t \in Threads |-> @[t] \ {m}], !.obj[m] = how]

\* rt_sem_detach and rt_sem_delete
SemRemove(s, o, how) == [_ipc_list_resume_all(s, o) EXCEPT !.obj[o] = how]

-----------------------------------------------------------------------------
(* Threads *)

rt_thread_sleep(s) ==
    LET t == s.cur
    IN rt_schedule([rt_thread_suspend(s, t) EXCEPT !.timer = @ \cup {t}, !.err[t] = "EINTR", !.at[t] = Sleep])

SleepReturn(s) ==
    LET t == s.cur
    IN [s EXCEPT !.at[t] = NULL, !.err[t] = IF @ = "ETIMEOUT" THEN "EOK" ELSE @]

\* Mutation: the thread is not put back in a ready list.
_thread_timeout_stays(s, t) == [s EXCEPT !.timer = @ \ {t}, !.err[t] = "ETIMEOUT"]

\* rt_tick_increase, rt_timer_check and, for a timer that expires,
\* _thread_timeout up to its rt_schedule
_thread_timeout(s, t) ==
    LET out == rt_list_remove([s EXCEPT !.timer = @ \ {t}, !.err[t] = "ETIMEOUT"], t)
    IN rt_schedule_insert_thread(out, t)

\* rt_thread_create and rt_thread_startup
Start(s, t) ==
    rt_thread_startup([_thread_init(s, t, Prio[t]) EXCEPT !.base[t] = Prio[t], !.err[t] = "EOK",
                                                          !.pend[t] = NULL, !.taken[t] = {}], t)

\* rt_thread_delete or rt_thread_detach of a thread that may wait for a mutex;
\* a token it was given and has not returned with is gone
Kill(s, t) ==
    LET c == Close(s, t)
        m == s.pend[t]
        d == IF m = NULL \/ s.obj[m] = "detached" THEN c
             ELSE [rt_mutex_drop_thread(c, m, t) EXCEPT !.pend[t] = NULL]
        n == [o \in Sems |-> IF Granted(s, t, o) THEN s.net[o] - 1 ELSE s.net[o]]
    IN rt_thread_defunct_enqueue([d EXCEPT !.at[t] = NULL, !.net = n], t)

-----------------------------------------------------------------------------
(* The system *)

IpcInit ==
    /\ k = [base |-> Boot.prio, err |-> [t \in Threads |-> "EOK"], pend |-> [t \in Threads |-> NULL],
            taken |-> [t \in Threads |-> {}], at |-> [t \in Threads |-> NULL],
            value |-> [o \in Sems |-> 0], net |-> [o \in Sems |-> 0],
            owner |-> [m \in Mutexes |-> NULL], hold |-> [m \in Mutexes |-> 0],
            mprio |-> [m \in Mutexes |-> NoPrio], ceil |-> [m \in Mutexes |-> NoPrio],
            got |-> [m \in Mutexes |-> [t \in Threads |-> 0]],
            obj |-> [o \in Objects |-> "live"], fault |-> FALSE,
            cur |-> Boot.cur, stat |-> Boot.stat, yield |-> Boot.yield, prio |-> Boot.prio,
            list |-> Boot.list, group |-> Boot.group, lock |-> Boot.lock, timer |-> Boot.timer]
    /\ app \in Applications /\ op = "boot"

\* the current thread calls an operation, and is not inside one
Calls(name) == name \in app.calls /\ k.cur # Idle /\ k.at[k.cur] = NULL /\ op' = name /\ UNCHANGED app

Live(S) == {o \in S \cap app.objects : k.obj[o] = "live"}

SemTake == Calls("sem_take") /\ \E o \in Live(Sems), w \in {"no", "forever"} : k' = _rt_sem_take(k, o, w)
SemTimedTake == Calls("sem_timed_take") /\ \E o \in Live(Sems) : k' = _rt_sem_take(k, o, "timed")
SemRelease == Calls("sem_release") /\ \E o \in Live(Sems) : k' = rt_sem_release(k, o)
SemControl == Calls("sem_control") /\ \E o \in Live(Sems), v \in 0 .. SemMax : k' = SemReset(k, o, v)
SemDelete == /\ Calls("sem_delete")
             /\ \E o \in Live(Sems), how \in {"detached", "freed"} : k' = SemRemove(k, o, how)

MutexTake == Calls("mutex_take") /\ \E m \in Live(Mutexes), w \in {"no", "forever"} : k' = _rt_mutex_take(k, m, w)
MutexTimedTake == Calls("mutex_timed_take") /\ \E m \in Live(Mutexes) : k' = _rt_mutex_take(k, m, "timed")
MutexRelease == Calls("mutex_release") /\ \E m \in Live(Mutexes) : k' = rt_mutex_release(k, m)
MutexCeiling == /\ Calls("mutex_ceiling")
                /\ \E m \in Live(Mutexes), p \in Priorities : k' = rt_mutex_setprioceiling(k, m, p)
MutexDetach == Calls("mutex_detach") /\ \E m \in Live(Mutexes) : k' = MutexRemove(k, m, "detached")
MutexDelete == Calls("mutex_delete") /\ \E m \in Live(Mutexes) : k' = MutexRemove(k, m, "freed")

ThreadStart == Calls("start") /\ \E t \in Workers : k.stat[t] = "NONE" /\ k' = Start(k, t)
ThreadSuspend == Calls("suspend") /\ k' = rt_schedule(rt_thread_suspend(k, k.cur))
ThreadSleep == Calls("sleep") /\ k' = rt_thread_sleep(k)
\* a thread that waits for a mutex is resumed under "resume_any" only
ThreadResume == \E t \in Threads : /\ IF k.at[t] \in Mutexes THEN Calls("resume_any") ELSE Calls("resume")
                                   /\ k.stat[t] = "SUSPEND" /\ k' = rt_thread_resume(k, t)
\* rt_thread_control with RT_THREAD_CTRL_CLOSE, of a thread that owns no mutex
ThreadClose == /\ Calls("close")
               /\ \E t \in Threads \ {Idle} : /\ k.stat[t] \notin {"NONE", "CLOSE"} /\ k.taken[t] = {}
                                              /\ k' = rt_schedule(Kill(k, t))

\* the current thread returns from the call it waited in
Return ==
    /\ k.at[k.cur] # NULL /\ op' = "return" /\ UNCHANGED app
    /\ LET o == k.at[k.cur]
       IN k' = IF o \in Sems THEN SemReturn(k, o)
               ELSE IF o \in Mutexes THEN MutexReturn(k, o) ELSE SleepReturn(k)

\* "tick" stands for a port that calls rt_tick_increase; _thread_timeout ends
\* with rt_schedule (the woken kernel is bound, so that it is computed once
\* wherever fairness asks whether a timer can expire)
Expire(t) ==
    /\ "tick" \in app.calls /\ t \in k.timer /\ op' = "tick" /\ UNCHANGED app
    /\ \E woken \in {_thread_timeout(k, t)} : k' = rt_schedule(woken)

IpcNext ==
    /\ ~k.fault
    /\ \/ SemTake \/ SemTimedTake \/ SemRelease \/ SemControl \/ SemDelete
       \/ MutexTake \/ MutexTimedTake \/ MutexRelease \/ MutexCeiling \/ MutexDetach \/ MutexDelete
       \/ ThreadStart \/ ThreadSuspend \/ ThreadSleep \/ ThreadResume \/ ThreadClose
       \/ Return \/ Next
       \/ \E t \in Threads : Expire(t)

IpcSpec == IpcInit /\ [][IpcNext]_vars

\* a thread of an application that only yields does so again, and a started
\* timer expires some day if ticks come
IpcFairSpec ==
    /\ IpcSpec
    /\ WF_vars(app.calls = {"create", "startup", "yield"} /\ Yield)
    /\ \A t \in Threads \ {Idle} : WF_vars(Expire(t))

-----------------------------------------------------------------------------
(* Properties *)

\* The kernel's fields have their types; a semaphore and a hold count stay
\* within RT_SEM_VALUE_MAX and RT_MUTEX_HOLD_MAX.
IpcTypeOK ==
    /\ TypeOK
    /\ k.value \in [Sems -> 0 .. SemMax] /\ k.hold \in [Mutexes -> 0 .. HoldMax]
    /\ k.owner \in [Mutexes -> Threads \cup {NULL}] /\ k.mprio \in [Mutexes -> 0 .. NoPrio]
    /\ k.taken \in [Threads -> SUBSET Mutexes] /\ k.at \in [Threads -> Objects \cup {NULL, Sleep}]

\* The kernel stays consistent: counts stay within their limits, and the
\* tlist nodes agree with the statuses in the IPC lists too: whoever is
\* linked in the list of an object is suspended in its take call, is linked
\* once and nowhere else, and every thread suspended in a take call is linked
\* there; the list of a mutex is sorted by the waiters' current priorities,
\* through any chain of inherited priorities.
WaitersListed ==
    /\ IpcTypeOK
    /\ ListsAgree
    /\ \A t \in Threads, o \in Objects : Linked(t, o) = IF k.stat[t] = "SUSPEND" /\ k.at[t] = o THEN 1 ELSE 0
    /\ \A m \in Mutexes : \A i, j \in DOMAIN k.list[m] : i < j => k.prio[k.list[m][i]] <= k.prio[k.list[m][j]]

\* No token is lost or made up, whatever resumes, times out, resets or deletes
\* a waiter: the count of a semaphore is what was released less what the takes
\* that returned RT_EOK took and what woken takes are about to return with;
\* and nobody waits while the count is positive.
TokensConserved ==
    \A o \in Live(Sems) :
        /\ k.value[o] = k.net[o] - Cardinality({t \in Threads : Granted(k, t, o)})
        /\ k.value[o] > 0 => k.list[o] = <<>>

\* ONLY when rt_mutex_take returns RT_EOK the operation is successful: a thread
\* has returned from (or is about to return from) as many takes more than it
\* released as the mutex counts for its owner, every other thread none; a
\* mutex without an owner has no waiter; and a thread's taken_object_list holds
\* exactly the mutexes it owns.
OwnerHolds ==
    \A m \in Live(Mutexes) :
        /\ \A t \in Threads : /\ k.got[m][t] + (IF Granted(k, t, m) THEN 1 ELSE 0)
                                  = IF k.owner[m] = t THEN k.hold[m] ELSE 0
                              /\ m \in k.taken[t] <=> k.owner[m] = t
        /\ k.owner[m] = NULL => k.list[m] = <<>>

Inherited(t) == Min({k.base[t]} \cup {k.ceil[m] : m \in k.taken[t]}
                    \cup {k.prio[u] : u \in UNION {ToSet(k.list[m]) : m \in k.taken[t]}})

\* "prio at least be priority ceiling", and at least that of every waiter: a
\* thread runs with its own priority or the best one of the ceilings of its
\* mutexes and of the threads that wait for them, and never keeps a priority
\* whose reason is gone, unless a waiter is about to return with an error and
\* set it right.  This is for applications that leave current_priority to the
\* kernel, remove no mutex in use and set no ceiling: rt_mutex_release hands a
\* mutex over without lifting the new owner to the ceiling.
PriorityInherited ==
    /\ app.calls \cap {"control", "create", "mutex_ceiling", "mutex_detach", "mutex_delete"} = {}
    /\ \A t \in Threads : k.at[t] \in Mutexes => k.err[t] = "EOK"
    => \A t \in Threads : k.stat[t] \in {"READY", "RUNNING", "SUSPEND"} => k.prio[t] = Inherited(t)

\* No path of ipc.c reads a mutex that was deleted, or the owner of a mutex
\* that has none.  Two calls are known to: a waiter of a deleted mutex returns
\* through it, and so does a timed-out waiter that runs after the release.
NoBadRead == app.calls \cap {"mutex_delete", "tick"} = {} => ~k.fault

\* Nothing is used after it was freed: neither the thread that runs
\* (idle.c:147) nor, but for those two calls, a mutex some waiter comes back to
\* (ipc.c:1300).
NoUseAfterFree == CurrentExists /\ NoBadRead

\* rt_thread_sleep: "when the thread timer reaches the tick value, scheduler
\* will awaken this thread".
SleepEnds == \A t \in Threads \ {Idle} : (k.at[t] = Sleep /\ k.stat[t] = "SUSPEND") ~> (k.stat[t] # "SUSPEND")

=============================================================================
