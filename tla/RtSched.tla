------------------------------- MODULE RtSched -------------------------------
(***************************************************************************)
(* The single-processor scheduler of RT-Thread as the abstract-machine     *)
(* port builds it: the ready lists of src/scheduler_up.c and the thread    *)
(* operations of src/thread.c and src/idle.c.                              *)
(*                                                                         *)
(* The kernel is one record k:                                             *)
(*   cur    rt_current_thread                                              *)
(*   stat   the status of each thread ("NONE": no thread object)           *)
(*   yield  the threads whose status carries RT_THREAD_STAT_YIELD          *)
(*   prio   current_priority, 0 the most urgent                            *)
(*   list   every list a thread's tlist node can be in, from its head: the *)
(*          ready list of each priority, the defunct list, and the waiting *)
(*          lists of IPC objects (module RtIpc)                            *)
(*   group  the priorities whose bit is set in                             *)
(*          rt_thread_ready_priority_group                                 *)
(*   lock   rt_scheduler_lock_nest                                         *)
(*   timer  the threads whose thread_timer is started                      *)
(* A kernel function is an operator from a kernel to a kernel, so that a   *)
(* handler is the composition of the calls it makes.  The port takes no    *)
(* interrupt (iset does nothing, a context switch in an interrupt is       *)
(* assert(0)), so only the current thread acts, and a call is atomic.      *)
(***************************************************************************)
EXTENDS Integers, Sequences, FiniteSets, SequencesExt, FiniteSetsExt

CONSTANTS Workers,      \* the threads an application creates
          Main, Idle,   \* main_thread and tidle0, created by rtthread_startup
          Levels,       \* RT_THREAD_PRIORITY_MAX
          Defunct,      \* the head of _rt_thread_defunct
          Objects,      \* the IPC objects: each has a suspend_thread list
          LockMax,      \* bound: how deep rt_enter_critical is nested
          Applications  \* the operations each application calls, and on which objects

Threads == Workers \cup {Main, Idle}
Priorities == 0 .. Levels - 1

ASSUME LevelsAssumption == Levels \in Nat \ {0, 1} /\ LockMax \in Nat
ASSUME ThreadsAssumption == Main # Idle /\ Workers \cap {Main, Idle} = {}
ASSUME HeadsAssumption == ({Defunct} \cup Objects) \cap Priorities = {} /\ Defunct \notin Objects

VARIABLES k,
          app,     \* the application that runs
          op       \* the operation it called last

vars == <<k, app, op>>

Stats == {"NONE", "INIT", "READY", "RUNNING", "SUSPEND", "CLOSE"}

-----------------------------------------------------------------------------
(* Lists *)

\* a node is unlinked from whatever list holds it
rt_list_remove(s, t) == [s EXCEPT !.list = [h \in DOMAIN @ |-> RemoveFirst(@[h], t)]]

rt_list_insert_after(s, h, t) == [s EXCEPT !.list[h] = <<t>> \o @]
rt_list_insert_before(s, h, t) == [s EXCEPT !.list[h] = Append(@, t)]

-----------------------------------------------------------------------------
(* src/scheduler_up.c *)

\* Mutation: the bit of the priority is not set.
rt_schedule_insert_thread_no_mask(s, t) ==
    IF t = s.cur THEN [s EXCEPT !.stat[t] = "RUNNING"] ELSE
    rt_list_insert_after([s EXCEPT !.stat[t] = "READY"], s.prio[t], t)

rt_schedule_insert_thread(s, t) ==
    IF t = s.cur THEN [s EXCEPT !.stat[t] = "RUNNING"]
    ELSE LET ready == [s EXCEPT !.stat[t] = "READY", !.group = @ \cup {s.prio[t]}]
         IN IF t \in s.yield THEN rt_list_insert_before(ready, s.prio[t], t)
                             ELSE rt_list_insert_after(ready, s.prio[t], t)

rt_schedule_remove_thread(s, t) ==
    LET out == rt_list_remove(s, t)
    IN IF out.list[s.prio[t]] = <<>> THEN [out EXCEPT !.group = @ \ {s.prio[t]}] ELSE out

\* Mutation: the YIELD bit is not looked at.
StaysOn_yielded(s, highest) == s.stat[s.cur] = "RUNNING" /\ s.prio[s.cur] <= highest

\* the current thread goes on: it is more urgent than every ready thread, or
\* as urgent and did not yield
StaysOn(s, highest) ==
    /\ s.stat[s.cur] = "RUNNING"
    /\ \/ s.prio[s.cur] < highest
       \/ s.prio[s.cur] = highest /\ s.cur \notin s.yield

\* The YIELD bit of a running thread is cleared before it is put back in its
\* ready list, as in the code.
rt_schedule(s) ==
    IF s.lock # 0 \/ s.group = {} THEN s
    ELSE LET highest == Min(s.group)
             running == s.stat[s.cur] = "RUNNING"
             to      == IF StaysOn(s, highest) THEN s.cur ELSE Head(s.list[highest])
             chosen  == [s EXCEPT !.yield = IF running THEN @ \ {s.cur} ELSE @, !.cur = to]
             put     == IF running /\ to # s.cur THEN rt_schedule_insert_thread(chosen, s.cur)
                                                 ELSE chosen
         IN [rt_schedule_remove_thread(put, to) EXCEPT !.stat[to] = "RUNNING"]

-----------------------------------------------------------------------------
(* src/thread.c and src/idle.c *)

\* _thread_init: status INIT, both priorities set, no list, no timer
_thread_init(s, t, p) == [s EXCEPT !.stat[t] = "INIT", !.prio[t] = p, !.yield = @ \ {t}]

\* Mutation: the thread is not taken off the list it waits in.
rt_thread_resume_linked(s, t) ==
    IF s.stat[t] # "SUSPEND" THEN s
    ELSE rt_schedule_insert_thread([s EXCEPT !.timer = @ \ {t}], t)

rt_thread_resume(s, t) ==
    IF s.stat[t] # "SUSPEND" THEN s
    ELSE rt_schedule_insert_thread([rt_list_remove(s, t) EXCEPT !.timer = @ \ {t}], t)

rt_thread_suspend(s, t) ==
    IF s.stat[t] \notin {"READY", "RUNNING"} THEN s
    ELSE [rt_schedule_remove_thread(s, t) EXCEPT !.stat[t] = "SUSPEND", !.timer = @ \ {t}]

rt_thread_startup(s, t) == rt_schedule(rt_thread_resume([s EXCEPT !.stat[t] = "SUSPEND"], t))

rt_thread_defunct_enqueue(s, t) == rt_list_insert_after(s, Defunct, t)

\* the part of rt_thread_delete and rt_thread_detach before the mutex the
\* thread waits for is looked at
Close(s, t) ==
    LET out == IF s.stat[t] = "INIT" THEN s ELSE rt_schedule_remove_thread(s, t)
    IN [out EXCEPT !.stat[t] = "CLOSE", !.yield = @ \ {t}, !.timer = @ \ {t}]

rt_thread_delete(s, t) ==
    IF s.stat[t] = "CLOSE" THEN s ELSE rt_thread_defunct_enqueue(Close(s, t), t)

rt_thread_yield(s) == rt_schedule([s EXCEPT !.yield = @ \cup {s.cur}])

\* rt_thread_control with RT_THREAD_CTRL_CHANGE_PRIORITY: a ready thread
\* changes its list
ChangePriority(s, t, p) ==
    IF s.stat[t] = "READY"
    THEN rt_schedule_insert_thread([rt_schedule_remove_thread(s, t) EXCEPT !.prio[t] = p], t)
    ELSE [s EXCEPT !.prio[t] = p]

\* rt_defunct_execute: every dead thread is taken off the list and freed
rt_defunct_execute(s) ==
    [s EXCEPT !.stat = [t \in Threads |-> IF t \in ToSet(s.list[Defunct]) THEN "NONE" ELSE @[t]],
              !.list[Defunct] = <<>>]

rt_enter_critical(s) == [s EXCEPT !.lock = @ + 1]

rt_exit_critical(s) ==
    IF s.lock > 1 THEN [s EXCEPT !.lock = @ - 1] ELSE rt_schedule([s EXCEPT !.lock = 0])

-----------------------------------------------------------------------------
(* The system: rtthread_startup has started main and idle and switched to  *)
(* main, the more urgent of the two.                                       *)

Boot == [cur   |-> Main,
         stat  |-> [t \in Threads |-> CASE t = Main -> "RUNNING" [] t = Idle -> "READY" [] OTHER -> "NONE"],
         yield |-> {},
         prio  |-> [t \in Threads |-> IF t = Main THEN Levels \div 2 ELSE Levels - 1],
         list  |-> [h \in Priorities \cup {Defunct} \cup Objects |->
                        IF h = Levels - 1 THEN <<Idle>> ELSE <<>>],
         group |-> {Levels - 1},
         lock  |-> 0,
         timer |-> {}]

Init == k = Boot /\ app \in Applications /\ op = "boot"

\* the application (any thread but idle, whose loop calls rt_defunct_execute
\* only) calls an operation
Call(name) == name \in app.calls /\ k.cur # Idle /\ op' = name /\ UNCHANGED app

Create == /\ Call("create")
          /\ \E t \in Workers, p \in Priorities : k.stat[t] = "NONE" /\ k' = _thread_init(k, t, p)

Startup == Call("startup") /\ \E t \in Workers : k.stat[t] = "INIT" /\ k' = rt_thread_startup(k, t)

Yield == Call("yield") /\ k' = rt_thread_yield(k)

\* a thread suspends itself, and asks for a schedule as the comment of
\* rt_thread_suspend demands
Suspend == Call("thread_suspend") /\ k' = rt_schedule(rt_thread_suspend(k, k.cur))

Resume == Call("thread_resume") /\ \E t \in Threads : k.stat[t] # "NONE" /\ k' = rt_thread_resume(k, t)

Control == /\ Call("control")
           /\ \E t \in Threads \ {Idle}, p \in Priorities :
                  k.stat[t] \notin {"NONE", "CLOSE"} /\ k' = ChangePriority(k, t, p)

Delete == /\ Call("thread_delete")
          /\ \E t \in Threads \ {Idle} : k.stat[t] # "NONE" /\ k' = rt_thread_delete(k, t)

\* rt_thread_control with RT_THREAD_CTRL_CLOSE
ControlClose == /\ Call("thread_close")
                /\ \E t \in Threads \ {Idle} :
                       k.stat[t] # "NONE" /\ k' = rt_schedule(rt_thread_delete(k, t))

\* the thread's entry returns and wrapper_func calls _thread_exit (with the
\* scheduler unlocked: otherwise the switch away does not happen)
Exit == /\ Call("exit") /\ k.lock = 0
        /\ k' = rt_schedule(rt_thread_defunct_enqueue(Close(k, k.cur), k.cur))

EnterCritical == Call("enter") /\ k.lock < LockMax /\ k' = rt_enter_critical(k)
ExitCritical == Call("leave") /\ k.lock > 0 /\ k' = rt_exit_critical(k)

IdleLoop == k.cur = Idle /\ op' = "idle" /\ UNCHANGED app /\ k' = rt_defunct_execute(k)

Next == \/ Create \/ Startup \/ Yield \/ Suspend \/ Resume \/ Control \/ Delete
        \/ ControlClose \/ Exit \/ EnterCritical \/ ExitCritical \/ IdleLoop

Spec == Init /\ [][Next]_vars

-----------------------------------------------------------------------------
(* Properties *)

\* Every field of the kernel has its type; the lock count stays in its bound.
TypeOK ==
    /\ k.cur \in Threads /\ k.stat \in [Threads -> Stats] /\ k.prio \in [Threads -> Priorities]
    /\ k.yield \subseteq Threads /\ k.timer \subseteq Threads
    /\ k.group \subseteq Priorities /\ k.lock \in 0 .. LockMax
    /\ DOMAIN k.list = Priorities \cup {Defunct} \cup Objects
    /\ \A h \in DOMAIN k.list : ToSet(k.list[h]) \subseteq Threads

Linked(t, h) == Cardinality({i \in DOMAIN k.list[h] : k.list[h][i] = t})

\* After any sequence of calls the tlist nodes and the bitmap agree with the
\* statuses: a ready thread is linked once, in the list of its current
\* priority, a closed one once in the defunct list, a thread that is running,
\* not started or gone in none, a suspended one in no kernel list; a priority
\* has its bit exactly when its list is not empty (scheduler_up.c relies on
\* it when it takes the head of the list of the lowest bit set).
ListsAgree ==
    /\ \A p \in Priorities : p \in k.group <=> k.list[p] # <<>>
    /\ \A t \in Threads, h \in Priorities \cup {Defunct} :
           Linked(t, h) = IF \/ k.stat[t] = "READY" /\ h = k.prio[t]
                             \/ k.stat[t] = "CLOSE" /\ h = Defunct
                          THEN 1 ELSE 0

\* The calls that end with rt_schedule.
Rescheduling == {"startup", "yield", "thread_suspend", "thread_close", "exit", "leave",
                 "start", "suspend", "sleep", "close"}

\* "It will select one thread with the highest priority, and switch to it
\* immediately": after a call that ends with rt_schedule, with the scheduler
\* unlocked, the current thread is the only running one and no ready thread
\* is more urgent.
HighestRuns ==
    op \in Rescheduling /\ k.lock = 0 =>
        /\ \A t \in Threads : k.stat[t] = "RUNNING" <=> t = k.cur
        /\ \A t \in Threads : k.stat[t] = "READY" => k.prio[k.cur] <= k.prio[t]

\* The thread on the processor is never one whose stack and object the idle
\* thread has freed, however it was deleted or closed.
CurrentExists == k.stat[k.cur] # "NONE"

MostUrgent(t) == /\ k.stat[t] = "READY"
                 /\ \A u \in Threads : k.stat[u] \in {"READY", "RUNNING"} => k.prio[t] <= k.prio[u]

\* rt_thread_yield: "scheduler will choose the highest thread to run".  In an
\* application that creates threads and otherwise only yields, each of two
\* threads of the highest priority runs again and again.  With a third one
\* this is lost: rt_schedule clears the YIELD bit before the thread is put
\* back, so it goes to the front of its list and two threads alternate for
\* ever.
YieldShares ==
    \A t \in Threads \ {Idle} :
        app.calls = {"create", "startup", "yield"} /\ MostUrgent(t)
            ~> \/ k.cur = t \/ ~MostUrgent(t)
               \/ \E u, v \in Threads \ {t} : u # v /\ MostUrgent(u) /\ v = k.cur

=============================================================================
