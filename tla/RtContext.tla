------------------------------ MODULE RtContext ------------------------------
(***************************************************************************)
(* How the abstract-machine port of RT-Thread switches threads             *)
(* (bsp/abstract-machine/src/context.c) with nothing but the self-trap     *)
(* yield() of the abstract machine (am/src/riscv/npc/cte.c, trap.S).       *)
(*                                                                         *)
(* rt_hw_context_switch tells the trap handler what to do through          *)
(* user_data of rt_thread_self(), in which it leaves a pointer to an array *)
(* on the caller's stack.  rt_schedule has set rt_current_thread to the    *)
(* target by then, so the field borrowed is the target's; the old value    *)
(* is put back by whoever switched, when it runs again: over a store made  *)
(* since, and, when switches nest, possibly a pointer into a call that has *)
(* returned.  So user_data is not among what a switch preserves.           *)
(*                                                                         *)
(*   cur   rt_current_thread                                               *)
(*   cpu   the context the processor runs: on whose stack, where, and a    *)
(*         register a thread computes with                                 *)
(*   sp    what thread->sp points to: the context saved last, or NoContext *)
(*   ud    user_data: <<"user", v>>, or <<"frame", t>> for the array in    *)
(*         the switch call on t's stack                                    *)
(*   frame the locals of that call: the array, current and user_data_bnk   *)
(* ghost: reg, what each thread last computed.                             *)
(***************************************************************************)
EXTENDS Integers

CONSTANTS Threads, Boot, Values, NoContext, NoFrame

ASSUME BootAssumption == Boot \notin Threads /\ 0 \in Values

VARIABLES cur, cpu, sp, ud, frame, reg

ctxVars == <<cur, cpu, sp, ud, frame, reg>>

\* user_data, and the locals of a switch call
UserData == ({"user"} \X Values) \cup ({"frame"} \X (Threads \cup {Boot}))
ContextFrames == [to : Threads, from : Threads \cup {Boot}, who : Threads, bnk : UserData]

Context == [on : Threads \cup {Boot}, pc : {"entry", "ecall", "after"}, val : Values]

\* a null pointer is neither a context nor an array
ASSUME NullAssumption == NoContext \notin Context /\ NoFrame \notin ContextFrames

-----------------------------------------------------------------------------
\* kcontext and rt_hw_stack_init: a new thread starts in wrapper_func on its
\* own stack
kcontext(t) == [on |-> t, pc |-> "entry", val |-> 0]

\* the trap of yield() is an ecall: mepc moves past it
__am_irq_handle(c) == [c EXCEPT !.pc = "after"]

\* the array the handler finds through user_data of the current thread; a
\* value that is no pointer to an array would be read as one
FromTo(u, f, t) == IF u[t][1] = "frame" THEN f[u[t][2]] ELSE NoFrame

\* Mutation: the context is stored over the target's.
Saved_in_target(s, ft, c) == [s EXCEPT ![ft.to] = c]

\* EVENT_YIELD in ev_handler: *from = c unless from is 0, then c = *to
Saved(s, ft, c) == IF ft.from = Boot THEN s ELSE [s EXCEPT ![ft.from] = c]

\* the thread whose user_data is borrowed: rt_thread_self() during the switch
Borrowed(from, to) == to

\* the resumed thread leaves its own switch call and puts user_data_bnk back
Restored(u, f, c) ==
    IF c.pc = "after" THEN [u EXCEPT ![f[c.on].who] = f[c.on].bnk] ELSE u

\* rt_hw_context_switch(from, to) up to the end of the call the target left
rt_hw_context_switch(from, to) ==
    LET who   == Borrowed(from, to)
        u     == [ud EXCEPT ![who] = <<"frame", from>>]
        f     == [frame EXCEPT ![from] = [to |-> to, from |-> from, who |-> who, bnk |-> ud[who]]]
        ft    == FromTo(u, f, to)
        c     == __am_irq_handle([cpu EXCEPT !.on = from, !.pc = "ecall"])
    IN IF ft = NoFrame
       THEN cpu' = NoContext /\ UNCHANGED <<sp, ud, frame>>
       ELSE LET s == Saved(sp, ft, c)
            IN /\ cpu' = s[ft.to]
               /\ sp' = s /\ frame' = f
               /\ ud' = Restored(u, f, s[ft.to])

-----------------------------------------------------------------------------
CtxInit ==
  /\ cur = Boot /\ cpu = kcontext(Boot)
  /\ sp = [t \in Threads |-> NoContext]
  /\ ud = [t \in Threads |-> <<"user", 0>>]
  /\ frame = [t \in Threads \cup {Boot} |-> NoFrame]
  /\ reg = [t \in Threads |-> 0]

\* _thread_init, by the boot code or by a running thread
Create(t) == /\ sp[t] = NoContext /\ t # cur
             /\ sp' = [sp EXCEPT ![t] = kcontext(t)]
             /\ UNCHANGED <<cur, cpu, ud, frame, reg>>

\* rt_system_scheduler_start, once, and rt_schedule: to a thread that is not
\* running
Switch(to) == /\ to # cur /\ sp[to] # NoContext
              /\ cur' = to
              /\ rt_hw_context_switch(cur, to)
              /\ UNCHANGED reg

\* the thread computes, or stores its user_data
Compute(v) == /\ cur # Boot
              /\ cpu' = [cpu EXCEPT !.val = v] /\ reg' = [reg EXCEPT ![cur] = v]
              /\ UNCHANGED <<cur, sp, ud, frame>>

Store(v) == /\ cur # Boot
            /\ ud' = [ud EXCEPT ![cur] = <<"user", v>>]
            /\ UNCHANGED <<cur, cpu, sp, frame, reg>>

CtxNext ==
  \/ \E t \in Threads : Create(t) \/ Switch(t)
  \/ \E v \in Values : Compute(v) \/ Store(v)

CtxSpec == CtxInit /\ [][CtxNext]_ctxVars

-----------------------------------------------------------------------------
(* Properties *)

\* Contexts and pointers have their types.
CtxTypeOK ==
  /\ cur \in Threads \cup {Boot} /\ cpu \in Context
  /\ sp \in [Threads -> Context \cup {NoContext}]
  /\ \A t \in Threads : \/ ud[t][1] = "user" /\ ud[t][2] \in Values
                        \/ ud[t][1] = "frame" /\ ud[t][2] \in Threads \cup {Boot}

\* After any order of switches the processor runs the current thread, on that
\* thread's stack, past the trap it left by, with the register the thread last
\* computed: the array read through the borrowed user_data is never that of an
\* older switch.
RunsWhereItLeft ==
    cur # Boot => cpu.on = cur /\ cpu.pc # "ecall" /\ cpu.val = reg[cur]

\* A thread that is not running has the context that brings it back to its own
\* stack.
SavedContexts ==
    \A t \in Threads \ {cur} : sp[t] # NoContext => sp[t].on = t /\ sp[t].val = reg[t]


\* No order of switches costs a thread its registers, its stack or its place
\* (context.c:28, cte.c:7).
ContextsKept == CtxTypeOK /\ RunsWhereItLeft /\ SavedContexts
=============================================================================
