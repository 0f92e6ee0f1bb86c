-------------------------- MODULE Platform_proofs ---------------------------
(***************************************************************************)
(* Proofs about the platform RT-Thread runs on: the switch of contexts     *)
(* through the abstract machine (RtContext), for any set of threads, its   *)
(* heap (RtMem), for every size, alignment and sequence of calls, and the  *)
(* keyboard of the chip it runs on (SocPs2), for every sequence of keys,   *)
(* length of the fifo and timing of the bus.                               *)
(***************************************************************************)
EXTENDS RtContext, RtMem, SocPs2, WellFoundedInduction, FiniteSetTheorems, TLAPS

-----------------------------------------------------------------------------
(* Contexts: a thread continues with the registers and the stack it left.  *)

(* Registers, saved contexts and frames have their types.                  *)
CtxTypes ==
  /\ cur \in Threads \cup {Boot} /\ cpu \in Context
  /\ sp \in [Threads -> Context \cup {NoContext}]
  /\ ud \in [Threads -> UserData]
  /\ frame \in [Threads \cup {Boot} -> ContextFrames \cup {NoFrame}]
  /\ reg \in [Threads -> Values]

(* The processor runs the current thread; a thread that waits has a        *)
(* context of its own; one that left through a switch has the locals of    *)
(* that call; one not created yet has computed nothing.                    *)
Kept ==
  /\ cpu.on = cur /\ cpu.pc # "ecall"
  /\ cur # Boot => cpu.val = reg[cur] /\ sp[cur] # NoContext
  /\ \A t \in Threads \ {cur} : sp[t] # NoContext =>
       /\ sp[t].on = t /\ sp[t].pc # "ecall" /\ sp[t].val = reg[t]
       /\ sp[t].pc = "after" => frame[t] # NoFrame
  /\ \A t \in Threads : sp[t] = NoContext => reg[t] = 0

(* The inductive invariant of the switch.                                  *)
CtxInv == CtxTypes /\ Kept

(* Before the first switch no thread has a context.                        *)
LEMMA CtxStarts == CtxInit => CtxInv
<1> SUFFICES ASSUME CtxInit PROVE CtxInv
  OBVIOUS
<1>1. <<"user", 0>> \in UserData
  BY BootAssumption DEF UserData
<1>2. cpu \in Context
  BY BootAssumption DEF CtxInit, kcontext, Context
<1>3. CtxTypes
  BY <1>1, <1>2, BootAssumption DEF CtxInit, CtxTypes
<1>4. Kept
  BY BootAssumption DEF CtxInit, Kept, kcontext
<1> QED
  BY <1>3, <1>4 DEF CtxInv

(* rt_hw_stack_init builds the context of a new thread.                    *)
LEMMA CtxCreate ==
  ASSUME CtxInv, NEW t \in Threads, Create(t) PROVE CtxInv'
<1>1. kcontext(t) \in Context /\ kcontext(t).on = t /\ kcontext(t).pc = "entry" /\ kcontext(t).val = 0
  BY BootAssumption DEF kcontext, Context
<1>2. kcontext(t) # NoContext
  BY <1>1, NullAssumption
<1>3. CtxTypes'
  BY <1>1 DEF Create, CtxInv, CtxTypes
<1>4. Kept'
  BY <1>1, <1>2 DEF Create, CtxInv, CtxTypes, Kept
<1> QED
  BY <1>3, <1>4 DEF CtxInv

(* A switch parks its arguments in the user_data of the target thread,     *)
(* traps, and restores that user_data: it saves the thread it leaves and   *)
(* loads the one it enters.                                                *)
LEMMA CtxSwitch ==
  ASSUME CtxInv, NEW to \in Threads, Switch(to) PROVE CtxInv'
<1> DEFINE u  == [ud EXCEPT ![to] = <<"frame", cur>>]
           fr == [to |-> to, from |-> cur, who |-> to, bnk |-> ud[to]]
           f  == [frame EXCEPT ![cur] = fr]
           c  == [cpu EXCEPT !.on = cur, !.pc = "after"]
           s  == IF cur = Boot THEN sp ELSE [sp EXCEPT ![cur] = c]
<1>1. /\ to # cur /\ sp[to] # NoContext /\ cur' = to /\ reg' = reg
      /\ rt_hw_context_switch(cur, to)
  BY DEF Switch
<1>2. /\ fr \in ContextFrames /\ fr # NoFrame /\ u \in [Threads -> UserData]
      /\ f \in [Threads \cup {Boot} -> ContextFrames \cup {NoFrame}]
  <2>1. <<"frame", cur>> \in UserData
    BY DEF CtxInv, CtxTypes, UserData
  <2>2. ud[to] \in UserData
    BY DEF CtxInv, CtxTypes
  <2>3. fr \in ContextFrames
    BY <2>2 DEF CtxInv, CtxTypes, ContextFrames
  <2> QED
    BY <2>1, <2>3, NullAssumption DEF CtxInv, CtxTypes
<1>3. FromTo(u, f, to) = fr
  <2>1. u[to] = <<"frame", cur>> /\ f[cur] = fr
    BY DEF CtxInv, CtxTypes
  <2> QED
    BY <2>1 DEF FromTo
<1>4. __am_irq_handle([cpu EXCEPT !.on = cur, !.pc = "ecall"]) = c
  BY DEF __am_irq_handle, CtxInv, CtxTypes, Context
<1>5. Saved(sp, fr, c) = s /\ s[to] = sp[to]
  BY <1>1 DEF Saved, CtxInv, CtxTypes
<1>6. /\ cpu' = sp[to] /\ sp' = s /\ frame' = f
      /\ ud' = Restored(u, f, sp[to])
  <2>1. fr.to = to
    OBVIOUS
  <2>2. LET ft == FromTo(u, f, to)
            cx == __am_irq_handle([cpu EXCEPT !.on = cur, !.pc = "ecall"])
            sx == Saved(sp, ft, cx)
        IN ft # NoFrame => /\ cpu' = sx[ft.to] /\ sp' = sx /\ frame' = f
                           /\ ud' = Restored(u, f, sx[ft.to])
    BY <1>1 DEF rt_hw_context_switch, Borrowed
  <2> HIDE DEF u, fr, f, c, s
  <2> QED
    BY <1>2, <1>3, <1>4, <1>5, <2>1, <2>2
<1> HIDE DEF u, fr, f
<1>7. c \in Context /\ c.on = cur /\ c.pc = "after" /\ c.val = cpu.val
  BY DEF CtxInv, CtxTypes, Context
<1>8. sp[to] \in Context /\ sp[to].on = to
  BY <1>1 DEF CtxInv, CtxTypes, Kept
<1>9. ud' \in [Threads -> UserData]
  <2>1. CASE sp[to].pc = "after"
    <3>1. f[to] = frame[to] /\ frame[to] \in ContextFrames
      BY <1>1, <2>1 DEF f, CtxInv, CtxTypes, Kept
    <3>2. frame[to].bnk \in UserData
      BY <3>1 DEF ContextFrames
    <3> QED
      BY <1>2, <1>6, <1>8, <2>1, <3>1, <3>2 DEF Restored
  <2>2. CASE sp[to].pc # "after"
    BY <1>2, <1>6, <2>2 DEF Restored
  <2> QED
    BY <2>1, <2>2
<1>10. CtxTypes'
  BY <1>1, <1>2, <1>6, <1>7, <1>8, <1>9 DEF CtxInv, CtxTypes
<1>11. c # NoContext
  BY <1>7, NullAssumption
<1>12. cur # Boot => cur \in Threads /\ s[cur] = c /\ f[cur] = fr
  BY DEF CtxInv, CtxTypes, f
<1>13. \A t \in Threads \ {cur} : s[t] = sp[t] /\ f[t] = frame[t]
  BY DEF CtxInv, CtxTypes, f
<1> HIDE DEF s, c
<1>14. Kept'
  <2>1. cpu'.on = cur' /\ cpu'.pc # "ecall" /\ cpu'.val = reg'[cur'] /\ sp'[cur'] # NoContext
    BY <1>1, <1>6, <1>8, <1>13 DEF CtxInv, Kept
  <2>2. ASSUME NEW t \in Threads \ {cur'}, sp'[t] # NoContext
        PROVE /\ sp'[t].on = t /\ sp'[t].pc # "ecall" /\ sp'[t].val = reg'[t]
              /\ sp'[t].pc = "after" => frame'[t] # NoFrame
    <3>1. CASE t = cur
      BY <1>1, <1>2, <1>6, <1>7, <1>12, <3>1, BootAssumption DEF CtxInv, Kept
    <3>2. CASE t # cur
      BY <1>1, <1>6, <1>13, <2>2, <3>2 DEF CtxInv, Kept
    <3> QED
      BY <3>1, <3>2
  <2>3. \A t \in Threads : sp'[t] = NoContext => reg'[t] = 0
    BY <1>1, <1>6, <1>11, <1>12, <1>13, BootAssumption DEF CtxInv, Kept
  <2> QED
    BY <2>1, <2>2, <2>3 DEF Kept
<1> QED
  BY <1>10, <1>14 DEF CtxInv

(* The running thread computes, or stores its user_data.                   *)
LEMMA CtxRun ==
  ASSUME CtxInv, NEW v \in Values, Compute(v) \/ Store(v) PROVE CtxInv'
<1>1. ASSUME Compute(v) PROVE CtxInv'
  <2>1. cpu' \in Context /\ cpu'.on = cpu.on /\ cpu'.pc = cpu.pc /\ cpu'.val = v
    BY <1>1 DEF Compute, CtxInv, CtxTypes, Context
  <2>2. CtxTypes'
    BY <1>1, <2>1 DEF Compute, CtxInv, CtxTypes
  <2>3. Kept'
    BY <1>1, <2>1 DEF Compute, CtxInv, CtxTypes, Kept
  <2> QED
    BY <2>2, <2>3 DEF CtxInv
<1>2. ASSUME Store(v) PROVE CtxInv'
  <2>1. <<"user", v>> \in UserData
    BY DEF UserData
  <2> QED
    BY <1>2, <2>1 DEF Store, CtxInv, CtxTypes, Kept
<1> QED
  BY <1>1, <1>2

(* Whatever the order of creations, switches and stores to user_data, the  *)
(* running thread has the registers it left with, on its own stack, and    *)
(* every waiting thread's saved context is its own (context.c of the       *)
(* port).  The value of user_data is not among what is kept.               *)
THEOREM ContextsNeverLost == CtxSpec => []ContextsKept
<1>1. CtxInv /\ [CtxNext]_ctxVars => CtxInv'
  <2> SUFFICES ASSUME CtxInv, [CtxNext]_ctxVars PROVE CtxInv'
    OBVIOUS
  <2>1. CASE UNCHANGED ctxVars
    BY <2>1 DEF ctxVars, CtxInv, CtxTypes, Kept
  <2> QED
    BY <2>1, CtxCreate, CtxSwitch, CtxRun DEF CtxNext
<1>2. ASSUME CtxInv PROVE ContextsKept
  <2>1. CtxTypeOK
    BY <1>2 DEF CtxInv, CtxTypes, CtxTypeOK, UserData
  <2>2. RunsWhereItLeft /\ SavedContexts
    BY <1>2 DEF CtxInv, Kept, RunsWhereItLeft, SavedContexts
  <2> QED
    BY <2>1, <2>2 DEF ContextsKept
<1> QED
  BY <1>1, <1>2, CtxStarts, PTL DEF CtxSpec

-----------------------------------------------------------------------------
(* The heap. Numbers: least elements and alignment.                        *)

(* A set of natural numbers that is not empty has a least element.         *)
LEMMA LeastNat ==
  ASSUME NEW T \in SUBSET Nat, T # {}
  PROVE  \E x \in T : \A y \in T : x <= y
<1> DEFINE R == OpToRel(<, Nat)
<1>1. IsWellFoundedOn(R, Nat)
  BY NatLessThanWellFounded
<1>2. \A x, y \in Nat : x < y => <<x, y>> \in R
  BY DEF OpToRel
<1> HIDE DEF R
<1>3. PICK x \in T : \A y \in T : <<y, x>> \notin R
  BY <1>1, WFMin
<1>4. ASSUME NEW y \in T PROVE x <= y
  <2>1. x \in Nat /\ y \in Nat /\ ~(y < x)
    BY <1>2, <1>3
  <2> QED
    BY <2>1
<1> QED
  BY <1>3, <1>4

(* Min is that element.                                                    *)
LEMMA MinimumOf ==
  ASSUME NEW T \in SUBSET Nat, T # {}
  PROVE  Min(T) \in T /\ \A y \in T : Min(T) <= y
<1>1. \E x \in T : \A y \in T : x <= y
  BY LeastNat
<1> QED
  BY <1>1 DEF Min

(* Max of two numbers is the larger one.                                   *)
LEMMA MaximumOf ==
  ASSUME NEW x \in Nat, NEW y \in Nat
  PROVE  Max({x, y}) = IF x >= y THEN x ELSE y
<1> DEFINE m == IF x >= y THEN x ELSE y
<1>1. m \in {x, y} /\ \A z \in {x, y} : m >= z
  OBVIOUS
<1>2. Max({x, y}) \in {x, y} /\ \A z \in {x, y} : Max({x, y}) >= z
  BY <1>1 DEF Max
<1> QED
  BY <1>2

(* Aligned addresses and sizes.                                            *)
Aligned(x) == x % RT_ALIGN_SIZE = 0

(* What the assumption says of each parameter.                             *)
LEMMA MemParameters ==
  /\ RT_ALIGN_SIZE \in Nat /\ RT_ALIGN_SIZE > 0 /\ MIN_SIZE \in Nat /\ MIN_SIZE > 0
  /\ SIZEOF_STRUCT_MEM \in Nat /\ SIZEOF_STRUCT_MEM > 0
  /\ mem_size_aligned \in Nat /\ mem_size_aligned > 0
  /\ heap_end \in Nat /\ heap_end = mem_size_aligned + SIZEOF_STRUCT_MEM
  /\ Aligned(SIZEOF_STRUCT_MEM) /\ Aligned(mem_size_aligned) /\ Aligned(0)
  /\ Sizes \subseteq Nat /\ NoMem \notin Nat
<1>1. /\ RT_ALIGN_SIZE \in Nat \ {0} /\ MIN_SIZE \in Nat \ {0} /\ SIZEOF_STRUCT_MEM \in Nat \ {0}
      /\ mem_size_aligned \in Nat \ {0}
  BY MemAssumption
<1>2. Aligned(SIZEOF_STRUCT_MEM) /\ Aligned(mem_size_aligned) /\ Sizes \subseteq Nat /\ NoMem \notin Nat
  BY MemAssumption DEF Aligned
<1>3. Aligned(0)
  BY <1>1 DEF Aligned
<1> QED
  BY <1>1, <1>2, <1>3 DEF heap_end

(* To be aligned is to be a multiple.                                      *)
LEMMA Multiple ==
  ASSUME NEW x \in Int
  PROVE  Aligned(x) <=> \E q \in Int : x = q * RT_ALIGN_SIZE
<1>0. RT_ALIGN_SIZE \in Nat /\ RT_ALIGN_SIZE > 0
  BY MemParameters
<1>1. ASSUME Aligned(x) PROVE \E q \in Int : x = q * RT_ALIGN_SIZE
  <2>1. x \div RT_ALIGN_SIZE \in Int /\ x = RT_ALIGN_SIZE * (x \div RT_ALIGN_SIZE) + (x % RT_ALIGN_SIZE)
    BY <1>0
  <2> QED
    BY <1>0, <1>1, <2>1 DEF Aligned
<1>2. ASSUME NEW q \in Int, x = q * RT_ALIGN_SIZE PROVE Aligned(x)
  <2>1. (q * RT_ALIGN_SIZE) % RT_ALIGN_SIZE = 0
    BY <1>0
  <2> QED
    BY <1>2, <2>1 DEF Aligned
<1> QED
  BY <1>1, <1>2

(* Sums of multiples are multiples.                                        *)
LEMMA AlignedSum ==
  ASSUME NEW x \in Int, NEW y \in Int, Aligned(x), Aligned(y)
  PROVE  Aligned(x + y)
<1>0. RT_ALIGN_SIZE \in Nat /\ RT_ALIGN_SIZE > 0
  BY MemParameters
<1>1. PICK q \in Int : x = q * RT_ALIGN_SIZE
  BY Multiple
<1>2. PICK r \in Int : y = r * RT_ALIGN_SIZE
  BY Multiple
<1>3. x + y = (q + r) * RT_ALIGN_SIZE
  BY <1>0, <1>1, <1>2
<1> QED
  BY <1>3, Multiple

(* RT_ALIGN rounds up to the next multiple, and leaves multiples, 0 among  *)
(* them, as they are.                                                      *)
LEMMA RoundedUp ==
  ASSUME NEW x \in Nat
  PROVE  /\ RT_ALIGN(x) \in Nat /\ Aligned(RT_ALIGN(x))
         /\ x <= RT_ALIGN(x) /\ RT_ALIGN(x) < x + RT_ALIGN_SIZE
         /\ Aligned(x) => RT_ALIGN(x) = x
         /\ RT_ALIGN(x) = 0 <=> x = 0
<1> DEFINE d == RT_ALIGN_SIZE  y == x + RT_ALIGN_SIZE - 1  q == y \div d
<1>0. d \in Nat /\ d > 0
  BY MemParameters
<1>1. y \in Nat /\ q \in Int /\ y = d * q + (y % d) /\ y % d \in 0 .. d - 1
  BY <1>0
<1>2. RT_ALIGN(x) = q * d
  BY DEF RT_ALIGN
<1>3. q * d \in Int /\ q * d = y - (y % d)
  BY <1>0, <1>1
<1>4. Aligned(RT_ALIGN(x))
  BY <1>1, <1>2, <1>3, Multiple
<1>5. x <= RT_ALIGN(x) /\ RT_ALIGN(x) < x + d /\ RT_ALIGN(x) \in Nat
  <2>1. y % d \in Int /\ y % d >= 0 /\ y % d < d
    BY <1>0, <1>1
  <2> QED
    BY <1>0, <1>2, <1>3, <2>1
<1>6. ASSUME Aligned(x) PROVE RT_ALIGN(x) = x
  <2>1. PICK r \in Int : x = r * d
    BY <1>6, Multiple
  <2>2. r * d <= q * d /\ q * d < (r + 1) * d
    BY <1>0, <1>2, <1>5, <2>1
  <2>3. ~(r < q) /\ ~(q < r)
    <3>1. ASSUME r < q PROVE FALSE
      <4>1. (q - (r + 1)) * d >= 0
        BY <1>0, <1>1, <3>1
      <4> QED
        BY <1>0, <1>1, <2>2, <4>1
    <3>2. ASSUME q < r PROVE FALSE
      <4>1. (r - q) * d > 0
        BY <1>0, <1>1, <3>2
      <4> QED
        BY <1>0, <1>1, <2>2, <4>1
    <3> QED
      BY <3>1, <3>2
  <2> QED
    BY <1>1, <1>2, <2>1, <2>3
<1>7. RT_ALIGN(x) = 0 <=> x = 0
  <2>1. ASSUME x = 0 PROVE RT_ALIGN(x) = 0
    BY <1>6, <2>1, MemParameters
  <2> QED
    BY <1>5, <2>1
<1> QED
  BY <1>4, <1>5, <1>6, <1>7

-----------------------------------------------------------------------------
(* The chain of items, and what joining two items does to it.              *)

(* The header of an item.                                                  *)
Entry == [used : BOOLEAN, next : Offsets, prev : Offsets]

(* The items tile the heap: each ends where the next one begins, or where  *)
(* heap_end is, no item begins inside another, and prev leads to the item  *)
(* before, except from heap_end, whose prev nothing reads.                 *)
Chain(it) ==
  /\ it \in [DOMAIN it -> Entry]
  /\ DOMAIN it \subseteq Offsets /\ 0 \in DOMAIN it /\ heap_end \in DOMAIN it
  /\ it[heap_end].used /\ it[heap_end].next = heap_end /\ it[0].prev = 0
  /\ \A p \in DOMAIN it \ {heap_end} :
       /\ it[p].next \in DOMAIN it /\ Aligned(p) /\ it[p].next >= p + SIZEOF_STRUCT_MEM
       /\ \A q \in DOMAIN it : q <= p \/ it[p].next <= q
  /\ \A q \in DOMAIN it \ {0, heap_end} : it[q].prev \in DOMAIN it \ {heap_end} /\ it[it[q].prev].next = q

(* What the chain says of one item.                                        *)
LEMMA ChainItem ==
  ASSUME NEW it, Chain(it), NEW p \in DOMAIN it
  PROVE  /\ p \in Nat /\ p <= heap_end /\ p \in Offsets /\ it[p] \in Entry
         /\ it[p].used \in BOOLEAN /\ it[p].next \in Nat /\ it[p].next <= heap_end /\ it[p].prev \in Nat
         /\ it[p].next \in DOMAIN it
         /\ p # heap_end => p < it[p].next /\ p + SIZEOF_STRUCT_MEM <= it[p].next /\ p < heap_end
<1>1. heap_end \in Nat /\ SIZEOF_STRUCT_MEM \in Nat /\ SIZEOF_STRUCT_MEM > 0
  BY MemParameters
<1>2. p \in Offsets /\ it[p] \in Entry
  BY DEF Chain
<1>3. it[p].used \in BOOLEAN /\ it[p].next \in Offsets /\ it[p].prev \in Offsets
  BY <1>2 DEF Entry
<1>4. p # heap_end => it[p].next \in DOMAIN it /\ it[p].next >= p + SIZEOF_STRUCT_MEM
  BY DEF Chain
<1>5. it[p].next \in DOMAIN it
  BY <1>4 DEF Chain
<1> QED
  BY <1>1, <1>2, <1>3, <1>4, <1>5 DEF Offsets

(* No item begins inside another.                                          *)
LEMMA ChainOrder ==
  ASSUME NEW it, Chain(it), NEW p \in DOMAIN it \ {heap_end}, NEW q \in DOMAIN it
  PROVE  q <= p \/ it[p].next <= q
BY DEF Chain

(* The item behind p leads back to p: of two items that end at the same    *)
(* place neither can begin first.                                          *)
LEMMA ChainPrev ==
  ASSUME NEW it, Chain(it), NEW p \in DOMAIN it \ {heap_end}, it[p].next # heap_end
  PROVE  it[p].next # 0 /\ it[it[p].next].prev = p
<1> DEFINE n == it[p].next  b == it[n].prev
<1>1. n \in DOMAIN it /\ n \in Nat /\ p \in Nat /\ p < n
  BY ChainItem
<1>2. b \in DOMAIN it \ {heap_end} /\ it[b].next = n
  BY <1>1 DEF Chain
<1>3. b \in Nat /\ b < n
  BY <1>2, ChainItem
<1>4. p <= b \/ n <= p
  BY <1>2, ChainOrder
<1>5. b <= p \/ n <= b
  BY <1>2, ChainOrder
<1> QED
  BY <1>1, <1>3, <1>4, <1>5

(* The items after Absorb.                                                 *)
Joined(it, p) ==
  LET n == it[p].next
      o == it[n].next
  IN Unlink([it EXCEPT ![p].next = o, ![o].prev = p], n)

(* They are the same but for the one that is gone and its two neighbours.  *)
LEMMA JoinedItems ==
  ASSUME NEW it, Chain(it), NEW p \in DOMAIN it \ {heap_end}, it[p].next # heap_end,
         NEW n, n = it[p].next, NEW o, o = it[n].next
  PROVE  /\ n \in DOMAIN it \ {0, heap_end} /\ o \in DOMAIN it /\ p < n /\ n < o /\ p # n /\ n # o /\ p # o
         /\ n \in Nat /\ o \in Nat /\ p \in Nat /\ o <= heap_end
         /\ DOMAIN Joined(it, p) = DOMAIN it \ {n}
         /\ Joined(it, p)[p] = [used |-> it[p].used, next |-> o, prev |-> it[p].prev]
         /\ Joined(it, p)[o] = [used |-> it[o].used, next |-> it[o].next, prev |-> p]
         /\ \A x \in DOMAIN it \ {n, p, o} : Joined(it, p)[x] = it[x]
<1>1. n \in DOMAIN it /\ n \in Nat /\ p \in Nat /\ p < n /\ n # heap_end
  BY ChainItem
<1>2. o \in DOMAIN it /\ o \in Nat /\ n < o /\ o <= heap_end
  BY <1>1, ChainItem
<1>3. p # n /\ n # o /\ p # o /\ n # 0 /\ p < n /\ n < o
  BY <1>1, <1>2
<1> DEFINE g == [it EXCEPT ![p].next = o, ![o].prev = p]
<1>4. DOMAIN g = DOMAIN it /\ it \in [DOMAIN it -> Entry]
  BY DEF Chain
<1>5. g[p] = [it[p] EXCEPT !.next = o] /\ g[o] = [it[o] EXCEPT !.prev = p]
  BY <1>2, <1>3
<1>6. \A x \in DOMAIN it \ {p, o} : g[x] = it[x]
  BY <1>3
<1>7. it[p] \in Entry /\ it[o] \in Entry
  BY <1>2, ChainItem
<1>8. Joined(it, p) = [x \in DOMAIN it \ {n} |-> g[x]]
  BY <1>4 DEF Joined, Unlink, Restrict
<1> HIDE DEF g
<1>9. g[p] = [used |-> it[p].used, next |-> o, prev |-> it[p].prev]
  BY <1>5, <1>7 DEF Entry
<1>10. g[o] = [used |-> it[o].used, next |-> it[o].next, prev |-> p]
  BY <1>5, <1>7 DEF Entry
<1> QED
  BY <1>1, <1>2, <1>3, <1>6, <1>8, <1>9, <1>10

(* They still tile the heap.                                               *)
LEMMA JoinedChain ==
  ASSUME NEW it, Chain(it), NEW p \in DOMAIN it \ {heap_end}, it[p].next # heap_end
  PROVE  Chain(Joined(it, p))
<1> DEFINE n == it[p].next  o == it[n].next  jt == Joined(it, p)
<1>1. /\ n \in DOMAIN it \ {0, heap_end} /\ o \in DOMAIN it /\ p < n /\ n < o /\ p # n /\ n # o /\ p # o
      /\ n \in Nat /\ o \in Nat /\ p \in Nat /\ o <= heap_end
      /\ DOMAIN jt = DOMAIN it \ {n}
      /\ jt[p] = [used |-> it[p].used, next |-> o, prev |-> it[p].prev]
      /\ jt[o] = [used |-> it[o].used, next |-> it[o].next, prev |-> p]
      /\ \A x \in DOMAIN it \ {n, p, o} : jt[x] = it[x]
  BY JoinedItems, SMTT(30)
<1> DEFINE D == DOMAIN jt
<1> HIDE DEF n, o, jt, D
<1>2. D = DOMAIN it \ {n} /\ D = DOMAIN jt /\ p \in D /\ o \in D /\ heap_end \in D /\ 0 \in D
  BY <1>1 DEF D, Chain
<1>3. p \in Offsets /\ o \in Offsets /\ D \subseteq Offsets
  BY <1>1, <1>2 DEF Chain
<1>4. /\ \A x \in D : jt[x].used = it[x].used
      /\ \A x \in D : jt[x].next = IF x = p THEN o ELSE it[x].next
      /\ \A x \in D : jt[x].prev = IF x = o THEN p ELSE it[x].prev
  <2> SUFFICES ASSUME NEW x \in D
               PROVE /\ jt[x].used = it[x].used /\ jt[x].next = IF x = p THEN o ELSE it[x].next
                     /\ jt[x].prev = IF x = o THEN p ELSE it[x].prev
    OBVIOUS
  <2>1. CASE x = p
    BY <1>1, <2>1
  <2>2. CASE x = o
    BY <1>1, <2>2
  <2>3. CASE x # p /\ x # o
    BY <1>1, <1>2, <2>3
  <2> QED
    BY <2>1, <2>2, <2>3
<1>5. \A x \in D : jt[x] \in Entry
  <2> SUFFICES ASSUME NEW x \in D PROVE jt[x] \in Entry
    OBVIOUS
  <2>0. it[x] \in Entry /\ it[p] \in Entry /\ it[o] \in Entry
    BY <1>1, <1>2 DEF Chain
  <2>1. CASE x = p
    BY <1>1, <1>3, <2>0, <2>1 DEF Entry
  <2>2. CASE x = o
    BY <1>1, <1>3, <2>0, <2>2 DEF Entry
  <2>3. CASE x # p /\ x # o
    BY <1>1, <1>2, <2>0, <2>3
  <2> QED
    BY <2>1, <2>2, <2>3
<1>6. jt \in [D -> Entry]
  <2>1. jt = [x \in D |-> jt[x]]
    BY DEF jt, D, Joined, Unlink, Restrict
  <2> QED
    BY <1>5, <2>1
<1>7. jt[heap_end].used /\ jt[heap_end].next = heap_end /\ jt[0].prev = 0
  <2>1. o # 0
    BY <1>1
  <2> QED
    BY <1>1, <1>2, <1>4, <2>1 DEF Chain
<1>8. ASSUME NEW x \in D \ {heap_end}
      PROVE  /\ jt[x].next \in D /\ Aligned(x) /\ jt[x].next >= x + SIZEOF_STRUCT_MEM
             /\ \A q \in D : q <= x \/ jt[x].next <= q
  <2>1. x \in DOMAIN it \ {heap_end} /\ Aligned(x) /\ x \in Nat
    BY <1>2, ChainItem DEF Chain
  <2>2. CASE x = p
    <3>1. jt[x].next = o
      BY <1>2, <1>4, <2>2
    <3>2. o >= p + SIZEOF_STRUCT_MEM
      <4>1. n >= p + SIZEOF_STRUCT_MEM
        BY <2>1, <2>2 DEF Chain, n
      <4> QED
        BY <1>1, <4>1, MemParameters
    <3>3. ASSUME NEW q \in D PROVE q <= p \/ o <= q
      <4>1. q <= p \/ n <= q
        BY <1>2, <2>1, <2>2, ChainOrder DEF n
      <4>2. q <= n \/ o <= q
        BY <1>1, <1>2, ChainOrder DEF o
      <4>3. q \in Nat /\ q # n
        BY <1>2, ChainItem
      <4> QED
        BY <1>1, <4>1, <4>2, <4>3
    <3> QED
      BY <1>2, <2>1, <2>2, <3>1, <3>2, <3>3
  <2>3. CASE x # p
    <3>1. jt[x].next = it[x].next
      BY <1>4, <2>3
    <3>2. /\ it[x].next \in DOMAIN it /\ it[x].next >= x + SIZEOF_STRUCT_MEM
          /\ \A q \in DOMAIN it : q <= x \/ it[x].next <= q
      BY <2>1 DEF Chain
    <3>3. it[x].next # n
      <4> SUFFICES ASSUME it[x].next = n PROVE FALSE
        OBVIOUS
      <4>1. it[n].prev = x
        BY <1>1, <2>1, ChainPrev
      <4>2. it[n].prev = p
        BY <1>1, <1>2, ChainPrev DEF n
      <4> QED
        BY <2>3, <4>1, <4>2
    <3> QED
      BY <1>2, <2>1, <3>1, <3>2, <3>3
  <2> QED
    BY <2>2, <2>3
<1>9. ASSUME NEW q \in D \ {0, heap_end}
      PROVE  jt[q].prev \in D \ {heap_end} /\ jt[jt[q].prev].next = q
  <2>1. q \in DOMAIN it \ {0, heap_end} /\ it[q].prev \in DOMAIN it \ {heap_end} /\ it[it[q].prev].next = q
    BY <1>2 DEF Chain
  <2>2. CASE q = o
    <3>1. jt[q].prev = p /\ jt[p].next = o
      BY <1>2, <1>4, <2>2
    <3> QED
      BY <1>2, <2>2, <3>1
  <2>3. CASE q # o
    <3>1. jt[q].prev = it[q].prev
      BY <1>4, <2>3
    <3>2. it[q].prev # n
      BY <2>1, <2>3 DEF o
    <3>3. it[q].prev # p
      BY <1>2, <2>1 DEF n
    <3> QED
      BY <1>2, <1>4, <2>1, <3>1, <3>2, <3>3
  <2> QED
    BY <2>2, <2>3
<1> QED
  BY <1>2, <1>3, <1>6, <1>7, <1>8, <1>9 DEF Chain, jt, D

-----------------------------------------------------------------------------
(* What cutting an item in two does to the chain.                          *)

(* The items after Split.                                                  *)
Cut(it, p, size) ==
  LET q == p + SIZEOF_STRUCT_MEM + size
      n == it[p].next
      linked == IF n # heap_end THEN [it EXCEPT ![n].prev = q] ELSE it
      new == [used |-> FALSE, next |-> n, prev |-> p]
  IN [x \in DOMAIN linked \cup {q} |->
        IF x = q THEN new ELSE IF x = p THEN [linked[p] EXCEPT !.next = q] ELSE linked[x]]

(* Both parts of the item have the room for a header.                      *)
Cuttable(it, p, size) ==
  /\ Chain(it) /\ p \in DOMAIN it \ {heap_end} /\ size \in Nat /\ Aligned(size)
  /\ p + SIZEOF_STRUCT_MEM + size + SIZEOF_STRUCT_MEM <= it[p].next

(* Where the new item begins, and where it ends.                           *)
CutAt(it, p, size, q, n) == q = p + SIZEOF_STRUCT_MEM + size /\ n = it[p].next

(* What the items c are after the cut.                                     *)
IsCut(it, p, q, n, c) ==
  /\ q \in Nat /\ n \in Nat /\ p \in Nat /\ p < q /\ q < n /\ n \in DOMAIN it /\ q \notin DOMAIN it /\ n <= heap_end
  /\ q >= p + SIZEOF_STRUCT_MEM /\ n >= q + SIZEOF_STRUCT_MEM /\ Aligned(q) /\ n # 0
  /\ DOMAIN c = DOMAIN it \cup {q}
  /\ \A x \in DOMAIN it \cup {q} :
       /\ c[x] \in Entry
       /\ c[x].used = IF x = q THEN FALSE ELSE it[x].used
       /\ c[x].next = IF x = q THEN n ELSE IF x = p THEN q ELSE it[x].next
       /\ c[x].prev = IF x = q THEN p ELSE IF x = n /\ n # heap_end THEN q ELSE it[x].prev

(* A cut adds one item and changes next before it and prev behind it.      *)
LEMMA CutItems ==
  ASSUME NEW it, NEW p, NEW size, Cuttable(it, p, size), NEW q, NEW n, CutAt(it, p, size, q, n)
  PROVE  IsCut(it, p, q, n, Cut(it, p, size))
<1>0. /\ Chain(it) /\ p \in DOMAIN it \ {heap_end} /\ size \in Nat /\ Aligned(size)
      /\ q + SIZEOF_STRUCT_MEM <= n /\ q = p + SIZEOF_STRUCT_MEM + size /\ n = it[p].next
  BY DEF Cuttable, CutAt
<1>1. SIZEOF_STRUCT_MEM \in Nat /\ SIZEOF_STRUCT_MEM > 0 /\ heap_end \in Nat /\ Aligned(SIZEOF_STRUCT_MEM)
  BY MemParameters
<1>2. p \in Nat /\ n \in Nat /\ n \in DOMAIN it /\ n <= heap_end /\ p \in Offsets
  BY <1>0, ChainItem
<1>3. q \in Nat /\ p < q /\ q < n /\ q >= p + SIZEOF_STRUCT_MEM /\ n >= q + SIZEOF_STRUCT_MEM /\ n # 0 /\ p # n /\ p # q /\ q # n
  BY <1>0, <1>1, <1>2
<1>4. q \notin DOMAIN it
  BY <1>0, <1>2, <1>3, ChainOrder
<1>5. Aligned(q)
  <2>1. Aligned(p)
    BY <1>0 DEF Chain
  <2>2. Aligned(p + SIZEOF_STRUCT_MEM)
    BY <1>1, <1>2, <2>1, AlignedSum
  <2> QED
    BY <1>0, <1>1, <1>2, <2>2, AlignedSum
<1>6. q \in Offsets /\ n \in Offsets
  BY <1>1, <1>2, <1>3 DEF Offsets
<1> DEFINE linked == IF n # heap_end THEN [it EXCEPT ![n].prev = q] ELSE it
           new == [used |-> FALSE, next |-> n, prev |-> p]
           c == Cut(it, p, size)
<1>7. it \in [DOMAIN it -> Entry]
  BY <1>0 DEF Chain
<1>8. DOMAIN linked = DOMAIN it
  OBVIOUS
<1>9. ASSUME NEW x \in DOMAIN it
      PROVE linked[x] \in Entry /\ linked[x].used = it[x].used /\ linked[x].next = it[x].next
            /\ linked[x].prev = IF x = n /\ n # heap_end THEN q ELSE it[x].prev
  <2>0. it[x] \in Entry
    BY <1>7
  <2>1. CASE x = n /\ n # heap_end
    <3>1. linked[x] = [it[x] EXCEPT !.prev = q]
      BY <2>1
    <3> HIDE DEF linked
    <3> QED
      BY <1>6, <2>0, <2>1, <3>1 DEF Entry
  <2>2. CASE ~(x = n /\ n # heap_end)
    <3>1. linked[x] = it[x]
      BY <2>2
    <3> HIDE DEF linked
    <3> QED
      BY <2>0, <2>2, <3>1
  <2> QED
    BY <2>1, <2>2
<1>10. c = [x \in DOMAIN linked \cup {q} |->
              IF x = q THEN new ELSE IF x = p THEN [linked[p] EXCEPT !.next = q] ELSE linked[x]]
  BY <1>0 DEF Cut
<1> HIDE DEF linked, c
<1>11. DOMAIN c = DOMAIN it \cup {q}
  BY <1>8, <1>10
<1>12. ASSUME NEW x \in DOMAIN it \cup {q}
       PROVE  /\ c[x] \in Entry
              /\ c[x].used = IF x = q THEN FALSE ELSE it[x].used
              /\ c[x].next = IF x = q THEN n ELSE IF x = p THEN q ELSE it[x].next
              /\ c[x].prev = IF x = q THEN p ELSE IF x = n /\ n # heap_end THEN q ELSE it[x].prev
  <2>1. CASE x = q
    <3>1. c[x] = new
      BY <1>8, <1>10, <2>1
    <3> QED
      BY <1>2, <1>6, <2>1, <3>1 DEF Entry
  <2>2. CASE x = p
    <3>1. c[x] = [linked[p] EXCEPT !.next = q] /\ p \in DOMAIN it
      BY <1>3, <1>8, <1>10, <2>2
    <3>2. linked[p] \in Entry /\ linked[p].used = it[p].used /\ linked[p].prev = it[p].prev
      BY <1>3, <1>9, <3>1
    <3> QED
      BY <1>3, <1>6, <2>2, <3>1, <3>2 DEF Entry
  <2>3. CASE x # q /\ x # p
    <3>1. c[x] = linked[x] /\ x \in DOMAIN it
      BY <1>8, <1>10, <2>3
    <3> QED
      BY <1>9, <2>3, <3>1
  <2> QED
    BY <2>1, <2>2, <2>3
<1> QED
  BY <1>2, <1>3, <1>4, <1>5, <1>11, <1>12 DEF c, IsCut

(* The items still tile the heap; the new one is aligned because the size  *)
(* is.                                                                     *)
LEMMA CutChain ==
  ASSUME NEW it, NEW p, NEW size, Cuttable(it, p, size)
  PROVE  Chain(Cut(it, p, size))
<1> DEFINE q == p + SIZEOF_STRUCT_MEM + size  n == it[p].next  c == Cut(it, p, size)
<1>0. Chain(it) /\ p \in DOMAIN it \ {heap_end}
  BY DEF Cuttable
<1>1. /\ q \in Nat /\ n \in Nat /\ p \in Nat /\ p < q /\ q < n /\ n \in DOMAIN it /\ q \notin DOMAIN it /\ n <= heap_end
      /\ q >= p + SIZEOF_STRUCT_MEM /\ n >= q + SIZEOF_STRUCT_MEM /\ Aligned(q) /\ n # 0
      /\ DOMAIN c = DOMAIN it \cup {q}
      /\ \A x \in DOMAIN it \cup {q} :
           /\ c[x] \in Entry
           /\ c[x].used = IF x = q THEN FALSE ELSE it[x].used
           /\ c[x].next = IF x = q THEN n ELSE IF x = p THEN q ELSE it[x].next
           /\ c[x].prev = IF x = q THEN p ELSE IF x = n /\ n # heap_end THEN q ELSE it[x].prev
  <2>1. CutAt(it, p, size, q, n)
    BY DEF CutAt
  <2> HIDE DEF q, n
  <2>2. IsCut(it, p, q, n, c)
    BY <2>1, CutItems
  <2> HIDE DEF c
  <2> QED
    BY <2>2 DEF IsCut
<1>a. c = [x \in DOMAIN c |-> c[x]]
  BY DEF Cut
<1>b. n = it[p].next
  OBVIOUS
<1> HIDE DEF q, n, c
<1>2. p # q /\ q # n /\ p # n /\ q # heap_end /\ q # 0 /\ heap_end \in Nat /\ heap_end \in DOMAIN it /\ 0 \in DOMAIN it
  BY <1>0, <1>1, MemParameters DEF Chain
<1>3. c \in [DOMAIN c -> Entry] /\ heap_end \in DOMAIN c /\ 0 \in DOMAIN c
  BY <1>1, <1>2, <1>a
<1>4. DOMAIN c \subseteq Offsets
  <2>1. q \in Offsets /\ DOMAIN it \subseteq Offsets
    BY <1>0, <1>1, <1>2 DEF Offsets, Chain
  <2> QED
    BY <1>1, <2>1
<1>5. c[heap_end].used /\ c[heap_end].next = heap_end /\ c[0].prev = 0
  BY <1>0, <1>1, <1>2 DEF Chain
<1>6. ASSUME NEW x \in DOMAIN c \ {heap_end}
      PROVE  /\ c[x].next \in DOMAIN c /\ Aligned(x) /\ c[x].next >= x + SIZEOF_STRUCT_MEM
             /\ \A y \in DOMAIN c : y <= x \/ c[x].next <= y
  <2>1. CASE x = q
    <3>1. c[x].next = n
      BY <1>1, <2>1
    <3>2. ASSUME NEW y \in DOMAIN c PROVE y <= q \/ n <= y
      <4>1. CASE y = q
        BY <1>1, <4>1
      <4>2. CASE y # q
        <5>1. y \in DOMAIN it
          BY <1>1, <4>2
        <5>2. (y <= p \/ n <= y) /\ y \in Nat
          BY <1>0, <1>b, <5>1, ChainOrder, ChainItem
        <5> QED
          BY <1>1, <5>2
      <4> QED
        BY <4>1, <4>2
    <3> QED
      BY <1>1, <2>1, <3>1, <3>2
  <2>2. CASE x = p
    <3>1. c[x].next = q
      BY <1>1, <1>2, <2>2
    <3>2. ASSUME NEW y \in DOMAIN c PROVE y <= p \/ q <= y
      <4>1. CASE y = q
        BY <1>1, <4>1
      <4>2. CASE y # q
        <5>1. y \in DOMAIN it
          BY <1>1, <4>2
        <5>2. (y <= p \/ n <= y) /\ y \in Nat
          BY <1>0, <1>b, <5>1, ChainOrder, ChainItem
        <5> QED
          BY <1>1, <5>2
      <4> QED
        BY <4>1, <4>2
    <3>3. Aligned(p)
      BY <1>0 DEF Chain
    <3> QED
      BY <1>1, <2>2, <3>1, <3>2, <3>3
  <2>3. CASE x # q /\ x # p
    <3>1. x \in DOMAIN it \ {heap_end} /\ c[x].next = it[x].next
      BY <1>1, <2>3
    <3>2. /\ it[x].next \in DOMAIN it /\ Aligned(x) /\ it[x].next >= x + SIZEOF_STRUCT_MEM
          /\ \A y \in DOMAIN it : y <= x \/ it[x].next <= y
      BY <1>0, <3>1 DEF Chain
    <3>3. q <= x \/ it[x].next <= q
      <4>1. p <= x \/ it[x].next <= p
        BY <1>0, <3>2
      <4>2. x <= p \/ n <= x
        BY <1>0, <1>b, <3>1, ChainOrder
      <4>3. x \in Nat /\ it[x].next \in Nat
        BY <1>0, <3>1, ChainItem
      <4> QED
        BY <1>1, <2>3, <4>1, <4>2, <4>3
    <3> QED
      BY <1>1, <3>1, <3>2, <3>3
  <2> QED
    BY <2>1, <2>2, <2>3
<1>7. ASSUME NEW y \in DOMAIN c \ {0, heap_end}
      PROVE  c[y].prev \in DOMAIN c \ {heap_end} /\ c[c[y].prev].next = y
  <2>1. CASE y = q
    <3>1. c[y].prev = p /\ c[p].next = q
      BY <1>0, <1>1, <1>2, <2>1
    <3> QED
      BY <1>0, <1>1, <2>1, <3>1
  <2>2. CASE y = n
    <3>1. c[y].prev = q /\ c[q].next = n
      BY <1>1, <1>2, <2>2
    <3> QED
      BY <1>1, <1>2, <2>2, <3>1
  <2>3. CASE y # q /\ y # n
    <3>1. y \in DOMAIN it \ {0, heap_end} /\ c[y].prev = it[y].prev
      BY <1>1, <2>3
    <3>2. it[y].prev \in DOMAIN it \ {heap_end} /\ it[it[y].prev].next = y
      BY <1>0, <3>1 DEF Chain
    <3>3. it[y].prev # p /\ it[y].prev # q
      BY <1>1, <1>b, <2>3, <3>2
    <3> QED
      BY <1>1, <3>1, <3>2, <3>3
  <2> QED
    BY <2>1, <2>2, <2>3
<1> QED
  BY <1>3, <1>4, <1>5, <1>6, <1>7 DEF Chain, c

-----------------------------------------------------------------------------
(* What marking an item does, and the bytes that the used items take.      *)

(* The items after `used' of one of them is set or reset.                  *)
Marked(it, p, b) == [it EXCEPT ![p].used = b]

(* Nothing else changes, so they still tile the heap.                      *)
IsMarked(it, p, b, jt) ==
  /\ Chain(jt) /\ DOMAIN jt = DOMAIN it
  /\ \A x \in DOMAIN it : /\ x = p => jt[x].used = b
                          /\ x # p => jt[x].used = it[x].used
                          /\ jt[x].next = it[x].next
                          /\ jt[x].prev = it[x].prev

(* Marking does that.                                                      *)
LEMMA MarkedChain ==
  ASSUME NEW it, Chain(it), NEW p \in DOMAIN it \ {heap_end}, NEW b \in BOOLEAN
  PROVE  IsMarked(it, p, b, Marked(it, p, b))
<1> DEFINE jt == Marked(it, p, b)
<1>1. it \in [DOMAIN it -> Entry]
  BY DEF Chain
<1>2. DOMAIN jt = DOMAIN it /\ jt = [x \in DOMAIN it |-> IF x = p THEN [it[p] EXCEPT !.used = b] ELSE it[x]]
  BY <1>1 DEF Marked
<1> HIDE DEF jt
<1>3. ASSUME NEW x \in DOMAIN it
      PROVE  /\ jt[x] \in Entry /\ jt[x].used = IF x = p THEN b ELSE it[x].used
             /\ jt[x].next = it[x].next /\ jt[x].prev = it[x].prev
  <2>1. it[x] \in Entry
    BY <1>1
  <2>2. CASE x = p
    <3>1. jt[x] = [it[x] EXCEPT !.used = b]
      BY <1>2, <2>2
    <3> QED
      BY <2>1, <2>2, <3>1 DEF Entry
  <2>3. CASE x # p
    BY <1>2, <2>1, <2>3
  <2> QED
    BY <2>2, <2>3
<1>4. jt \in [DOMAIN jt -> Entry]
  BY <1>2, <1>3
<1>5. jt[heap_end].used /\ jt[heap_end].next = heap_end /\ jt[0].prev = 0
  <2>1. heap_end \in DOMAIN it /\ 0 \in DOMAIN it
    BY DEF Chain
  <2> QED
    BY <1>3, <2>1 DEF Chain
<1>6. \A x \in DOMAIN it \ {heap_end} :
        /\ jt[x].next \in DOMAIN it /\ Aligned(x) /\ jt[x].next >= x + SIZEOF_STRUCT_MEM
        /\ \A y \in DOMAIN it : y <= x \/ jt[x].next <= y
  BY <1>3 DEF Chain
<1>7. \A y \in DOMAIN it \ {0, heap_end} : jt[y].prev \in DOMAIN it \ {heap_end} /\ jt[jt[y].prev].next = y
  BY <1>3 DEF Chain
<1>8. Chain(jt)
  BY <1>2, <1>4, <1>5, <1>6, <1>7 DEF Chain
<1> QED
  BY <1>2, <1>3, <1>8 DEF jt, IsMarked

(* The items in use.                                                       *)
UsedItems(it) == {p \in DOMAIN it \ {heap_end} : it[p].used}

(* The bytes of the heap that they take, headers included.                 *)
Bytes(it) == {x \in Offsets : \E p \in UsedItems(it) : p <= x /\ x < it[p].next}

(* No two free items touch, except at the items E.                         *)
Apart(it, E) == \A p \in DOMAIN it \ {heap_end} : p \notin E => it[p].used \/ it[it[p].next].used

(* lfree is the first free item, or heap_end.                              *)
Low(it, l) == l \in DOMAIN it /\ (l # heap_end => ~it[l].used) /\ \A q \in DOMAIN it : q < l => it[q].used

(* The same items are in use, and end where they did.                      *)
SameUsed(it, jt) == UsedItems(jt) = UsedItems(it) /\ \A p \in UsedItems(it) : jt[p].next = it[p].next

(* Then they take the same bytes.                                          *)
LEMMA SameBytes ==
  ASSUME NEW it, NEW jt, SameUsed(it, jt)
  PROVE  Bytes(jt) = Bytes(it)
BY DEF SameUsed, Bytes

(* One more item is in use, p, which was free and may have been cut.       *)
MoreUsed(it, jt, p) ==
  /\ p \in DOMAIN it \ {heap_end} /\ ~it[p].used /\ UsedItems(jt) = UsedItems(it) \cup {p}
  /\ \A x \in UsedItems(it) : jt[x].next = it[x].next
  /\ jt[p].next \in Nat /\ p < jt[p].next /\ jt[p].next <= it[p].next

(* The bytes in use can be counted.                                        *)
LEMMA BytesFinite ==
  ASSUME NEW it
  PROVE  IsFiniteSet(Bytes(it)) /\ Cardinality(Bytes(it)) \in Nat
<1>1. Bytes(it) \in SUBSET (0 .. heap_end) /\ heap_end \in Nat
  BY MemParameters DEF Bytes, Offsets
<1>2. IsFiniteSet(0 .. heap_end)
  BY <1>1, FS_Interval
<1>3. IsFiniteSet(Bytes(it))
  BY <1>1, <1>2, FS_Subset
<1> QED
  BY <1>3, FS_CardinalityType

(* There are not more of them than the heap has.                           *)
LEMMA BytesBounded ==
  ASSUME NEW it, Chain(it)
  PROVE  Cardinality(Bytes(it)) \in Offsets
<1>0. heap_end \in Nat /\ heap_end > 0
  BY MemParameters
<1>1. Bytes(it) \in SUBSET (0 .. heap_end - 1)
  <2> SUFFICES ASSUME NEW x \in Bytes(it) PROVE x \in 0 .. heap_end - 1
    OBVIOUS
  <2>1. PICK p \in UsedItems(it) : p <= x /\ x < it[p].next
    BY DEF Bytes
  <2>2. it[p].next <= heap_end /\ it[p].next \in Nat
    BY ChainItem DEF UsedItems
  <2>3. x \in Nat
    BY <1>0 DEF Bytes, Offsets
  <2> QED
    BY <1>0, <2>1, <2>2, <2>3
<1>2. IsFiniteSet(0 .. heap_end - 1) /\ Cardinality(0 .. heap_end - 1) = heap_end
  <2>1. 0 \in Int /\ heap_end - 1 \in Int
    BY <1>0
  <2> QED
    BY <1>0, <2>1, FS_Interval
<1>3. Cardinality(Bytes(it)) <= heap_end
  BY <1>1, <1>2, FS_Subset
<1> QED
  BY <1>0, <1>3, BytesFinite DEF Offsets

(* The bytes of one more item add to those of the others, since no two     *)
(* items overlap.                                                          *)
LEMMA BytesMore ==
  ASSUME NEW it, Chain(it), NEW jt, NEW p, MoreUsed(it, jt, p)
  PROVE  Cardinality(Bytes(jt)) = Cardinality(Bytes(it)) + (jt[p].next - p)
<1> DEFINE m == jt[p].next  own == p .. m - 1
<1>0. p \in Nat /\ m \in Nat /\ p < m /\ m <= it[p].next /\ it[p].next \in Nat /\ it[p].next <= heap_end /\ heap_end \in Nat
  BY ChainItem, MemParameters DEF MoreUsed
<1>1. p \in DOMAIN it \ {heap_end} /\ ~it[p].used
  BY DEF MoreUsed
<1> HIDE DEF m
<1>2. Bytes(jt) = Bytes(it) \cup own
  <2>1. \A x \in UsedItems(it) : jt[x].next = it[x].next
    BY DEF MoreUsed
  <2>2. UsedItems(jt) = UsedItems(it) \cup {p}
    BY DEF MoreUsed
  <2>3. ASSUME NEW x \in Bytes(jt) PROVE x \in Bytes(it) \cup own
    <3>1. PICK y \in UsedItems(jt) : y <= x /\ x < jt[y].next
      BY DEF Bytes
    <3>2. CASE y = p
      BY <1>0, <3>1, <3>2 DEF m, Bytes, Offsets
    <3>3. CASE y # p
      BY <2>1, <2>2, <3>1, <3>3 DEF Bytes
    <3> QED
      BY <3>2, <3>3
  <2>4. ASSUME NEW x \in Bytes(it) PROVE x \in Bytes(jt)
    BY <2>1, <2>2 DEF Bytes
  <2>5. ASSUME NEW x \in own PROVE x \in Bytes(jt)
    <3>1. x \in Offsets /\ p <= x /\ x < jt[p].next
      BY <1>0 DEF m, Offsets
    <3> QED
      BY <2>2, <3>1 DEF Bytes
  <2> QED
    BY <2>3, <2>4, <2>5
<1>3. Bytes(it) \cap own = {}
  <2> SUFFICES ASSUME NEW x \in Bytes(it), x \in own PROVE FALSE
    OBVIOUS
  <2>1. PICK y \in UsedItems(it) : y <= x /\ x < it[y].next
    BY DEF Bytes
  <2>2. y \in DOMAIN it \ {heap_end} /\ y # p
    BY <1>1 DEF UsedItems
  <2>3. p <= y \/ it[y].next <= p
    BY <1>1, <2>2, ChainOrder
  <2>4. y <= p \/ it[p].next <= y
    BY <1>1, <2>2, ChainOrder
  <2>5. y \in Nat /\ it[y].next \in Nat
    BY <2>2, ChainItem
  <2>6. x \in Int /\ p <= x /\ x < m
    BY <1>0
  <2> QED
    BY <1>0, <2>1, <2>2, <2>3, <2>4, <2>5, <2>6
<1>4. IsFiniteSet(own) /\ Cardinality(own) = m - p
  <2>1. p \in Int /\ m - 1 \in Int /\ ~(p > m - 1)
    BY <1>0
  <2>2. Cardinality(own) = (m - 1) - p + 1
    BY <2>1, FS_Interval
  <2> QED
    BY <1>0, <2>1, <2>2, FS_Interval
<1> HIDE DEF own
<1>5. Cardinality(Bytes(jt)) = Cardinality(Bytes(it)) + Cardinality(own) - Cardinality({})
  BY <1>2, <1>3, <1>4, BytesFinite, FS_Union
<1> QED
  BY <1>0, <1>4, <1>5, BytesFinite, FS_EmptySet DEF m

-----------------------------------------------------------------------------
(* rt_smem_free: an item is marked free and joined with its free           *)
(* neighbours.                                                             *)

(* A heap, from its parts.                                                 *)
Hp(it, l, u) == [item |-> it, lfree |-> l, inuse |-> u]

(* The parts of a heap.                                                    *)
LEMMA HpFields ==
  ASSUME NEW it, NEW l, NEW u
  PROVE  Hp(it, l, u).item = it /\ Hp(it, l, u).lfree = l /\ Hp(it, l, u).inuse = u
BY DEF Hp

(* A heap with other items.                                                *)
LEMMA HpItem ==
  ASSUME NEW it, NEW l, NEW u, NEW a
  PROVE  [Hp(it, l, u) EXCEPT !.item = a] = Hp(a, l, u)
BY DEF Hp

(* A heap with another lfree.                                              *)
LEMMA HpLfree ==
  ASSUME NEW it, NEW l, NEW u, NEW b
  PROVE  [Hp(it, l, u) EXCEPT !.lfree = b] = Hp(it, b, u)
BY DEF Hp

(* A heap with another count.                                              *)
LEMMA HpInuse ==
  ASSUME NEW it, NEW l, NEW u, NEW c
  PROVE  [Hp(it, l, u) EXCEPT !.inuse = c] = Hp(it, l, c)
BY DEF Hp

(* Two free items touch.                                                   *)
Joinable(it, p) == Chain(it) /\ p \in DOMAIN it \ {heap_end} /\ it[p].next # heap_end /\ ~it[p].used /\ ~it[it[p].next].used

(* Absorb joins two free items: the items in use are the same ones, lfree  *)
(* is never the second of the two, and none of the exceptions is left at   *)
(* the first.                                                              *)
LEMMA JoinFree ==
  ASSUME NEW it, NEW p, Joinable(it, p), NEW l, Low(it, l), NEW E, Apart(it, E), it[p].next \notin E, NEW u
  PROVE  /\ Absorb(Hp(it, l, u), p) = Hp(Joined(it, p), l, u)
         /\ Chain(Joined(it, p)) /\ Low(Joined(it, p), l) /\ SameUsed(it, Joined(it, p)) /\ Apart(Joined(it, p), E \ {p})
         /\ p \in DOMAIN Joined(it, p) \ {heap_end} /\ ~Joined(it, p)[p].used
         /\ Joined(it, p)[p].prev = it[p].prev
<1> DEFINE n == it[p].next  o == it[n].next  jt == Joined(it, p)
<1>0. Chain(it) /\ p \in DOMAIN it \ {heap_end} /\ n # heap_end /\ ~it[p].used /\ ~it[n].used
  BY DEF Joinable
<1>1. /\ n \in DOMAIN it \ {0, heap_end} /\ o \in DOMAIN it /\ p < n /\ n < o /\ p # n /\ n # o /\ p # o
      /\ n \in Nat /\ o \in Nat /\ p \in Nat
      /\ DOMAIN jt = DOMAIN it \ {n}
      /\ jt[p] = [used |-> it[p].used, next |-> o, prev |-> it[p].prev]
      /\ jt[o] = [used |-> it[o].used, next |-> it[o].next, prev |-> p]
      /\ \A x \in DOMAIN it \ {n, p, o} : jt[x] = it[x]
  BY <1>0, JoinedItems
<1>2. l # n
  BY <1>0, <1>1 DEF Low
<1>3. Absorb(Hp(it, l, u), p) = Hp(jt, l, u)
  <2>1. Hp(it, l, u).item = it /\ Hp(it, l, u).lfree = l
    BY DEF Hp
  <2>2. Absorb(Hp(it, l, u), p) = [Hp(it, l, u) EXCEPT !.item = jt, !.lfree = IF l = n THEN p ELSE l]
    BY <2>1 DEF Absorb, Joined
  <2> HIDE DEF jt, n
  <2> QED
    BY <1>2, <2>2 DEF Hp
<1>4. Chain(jt)
  BY <1>0, JoinedChain
<1>n. n = it[p].next /\ o = it[n].next
  OBVIOUS
<1> HIDE DEF n, o, jt
<1>5. \A x \in DOMAIN jt : jt[x].used = it[x].used /\ jt[x].next = IF x = p THEN o ELSE it[x].next
  <2> SUFFICES ASSUME NEW x \in DOMAIN jt PROVE jt[x].used = it[x].used /\ jt[x].next = IF x = p THEN o ELSE it[x].next
    OBVIOUS
  <2>1. CASE x = p
    BY <1>1, <2>1
  <2>2. CASE x = o
    BY <1>1, <2>2
  <2>3. CASE x # p /\ x # o
    BY <1>1, <2>3
  <2> QED
    BY <2>1, <2>2, <2>3
<1>6. Low(jt, l)
  <2>1. l \in DOMAIN jt
    BY <1>1, <1>2 DEF Low
  <2> QED
    BY <1>1, <1>5, <2>1 DEF Low
<1>7. SameUsed(it, jt)
  <2>1. UsedItems(jt) = UsedItems(it)
    BY <1>0, <1>1, <1>5 DEF UsedItems
  <2>2. ASSUME NEW x \in UsedItems(it) PROVE jt[x].next = it[x].next
    <3>1. x \in DOMAIN jt /\ x # p
      BY <1>0, <2>1 DEF UsedItems
    <3> QED
      BY <1>5, <3>1
  <2> QED
    BY <2>1, <2>2 DEF SameUsed
<1>8. Apart(jt, E \ {p})
  <2> SUFFICES ASSUME NEW x \in DOMAIN jt \ {heap_end}, x \notin E \ {p}
               PROVE  jt[x].used \/ jt[jt[x].next].used
    BY DEF Apart
  <2>1. CASE x = p
    <3>1. it[n].used \/ it[o].used
      BY <1>1, <1>n DEF Apart
    <3>2. jt[x].next = o /\ o \in DOMAIN jt
      BY <1>1, <1>5, <2>1
    <3> QED
      BY <1>0, <1>5, <3>1, <3>2
  <2>2. CASE x # p
    <3>1. it[x].used \/ it[it[x].next].used
      BY <1>1, <2>2 DEF Apart
    <3>2. jt[x].next = it[x].next /\ jt[x].next \in DOMAIN jt
      BY <1>4, <1>5, <2>2, ChainItem
    <3> QED
      BY <1>5, <3>1, <3>2
  <2> QED
    BY <2>1, <2>2
<1>9. p \in DOMAIN jt \ {heap_end} /\ ~jt[p].used /\ jt[p].prev = it[p].prev
  BY <1>0, <1>1
<1> QED
  BY <1>3, <1>4, <1>6, <1>7, <1>8, <1>9 DEF jt

(* What plug_holes finds: item p is free, and only it and the item before  *)
(* it may touch a free item.                                               *)
Pluggable(it, l, p) ==
  Chain(it) /\ p \in DOMAIN it \ {heap_end} /\ ~it[p].used /\ Low(it, l) /\ Apart(it, {p, it[p].prev})

(* plug_holes leaves no two free items that touch, and the items in use as *)
(* they are.                                                               *)
LEMMA PlugHoles ==
  ASSUME NEW it, NEW l, NEW p, Pluggable(it, l, p), NEW u
  PROVE  \E ft : /\ plug_holes(Hp(it, l, u), p) = Hp(ft, l, u)
                 /\ Chain(ft) /\ Low(ft, l) /\ Apart(ft, {}) /\ SameUsed(it, ft)
<1>0. Chain(it) /\ p \in DOMAIN it \ {heap_end} /\ ~it[p].used /\ Low(it, l) /\ Apart(it, {p, it[p].prev})
  BY DEF Pluggable
<1> DEFINE n == it[p].next  b == it[p].prev  join == ~it[n].used /\ n # heap_end
           gt == IF join THEN Joined(it, p) ELSE it
<1>1. n \in DOMAIN it /\ n \in Nat /\ p \in Nat /\ p < n /\ b \in Nat
  BY <1>0, ChainItem
<1>2. p # 0 => b \in DOMAIN it \ {heap_end} /\ it[b].next = p /\ b < p
  <2>1. p # 0 => b \in DOMAIN it \ {heap_end} /\ it[b].next = p
    BY <1>0 DEF Chain
  <2> QED
    BY <1>0, <2>1, ChainItem
<1>3. p = 0 => b = 0
  BY <1>0 DEF Chain
<1>4. n \notin {p, b}
  BY <1>1, <1>2, <1>3
<1>5. /\ (IF join THEN Absorb(Hp(it, l, u), p) ELSE Hp(it, l, u)) = Hp(gt, l, u)
      /\ Chain(gt) /\ Low(gt, l) /\ SameUsed(it, gt) /\ Apart(gt, {b} \ {p})
      /\ p \in DOMAIN gt \ {heap_end} /\ ~gt[p].used /\ gt[p].prev = b
  <2>1. CASE join
    <3>1. Joinable(it, p)
      BY <1>0, <2>1 DEF Joinable
    <3>2. {p, b} \ {p} = {b} \ {p} /\ gt = Joined(it, p)
      BY <2>1
    <3> HIDE DEF gt
    <3> QED
      BY <1>0, <1>4, <2>1, <3>1, <3>2, JoinFree
  <2>2. CASE ~join
    <3>1. it[n].used
      <4>1. it[heap_end].used
        BY <1>0 DEF Chain
      <4> QED
        BY <2>2, <4>1
    <3>2. Apart(it, {b} \ {p})
      BY <1>0, <3>1 DEF Apart
    <3>3. gt = it /\ SameUsed(it, it)
      BY <2>2 DEF SameUsed
    <3> HIDE DEF gt
    <3> QED
      BY <1>0, <2>2, <3>2, <3>3
  <2> QED
    BY <2>1, <2>2
<1>6. plug_holes(Hp(it, l, u), p) = IF b # p /\ ~gt[b].used THEN Absorb(Hp(gt, l, u), b) ELSE Hp(gt, l, u)
  <2>1. Hp(it, l, u).item = it /\ Hp(gt, l, u).item = gt
    BY DEF Hp
  <2>2. plug_holes(Hp(it, l, u), p) =
          LET f == IF join THEN Absorb(Hp(it, l, u), p) ELSE Hp(it, l, u)
              c == f.item[p].prev
          IN IF c # p /\ ~f.item[c].used THEN Absorb(f, c) ELSE f
    BY <2>1 DEF plug_holes
  <2> HIDE DEF gt, join
  <2> QED
    BY <1>5, <2>1, <2>2
<1> HIDE DEF gt, join
<1>7. CASE b # p /\ ~gt[b].used
  <2>1. p # 0
    BY <1>3, <1>7
  <2>2. b \in DOMAIN gt \ {heap_end} /\ gt[b].next = p
    BY <1>5, <2>1 DEF Chain
  <2>3. Joinable(gt, b)
    BY <1>5, <1>7, <2>2 DEF Joinable
  <2>4. Apart(gt, {b}) /\ gt[b].next \notin {b} /\ {b} \ {b} = {}
    BY <1>5, <1>7, <2>2 DEF Apart
  <2>a. /\ Absorb(Hp(gt, l, u), b) = Hp(Joined(gt, b), l, u)
        /\ Chain(Joined(gt, b)) /\ Low(Joined(gt, b), l) /\ SameUsed(gt, Joined(gt, b)) /\ Apart(Joined(gt, b), {b} \ {b})
    <3> HIDE DEF b
    <3> QED
      BY <1>5, <2>3, <2>4, JoinFree
  <2>5. /\ Absorb(Hp(gt, l, u), b) = Hp(Joined(gt, b), l, u)
        /\ Chain(Joined(gt, b)) /\ Low(Joined(gt, b), l) /\ SameUsed(gt, Joined(gt, b)) /\ Apart(Joined(gt, b), {})
    BY <2>4, <2>a
  <2>6. SameUsed(it, Joined(gt, b))
    BY <1>5, <2>5 DEF SameUsed
  <2> QED
    BY <1>6, <1>7, <2>5, <2>6
<1>8. CASE ~(b # p /\ ~gt[b].used)
  <2>1. Apart(gt, {})
    BY <1>5, <1>8 DEF Apart
  <2> QED
    BY <1>5, <1>6, <1>8, <2>1
<1> QED
  BY <1>7, <1>8

(* The inductive invariant of the heap.                                    *)
HeapInv(it, l, u) == Chain(it) /\ Low(it, l) /\ Apart(it, {}) /\ u = Cardinality(Bytes(it))

(* The items in use, except X, end where they did.                         *)
KeepsOthers(it, jt, X) == \A x \in UsedItems(it) \ X : jt[x].next = it[x].next

(* rt_smem_free takes one item out of use and its bytes out of the count.  *)
LEMMA FreeStep ==
  ASSUME NEW it, NEW l, NEW u, HeapInv(it, l, u), NEW p \in UsedItems(it)
  PROVE  \E ft, m, v : /\ rt_smem_free(Hp(it, l, u), p) = Hp(ft, m, v) /\ HeapInv(ft, m, v)
                       /\ UsedItems(ft) = UsedItems(it) \ {p} /\ KeepsOthers(it, ft, {p})
<1> DEFINE jt == Marked(it, p, FALSE)  m == IF p < l THEN p ELSE l  v == u - (it[p].next - p)
<1>0. Chain(it) /\ Low(it, l) /\ Apart(it, {}) /\ u = Cardinality(Bytes(it)) /\ p \in DOMAIN it \ {heap_end} /\ it[p].used
  BY DEF HeapInv, UsedItems
<1>1. /\ Chain(jt) /\ DOMAIN jt = DOMAIN it
      /\ \A x \in DOMAIN it : /\ jt[x].used = IF x = p THEN FALSE ELSE it[x].used
                              /\ jt[x].next = it[x].next /\ jt[x].prev = it[x].prev
  <2>1. IsMarked(it, p, FALSE, jt)
    BY <1>0, MarkedChain
  <2> HIDE DEF jt
  <2> QED
    BY <2>1 DEF IsMarked
<1>2. rt_smem_free(Hp(it, l, u), p) = plug_holes(Hp(jt, m, v), p)
  <2>1. [Hp(it, l, u) EXCEPT !.item[p].used = FALSE, !.lfree = Lowest(Hp(it, l, u), p),
                       !.inuse = @ - (Hp(it, l, u).item[p].next - p)] = Hp(jt, m, v)
    <3>1. Hp(it, l, u).item = it /\ Hp(it, l, u).lfree = l /\ Hp(it, l, u).inuse = u /\ Lowest(Hp(it, l, u), p) = m
      BY DEF Hp, Lowest
    <3>2. [Hp(it, l, u) EXCEPT !.item[p].used = FALSE, !.lfree = Lowest(Hp(it, l, u), p),
                       !.inuse = @ - (Hp(it, l, u).item[p].next - p)]
           = [Hp(it, l, u) EXCEPT !.item = jt, !.lfree = m, !.inuse = v]
      BY <3>1 DEF Marked
    <3> HIDE DEF m, v, jt
    <3>3. [Hp(it, l, u) EXCEPT !.item = jt, !.lfree = m, !.inuse = v] = Hp(jt, m, v)
      <4>1. [Hp(it, l, u) EXCEPT !.item = jt] = Hp(jt, l, u)
        BY DEF Hp
      <4>2. [Hp(jt, l, u) EXCEPT !.lfree = m] = Hp(jt, m, u)
        BY DEF Hp
      <4>3. [Hp(jt, m, u) EXCEPT !.inuse = v] = Hp(jt, m, v)
        BY DEF Hp
      <4>4. [Hp(it, l, u) EXCEPT !.item = jt, !.lfree = m, !.inuse = v]
              = [[[Hp(it, l, u) EXCEPT !.item = jt] EXCEPT !.lfree = m] EXCEPT !.inuse = v]
        OBVIOUS
      <4> QED
        BY <4>1, <4>2, <4>3, <4>4
    <3> QED
      BY <3>2, <3>3
  <2> QED
    BY <2>1 DEF rt_smem_free
<1> HIDE DEF jt
<1>3. p \in Nat /\ l \in Nat /\ l \in DOMAIN it
  BY <1>0, ChainItem DEF Low
<1>4. Low(jt, m)
  <2>1. CASE p < l
    <3>1. m = p
      BY <2>1
    <3>2. ASSUME NEW q \in DOMAIN jt, q < p PROVE jt[q].used
      <4>0. q \in Nat
        BY <1>0, <1>1, ChainItem
      <4>1. q < l /\ q # p
        BY <1>3, <2>1, <3>2, <4>0
      <4> QED
        BY <1>0, <1>1, <4>1 DEF Low
    <3> QED
      BY <1>0, <1>1, <3>1, <3>2 DEF Low
  <2>2. CASE ~(p < l)
    <3>1. m = l
      BY <2>2
    <3>2. ASSUME NEW q \in DOMAIN jt, q < l PROVE jt[q].used
      <4>1. q # p
        BY <2>2, <3>2
      <4> QED
        BY <1>0, <1>1, <3>2, <4>1 DEF Low
    <3>3. l # heap_end => ~jt[l].used
      BY <1>0, <1>1, <1>3 DEF Low
    <3> QED
      BY <1>1, <1>3, <3>1, <3>2, <3>3 DEF Low
  <2> QED
    BY <2>1, <2>2
<1>5. Apart(jt, {p, jt[p].prev})
  <2> SUFFICES ASSUME NEW x \in DOMAIN jt \ {heap_end}, x # p, x # jt[p].prev
               PROVE  jt[x].used \/ jt[jt[x].next].used
    BY DEF Apart
  <2>1. it[x].used \/ it[it[x].next].used
    BY <1>0, <1>1 DEF Apart
  <2>2. jt[x].next \in DOMAIN jt /\ jt[x].next = it[x].next
    BY <1>1, ChainItem
  <2>3. jt[x].next # p
    BY <1>0, <1>1, ChainPrev
  <2> QED
    BY <1>1, <2>1, <2>2, <2>3
<1>6. Pluggable(jt, m, p)
  BY <1>0, <1>1, <1>4, <1>5 DEF Pluggable
<1>7. PICK ft : /\ plug_holes(Hp(jt, m, v), p) = Hp(ft, m, v)
                /\ Chain(ft) /\ Low(ft, m) /\ Apart(ft, {}) /\ SameUsed(jt, ft)
  BY <1>6, PlugHoles
<1>8. UsedItems(jt) = UsedItems(it) \ {p}
  BY <1>0, <1>1 DEF UsedItems
<1>9. \A x \in UsedItems(it) : jt[x].next = it[x].next
  BY <1>1 DEF UsedItems
<1>10. v = Cardinality(Bytes(ft))
  <2>1. MoreUsed(jt, it, p)
    <3>1. it[p].next \in Nat /\ p < it[p].next
      BY <1>0, ChainItem
    <3>2. UsedItems(it) = UsedItems(jt) \cup {p} /\ p \in DOMAIN jt \ {heap_end} /\ ~jt[p].used
      BY <1>0, <1>1, <1>8
    <3>3. \A x \in UsedItems(jt) : it[x].next = jt[x].next
      BY <1>8, <1>9
    <3>4. it[p].next <= jt[p].next
      <4>1. jt[p].next = it[p].next
        BY <1>0, <1>1
      <4> QED
        BY <3>1, <4>1
    <3> QED
      BY <3>1, <3>2, <3>3, <3>4 DEF MoreUsed
  <2>2. u = Cardinality(Bytes(jt)) + (it[p].next - p)
    BY <1>0, <1>1, <2>1, BytesMore
  <2>3. Cardinality(Bytes(jt)) \in Nat /\ it[p].next \in Nat
    BY <1>0, BytesFinite, ChainItem
  <2>4. Bytes(ft) = Bytes(jt)
    BY <1>7, SameBytes
  <2> QED
    BY <1>3, <2>2, <2>3, <2>4
<1>11. HeapInv(ft, m, v)
  BY <1>7, <1>10 DEF HeapInv
<1>12. UsedItems(ft) = UsedItems(it) \ {p} /\ KeepsOthers(it, ft, {p})
  BY <1>7, <1>8, <1>9 DEF SameUsed, KeepsOthers
<1> HIDE DEF m, v
<1> QED
  BY <1>2, <1>7, <1>11, <1>12

-----------------------------------------------------------------------------
(* rt_smem_alloc: an item is cut, if it is much too large, and marked      *)
(* used.                                                                   *)

(* Split cuts the items.                                                   *)
LEMMA SplitItems ==
  ASSUME NEW it, NEW l, NEW u, NEW p, NEW size
  PROVE  Split(Hp(it, l, u), p, size) = Hp(Cut(it, p, size), l, u)
<1>1. Hp(it, l, u).item = it
  BY HpFields
<1>2. Split(Hp(it, l, u), p, size) = [Hp(it, l, u) EXCEPT !.item = Cut(it, p, size)]
  BY <1>1 DEF Split, Cut
<1> QED
  BY <1>2, HpItem

(* The free item p has the room for `size' bytes and does not lie before   *)
(* lfree.                                                                  *)
Fits(it, l, p, size) ==
  /\ p \in DOMAIN it \ {heap_end} /\ ~it[p].used /\ l <= p /\ size \in Nat /\ Aligned(size)
  /\ p + SIZEOF_STRUCT_MEM + size <= it[p].next

(* The item p, possibly cut, that Take marks.                              *)
Trimmed(it, p, size, st) ==
  /\ Chain(st) /\ p \in DOMAIN st \ {heap_end} /\ ~st[p].used
  /\ p + SIZEOF_STRUCT_MEM + size <= st[p].next /\ st[p].next <= it[p].next
  /\ SameUsed(it, st) /\ Apart(st, {p}) /\ DOMAIN it \subseteq DOMAIN st
  /\ \A x \in DOMAIN st : x <= p => x \in DOMAIN it /\ st[x].used = it[x].used

(* The new free item that a cut leaves has a used item behind it, because  *)
(* the item that was cut was free.                                         *)
LEMMA TrimStep ==
  ASSUME NEW it, NEW l, NEW u, HeapInv(it, l, u), NEW p, NEW size, Fits(it, l, p, size), Cuttable(it, p, size)
  PROVE  Trimmed(it, p, size, Cut(it, p, size))
<1> DEFINE q == p + SIZEOF_STRUCT_MEM + size  n == it[p].next  c == Cut(it, p, size)
<1>1. IsCut(it, p, q, n, c)
  <2>1. CutAt(it, p, size, q, n)
    BY DEF CutAt
  <2> HIDE DEF q, n
  <2> QED
    BY <2>1, CutItems
<1>2. Chain(c)
  BY CutChain
<1>3. Chain(it) /\ Low(it, l) /\ Apart(it, {}) /\ p \in DOMAIN it \ {heap_end} /\ ~it[p].used
  BY DEF HeapInv, Fits
<1>n. n = it[p].next /\ q = p + SIZEOF_STRUCT_MEM + size
  OBVIOUS
<1> HIDE DEF c, q, n
<1>4. /\ q \in Nat /\ n \in Nat /\ p \in Nat /\ p < q /\ q < n /\ n \in DOMAIN it /\ q \notin DOMAIN it /\ n <= heap_end
      /\ DOMAIN c = DOMAIN it \cup {q}
      /\ \A x \in DOMAIN it \cup {q} :
           /\ c[x].used = IF x = q THEN FALSE ELSE it[x].used
           /\ c[x].next = IF x = q THEN n ELSE IF x = p THEN q ELSE it[x].next
  BY <1>1 DEF IsCut
<1>5. p \in DOMAIN c \ {heap_end} /\ ~c[p].used /\ c[p].next = q /\ q # heap_end
  <2>1. q # heap_end
    BY <1>4, MemParameters
  <2>2. p # q /\ p \in DOMAIN it \cup {q}
    BY <1>3, <1>4
  <2> QED
    BY <1>3, <1>4, <2>1, <2>2
<1>6. SameUsed(it, c)
  <2>1. UsedItems(c) = UsedItems(it)
    BY <1>4 DEF UsedItems
  <2>2. ASSUME NEW x \in UsedItems(it) PROVE c[x].next = it[x].next
    <3>1. x \in DOMAIN it /\ x # q /\ x # p
      BY <1>3, <1>4 DEF UsedItems
    <3> QED
      BY <1>4, <3>1
  <2> QED
    BY <2>1, <2>2 DEF SameUsed
<1>7. Apart(c, {p})
  <2> SUFFICES ASSUME NEW x \in DOMAIN c \ {heap_end}, x # p PROVE c[x].used \/ c[c[x].next].used
    BY DEF Apart
  <2>1. CASE x = q
    <3>1. it[p].used \/ it[n].used
      BY <1>3, <1>n DEF Apart
    <3>2. c[x].next = n /\ n # q
      BY <1>4, <2>1
    <3> QED
      BY <1>3, <1>4, <3>1, <3>2
  <2>2. CASE x # q
    <3>1. x \in DOMAIN it \ {heap_end} /\ c[x].next = it[x].next /\ c[x].used = it[x].used
      BY <1>4, <2>2
    <3>2. it[x].used \/ it[it[x].next].used
      BY <1>3, <3>1 DEF Apart
    <3>3. it[x].next \in DOMAIN it /\ it[x].next # q
      BY <1>3, <1>4, <3>1, ChainItem
    <3> QED
      BY <1>4, <3>1, <3>2, <3>3
  <2> QED
    BY <2>1, <2>2
<1>8. ASSUME NEW x \in DOMAIN c, x <= p PROVE x \in DOMAIN it /\ c[x].used = it[x].used
  <2>1. x # q
    BY <1>4, <1>8
  <2> QED
    BY <1>4, <2>1
<1>9. q <= c[p].next /\ c[p].next <= n
  BY <1>4, <1>5
<1> QED
  BY <1>2, <1>4, <1>5, <1>6, <1>7, <1>8, <1>9, <1>n DEF Trimmed, c

(* Take puts one item in use, moves lfree on if it was this item, and      *)
(* counts its bytes.                                                       *)
LEMMA TakeStep ==
  ASSUME NEW it, NEW l, NEW u, HeapInv(it, l, u), NEW p, NEW size, Fits(it, l, p, size)
  PROVE  \E ft, m, v : /\ Take(Hp(it, l, u), p, size) = Hp(ft, m, v) /\ HeapInv(ft, m, v)
                       /\ UsedItems(ft) = UsedItems(it) \cup {p} /\ KeepsOthers(it, ft, {})
                       /\ p + SIZEOF_STRUCT_MEM + size <= ft[p].next
<1> DEFINE wide == Room(Hp(it, l, u), p) >= size + SIZEOF_STRUCT_MEM + MIN_SIZE_ALIGNED
           st == IF wide THEN Cut(it, p, size) ELSE it
           ft == Marked(st, p, TRUE)
           v == u + st[p].next - p
           m == IF l = p THEN LowestFree(Hp(ft, l, v), p) ELSE l
<1>0. Chain(it) /\ Low(it, l) /\ Apart(it, {}) /\ u = Cardinality(Bytes(it)) /\ u \in Nat
  BY BytesFinite DEF HeapInv
<1>1. /\ p \in DOMAIN it \ {heap_end} /\ ~it[p].used /\ l <= p /\ size \in Nat /\ Aligned(size)
      /\ p + SIZEOF_STRUCT_MEM + size <= it[p].next
  BY DEF Fits
<1>2. /\ p \in Nat /\ it[p].next \in Nat /\ it[p].next <= heap_end /\ SIZEOF_STRUCT_MEM \in Nat /\ SIZEOF_STRUCT_MEM > 0
      /\ MIN_SIZE_ALIGNED \in Nat /\ l \in Nat /\ l \in DOMAIN it /\ it[p].next \in DOMAIN it
  <2>1. MIN_SIZE_ALIGNED \in Nat
    BY MemParameters, RoundedUp DEF MIN_SIZE_ALIGNED
  <2>2. l \in DOMAIN it
    BY <1>0 DEF Low
  <2> QED
    BY <1>0, <1>1, <2>1, <2>2, ChainItem, MemParameters
<1>3. Trimmed(it, p, size, st)
  <2>1. CASE wide
    <3>1. Cuttable(it, p, size)
      <4>1. it[p].next - p - SIZEOF_STRUCT_MEM >= size + SIZEOF_STRUCT_MEM + MIN_SIZE_ALIGNED
        BY <2>1, HpFields DEF Room
      <4>2. p + SIZEOF_STRUCT_MEM + size + SIZEOF_STRUCT_MEM <= it[p].next
        BY <1>1, <1>2, <4>1
      <4> QED
        BY <1>0, <1>1, <4>2 DEF Cuttable
    <3>2. st = Cut(it, p, size)
      BY <2>1
    <3> HIDE DEF st
    <3> QED
      BY <3>1, <3>2, TrimStep
  <2>2. CASE ~wide
    <3>1. st = it
      BY <2>2
    <3>2. SameUsed(it, it) /\ Apart(it, {p})
      BY <1>0 DEF SameUsed, Apart
    <3> HIDE DEF st
    <3> QED
      BY <1>0, <1>1, <1>2, <3>1, <3>2 DEF Trimmed
  <2> QED
    BY <2>1, <2>2
<1>4. Take(Hp(it, l, u), p, size) = Hp(ft, m, v)
  <2> DEFINE h == Hp(it, l, u)
             s == IF wide THEN Split(h, p, size) ELSE h
             w == [s EXCEPT !.item[p].used = TRUE, !.inuse = @ + s.item[p].next - p]
  <2>1. Take(h, p, size) = [w EXCEPT !.lfree = IF w.lfree = p THEN LowestFree(w, p) ELSE w.lfree]
    BY DEF Take
  <2>2. s = Hp(st, l, u)
    BY SplitItems
  <2> HIDE DEF st, s
  <2>3. s.item = st /\ s.inuse = u
    BY <2>2, HpFields
  <2>4. w = [s EXCEPT !.item = ft, !.inuse = v]
    BY <2>3 DEF Marked
  <2> HIDE DEF ft, v, w
  <2>5. w = Hp(ft, l, v)
    <3>1. [Hp(st, l, u) EXCEPT !.item = ft, !.inuse = v] = Hp(ft, l, v)
      <4>1. [Hp(st, l, u) EXCEPT !.item = ft] = Hp(ft, l, u)
        BY DEF Hp
      <4>2. [Hp(ft, l, u) EXCEPT !.inuse = v] = Hp(ft, l, v)
        BY DEF Hp
      <4>3. [Hp(st, l, u) EXCEPT !.item = ft, !.inuse = v] = [[Hp(st, l, u) EXCEPT !.item = ft] EXCEPT !.inuse = v]
        OBVIOUS
      <4> QED
        BY <4>1, <4>2, <4>3
    <3> QED
      BY <2>2, <2>4, <3>1
  <2>6. w.lfree = l
    BY <2>5, HpFields
  <2>7. [w EXCEPT !.lfree = IF w.lfree = p THEN LowestFree(w, p) ELSE w.lfree] = Hp(ft, m, v)
    <3>1. m = IF w.lfree = p THEN LowestFree(w, p) ELSE w.lfree
      BY <2>5, <2>6
    <3> HIDE DEF m
    <3> QED
      BY <2>5, <3>1, HpLfree
  <2> QED
    BY <2>1, <2>7
<1> HIDE DEF wide, st
<1>5. /\ Chain(st) /\ p \in DOMAIN st \ {heap_end} /\ ~st[p].used
      /\ p + SIZEOF_STRUCT_MEM + size <= st[p].next /\ st[p].next <= it[p].next
      /\ SameUsed(it, st) /\ Apart(st, {p}) /\ DOMAIN it \subseteq DOMAIN st
      /\ \A x \in DOMAIN st : x <= p => x \in DOMAIN it /\ st[x].used = it[x].used
  BY <1>3 DEF Trimmed
<1>6. /\ Chain(ft) /\ DOMAIN ft = DOMAIN st
      /\ \A x \in DOMAIN st : /\ x = p => ft[x].used
                              /\ x # p => ft[x].used = st[x].used
                              /\ ft[x].next = st[x].next
  <2>1. Chain(st) /\ p \in DOMAIN st \ {heap_end} /\ TRUE \in BOOLEAN
    BY <1>5
  <2>2. IsMarked(st, p, TRUE, ft)
    BY <2>1, MarkedChain
  <2> HIDE DEF ft
  <2> QED
    BY <2>2 DEF IsMarked
<1> HIDE DEF ft
<1>7. Apart(ft, {})
  <2> SUFFICES ASSUME NEW x \in DOMAIN ft \ {heap_end}, x # p PROVE ft[x].used \/ ft[ft[x].next].used
    BY <1>5, <1>6 DEF Apart
  <2>1. st[x].used \/ st[st[x].next].used
    BY <1>5, <1>6 DEF Apart
  <2>2. st[x].next \in DOMAIN st
    BY <1>5, <1>6, ChainItem
  <2> QED
    BY <1>6, <2>1, <2>2
<1>8. UsedItems(ft) = UsedItems(it) \cup {p} /\ \A x \in UsedItems(it) : ft[x].next = it[x].next
  <2>1. UsedItems(st) = UsedItems(it) /\ \A x \in UsedItems(it) : st[x].next = it[x].next
    BY <1>5 DEF SameUsed
  <2>2. UsedItems(ft) = UsedItems(st) \cup {p}
    BY <1>5, <1>6 DEF UsedItems
  <2>3. \A x \in UsedItems(st) : ft[x].next = st[x].next
    BY <1>6 DEF UsedItems
  <2> QED
    BY <2>1, <2>2, <2>3
<1>9. ft[p].next = st[p].next /\ ft[p].next \in Nat /\ p < ft[p].next
  <2>1. ft[p].next = st[p].next
    BY <1>5, <1>6
  <2> QED
    BY <1>5, <1>6, <2>1, ChainItem
<1>10. v = Cardinality(Bytes(ft))
  <2>1. MoreUsed(it, ft, p)
    BY <1>1, <1>5, <1>8, <1>9 DEF MoreUsed
  <2>2. Cardinality(Bytes(ft)) = Cardinality(Bytes(it)) + (ft[p].next - p)
    BY <1>0, <2>1, BytesMore
  <2> QED
    BY <1>0, <1>2, <1>9, <2>2
<1> HIDE DEF v
<1>11. Low(ft, m)
  <2>1. CASE l = p
    <3> DEFINE free == {q \in Free(Hp(ft, l, v)) : q > p}
    <3>1. Free(Hp(ft, l, v)) = {q \in DOMAIN ft \ {heap_end} : ~ft[q].used}
      BY HpFields DEF Free
    <3>2. m = Min({heap_end} \cup free)
      BY <2>1 DEF LowestFree
    <3>3. {heap_end} \cup free \in SUBSET Nat
      BY <1>6, <3>1, ChainItem, MemParameters
    <3> HIDE DEF free, m
    <3>4. m \in {heap_end} \cup free /\ \A y \in {heap_end} \cup free : m <= y
      BY <3>2, <3>3, MinimumOf
    <3>5. m \in DOMAIN ft /\ (m # heap_end => ~ft[m].used) /\ m \in Nat
      <4>1. heap_end \in DOMAIN ft
        BY <1>6 DEF Chain
      <4> QED
        BY <3>1, <3>3, <3>4, <4>1 DEF free
    <3>6. ASSUME NEW x \in DOMAIN ft, x < m PROVE ft[x].used
      <4>0. x \in Nat /\ x <= heap_end
        BY <1>6, ChainItem
      <4>1. CASE x = p
        BY <1>6, <4>1
      <4>2. CASE x < p
        <5>1. x \in DOMAIN it /\ st[x].used = it[x].used
          BY <1>2, <1>5, <1>6, <4>0, <4>2
        <5>2. it[x].used
          BY <1>0, <2>1, <4>2, <5>1 DEF Low
        <5> QED
          BY <1>6, <5>1, <5>2
      <4>3. CASE x > p
        <5> SUFFICES ASSUME ~ft[x].used PROVE FALSE
          OBVIOUS
        <5>1. x # heap_end
          BY <1>6 DEF Chain
        <5>2. x \in free
          BY <3>1, <4>3, <5>1 DEF free
        <5> QED
          BY <3>4, <3>5, <3>6, <4>0, <5>2
      <4> QED
        BY <1>2, <4>0, <4>1, <4>2, <4>3
    <3> QED
      BY <3>5, <3>6 DEF Low
  <2>2. CASE l # p
    <3>1. m = l /\ l < p
      BY <1>1, <1>2, <2>2
    <3>2. l # heap_end /\ l \in DOMAIN st /\ ~st[l].used
      <4>0. p < heap_end /\ heap_end \in Nat
        BY <1>0, <1>1, ChainItem, MemParameters
      <4>1. l # heap_end
        BY <1>2, <3>1, <4>0
      <4>2. ~it[l].used
        BY <1>0, <4>1 DEF Low
      <4>3. l \in DOMAIN st
        BY <1>2, <1>5
      <4> QED
        BY <1>1, <1>5, <4>1, <4>2, <4>3
    <3>3. ASSUME NEW x \in DOMAIN ft, x < l PROVE ft[x].used
      <4>0. x \in Nat
        BY <1>6, ChainItem
      <4>1. x <= p /\ x # p
        BY <1>2, <3>1, <3>3, <4>0
      <4>2. x \in DOMAIN it /\ st[x].used = it[x].used
        BY <1>5, <1>6, <4>1
      <4>3. it[x].used
        BY <1>0, <3>3, <4>2 DEF Low
      <4> QED
        BY <1>6, <4>1, <4>2, <4>3
    <3>4. ~ft[l].used /\ l \in DOMAIN ft
      BY <1>6, <2>2, <3>2
    <3> QED
      BY <3>1, <3>3, <3>4 DEF Low
  <2> QED
    BY <2>1, <2>2
<1> HIDE DEF m
<1>12. HeapInv(ft, m, v)
  BY <1>6, <1>7, <1>10, <1>11 DEF HeapInv
<1>13. KeepsOthers(it, ft, {})
  BY <1>8 DEF KeepsOthers
<1> QED
  BY <1>4, <1>5, <1>8, <1>9, <1>12, <1>13

(* The size that a request for k bytes needs.                              *)
Needed(k) == Max({k, MIN_SIZE_ALIGNED})

(* It is aligned, and not less.                                            *)
LEMMA NeededSize ==
  ASSUME NEW k \in Nat, Aligned(k)
  PROVE  Needed(k) \in Nat /\ Aligned(Needed(k)) /\ k <= Needed(k)
<1>1. MIN_SIZE_ALIGNED \in Nat /\ Aligned(MIN_SIZE_ALIGNED)
  BY MemParameters, RoundedUp DEF MIN_SIZE_ALIGNED
<1>2. Needed(k) = IF k >= MIN_SIZE_ALIGNED THEN k ELSE MIN_SIZE_ALIGNED
  BY <1>1, MaximumOf DEF Needed
<1> QED
  BY <1>1, <1>2

(* No free item has the room for k bytes.                                  *)
FullFor(it, k) == \A p \in DOMAIN it \ {heap_end} : ~it[p].used => it[p].next - p - SIZEOF_STRUCT_MEM < Needed(k)

(* What a call returns: the heap after it and an item.                     *)
Result(h, r) == [heap |-> h, ret |-> r]

(* The application has lost the items P and got the item r, which it did   *)
(* not have, with room for k bytes; its other items end where they did.    *)
Moved(it, ft, P, r, k) ==
  /\ UsedItems(ft) = (UsedItems(it) \ P) \cup ({r} \ {NoMem})
  /\ \A x \in UsedItems(it) \ P : x # r => ft[x].next = it[x].next
  /\ r # NoMem => r \in Nat /\ r + SIZEOF_STRUCT_MEM + k <= ft[r].next /\ r \notin UsedItems(it) \ P

(* A call that returns an item.                                            *)
Gives(it, a, P, k) ==
  \E ft, m, v, r : a = Result(Hp(ft, m, v), r) /\ r \in Nat /\ HeapInv(ft, m, v) /\ Moved(it, ft, P, r, k)

(* The walk from lfree to mem_size_aligned - size meets every free item    *)
(* with the room: none lies before lfree, and one that begins later would  *)
(* reach beyond heap_end.                                                  *)
LEMMA NoCandidates ==
  ASSUME NEW it, NEW l, NEW u, HeapInv(it, l, u), NEW k \in Nat, Aligned(k),
         Needed(k) > mem_size_aligned \/ Candidates(Hp(it, l, u), Needed(k)) = {}
  PROVE  FullFor(it, k)
<1> DEFINE size == Needed(k)
<1>0. size \in Nat /\ Chain(it) /\ Low(it, l)
  BY NeededSize DEF HeapInv
<1> HIDE DEF size
<1> SUFFICES ASSUME NEW p \in DOMAIN it \ {heap_end}, ~it[p].used, it[p].next - p - SIZEOF_STRUCT_MEM >= size PROVE FALSE
  <2>1. ASSUME NEW p \in DOMAIN it \ {heap_end}, ~it[p].used PROVE it[p].next - p - SIZEOF_STRUCT_MEM < size
    <3>1. p \in Nat /\ it[p].next \in Nat /\ SIZEOF_STRUCT_MEM \in Nat
      BY <1>0, ChainItem, MemParameters
    <3> QED
      BY <1>0, <2>1, <3>1
  <2> QED
    BY <2>1 DEF FullFor, size
<1>1. p \in Nat /\ it[p].next \in Nat /\ it[p].next <= heap_end /\ l \in Nat
  BY <1>0, ChainItem DEF Low
<1>2. heap_end = mem_size_aligned + SIZEOF_STRUCT_MEM /\ mem_size_aligned \in Nat /\ SIZEOF_STRUCT_MEM \in Nat
  BY MemParameters
<1>3. p <= mem_size_aligned - size /\ size <= mem_size_aligned
  BY <1>0, <1>1, <1>2
<1>4. l <= p
  BY <1>0, <1>1 DEF Low
<1>5. p \in Candidates(Hp(it, l, u), size)
  <2>1. Hp(it, l, u).item = it /\ Hp(it, l, u).lfree = l
    BY HpFields
  <2>2. p \in Free(Hp(it, l, u)) /\ Room(Hp(it, l, u), p) >= size
    BY <2>1 DEF Free, Room
  <2> QED
    BY <1>3, <1>4, <2>1, <2>2 DEF Candidates
<1> QED
  BY <1>0, <1>2, <1>3, <1>5 DEF size

(* rt_smem_alloc gives an item, or there is none.                          *)
LEMMA AllocStep ==
  ASSUME NEW it, NEW l, NEW u, HeapInv(it, l, u), NEW c \in Nat
  PROVE  LET a == rt_smem_alloc(Hp(it, l, u), c) IN
         \/ a = Result(Hp(it, l, u), NoMem) /\ (c = 0 \/ FullFor(it, RT_ALIGN(c)))
         \/ Gives(it, a, {}, RT_ALIGN(c))
<1> DEFINE k == RT_ALIGN(c)  size == Needed(k)  h == Hp(it, l, u)  C == Candidates(h, size)  a == rt_smem_alloc(h, c)
<1>1. k \in Nat /\ Aligned(k) /\ size \in Nat /\ Aligned(size) /\ k <= size
  BY RoundedUp, NeededSize
<1>2. a = IF c = 0 \/ size > mem_size_aligned \/ C = {} THEN Result(h, NoMem) ELSE Result(Take(h, Min(C), size), Min(C))
  BY DEF rt_smem_alloc, Needed, Result
<1>3. CASE c = 0
  BY <1>2, <1>3
<1>4. CASE c # 0 /\ (size > mem_size_aligned \/ C = {})
  <2>1. FullFor(it, k)
    BY <1>1, <1>4, NoCandidates
  <2> QED
    BY <1>2, <1>4, <2>1
<1>5. CASE c # 0 /\ ~(size > mem_size_aligned) /\ C # {}
  <2> DEFINE p == Min(C)
  <2>0. Chain(it)
    BY DEF HeapInv
  <2>1. C \in SUBSET Nat
    <3>1. h.item = it
      BY HpFields
    <3> QED
      BY <2>0, <3>1, ChainItem DEF Candidates, Free
  <2>2. p \in C
    BY <1>5, <2>1, MinimumOf
  <2>3. a = Result(Take(h, p, size), p)
    BY <1>2, <1>5
  <2> HIDE DEF p, a, C, size, k
  <2>4. Fits(it, l, p, size)
    <3>1. h.item = it /\ h.lfree = l
      BY HpFields
    <3>2. p \in DOMAIN it \ {heap_end} /\ ~it[p].used /\ l <= p /\ it[p].next - p - SIZEOF_STRUCT_MEM >= size
      BY <2>2, <3>1 DEF C, Candidates, Free, Room
    <3>3. p \in Nat /\ it[p].next \in Nat /\ SIZEOF_STRUCT_MEM \in Nat
      BY <2>0, <3>2, ChainItem, MemParameters
    <3>4. p + SIZEOF_STRUCT_MEM + size <= it[p].next
      BY <1>1, <3>2, <3>3
    <3> QED
      BY <1>1, <3>2, <3>4 DEF Fits
  <2>5. PICK ft, m, v : /\ Take(h, p, size) = Hp(ft, m, v) /\ HeapInv(ft, m, v)
                        /\ UsedItems(ft) = UsedItems(it) \cup {p} /\ KeepsOthers(it, ft, {})
                        /\ p + SIZEOF_STRUCT_MEM + size <= ft[p].next
    BY <2>4, TakeStep
  <2>6. p \in Nat /\ p # NoMem /\ p \notin UsedItems(it)
    BY <2>1, <2>2, <2>4, MemParameters DEF Fits, UsedItems
  <2>7. p + SIZEOF_STRUCT_MEM + k <= ft[p].next
    <3>1. p \in DOMAIN ft /\ Chain(ft)
      BY <2>5 DEF UsedItems, HeapInv
    <3>2. ft[p].next \in Nat /\ SIZEOF_STRUCT_MEM \in Nat
      BY <3>1, ChainItem, MemParameters
    <3> QED
      BY <1>1, <2>5, <2>6, <3>2
  <2>8. Moved(it, ft, {}, p, k)
    BY <2>5, <2>6, <2>7 DEF Moved, KeepsOthers
  <2>9. Gives(it, a, {}, k)
    BY <2>3, <2>5, <2>6, <2>8 DEF Gives
  <2> QED
    BY <2>9 DEF a, k
<1> QED
  BY <1>3, <1>4, <1>5

(* rt_smem_free leaves a heap that keeps the invariant and has lost only   *)
(* the block at p.                                                         *)
Frees(it, l, u, p, k) ==
  \E ft, m, v : rt_smem_free(Hp(it, l, u), p) = Hp(ft, m, v) /\ HeapInv(ft, m, v) /\ Moved(it, ft, {p}, NoMem, k)

(* rt_smem_free in the same terms.                                         *)
LEMMA FreeMoves ==
  ASSUME NEW it, NEW l, NEW u, HeapInv(it, l, u), NEW p \in UsedItems(it), NEW k
  PROVE  Frees(it, l, u, p, k)
<1>1. PICK ft, m, v : /\ rt_smem_free(Hp(it, l, u), p) = Hp(ft, m, v) /\ HeapInv(ft, m, v)
                      /\ UsedItems(ft) = UsedItems(it) \ {p} /\ KeepsOthers(it, ft, {p})
  BY FreeStep
<1>2. Moved(it, ft, {p}, NoMem, k)
  BY <1>1 DEF Moved, KeepsOthers
<1> QED
  BY <1>1, <1>2 DEF Frees

-----------------------------------------------------------------------------
(* rt_smem_realloc: an item is cut, kept or moved.                         *)

(* A cut of an item in use takes the bytes behind the cut out of the       *)
(* count.                                                                  *)
LEMMA CutUsed ==
  ASSUME NEW it, Chain(it), NEW p \in UsedItems(it), NEW size, Cuttable(it, p, size), NEW q, NEW n, CutAt(it, p, size, q, n)
  PROVE  LET c == Cut(it, p, size) IN
         /\ IsCut(it, p, q, n, c) /\ Chain(c) /\ c[p].next = q /\ q # heap_end
         /\ UsedItems(c) = UsedItems(it) /\ KeepsOthers(it, c, {p})
         /\ Cardinality(Bytes(c)) = Cardinality(Bytes(it)) - (n - q)
<1> DEFINE c == Cut(it, p, size)  kt == Marked(it, p, FALSE)
<1>0. p \in DOMAIN it \ {heap_end} /\ it[p].used /\ n = it[p].next
  BY DEF UsedItems, CutAt
<1>1. IsCut(it, p, q, n, c) /\ Chain(c)
  BY CutItems, CutChain
<1>2. IsMarked(it, p, FALSE, kt)
  BY <1>0, MarkedChain
<1> HIDE DEF c, kt
<1>3. /\ q \in Nat /\ n \in Nat /\ p \in Nat /\ p < q /\ q < n /\ n \in DOMAIN it /\ q \notin DOMAIN it /\ n <= heap_end
      /\ DOMAIN c = DOMAIN it \cup {q}
      /\ \A x \in DOMAIN it \cup {q} :
           /\ c[x].used = IF x = q THEN FALSE ELSE it[x].used
           /\ c[x].next = IF x = q THEN n ELSE IF x = p THEN q ELSE it[x].next
  BY <1>1 DEF IsCut
<1>4. /\ Chain(kt) /\ DOMAIN kt = DOMAIN it /\ ~kt[p].used
      /\ \A x \in DOMAIN it : /\ x # p => kt[x].used = it[x].used
                              /\ kt[x].next = it[x].next
  BY <1>0, <1>2 DEF IsMarked
<1>5. q # heap_end /\ c[p].next = q
  <2>1. q # heap_end
    BY <1>3, MemParameters
  <2>2. p # q
    BY <1>3
  <2> QED
    BY <1>0, <1>3, <2>1, <2>2
<1>6. UsedItems(c) = UsedItems(it)
  BY <1>3 DEF UsedItems
<1>7. KeepsOthers(it, c, {p})
  BY <1>3 DEF KeepsOthers, UsedItems
<1>8. UsedItems(it) = UsedItems(kt) \cup {p} /\ p \notin UsedItems(kt)
  BY <1>0, <1>4 DEF UsedItems
<1>9. kt[p].next = n
  BY <1>0, <1>4
<1>10. MoreUsed(kt, it, p)
  <2>1. \A x \in UsedItems(kt) : it[x].next = kt[x].next
    BY <1>4 DEF UsedItems
  <2>2. p < it[p].next /\ it[p].next <= kt[p].next /\ it[p].next \in Nat
    BY <1>0, <1>3, <1>9
  <2> QED
    BY <1>0, <1>4, <1>8, <2>1, <2>2 DEF MoreUsed
<1>11. MoreUsed(kt, c, p)
  <2>1. \A x \in UsedItems(kt) : c[x].next = kt[x].next
    <3> SUFFICES ASSUME NEW x \in UsedItems(kt) PROVE c[x].next = kt[x].next
      OBVIOUS
    <3>1. x \in DOMAIN it /\ x # p /\ x # q
      BY <1>3, <1>4, <1>8 DEF UsedItems
    <3> QED
      BY <1>3, <1>4, <3>1
  <2>2. p < c[p].next /\ c[p].next <= kt[p].next /\ c[p].next \in Nat
    BY <1>3, <1>5, <1>9
  <2> QED
    BY <1>0, <1>4, <1>6, <1>8, <2>1, <2>2 DEF MoreUsed
<1>12. Cardinality(Bytes(it)) = Cardinality(Bytes(kt)) + (n - p)
  BY <1>0, <1>4, <1>10, BytesMore
<1>13. Cardinality(Bytes(c)) = Cardinality(Bytes(kt)) + (q - p)
  BY <1>4, <1>5, <1>11, BytesMore
<1>14. Cardinality(Bytes(c)) = Cardinality(Bytes(it)) - (n - q)
  BY <1>3, <1>12, <1>13, BytesFinite
<1> QED
  BY <1>1, <1>5, <1>6, <1>7, <1>14 DEF c

(* The item is cut, and the free item behind it joined with the next one   *)
(* if that is free.                                                        *)
LEMMA ShrinkStep ==
  ASSUME NEW it, NEW l, NEW u, HeapInv(it, l, u), NEW p \in UsedItems(it), NEW size, Cuttable(it, p, size)
  PROVE  Gives(it, Result(Shrink(Hp(it, l, u), p, size), p), {p}, size)
<1> DEFINE h == Hp(it, l, u)  c == Cut(it, p, size)  q == p + SIZEOF_STRUCT_MEM + size  n == it[p].next
           v == u - (Room(h, p) - size)  m == IF q < l THEN q ELSE l
<1>0. Chain(it) /\ Low(it, l) /\ Apart(it, {}) /\ u = Cardinality(Bytes(it)) /\ u \in Nat /\ size \in Nat
  BY BytesFinite DEF HeapInv, Cuttable
<1>1. CutAt(it, p, size, q, n)
  BY DEF CutAt
<1>n. n = it[p].next /\ q = p + SIZEOF_STRUCT_MEM + size
  OBVIOUS
<1>2. /\ IsCut(it, p, q, n, c) /\ Chain(c) /\ c[p].next = q /\ q # heap_end
      /\ UsedItems(c) = UsedItems(it) /\ KeepsOthers(it, c, {p})
      /\ Cardinality(Bytes(c)) = Cardinality(Bytes(it)) - (n - q)
  <2> HIDE DEF q, n
  <2> QED
    BY <1>0, <1>1, CutUsed
<1>3. Shrink(h, p, size) = plug_holes(Hp(c, m, v), q)
  <2>1. [h EXCEPT !.inuse = h.inuse - (Room(h, p) - size)] = Hp(it, l, v)
    BY HpFields, HpInuse
  <2>2. Split([h EXCEPT !.inuse = h.inuse - (Room(h, p) - size)], p, size) = Hp(c, l, v)
    BY <2>1, SplitItems
  <2> DEFINE s == Split([h EXCEPT !.inuse = h.inuse - (Room(h, p) - size)], p, size)
  <2>3. Shrink(h, p, size) = plug_holes([s EXCEPT !.lfree = Lowest(s, s.item[p].next)], s.item[p].next)
    BY DEF Shrink
  <2>s. s = Hp(c, l, v)
    BY <2>2
  <2> HIDE DEF s, v, c, q
  <2>4. s.item[p].next = q /\ s.lfree = l
    BY <1>2, <2>s, HpFields
  <2>5. Lowest(s, q) = m
    BY <2>4 DEF Lowest
  <2>6. [s EXCEPT !.lfree = m] = Hp(c, m, v)
    <3> HIDE DEF m
    <3> QED
      BY <2>s, HpLfree
  <2> QED
    BY <2>3, <2>4, <2>5, <2>6
<1> HIDE DEF c, q, n
<1>4. /\ q \in Nat /\ n \in Nat /\ p \in Nat /\ p < q /\ q < n /\ n \in DOMAIN it /\ q \notin DOMAIN it /\ n <= heap_end
      /\ DOMAIN c = DOMAIN it \cup {q}
      /\ \A x \in DOMAIN it \cup {q} :
           /\ c[x].used = IF x = q THEN FALSE ELSE it[x].used
           /\ c[x].next = IF x = q THEN n ELSE IF x = p THEN q ELSE it[x].next
           /\ c[x].prev = IF x = q THEN p ELSE IF x = n /\ n # heap_end THEN q ELSE it[x].prev
  BY <1>2 DEF IsCut
<1>5. q \in DOMAIN c \ {heap_end} /\ ~c[q].used /\ c[q].prev = p
  BY <1>2, <1>4
<1>6. l \in Nat /\ l \in DOMAIN it /\ l # q
  BY <1>0, <1>4, ChainItem DEF Low
<1>7. Low(c, m)
  <2>1. ASSUME NEW x \in DOMAIN c, x < m PROVE c[x].used
    <3>1. x \in Nat
      BY <1>2, ChainItem
    <3>2. x < l /\ x # q
      BY <1>4, <1>6, <2>1, <3>1
    <3> QED
      BY <1>0, <1>4, <3>2 DEF Low
  <2>2. m \in DOMAIN c
    BY <1>4, <1>5, <1>6
  <2>3. m # heap_end => ~c[m].used
    <3>1. CASE q < l
      BY <1>5, <3>1
    <3>2. CASE ~(q < l)
      <4>1. m = l
        BY <3>2
      <4> QED
        BY <1>0, <1>4, <1>6, <4>1 DEF Low
    <3> QED
      BY <3>1, <3>2
  <2> HIDE DEF m
  <2> QED
    BY <2>1, <2>2, <2>3 DEF Low
<1> HIDE DEF m
<1>8. Apart(c, {q, c[q].prev})
  <2> SUFFICES ASSUME NEW x \in DOMAIN c \ {heap_end}, x # q, x # p PROVE c[x].used \/ c[c[x].next].used
    BY <1>5 DEF Apart
  <2>1. x \in DOMAIN it \ {heap_end} /\ c[x].next = it[x].next /\ c[x].used = it[x].used
    BY <1>4
  <2>2. it[x].used \/ it[it[x].next].used
    BY <1>0, <2>1 DEF Apart
  <2>3. it[x].next \in DOMAIN it /\ it[x].next # q
    BY <1>0, <1>4, <2>1, ChainItem
  <2> QED
    BY <1>4, <2>1, <2>2, <2>3
<1>9. Pluggable(c, m, q)
  BY <1>2, <1>5, <1>7, <1>8 DEF Pluggable
<1>10. PICK ft : /\ plug_holes(Hp(c, m, v), q) = Hp(ft, m, v)
                 /\ Chain(ft) /\ Low(ft, m) /\ Apart(ft, {}) /\ SameUsed(c, ft)
  BY <1>9, PlugHoles
<1>11. v = Cardinality(Bytes(ft))
  <2>1. v = u - ((n - p - SIZEOF_STRUCT_MEM) - size)
    BY HpFields DEF Room, n
  <2>2. Cardinality(Bytes(ft)) = u - (n - q)
    BY <1>0, <1>2, <1>10, SameBytes
  <2>3. SIZEOF_STRUCT_MEM \in Nat
    BY MemParameters
  <2> HIDE DEF v
  <2> QED
    BY <1>0, <1>4, <1>n, <2>1, <2>2, <2>3
<1> HIDE DEF v
<1>12. HeapInv(ft, m, v)
  BY <1>10, <1>11 DEF HeapInv
<1>13. Moved(it, ft, {p}, p, size)
  <2>1. UsedItems(ft) = UsedItems(it) /\ p # NoMem
    BY <1>2, <1>4, <1>10, MemParameters DEF SameUsed
  <2>2. ASSUME NEW x \in UsedItems(it) \ {p} PROVE ft[x].next = it[x].next
    BY <1>2, <1>10, <2>2 DEF SameUsed, KeepsOthers
  <2>3. ft[p].next = q
    BY <1>2, <1>10 DEF SameUsed
  <2>4. q <= ft[p].next
    BY <1>4, <2>3
  <2> QED
    BY <1>4, <1>n, <2>1, <2>2, <2>4 DEF Moved
<1> QED
  BY <1>3, <1>4, <1>10, <1>12, <1>13 DEF Gives

(* rt_smem_realloc gives an item, or frees, or there is no room and        *)
(* nothing changes.                                                        *)
LEMMA ReallocStep ==
  ASSUME NEW it, NEW l, NEW u, HeapInv(it, l, u), NEW p \in UsedItems(it) \cup {NoMem}, NEW c \in Nat
  PROVE  LET a == rt_smem_realloc(Hp(it, l, u), p, c) IN
         \/ a = Result(Hp(it, l, u), NoMem) /\ c # 0 /\ FullFor(it, RT_ALIGN(c))
         \/ /\ c = 0
            /\ \E ft, m, v : a = Result(Hp(ft, m, v), NoMem) /\ HeapInv(ft, m, v) /\ Moved(it, ft, {p}, NoMem, RT_ALIGN(c))
         \/ Gives(it, a, {p}, RT_ALIGN(c))
<1> DEFINE h == Hp(it, l, u)  k == RT_ALIGN(c)  a == rt_smem_realloc(h, p, c)  b == rt_smem_alloc(h, k)
<1>0. Chain(it) /\ NoMem \notin UsedItems(it)
  BY ChainItem, MemParameters DEF HeapInv, UsedItems
<1>1. k \in Nat /\ Aligned(k) /\ (k = 0 <=> c = 0) /\ RT_ALIGN(k) = k
  BY RoundedUp
<1>2. a = IF k > mem_size_aligned THEN Result(h, NoMem)
          ELSE IF k = 0 THEN Result(IF p = NoMem THEN h ELSE rt_smem_free(h, p), NoMem)
          ELSE IF p = NoMem THEN b
          ELSE IF Room(h, p) = k THEN Result(h, p)
          ELSE IF k + SIZEOF_STRUCT_MEM + MIN_SIZE < Room(h, p) THEN Result(Shrink(h, p, k), p)
          ELSE IF b.ret = NoMem THEN b ELSE [b EXCEPT !.heap = rt_smem_free(b.heap, p)]
  BY DEF rt_smem_realloc, Result
<1>r. Room(h, p) = it[p].next - p - SIZEOF_STRUCT_MEM
  BY HpFields DEF Room
<1>b. (b = Result(h, NoMem) /\ (k = 0 \/ FullFor(it, k))) \/ Gives(it, b, {}, k)
  BY <1>1, AllocStep
<1> HIDE DEF a, b, k, h
<1>3. CASE k > mem_size_aligned
  <2>1. mem_size_aligned \in Nat /\ c # 0
    BY <1>1, <1>3, MemParameters
  <2>2. Needed(k) > mem_size_aligned
    BY <1>1, <1>3, <2>1, NeededSize
  <2>3. FullFor(it, k)
    BY <1>1, <2>2, NoCandidates
  <2> QED
    BY <1>2, <1>3, <2>1, <2>3 DEF a, h, k
<1>4. CASE ~(k > mem_size_aligned) /\ k = 0
  <2>1. CASE p = NoMem
    <3>1. a = Result(Hp(it, l, u), NoMem)
      BY <1>2, <1>4, <2>1 DEF h
    <3>2. Moved(it, it, {p}, NoMem, k)
      BY <1>0, <2>1 DEF Moved
    <3> QED
      BY <1>1, <1>4, <3>1, <3>2 DEF a, h, k
  <2>2. CASE p # NoMem
    <3>0. Frees(it, l, u, p, k)
      BY <2>2, FreeMoves
    <3>1. PICK ft, m, v : rt_smem_free(h, p) = Hp(ft, m, v) /\ HeapInv(ft, m, v) /\ Moved(it, ft, {p}, NoMem, k)
      BY <3>0 DEF Frees, h
    <3>2. a = Result(Hp(ft, m, v), NoMem)
      BY <1>2, <1>4, <2>2, <3>1
    <3> QED
      BY <1>1, <1>4, <3>1, <3>2 DEF a, h, k
  <2> QED
    BY <2>1, <2>2
<1>5. CASE ~(k > mem_size_aligned) /\ k # 0 /\ p = NoMem
  <2>1. a = b
    BY <1>2, <1>5
  <2>2. CASE b = Result(h, NoMem) /\ FullFor(it, k)
    BY <1>1, <1>5, <2>1, <2>2 DEF a, h, k
  <2>3. CASE Gives(it, b, {}, k)
    <3>1. UsedItems(it) \ {p} = UsedItems(it) \ {}
      BY <1>0, <1>5
    <3>2. Gives(it, a, {p}, k)
      BY <2>1, <2>3, <3>1 DEF Gives, Moved
    <3> QED
      BY <3>2 DEF a, h, k
  <2> QED
    BY <1>5, <1>b, <2>2, <2>3
<1>6. CASE ~(k > mem_size_aligned) /\ k # 0 /\ p # NoMem /\ Room(h, p) = k
  <2>1. a = Result(h, p)
    BY <1>2, <1>6
  <2>2. p \in UsedItems(it) /\ p \in DOMAIN it \ {heap_end}
    BY <1>6 DEF UsedItems
  <2>3. p \in Nat /\ it[p].next \in Nat /\ SIZEOF_STRUCT_MEM \in Nat
    BY <1>0, <2>2, ChainItem, MemParameters
  <2>4. p + SIZEOF_STRUCT_MEM + k <= it[p].next
    BY <1>1, <1>6, <1>r, <2>3
  <2>5. Moved(it, it, {p}, p, k)
    BY <1>6, <2>2, <2>3, <2>4 DEF Moved
  <2>6. Gives(it, a, {p}, k)
    BY <2>1, <2>3, <2>5 DEF Gives, h
  <2> QED
    BY <2>6 DEF a, h, k
<1>7. CASE ~(k > mem_size_aligned) /\ k # 0 /\ p # NoMem /\ Room(h, p) # k /\ k + SIZEOF_STRUCT_MEM + MIN_SIZE < Room(h, p)
  <2>1. a = Result(Shrink(h, p, k), p)
    BY <1>2, <1>7
  <2>2. p \in UsedItems(it) /\ p \in DOMAIN it \ {heap_end}
    BY <1>7 DEF UsedItems
  <2>3. p \in Nat /\ it[p].next \in Nat /\ SIZEOF_STRUCT_MEM \in Nat /\ MIN_SIZE \in Nat
    BY <1>0, <2>2, ChainItem, MemParameters
  <2>4. p + SIZEOF_STRUCT_MEM + k + SIZEOF_STRUCT_MEM <= it[p].next
    BY <1>1, <1>7, <1>r, <2>3
  <2>5. Cuttable(it, p, k)
    BY <1>0, <1>1, <2>2, <2>4 DEF Cuttable
  <2>6. Gives(it, a, {p}, k)
    BY <2>1, <2>2, <2>5, ShrinkStep DEF h
  <2> QED
    BY <2>6 DEF a, h, k
<1>8. CASE ~(k > mem_size_aligned) /\ k # 0 /\ p # NoMem /\ Room(h, p) # k /\ ~(k + SIZEOF_STRUCT_MEM + MIN_SIZE < Room(h, p))
  <2>1. a = IF b.ret = NoMem THEN b ELSE [b EXCEPT !.heap = rt_smem_free(b.heap, p)]
    BY <1>2, <1>8
  <2>2. CASE b = Result(h, NoMem) /\ FullFor(it, k)
    <3>1. b.ret = NoMem
      BY <2>2 DEF Result
    <3> QED
      BY <1>1, <1>8, <2>1, <2>2, <3>1 DEF a, h, k
  <2>3. CASE Gives(it, b, {}, k)
    <3>1. PICK ft, m, v, r : b = Result(Hp(ft, m, v), r) /\ r \in Nat /\ HeapInv(ft, m, v) /\ Moved(it, ft, {}, r, k)
      BY <2>3 DEF Gives
    <3>2. r # NoMem /\ b.ret = r /\ b.heap = Hp(ft, m, v)
      BY <3>1, MemParameters DEF Result
    <3>3. a = Result(rt_smem_free(Hp(ft, m, v), p), r)
      BY <2>1, <3>1, <3>2 DEF Result
    <3>4. p \in UsedItems(it) /\ p \in UsedItems(ft) /\ p # r
      BY <1>8, <3>1, <3>2 DEF Moved
    <3> HIDE DEF k
    <3>a. Frees(ft, m, v, p, k)
      BY <3>1, <3>4, FreeMoves
    <3>5. PICK gt, m2, v2 : /\ rt_smem_free(Hp(ft, m, v), p) = Hp(gt, m2, v2) /\ HeapInv(gt, m2, v2)
                            /\ Moved(ft, gt, {p}, NoMem, k)
      BY <3>a DEF Frees
    <3>6. UsedItems(gt) = (UsedItems(it) \ {p}) \cup ({r} \ {NoMem})
      <4>1. UsedItems(ft) = UsedItems(it) \cup {r} /\ UsedItems(gt) = UsedItems(ft) \ {p}
        BY <3>1, <3>2, <3>5 DEF Moved
      <4> QED
        BY <3>2, <3>4, <4>1
    <3>7. \A x \in UsedItems(ft) \ {p} : gt[x].next = ft[x].next
      <4>1. NoMem \notin UsedItems(ft)
        <5>1. Chain(ft)
          BY <3>1 DEF HeapInv
        <5> QED
          BY <5>1, ChainItem, MemParameters DEF UsedItems
      <4> QED
        BY <3>5, <4>1 DEF Moved
    <3>8. r \in UsedItems(ft) \ {p} /\ UsedItems(it) \subseteq UsedItems(ft)
      BY <3>1, <3>2, <3>4 DEF Moved
    <3>9. \A x \in UsedItems(it) \ {p} : x # r => gt[x].next = it[x].next
      BY <3>1, <3>7, <3>8 DEF Moved
    <3>10. r + SIZEOF_STRUCT_MEM + k <= gt[r].next /\ r \notin UsedItems(it) \ {p}
      BY <3>1, <3>2, <3>7, <3>8 DEF Moved
    <3>11. Moved(it, gt, {p}, r, k)
      BY <3>1, <3>6, <3>9, <3>10 DEF Moved
    <3>12. Gives(it, a, {p}, k)
      BY <3>1, <3>3, <3>5, <3>11 DEF Gives
    <3> QED
      BY <3>12 DEF a, h, k
  <2> QED
    BY <1>8, <1>b, <2>2, <2>3
<1> QED
  BY <1>3, <1>4, <1>5, <1>6, <1>7, <1>8

-----------------------------------------------------------------------------
(* The calls of the application.                                           *)

(* The inductive invariant: the heap is consistent, its used items are the *)
(* blocks of the application, each with the room that was asked for, and   *)
(* the last call failed only for want of room.                             *)
MemInv ==
  /\ HeapInv(item, lfree, inuse)
  /\ block \in [UsedItems(item) -> Nat]
  /\ \A p \in UsedItems(item) : p + SIZEOF_STRUCT_MEM + block[p] <= item[p].next
  /\ none \in Nat /\ (none > 0 => FullFor(item, none))

(* One free item that is the whole heap.                                   *)
LEMMA MemStarts == MemInit => MemInv
<1> SUFFICES ASSUME MemInit PROVE MemInv
  OBVIOUS
<1>1. /\ heap_end \in Nat /\ heap_end > 0 /\ heap_end >= SIZEOF_STRUCT_MEM /\ SIZEOF_STRUCT_MEM \in Nat
      /\ Aligned(0) /\ heap_end # 0
  BY MemParameters
<1>2. item = [p \in {0, heap_end} |-> [used |-> p = heap_end, next |-> heap_end, prev |-> p]]
  BY DEF MemInit
<1>3. DOMAIN item = {0, heap_end} /\ 0 \in Offsets /\ heap_end \in Offsets
  BY <1>1, <1>2 DEF Offsets
<1>4. /\ item[0] = [used |-> FALSE, next |-> heap_end, prev |-> 0]
      /\ item[heap_end] = [used |-> TRUE, next |-> heap_end, prev |-> heap_end]
  BY <1>1, <1>2
<1>5. item \in [DOMAIN item -> Entry]
  <2>1. item[0] \in Entry /\ item[heap_end] \in Entry
    BY <1>3, <1>4 DEF Entry
  <2>2. item = [x \in DOMAIN item |-> item[x]]
    BY <1>2
  <2> QED
    BY <1>3, <2>1, <2>2
<1>6. Chain(item)
  BY <1>1, <1>3, <1>4, <1>5 DEF Chain
<1>7. UsedItems(item) = {}
  BY <1>3, <1>4 DEF UsedItems
<1>8. Low(item, 0)
  BY <1>1, <1>3, <1>4 DEF Low
<1>9. Apart(item, {})
  BY <1>3, <1>4 DEF Apart
<1>10. Cardinality(Bytes(item)) = 0
  <2>1. Bytes(item) = {}
    BY <1>7 DEF Bytes
  <2> QED
    BY <2>1, FS_EmptySet
<1>11. HeapInv(item, lfree, inuse)
  BY <1>6, <1>8, <1>9, <1>10 DEF HeapInv, MemInit
<1> QED
  BY <1>7, <1>11, SMTT(30) DEF MemInv, MemInit

(* A call that gives and takes items keeps the blocks of the application   *)
(* in step with the heap.                                                  *)
LEMMA MemChange ==
  ASSUME MemInv, NEW ft, NEW m, NEW v, HeapInv(ft, m, v), NEW P, NEW r, NEW c \in Nat, Moved(item, ft, P, r, RT_ALIGN(c)),
         Becomes(Hp(ft, m, v)), block' = Held(P, r, c), none' \in Nat, none' > 0 => FullFor(ft, none')
  PROVE  MemInv'
<1>1. item' = ft /\ lfree' = m /\ inuse' = v
  BY HpFields DEF Becomes
<1>2. /\ UsedItems(ft) = (UsedItems(item) \ P) \cup ({r} \ {NoMem})
      /\ \A x \in UsedItems(item) \ P : x # r => ft[x].next = item[x].next
      /\ r # NoMem => r \in Nat /\ r + SIZEOF_STRUCT_MEM + RT_ALIGN(c) <= ft[r].next
  BY DEF Moved
<1>3. /\ block \in [UsedItems(item) -> Nat]
      /\ \A p \in UsedItems(item) : p + SIZEOF_STRUCT_MEM + block[p] <= item[p].next
  BY DEF MemInv
<1>4. RT_ALIGN(c) \in Nat
  BY RoundedUp
<1> DEFINE k == RT_ALIGN(c)
<1>5. block' = [p \in UsedItems(ft) |-> IF p = r THEN k ELSE block[p]]
  BY <1>2, <1>3 DEF Held
<1> HIDE DEF k
<1>6. block' \in [UsedItems(ft) -> Nat]
  <2>1. ASSUME NEW p \in UsedItems(ft) PROVE (IF p = r THEN k ELSE block[p]) \in Nat
    BY <1>2, <1>3, <1>4 DEF k
  <2> QED
    BY <1>5, <2>1
<1>7. ASSUME NEW p \in UsedItems(ft) PROVE p + SIZEOF_STRUCT_MEM + block'[p] <= ft[p].next
  <2>1. CASE p = r
    <3>1. r # NoMem
      <4>1. Chain(ft)
        BY DEF HeapInv
      <4> QED
        BY <2>1, <4>1, ChainItem, MemParameters DEF UsedItems
    <3>2. block'[p] = k
      BY <1>5, <2>1
    <3> QED
      BY <1>2, <2>1, <3>1, <3>2 DEF k
  <2>2. CASE p # r
    <3>1. p \in UsedItems(item) \ P /\ block'[p] = block[p]
      BY <1>2, <1>5, <2>2
    <3> QED
      BY <1>2, <1>3, <2>2, <3>1
  <2> QED
    BY <2>1, <2>2
<1> QED
  BY <1>1, <1>6, <1>7 DEF MemInv

(* The heap of the model.                                                  *)
LEMMA HeapIs == Heap = Hp(item, lfree, inuse)
BY DEF Heap, Hp

(* The parts of a result.                                                  *)
LEMMA ResultFields ==
  ASSUME NEW h, NEW r
  PROVE  Result(h, r).heap = h /\ Result(h, r).ret = r
BY DEF Result

(* rt_malloc.                                                              *)
LEMMA MemMalloc ==
  ASSUME MemInv, NEW c \in Sizes, rt_malloc(c)
  PROVE  MemInv'
<1> DEFINE a == rt_smem_alloc(Heap, c)  k == RT_ALIGN(c)
<1>1. Becomes(a.heap) /\ block' = Held({}, a.ret, c) /\ none' = IF a.ret = NoMem THEN k ELSE 0
  BY DEF rt_malloc
<1>2. c \in Nat /\ k \in Nat /\ (c = 0 => k = 0)
  BY MemParameters, RoundedUp
<1>3. HeapInv(item, lfree, inuse)
  BY DEF MemInv
<1>4. (a = Result(Heap, NoMem) /\ (c = 0 \/ FullFor(item, k))) \/ Gives(item, a, {}, k)
  BY <1>2, <1>3, AllocStep, HeapIs
<1> HIDE DEF a
<1>5. CASE a = Result(Heap, NoMem) /\ (c = 0 \/ FullFor(item, k))
  <2>1. a.heap = Hp(item, lfree, inuse) /\ a.ret = NoMem
    BY <1>5, HeapIs, ResultFields
  <2>2. Moved(item, item, {}, NoMem, k)
    BY DEF Moved
  <2>3. none' \in Nat /\ (none' > 0 => FullFor(item, none'))
    BY <1>1, <1>2, <1>5, <2>1
  <2> QED
    BY <1>1, <1>2, <1>3, <2>1, <2>2, <2>3, MemChange
<1>6. CASE Gives(item, a, {}, k)
  <2>1. PICK ft, m, v, r : a = Result(Hp(ft, m, v), r) /\ r \in Nat /\ HeapInv(ft, m, v) /\ Moved(item, ft, {}, r, k)
    BY <1>6 DEF Gives
  <2>2. a.heap = Hp(ft, m, v) /\ a.ret = r /\ r # NoMem
    BY <2>1, ResultFields, MemParameters
  <2>3. none' = 0
    BY <1>1, <2>2
  <2> QED
    BY <1>1, <1>2, <2>1, <2>2, <2>3, MemChange
<1> QED
  BY <1>4, <1>5, <1>6

(* rt_realloc.                                                             *)
LEMMA MemRealloc ==
  ASSUME MemInv, NEW p \in DOMAIN block \cup {NoMem}, NEW c \in Sizes, rt_realloc(p, c)
  PROVE  MemInv'
<1> DEFINE a == rt_smem_realloc(Heap, p, c)  k == RT_ALIGN(c)  P == IF a.ret = NoMem /\ c # 0 THEN {} ELSE {p}
<1>1. Becomes(a.heap) /\ block' = Held(P, a.ret, c) /\ none' = IF a.ret = NoMem THEN k ELSE 0
  BY DEF rt_realloc
<1>2. c \in Nat /\ k \in Nat /\ (c = 0 => k = 0)
  BY MemParameters, RoundedUp
<1>3. HeapInv(item, lfree, inuse) /\ p \in UsedItems(item) \cup {NoMem}
  BY DEF MemInv
<1>4. \/ a = Result(Heap, NoMem) /\ c # 0 /\ FullFor(item, k)
      \/ /\ c = 0
         /\ \E ft, m, v : a = Result(Hp(ft, m, v), NoMem) /\ HeapInv(ft, m, v) /\ Moved(item, ft, {p}, NoMem, k)
      \/ Gives(item, a, {p}, k)
  BY <1>2, <1>3, ReallocStep, HeapIs
<1> HIDE DEF a
<1>5. CASE a = Result(Heap, NoMem) /\ c # 0 /\ FullFor(item, k)
  <2>1. a.heap = Hp(item, lfree, inuse) /\ a.ret = NoMem
    BY <1>5, HeapIs, ResultFields
  <2>2. Moved(item, item, {}, NoMem, k) /\ P = {}
    BY <1>5, <2>1 DEF Moved
  <2>3. none' \in Nat /\ (none' > 0 => FullFor(item, none'))
    BY <1>1, <1>2, <1>5, <2>1
  <2> HIDE DEF P
  <2> QED
    BY <1>1, <1>2, <1>3, <2>1, <2>2, <2>3, MemChange
<1>6. CASE /\ c = 0
           /\ \E ft, m, v : a = Result(Hp(ft, m, v), NoMem) /\ HeapInv(ft, m, v) /\ Moved(item, ft, {p}, NoMem, k)
  <2>1. PICK ft, m, v : a = Result(Hp(ft, m, v), NoMem) /\ HeapInv(ft, m, v) /\ Moved(item, ft, {p}, NoMem, k)
    BY <1>6
  <2>2. a.heap = Hp(ft, m, v) /\ a.ret = NoMem /\ P = {p}
    BY <1>6, <2>1, ResultFields
  <2>3. none' = 0 /\ ~(none' > 0) /\ none' \in Nat
    BY <1>1, <1>2, <1>6, <2>2
  <2> HIDE DEF P
  <2>4. block' = Held({p}, NoMem, c) /\ Becomes(Hp(ft, m, v))
    BY <1>1, <2>2
  <2>5. HeapInv(ft, m, v) /\ Moved(item, ft, {p}, NoMem, k)
    BY <2>1
  <2> QED
    BY <1>2, <2>3, <2>4, <2>5, MemChange
<1>7. CASE Gives(item, a, {p}, k)
  <2>1. PICK ft, m, v, r : a = Result(Hp(ft, m, v), r) /\ r \in Nat /\ HeapInv(ft, m, v) /\ Moved(item, ft, {p}, r, k)
    BY <1>7 DEF Gives
  <2>2. a.heap = Hp(ft, m, v) /\ a.ret = r /\ r # NoMem
    BY <2>1, ResultFields, MemParameters
  <2>3. none' = 0 /\ P = {p}
    BY <1>1, <2>2
  <2> HIDE DEF P
  <2> QED
    BY <1>1, <1>2, <2>1, <2>2, <2>3, MemChange
<1> QED
  BY <1>4, <1>5, <1>6, <1>7

(* rt_free.                                                                *)
LEMMA MemFree ==
  ASSUME MemInv, NEW p \in DOMAIN block, rt_free(p)
  PROVE  MemInv'
<1>1. Becomes(rt_smem_free(Heap, p)) /\ block' = Held({p}, NoMem, 0) /\ none' = 0
  BY DEF rt_free
<1>2. HeapInv(item, lfree, inuse) /\ p \in UsedItems(item)
  BY DEF MemInv
<1> DEFINE k == RT_ALIGN(0)
<1> HIDE DEF k
<1>a. Frees(item, lfree, inuse, p, k)
  BY <1>2, FreeMoves
<1>3. PICK ft, m, v : /\ rt_smem_free(Hp(item, lfree, inuse), p) = Hp(ft, m, v) /\ HeapInv(ft, m, v)
                      /\ Moved(item, ft, {p}, NoMem, k)
  BY <1>a DEF Frees
<1>4. Moved(item, ft, {p}, NoMem, RT_ALIGN(0)) /\ 0 \in Nat
  BY <1>3 DEF k
<1>5. Becomes(Hp(ft, m, v))
  BY <1>1, <1>3, HeapIs
<1> QED
  BY <1>1, <1>3, <1>4, <1>5, MemChange

(* Every call keeps the invariant.                                         *)
LEMMA MemStep == MemInv /\ [MemNext]_memVars => MemInv'
<1> SUFFICES ASSUME MemInv, [MemNext]_memVars PROVE MemInv'
  OBVIOUS
<1>1. CASE \E c \in Sizes : rt_malloc(c)
  BY <1>1, MemMalloc
<1>2. CASE \E p \in DOMAIN block \cup {NoMem}, c \in Sizes : rt_realloc(p, c)
  BY <1>2, MemRealloc
<1>3. CASE \E p \in DOMAIN block : rt_free(p)
  BY <1>3, MemFree
<1>4. CASE UNCHANGED memVars
  BY <1>4 DEF MemInv, memVars
<1> QED
  BY <1>1, <1>2, <1>3, <1>4 DEF MemNext

(* The invariant says all that HeapConsistent does.                        *)
LEMMA MemConsistent == MemInv => HeapConsistent
<1> SUFFICES ASSUME MemInv PROVE HeapConsistent
  OBVIOUS
<1>1. Chain(item) /\ Low(item, lfree) /\ Apart(item, {}) /\ inuse = Cardinality(Bytes(item))
  BY DEF MemInv, HeapInv
<1>2. Free(Heap) = {p \in DOMAIN item \ {heap_end} : ~item[p].used}
  BY DEF Free, Heap
<1>3. DOMAIN block = UsedItems(item) /\ UsedItems(item) = DOMAIN item \ (Free(Heap) \cup {heap_end})
  BY <1>2 DEF MemInv, UsedItems
<1>4. MemTypeOK
  <2>1. DOMAIN item \subseteq Offsets /\ lfree \in DOMAIN item
    BY <1>1 DEF Chain, Low
  <2>2. ASSUME NEW p \in DOMAIN item PROVE item[p].next \in DOMAIN item /\ item[p].prev \in Offsets
    <3>1. item[p].next \in DOMAIN item /\ item[p] \in Entry
      BY <1>1, ChainItem
    <3> QED
      BY <3>1 DEF Entry
  <2>3. inuse \in Offsets
    BY <1>1, BytesBounded
  <2> QED
    BY <2>1, <2>2, <2>3 DEF MemTypeOK
<1>5. HeapTiled
  <2>1. ASSUME NEW p \in DOMAIN item \ {heap_end}
        PROVE  LET n == item[p].next
               IN /\ p % RT_ALIGN_SIZE = 0 /\ n >= p + SIZEOF_STRUCT_MEM
                  /\ \A q \in DOMAIN item : q <= p \/ n <= q
                  /\ n # heap_end => item[n].prev = p
                  /\ item[p].used \/ item[n].used
    <3>1. /\ Aligned(p) /\ item[p].next >= p + SIZEOF_STRUCT_MEM
          /\ \A q \in DOMAIN item : q <= p \/ item[p].next <= q
      BY <1>1 DEF Chain
    <3>2. item[p].next # heap_end => item[item[p].next].prev = p
      BY <1>1, ChainPrev
    <3>3. item[p].used \/ item[item[p].next].used
      BY <1>1 DEF Apart
    <3> QED
      BY <3>1, <3>2, <3>3 DEF Aligned
  <2>2. item[0].prev = 0
    BY <1>1 DEF Chain
  <2>3. lfree = Min({heap_end} \cup Free(Heap))
    <3> DEFINE T == {heap_end} \cup Free(Heap)  m == Min(T)
    <3>1. T \in SUBSET Nat
      BY <1>1, <1>2, ChainItem, MemParameters
    <3>2. m \in T /\ \A y \in T : m <= y
      BY <3>1, MinimumOf
    <3>3. lfree \in T /\ lfree \in DOMAIN item
      BY <1>1, <1>2 DEF Low
    <3>4. m \in DOMAIN item /\ (m # heap_end => ~item[m].used)
      <4>1. heap_end \in DOMAIN item
        BY <1>1 DEF Chain
      <4> QED
        BY <1>2, <3>2, <4>1
    <3> HIDE DEF m
    <3>5. m \in Nat /\ lfree \in Nat /\ m <= lfree /\ lfree <= heap_end /\ heap_end \in Nat
      BY <1>1, <3>1, <3>2, <3>3, ChainItem, MemParameters
    <3>6. ~(m < lfree)
      <4> SUFFICES ASSUME m < lfree PROVE FALSE
        OBVIOUS
      <4>1. item[m].used
        BY <1>1, <3>4 DEF Low
      <4>2. m = heap_end
        BY <3>4, <4>1
      <4> QED
        BY <3>5, <4>2
    <3> QED
      BY <3>5, <3>6 DEF m
  <2> QED
    BY <2>1, <2>2, <2>3 DEF HeapTiled
<1>6. BlocksKept
  <2>1. ASSUME NEW p \in DOMAIN block PROVE Room(Heap, p) >= block[p]
    <3>1. p \in UsedItems(item) /\ p \in DOMAIN item
      BY <1>3 DEF UsedItems
    <3>2. p + SIZEOF_STRUCT_MEM + block[p] <= item[p].next /\ block[p] \in Nat
      BY <3>1 DEF MemInv
    <3>3. p \in Nat /\ item[p].next \in Nat /\ SIZEOF_STRUCT_MEM \in Nat
      BY <1>1, <3>1, ChainItem, MemParameters
    <3>4. Room(Heap, p) = item[p].next - p - SIZEOF_STRUCT_MEM
      BY DEF Room, Heap
    <3> QED
      BY <3>2, <3>3, <3>4
  <2>2. inuse = Cardinality({x \in Offsets : \E p \in DOMAIN block : p <= x /\ x < item[p].next})
    BY <1>1, <1>3 DEF Bytes
  <2> QED
    BY <1>3, <2>1, <2>2 DEF BlocksKept
<1> QED
  BY <1>4, <1>5, <1>6 DEF HeapConsistent

(* It also says that a call fails only if no free item has the room.       *)
LEMMA MemNotFull == MemInv => NullOnlyIfFull
<1> SUFFICES ASSUME MemInv, none > 0, NEW p \in Free(Heap) PROVE Room(Heap, p) < Max({none, MIN_SIZE_ALIGNED})
  BY DEF NullOnlyIfFull
<1>1. p \in DOMAIN item \ {heap_end} /\ ~item[p].used
  BY DEF Free, Heap
<1>2. item[p].next - p - SIZEOF_STRUCT_MEM < Needed(none)
  BY <1>1 DEF MemInv, FullFor
<1> QED
  BY <1>2 DEF Room, Heap, Needed

(* After any sequence of malloc, realloc and free the items tile the heap, *)
(* no two free ones touch, lfree is the first of them, the used ones are   *)
(* the application's blocks with the room asked for, and `used' counts     *)
(* their bytes, for every heap size, alignment and minimum size (mem.c).   *)
THEOREM HeapAlwaysConsistent == MemSpec => []HeapConsistent
<1>1. MemInit => MemInv
  BY MemStarts
<1>2. MemInv /\ [MemNext]_memVars => MemInv'
  BY MemStep
<1> QED
  BY <1>1, <1>2, MemConsistent, PTL DEF MemSpec

(* RT_NULL is returned only if no free item has the room, though the walk  *)
(* begins at lfree and stops before the end of the heap (mem.c).           *)
THEOREM NullMeansFull == MemSpec => []NullOnlyIfFull
<1>1. MemInit => MemInv
  BY MemStarts
<1>2. MemInv /\ [MemNext]_memVars => MemInv'
  BY MemStep
<1> QED
  BY <1>1, <1>2, MemNotFull, PTL DEF MemSpec

-----------------------------------------------------------------------------
(* The keyboard: what was typed arrives, code by code.                     *)

(* What a frame carries.                                                   *)
Scans == Codes \cup {E0, F0}

(* The constants.                                                          *)
LEMMA Ps2Parameters ==
  /\ DEPTH \in Nat /\ DEPTH > 1 /\ MaxWait \in Nat /\ MaxWait > 0 /\ LastBit \in Nat
  /\ Codes \subseteq Nat /\ 0 \notin Codes /\ E0 \notin Codes /\ F0 \notin Codes /\ E0 # F0
  /\ 0 \notin Scans /\ Scans \subseteq Nat /\ E0 \in Scans /\ F0 \in Scans
BY Ps2Assumption DEF Scans, E0, F0

(* Places of the fifo.                                                     *)
LEMMA PlaceIs ==
  ASSUME NEW r \in 0 .. DEPTH - 1, NEW i \in 0 .. DEPTH
  PROVE  /\ (r + i) % DEPTH = IF r + i < DEPTH THEN r + i ELSE r + i - DEPTH
         /\ (r + i) % DEPTH \in 0 .. DEPTH - 1
<1> DEFINE L == DEPTH
<1>0. L \in Nat /\ L > 1 /\ r \in 0 .. L - 1 /\ i \in 0 .. L
  BY Ps2Parameters
<1> HIDE DEF L
<1>1. CASE r + i < L
  BY <1>0, <1>1 DEF L
<1>2. CASE r + i >= L
  <2>1. r + i - L \in 0 .. L - 1
    BY <1>0, <1>2
  <2>2. r + i = 1 * L + (r + i - L)
    BY <1>0
  <2>3. (r + i) % L = r + i - L
    BY <1>0, <2>1, <2>2
  <2> QED
    BY <1>0, <1>2, <2>1, <2>3 DEF L
<1> QED
  BY <1>0, <1>1, <1>2

(* The codes that are on their way to the driver: a of them in its read,   *)
(* with the value v, c of them in the fifo f from r on, the others on the  *)
(* wire.                                                                   *)
Way(a, v, f, r, c, w) ==
  [i \in 1 .. a + c + Len(w) |->
     IF i <= a THEN v ELSE IF i <= a + c THEN f[(r + (i - a - 1)) % DEPTH] ELSE w[i - a - c]]

(* They are codes of frames.                                               *)
LEMMA WayIs ==
  ASSUME NEW a \in 0 .. 1, NEW v, NEW f, NEW r, NEW c \in Nat, NEW w, Len(w) \in Nat
  PROVE  /\ Len(Way(a, v, f, r, c, w)) = a + c + Len(w)
         /\ DOMAIN Way(a, v, f, r, c, w) = 1 .. a + c + Len(w)
<1>1. a + c + Len(w) \in Nat
  OBVIOUS
<1> QED
  BY <1>1 DEF Way

(* A frame ends: its code goes from the wire to the fifo.                  *)
LEMMA WayPush ==
  ASSUME NEW a \in 0 .. 1, NEW v, NEW f \in [0 .. DEPTH - 1 -> Scans \cup {0}], NEW r \in 0 .. DEPTH - 1,
         NEW c \in 0 .. DEPTH - 1, NEW w \in Seq(Scans), w # <<>>
  PROVE  Way(a, v, [f EXCEPT ![(r + c) % DEPTH] = Head(w)], r, c + 1, Tail(w)) = Way(a, v, f, r, c, w)
<1> DEFINE p == (r + c) % DEPTH
           g == [f EXCEPT ![p] = Head(w)]
           u == Tail(w)
           x == Way(a, v, f, r, c, w)
           y == Way(a, v, g, r, c + 1, u)
<1>0. DEPTH \in Nat /\ DEPTH > 1
  BY Ps2Parameters
<1>1. Len(w) \in Nat /\ Len(w) > 0 /\ Len(u) = Len(w) - 1 /\ w[1] = Head(w) /\ \A i \in 1 .. Len(w) - 1 : u[i] = w[i + 1]
  OBVIOUS
<1>2. p \in 0 .. DEPTH - 1 /\ p = IF r + c < DEPTH THEN r + c ELSE r + c - DEPTH
  BY <1>0, PlaceIs
<1>3. g[p] = w[1] /\ \A i \in 0 .. DEPTH - 1 : i # p => g[i] = f[i]
  BY <1>1, <1>2
<1>4. ASSUME NEW i \in 0 .. c - 1 PROVE g[(r + i) % DEPTH] = f[(r + i) % DEPTH]
  <2>1. (r + i) % DEPTH \in 0 .. DEPTH - 1 /\ (r + i) % DEPTH = IF r + i < DEPTH THEN r + i ELSE r + i - DEPTH
    BY <1>0, PlaceIs
  <2>2. (r + i) % DEPTH # p
    BY <1>0, <1>2, <2>1
  <2> QED
    BY <1>3, <2>1, <2>2
<1>5. g[(r + c) % DEPTH] = w[1]
  BY <1>3
<1> HIDE DEF p, g, u
<1>6. a + (c + 1) + Len(u) = a + c + Len(w)
  BY <1>1
<1>7. x = [i \in 1 .. a + c + Len(w) |->
             IF i <= a THEN v ELSE IF i <= a + c THEN f[(r + (i - a - 1)) % DEPTH] ELSE w[i - a - c]]
  BY DEF Way
<1>8. y = [i \in 1 .. a + c + Len(w) |->
             IF i <= a THEN v ELSE IF i <= a + (c + 1) THEN g[(r + (i - a - 1)) % DEPTH] ELSE u[i - a - (c + 1)]]
  BY <1>6 DEF Way
<1>9. ASSUME NEW i \in 1 .. a + c + Len(w)
      PROVE  (IF i <= a THEN v ELSE IF i <= a + (c + 1) THEN g[(r + (i - a - 1)) % DEPTH] ELSE u[i - a - (c + 1)])
              = IF i <= a THEN v ELSE IF i <= a + c THEN f[(r + (i - a - 1)) % DEPTH] ELSE w[i - a - c]
  <2>1. CASE i <= a
    BY <2>1
  <2>2. CASE i > a /\ i <= a + c
    <3>1. i - a - 1 \in 0 .. c - 1
      BY <2>2
    <3>2. g[(r + (i - a - 1)) % DEPTH] = f[(r + (i - a - 1)) % DEPTH]
      BY <1>4, <3>1
    <3> QED
      BY <2>2, <3>2
  <2>3. CASE i = a + (c + 1)
    <3>1. i - a - 1 = c /\ i - a - c = 1
      BY <2>3
    <3> QED
      BY <1>5, <2>3, <3>1
  <2>4. CASE i > a + (c + 1)
    <3>1. i - a - (c + 1) \in 1 .. Len(w) - 1 /\ (i - a - (c + 1)) + 1 = i - a - c
      BY <1>1, <2>4
    <3>2. u[i - a - (c + 1)] = w[i - a - c]
      BY <1>1, <3>1
    <3> QED
      BY <2>4, <3>2
  <2> QED
    BY <1>1, <2>1, <2>2, <2>3, <2>4
<1> HIDE DEF x, y
<1> QED
  BY <1>7, <1>8, <1>9 DEF x, y, g, u, p

(* A code is taken out of the fifo.                                        *)
LEMMA WayPop ==
  ASSUME NEW v, NEW f \in [0 .. DEPTH - 1 -> Scans \cup {0}], NEW r \in 0 .. DEPTH - 1,
         NEW c \in 1 .. DEPTH, NEW w \in Seq(Scans)
  PROVE  /\ Way(1, f[r], f, (r + 1) % DEPTH, c - 1, w) = Way(0, v, f, r, c, w)
         /\ (((r + 1) % DEPTH) + (c - 1)) % DEPTH = (r + c) % DEPTH
         /\ Way(0, v, f, r, c, w)[1] = f[r]
<1> DEFINE s == (r + 1) % DEPTH
           x == Way(0, v, f, r, c, w)
           y == Way(1, f[r], f, s, c - 1, w)
<1>0. DEPTH \in Nat /\ DEPTH > 1 /\ Len(w) \in Nat
  BY Ps2Parameters
<1>1. s \in 0 .. DEPTH - 1 /\ s = IF r + 1 < DEPTH THEN r + 1 ELSE r + 1 - DEPTH
  BY <1>0, PlaceIs
<1>2. ASSUME NEW i \in 0 .. c - 1 PROVE (s + i) % DEPTH = (r + (i + 1)) % DEPTH
  <2>0. i \in 0 .. DEPTH /\ i + 1 \in 0 .. DEPTH
    BY <1>0
  <2>1. (r + (i + 1)) % DEPTH = IF r + (i + 1) < DEPTH THEN r + (i + 1) ELSE r + (i + 1) - DEPTH
    BY <2>0, PlaceIs
  <2> HIDE DEF s
  <2>2. (s + i) % DEPTH = IF s + i < DEPTH THEN s + i ELSE s + i - DEPTH
    BY <1>1, <2>0, PlaceIs
  <2>3. (IF s + i < DEPTH THEN s + i ELSE s + i - DEPTH) = IF r + (i + 1) < DEPTH THEN r + (i + 1) ELSE r + (i + 1) - DEPTH
    BY <1>0, <1>1, <2>0
  <2> QED
    BY <2>1, <2>2, <2>3
<1>3. (r + 0) % DEPTH = r
  <2>1. 0 \in 0 .. DEPTH /\ r + 0 < DEPTH /\ r + 0 = r
    BY <1>0
  <2> QED
    BY <2>1, PlaceIs
<1> HIDE DEF s
<1>4. 0 + c + Len(w) = 1 + (c - 1) + Len(w)
  BY <1>0
<1>5. x = [i \in 1 .. 0 + c + Len(w) |->
             IF i <= 0 THEN v ELSE IF i <= 0 + c THEN f[(r + (i - 0 - 1)) % DEPTH] ELSE w[i - 0 - c]]
  BY DEF Way
<1>6. y = [i \in 1 .. 0 + c + Len(w) |->
             IF i <= 1 THEN f[r] ELSE IF i <= 1 + (c - 1) THEN f[(s + (i - 1 - 1)) % DEPTH] ELSE w[i - 1 - (c - 1)]]
  BY <1>4 DEF Way
<1>7. ASSUME NEW i \in 1 .. 0 + c + Len(w)
      PROVE  (IF i <= 1 THEN f[r] ELSE IF i <= 1 + (c - 1) THEN f[(s + (i - 1 - 1)) % DEPTH] ELSE w[i - 1 - (c - 1)])
              = IF i <= 0 THEN v ELSE IF i <= 0 + c THEN f[(r + (i - 0 - 1)) % DEPTH] ELSE w[i - 0 - c]
  <2>1. CASE i = 1
    <3>1. i - 0 - 1 = 0 /\ i <= 0 + c /\ ~(i <= 0)
      BY <2>1
    <3> QED
      BY <1>3, <2>1, <3>1
  <2>2. CASE i > 1 /\ i <= c
    <3>1. i - 1 - 1 \in 0 .. c - 1 /\ (i - 1 - 1) + 1 = i - 0 - 1
      BY <2>2
    <3>2. (s + (i - 1 - 1)) % DEPTH = (r + (i - 0 - 1)) % DEPTH
      BY <1>2, <3>1
    <3> QED
      BY <2>2, <3>2
  <2>3. CASE i > c
    <3>1. i - 1 - (c - 1) = i - 0 - c
      OBVIOUS
    <3> QED
      BY <2>3, <3>1
  <2> QED
    BY <2>1, <2>2, <2>3
<1>8. (s + (c - 1)) % DEPTH = (r + c) % DEPTH
  BY <1>2
<1>9. x[1] = f[r]
  <2>1. 1 \in 1 .. 0 + c + Len(w) /\ 1 <= 0 + c /\ ~(1 <= 0) /\ 1 - 0 - 1 = 0
    BY <1>0
  <2> HIDE DEF x
  <2> QED
    BY <1>3, <1>5, <2>1
<1> HIDE DEF x, y
<1> QED
  BY <1>5, <1>6, <1>7, <1>8, <1>9 DEF x, y, s

(* The codes q are p and then m.                                           *)
IsSum(q, p, m) ==
  /\ Len(q) = Len(p) + Len(m)
  /\ \A i \in 1 .. Len(p) : q[i] = p[i]
  /\ \A i \in 1 .. Len(m) : q[Len(p) + i] = m[i]

(* Codes are put on the wire behind the others.                            *)
LEMMA WayType ==
  ASSUME NEW a \in 0 .. 1, NEW v, NEW f, NEW r, NEW c \in Nat, NEW w \in Seq(Scans), NEW m \in Seq(Scans)
  PROVE  IsSum(Way(a, v, f, r, c, w \o m), Way(a, v, f, r, c, w), m)
<1> DEFINE u == w \o m
           x == Way(a, v, f, r, c, w)
           y == Way(a, v, f, r, c, u)
<1>0. Len(w) \in Nat /\ Len(m) \in Nat
  OBVIOUS
<1>1. /\ Len(u) = Len(w) + Len(m) /\ \A i \in 1 .. Len(w) : u[i] = w[i]
      /\ \A i \in 1 .. Len(m) : u[Len(w) + i] = m[i]
  OBVIOUS
<1> HIDE DEF u
<1>2. Len(x) = a + c + Len(w) /\ Len(y) = a + c + Len(u)
  <2>1. Len(u) \in Nat
    BY <1>0, <1>1
  <2> QED
    BY <1>0, <2>1, WayIs
<1>3. x = [i \in 1 .. a + c + Len(w) |->
             IF i <= a THEN v ELSE IF i <= a + c THEN f[(r + (i - a - 1)) % DEPTH] ELSE w[i - a - c]]
  BY DEF Way
<1>4. y = [i \in 1 .. a + c + Len(u) |->
             IF i <= a THEN v ELSE IF i <= a + c THEN f[(r + (i - a - 1)) % DEPTH] ELSE u[i - a - c]]
  BY DEF Way
<1> HIDE DEF x, y
<1>5. ASSUME NEW i \in 1 .. Len(x) PROVE y[i] = x[i]
  <2>1. i \in 1 .. a + c + Len(u) /\ i \in 1 .. a + c + Len(w)
    BY <1>0, <1>1, <1>2
  <2>2. i > a + c => u[i - a - c] = w[i - a - c]
    <3> SUFFICES ASSUME i > a + c PROVE u[i - a - c] = w[i - a - c]
      OBVIOUS
    <3>1. i - a - c \in 1 .. Len(w)
      BY <1>0, <2>1
    <3> QED
      BY <1>1, <3>1
  <2> QED
    BY <1>3, <1>4, <2>1, <2>2
<1>6. ASSUME NEW i \in 1 .. Len(m) PROVE y[Len(x) + i] = m[i]
  <2> DEFINE j == Len(x) + i
  <2>1. j \in 1 .. a + c + Len(u) /\ ~(j <= a) /\ ~(j <= a + c) /\ j - a - c = Len(w) + i
    BY <1>0, <1>1, <1>2
  <2> HIDE DEF j
  <2>2. y[j] = u[j - a - c]
    BY <1>4, <2>1
  <2> QED
    BY <1>1, <2>1, <2>2 DEF j
<1>7. Len(y) = Len(x) + Len(m)
  BY <1>0, <1>1, <1>2
<1>8. IsSum(y, x, m)
  BY <1>5, <1>6, <1>7 DEF IsSum
<1> QED
  BY <1>8 DEF x, y, u

(* The ends of pieces, one after the other, from 0 on.                     *)
Ends(end, r, T) ==
  end \in [Nat -> Nat] /\ end[r] = 0 /\ \A i, j \in r .. T : i < j => end[i] < end[j]

(* The codes p are the pieces L, one after the other: that of event j ends *)
(* at end[j].                                                              *)
Piece(p, l, at) == \A i \in 1 .. Len(l) : p[at + i] = l[i]

(* All of them.                                                            *)
Spans(p, L, r, T, end) ==
  /\ Ends(end, r, T) /\ end[T] = Len(p)
  /\ \A j \in r + 1 .. T : end[j] = end[j - 1] + Len(L[j]) /\ Piece(p, L[j], end[j - 1])

(* No piece is empty.                                                      *)
Filled(L, r, T) == \A j \in r + 1 .. T : Len(L[j]) \in Nat /\ Len(L[j]) > 0

(* The same pieces from a to b.                                            *)
SamePieces(M, L, a, b) == \A j \in a .. b : M[j] = L[j]

(* The codes q are p without the first.                                    *)
IsTail(q, p) == Len(q) = Len(p) - 1 /\ \A i \in 1 .. Len(p) - 1 : q[i] = p[i + 1]

(* The ends come one place earlier.                                        *)
Earlier(end) == [j \in Nat |-> IF end[j] = 0 THEN 0 ELSE end[j] - 1]

(* What that does.                                                         *)
LEMMA EarlierIs ==
  ASSUME NEW r \in Nat, NEW T \in Nat, r < T, NEW end, Ends(end, r, T)
  PROVE  LET g == Earlier(end) IN
         /\ g \in [Nat -> Nat] /\ g[r] = 0
         /\ \A j \in r + 1 .. T : end[j] \in Nat /\ end[j] >= 1 /\ g[j] = end[j] - 1 /\ end[j] <= end[T]
         /\ \A i, j \in r + 1 .. T : i < j => g[i] < g[j]
         /\ end[r + 1] > 1 => \A j \in r + 1 .. T : g[r] < g[j]
<1> DEFINE g == Earlier(end)
<1>0. end \in [Nat -> Nat] /\ end[r] = 0
  BY DEF Ends
<1>1. g \in [Nat -> Nat] /\ \A j \in Nat : g[j] = IF end[j] = 0 THEN 0 ELSE end[j] - 1
  BY <1>0 DEF Earlier
<1> HIDE DEF g
<1>2. \A i, j \in r .. T : i < j => end[i] < end[j]
  BY DEF Ends
<1>3. \A j \in r + 1 .. T : end[j] \in Nat /\ end[j] >= 1 /\ g[j] = end[j] - 1 /\ end[j] <= end[T]
  <2> SUFFICES ASSUME NEW j \in r + 1 .. T PROVE end[j] \in Nat /\ end[j] >= 1 /\ g[j] = end[j] - 1 /\ end[j] <= end[T]
    OBVIOUS
  <2>1. r \in r .. T /\ j \in r .. T /\ T \in r .. T /\ r < j /\ j \in Nat /\ (j = T \/ j < T)
    OBVIOUS
  <2>2. end[r] < end[j] /\ end[j] \in Nat /\ end[T] \in Nat /\ (j < T => end[j] < end[T])
    BY <1>0, <1>2, <2>1
  <2>3. end[j] >= 1 /\ end[j] <= end[T]
    BY <1>0, <2>1, <2>2
  <2> QED
    BY <1>1, <2>1, <2>2, <2>3
<1>4. ASSUME NEW i \in r + 1 .. T, NEW j \in r + 1 .. T, i < j PROVE g[i] < g[j]
  <2>1. i \in r .. T /\ j \in r .. T
    OBVIOUS
  <2>2. end[i] < end[j]
    BY <1>2, <1>4, <2>1
  <2> QED
    BY <1>3, <2>2
<1>5. g[r] = 0
  BY <1>0, <1>1
<1>6. ASSUME end[r + 1] > 1, NEW j \in r + 1 .. T PROVE g[r] < g[j]
  <2>1. r + 1 \in r + 1 .. T /\ (j = r + 1 \/ r + 1 < j) /\ r + 1 \in r .. T /\ j \in r .. T
    OBVIOUS
  <2>2. r + 1 < j => end[r + 1] < end[j]
    BY <1>2, <2>1
  <2>3. end[j] > 1
    BY <1>3, <1>6, <2>1, <2>2
  <2> QED
    BY <1>3, <1>5, <2>3
<1> QED
  BY <1>1, <1>3, <1>4, <1>5, <1>6 DEF g

(* The first code is the first of the first piece.                         *)
LEMMA SpansHead ==
  ASSUME NEW p, Len(p) \in Nat, Len(p) > 0, NEW L, NEW r \in Nat, NEW T \in Nat, r <= T, NEW end,
         Spans(p, L, r, T, end), Filled(L, r, T)
  PROVE  r < T /\ r + 1 \in r + 1 .. T /\ p[1] = L[r + 1][1] /\ end[r + 1] = Len(L[r + 1]) /\ Piece(p, L[r + 1], 0)
<1>1. r < T
  BY DEF Spans, Ends
<1>2. r + 1 \in r + 1 .. T /\ (r + 1) - 1 = r
  BY <1>1
<1>3. 1 \in 1 .. Len(L[r + 1]) /\ Len(L[r + 1]) \in Nat
  BY <1>2 DEF Filled
<1>4. end[r] = 0 /\ end[r + 1] = end[r] + Len(L[r + 1]) /\ Piece(p, L[r + 1], end[r])
  BY <1>2 DEF Spans, Ends
<1>5. end[r] + 1 = 1 /\ end[r] + Len(L[r + 1]) = Len(L[r + 1])
  BY <1>3, <1>4
<1>6. p[end[r] + 1] = L[r + 1][1]
  BY <1>3, <1>4 DEF Piece
<1> QED
  BY <1>1, <1>2, <1>4, <1>5, <1>6

(* A piece behind the first comes one place earlier.                       *)
LEMMA PieceEarlier ==
  ASSUME NEW p, Len(p) \in Nat, NEW q, IsTail(q, p), NEW l, Len(l) \in Nat, NEW at \in Nat, at >= 1,
         at + Len(l) <= Len(p), Piece(p, l, at)
  PROVE  Piece(q, l, at - 1)
<1> SUFFICES ASSUME NEW i \in 1 .. Len(l) PROVE q[(at - 1) + i] = l[i]
  BY DEF Piece
<1>1. (at - 1) + i \in 1 .. Len(p) - 1 /\ ((at - 1) + i) + 1 = at + i
  OBVIOUS
<1>2. q[(at - 1) + i] = p[((at - 1) + i) + 1]
  BY <1>1 DEF IsTail
<1> QED
  BY <1>1, <1>2 DEF Piece

(* What is left of the first piece stays at the beginning.                 *)
LEMMA PieceShorter ==
  ASSUME NEW p, Len(p) \in Nat, NEW q, IsTail(q, p), NEW l, Len(l) \in Nat, NEW m, Len(m) \in Nat,
         IsTail(m, l), Len(l) <= Len(p), Piece(p, l, 0)
  PROVE  Piece(q, m, 0)
<1> SUFFICES ASSUME NEW i \in 1 .. Len(m) PROVE q[0 + i] = m[i]
  BY DEF Piece
<1>1. Len(m) = Len(l) - 1
  BY DEF IsTail
<1>2. i \in 1 .. Len(l) - 1 /\ i + 1 \in 1 .. Len(l) /\ i \in 1 .. Len(p) - 1 /\ 0 + (i + 1) = i + 1 /\ 0 + i = i
  BY <1>1
<1>3. m[i] = l[i + 1] /\ q[i] = p[i + 1]
  BY <1>2 DEF IsTail
<1>4. p[0 + (i + 1)] = l[i + 1]
  BY <1>2 DEF Piece
<1> QED
  BY <1>2, <1>3, <1>4

(* The pieces behind the first, when the first code is taken.              *)
LEMMA SpansLater ==
  ASSUME NEW p, Len(p) \in Nat, Len(p) > 0, NEW L, NEW r \in Nat, NEW T \in Nat, r <= T, NEW end,
         Spans(p, L, r, T, end), Filled(L, r, T), NEW q, IsTail(q, p), NEW j \in r + 2 .. T
  PROVE  LET g == Earlier(end) IN g[j] = g[j - 1] + Len(L[j]) /\ Piece(q, L[j], g[j - 1])
<1> DEFINE g == Earlier(end)
<1>1. r < T /\ Ends(end, r, T) /\ end[T] = Len(p)
  BY SpansHead DEF Spans
<1>2. j - 1 \in r + 1 .. T /\ j \in r + 1 .. T
  OBVIOUS
<1>3. /\ end[j] \in Nat /\ g[j] = end[j] - 1 /\ end[j] <= end[T]
      /\ end[j - 1] \in Nat /\ end[j - 1] >= 1 /\ g[j - 1] = end[j - 1] - 1
  <2>1. \A i \in r + 1 .. T : end[i] \in Nat /\ end[i] >= 1 /\ g[i] = end[i] - 1 /\ end[i] <= end[T]
    BY <1>1, EarlierIs
  <2> HIDE DEF g
  <2> QED
    BY <1>2, <2>1
<1> HIDE DEF g
<1>4. end[j] = end[j - 1] + Len(L[j]) /\ Piece(p, L[j], end[j - 1]) /\ Len(L[j]) \in Nat
  BY <1>2 DEF Spans, Filled
<1>5. Piece(q, L[j], end[j - 1] - 1)
  BY <1>1, <1>3, <1>4, PieceEarlier
<1> QED
  BY <1>3, <1>4, <1>5 DEF g

(* The first code is taken and its event stays.                            *)
LEMMA SpansIn ==
  ASSUME NEW p, Len(p) \in Nat, Len(p) > 0, NEW L, NEW r \in Nat, NEW T \in Nat, r <= T, NEW end,
         Spans(p, L, r, T, end), Filled(L, r, T), NEW q, IsTail(q, p),
         NEW M, Len(M[r + 1]) \in Nat, Len(M[r + 1]) > 0, IsTail(M[r + 1], L[r + 1]),
         SamePieces(M, L, r + 2, T)
  PROVE  \E g : Spans(q, M, r, T, g)
<1> DEFINE g == Earlier(end)
<1>1. r < T /\ r + 1 \in r + 1 .. T /\ end[r + 1] = Len(L[r + 1]) /\ Piece(p, L[r + 1], 0)
  BY SpansHead
<1>2. Ends(end, r, T) /\ end[T] = Len(p)
  BY DEF Spans
<1>3. Len(L[r + 1]) = Len(M[r + 1]) + 1 /\ Len(L[r + 1]) \in Nat /\ end[r + 1] > 1
  BY <1>1 DEF IsTail, Filled
<1>4. /\ g \in [Nat -> Nat] /\ g[r] = 0
      /\ \A j \in r + 1 .. T : end[j] \in Nat /\ end[j] >= 1 /\ g[j] = end[j] - 1 /\ end[j] <= end[T]
      /\ \A i, j \in r + 1 .. T : i < j => g[i] < g[j]
      /\ \A j \in r + 1 .. T : g[r] < g[j]
  BY <1>1, <1>2, <1>3, EarlierIs
<1>5. \A j \in r + 2 .. T : g[j] = g[j - 1] + Len(L[j]) /\ Piece(q, L[j], g[j - 1])
  BY SpansLater
<1> HIDE DEF g
<1>6. Ends(g, r, T)
  <2>1. ASSUME NEW i \in r .. T, NEW j \in r .. T, i < j PROVE g[i] < g[j]
    <3>1. j \in r + 1 .. T /\ (i = r \/ i \in r + 1 .. T)
      BY <2>1
    <3> QED
      BY <1>4, <2>1, <3>1
  <2> QED
    BY <1>4, <2>1 DEF Ends
<1>7. g[T] = Len(q)
  <2>1. T \in r + 1 .. T
    BY <1>1
  <2>2. g[T] = end[T] - 1
    BY <1>4, <2>1
  <2> QED
    BY <1>2, <2>2 DEF IsTail
<1>8. ASSUME NEW j \in r + 1 .. T
      PROVE  g[j] = g[j - 1] + Len(M[j]) /\ Piece(q, M[j], g[j - 1])
  <2>1. CASE j = r + 1
    <3>1. j - 1 = r
      BY <2>1
    <3>2. Len(L[r + 1]) <= Len(p)
      BY <1>1, <1>2, <1>4
    <3>3. Piece(q, M[r + 1], 0)
      BY <1>1, <1>3, <3>2, PieceShorter
    <3>4. g[r + 1] = Len(M[r + 1])
      <4>1. g[r + 1] = end[r + 1] - 1
        BY <1>1, <1>4
      <4> QED
        BY <1>1, <1>3, <4>1
    <3> QED
      BY <1>4, <2>1, <3>1, <3>3, <3>4
  <2>2. CASE j # r + 1
    <3>1. j \in r + 2 .. T
      BY <2>2
    <3> QED
      BY <1>5, <3>1 DEF SamePieces
  <2> QED
    BY <2>1, <2>2
<1> QED
  BY <1>6, <1>7, <1>8 DEF Spans

(* The last code of an event is taken.                                     *)
LEMMA SpansOut ==
  ASSUME NEW p, Len(p) \in Nat, Len(p) > 0, NEW L, NEW r \in Nat, NEW T \in Nat, r <= T, NEW end,
         Spans(p, L, r, T, end), Filled(L, r, T), NEW q, IsTail(q, p),
         NEW M, Len(L[r + 1]) = 1, SamePieces(M, L, r + 2, T)
  PROVE  \E g : Spans(q, M, r + 1, T, g)
<1> DEFINE g == Earlier(end)
<1>1. r < T /\ r + 1 \in r + 1 .. T /\ end[r + 1] = 1
  <2>0. /\ Len(p) \in Nat /\ Len(p) > 0 /\ r \in Nat /\ T \in Nat /\ r <= T
        /\ Spans(p, L, r, T, end) /\ Filled(L, r, T)
    OBVIOUS
  <2>1. r < T /\ r + 1 \in r + 1 .. T /\ end[r + 1] = Len(L[r + 1])
    BY ONLY <2>0, SpansHead
  <2> QED
    BY <2>1
<1>2. Ends(end, r, T) /\ end[T] = Len(p)
  BY DEF Spans
<1>3. /\ g \in [Nat -> Nat]
      /\ \A j \in r + 1 .. T : g[j] = end[j] - 1
      /\ \A i, j \in r + 1 .. T : i < j => g[i] < g[j]
  <2>1. /\ g \in [Nat -> Nat]
        /\ \A j \in r + 1 .. T : end[j] \in Nat /\ end[j] >= 1 /\ g[j] = end[j] - 1 /\ end[j] <= end[T]
        /\ \A i, j \in r + 1 .. T : i < j => g[i] < g[j]
    BY <1>1, <1>2, EarlierIs
  <2> HIDE DEF g
  <2> QED
    BY <2>1
<1>4. \A j \in r + 2 .. T : g[j] = g[j - 1] + Len(L[j]) /\ Piece(q, L[j], g[j - 1])
  BY SpansLater
<1> HIDE DEF g
<1>5. g[r + 1] = 0
  <2>1. g[r + 1] = end[r + 1] - 1
    BY <1>1, <1>3
  <2> QED
    BY <1>1, <2>1
<1>6. Ends(g, r + 1, T)
  BY <1>3, <1>5 DEF Ends
<1>7. g[T] = Len(q)
  <2>1. T \in r + 1 .. T
    BY <1>1
  <2>2. g[T] = end[T] - 1
    BY <1>3, <2>1
  <2> QED
    BY <1>2, <2>2 DEF IsTail
<1>8. \A j \in (r + 1) + 1 .. T : g[j] = g[j - 1] + Len(M[j]) /\ Piece(q, M[j], g[j - 1])
  <2>1. (r + 1) + 1 = r + 2
    OBVIOUS
  <2> QED
    BY <1>4, <2>1 DEF SamePieces
<1> QED
  BY <1>6, <1>7, <1>8 DEF Spans

(* A piece is added behind the others.                                     *)
LEMMA SpansMore ==
  ASSUME NEW p, Len(p) \in Nat, NEW L, NEW r \in Nat, NEW T \in Nat, r <= T, NEW end,
         Spans(p, L, r, T, end), Filled(L, r, T),
         NEW M, Len(M[T + 1]) \in Nat, Len(M[T + 1]) > 0, SamePieces(M, L, r + 1, T),
         NEW q, IsSum(q, p, M[T + 1])
  PROVE  \E g : Spans(q, M, r, T + 1, g)
<1> DEFINE z == Len(p) + Len(M[T + 1])
           g == [j \in Nat |-> IF j = T + 1 THEN z ELSE end[j]]
<1>1. end \in [Nat -> Nat] /\ end[r] = 0 /\ end[T] = Len(p) /\ \A i, j \in r .. T : i < j => end[i] < end[j]
  BY DEF Spans, Ends
<1>2. z \in Nat /\ z > Len(p) /\ Len(q) = z
  BY DEF IsSum
<1> HIDE DEF z
<1>3. /\ g \in [Nat -> Nat] /\ g[T + 1] = z
      /\ \A j \in r .. T : g[j] = end[j] /\ end[j] \in Nat
  <2>1. T + 1 \in Nat /\ \A j \in r .. T : j \in Nat /\ j # T + 1
    OBVIOUS
  <2>2. \A j \in Nat : (IF j = T + 1 THEN z ELSE end[j]) \in Nat
    BY <1>1, <1>2
  <2> QED
    BY <1>1, <2>1, <2>2
<1> HIDE DEF g
<1>4. g[r] = 0
  <2>1. r \in r .. T
    OBVIOUS
  <2> QED
    BY <1>1, <1>3, <2>1, SMTT(40)
<1>5. \A j \in r .. T : end[j] <= Len(p)
  <2> SUFFICES ASSUME NEW j \in r .. T PROVE end[j] <= Len(p)
    OBVIOUS
  <2>1. (j = T \/ j < T) /\ T \in r .. T
    OBVIOUS
  <2>2. j < T => end[j] < end[T]
    BY <1>1, <2>1
  <2>3. end[j] \in Nat /\ Len(p) \in Nat /\ end[T] = Len(p)
    BY <1>1, <1>3
  <2>4. CASE j = T
    BY <2>3, <2>4
  <2>5. CASE j < T
    BY <2>2, <2>3, <2>5
  <2> QED
    BY <2>1, <2>4, <2>5
<1>6. ASSUME NEW i \in r .. T + 1, NEW j \in r .. T + 1, i < j PROVE g[i] < g[j]
  <2>1. i \in r .. T
    BY <1>6
  <2>2. CASE j = T + 1
    <3>1. g[i] = end[i] /\ end[i] \in Nat /\ end[i] <= Len(p) /\ g[j] = z
      BY <1>3, <1>5, <2>1, <2>2
    <3> QED
      BY <1>2, <3>1
  <2>3. CASE j # T + 1
    <3>1. j \in r .. T
      BY <2>3
    <3> QED
      BY <1>1, <1>3, <1>6, <2>1, <3>1
  <2> QED
    BY <2>2, <2>3
<1>7. ASSUME NEW j \in r + 1 .. T + 1
      PROVE  g[j] = g[j - 1] + Len(M[j]) /\ Piece(q, M[j], g[j - 1])
  <2>1. CASE j = T + 1
    <3>1. j - 1 = T /\ T \in r .. T
      BY <2>1
    <3>2. g[j - 1] = Len(p)
      BY <1>1, <1>3, <3>1
    <3>3. Piece(q, M[T + 1], Len(p))
      BY DEF IsSum, Piece
    <3> QED
      BY <1>3, <2>1, <3>2, <3>3 DEF z
  <2>2. CASE j # T + 1
    <3>1. j \in r + 1 .. T /\ j \in r .. T /\ j - 1 \in r .. T
      BY <2>2
    <3>2. M[j] = L[j] /\ g[j] = end[j] /\ g[j - 1] = end[j - 1] /\ end[j - 1] \in Nat /\ Len(L[j]) \in Nat
      BY <1>3, <3>1 DEF Filled, SamePieces
    <3>3. end[j] = end[j - 1] + Len(L[j]) /\ end[j] <= Len(p) /\ Piece(p, L[j], end[j - 1])
      BY <1>5, <3>1 DEF Spans
    <3>4. ASSUME NEW i \in 1 .. Len(L[j]) PROVE q[end[j - 1] + i] = L[j][i]
      <4>1. end[j - 1] + i \in 1 .. Len(p)
        BY <3>2, <3>3, SMTT(40)
      <4>2. q[end[j - 1] + i] = p[end[j - 1] + i]
        BY <4>1 DEF IsSum
      <4> QED
        BY <3>3, <4>2 DEF Piece
    <3> QED
      BY <3>2, <3>3, <3>4 DEF Piece
  <2> QED
    BY <2>1, <2>2
<1>8. Ends(g, r, T + 1)
  BY <1>3, <1>4, <1>6 DEF Ends
<1> QED
  BY <1>2, <1>3, <1>7, <1>8 DEF Spans

(* What is left of the frames of an event for a driver that has seen E0 or *)
(* not (x), F0 or not (b).                                                 *)
Left(e, x, b) ==
  (IF e.extend /\ ~x THEN <<E0>> ELSE <<>>) \o (IF e.down \/ b THEN <<>> ELSE <<F0>>) \o <<e.key>>

(* Short sequences put together.                                           *)
LEMMA Glued ==
  ASSUME NEW S, NEW a \in S, NEW b \in S, NEW c \in S
  PROVE  <<a>> \o <<b>> = <<a, b>> /\ <<a, b>> \o <<c>> = <<a, b, c>>
<1> DEFINE l == <<a>> \o <<b>>
           m == <<a, b>> \o <<c>>
<1>1. l \in Seq(S) /\ Len(l) = 2 /\ l[1] = a /\ l[2] = b
  OBVIOUS
<1>2. m \in Seq(S) /\ Len(m) = 3 /\ m[1] = a /\ m[2] = b /\ m[3] = c
  OBVIOUS
<1> HIDE DEF l, m
<1>3. l = [i \in 1 .. 2 |-> l[i]] /\ m = [i \in 1 .. 3 |-> m[i]]
  BY <1>1, <1>2
<1>4. l = <<a, b>>
  <2>1. <<a, b>> = [i \in 1 .. 2 |-> <<a, b>>[i]]
    OBVIOUS
  <2>2. \A i \in 1 .. 2 : l[i] = <<a, b>>[i]
    BY <1>1
  <2> QED
    BY <1>3, <2>1, <2>2
<1>5. m = <<a, b, c>>
  <2>1. <<a, b, c>> = [i \in 1 .. 3 |-> <<a, b, c>>[i]]
    OBVIOUS
  <2>2. \A i \in 1 .. 3 : m[i] = <<a, b, c>>[i]
    BY <1>2
  <2> QED
    BY <1>3, <2>1, <2>2
<1> QED
  BY <1>4, <1>5 DEF l, m

(* The first of them says what it is.                                      *)
LEMMA LeftIs ==
  ASSUME NEW e \in Event, NEW x \in BOOLEAN, NEW b \in BOOLEAN
  PROVE  /\ Left(e, x, b) \in Seq(Scans) /\ Len(Left(e, x, b)) \in Nat /\ Len(Left(e, x, b)) > 0
         /\ e.extend /\ ~x => Left(e, x, b)[1] = E0 /\ IsTail(Left(e, TRUE, b), Left(e, x, b))
         /\ ~(e.extend /\ ~x) /\ ~(e.down \/ b) =>
              Left(e, x, b)[1] = F0 /\ IsTail(Left(e, x, TRUE), Left(e, x, b))
         /\ ~(e.extend /\ ~x) /\ (e.down \/ b) => Left(e, x, b)[1] = e.key /\ Len(Left(e, x, b)) = 1
<1> DEFINE k == e.key
<1>0. k \in Scans /\ E0 \in Scans /\ F0 \in Scans /\ e.extend \in BOOLEAN /\ e.down \in BOOLEAN
  BY DEF Event, Scans
<1>1. ASSUME NEW y \in BOOLEAN, NEW d \in BOOLEAN
      PROVE  Left(e, y, d) =
               (IF e.extend /\ ~y THEN <<E0>> ELSE <<>>) \o (IF e.down \/ d THEN <<>> ELSE <<F0>>) \o <<k>>
  BY DEF Left
<1> HIDE DEF k
<1>2. /\ <<E0>> \o <<>> \o <<k>> = <<E0, k>> /\ <<E0>> \o <<F0>> \o <<k>> = <<E0, F0, k>>
      /\ <<>> \o <<>> \o <<k>> = <<k>> /\ <<>> \o <<F0>> \o <<k>> = <<F0, k>>
  <2>0. /\ <<E0>> \o <<k>> = <<E0, k>> /\ <<F0>> \o <<k>> = <<F0, k>>
        /\ <<E0>> \o <<F0>> = <<E0, F0>> /\ <<E0, F0>> \o <<k>> = <<E0, F0, k>>
    BY <1>0, Glued
  <2>5. <<E0>> \o <<>> = <<E0>> /\ <<>> \o <<F0>> = <<F0>>
    BY <1>0
  <2>1. <<E0>> \o <<>> \o <<k>> = <<E0, k>>
    BY <2>0, <2>5, Zenon
  <2>2. <<E0>> \o <<F0>> \o <<k>> = <<E0, F0, k>>
    BY <2>0, Zenon
  <2>3. <<>> \o <<>> \o <<k>> = <<k>>
    BY <1>0
  <2>4. <<>> \o <<F0>> \o <<k>> = <<F0, k>>
    BY <2>0, <2>5, Zenon
  <2> QED
    BY <2>1, <2>2, <2>3, <2>4
<1>3. ASSUME NEW l, l \in {<<E0, k>>, <<E0, F0, k>>, <<F0, k>>, <<k>>}
      PROVE  l \in Seq(Scans) /\ Len(l) \in Nat /\ Len(l) > 0
  <2>1. CASE l = <<E0, k>>
    BY <1>0, <2>1
  <2>2. CASE l = <<E0, F0, k>>
    BY <1>0, <2>2
  <2>3. CASE l = <<F0, k>>
    BY <1>0, <2>3
  <2>4. CASE l = <<k>>
    BY <1>0, <2>4
  <2> QED
    BY <1>3, <2>1, <2>2, <2>3, <2>4
<1>4. /\ IsTail(<<k>>, <<E0, k>>) /\ IsTail(<<F0, k>>, <<E0, F0, k>>) /\ IsTail(<<k>>, <<F0, k>>)
      /\ <<E0, k>>[1] = E0 /\ <<E0, F0, k>>[1] = E0 /\ <<F0, k>>[1] = F0 /\ <<k>>[1] = k /\ Len(<<k>>) = 1
  BY DEF IsTail
<1>5. CASE e.extend /\ ~x /\ (e.down \/ b)
  <2>1. Left(e, x, b) = <<E0, k>> /\ Left(e, TRUE, b) = <<k>>
    BY <1>1, <1>2, <1>5
  <2> QED
    BY <1>3, <1>4, <1>5, <2>1, Zenon
<1>6. CASE e.extend /\ ~x /\ ~(e.down \/ b)
  <2>1. Left(e, x, b) = <<E0, F0, k>> /\ Left(e, TRUE, b) = <<F0, k>>
    BY <1>1, <1>2, <1>6
  <2> QED
    BY <1>3, <1>4, <1>6, <2>1, Zenon
<1>7. CASE ~(e.extend /\ ~x) /\ ~(e.down \/ b)
  <2>1. Left(e, x, b) = <<F0, k>> /\ Left(e, x, TRUE) = <<k>>
    BY <1>1, <1>2, <1>7
  <2> QED
    BY <1>3, <1>4, <1>7, <2>1, Zenon
<1>8. CASE ~(e.extend /\ ~x) /\ (e.down \/ b)
  <2>1. Left(e, x, b) = <<k>>
    BY <1>1, <1>2, <1>8
  <2> QED
    BY <1>3, <1>4, <1>8, <2>1, Zenon DEF k
<1> QED
  BY <1>5, <1>6, <1>7, <1>8

(* All of its frames.                                                      *)
LEMMA FramesAre ==
  ASSUME NEW e \in Event
  PROVE  Frames(e) = Left(e, FALSE, FALSE)
BY DEF Frames, Left

(* The pieces for events ev, of which r have been told.                    *)
Pieces(ev, r, x, b) == [j \in Nat |-> IF j = r + 1 THEN Left(ev[j], x, b) ELSE Left(ev[j], FALSE, FALSE)]

(* What the driver has seen are frames of the next event.                  *)
Seen(e, x, b) == (x => e.extend) /\ (b => ~e.down /\ (x <=> e.extend))

(* The codes p tell the events of ev that follow the first r.              *)
Told(p, ev, r, x, b) ==
  /\ r <= Len(ev)
  /\ r = Len(ev) => ~x /\ ~b
  /\ r < Len(ev) => Seen(ev[r + 1], x, b)
  /\ \E end : Spans(p, Pieces(ev, r, x, b), r, Len(ev), end)

(* No piece is empty.                                                      *)
LEMMA PiecesFilled ==
  ASSUME NEW ev \in Seq(Event), NEW r \in Nat, NEW x \in BOOLEAN, NEW b \in BOOLEAN
  PROVE  Filled(Pieces(ev, r, x, b), r, Len(ev))
<1> SUFFICES ASSUME NEW j \in r + 1 .. Len(ev)
             PROVE  Len(Pieces(ev, r, x, b)[j]) \in Nat /\ Len(Pieces(ev, r, x, b)[j]) > 0
  BY DEF Filled
<1>1. ev[j] \in Event /\ j \in Nat
  OBVIOUS
<1>2. Pieces(ev, r, x, b)[j] = IF j = r + 1 THEN Left(ev[j], x, b) ELSE Left(ev[j], FALSE, FALSE)
  BY <1>1 DEF Pieces
<1>3. /\ Len(Left(ev[j], x, b)) \in Nat /\ Len(Left(ev[j], x, b)) > 0
      /\ Len(Left(ev[j], FALSE, FALSE)) \in Nat /\ Len(Left(ev[j], FALSE, FALSE)) > 0
  BY <1>1, LeftIs
<1> QED
  BY <1>2, <1>3

(* The first code.                                                         *)
First(p) == p[1]

(* The next event is of key c, with the prefixes seen.                     *)
NextIs(ev, r, c, x, b) == r < Len(ev) /\ ev[r + 1] = [key |-> c, extend |-> x, down |-> ~b]

(* The driver is given a code: it sees a prefix, or tells the event.       *)
LEMMA ToldTakes ==
  ASSUME NEW ev \in Seq(Event), NEW r \in Nat, NEW x \in BOOLEAN, NEW b \in BOOLEAN,
         NEW p, Len(p) \in Nat, Len(p) > 0, Told(p, ev, r, x, b), NEW q, IsTail(q, p)
  PROVE  /\ First(p) \in Scans
         /\ First(p) = E0 => Told(q, ev, r, TRUE, b)
         /\ First(p) = F0 => Told(q, ev, r, x, TRUE)
         /\ First(p) \notin {E0, F0} => NextIs(ev, r, First(p), x, b) /\ Told(q, ev, r + 1, FALSE, FALSE)
<1> DEFINE T == Len(ev)
           L == Pieces(ev, r, x, b)
           e == ev[r + 1]
<1>0. T \in Nat /\ r <= T /\ (r < T => Seen(e, x, b))
  BY DEF Told
<1>1. PICK end : Spans(p, L, r, T, end)
  BY DEF Told
<1>2. Filled(L, r, T)
  BY PiecesFilled
<1> HIDE DEF T, L
<1>3. r < T /\ p[1] = L[r + 1][1]
  <2>0. Len(p) \in Nat /\ Len(p) > 0 /\ r \in Nat /\ T \in Nat /\ r <= T
    BY <1>0
  <2> QED
    BY ONLY <1>1, <1>2, <2>0, SpansHead
<1>4. e \in Event /\ Seen(e, x, b) /\ r + 1 \in Nat
  BY <1>0, <1>3 DEF T
<1>5. L[r + 1] = Left(e, x, b)
  BY <1>4 DEF L, Pieces
<1>11. ASSUME NEW y \in BOOLEAN, NEW d \in BOOLEAN, NEW j \in r + 2 .. T
       PROVE  Pieces(ev, r, y, d)[j] = L[j] /\ Pieces(ev, r + 1, FALSE, FALSE)[j] = L[j]
  <2>1. j \in Nat /\ j # r + 1
    OBVIOUS
  <2>2. L[j] = Left(ev[j], FALSE, FALSE) /\ Pieces(ev, r, y, d)[j] = Left(ev[j], FALSE, FALSE)
    BY <2>1 DEF L, Pieces
  <2>3. Pieces(ev, r + 1, FALSE, FALSE)[j] = Left(ev[j], FALSE, FALSE)
    BY <2>1 DEF Pieces
  <2> QED
    BY <2>2, <2>3
<1> HIDE DEF e
<1>6. /\ e.key \in Codes /\ e.extend \in BOOLEAN /\ e.down \in BOOLEAN /\ e = [key |-> e.key, extend |-> e.extend, down |-> e.down]
      /\ e.key # E0 /\ e.key # F0 /\ E0 # F0 /\ e.key \in Scans /\ E0 \in Scans /\ F0 \in Scans
  BY <1>4, Ps2Parameters DEF Event, Scans
<1>7. ASSUME NEW y \in BOOLEAN, NEW d \in BOOLEAN, Seen(e, y, d), IsTail(Left(e, y, d), Left(e, x, b))
      PROVE  Told(q, ev, r, y, d)
  <2> DEFINE M == Pieces(ev, r, y, d)
  <2>1. M[r + 1] = Left(e, y, d)
    BY <1>4 DEF Pieces, e
  <2>2. SamePieces(M, L, r + 2, T)
    BY <1>11 DEF SamePieces
  <2> HIDE DEF M
  <2>3. Len(M[r + 1]) \in Nat /\ Len(M[r + 1]) > 0 /\ IsTail(M[r + 1], L[r + 1])
    BY <1>4, <1>5, <1>7, <2>1, LeftIs
  <2>4. \E g : Spans(q, M, r, T, g)
    BY <1>0, <1>1, <1>2, <2>2, <2>3, SpansIn
  <2> QED
    BY <1>3, <1>7, <2>4 DEF Told, M, T, e
<1>8. CASE e.extend /\ ~x
  <2>1. p[1] = E0 /\ IsTail(Left(e, TRUE, b), Left(e, x, b))
    BY <1>3, <1>4, <1>5, <1>8, LeftIs, ZenonT(60)
  <2>2. Seen(e, TRUE, b)
    BY <1>4, <1>8 DEF Seen
  <2>3. Told(q, ev, r, TRUE, b)
    BY <1>7, <2>1, <2>2
  <2> QED
    BY <1>6, <2>1, <2>3 DEF First
<1>9. CASE ~(e.extend /\ ~x) /\ ~(e.down \/ b)
  <2>1. p[1] = F0 /\ IsTail(Left(e, x, TRUE), Left(e, x, b))
    BY <1>3, <1>4, <1>5, <1>9, LeftIs
  <2>2. Seen(e, x, TRUE)
    BY <1>4, <1>9 DEF Seen
  <2>3. Told(q, ev, r, x, TRUE)
    BY <1>7, <2>1, <2>2
  <2> QED
    BY <1>6, <2>1, <2>3 DEF First
<1>10. CASE ~(e.extend /\ ~x) /\ (e.down \/ b)
  <2>1. p[1] = e.key /\ Len(L[r + 1]) = 1
    BY <1>3, <1>4, <1>5, <1>10, LeftIs
  <2>2. (x <=> e.extend) /\ (b <=> ~e.down)
    BY <1>4, <1>10 DEF Seen
  <2>3. x = e.extend /\ e.down = ~b
    BY <1>6, <2>2
  <2>4. e = [key |-> p[1], extend |-> x, down |-> ~b]
    BY <1>6, <2>1, <2>3
  <2> DEFINE M == Pieces(ev, r + 1, FALSE, FALSE)
  <2>5. SamePieces(M, L, r + 2, T)
    BY <1>11 DEF SamePieces
  <2> HIDE DEF M
  <2>6. \E g : Spans(q, M, r + 1, T, g)
    BY <1>0, <1>1, <1>2, <2>1, <2>5, SpansOut
  <2>7. Told(q, ev, r + 1, FALSE, FALSE)
    <3>1. r + 1 <= Len(ev) /\ \E g : Spans(q, Pieces(ev, r + 1, FALSE, FALSE), r + 1, Len(ev), g)
      <4>1. r + 1 <= T
        BY <1>0, <1>3
      <4> QED
        BY <2>6, <4>1, Zenon DEF M, T
    <3>2. Seen(ev[(r + 1) + 1], FALSE, FALSE)
      BY DEF Seen
    <3> QED
      BY <3>1, <3>2 DEF Told
  <2> QED
    BY <1>3, <1>6, <2>1, <2>4, <2>7 DEF T, e, First, NextIs
<1> QED
  BY <1>8, <1>9, <1>10

(* A key is typed.                                                         *)
LEMMA ToldMore ==
  ASSUME NEW ev \in Seq(Event), NEW r \in Nat, NEW x \in BOOLEAN, NEW b \in BOOLEAN,
         NEW p, Len(p) \in Nat, Told(p, ev, r, x, b), NEW e \in Event, NEW q, IsSum(q, p, Frames(e))
  PROVE  Told(q, Append(ev, e), r, x, b)
<1> DEFINE T == Len(ev)
           fv == Append(ev, e)
           L == Pieces(ev, r, x, b)
           M == Pieces(fv, r, x, b)
<1>0. T \in Nat /\ r <= T /\ (r < T => Seen(ev[r + 1], x, b)) /\ (r = T => ~x /\ ~b)
  BY DEF Told
<1>1. PICK end : Spans(p, L, r, T, end)
  BY DEF Told
<1>2. Filled(L, r, T)
  BY PiecesFilled
<1>3. fv \in Seq(Event) /\ Len(fv) = T + 1 /\ fv[T + 1] = e /\ \A j \in 1 .. T : fv[j] = ev[j]
  OBVIOUS
<1> HIDE DEF T, fv
<1>4. SamePieces(M, L, r + 1, T)
  <2> SUFFICES ASSUME NEW j \in r + 1 .. T PROVE M[j] = L[j]
    BY DEF SamePieces
  <2>1. j \in Nat /\ fv[j] = ev[j]
    BY <1>0, <1>3
  <2> QED
    BY <2>1 DEF Pieces
<1>5. M[T + 1] = Left(e, FALSE, FALSE)
  <2>1. T + 1 \in Nat
    BY <1>0
  <2>2. M[T + 1] = IF T + 1 = r + 1 THEN Left(fv[T + 1], x, b) ELSE Left(fv[T + 1], FALSE, FALSE)
    BY <2>1 DEF Pieces
  <2>3. CASE r = T
    <3>1. x = FALSE /\ b = FALSE
      BY <1>0, <2>3
    <3> QED
      BY <1>3, <2>2, <3>1
  <2>4. CASE r # T
    <3>1. T + 1 # r + 1
      BY <1>0, <2>4
    <3> QED
      BY <1>3, <2>2, <3>1
  <2> QED
    BY <2>3, <2>4
<1> HIDE DEF L, M
<1>6. Len(M[T + 1]) \in Nat /\ Len(M[T + 1]) > 0 /\ IsSum(q, p, M[T + 1])
  BY <1>5, LeftIs, FramesAre
<1>7. \E g : Spans(q, M, r, T + 1, g)
  BY <1>0, <1>1, <1>2, <1>4, <1>6, SpansMore
<1>8. r < T + 1 /\ Seen(fv[r + 1], x, b)
  <2>1. CASE r = T
    BY <1>0, <1>3, <2>1 DEF Seen
  <2>2. CASE r # T
    <3>1. r < T /\ r + 1 \in 1 .. T
      BY <1>0, <2>2
    <3> QED
      BY <1>0, <1>3, <3>1
  <2> QED
    BY <2>1, <2>2
<1> QED
  BY <1>0, <1>3, <1>7, <1>8 DEF Told, M, fv

(* The registers and histories have their types.                           *)
Ps2Typed ==
  /\ typed \in Seq(Event) /\ wire \in Seq(Scans) /\ counter \in 0 .. LastBit
  /\ fifo \in [0 .. DEPTH - 1 -> Scans \cup {0}] /\ w_ptr \in 0 .. DEPTH - 1 /\ r_ptr \in 0 .. DEPTH - 1
  /\ empty \in BOOLEAN /\ prdata_r \in Scans \cup {0} /\ is_break \in BOOLEAN /\ is_extend \in BOOLEAN
  /\ reported \in Seq(Event) /\ stored \in Int /\ lost \in BOOLEAN /\ raced \in BOOLEAN
  /\ dev \in {"ps2", "other"}

(* The phases of a read: what driver, delayer and controller do at the     *)
(* same time.                                                              *)
Between == apb = "idle" /\ state = "idle_t" /\ ps2_apb_state = "IDLE" /\ counter85 = 0 /\ dev = "ps2"
Asked == apb = "setup" /\ state = "idle_t" /\ ps2_apb_state = "IDLE" /\ counter85 = 0
Reads == apb = "access" /\ state = "wait_perip_t" /\ ps2_apb_state = "READ" /\ counter85 = 85 /\ dev = "ps2"
Waits == /\ apb = "access" /\ state = "wait_perip_t" /\ ps2_apb_state = "IDLE" /\ dev = "other"
         /\ \E j \in 1 .. MaxWait : counter85 = 85 * j
Delays == apb = "access" /\ state = "delay_t" /\ ps2_apb_state = "IDLE" /\ counter85 \in 1 .. 85 * MaxWait

(* One of them.                                                            *)
BusPhase == Between \/ Asked \/ Reads \/ Waits \/ Delays

(* A code is in the driver's read.                                         *)
InRead == IF state = "delay_t" /\ dev = "ps2" /\ prdata_r # 0 THEN 1 ELSE 0

(* The codes that are on their way.                                        *)
OnWay == Way(InRead, prdata_r, fifo, r_ptr, stored, wire)

(* Nothing was lost: the pointers tell what the fifo holds, the flag too,  *)
(* and the codes on their way tell the events that were not reported.      *)
Arrives ==
  /\ stored \in 0 .. DEPTH /\ w_ptr = (r_ptr + stored) % DEPTH
  /\ empty <=> stored > 0 /\ ~raced
  /\ \A i \in 1 .. Len(reported) : reported[i] = typed[i]
  /\ Told(OnWay, typed, Len(reported), is_extend, is_break)

(* The inductive invariant of the keyboard.                                *)
Ps2Inv == Ps2Typed /\ BusPhase /\ (~lost => Arrives)

(* It begins with nothing typed.                                           *)
LEMMA Ps2Starts == Ps2Init => Ps2Inv
<1> SUFFICES ASSUME Ps2Init PROVE Ps2Inv
  OBVIOUS
<1>0. DEPTH \in Nat /\ DEPTH > 1 /\ LastBit \in Nat
  BY Ps2Parameters
<1>1. Ps2Typed
  <2>1. [i \in 0 .. DEPTH - 1 |-> 0] \in [0 .. DEPTH - 1 -> Scans \cup {0}] /\ 0 \in 0 .. DEPTH - 1 /\ 0 \in 0 .. LastBit
    BY <1>0
  <2>2. <<>> \in Seq(Event) /\ <<>> \in Seq(Scans)
    OBVIOUS
  <2>3. /\ empty \in BOOLEAN /\ is_break \in BOOLEAN /\ is_extend \in BOOLEAN /\ lost \in BOOLEAN
        /\ raced \in BOOLEAN
    BY Zenon DEF Ps2Init
  <2>4. /\ typed = <<>> /\ wire = <<>> /\ reported = <<>> /\ counter = 0 /\ fifo = [i \in 0 .. DEPTH - 1 |-> 0]
        /\ w_ptr = 0 /\ r_ptr = 0 /\ prdata_r = 0 /\ dev = "ps2" /\ stored = 0
    BY DEF Ps2Init
  <2> QED
    BY <2>1, <2>2, <2>3, <2>4 DEF Ps2Typed
<1>2. BusPhase
  BY DEF Ps2Init, BusPhase, Between
<1>3. Arrives
  <2>1. stored = 0 /\ r_ptr = 0 /\ w_ptr = 0 /\ empty = FALSE /\ typed = <<>> /\ reported = <<>> /\ wire = <<>>
        /\ is_break = FALSE /\ is_extend = FALSE /\ state = "idle_t"
    BY DEF Ps2Init
  <2>2. 0 \in 0 .. DEPTH /\ 0 \in 0 .. DEPTH - 1 /\ 0 + 0 = 0
    BY <1>0
  <2>3. (0 + 0) % DEPTH = 0
    BY <1>0, <2>2, PlaceIs
  <2>4. Len(OnWay) = 0
    <3>1. InRead = 0
      BY <2>1 DEF InRead
    <3>2. Len(wire) = 0 /\ 0 \in 0 .. 1 /\ stored \in Nat
      BY <2>1
    <3> QED
      BY <2>1, <3>1, <3>2, WayIs DEF OnWay
  <2>5. Told(OnWay, typed, Len(reported), is_extend, is_break)
    <3> DEFINE end == [j \in Nat |-> 0]
               L == Pieces(typed, 0, is_extend, is_break)
    <3>1. Len(typed) = 0 /\ Len(reported) = 0
      BY <2>1
    <3>2. Ends(end, 0, 0)
      BY DEF Ends
    <3> HIDE DEF L
    <3>3. Spans(OnWay, L, 0, 0, end)
      BY <2>4, <3>2 DEF Spans
    <3> HIDE DEF end
    <3>4. \E g : Spans(OnWay, L, 0, 0, g)
      BY <3>3
    <3> QED
      BY <2>1, <3>1, <3>4 DEF Told, L
  <2> QED
    BY <2>1, <2>2, <2>3, <2>5 DEF Arrives
<1> QED
  BY <1>1, <1>2, <1>3 DEF Ps2Inv

(* A key is typed.                                                         *)
LEMMA TypeStep ==
  ASSUME Ps2Inv, NEW e \in Event, Type(e)
  PROVE  Ps2Inv'
<1>0. /\ typed' = Append(typed, e) /\ wire' = wire \o Frames(e)
      /\ UNCHANGED <<counter, fifo, w_ptr, r_ptr, empty, ps2_apb_state, state, counter85, prdata_r,
                     apb, dev, is_break, is_extend, reported, stored, lost, raced>>
  BY DEF Type, receiver
<1>1. Ps2Typed
  BY DEF Ps2Inv
<1>2. Frames(e) \in Seq(Scans)
  BY LeftIs, FramesAre
<1>3. typed' \in Seq(Event) /\ wire' \in Seq(Scans)
  BY <1>0, <1>1, <1>2 DEF Ps2Typed
<1>4. Ps2Typed'
  BY <1>0, <1>1, <1>3 DEF Ps2Typed
<1>5. BusPhase'
  BY <1>0 DEF Ps2Inv, BusPhase, Between, Asked, Reads, Waits, Delays
<1>6. ASSUME ~lost' PROVE Arrives'
  <2>1. Arrives
    BY <1>0, <1>6 DEF Ps2Inv
  <2>2. InRead' = InRead /\ InRead \in 0 .. 1
    BY <1>0 DEF InRead
  <2>3. OnWay' = Way(InRead, prdata_r, fifo, r_ptr, stored, wire \o Frames(e))
    BY <1>0, <2>2 DEF OnWay
  <2>4. stored \in Nat /\ wire \in Seq(Scans)
    BY <1>1, <2>1, Ps2Parameters DEF Arrives, Ps2Typed
  <2>5. IsSum(OnWay', OnWay, Frames(e))
    <3>1. IsSum(Way(InRead, prdata_r, fifo, r_ptr, stored, wire \o Frames(e)),
                Way(InRead, prdata_r, fifo, r_ptr, stored, wire), Frames(e))
      BY <1>2, <2>2, <2>4, WayType
    <3> QED
      BY <2>3, <3>1 DEF OnWay
  <2>6. Len(OnWay) \in Nat
    <3>1. Len(wire) \in Nat
      BY <2>4
    <3>2. Len(OnWay) = InRead + stored + Len(wire)
      BY <2>2, <2>4, <3>1, WayIs DEF OnWay
    <3> QED
      BY <2>2, <2>4, <3>1, <3>2
  <2>7. Told(OnWay', typed', Len(reported), is_extend, is_break)
    <3>1. /\ typed \in Seq(Event) /\ is_extend \in BOOLEAN /\ is_break \in BOOLEAN /\ Len(reported) \in Nat
          /\ Told(OnWay, typed, Len(reported), is_extend, is_break)
      BY <1>1, <2>1 DEF Ps2Typed, Arrives
    <3> QED
      BY <1>0, <2>5, <2>6, <3>1, ToldMore
  <2>8. \A i \in 1 .. Len(reported) : reported[i] = typed'[i]
    <3>1. Len(reported) <= Len(typed) /\ Len(reported) \in Nat /\ typed \in Seq(Event)
      BY <1>1, <2>1 DEF Arrives, Told, Ps2Typed
    <3> QED
      BY <1>0, <2>1, <3>1 DEF Arrives
  <2> QED
    BY <1>0, <2>1, <2>7, <2>8 DEF Arrives
<1> QED
  BY <1>4, <1>5, <1>6 DEF Ps2Inv

(* A cycle of the controller keeps the types.                              *)
LEMMA ReceiverTyped ==
  ASSUME Ps2Typed, NEW edge \in BOOLEAN, NEW good \in BOOLEAN, edge => wire # <<>>, Receiver(edge, good)
  PROVE  /\ wire' \in Seq(Scans) /\ counter' \in 0 .. LastBit /\ fifo' \in [0 .. DEPTH - 1 -> Scans \cup {0}]
         /\ w_ptr' \in 0 .. DEPTH - 1 /\ r_ptr' \in 0 .. DEPTH - 1 /\ empty' \in BOOLEAN
         /\ stored' \in Int /\ lost' \in BOOLEAN /\ raced' \in BOOLEAN
<1> DEFINE ends == edge /\ counter = LastBit
           push == ends /\ good
           more == stored + (IF push THEN 1 ELSE 0) - (IF pop THEN 1 ELSE 0)
<1>0. DEPTH \in Nat /\ DEPTH > 1 /\ LastBit \in Nat
  BY Ps2Parameters
<1>1. /\ wire \in Seq(Scans) /\ counter \in 0 .. LastBit /\ fifo \in [0 .. DEPTH - 1 -> Scans \cup {0}]
      /\ w_ptr \in 0 .. DEPTH - 1 /\ r_ptr \in 0 .. DEPTH - 1 /\ stored \in Int /\ raced \in BOOLEAN
  BY DEF Ps2Typed
<1>2. /\ counter' = IF ends THEN 0 ELSE IF edge THEN counter + 1 ELSE counter
      /\ wire' = IF ends THEN Tail(wire) ELSE wire
      /\ fifo' = IF push THEN [fifo EXCEPT ![w_ptr] = Head(wire)] ELSE fifo
      /\ w_ptr' = IF push THEN (w_ptr + 1) % DEPTH ELSE w_ptr
      /\ r_ptr' = IF pop THEN (r_ptr + 1) % DEPTH ELSE r_ptr
      /\ empty' = (~takes_last /\ (push \/ empty))
      /\ stored' = more
      /\ lost' = (lost \/ (ends /\ ~good) \/ more > DEPTH)
      /\ raced' = IF push THEN takes_last ELSE raced
  BY DEF Receiver
<1>3. 1 \in 0 .. DEPTH
  BY <1>0
<1>4. (w_ptr + 1) % DEPTH \in 0 .. DEPTH - 1 /\ (r_ptr + 1) % DEPTH \in 0 .. DEPTH - 1
  BY <1>1, <1>3, PlaceIs
<1>5. wire # <<>> => Tail(wire) \in Seq(Scans) /\ Head(wire) \in Scans
  BY <1>1
<1>6. ends => wire # <<>>
  OBVIOUS
<1> HIDE DEF more
<1>7. more \in Int
  BY <1>1 DEF more
<1>8. wire' \in Seq(Scans) /\ fifo' \in [0 .. DEPTH - 1 -> Scans \cup {0}]
  BY <1>1, <1>2, <1>5, <1>6
<1>9. counter' \in 0 .. LastBit
  BY <1>0, <1>1, <1>2
<1>10. empty' \in BOOLEAN /\ lost' \in BOOLEAN /\ raced' \in BOOLEAN
  <2>1. takes_last \in BOOLEAN
    BY DEF takes_last
  <2> QED
    BY <1>1, <1>2, <2>1, Zenon
<1> QED
  BY <1>1, <1>2, <1>4, <1>7, <1>8, <1>9, <1>10

(* The last code of the fifo is taken.                                     *)
LEMMA LastOne ==
  ASSUME NEW r \in 0 .. DEPTH - 1, NEW c \in 1 .. DEPTH
  PROVE  (r + c) % DEPTH = (r + 1) % DEPTH <=> c = 1
<1>0. DEPTH \in Nat /\ DEPTH > 1 /\ c \in 0 .. DEPTH /\ 1 \in 0 .. DEPTH
  BY Ps2Parameters
<1>1. (r + c) % DEPTH = IF r + c < DEPTH THEN r + c ELSE r + c - DEPTH
  BY <1>0, PlaceIs
<1>2. (r + 1) % DEPTH = IF r + 1 < DEPTH THEN r + 1 ELSE r + 1 - DEPTH
  BY <1>0, PlaceIs
<1>3. (IF r + c < DEPTH THEN r + c ELSE r + c - DEPTH) = (IF r + 1 < DEPTH THEN r + 1 ELSE r + 1 - DEPTH) <=> c = 1
  BY <1>0
<1> QED
  BY <1>1, <1>2, <1>3

(* Another place.                                                          *)
LEMMA PlaceNext ==
  ASSUME NEW r \in 0 .. DEPTH - 1, NEW c \in 0 .. DEPTH - 1
  PROVE  (((r + c) % DEPTH) + 1) % DEPTH = (r + (c + 1)) % DEPTH
<1>0. DEPTH \in Nat /\ DEPTH > 1 /\ c \in 0 .. DEPTH /\ c + 1 \in 0 .. DEPTH /\ 1 \in 0 .. DEPTH
  BY Ps2Parameters
<1> DEFINE s == (r + c) % DEPTH
<1>1. s \in 0 .. DEPTH - 1 /\ s = IF r + c < DEPTH THEN r + c ELSE r + c - DEPTH
  BY <1>0, PlaceIs
<1>2. (r + (c + 1)) % DEPTH = IF r + (c + 1) < DEPTH THEN r + (c + 1) ELSE r + (c + 1) - DEPTH
  BY <1>0, PlaceIs
<1> HIDE DEF s
<1>3. (s + 1) % DEPTH = IF s + 1 < DEPTH THEN s + 1 ELSE s + 1 - DEPTH
  BY <1>0, <1>1, PlaceIs
<1>4. (IF s + 1 < DEPTH THEN s + 1 ELSE s + 1 - DEPTH) = IF r + (c + 1) < DEPTH THEN r + (c + 1) ELSE r + (c + 1) - DEPTH
  BY <1>0, <1>1
<1> QED
  BY <1>2, <1>3, <1>4 DEF s

(* What a cycle of the controller does to the codes on their way: it puts  *)
(* none in and takes none out, but one may go from the fifo to the read.   *)
LEMMA ReceiverStep ==
  ASSUME Ps2Typed, NEW edge \in BOOLEAN, NEW good \in BOOLEAN, edge => wire # <<>>, Receiver(edge, good),
         stored \in 0 .. DEPTH, w_ptr = (r_ptr + stored) % DEPTH, empty <=> stored > 0 /\ ~raced, ~lost'
  PROVE  /\ stored' \in 0 .. DEPTH /\ w_ptr' = (r_ptr' + stored') % DEPTH /\ (empty' <=> stored' > 0 /\ ~raced')
         /\ ~pop => \A a \in 0 .. 1 : \A v :
              Way(a, v, fifo', r_ptr', stored', wire') = Way(a, v, fifo, r_ptr, stored, wire)
         /\ pop => /\ \A v : Way(1, fifo[r_ptr], fifo', r_ptr', stored', wire') = Way(0, v, fifo, r_ptr, stored, wire)
                   /\ stored > 0
<1> DEFINE push == edge /\ counter = LastBit /\ good
           more == stored + (IF push THEN 1 ELSE 0) - (IF pop THEN 1 ELSE 0)
<1>0. DEPTH \in Nat /\ DEPTH > 1
  BY Ps2Parameters
<1>1. /\ wire \in Seq(Scans) /\ fifo \in [0 .. DEPTH - 1 -> Scans \cup {0}]
      /\ w_ptr \in 0 .. DEPTH - 1 /\ r_ptr \in 0 .. DEPTH - 1
      /\ empty \in BOOLEAN /\ raced \in BOOLEAN
  BY DEF Ps2Typed
<1>2. /\ lost' = (lost \/ (edge /\ counter = LastBit /\ ~good) \/ more > DEPTH)
      /\ wire' = (IF edge /\ counter = LastBit THEN Tail(wire) ELSE wire)
      /\ fifo' = (IF push THEN [fifo EXCEPT ![w_ptr] = Head(wire)] ELSE fifo)
      /\ w_ptr' = (IF push THEN (w_ptr + 1) % DEPTH ELSE w_ptr)
      /\ r_ptr' = (IF pop THEN (r_ptr + 1) % DEPTH ELSE r_ptr)
      /\ empty' = (~takes_last /\ (push \/ empty))
      /\ stored' = more
      /\ raced' = IF push THEN takes_last ELSE raced
  BY Zenon DEF Receiver
<1>3. ~(more > DEPTH) /\ (edge /\ counter = LastBit => good) /\ (push => wire # <<>>)
  BY <1>2, Zenon
<1>4. wire' = IF push THEN Tail(wire) ELSE wire
  BY <1>2, <1>3
<1> HIDE DEF push
<1>5. pop => empty /\ stored > 0 /\ ~raced /\ stored \in 1 .. DEPTH
  BY <1>0 DEF pop
<1>6. takes_last <=> pop /\ stored = 1
  BY <1>1, <1>5, LastOne DEF takes_last
<1> HIDE DEF more
<1>7. CASE ~push /\ ~pop
  <2>1. more = stored
    BY <1>7 DEF more
  <2>2. wire' = wire /\ fifo' = fifo /\ w_ptr' = w_ptr /\ r_ptr' = r_ptr /\ stored' = stored /\ raced' = raced
    BY <1>2, <1>4, <1>7, <2>1
  <2>3. empty' <=> empty
    BY <1>2, <1>6, <1>7
  <2>4. \A a \in 0 .. 1 : \A v : Way(a, v, fifo', r_ptr', stored', wire') = Way(a, v, fifo, r_ptr, stored, wire)
    BY <2>2
  <2> QED
    BY <1>7, <2>2, <2>3, <2>4
<1>8. CASE push /\ ~pop
  <2>1. more = stored + 1 /\ stored \in 0 .. DEPTH - 1
    BY <1>0, <1>3, <1>8 DEF more
  <2>2. /\ wire' = Tail(wire) /\ fifo' = [fifo EXCEPT ![(r_ptr + stored) % DEPTH] = Head(wire)] /\ r_ptr' = r_ptr
        /\ w_ptr' = (((r_ptr + stored) % DEPTH) + 1) % DEPTH /\ stored' = stored + 1 /\ wire # <<>>
    BY <1>2, <1>3, <1>4, <1>8, <2>1
  <2>3. w_ptr' = (r_ptr' + stored') % DEPTH
    BY <1>1, <2>1, <2>2, PlaceNext
  <2>4. empty' /\ ~raced'
    BY <1>2, <1>6, <1>8
  <2>5. \A a \in 0 .. 1 : \A v : Way(a, v, fifo', r_ptr', stored', wire') = Way(a, v, fifo, r_ptr, stored, wire)
    <3> SUFFICES ASSUME NEW a \in 0 .. 1, NEW v
                 PROVE  Way(a, v, fifo', r_ptr', stored', wire') = Way(a, v, fifo, r_ptr, stored, wire)
      OBVIOUS
    <3>0. /\ stored \in 0 .. DEPTH - 1 /\ fifo \in [0 .. DEPTH - 1 -> Scans \cup {0}] /\ wire # <<>>
          /\ r_ptr \in 0 .. DEPTH - 1 /\ wire \in Seq(Scans) /\ a \in 0 .. 1
      BY <1>1, <2>1, <2>2
    <3>1. Way(a, v, [fifo EXCEPT ![(r_ptr + stored) % DEPTH] = Head(wire)], r_ptr, stored + 1, Tail(wire))
            = Way(a, v, fifo, r_ptr, stored, wire)
      BY ONLY <3>0, WayPush
    <3> QED
      BY <2>2, <3>1
  <2>6. stored' \in 0 .. DEPTH /\ stored' > 0
    BY <1>0, <2>1, <2>2
  <2> QED
    BY <1>8, <2>3, <2>4, <2>5, <2>6
<1>9. CASE ~push /\ pop
  <2>1. more = stored - 1 /\ stored \in 1 .. DEPTH
    BY <1>0, <1>5, <1>9 DEF more
  <2>2. /\ wire' = wire /\ fifo' = fifo /\ r_ptr' = (r_ptr + 1) % DEPTH /\ w_ptr' = (r_ptr + stored) % DEPTH
        /\ stored' = stored - 1 /\ raced' = raced
    BY <1>2, <1>4, <1>9, <2>1
  <2>3. w_ptr' = (r_ptr' + stored') % DEPTH
    BY <1>1, <2>1, <2>2, WayPop
  <2>4. empty' <=> stored # 1
    BY <1>2, <1>5, <1>6, <1>9
  <2>5. \A v : Way(1, fifo[r_ptr], fifo', r_ptr', stored', wire') = Way(0, v, fifo, r_ptr, stored, wire)
    BY <1>1, <2>1, <2>2, WayPop, ZenonT(40)
  <2>7. stored' \in 0 .. DEPTH /\ (stored' > 0 <=> stored # 1) /\ ~raced'
    BY <1>0, <1>5, <1>9, <2>1, <2>2
  <2> QED
    BY <1>5, <1>9, <2>3, <2>4, <2>5, <2>7
<1>10. CASE push /\ pop
  <2> DEFINE s == (r_ptr + 1) % DEPTH
             c == stored - 1
  <2>1. more = stored /\ stored \in 1 .. DEPTH /\ c \in 0 .. DEPTH - 1 /\ c + 1 = stored
    BY <1>0, <1>5, <1>10 DEF more
  <2>2. s \in 0 .. DEPTH - 1
    BY <1>0, <1>1, PlaceIs
  <2>3. (s + c) % DEPTH = (r_ptr + stored) % DEPTH
    BY <1>1, <2>1, WayPop
  <2>4. /\ wire' = Tail(wire) /\ fifo' = [fifo EXCEPT ![(s + c) % DEPTH] = Head(wire)] /\ r_ptr' = s
        /\ w_ptr' = (((s + c) % DEPTH) + 1) % DEPTH /\ stored' = c + 1 /\ wire # <<>>
    BY <1>2, <1>3, <1>4, <1>10, <2>1, <2>3
  <2>5. \A v : Way(1, fifo[r_ptr], fifo, s, c, wire) = Way(0, v, fifo, r_ptr, stored, wire)
    <3> TAKE v
    <3>1. /\ stored \in 1 .. DEPTH /\ fifo \in [0 .. DEPTH - 1 -> Scans \cup {0}]
          /\ r_ptr \in 0 .. DEPTH - 1 /\ wire \in Seq(Scans)
      BY <1>1, <2>1
    <3> QED
      BY ONLY <3>1, WayPop
  <2> HIDE DEF s, c
  <2>7. w_ptr' = (r_ptr' + stored') % DEPTH
    BY <2>1, <2>2, <2>4, PlaceNext
  <2>8. Way(1, fifo[r_ptr], fifo', r_ptr', stored', wire') = Way(1, fifo[r_ptr], fifo, s, c, wire)
    <3>1. /\ c \in 0 .. DEPTH - 1 /\ fifo \in [0 .. DEPTH - 1 -> Scans \cup {0}] /\ wire # <<>>
          /\ s \in 0 .. DEPTH - 1 /\ wire \in Seq(Scans) /\ 1 \in 0 .. 1
      BY <1>1, <2>1, <2>2, <2>4
    <3>2. Way(1, fifo[r_ptr], [fifo EXCEPT ![(s + c) % DEPTH] = Head(wire)], s, c + 1, Tail(wire))
            = Way(1, fifo[r_ptr], fifo, s, c, wire)
      BY ONLY <3>1, WayPush
    <3> QED
      BY <2>4, <3>2
  <2>9. (empty' <=> stored # 1) /\ (raced' <=> stored = 1)
    BY <1>2, <1>6, <1>10
  <2>10. stored' \in 0 .. DEPTH /\ stored' > 0
    BY <1>0, <2>1, <2>4
  <2> QED
    BY <1>5, <1>10, <2>5, <2>7, <2>8, <2>9, <2>10
<1> QED
  BY <1>7, <1>8, <1>9, <1>10

(* What the bus does in a cycle: no code moves, one goes from the fifo to  *)
(* the read, or the driver is given what was read.                         *)
Quietly ==
  /\ ~pop /\ InRead' = InRead /\ (InRead = 1 => prdata_r' = prdata_r)
  /\ UNCHANGED <<is_break, is_extend, reported>>
Fetches ==
  /\ pop /\ InRead = 0 /\ prdata_r' = fifo[r_ptr] /\ state' = "delay_t" /\ dev' = "ps2"
  /\ UNCHANGED <<is_break, is_extend, reported>>
HandsOver == ~pop /\ state = "delay_t" /\ dev = "ps2" /\ InRead' = 0 /\ __am_input_keybrd(prdata_r)

(* No code is in a read that is not delayed, and the flag has two values.  *)
LEMMA NotDelayed ==
  /\ InRead \in 0 .. 1
  /\ state # "delay_t" \/ dev # "ps2" \/ prdata_r = 0 => InRead = 0
  /\ state' # "delay_t" \/ dev' # "ps2" \/ prdata_r' = 0 => InRead' = 0
BY DEF InRead

(* The delay is never zero, nor longer than the slowest wait.              *)
LEMMA DelayIs ==
  ASSUME NEW j \in 1 .. MaxWait
  PROVE  (85 * j + 85) \div 32 \in 1 .. 85 * MaxWait /\ 85 * j + 85 = 85 * (j + 1) /\ 85 * j \in 0 .. 85 * MaxWait
<1>1. MaxWait \in Nat /\ MaxWait > 0 /\ j \in Nat
  BY Ps2Parameters
<1> QED
  BY <1>1, SMTT(30)

(* No read is going on.                                                    *)
LEMMA BetweenStep ==
  ASSUME Between, NEW done \in BOOLEAN, done => dev = "other" /\ in_penable /\ out_psel,
         Delayer(done), Driver, Apb
  PROVE  (Between' \/ Asked') /\ Quietly /\ prdata_r' = prdata_r /\ dev' \in {"ps2", "other"}
<1>0. apb = "idle" /\ state = "idle_t" /\ ps2_apb_state = "IDLE" /\ counter85 = 0 /\ dev = "ps2"
  BY DEF Between
<1>1. ~in_psel /\ ~out_psel /\ ~in_penable /\ ~ps2_pready /\ ~out_pready(done) /\ ~pop
  BY <1>0 DEF in_psel, out_psel, in_penable, ps2_pready, out_pready, pop
<1>2. ps2_apb_state' = "IDLE"
  BY <1>1 DEF Apb
<1>3. state' = state /\ counter85' = counter85 /\ prdata_r' = prdata_r
  BY <1>0, <1>1 DEF Delayer
<1>4. /\ UNCHANGED <<is_break, is_extend, reported>>
      /\ (apb' = "idle" /\ dev' = dev) \/ (apb' = "setup" /\ dev' \in {"ps2", "other"})
  BY <1>0 DEF Driver, Accept
<1>5. Between' \/ Asked'
  BY <1>0, <1>2, <1>3, <1>4 DEF Between, Asked
<1>6. Quietly
  BY <1>0, <1>1, <1>3, <1>4, NotDelayed DEF Quietly
<1> QED
  BY <1>0, <1>3, <1>4, <1>5, <1>6

(* The setup cycle of a read.                                              *)
LEMMA AskedStep ==
  ASSUME Asked, dev \in {"ps2", "other"}, NEW done \in BOOLEAN, done => dev = "other" /\ in_penable /\ out_psel,
         Delayer(done), Driver, Apb
  PROVE  (Reads' \/ Waits') /\ Quietly /\ prdata_r' = prdata_r /\ dev' = dev
<1>0. apb = "setup" /\ state = "idle_t" /\ ps2_apb_state = "IDLE" /\ counter85 = 0
  BY DEF Asked
<1>1. in_psel /\ out_psel /\ ~in_penable /\ ~ps2_pready /\ ~pop
  BY <1>0 DEF in_psel, out_psel, in_penable, ps2_pready, pop
<1>2. ~out_pready(done)
  BY <1>1 DEF out_pready
<1>3. ps2_apb_state' = IF dev = "ps2" THEN "READ" ELSE "IDLE"
  BY <1>0, <1>1 DEF Apb
<1>4. state' = "wait_perip_t" /\ counter85' = 85 /\ prdata_r' = prdata_r
  BY <1>0, <1>1, <1>2 DEF Delayer
<1>5. UNCHANGED <<is_break, is_extend, reported, dev>> /\ apb' = "access"
  BY <1>0 DEF Driver
<1>6. Reads' \/ Waits'
  <2>1. 1 \in 1 .. MaxWait /\ 85 = 85 * 1
    BY Ps2Parameters
  <2>2. CASE dev = "ps2"
    BY <1>3, <1>4, <1>5, <2>2 DEF Reads
  <2>3. CASE dev = "other"
    <3>1. \E j \in 1 .. MaxWait : counter85' = 85 * j
      BY <1>4, <2>1
    <3> QED
      BY <1>3, <1>4, <1>5, <2>3, <3>1 DEF Waits
  <2> QED
    BY <2>2, <2>3
<1>7. Quietly
  BY <1>0, <1>1, <1>4, <1>5, NotDelayed DEF Quietly
<1> QED
  BY <1>4, <1>5, <1>6, <1>7

(* The controller is read.                                                 *)
LEMMA ReadsStep ==
  ASSUME Reads, fifo[r_ptr] \in Scans \cup {0}, empty \in BOOLEAN,
         NEW done \in BOOLEAN, Delayer(done), Driver, Apb
  PROVE  Delays' /\ (Quietly \/ Fetches) /\ prdata_r' \in Scans \cup {0} /\ dev' = dev
<1>0. apb = "access" /\ state = "wait_perip_t" /\ ps2_apb_state = "READ" /\ counter85 = 85 /\ dev = "ps2"
  BY DEF Reads
<1>1. in_penable /\ ps2_pready /\ out_pready(done) /\ (pop <=> empty) /\ ~in_pready
  BY <1>0 DEF in_penable, ps2_pready, pop, out_pready, in_pready
<1>2. ps2_apb_state' = "IDLE"
  BY <1>0 DEF Apb
<1>3. out_prdata = IF empty THEN fifo[r_ptr] ELSE 0
  BY <1>0, <1>1 DEF out_prdata, ps2_prdata
<1>4. state' = "delay_t" /\ counter85' = (85 * 1 + 85) \div 32 /\ prdata_r' = IF empty THEN fifo[r_ptr] ELSE 0
  <2>1. 85 * 1 + 85 = 85 + 85
    OBVIOUS
  <2>2. state' = "delay_t" /\ counter85' = (counter85 + 85) \div 32 /\ prdata_r' = out_prdata
    BY <1>0, <1>1 DEF Delayer
  <2> QED
    BY <1>0, <1>3, <2>1, <2>2
<1>5. UNCHANGED <<is_break, is_extend, reported, dev, apb>>
  BY <1>0, <1>1 DEF Driver
<1>6. Delays'
  <2>1. 1 \in 1 .. MaxWait
    BY Ps2Parameters
  <2>2. counter85' \in 1 .. 85 * MaxWait
    BY <1>4, <2>1, DelayIs
  <2> QED
    BY <1>0, <1>2, <1>4, <1>5, <2>2 DEF Delays
<1>7. InRead = 0
  BY <1>0, NotDelayed
<1>8. CASE empty
  BY <1>0, <1>1, <1>4, <1>5, <1>6, <1>7, <1>8 DEF Fetches
<1>9. CASE ~empty
  BY <1>0, <1>1, <1>4, <1>5, <1>6, <1>7, <1>9, NotDelayed DEF Quietly
<1> QED
  BY <1>8, <1>9

(* The other peripheral works.                                             *)
LEMMA WaitsStep ==
  ASSUME Waits, prdata_r \in Scans \cup {0}, NEW done \in BOOLEAN,
         dev = "other" /\ counter85 = 85 * MaxWait => done, Delayer(done), Driver, Apb
  PROVE  (Waits' \/ Delays') /\ Quietly /\ prdata_r' \in Scans \cup {0} /\ dev' = dev
<1>0. apb = "access" /\ state = "wait_perip_t" /\ ps2_apb_state = "IDLE" /\ dev = "other"
  BY DEF Waits
<1>00. PICK j \in 1 .. MaxWait : counter85 = 85 * j
  BY DEF Waits
<1>1. ~ps2_pready /\ (out_pready(done) <=> done) /\ ~pop /\ ~in_pready /\ out_prdata = 0
  BY <1>0 DEF ps2_pready, pop, out_pready, in_pready, out_prdata
<1>2. ps2_apb_state' = "IDLE"
  BY <1>0 DEF Apb
<1>3. UNCHANGED <<is_break, is_extend, reported, dev, apb>>
  BY <1>0, <1>1 DEF Driver
<1>4. prdata_r' = IF done THEN 0 ELSE prdata_r
  BY <1>1 DEF Delayer
<1>5. ASSUME done PROVE Delays'
  <2>1. state' = "delay_t" /\ counter85' = (85 * j + 85) \div 32
    BY <1>0, <1>00, <1>1, <1>5 DEF Delayer
  <2>2. counter85' \in 1 .. 85 * MaxWait
    BY <2>1, DelayIs
  <2> QED
    BY <1>0, <1>2, <1>3, <2>1, <2>2 DEF Delays
<1>6. ASSUME ~done PROVE Waits'
  <2>1. state' = state /\ counter85' = 85 * j + 85
    BY <1>0, <1>00, <1>1, <1>6 DEF Delayer
  <2>2. j + 1 \in 1 .. MaxWait
    BY <1>0, <1>00, <1>6, Ps2Parameters
  <2>3. counter85' = 85 * (j + 1)
    BY <2>1, DelayIs
  <2>4. \E i \in 1 .. MaxWait : counter85' = 85 * i
    BY <2>2, <2>3
  <2> QED
    BY <1>0, <1>2, <1>3, <2>1, <2>4 DEF Waits
<1>7. Quietly
  BY <1>0, <1>1, <1>3, NotDelayed DEF Quietly
<1> QED
  BY <1>3, <1>4, <1>5, <1>6, <1>7

(* The answer is delayed, and given.                                       *)
LEMMA DelaysStep ==
  ASSUME Delays, dev \in {"ps2", "other"}, NEW done \in BOOLEAN, done => dev = "other" /\ in_penable /\ out_psel,
         Delayer(done), Driver, Apb
  PROVE  (Delays' \/ Between' \/ Asked') /\ (Quietly \/ HandsOver) /\ prdata_r' = prdata_r /\ dev' \in {"ps2", "other"}
<1>0. apb = "access" /\ state = "delay_t" /\ ps2_apb_state = "IDLE" /\ counter85 \in 1 .. 85 * MaxWait
  BY DEF Delays
<1>1. ~out_psel /\ ~ps2_pready /\ ~pop /\ (in_pready <=> counter85 = 1)
  BY <1>0 DEF out_psel, ps2_pready, pop, in_pready
<1>2. ps2_apb_state' = "IDLE"
  BY <1>1 DEF Apb
<1>3. ~out_pready(done)
  BY <1>1 DEF out_pready
<1>4. prdata_r' = prdata_r
  BY <1>3 DEF Delayer
<1>5. CASE counter85 = 1
  <2>1. state' = "idle_t" /\ counter85' = 0
    BY <1>0, <1>5 DEF Delayer
  <2>2. /\ Accept
        /\ IF dev = "ps2" THEN __am_input_keybrd(prdata_r) ELSE UNCHANGED <<is_break, is_extend, reported>>
    BY <1>0, <1>1, <1>5 DEF Driver
  <2>3. (Between' \/ Asked') /\ dev' \in {"ps2", "other"}
    BY <1>2, <2>1, <2>2 DEF Accept, Between, Asked
  <2>4. InRead' = 0
    BY <2>1, NotDelayed
  <2>5. CASE dev = "ps2"
    BY <1>0, <1>1, <1>4, <2>2, <2>3, <2>4, <2>5 DEF HandsOver
  <2>6. CASE dev = "other"
    <3>1. InRead = 0
      BY <2>6, NotDelayed
    <3> QED
      BY <1>1, <1>4, <2>2, <2>3, <2>4, <2>6, <3>1 DEF Quietly
  <2> QED
    BY <2>5, <2>6
<1>6. CASE counter85 # 1
  <2>1. state' = state /\ counter85' = counter85 - 1
    BY <1>0, <1>6 DEF Delayer
  <2>2. UNCHANGED <<is_break, is_extend, reported, dev, apb>>
    BY <1>0, <1>1, <1>6 DEF Driver
  <2>3. counter85' \in 1 .. 85 * MaxWait
    BY <1>0, <1>6, <2>1, Ps2Parameters
  <2>4. Delays'
    BY <1>0, <1>2, <2>1, <2>2, <2>3 DEF Delays
  <2>5. InRead' = InRead
    BY <1>4, <2>1, <2>2 DEF InRead
  <2> QED
    BY <1>1, <1>4, <2>2, <2>4, <2>5 DEF Quietly
<1> QED
  BY <1>5, <1>6

(* The driver is given a code or nothing.                                  *)
LEMMA HandsOverTypes ==
  ASSUME HandsOver, prdata_r \in Scans \cup {0}, is_break \in BOOLEAN, is_extend \in BOOLEAN, reported \in Seq(Event)
  PROVE  is_break' \in BOOLEAN /\ is_extend' \in BOOLEAN /\ reported' \in Seq(Event)
<1>0. __am_input_keybrd(prdata_r)
  BY DEF HandsOver
<1>1. CASE prdata_r = E0 /\ is_extend' = TRUE /\ UNCHANGED <<is_break, reported>>
  BY <1>1
<1>2. CASE prdata_r = F0 /\ is_break' = TRUE /\ UNCHANGED <<is_extend, reported>>
  BY <1>2
<1>3. CASE prdata_r = 0 /\ UNCHANGED <<is_break, is_extend, reported>>
  BY <1>3
<1>4. CASE /\ prdata_r \notin {E0, F0, 0}
           /\ reported' = Append(reported, [key |-> prdata_r, extend |-> is_extend, down |-> ~is_break])
           /\ is_extend' = FALSE /\ is_break' = FALSE
  <2>1. prdata_r \in Codes
    BY <1>4 DEF Scans
  <2>2. (~is_break) \in BOOLEAN
    OBVIOUS
  <2> DEFINE ev == [key |-> prdata_r, extend |-> is_extend, down |-> ~is_break]
  <2>3. ev \in Event
    BY <2>1, <2>2 DEF Event
  <2>4. reported' = Append(reported, ev) /\ is_extend' \in BOOLEAN /\ is_break' \in BOOLEAN
    BY <1>4, Zenon
  <2> HIDE DEF ev
  <2>5. Append(reported, ev) \in Seq(Event)
    BY <2>3
  <2> QED
    BY <2>4, <2>5, Zenon
<1> QED
  BY <1>0, <1>1, <1>2, <1>3, <1>4 DEF __am_input_keybrd

(* The bus goes from phase to phase.                                       *)
LEMMA BusStep ==
  ASSUME BusPhase, Ps2Typed, NEW done \in BOOLEAN, done => dev = "other" /\ in_penable /\ out_psel,
         dev = "other" /\ counter85 = 85 * MaxWait => done, Delayer(done), Driver, Apb
  PROVE  /\ BusPhase' /\ (Quietly \/ Fetches \/ HandsOver) /\ prdata_r' \in Scans \cup {0} /\ dev' \in {"ps2", "other"}
         /\ is_break' \in BOOLEAN /\ is_extend' \in BOOLEAN /\ reported' \in Seq(Event)
<1>0. /\ dev \in {"ps2", "other"} /\ prdata_r \in Scans \cup {0} /\ fifo[r_ptr] \in Scans \cup {0}
      /\ empty \in BOOLEAN /\ is_break \in BOOLEAN /\ is_extend \in BOOLEAN /\ reported \in Seq(Event)
  BY DEF Ps2Typed
<1>1. BusPhase' /\ (Quietly \/ Fetches \/ HandsOver) /\ prdata_r' \in Scans \cup {0} /\ dev' \in {"ps2", "other"}
  <2>1. CASE Between
    <3>1. (Between' \/ Asked') /\ Quietly /\ prdata_r' = prdata_r /\ dev' \in {"ps2", "other"}
      BY <2>1, BetweenStep
    <3> QED
      BY <1>0, <3>1 DEF BusPhase
  <2>2. CASE Asked
    <3>1. (Reads' \/ Waits') /\ Quietly /\ prdata_r' = prdata_r /\ dev' = dev
      BY <1>0, <2>2, AskedStep
    <3> QED
      BY <1>0, <3>1 DEF BusPhase
  <2>3. CASE Reads
    <3>1. Delays' /\ (Quietly \/ Fetches) /\ prdata_r' \in Scans \cup {0} /\ dev' = dev
      BY <1>0, <2>3, ReadsStep
    <3> QED
      BY <1>0, <3>1 DEF BusPhase
  <2>4. CASE Waits
    <3>1. (Waits' \/ Delays') /\ Quietly /\ prdata_r' \in Scans \cup {0} /\ dev' = dev
      BY <1>0, <2>4, WaitsStep
    <3> QED
      BY <1>0, <3>1 DEF BusPhase
  <2>5. CASE Delays
    <3>1. (Delays' \/ Between' \/ Asked') /\ (Quietly \/ HandsOver) /\ prdata_r' = prdata_r /\ dev' \in {"ps2", "other"}
      BY <1>0, <2>5, DelaysStep
    <3> QED
      BY <1>0, <3>1 DEF BusPhase
  <2> QED
    BY <2>1, <2>2, <2>3, <2>4, <2>5 DEF BusPhase
<1>2. is_break' \in BOOLEAN /\ is_extend' \in BOOLEAN /\ reported' \in Seq(Event)
  <2>1. CASE Quietly \/ Fetches
    BY <1>0, <2>1 DEF Quietly, Fetches
  <2>2. CASE HandsOver
    BY <1>0, <2>2, HandsOverTypes
  <2> QED
    BY <1>1, <2>1, <2>2
<1> QED
  BY <1>1, <1>2

(* While no code is in the read, it does not matter what it holds.         *)
LEMMA WayAny ==
  ASSUME NEW v, NEW z, NEW f, NEW r, NEW c \in Nat, NEW w, Len(w) \in Nat
  PROVE  Way(0, v, f, r, c, w) = Way(0, z, f, r, c, w)
<1> DEFINE x == Way(0, v, f, r, c, w)
           y == Way(0, z, f, r, c, w)
           g == [i \in 1 .. 0 + c + Len(w) |-> IF i <= 0 + c THEN f[(r + (i - 0 - 1)) % DEPTH] ELSE w[i - 0 - c]]
<1>1. \A i \in 1 .. 0 + c + Len(w) : ~(i <= 0)
  OBVIOUS
<1>2. x = g
  BY <1>1 DEF Way
<1>3. y = g
  BY <1>1 DEF Way
<1> HIDE DEF x, y, g
<1> QED
  BY <1>2, <1>3 DEF x, y

(* No code moves on the bus: those on their way stay the same.             *)
LEMMA QuietWay ==
  ASSUME Quietly, stored \in Nat, Len(wire) \in Nat,
         \A a \in 0 .. 1 : \A v : Way(a, v, fifo', r_ptr', stored', wire') = Way(a, v, fifo, r_ptr, stored, wire)
  PROVE  OnWay' = OnWay
<1>0. InRead' = InRead /\ (InRead = 1 => prdata_r' = prdata_r) /\ InRead \in 0 .. 1
  BY NotDelayed DEF Quietly
<1>1. OnWay' = Way(InRead, prdata_r', fifo', r_ptr', stored', wire')
  BY <1>0 DEF OnWay
<1>2. OnWay' = Way(InRead, prdata_r', fifo, r_ptr, stored, wire)
  BY <1>0, <1>1
<1>3. CASE InRead = 1
  BY <1>0, <1>2, <1>3 DEF OnWay
<1>4. CASE InRead = 0
  <2>1. Way(0, prdata_r', fifo, r_ptr, stored, wire) = Way(0, prdata_r, fifo, r_ptr, stored, wire)
    BY WayAny
  <2> QED
    BY <1>2, <1>4, <2>1 DEF OnWay
<1> QED
  BY <1>0, <1>3, <1>4

(* A read with a code in it holds the first of those on their way, and the *)
(* others follow.                                                          *)
LEMMA ReadFirst ==
  ASSUME NEW v, NEW z, NEW f, NEW r, NEW c \in Nat, NEW w, Len(w) \in Nat
  PROVE  /\ Len(Way(1, v, f, r, c, w)) \in Nat /\ Len(Way(1, v, f, r, c, w)) > 0
         /\ First(Way(1, v, f, r, c, w)) = v /\ IsTail(Way(0, z, f, r, c, w), Way(1, v, f, r, c, w))
<1> DEFINE x == Way(1, v, f, r, c, w)
           y == Way(0, z, f, r, c, w)
<1>1. Len(x) = 1 + c + Len(w) /\ Len(y) = 0 + c + Len(w)
  BY WayIs
<1>2. x = [i \in 1 .. 1 + c + Len(w) |->
             IF i <= 1 THEN v ELSE IF i <= 1 + c THEN f[(r + (i - 1 - 1)) % DEPTH] ELSE w[i - 1 - c]]
  BY DEF Way
<1>3. y = [i \in 1 .. 0 + c + Len(w) |->
             IF i <= 0 THEN z ELSE IF i <= 0 + c THEN f[(r + (i - 0 - 1)) % DEPTH] ELSE w[i - 0 - c]]
  BY DEF Way
<1> HIDE DEF x, y
<1>4. ASSUME NEW i \in 1 .. c + Len(w)
      PROVE  (IF i <= 0 THEN z ELSE IF i <= 0 + c THEN f[(r + (i - 0 - 1)) % DEPTH] ELSE w[i - 0 - c]) = x[i + 1]
  <2>1. i + 1 \in 1 .. 1 + c + Len(w) /\ ~(i + 1 <= 1) /\ ~(i <= 0) /\ (i + 1) - 1 - 1 = i - 0 - 1 /\ (i + 1) - 1 - c = i - 0 - c
        /\ (i + 1 <= 1 + c <=> i <= 0 + c)
    OBVIOUS
  <2>2. x[i + 1] = IF i + 1 <= 1 + c THEN f[(r + ((i + 1) - 1 - 1)) % DEPTH] ELSE w[(i + 1) - 1 - c]
    BY <1>2, <2>1
  <2> QED
    BY <2>1, <2>2
<1>5. 0 + c + Len(w) = c + Len(w) /\ Len(x) - 1 = c + Len(w) /\ Len(x) > 0 /\ 1 \in 1 .. 1 + c + Len(w)
  BY <1>1
<1>6. x[1] = v
  BY <1>2, <1>5
<1>7. y = [i \in 1 .. Len(x) - 1 |-> x[i + 1]]
  BY <1>3, <1>4, <1>5
<1>8. Len(y) = Len(x) - 1 /\ Len(x) \in Nat /\ \A i \in 1 .. Len(x) - 1 : y[i] = x[i + 1]
  BY <1>1, <1>7
<1>9. First(x) = v /\ IsTail(y, x) /\ Len(x) \in Nat /\ Len(x) > 0
  BY <1>5, <1>6, <1>8 DEF First, IsTail
<1> QED
  BY <1>9 DEF x, y

(* A code goes from the fifo to the read.                                  *)
LEMMA FetchWay ==
  ASSUME Ps2Typed, Fetches, stored \in Nat, stored' \in Nat, Len(wire') \in Nat, stored > 0,
         \A v : Way(1, fifo[r_ptr], fifo', r_ptr', stored', wire') = Way(0, v, fifo, r_ptr, stored, wire),
         Told(OnWay, typed, Len(reported), is_extend, is_break)
  PROVE  OnWay' = OnWay
<1> DEFINE v == fifo[r_ptr]
           p == Way(1, v, fifo', r_ptr', stored', wire')
           q == Way(0, v, fifo', r_ptr', stored', wire')
<1>0. InRead = 0 /\ prdata_r' = v /\ state' = "delay_t" /\ dev' = "ps2"
  BY DEF Fetches
<1>1. OnWay = Way(0, prdata_r, fifo, r_ptr, stored, wire)
  BY <1>0 DEF OnWay
<1>2. OnWay = p
  BY <1>1
<1>3. Len(p) \in Nat /\ Len(p) > 0 /\ First(p) = v /\ IsTail(q, p)
  BY ReadFirst
<1>4. typed \in Seq(Event) /\ Len(reported) \in Nat /\ is_extend \in BOOLEAN /\ is_break \in BOOLEAN
  BY DEF Ps2Typed
<1> HIDE DEF p, q, v
<1>5. First(p) \in Scans
  BY <1>2, <1>3, <1>4, ToldTakes
<1>6. prdata_r' # 0
  BY <1>0, <1>3, <1>5, Ps2Parameters
<1>7. InRead' = 1
  BY <1>0, <1>6 DEF InRead
<1>8. OnWay' = p
  BY <1>0, <1>7 DEF OnWay, p
<1> QED
  BY <1>2, <1>8

(* The driver is given what was read: it has told the first events.        *)
LEMMA HandsOverTold ==
  ASSUME Ps2Typed, HandsOver, stored \in Nat, Len(wire) \in Nat,
         \A a \in 0 .. 1 : \A v : Way(a, v, fifo', r_ptr', stored', wire') = Way(a, v, fifo, r_ptr, stored, wire),
         Told(OnWay, typed, Len(reported), is_extend, is_break), \A i \in 1 .. Len(reported) : reported[i] = typed[i]
  PROVE  /\ Told(OnWay', typed, Len(reported'), is_extend', is_break')
         /\ \A i \in 1 .. Len(reported') : reported'[i] = typed[i]
<1> DEFINE n == Len(reported)
           q == Way(0, prdata_r', fifo, r_ptr, stored, wire)
<1>0. typed \in Seq(Event) /\ reported \in Seq(Event) /\ n \in Nat /\ is_extend \in BOOLEAN /\ is_break \in BOOLEAN
  BY DEF Ps2Typed
<1>1. InRead' = 0 /\ state = "delay_t" /\ dev = "ps2" /\ __am_input_keybrd(prdata_r)
  BY DEF HandsOver
<1>2. OnWay' = q
  <2>1. OnWay' = Way(0, prdata_r', fifo', r_ptr', stored', wire') /\ 0 \in 0 .. 1
    BY <1>1 DEF OnWay
  <2> QED
    BY <2>1
<1>3. CASE prdata_r = 0
  <2>1. UNCHANGED <<is_break, is_extend, reported>>
    BY <1>1, <1>3 DEF __am_input_keybrd, E0, F0
  <2>2. InRead = 0
    BY <1>3, NotDelayed
  <2>3. OnWay = Way(0, prdata_r, fifo, r_ptr, stored, wire)
    BY <2>2 DEF OnWay
  <2>4. q = OnWay
    BY <2>3, WayAny
  <2> HIDE DEF q
  <2> QED
    BY <1>2, <2>1, <2>4
<1>4. CASE prdata_r # 0
  <2> DEFINE p == Way(1, prdata_r, fifo, r_ptr, stored, wire)
  <2>1. InRead = 1
    BY <1>1, <1>4 DEF InRead
  <2>2. OnWay = p
    BY <2>1 DEF OnWay
  <2>3. Len(p) \in Nat /\ Len(p) > 0 /\ First(p) = prdata_r /\ IsTail(q, p)
    BY ReadFirst
  <2> HIDE DEF p, q
  <2>4. Told(p, typed, n, is_extend, is_break)
    BY <2>2
  <2> HIDE DEF n
  <2>5. /\ First(p) = E0 => Told(q, typed, n, TRUE, is_break)
        /\ First(p) = F0 => Told(q, typed, n, is_extend, TRUE)
        /\ First(p) \notin {E0, F0} =>
             NextIs(typed, n, First(p), is_extend, is_break) /\ Told(q, typed, n + 1, FALSE, FALSE)
    BY <1>0, <2>3, <2>4, ToldTakes
  <2>6. CASE prdata_r = E0 /\ is_extend' = TRUE /\ UNCHANGED <<is_break, reported>>
    <3>1. Told(q, typed, n, TRUE, is_break)
      BY <2>3, <2>5, <2>6
    <3> QED
      BY <1>2, <2>6, <3>1, Zenon DEF n
  <2>7. CASE prdata_r = F0 /\ is_break' = TRUE /\ UNCHANGED <<is_extend, reported>>
    <3>1. Told(q, typed, n, is_extend, TRUE)
      BY <2>3, <2>5, <2>7
    <3> QED
      BY <1>2, <2>7, <3>1, Zenon DEF n
  <2>8. CASE /\ prdata_r \notin {E0, F0, 0}
             /\ reported' = Append(reported, [key |-> prdata_r, extend |-> is_extend, down |-> ~is_break])
             /\ is_extend' = FALSE /\ is_break' = FALSE
    <3> DEFINE ev == [key |-> prdata_r, extend |-> is_extend, down |-> ~is_break]
    <3>1. typed[n + 1] = ev /\ Told(q, typed, n + 1, FALSE, FALSE)
      <4>1. First(p) \notin {E0, F0} /\ First(p) = prdata_r
        BY <2>3, <2>8
      <4> QED
        BY <2>5, <4>1, Zenon DEF NextIs
    <3>2. reported' = Append(reported, ev)
      BY <2>8, Zenon
    <3> HIDE DEF ev
    <3>3. Len(reported') = n + 1 /\ \A i \in 1 .. n + 1 : reported'[i] = IF i = n + 1 THEN ev ELSE reported[i]
      BY <1>0, <3>2 DEF n
    <3>4. \A i \in 1 .. n + 1 : reported'[i] = typed[i]
      <4> TAKE i \in 1 .. n + 1
      <4>1. CASE i = n + 1
        BY <3>1, <3>3, <4>1
      <4>2. CASE i \in 1 .. n
        BY <1>0, <3>3, <4>2 DEF n
      <4> QED
        BY <1>0, <4>1, <4>2
    <3>5. Told(OnWay', typed, n + 1, is_extend', is_break')
      BY <1>2, <2>8, <3>1, Zenon
    <3> QED
      BY <3>3, <3>4, <3>5
  <2> QED
    BY <1>1, <1>4, <2>6, <2>7, <2>8, Zenon DEF __am_input_keybrd
<1> QED
  BY <1>3, <1>4

(* A cycle keeps the invariant.                                            *)
LEMMA ClockStep ==
  ASSUME Ps2Inv, Clock
  PROVE  Ps2Inv'
<1>0. Ps2Typed /\ BusPhase
  BY DEF Ps2Inv
<1>1. PICK edge \in BOOLEAN, good \in BOOLEAN : (edge => wire # <<>> /\ ~sampled) /\ Receiver(edge, good)
  BY DEF Clock
<1>2. PICK done \in BOOLEAN : /\ done => dev = "other" /\ in_penable /\ out_psel
                              /\ dev = "other" /\ counter85 = 85 * MaxWait => done
                              /\ Delayer(done)
  BY DEF Clock
<1>3. Driver /\ Apb /\ typed' = typed
  BY DEF Clock
<1>4. /\ BusPhase' /\ (Quietly \/ Fetches \/ HandsOver) /\ prdata_r' \in Scans \cup {0} /\ dev' \in {"ps2", "other"}
      /\ is_break' \in BOOLEAN /\ is_extend' \in BOOLEAN /\ reported' \in Seq(Event)
  BY ONLY <1>0, <1>2, <1>3, BusStep
<1>5. /\ wire' \in Seq(Scans) /\ counter' \in 0 .. LastBit /\ fifo' \in [0 .. DEPTH - 1 -> Scans \cup {0}]
      /\ w_ptr' \in 0 .. DEPTH - 1 /\ r_ptr' \in 0 .. DEPTH - 1 /\ empty' \in BOOLEAN
      /\ stored' \in Int /\ lost' \in BOOLEAN /\ raced' \in BOOLEAN
  BY ONLY <1>0, <1>1, ReceiverTyped
<1>6. Ps2Typed'
  BY <1>0, <1>3, <1>4, <1>5 DEF Ps2Typed
<1>7. ASSUME ~lost' PROVE Arrives'
  <2>1. ~lost
    <3>1. lost' = (lost \/ (edge /\ counter = LastBit /\ ~good) \/ stored' > DEPTH)
      BY <1>1, Zenon DEF Receiver
    <3> QED
      BY <1>7, <3>1, Zenon
  <2>2. Arrives
    BY <2>1 DEF Ps2Inv
  <2>3. /\ stored \in 0 .. DEPTH /\ w_ptr = (r_ptr + stored) % DEPTH /\ (empty <=> stored > 0 /\ ~raced)
        /\ Told(OnWay, typed, Len(reported), is_extend, is_break)
        /\ \A i \in 1 .. Len(reported) : reported[i] = typed[i]
    BY <2>2 DEF Arrives
  <2>4. /\ stored' \in 0 .. DEPTH /\ w_ptr' = (r_ptr' + stored') % DEPTH /\ (empty' <=> stored' > 0 /\ ~raced')
        /\ ~pop => \A a \in 0 .. 1 : \A v :
             Way(a, v, fifo', r_ptr', stored', wire') = Way(a, v, fifo, r_ptr, stored, wire)
        /\ pop => /\ \A v : Way(1, fifo[r_ptr], fifo', r_ptr', stored', wire') = Way(0, v, fifo, r_ptr, stored, wire)
                  /\ stored > 0
    <3>1. edge => wire # <<>>
      BY <1>1
    <3> QED
      BY ONLY <1>0, <1>1, <1>7, <2>3, <3>1, ReceiverStep
  <2>5. stored \in Nat /\ stored' \in Nat /\ Len(wire) \in Nat /\ Len(wire') \in Nat
    <3>1. DEPTH \in Nat /\ wire \in Seq(Scans)
      BY <1>0, Ps2Parameters DEF Ps2Typed
    <3> QED
      BY <1>5, <2>3, <2>4, <3>1
  <2>6. Told(OnWay', typed, Len(reported'), is_extend', is_break') /\ \A i \in 1 .. Len(reported') : reported'[i] = typed[i]
    <3>1. CASE Quietly
      <4>1. OnWay' = OnWay
        BY ONLY <2>4, <2>5, <3>1, QuietWay DEF Quietly
      <4> QED
        BY <2>3, <3>1, <4>1 DEF Quietly
    <3>2. CASE Fetches
      <4>1. OnWay' = OnWay
        BY ONLY <1>0, <2>3, <2>4, <2>5, <3>2, FetchWay DEF Fetches
      <4> QED
        BY <2>3, <3>2, <4>1 DEF Fetches
    <3>3. CASE HandsOver
      <4>1. ~pop
        BY <3>3 DEF HandsOver
      <4> QED
        BY ONLY <1>0, <2>3, <2>4, <2>5, <3>3, <4>1, HandsOverTold
    <3> QED
      BY <1>4, <3>1, <3>2, <3>3
  <2> QED
    BY <1>3, <2>4, <2>6 DEF Arrives
<1> QED
  BY <1>4, <1>6, <1>7 DEF Ps2Inv

(* The invariant says what the property asks.                              *)
LEMMA Ps2Implies == Ps2Inv => KeyboardFaithful
<1> SUFFICES ASSUME Ps2Inv PROVE KeyboardFaithful
  OBVIOUS
<1>0. Ps2Typed /\ BusPhase
  BY DEF Ps2Inv
<1>1. Scans \cup {0} = Codes \cup {0, E0, F0}
  BY DEF Scans
<1>2. counter85 \in 0 .. 85 * MaxWait
  <2>0. MaxWait \in Nat /\ MaxWait > 0
    BY Ps2Parameters
  <2>1. CASE counter85 = 0 \/ counter85 = 85 \/ counter85 \in 1 .. 85 * MaxWait
    BY <2>0, <2>1
  <2>2. CASE \E j \in 1 .. MaxWait : counter85 = 85 * j
    BY <2>2, DelayIs
  <2> QED
    BY <1>0, <2>1, <2>2 DEF BusPhase, Between, Asked, Reads, Waits, Delays
<1>3. Ps2TypeOK
  <2>1. /\ w_ptr \in DOMAIN fifo /\ r_ptr \in DOMAIN fifo /\ counter \in 0 .. LastBit
        /\ \A i \in DOMAIN fifo : fifo[i] \in Scans \cup {0}
        /\ prdata_r \in Scans \cup {0}
    BY <1>0 DEF Ps2Typed
  <2>2. \A i \in DOMAIN reported : reported[i] \in Event
    BY <1>0 DEF Ps2Typed
  <2> QED
    BY <1>1, <1>2, <2>1, <2>2 DEF Ps2TypeOK
<1>4. KeysDecoded
  <2> SUFFICES ASSUME ~lost PROVE IsPrefix(reported, typed)
    BY DEF KeysDecoded
  <2>1. /\ \A i \in 1 .. Len(reported) : reported[i] = typed[i]
        /\ Len(reported) <= Len(typed)
    BY DEF Ps2Inv, Arrives, Told
  <2>2. reported \in Seq(Event) /\ typed \in Seq(Event)
    BY <1>0 DEF Ps2Typed
  <2>3. SubSeq(typed, 1, Len(reported)) = [i \in 1 .. Len(reported) |-> typed[i]]
    BY <2>1, <2>2
  <2>4. reported = [i \in 1 .. Len(reported) |-> reported[i]]
    BY <2>2
  <2>5. reported = SubSeq(typed, 1, Len(reported))
    BY <2>1, <2>3, <2>4
  <2> QED
    BY <2>1, <2>5 DEF IsPrefix
<1>5. FlagTellsContents
  BY DEF FlagTellsContents, Ps2Inv, Arrives
<1> QED
  BY <1>3, <1>4, <1>5 DEF KeyboardFaithful

(* The program is told what was typed, in order and once, and the flag     *)
(* that decides whether a read takes a code is right, unless a frame was   *)
(* bad or the fifo ran over (ps2_top_apb.v:63, input.c:92).                *)
THEOREM KeyboardAlwaysFaithful == Ps2Spec => []KeyboardFaithful
<1>1. Ps2Inv /\ [Ps2Next]_ps2Vars => Ps2Inv'
  <2> SUFFICES ASSUME Ps2Inv, [Ps2Next]_ps2Vars PROVE Ps2Inv'
    OBVIOUS
  <2>1. CASE Clock
    BY <2>1, ClockStep
  <2>2. CASE \E e \in Event : Type(e)
    BY <2>2, TypeStep
  <2>3. CASE UNCHANGED ps2Vars
    BY <2>3 DEF ps2Vars, receiver, Ps2Inv, Ps2Typed, BusPhase, Between, Asked, Reads, Waits, Delays, Arrives, OnWay, InRead
  <2> QED
    BY <2>1, <2>2, <2>3 DEF Ps2Next
<1> QED
  BY <1>1, Ps2Starts, Ps2Implies, PTL DEF Ps2Spec

=============================================================================
