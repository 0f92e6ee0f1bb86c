------------------------------- MODULE RtMem --------------------------------
(***************************************************************************)
(* The heap of RT-Thread (src/mem.c, the small memory algorithm that the   *)
(* abstract-machine port uses for rt_malloc).                              *)
(*                                                                         *)
(* The heap is a chain of items that tile it; an item is named by its      *)
(* offset in heap_ptr and begins with a header of SIZEOF_STRUCT_MEM bytes. *)
(*   item   the headers of the chain: used, next, prev                     *)
(*   lfree  the lowest free item, or heap_end                              *)
(*   inuse  `used' of the memory object; its maximum is left out           *)
(*   block  history: for the item of each pointer the application holds,   *)
(*          the size it asked for, aligned                                 *)
(*   none   history: the size the last call asked for in vain, or 0        *)
(* rt_malloc, rt_realloc and rt_free call these functions with the heap    *)
(* locked, so a call is one step.                                          *)
(***************************************************************************)
EXTENDS Integers, FiniteSets, FiniteSetsExt, Functions

CONSTANTS
  RT_ALIGN_SIZE, MIN_SIZE,
  SIZEOF_STRUCT_MEM,   \* of a header, aligned
  mem_size_aligned,    \* bytes of the heap but for two headers
  Sizes,               \* what the application asks for
  NoMem                \* RT_NULL

(* Sizes are unbounded here.  In the code a request that is less than      *)
(* RT_ALIGN_SIZE below 2^32 wraps to 0 (mem.c:303, 435).                   *)
RT_ALIGN(n) == ((n + RT_ALIGN_SIZE - 1) \div RT_ALIGN_SIZE) * RT_ALIGN_SIZE
MIN_SIZE_ALIGNED == RT_ALIGN(MIN_SIZE)

ASSUME MemAssumption ==
  /\ {RT_ALIGN_SIZE, MIN_SIZE, SIZEOF_STRUCT_MEM, mem_size_aligned} \subseteq Nat \ {0}
  /\ SIZEOF_STRUCT_MEM % RT_ALIGN_SIZE = 0 /\ mem_size_aligned % RT_ALIGN_SIZE = 0
  /\ Sizes \subseteq Nat /\ NoMem \notin Nat

VARIABLES item, lfree, inuse, block, none

memVars == <<item, lfree, inuse, block, none>>

heap_end == mem_size_aligned + SIZEOF_STRUCT_MEM
Offsets == 0 .. heap_end

-----------------------------------------------------------------------------
(* Items.  A function of the code is an operator on a heap h, a record of  *)
(* item, lfree and inuse.                                                  *)

Room(h, p) == h.item[p].next - p - SIZEOF_STRUCT_MEM

(* An item that is merged into its neighbour is none any more.             *)
Unlink(f, p) == Restrict(f, DOMAIN f \ {p})

(* Item p gets the item behind it.                                         *)
Absorb(h, p) ==
  LET n == h.item[p].next
      o == h.item[n].next
  IN [h EXCEPT !.item = Unlink([@ EXCEPT ![p].next = o, ![o].prev = p], n),
               !.lfree = IF @ = n THEN p ELSE @]

(* Mutation: the item before is not looked at.                             *)
plug_holes_forward(h, p) ==
  LET n == h.item[p].next IN IF ~h.item[n].used /\ n # heap_end THEN Absorb(h, p) ELSE h

plug_holes(h, p) ==
  LET n == h.item[p].next
      f == IF ~h.item[n].used /\ n # heap_end THEN Absorb(h, p) ELSE h
      b == f.item[p].prev
  IN IF b # p /\ ~f.item[b].used THEN Absorb(f, b) ELSE f

(* The tail of item p behind `size' bytes becomes a free item.             *)
Split(h, p, size) ==
  LET q == p + SIZEOF_STRUCT_MEM + size
      n == h.item[p].next
      linked == IF n # heap_end THEN [h.item EXCEPT ![n].prev = q] ELSE h.item
      new == [used |-> FALSE, next |-> n, prev |-> p]
  IN [h EXCEPT !.item = [x \in DOMAIN linked \cup {q} |->
                           IF x = q THEN new
                           ELSE IF x = p THEN [linked[p] EXCEPT !.next = q] ELSE linked[x]]]

-----------------------------------------------------------------------------
Free(h) == {p \in DOMAIN h.item \ {heap_end} : ~h.item[p].used}

(* Mutation: the last places of the heap are not looked at.                *)
Candidates_short(h, size) ==
  {p \in Free(h) : h.lfree <= p /\ p < mem_size_aligned - size /\ Room(h, p) >= size}

(* The items at which the walk from lfree could stop; it stops at the      *)
(* first.                                                                  *)
Candidates(h, size) ==
  {p \in Free(h) : h.lfree <= p /\ p <= mem_size_aligned - size /\ Room(h, p) >= size}

(* The walk of lfree from item p, just taken, to the next free one.        *)
LowestFree(h, p) == Min({heap_end} \cup {q \in Free(h) : q > p})

(* Take item p for `size' bytes.                                           *)
Take(h, p, size) ==
  LET s == IF Room(h, p) >= size + SIZEOF_STRUCT_MEM + MIN_SIZE_ALIGNED THEN Split(h, p, size) ELSE h
      u == [s EXCEPT !.item[p].used = TRUE, !.inuse = @ + s.item[p].next - p]
  IN [u EXCEPT !.lfree = IF @ = p THEN LowestFree(u, p) ELSE @]

(* rt_smem_alloc: the heap after it and the item it gives.                 *)
rt_smem_alloc(h, n) ==
  LET size == Max({RT_ALIGN(n), MIN_SIZE_ALIGNED})
  IN IF n = 0 \/ size > mem_size_aligned \/ Candidates(h, size) = {} THEN [heap |-> h, ret |-> NoMem]
     ELSE LET p == Min(Candidates(h, size)) IN [heap |-> Take(h, p, size), ret |-> p]

Lowest(h, p) == IF p < h.lfree THEN p ELSE h.lfree

rt_smem_free(h, p) ==
  plug_holes([h EXCEPT !.item[p].used = FALSE, !.lfree = Lowest(h, p),
                       !.inuse = @ - (h.item[p].next - p)], p)

(* The part of rt_smem_realloc that cuts an item.                          *)
Shrink(h, p, new) ==
  LET s == Split([h EXCEPT !.inuse = @ - (Room(h, p) - new)], p, new)
      q == s.item[p].next
  IN plug_holes([s EXCEPT !.lfree = Lowest(s, q)], q)

(* rt_smem_realloc of the item p for n bytes.  A block that is neither the *)
(* same nor much smaller moves, also to a smaller one.                     *)
rt_smem_realloc(h, p, n) ==
  LET new == RT_ALIGN(n)
  IN IF new > mem_size_aligned THEN [heap |-> h, ret |-> NoMem]
     ELSE IF new = 0 THEN [heap |-> IF p = NoMem THEN h ELSE rt_smem_free(h, p), ret |-> NoMem]
     ELSE IF p = NoMem THEN rt_smem_alloc(h, new)
     ELSE IF Room(h, p) = new THEN [heap |-> h, ret |-> p]
     ELSE IF new + SIZEOF_STRUCT_MEM + MIN_SIZE < Room(h, p) THEN [heap |-> Shrink(h, p, new), ret |-> p]
     ELSE LET a == rt_smem_alloc(h, new)
          IN IF a.ret = NoMem THEN a ELSE [a EXCEPT !.heap = rt_smem_free(@, p)]

-----------------------------------------------------------------------------
Heap == [item |-> item, lfree |-> lfree, inuse |-> inuse]

(* rt_smem_init: one free item, and heap_end, which is used for ever.      *)
MemInit ==
  /\ item = [p \in {0, heap_end} |-> [used |-> p = heap_end, next |-> heap_end, prev |-> p]]
  /\ lfree = 0 /\ inuse = 0
  /\ block = [p \in {} |-> 0] /\ none = 0

(* The application loses the pointers P and gets `ret' for `size' bytes.   *)
Held(P, ret, size) ==
  [p \in (DOMAIN block \ P) \cup ({ret} \ {NoMem}) |-> IF p = ret THEN RT_ALIGN(size) ELSE block[p]]

Becomes(h) == item' = h.item /\ lfree' = h.lfree /\ inuse' = h.inuse

rt_malloc(n) ==
  LET a == rt_smem_alloc(Heap, n)
  IN /\ Becomes(a.heap)
     /\ block' = Held({}, a.ret, n)
     /\ none' = IF a.ret = NoMem THEN RT_ALIGN(n) ELSE 0

(* A realloc to nothing frees; one that fails leaves the block as it is.   *)
rt_realloc(p, n) ==
  LET r == rt_smem_realloc(Heap, p, n)
  IN /\ Becomes(r.heap)
     /\ block' = Held(IF r.ret = NoMem /\ n # 0 THEN {} ELSE {p}, r.ret, n)
     /\ none' = IF r.ret = NoMem THEN RT_ALIGN(n) ELSE 0

rt_free(p) ==
  /\ Becomes(rt_smem_free(Heap, p))
  /\ block' = Held({p}, NoMem, 0) /\ none' = 0

MemNext ==
  \/ \E n \in Sizes : rt_malloc(n)
  \/ \E p \in DOMAIN block \cup {NoMem}, n \in Sizes : rt_realloc(p, n)
  \/ \E p \in DOMAIN block : rt_free(p)

MemSpec == MemInit /\ [][MemNext]_memVars

-----------------------------------------------------------------------------
(* Properties.                                                             *)

(* Offsets lie in the heap and `used' is the size of a part of it.         *)
MemTypeOK ==
  /\ DOMAIN item \subseteq Offsets /\ lfree \in DOMAIN item
  /\ \A p \in DOMAIN item : item[p].next \in DOMAIN item /\ item[p].prev \in Offsets
  /\ inuse \in Offsets

(* After any sequence of calls the chain tiles the heap: each item begins, *)
(* aligned, where the one before ends, prev leads back (but from heap_end, *)
(* whose prev nothing reads), no two free items touch, and lfree is the    *)
(* first free item, on which the assertion in rt_smem_alloc and its        *)
(* comment "mem->next will always be used at this point" rely.             *)
HeapTiled ==
  /\ \A p \in DOMAIN item \ {heap_end} :
       LET n == item[p].next
       IN /\ p % RT_ALIGN_SIZE = 0 /\ n >= p + SIZEOF_STRUCT_MEM
          /\ \A q \in DOMAIN item : q <= p \/ n <= q
          /\ n # heap_end => item[n].prev = p
          /\ item[p].used \/ item[n].used
  /\ item[0].prev = 0
  /\ lfree = Min({heap_end} \cup Free(Heap))

(* The application's blocks are exactly the used items, so no two overlap, *)
(* each has the room that was asked for, also after any realloc, and       *)
(* `used' counts the bytes of the heap that they and their headers take.   *)
BlocksKept ==
  /\ DOMAIN block = DOMAIN item \ (Free(Heap) \cup {heap_end})
  /\ \A p \in DOMAIN block : Room(Heap, p) >= block[p]
  /\ inuse = Cardinality({x \in Offsets : \E p \in DOMAIN block : p <= x /\ x < item[p].next})

(* "NULL if no free memory was found": a call fails only if no free item   *)
(* has the room, though the walk begins at lfree and ends before the last  *)
(* places of the heap.                                                     *)
NullOnlyIfFull ==
  none > 0 => \A p \in Free(Heap) : Room(Heap, p) < Max({none, MIN_SIZE_ALIGNED})

(* The heap after any sequence of malloc, realloc and free: a tiling of    *)
(* items whose used ones are the application's blocks, with lfree and used *)
(* exact (mem.c:278, 421, 515).                                            *)
HeapConsistent == MemTypeOK /\ HeapTiled /\ BlocksKept
=============================================================================
