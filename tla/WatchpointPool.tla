--------------------------- MODULE WatchpointPool ---------------------------
(***************************************************************************)
(* The watchpoint pool of NEMU's debugger (nemu/src/monitor/sdb).          *)
(*                                                                         *)
(* NR_WP nodes live on exactly one of two singly linked lists: `head', the *)
(* active watchpoints in creation order, and `free_'.  The commands w and  *)
(* d move nodes between them; cpu_exec re-evaluates every active           *)
(* watchpoint after each guest instruction and stops when one changed.     *)
(***************************************************************************)
EXTENDS Naturals, FiniteSets, Sequences

CONSTANTS
  NR_WP,     \* size of wp_pool
  Exprs,     \* expressions expr() accepts
  BadExprs,  \* expressions expr() rejects (*success = false)
  Values,    \* values an expression can take
  NULL,      \* the null pointer
  NoExpr     \* the empty string free_wp leaves in a node

ASSUME PoolAssumption ==
  /\ NR_WP \in Nat \ {0}
  /\ NULL \notin Nat
  /\ NoExpr \notin Exprs \cup BadExprs
  /\ 0 \in Values

VARIABLES
  next,        \* wp_pool[i].next
  e,           \* wp_pool[i].e
  value,       \* wp_pool[i].value
  head, free_, \* the two lists
  env,         \* what expr() returns now for each expression
  sdb_state   \* "STOP", "RUNNING", "END" or "DEAD" (a failed assert)

wpVars == <<next, e, value, head, free_, env, sdb_state>>
pool == <<next, e, value, head, free_>>

WP == 0 .. NR_WP - 1
Ptr == WP \cup {NULL}

(* The node reached from h after i steps of "p = p->next".                 *)
Walk(nxt, h, i) ==
  LET p[k \in 0 .. i] ==
        IF k = 0 THEN h ELSE IF p[k-1] = NULL THEN NULL ELSE nxt[p[k-1]]
  IN p[i]

Nodes(nxt, h) == {Walk(nxt, h, i) : i \in 0 .. NR_WP} \ {NULL}

(* All nodes are free.                                                     *)
init_wp_pool ==
  /\ next = [i \in WP |-> IF i = NR_WP - 1 THEN NULL ELSE i + 1]
  /\ e = [i \in WP |-> NoExpr]
  /\ value = [i \in WP |-> 0]
  /\ head = NULL
  /\ free_ = 0

WpInit ==
  /\ init_wp_pool
  /\ env \in [Exprs -> Values]
  /\ sdb_state = "STOP"

AtPrompt == sdb_state \in {"STOP", "END"}

(* cmd_w with a free node and a legal expression: take the first free node *)
(* and append it to the list of active ones.                               *)
new_wp(x) ==
  LET tmp == free_
      tail == CHOOSE p \in Nodes(next, head) : next[p] = NULL
      detached == [next EXCEPT ![tmp] = NULL]
  IN
  /\ AtPrompt
  /\ free_ # NULL
  /\ x \in Exprs
  /\ free_' = next[free_]
  /\ e' = [e EXCEPT ![tmp] = x]
  /\ value' = [value EXCEPT ![tmp] = env[x]]
  /\ IF head = NULL
     THEN head' = tmp /\ next' = detached
     ELSE head' = head /\ next' = [detached EXCEPT ![tail] = tmp]
  /\ UNCHANGED <<env, sdb_state>>

(* cmd_w when the pool is empty or the expression is illegal: an assert    *)
(* fails and NEMU dies.                                                    *)
new_wp_asserts(x) ==
  /\ AtPrompt
  /\ free_ = NULL \/ x \in BadExprs
  /\ sdb_state' = "DEAD"
  /\ UNCHANGED <<pool, env>>

(* Mutation: the predecessor of the freed node still points at it.         *)
free_wp_keeps_prev_link(wp) ==
  /\ IF wp = head
     THEN head' = next[head]
     ELSE head' = head
  /\ next' = [next EXCEPT ![wp] = free_]
  /\ free_' = wp
  /\ value' = [value EXCEPT ![wp] = 0]
  /\ e' = [e EXCEPT ![wp] = NoExpr]

(* free_wp: unlink wp from `head' and push it on `free_'.                  *)
free_wp(wp) ==
  /\ IF wp = head
     THEN /\ head' = next[head]
          /\ next' = [next EXCEPT ![wp] = free_]
     ELSE LET prev == CHOOSE p \in Nodes(next, head) : next[p] = wp
          IN /\ head' = head
             /\ next' = [next EXCEPT ![prev] = next[wp], ![wp] = free_]
  /\ free_' = wp
  /\ value' = [value EXCEPT ![wp] = 0]
  /\ e' = [e EXCEPT ![wp] = NoExpr]

(* cmd_d N: nothing happens unless delete_wp finds N on the active list.   *)
cmd_d(N) ==
  /\ AtPrompt
  /\ IF N \in Nodes(next, head) THEN free_wp(N) ELSE UNCHANGED pool
  /\ UNCHANGED <<env, sdb_state>>

(* cmd_c / cmd_si: cpu_exec leaves STOP, but not END.                      *)
sdb_cpu_exec ==
  /\ sdb_state = "STOP"
  /\ sdb_state' = "RUNNING"
  /\ UNCHANGED <<pool, env>>

(* Mutation: only the oldest watchpoint is compared.                       *)
Changed_head_only(now) == head # NULL /\ now[e[head]] # value[head]

(* check_wp over the new values now: every active node stores the new      *)
(* value; the result says whether one of them differs from the old one.    *)
Changed(now) == \E w \in Nodes(next, head) : now[e[w]] # value[w]
check_wp(now) ==
  value' = [w \in WP |-> IF w \in Nodes(next, head) THEN now[e[w]] ELSE value[w]]

(* One iteration of execute(): the instruction changes the guest's state,  *)
(* may end the program, and _check_wp stops a CPU that is still running.   *)
sdb_exec_once(now, ends) ==
  /\ sdb_state = "RUNNING"
  /\ env' = now
  /\ check_wp(now)
  /\ sdb_state' = IF ends THEN "END" ELSE IF Changed(now) THEN "STOP" ELSE "RUNNING"
  /\ UNCHANGED <<next, e, head, free_>>

(* The instruction budget n of cpu_exec runs out.                          *)
budget_spent ==
  /\ sdb_state = "RUNNING"
  /\ sdb_state' = "STOP"
  /\ UNCHANGED <<pool, env>>

WpNext ==
  \/ \E x \in Exprs : new_wp(x)
  \/ \E x \in Exprs \cup BadExprs : new_wp_asserts(x)
  \/ \E N \in WP : cmd_d(N)
  \/ sdb_cpu_exec
  \/ \E now \in [Exprs -> Values], ends \in BOOLEAN : sdb_exec_once(now, ends)
  \/ budget_spent

WpSpec == WpInit /\ [][WpNext]_wpVars

-----------------------------------------------------------------------------
(* Every link, list head and stored value stays within the pool's types.   *)
WpTypeOK ==
  /\ next \in [WP -> Ptr]
  /\ e \in [WP -> Exprs \cup {NoExpr}]
  /\ value \in [WP -> Values]
  /\ head \in Ptr /\ free_ \in Ptr
  /\ env \in [Exprs -> Values]
  /\ sdb_state \in {"STOP", "RUNNING", "END", "DEAD"}

(* new_wp and free_wp never lose a node, put it on both lists or close a   *)
(* cycle: the two lists are disjoint, cover the pool and both end in NULL. *)
ListsPartitionPool ==
  /\ Nodes(next, head) \cap Nodes(next, free_) = {}
  /\ Nodes(next, head) \cup Nodes(next, free_) = WP
  /\ Walk(next, head, NR_WP) = NULL
  /\ Walk(next, free_, NR_WP) = NULL

(* A run that keeps going has not changed any watched expression: a step   *)
(* after which NEMU is still running left every active expression as it    *)
(* was when its watchpoint was set or last reported.                       *)
NoMissedHit ==
  [][sdb_state = "RUNNING" /\ sdb_state' = "RUNNING" =>
       \A w \in Nodes(next, head) : env'[e[w]] = env[e[w]]]_wpVars

=============================================================================
