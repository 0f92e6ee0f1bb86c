------------------------- MODULE NemuMonitor_proofs -------------------------
(***************************************************************************)
(* Proofs about the monitor of NEMU: the difftest client (NemuDut), the    *)
(* watchpoint pool (WatchpointPool) and the ring of the last instructions  *)
(* (CpuExec), for every program, every size of the pool and of the ring.   *)
(***************************************************************************)
EXTENDS NemuDut, WatchpointPool, CpuExec, WellFoundedInduction, TLAPS

-----------------------------------------------------------------------------
(* Induction over the natural numbers, in the form that does not need an   *)
(* operator as a parameter.                                                *)

(* A set of natural numbers that is not empty has a least element.         *)
LEMMA LeastNat ==
  ASSUME NEW T \in SUBSET Nat, T # {}
  PROVE  \E x \in T : \A y \in T : x <= y
<1> DEFINE R == OpToRel(<, Nat)
<1>1. IsWellFoundedOn(R, Nat)
  BY NatLessThanWellFounded
<1>2. \A x, y \in Nat : x < y => <<x, y>> \in R
  BY DEF OpToRel
<1> HIDE DEF R
<1>3. PICK x \in T : \A y \in T : <<y, x>> \notin R
  BY <1>1, WFMin
<1>4. ASSUME NEW y \in T PROVE x <= y
  <2>1. x \in Nat /\ y \in Nat /\ ~(y < x)
    BY <1>2, <1>3
  <2> QED
    BY <2>1
<1> QED
  BY <1>3, <1>4

(* A set that has 0 and, with every number, the next one has all of them.  *)
LEMMA Induct ==
  ASSUME NEW S, 0 \in S, \A k \in Nat : k \in S => k + 1 \in S
  PROVE  Nat \subseteq S
<1> SUFFICES ASSUME Nat \ S # {} PROVE FALSE
  OBVIOUS
<1>1. PICK k \in Nat \ S : \A j \in Nat \ S : k <= j
  BY LeastNat
<1>2. k - 1 \in Nat /\ k - 1 \in S
  BY <1>1
<1> QED
  BY <1>1, <1>2

-----------------------------------------------------------------------------
(* Differential testing against a reference that executes packed           *)
(* instructions at once and does not have the devices.                     *)

(* What the reference makes of one instruction of the program p.           *)
OneOf(p, r) ==
  [pc |-> r.pc + 1,
   x  |-> IF p[r.pc] = "load" THEN r.m ELSE IF p[r.pc] = "in" THEN 0 ELSE r.x,
   m  |-> IF p[r.pc] = "store" THEN 1 - r.x ELSE r.m]

(* tr leads from s to r, one instruction of p at a time; tr is indexed by  *)
(* the pc.                                                                 *)
TraceOf(p, tr, s, r) ==
  /\ s \in Machines /\ r \in Machines /\ s.pc <= r.pc
  /\ tr \in [s.pc .. r.pc -> Machines] /\ tr[s.pc] = s /\ tr[r.pc] = r
  /\ \A i \in s.pc .. r.pc : tr[i].pc = i
  /\ \A i \in s.pc .. r.pc - 1 : tr[i + 1] = OneOf(p, tr[i])

(* The parts of a machine.                                                 *)
LEMMA MachineParts ==
  ASSUME NEW s \in Machines
  PROVE  /\ s.pc \in 1 .. N + 1 /\ s.x \in {0, 1} /\ s.m \in {0, 1}
         /\ s = [pc |-> s.pc, x |-> s.x, m |-> s.m]
BY DEF Machines, Words

(* Machines that agree in every part are the same.                         *)
LEMMA SameMachine ==
  ASSUME NEW s \in Machines, NEW r \in Machines, s.pc = r.pc, s.x = r.x, s.m = r.m
  PROVE  s = r
BY DEF Machines

(* One instruction of a machine within the program.                        *)
LEMMA OneMachine ==
  ASSUME NEW p, NEW s \in Machines, s.pc <= N
  PROVE  OneOf(p, s) \in Machines /\ OneOf(p, s).pc = s.pc + 1
BY MachineParts, DutAssumption DEF OneOf, Machines, Words

(* One instruction of NEMU without errors.                                 *)
LEMMA GoldMachine ==
  ASSUME NEW s \in Machines, s.pc <= N, NEW d \in Words
  PROVE  /\ ExecOne(s, d) \in Machines /\ ExecOne(s, d).pc = s.pc + 1
         /\ prog[s.pc] # "store" => ExecOne(s, d).m = s.m
         /\ prog[s.pc] # "in" => ExecOne(s, d) = OneOf(prog, s)
<1>1. s.pc \in 1 .. N + 1 /\ s.x \in {0, 1} /\ s.m \in {0, 1}
  BY MachineParts
<1>2. /\ ExecOne(s, d).x \in {0, 1} /\ ExecOne(s, d).m \in {0, 1}
      /\ ExecOne(s, d).pc = s.pc + 1
  BY <1>1 DEF ExecOne, Words
<1>3. ExecOne(s, d) \in Machines
  BY <1>1, <1>2, DutAssumption DEF ExecOne, Machines, Words
<1> QED
  BY <1>1, <1>2, <1>3 DEF ExecOne, OneOf

(* The reference executes one instruction.                                 *)
LEMMA RefOneIs ==
  ASSUME NEW s PROVE RefOne(s) = OneOf(prog, s)
BY DEF RefOne, ExecOne, OneOf

(* Without its first instruction a trace is still one.                     *)
LEMMA TracePeel ==
  ASSUME NEW p, NEW tr, NEW s, NEW r, TraceOf(p, tr, s, r), s.pc < r.pc
  PROVE  \E t2 : TraceOf(p, t2, OneOf(p, s), r)
<1> DEFINE q == OneOf(p, s)
           t2 == [i \in q.pc .. r.pc |-> tr[i]]
<1>1. s.pc \in 1 .. N + 1 /\ r.pc \in 1 .. N + 1 /\ N \in Nat /\ s \in Machines /\ r \in Machines
  BY MachineParts, DutAssumption DEF TraceOf
<1>2. q.pc = s.pc + 1 /\ q \in Machines
  BY <1>1, OneMachine
<1>3. tr[s.pc + 1] = q
  BY <1>1 DEF TraceOf
<1> HIDE DEF q
<1>4. t2 \in [q.pc .. r.pc -> Machines]
  BY <1>1, <1>2 DEF TraceOf
<1>5. t2[q.pc] = q /\ t2[r.pc] = r
  BY <1>1, <1>2, <1>3 DEF TraceOf
<1>6. ASSUME NEW i \in q.pc .. r.pc PROVE t2[i].pc = i /\ (i <= r.pc - 1 => t2[i + 1] = OneOf(p, t2[i]))
  <2>1. i \in s.pc .. r.pc /\ t2[i] = tr[i]
    BY <1>1, <1>2
  <2>2. tr[i].pc = i
    BY <2>1 DEF TraceOf
  <2>3. ASSUME i <= r.pc - 1 PROVE t2[i + 1] = OneOf(p, t2[i])
    <3>1. i \in s.pc .. r.pc - 1 /\ i + 1 \in q.pc .. r.pc
      BY <1>1, <1>2, <2>3
    <3>2. tr[i + 1] = OneOf(p, tr[i])
      BY <3>1 DEF TraceOf
    <3> QED
      BY <2>1, <3>1, <3>2
  <2> QED
    BY <2>1, <2>2, <2>3
<1> HIDE DEF t2
<1>7. TraceOf(p, t2, q, r)
  BY <1>1, <1>2, <1>4, <1>5, <1>6 DEF TraceOf
<1> QED
  BY <1>7 DEF q

(* A trace without a store leaves memory as it is.                         *)
LEMMA TraceMemory ==
  ASSUME NEW p, NEW tr, NEW s, NEW r, TraceOf(p, tr, s, r),
         \A i \in s.pc .. r.pc - 1 : p[i] # "store"
  PROVE  r.m = s.m
<1> DEFINE T == {k \in Nat : s.pc + k <= r.pc => tr[s.pc + k].m = s.m}
<1>0. s.pc \in 1 .. N + 1 /\ r.pc \in 1 .. N + 1 /\ N \in Nat /\ s.pc <= r.pc
  BY MachineParts, DutAssumption DEF TraceOf
<1>1. 0 \in T
  BY <1>0 DEF TraceOf
<1>2. ASSUME NEW k \in Nat, k \in T PROVE k + 1 \in T
  <2> SUFFICES ASSUME s.pc + (k + 1) <= r.pc PROVE tr[s.pc + (k + 1)].m = s.m
    OBVIOUS
  <2>1. s.pc + k \in s.pc .. r.pc - 1 /\ s.pc + k \in s.pc .. r.pc /\ s.pc + (k + 1) = (s.pc + k) + 1
    BY <1>0
  <2>2. tr[s.pc + k].m = s.m
    BY <1>0, <1>2, <2>1
  <2>3. tr[(s.pc + k) + 1] = OneOf(p, tr[s.pc + k]) /\ tr[s.pc + k].pc = s.pc + k
    BY <2>1 DEF TraceOf
  <2>4. p[s.pc + k] # "store"
    BY <2>1
  <2> QED
    BY <2>1, <2>2, <2>3, <2>4 DEF OneOf
<1>3. r.pc - s.pc \in T
  <2>1. r.pc - s.pc \in Nat
    BY <1>0
  <2> HIDE DEF T
  <2> QED
    BY <1>1, <1>2, <2>1, Induct
<1>4. s.pc + (r.pc - s.pc) = r.pc
  BY <1>0
<1> QED
  BY <1>0, <1>3, <1>4 DEF TraceOf

(* The steps of the reference within a packed group.                       *)
RunOf(f, s, k) ==
  /\ f \in [0 .. k -> Machines] /\ f[0] = s
  /\ \A i \in 0 .. k : f[i].pc = s.pc + i
  /\ \A i \in 1 .. k : f[i] = OneOf(prog, f[i - 1])

(* As many steps as the program has instructions left can be made.         *)
LEMMA RunsExist ==
  ASSUME NEW s \in Machines, NEW len \in Nat, s.pc + len <= N + 1
  PROVE  \E f : RunOf(f, s, len)
<1> DEFINE T == {k \in Nat : k <= len => \E f : RunOf(f, s, k)}
<1>0. s.pc \in 1 .. N + 1 /\ N \in Nat
  BY MachineParts, DutAssumption
<1>1. 0 \in T
  <2> DEFINE f == [i \in 0 .. 0 |-> s]
  <2>1. RunOf(f, s, 0)
    BY <1>0 DEF RunOf
  <2> QED
    BY <2>1
<1>2. ASSUME NEW k \in Nat, k \in T PROVE k + 1 \in T
  <2> SUFFICES ASSUME k + 1 <= len PROVE \E f : RunOf(f, s, k + 1)
    OBVIOUS
  <2>1. PICK g : RunOf(g, s, k)
    BY <1>2
  <2>2. g[k] \in Machines /\ g[k].pc = s.pc + k /\ g[k].pc <= N
    BY <1>0, <2>1 DEF RunOf
  <2> DEFINE q == OneOf(prog, g[k])
             f == [i \in 0 .. k + 1 |-> IF i = k + 1 THEN q ELSE g[i]]
  <2>3. q \in Machines /\ q.pc = s.pc + (k + 1)
    BY <1>0, <2>2, OneMachine
  <2> HIDE DEF q
  <2>4. f \in [0 .. k + 1 -> Machines] /\ f[0] = s
    BY <2>1, <2>3 DEF RunOf
  <2>5. ASSUME NEW i \in 0 .. k + 1 PROVE f[i].pc = s.pc + i
    BY <2>1, <2>3 DEF RunOf
  <2>6. ASSUME NEW i \in 1 .. k + 1 PROVE f[i] = OneOf(prog, f[i - 1])
    <3>1. CASE i = k + 1
      BY <3>1 DEF q
    <3>2. CASE i # k + 1
      <4>1. i \in 1 .. k /\ f[i] = g[i] /\ f[i - 1] = g[i - 1]
        BY <3>2
      <4>2. g[i] = OneOf(prog, g[i - 1])
        BY <2>1, <4>1 DEF RunOf
      <4> QED
        BY <4>1, <4>2
    <3> QED
      BY <3>1, <3>2
  <2> HIDE DEF f
  <2>7. RunOf(f, s, k + 1)
    BY <2>4, <2>5, <2>6 DEF RunOf
  <2> QED
    BY <2>7
<1>3. len \in T
  <2> HIDE DEF T
  <2> QED
    BY <1>1, <1>2, Induct
<1> QED
  BY <1>3

(* The recursive definition of a packed group is solved by those steps.    *)
LEMMA PackedLeads ==
  ASSUME NEW s \in Machines, s.pc + PackLen <= N + 1
  PROVE  /\ Packed(s) \in Machines /\ Packed(s).pc = s.pc + PackLen
         /\ \E tr : TraceOf(prog, tr, s, Packed(s))
<1> DEFINE Step(h) == [k \in 0 .. PackLen |-> IF k = 0 THEN s ELSE RefOne(h[k - 1])]
           run == CHOOSE h : h = Step(h)
<1>0. s.pc \in 1 .. N + 1 /\ N \in Nat /\ PackLen \in Nat
  BY MachineParts, DutAssumption
<1>1. PICK f : RunOf(f, s, PackLen)
  BY <1>0, RunsExist
<1>2. f = Step(f)
  <2>1. f \in [0 .. PackLen -> Machines]
    BY <1>1 DEF RunOf
  <2>2. ASSUME NEW k \in 0 .. PackLen PROVE f[k] = IF k = 0 THEN s ELSE RefOne(f[k - 1])
    BY <1>0, <1>1, RefOneIs DEF RunOf
  <2> QED
    BY <2>1, <2>2
<1>3. run = Step(run)
  BY <1>2
<1>4. Packed(s) = run[PackLen]
  BY DEF Packed
<1> HIDE DEF run
<1> DEFINE T == {k \in Nat : k <= PackLen => run[k] = f[k]}
<1>5. 0 \in T
  BY <1>0, <1>1, <1>3 DEF RunOf
<1>6. ASSUME NEW k \in Nat, k \in T PROVE k + 1 \in T
  <2> SUFFICES ASSUME k + 1 <= PackLen PROVE run[k + 1] = f[k + 1]
    OBVIOUS
  <2>1. k + 1 \in 1 .. PackLen /\ k + 1 \in 0 .. PackLen /\ (k + 1) - 1 = k /\ k <= PackLen
    BY <1>0
  <2>2. run[k] = f[k]
    BY <1>6, <2>1
  <2>3. run[k + 1] = RefOne(run[k])
    BY <1>3, <2>1
  <2>4. f[k + 1] = OneOf(prog, f[k])
    BY <1>1, <2>1 DEF RunOf
  <2> QED
    BY <2>2, <2>3, <2>4, RefOneIs
<1>7. run[PackLen] = f[PackLen]
  <2>1. PackLen \in T
    <3> HIDE DEF T
    <3> QED
      BY <1>0, <1>5, <1>6, Induct
  <2> QED
    BY <1>0, <2>1
<1>8. f[PackLen] \in Machines /\ f[PackLen].pc = s.pc + PackLen
  BY <1>0, <1>1 DEF RunOf
<1> DEFINE r == f[PackLen]
           tr == [i \in s.pc .. r.pc |-> f[i - s.pc]]
<1> HIDE DEF r
<1>9. r \in Machines /\ r.pc = s.pc + PackLen /\ r = f[PackLen]
  BY <1>8 DEF r
<1>10. TraceOf(prog, tr, s, r)
  <2>1. ASSUME NEW i \in s.pc .. r.pc
        PROVE  tr[i] = f[i - s.pc] /\ i - s.pc \in 0 .. PackLen /\ tr[i] \in Machines /\ tr[i].pc = i
    <3>1. i - s.pc \in 0 .. PackLen /\ s.pc + (i - s.pc) = i
      BY <1>0, <1>9
    <3> QED
      BY <1>1, <3>1 DEF RunOf
  <2>2. ASSUME NEW i \in s.pc .. r.pc - 1 PROVE tr[i + 1] = OneOf(prog, tr[i])
    <3>1. /\ (i + 1) - s.pc \in 1 .. PackLen /\ ((i + 1) - s.pc) - 1 = i - s.pc
          /\ i \in s.pc .. r.pc /\ i + 1 \in s.pc .. r.pc
      BY <1>0, <1>9
    <3>2. f[(i + 1) - s.pc] = OneOf(prog, f[((i + 1) - s.pc) - 1])
      BY <1>1, <3>1 DEF RunOf
    <3> QED
      BY <2>1, <3>1, <3>2
  <2>3. tr[s.pc] = s /\ tr[r.pc] = r
    <3>1. s.pc \in s.pc .. r.pc /\ r.pc \in s.pc .. r.pc /\ s.pc - s.pc = 0 /\ r.pc - s.pc = PackLen
      BY <1>0, <1>9
    <3> QED
      BY <1>1, <1>9, <2>1, <3>1 DEF RunOf
  <2>4. tr \in [s.pc .. r.pc -> Machines]
    BY <2>1
  <2>5. s.pc <= r.pc
    BY <1>0, <1>9
  <2> HIDE DEF tr
  <2> QED
    BY <1>9, <2>1, <2>2, <2>3, <2>4, <2>5 DEF TraceOf
<1> QED
  BY <1>4, <1>7, <1>9, <1>10

(* Types; NEMU's pc is right; a packed group lies within the program and   *)
(* has one head.                                                           *)
DutTypes ==
  /\ cpu \in Machines /\ ref \in Machines /\ gold \in Machines /\ gold.pc = cpu.pc
  /\ is_skip_ref \in BOOLEAN /\ skip_dut_nr_inst \in 0 .. PackLen
  /\ faulty \in BOOLEAN /\ peeked \in BOOLEAN /\ exempt \in BOOLEAN /\ spoiled \in BOOLEAN
  /\ phase \in {"prompt", "exec", "difftest", "wp"}
  /\ prog \in [1 .. N -> Kinds]
  /\ \A i \in 1 .. N : prog[i] = "pack" =>
       i + PackLen - 1 <= N /\ \A j \in i + 1 .. i + PackLen - 1 : prog[j] # "pack"

(* The reference is at or before the end of a packed group that NEMU is in *)
(* the middle of.                                                          *)
Ahead == cpu.pc <= ref.pc /\ \A i \in cpu.pc .. ref.pc - 1 : prog[i] # "pack"

(* Where the two sides are, by the instructions left to catch up.          *)
DutPlaces ==
  /\ phase # "difftest" =>
       \/ skip_dut_nr_inst = 0 /\ ref.pc = cpu.pc
       \/ Ahead /\ cpu.pc < ref.pc /\ skip_dut_nr_inst = ref.pc - cpu.pc
       \/ Ahead /\ cpu.pc < ref.pc /\ skip_dut_nr_inst = 0 /\ is_skip_ref
  /\ phase = "difftest" =>
       \/ Ahead /\ skip_dut_nr_inst = ref.pc - cpu.pc + 1
       \/ skip_dut_nr_inst = 0 /\ is_skip_ref
       \/ /\ skip_dut_nr_inst = 0 /\ ~is_skip_ref /\ ref.pc = cpu.pc - 1
          /\ prog[ref.pc] \notin Devices \cup {"pack"}

(* Neither kind of exception has spoiled the reference: NEMU was right and *)
(* the memories in step, or the flag was set by device accesses outside    *)
(* packed groups only.                                                     *)
InStep == (~faulty /\ ~spoiled) \/ (~peeked /\ ~exempt)

(* Where the reference is relative to NEMU without errors: at the same     *)
(* state, at the end of the packed group, at the same memory when the      *)
(* registers are about to be copied, or one instruction behind.            *)
DutReference ==
  InStep =>
    /\ phase # "difftest" /\ ref.pc = cpu.pc => ref = gold
    /\ skip_dut_nr_inst > 0 => \E tr : TraceOf(prog, tr, gold, ref)
    /\ phase # "difftest" /\ skip_dut_nr_inst = 0 /\ cpu.pc < ref.pc =>
         ref.m = gold.m /\ \A i \in cpu.pc .. ref.pc - 1 : prog[i] # "store"
    /\ phase = "difftest" /\ skip_dut_nr_inst = 0 /\ is_skip_ref =>
         ref.m = gold.m /\ cpu.x = gold.x
    /\ phase = "difftest" /\ skip_dut_nr_inst = 0 /\ ~is_skip_ref => gold = OneOf(prog, ref)

(* A NEMU without errors is right, and stopped only if memory was spoiled. *)
DutRight == ~faulty => cpu = gold /\ (dut_state # "RUNNING" => spoiled)

(* Without exceptions the flag is set for the instruction just executed    *)
(* only, and a register that was compared is right.                        *)
DutCaught ==
  ~peeked /\ ~exempt =>
    /\ is_skip_ref => phase = "difftest" /\ skip_dut_nr_inst = 0
    /\ dut_state = "RUNNING" /\ phase # "difftest" /\ skip_dut_nr_inst = 0 => cpu.x = gold.x

(* The inductive invariant of the difftest client.                         *)
DutInv == DutTypes /\ DutPlaces /\ DutReference /\ DutRight /\ DutCaught

(* Numbers, for the steps below.                                           *)
LEMMA DutNumbers ==
  ASSUME DutTypes
  PROVE  /\ N \in Nat /\ PackLen \in Nat /\ PackLen > 1
         /\ cpu.pc \in 1 .. N + 1 /\ ref.pc \in 1 .. N + 1 /\ gold.pc = cpu.pc
         /\ cpu.x \in {0, 1} /\ ref.x \in {0, 1} /\ gold.x \in {0, 1}
         /\ cpu.m \in {0, 1} /\ ref.m \in {0, 1} /\ gold.m \in {0, 1}
         /\ skip_dut_nr_inst \in Nat
BY DutAssumption, MachineParts DEF DutTypes

(* All three machines start in the same state.                             *)
LEMMA DutStarts == DutInit => DutInv
<1> SUFFICES ASSUME DutInit PROVE DutInv
  OBVIOUS
<1>1. cpu \in Machines /\ ref = cpu /\ gold = cpu
  BY DutAssumption DEF DutInit, Machines, Words
<1>2. skip_dut_nr_inst = 0 /\ skip_dut_nr_inst \in 0 .. PackLen /\ phase = "prompt"
      /\ dut_state = "RUNNING" /\ is_skip_ref = FALSE
  BY DutAssumption DEF DutInit
<1>3. DutTypes
  BY <1>1, <1>2, Zenon DEF DutInit, DutTypes
<1>4. DutPlaces /\ DutReference
  BY <1>1, <1>2, <1>3, DutNumbers DEF DutPlaces, DutReference
<1>5. DutRight /\ DutCaught
  BY <1>1, <1>2, Zenon DEF DutRight, DutCaught
<1> QED
  BY <1>3, <1>4, <1>5 DEF DutInv

(* What executing an instruction does to NEMU and to its double.           *)
LEMMA DutMoves ==
  ASSUME DutInv, NEW d \in Words, NEW bug \in SUBSET {"x", "m"}, dut_exec_once(d, bug)
  PROVE  /\ cpu' \in Machines /\ gold' \in Machines /\ cpu.pc \in 1 .. N
         /\ cpu'.pc = cpu.pc + 1 /\ gold'.pc = cpu.pc + 1
         /\ prog[cpu.pc] # "store" => gold'.m = gold.m
         /\ prog[cpu.pc] # "in" => gold' = OneOf(prog, gold)
         /\ ~faulty' => ~faulty /\ cpu' = gold'
         /\ "x" \notin bug /\ cpu.x = gold.x /\ prog[cpu.pc] \in Devices => cpu'.x = gold'.x
<1> USE DutNumbers DEF DutInv
<1>1. /\ cpu.pc \in 1 .. N /\ cpu \in Machines /\ gold \in Machines /\ gold.pc = cpu.pc
      /\ cpu' = Botch(ExecOne(cpu, d), bug) /\ gold' = ExecOne(gold, d)
      /\ faulty' = (faulty \/ bug # {})
  BY DEF dut_exec_once, DutTypes
<1>2. /\ ExecOne(cpu, d) \in Machines /\ ExecOne(cpu, d).pc = cpu.pc + 1
  BY <1>1, GoldMachine
<1>3. /\ gold' \in Machines /\ gold'.pc = cpu.pc + 1
      /\ prog[cpu.pc] # "store" => gold'.m = gold.m
      /\ prog[cpu.pc] # "in" => gold' = OneOf(prog, gold)
  BY <1>1, GoldMachine
<1>4. cpu' \in Machines /\ cpu'.pc = cpu.pc + 1
  <2>1. \A s \in Machines : Botch(s, bug) \in Machines /\ Botch(s, bug).pc = s.pc
    BY MachineParts DEF Botch, Machines, Words
  <2> QED
    BY <1>1, <1>2, <2>1
<1>5. ASSUME ~faulty' PROVE ~faulty /\ cpu' = gold'
  <2>1. ~faulty /\ bug = {}
    BY <1>1, <1>5
  <2>2. cpu = gold
    BY <2>1 DEF DutRight
  <2>3. Botch(ExecOne(cpu, d), bug) = ExecOne(cpu, d)
    BY <1>2, <2>1, MachineParts DEF Botch
  <2> QED
    BY <1>1, <2>1, <2>2, <2>3
<1>6. ASSUME "x" \notin bug, cpu.x = gold.x, prog[cpu.pc] \in Devices PROVE cpu'.x = gold'.x
  BY <1>1, <1>6 DEF Botch, ExecOne, Devices
<1> QED
  BY <1>1, <1>3, <1>4, <1>5, <1>6

(* A device access: the registers will be copied.  The memories agree also *)
(* if it cuts short a packed group, for the rest of that group stores      *)
(* nothing.                                                                *)
LEMMA DutDevice ==
  ASSUME DutInv, NEW d \in Words, NEW bug \in SUBSET {"x", "m"}, dut_exec_once(d, bug),
         prog[cpu.pc] \in Devices
  PROVE  DutInv'
<1> USE DutNumbers DEF DutInv
<1>1. /\ cpu' \in Machines /\ gold' \in Machines /\ cpu.pc \in 1 .. N
      /\ cpu'.pc = cpu.pc + 1 /\ gold'.pc = cpu.pc + 1
      /\ prog[cpu.pc] # "store" => gold'.m = gold.m
      /\ ~faulty' => ~faulty /\ cpu' = gold'
      /\ "x" \notin bug /\ cpu.x = gold.x /\ prog[cpu.pc] \in Devices => cpu'.x = gold'.x
  BY DutMoves
<1>2. /\ phase = "exec" /\ dut_state = "RUNNING" /\ phase' = "difftest"
      /\ prog' = prog /\ dut_state' = dut_state /\ peeked' = peeked /\ ref' = ref
      /\ is_skip_ref' = TRUE /\ skip_dut_nr_inst' = 0
      /\ faulty' = (faulty \/ bug # {})
      /\ exempt' = (exempt \/ ("x" \in bug \/ skip_dut_nr_inst > 0))
      /\ spoiled' = (spoiled \/ \E i \in cpu.pc + 1 .. ref.pc - 1 : prog[i] = "store")
  BY <1>1 DEF dut_exec_once, difftest_skip_ref, Devices
<1>3. DutTypes'
  <2>1. faulty' \in BOOLEAN /\ exempt' \in BOOLEAN /\ spoiled' \in BOOLEAN
    BY <1>2, Zenon DEF DutTypes
  <2>2. skip_dut_nr_inst' \in 0 .. PackLen
    BY <1>2
  <2> QED
    BY <1>1, <1>2, <2>1, <2>2, Zenon DEF DutTypes
<1>4. DutPlaces' /\ DutCaught'
  BY <1>2, Zenon DEF DutPlaces, DutCaught
<1>5. DutRight'
  BY <1>1, <1>2 DEF DutRight
<1>6. ASSUME InStep' PROVE ref.m = gold.m /\ cpu'.x = gold'.x
  <2>0. InStep /\ prog[cpu.pc] # "store"
    BY <1>2, <1>6 DEF InStep, Devices
  <2>1. CASE ~faulty' /\ ~spoiled'
    <3>1. cpu' = gold' /\ ~ \E i \in cpu.pc + 1 .. ref.pc - 1 : prog[i] = "store"
      BY <1>1, <1>2, <2>1, Zenon
    <3>2. CASE skip_dut_nr_inst > 0
      <4>1. PICK tr : TraceOf(prog, tr, gold, ref)
        BY <2>0, <3>2 DEF DutReference
      <4>2. \A i \in gold.pc .. ref.pc - 1 : prog[i] # "store"
        BY <2>0, <3>1
      <4> QED
        BY <3>1, <4>1, <4>2, TraceMemory
    <3>3. CASE skip_dut_nr_inst = 0
      <4>1. CASE ref.pc = cpu.pc
        BY <1>2, <2>0, <3>1, <4>1 DEF DutReference
      <4>2. CASE cpu.pc < ref.pc
        BY <1>2, <2>0, <3>1, <3>3, <4>2 DEF DutReference
      <4> QED
        BY <1>2, <3>3, <4>1, <4>2 DEF DutPlaces
    <3> QED
      BY <3>2, <3>3
  <2>2. CASE ~peeked' /\ ~exempt'
    <3>1. ~peeked /\ ~exempt /\ "x" \notin bug /\ skip_dut_nr_inst = 0
      <4>1. ~peeked /\ ~exempt /\ "x" \notin bug /\ ~(skip_dut_nr_inst > 0)
        BY <1>2, <2>2, Zenon
      <4> QED
        BY <4>1
    <3>2. ~is_skip_ref /\ cpu.x = gold.x
      BY <1>2, <3>1 DEF DutCaught
    <3>3. ref = gold
      BY <1>2, <2>0, <3>1, <3>2 DEF DutPlaces, DutReference
    <3> QED
      BY <1>1, <3>1, <3>2, <3>3
  <2> QED
    BY <1>6, <2>1, <2>2 DEF InStep
<1>7. DutReference'
  <2>1. InStep' => ref'.m = gold'.m /\ cpu'.x = gold'.x
    BY <1>1, <1>2, <1>6 DEF Devices
  <2> QED
    BY <1>2, <2>1 DEF DutReference
<1> QED
  BY <1>3, <1>4, <1>5, <1>7

(* The head of a packed group: the reference executes the whole group.     *)
LEMMA DutPack ==
  ASSUME DutInv, NEW d \in Words, NEW bug \in SUBSET {"x", "m"}, dut_exec_once(d, bug),
         prog[cpu.pc] = "pack"
  PROVE  DutInv'
<1> USE DutNumbers DEF DutInv
<1>1. /\ cpu' \in Machines /\ gold' \in Machines /\ cpu.pc \in 1 .. N
      /\ cpu'.pc = cpu.pc + 1 /\ gold'.pc = cpu.pc + 1
      /\ gold' = OneOf(prog, gold)
      /\ ~faulty' => ~faulty /\ cpu' = gold'
  BY DutMoves
<1>2. /\ phase = "exec" /\ dut_state = "RUNNING" /\ phase' = "difftest"
      /\ prog' = prog /\ dut_state' = dut_state /\ peeked' = peeked /\ spoiled' = spoiled
      /\ is_skip_ref' = is_skip_ref /\ skip_dut_nr_inst' = skip_dut_nr_inst + PackLen
      /\ ref' = ref_difftest_exec(ref)
      /\ faulty' = (faulty \/ bug # {}) /\ exempt' = exempt
  BY DEF dut_exec_once, difftest_skip_dut, Devices, DutTypes
<1>3. ref.pc = cpu.pc /\ skip_dut_nr_inst = 0
  BY <1>1, <1>2 DEF DutPlaces, Ahead
<1>4. cpu.pc + PackLen - 1 <= N /\ \A j \in cpu.pc + 1 .. cpu.pc + PackLen - 1 : prog[j] # "pack"
  BY <1>1 DEF DutTypes
<1>5. /\ ref' \in Machines /\ ref'.pc = cpu.pc + PackLen
      /\ \E tr : TraceOf(prog, tr, ref, ref')
  <2>1. ref' = Packed(ref) /\ ref \in Machines /\ ref.pc + PackLen <= N + 1
    BY <1>1, <1>2, <1>3, <1>4 DEF ref_difftest_exec, DutTypes
  <2> QED
    BY <1>3, <2>1, PackedLeads
<1>6. DutTypes'
  <2>1. faulty' \in BOOLEAN
    BY <1>2, Zenon DEF DutTypes
  <2>2. skip_dut_nr_inst' \in 0 .. PackLen
    BY <1>2, <1>3
  <2> QED
    BY <1>1, <1>2, <1>5, <2>1, <2>2, Zenon DEF DutTypes
<1>7. DutPlaces'
  <2>1. Ahead'
    BY <1>1, <1>2, <1>4, <1>5 DEF Ahead
  <2>2. skip_dut_nr_inst' = ref'.pc - cpu'.pc + 1
    BY <1>1, <1>2, <1>3, <1>5
  <2> QED
    BY <1>2, <2>1, <2>2 DEF DutPlaces
<1>8. DutReference'
  <2> SUFFICES ASSUME InStep' PROVE \E tr : TraceOf(prog', tr, gold', ref')
    <3>1. phase' = "difftest" /\ skip_dut_nr_inst' > 0
      BY <1>2, <1>3
    <3> QED
      BY <3>1 DEF DutReference
  <2>1. InStep
    BY <1>2 DEF InStep
  <2>2. ref = gold
    BY <1>2, <1>3, <2>1 DEF DutReference
  <2>3. PICK tr : TraceOf(prog, tr, gold, ref')
    BY <1>5, <2>2
  <2>4. gold.pc < ref'.pc
    BY <1>3, <1>5
  <2>5. \E t2 : TraceOf(prog, t2, OneOf(prog, gold), ref')
    BY <2>3, <2>4, TracePeel
  <2> QED
    BY <1>1, <1>2, <2>5
<1>9. DutRight' /\ DutCaught'
  <2>1. skip_dut_nr_inst' # 0
    BY <1>2, <1>3
  <2> QED
    BY <1>1, <1>2, <2>1 DEF DutRight, DutCaught
<1> QED
  BY <1>6, <1>7, <1>8, <1>9

(* Any other instruction: within a group the reference is one instruction  *)
(* less ahead, else it is one behind, or the registers will be copied.     *)
LEMMA DutPlain ==
  ASSUME DutInv, NEW d \in Words, NEW bug \in SUBSET {"x", "m"}, dut_exec_once(d, bug),
         prog[cpu.pc] \notin Devices \cup {"pack"}
  PROVE  DutInv'
<1> USE DutNumbers DEF DutInv
<1>1. /\ cpu' \in Machines /\ gold' \in Machines /\ cpu.pc \in 1 .. N
      /\ cpu'.pc = cpu.pc + 1 /\ gold'.pc = cpu.pc + 1
      /\ prog[cpu.pc] # "store" => gold'.m = gold.m
      /\ gold' = OneOf(prog, gold)
      /\ ~faulty' => ~faulty /\ cpu' = gold'
  BY DutMoves DEF Devices
<1>2. /\ phase = "exec" /\ dut_state = "RUNNING" /\ phase' = "difftest"
      /\ prog' = prog /\ dut_state' = dut_state /\ peeked' = peeked
      /\ is_skip_ref' = is_skip_ref /\ skip_dut_nr_inst' = skip_dut_nr_inst /\ ref' = ref
      /\ faulty' = (faulty \/ bug # {}) /\ exempt' = exempt
      /\ spoiled' = (spoiled \/ (prog[cpu.pc] = "store" /\ is_skip_ref /\ skip_dut_nr_inst = 0))
  BY DEF dut_exec_once, Devices, DutTypes
<1>3. DutTypes'
  <2>1. faulty' \in BOOLEAN /\ spoiled' \in BOOLEAN
    BY <1>2, Zenon DEF DutTypes
  <2> QED
    BY <1>1, <1>2, <2>1, Zenon DEF DutTypes
<1>4. DutPlaces'
  <2>1. CASE skip_dut_nr_inst = 0 /\ is_skip_ref
    BY <1>2, <2>1 DEF DutPlaces
  <2>2. CASE skip_dut_nr_inst = 0 /\ ~is_skip_ref
    BY <1>1, <1>2, <2>2 DEF DutPlaces
  <2>3. CASE skip_dut_nr_inst > 0
    <3>1. Ahead /\ cpu.pc < ref.pc /\ skip_dut_nr_inst = ref.pc - cpu.pc
      BY <1>2, <2>3 DEF DutPlaces
    <3>2. Ahead' /\ skip_dut_nr_inst' = ref'.pc - cpu'.pc + 1
      BY <1>1, <1>2, <3>1 DEF Ahead
    <3> QED
      BY <1>2, <3>2 DEF DutPlaces
  <2> QED
    BY <2>1, <2>2, <2>3
<1>5. DutReference'
  <2> SUFFICES ASSUME InStep' PROVE DutReference'
    BY DEF DutReference
  <2>0. InStep
    BY <1>2 DEF InStep
  <2>1. CASE skip_dut_nr_inst > 0
    <3>1. PICK tr : TraceOf(prog, tr, gold, ref)
      BY <2>0, <2>1 DEF DutReference
    <3>2. gold.pc < ref.pc
      BY <1>2, <2>1 DEF DutPlaces
    <3>3. \E t2 : TraceOf(prog', t2, gold', ref')
      BY <1>1, <1>2, <3>1, <3>2, TracePeel
    <3> QED
      BY <1>2, <2>1, <3>3 DEF DutReference
  <2>2. CASE skip_dut_nr_inst = 0 /\ is_skip_ref
    <3>1. ~faulty' /\ ~spoiled'
      BY <1>2, <2>2 DEF InStep, DutCaught
    <3>2. cpu' = gold' /\ prog[cpu.pc] # "store"
      BY <1>1, <1>2, <2>2, <3>1
    <3>3. ref.m = gold.m
      <4>1. CASE ref.pc = cpu.pc
        BY <1>2, <2>0, <4>1 DEF DutReference
      <4>2. CASE cpu.pc < ref.pc
        BY <1>2, <2>0, <2>2, <4>2 DEF DutReference
      <4> QED
        BY <1>2, <2>2, <4>1, <4>2 DEF DutPlaces
    <3> QED
      BY <1>1, <1>2, <2>2, <3>2, <3>3 DEF DutReference
  <2>3. CASE skip_dut_nr_inst = 0 /\ ~is_skip_ref
    <3>1. ref = gold
      BY <1>2, <2>0, <2>3 DEF DutPlaces, DutReference
    <3> QED
      BY <1>1, <1>2, <2>3, <3>1 DEF DutReference
  <2> QED
    BY <2>1, <2>2, <2>3
<1>6. DutRight' /\ DutCaught'
  BY <1>1, <1>2 DEF DutRight, DutCaught
<1> QED
  BY <1>3, <1>4, <1>5, <1>6

(* The client steps the reference, copies the registers to it, or waits    *)
(* for NEMU to catch up with it.                                           *)
LEMMA DutStep ==
  ASSUME DutInv, difftest_step
  PROVE  DutInv'
<1> USE DutNumbers DEF DutInv
<1>0. /\ phase = "difftest" /\ phase' = "wp"
      /\ UNCHANGED <<prog, cpu, gold, faulty, peeked, exempt, spoiled>>
  BY DEF difftest_step
<1>r. InStep' = InStep
  BY <1>0 DEF InStep
<1>1. CASE skip_dut_nr_inst > 0
  <2>1. CatchUp
    BY <1>1 DEF difftest_step
  <2>2. Ahead /\ skip_dut_nr_inst = ref.pc - cpu.pc + 1 /\ ref' = ref /\ is_skip_ref' = is_skip_ref
    BY <1>0, <1>1, <2>1 DEF CatchUp, DutPlaces
  <2>3. CASE ref.pc = cpu.pc
    <3>1. skip_dut_nr_inst' = 0 /\ dut_state' = IF SameRegs(ref, cpu) THEN dut_state ELSE "ABORT"
      BY <2>1, <2>3 DEF CatchUp, checkregs
    <3>2. InStep => ref = gold
      <4> SUFFICES ASSUME InStep PROVE ref = gold
        OBVIOUS
      <4>1. PICK tr : TraceOf(prog, tr, gold, ref)
        BY <1>1 DEF DutReference
      <4> QED
        BY <2>3, <4>1 DEF TraceOf
    <3>3. DutTypes' /\ DutPlaces'
      BY <1>0, <2>2, <2>3, <3>1 DEF DutTypes, DutPlaces
    <3>4. DutReference'
      BY <1>0, <1>r, <2>2, <2>3, <3>1, <3>2 DEF DutReference
    <3>5. DutRight'
      BY <1>0, <3>1, <3>2 DEF DutRight, InStep, SameRegs
    <3>6. DutCaught'
      BY <1>0, <1>1, <2>2, <3>1, <3>2 DEF DutCaught, InStep, SameRegs
    <3> QED
      BY <3>3, <3>4, <3>5, <3>6
  <2>4. CASE ref.pc # cpu.pc
    <3>1. /\ skip_dut_nr_inst' = skip_dut_nr_inst - 1 /\ cpu.pc < ref.pc
          /\ dut_state' = dut_state /\ skip_dut_nr_inst' > 0
      <4>1. cpu.pc < ref.pc /\ skip_dut_nr_inst # 1 /\ skip_dut_nr_inst - 1 > 0
        BY <2>2, <2>4 DEF Ahead
      <4>2. skip_dut_nr_inst' = skip_dut_nr_inst - 1 /\ dut_state' = dut_state
        BY <2>1, <2>4, <4>1 DEF CatchUp
      <4> QED
        BY <4>1, <4>2
    <3>2. DutTypes'
      BY <1>0, <2>2, <3>1 DEF DutTypes
    <3>3. DutPlaces'
      BY <1>0, <2>2, <3>1 DEF DutPlaces, Ahead
    <3>4. DutReference'
      BY <1>0, <1>1, <1>r, <2>2, <3>1 DEF DutReference
    <3>5. DutRight' /\ DutCaught'
      BY <1>0, <1>1, <2>2, <3>1 DEF DutRight, DutCaught
    <3> QED
      BY <3>2, <3>3, <3>4, <3>5
  <2> QED
    BY <2>3, <2>4
<1>2. CASE skip_dut_nr_inst = 0 /\ is_skip_ref
  <2>1. /\ ref' = [cpu EXCEPT !.m = ref.m] /\ is_skip_ref' = FALSE
        /\ UNCHANGED <<skip_dut_nr_inst, dut_state>>
    BY <1>2 DEF difftest_step, CopyToRef
  <2>2. ref' \in Machines /\ ref'.pc = cpu.pc /\ ref'.x = cpu.x /\ ref'.m = ref.m
    BY <2>1 DEF DutTypes, Machines, Words
  <2>3. DutTypes'
    BY <1>0, <2>1, <2>2 DEF DutTypes
  <2>4. DutPlaces' /\ DutRight'
    BY <1>0, <1>2, <2>1, <2>2 DEF DutPlaces, DutRight
  <2>5. InStep => ref' = gold
    BY <1>0, <1>2, <2>2, SameMachine DEF DutReference, DutTypes
  <2>6. DutReference'
    BY <1>0, <1>2, <1>r, <2>1, <2>2, <2>5 DEF DutReference
  <2>7. DutCaught'
    BY <1>0, <1>2, <2>1, <2>2, <2>5 DEF DutCaught, InStep
  <2> QED
    BY <2>3, <2>4, <2>6, <2>7
<1>3. CASE skip_dut_nr_inst = 0 /\ ~is_skip_ref
  <2>1. /\ ref' = ref_difftest_exec(ref) /\ UNCHANGED <<is_skip_ref, skip_dut_nr_inst>>
        /\ dut_state' = IF SameRegs(ref', cpu) THEN dut_state ELSE "ABORT"
    BY <1>3 DEF difftest_step, checkregs
  <2>2. ref.pc = cpu.pc - 1 /\ prog[ref.pc] \notin Devices \cup {"pack"} /\ ref.pc <= N
    BY <1>0, <1>3 DEF DutPlaces, Ahead
  <2>3. ref' = OneOf(prog, ref)
    BY <2>1, <2>2, RefOneIs DEF ref_difftest_exec
  <2>4. ref' \in Machines /\ ref'.pc = cpu.pc
    BY <2>2, <2>3, OneMachine DEF DutTypes
  <2>5. InStep => ref' = gold
    BY <1>0, <1>3, <2>3 DEF DutReference
  <2>6. DutTypes'
    BY <1>0, <2>1, <2>4 DEF DutTypes
  <2>7. DutPlaces'
    BY <1>0, <1>3, <2>1, <2>4 DEF DutPlaces
  <2>8. DutReference'
    BY <1>0, <1>3, <1>r, <2>1, <2>4, <2>5 DEF DutReference
  <2>9. DutRight'
    BY <1>0, <2>1, <2>5 DEF DutRight, InStep, SameRegs
  <2>10. DutCaught'
    BY <1>0, <1>3, <2>1, <2>5 DEF DutCaught, InStep, SameRegs
  <2> QED
    BY <2>6, <2>7, <2>8, <2>9, <2>10
<1> QED
  BY <1>1, <1>2, <1>3 DEF DutTypes

(* The debugger reads a device: as with a device access, the memories      *)
(* agree unless the rest of a packed group stores.                         *)
LEMMA DutSkips ==
  ASSUME DutInv, phase # "difftest", phase' # "difftest", phase' \in {"prompt", "exec", "wp"},
         UNCHANGED <<prog, cpu, ref, dut_state, gold, faulty, exempt>>,
         difftest_skip_ref, peeked' = TRUE
  PROVE  DutInv'
<1> USE DutNumbers DEF DutInv
<1>1. /\ is_skip_ref' = TRUE /\ skip_dut_nr_inst' = 0
      /\ spoiled' = (spoiled \/ \E i \in cpu.pc .. ref.pc - 1 : prog[i] = "store")
  BY DEF difftest_skip_ref
<1>2. DutTypes'
  <2>1. spoiled' \in BOOLEAN
    BY <1>1, Zenon DEF DutTypes
  <2>2. skip_dut_nr_inst' \in 0 .. PackLen
    BY <1>1
  <2> QED
    BY <1>1, <2>1, <2>2, Zenon DEF DutTypes
<1>3. DutPlaces'
  BY <1>1 DEF DutPlaces, Ahead
<1>4. DutRight' /\ DutCaught'
  BY <1>1 DEF DutRight, DutCaught
<1>5. DutReference'
  <2> SUFFICES ASSUME InStep' PROVE DutReference'
    BY DEF DutReference
  <2>1. ~faulty /\ ~spoiled /\ \A i \in cpu.pc .. ref.pc - 1 : prog[i] # "store"
    BY <1>1, Zenon DEF InStep
  <2>2. InStep
    BY <2>1 DEF InStep
  <2>3. CASE ref.pc = cpu.pc
    BY <1>1, <2>2, <2>3 DEF DutReference
  <2>4. CASE cpu.pc < ref.pc
    <3>1. ref.m = gold.m
      <4>1. CASE skip_dut_nr_inst > 0
        <5>1. PICK tr : TraceOf(prog, tr, gold, ref)
          BY <2>2, <4>1 DEF DutReference
        <5> QED
          BY <2>1, <5>1, TraceMemory
      <4>2. CASE skip_dut_nr_inst = 0
        BY <2>2, <2>4, <4>2 DEF DutReference
      <4> QED
        BY <4>1, <4>2
    <3> QED
      BY <1>1, <2>1, <2>4, <3>1 DEF DutReference
  <2> QED
    BY <2>3, <2>4 DEF DutPlaces, Ahead
<1> QED
  BY <1>2, <1>3, <1>4, <1>5

(* A step that only moves between the prompt, the loop and the watchpoints *)
(* keeps the invariant.                                                    *)
LEMMA DutIdle ==
  ASSUME DutInv, phase # "difftest", phase' # "difftest", phase' \in {"prompt", "exec", "wp"},
         UNCHANGED <<prog, cpu, ref, is_skip_ref, skip_dut_nr_inst, dut_state, gold, faulty,
                     peeked, exempt, spoiled>>
  PROVE  DutInv'
<1>1. DutTypes'
  BY DEF DutInv, DutTypes
<1>2. DutPlaces'
  BY DEF DutInv, DutPlaces, Ahead
<1>3. DutReference'
  BY DEF DutInv, DutReference, InStep
<1>4. DutRight' /\ DutCaught'
  BY DEF DutInv, DutRight, DutCaught
<1> QED
  BY <1>1, <1>2, <1>3, <1>4 DEF DutInv

(* The watchpoints and the prompt.                                         *)
LEMMA DutDebugger ==
  ASSUME DutInv,
         \/ \E dev, hit \in BOOLEAN : _check_wp(dev, hit)
         \/ Examine \/ Continue
  PROVE  DutInv'
<1>1. ASSUME NEW dev \in BOOLEAN, NEW hit \in BOOLEAN, _check_wp(dev, hit) PROVE DutInv'
  <2>0. phase = "wp" /\ phase' \in {"prompt", "exec"}
        /\ UNCHANGED <<prog, cpu, ref, dut_state, gold, faulty, exempt>>
    BY <1>1 DEF _check_wp
  <2>1. CASE dev
    <3>1. difftest_skip_ref /\ peeked' = TRUE
      BY <1>1, <2>1 DEF _check_wp
    <3> QED
      BY <2>0, <3>1, DutSkips
  <2>2. CASE ~dev
    <3>1. UNCHANGED <<is_skip_ref, skip_dut_nr_inst, spoiled>> /\ peeked' = peeked
      BY <1>1, <2>2 DEF _check_wp, DutInv, DutTypes
    <3> QED
      BY <2>0, <3>1, DutIdle
  <2> QED
    BY <2>1, <2>2
<1>2. ASSUME Examine PROVE DutInv'
  <2>1. phase = "prompt" /\ phase' = phase /\ difftest_skip_ref /\ peeked' = TRUE
        /\ UNCHANGED <<prog, cpu, ref, dut_state, gold, faulty, exempt>>
    BY <1>2 DEF Examine
  <2> QED
    BY <2>1, DutSkips
<1>3. ASSUME Continue PROVE DutInv'
  BY <1>3, DutIdle DEF Continue
<1> QED
  BY <1>1, <1>2, <1>3

(* NEMU's difftest client stops NEMU only for an instruction computed      *)
(* wrongly, unless the memories were put out of step, and lets no wrong    *)
(* register pass that a device access or the debugger did not exempt       *)
(* (difftest/dut.c), for every program and length of the packed groups.    *)
THEOREM DifftestSound == DutSpec => []AlarmIffFault
<1>1. DutInv /\ [DutNext]_dutVars => DutInv'
  <2> SUFFICES ASSUME DutInv, [DutNext]_dutVars PROVE DutInv'
    OBVIOUS
  <2>1. CASE UNCHANGED dutVars
    <3>1. DutTypes' /\ DutPlaces'
      BY <2>1 DEF dutVars, DutInv, DutTypes, DutPlaces, Ahead
    <3>2. DutReference' /\ DutRight' /\ DutCaught'
      BY <2>1 DEF dutVars, DutInv, DutReference, InStep, DutRight, DutCaught
    <3> QED
      BY <3>1, <3>2 DEF DutInv
  <2>2. ASSUME NEW d \in Words, NEW bug \in SUBSET {"x", "m"}, dut_exec_once(d, bug)
        PROVE  DutInv'
    BY <2>2, DutDevice, DutPack, DutPlain
  <2> QED
    BY <2>1, <2>2, DutStep, DutDebugger DEF DutNext
<1>2. DutInv => AlarmIffFault
  BY DEF DutInv, DutRight, DutCaught, AlarmIffFault, NoFalseAlarm, FaultCaught
<1> QED
  BY <1>1, <1>2, DutStarts, PTL DEF DutSpec

-----------------------------------------------------------------------------
(* The watchpoint pool: two linked lists in one array.                     *)

(* The pointers from h on run through l[0], ..., l[m - 1] and end in NULL. *)
Linked(nxt, h, l, m) ==
  /\ m \in Nat /\ l \in [0 .. m - 1 -> WP]
  /\ h = IF m = 0 THEN NULL ELSE l[0]
  /\ \A i \in 0 .. m - 1 : nxt[l[i]] = IF i = m - 1 THEN NULL ELSE l[i + 1]

(* What i steps along such a list reach: the recursive definition of Walk  *)
(* is solved by the list itself.                                           *)
LEMMA WalkLinked ==
  ASSUME NEW nxt, NEW h, NEW l, NEW m, Linked(nxt, h, l, m), NEW i \in Nat
  PROVE  Walk(nxt, h, i) = IF i < m THEN l[i] ELSE NULL
<1> DEFINE At(k) == IF k < m THEN l[k] ELSE NULL
           W == [k \in 0 .. i |-> At(k)]
           Step(f) == [k \in 0 .. i |-> IF k = 0 THEN h ELSE IF f[k-1] = NULL THEN NULL ELSE nxt[f[k-1]]]
           p == CHOOSE f : f = Step(f)
<1>0. m \in Nat /\ NULL \notin WP
  BY PoolAssumption DEF Linked, WP
<1>1. \A k \in 0 .. i : W[k] = IF k = 0 THEN h ELSE IF W[k-1] = NULL THEN NULL ELSE nxt[W[k-1]]
  <2> SUFFICES ASSUME NEW k \in 0 .. i
               PROVE W[k] = IF k = 0 THEN h ELSE IF W[k-1] = NULL THEN NULL ELSE nxt[W[k-1]]
    OBVIOUS
  <2>1. CASE k = 0
    BY <1>0, <2>1 DEF Linked
  <2>2. CASE k # 0 /\ k - 1 < m
    <3>1. k - 1 \in 0 .. m - 1 /\ k - 1 \in 0 .. i /\ W[k-1] = l[k-1] /\ l[k-1] \in WP
      BY <1>0, <2>2 DEF Linked
    <3>2. nxt[l[k-1]] = IF k - 1 = m - 1 THEN NULL ELSE l[k - 1 + 1]
      BY <3>1 DEF Linked
    <3> QED
      BY <1>0, <2>2, <3>1, <3>2
  <2>3. CASE k # 0 /\ ~(k - 1 < m)
    BY <1>0, <2>3
  <2> QED
    BY <2>1, <2>2, <2>3
<1>2. W = Step(W)
  BY <1>1, SMTT(30)
<1>3. p = Step(p)
  BY <1>2
<1>4. Walk(nxt, h, i) = p[i]
  BY DEF Walk
<1> HIDE DEF p
<1> DEFINE S == {k \in Nat : k \in 0 .. i => p[k] = W[k]}
<1>5. 0 \in S
  BY <1>1, <1>3
<1>6. ASSUME NEW k \in Nat, k \in S PROVE k + 1 \in S
  <2> SUFFICES ASSUME k + 1 \in 0 .. i PROVE p[k + 1] = W[k + 1]
    OBVIOUS
  <2>1. k \in 0 .. i /\ (k + 1) - 1 = k /\ k + 1 # 0 /\ p[k] = W[k]
    BY <1>6
  <2> HIDE DEF W, S
  <2> QED
    BY <2>1, <1>1, <1>3
<1>7. i \in S
  <2> HIDE DEF S
  <2> QED
    BY <1>5, <1>6, Induct
<1> QED
  BY <1>4, <1>7

(* The nodes of such a list are the entries of l, and the pool is long     *)
(* enough to see its end.                                                  *)
LEMMA NodesLinked ==
  ASSUME NEW nxt, NEW h, NEW l, NEW m, Linked(nxt, h, l, m), m <= NR_WP
  PROVE  /\ Nodes(nxt, h) = {l[i] : i \in 0 .. m - 1}
         /\ Walk(nxt, h, NR_WP) = NULL
<1>0. m \in Nat /\ NULL \notin WP /\ NR_WP \in Nat
  BY PoolAssumption DEF Linked, WP
<1>1. \A i \in Nat : Walk(nxt, h, i) = IF i < m THEN l[i] ELSE NULL
  BY WalkLinked
<1>2. ASSUME NEW x \in Nodes(nxt, h) PROVE x \in {l[i] : i \in 0 .. m - 1}
  <2>1. PICK i \in 0 .. NR_WP : x = Walk(nxt, h, i) /\ x # NULL
    BY DEF Nodes
  <2>2. i \in Nat /\ i < m /\ x = l[i]
    BY <1>0, <1>1, <2>1
  <2> QED
    BY <1>0, <2>2
<1>3. ASSUME NEW i \in 0 .. m - 1 PROVE l[i] \in Nodes(nxt, h)
  <2>1. i \in 0 .. NR_WP /\ i \in Nat /\ i < m /\ l[i] \in WP
    BY <1>0 DEF Linked
  <2>2. Walk(nxt, h, i) = l[i] /\ l[i] # NULL
    BY <1>0, <1>1, <2>1
  <2> QED
    BY <2>1, <2>2 DEF Nodes
<1> QED
  BY <1>0, <1>1, <1>2, <1>3

(* The two lists: hs, with m entries, is the active one, fs, with c        *)
(* entries, the free one. No node is twice on one of them or on both, and  *)
(* every node of the pool is on one.                                       *)
Partition(nxt, h, f, hs, m, fs, c) ==
  /\ Linked(nxt, h, hs, m) /\ Linked(nxt, f, fs, c) /\ m + c = NR_WP
  /\ \A i, j \in 0 .. m - 1 : hs[i] = hs[j] => i = j
  /\ \A i, j \in 0 .. c - 1 : fs[i] = fs[j] => i = j
  /\ \A i \in 0 .. m - 1, j \in 0 .. c - 1 : hs[i] # fs[j]
  /\ \A w \in WP : (\E i \in 0 .. m - 1 : w = hs[i]) \/ (\E j \in 0 .. c - 1 : w = fs[j])

(* There are two such lists.                                               *)
Partitioned(nxt, h, f) == \E hs, m, fs, c : Partition(nxt, h, f, hs, m, fs, c)

(* Every active watchpoint stores what its expression is worth now.        *)
Watching == \A w \in Nodes(next, head) : e[w] \in Exprs /\ value[w] = env[e[w]]

(* The inductive invariant of the pool.                                    *)
WpInv == WpTypeOK /\ Partitioned(next, head, free_) /\ Watching

(* What the two lists say of the pointers.                                 *)
LEMMA ListsOf ==
  ASSUME NEW nxt, NEW h, NEW f, NEW hs, NEW m, NEW fs, NEW c, Partition(nxt, h, f, hs, m, fs, c)
  PROVE  /\ m \in Nat /\ c \in Nat /\ m + c = NR_WP /\ NR_WP \in Nat
         /\ hs \in [0 .. m - 1 -> WP] /\ fs \in [0 .. c - 1 -> WP]
         /\ Nodes(nxt, h) = {hs[i] : i \in 0 .. m - 1} /\ Nodes(nxt, f) = {fs[i] : i \in 0 .. c - 1}
         /\ Walk(nxt, h, NR_WP) = NULL /\ Walk(nxt, f, NR_WP) = NULL
         /\ Nodes(nxt, h) \subseteq WP /\ NULL \notin WP
<1>1. m \in Nat /\ c \in Nat /\ m + c = NR_WP /\ NR_WP \in Nat /\ m <= NR_WP /\ c <= NR_WP
  BY PoolAssumption DEF Partition, Linked
<1>2. Linked(nxt, h, hs, m) /\ Linked(nxt, f, fs, c)
  BY DEF Partition
<1>3. Nodes(nxt, h) = {hs[i] : i \in 0 .. m - 1} /\ Walk(nxt, h, NR_WP) = NULL
  BY <1>1, <1>2, NodesLinked
<1>4. Nodes(nxt, f) = {fs[i] : i \in 0 .. c - 1} /\ Walk(nxt, f, NR_WP) = NULL
  BY <1>1, <1>2, NodesLinked
<1>5. hs \in [0 .. m - 1 -> WP] /\ fs \in [0 .. c - 1 -> WP]
  BY <1>2 DEF Linked
<1> QED
  BY <1>1, <1>3, <1>4, <1>5, PoolAssumption DEF WP

(* A pool made of two such lists is partitioned by them.                   *)
LEMMA PoolPartition == Partitioned(next, head, free_) => ListsPartitionPool
<1> SUFFICES ASSUME Partitioned(next, head, free_) PROVE ListsPartitionPool
  OBVIOUS
<1>1. PICK hs, m, fs, c : Partition(next, head, free_, hs, m, fs, c)
  BY DEF Partitioned
<1>2. /\ Nodes(next, head) = {hs[i] : i \in 0 .. m - 1} /\ Nodes(next, free_) = {fs[i] : i \in 0 .. c - 1}
      /\ Walk(next, head, NR_WP) = NULL /\ Walk(next, free_, NR_WP) = NULL
      /\ hs \in [0 .. m - 1 -> WP] /\ fs \in [0 .. c - 1 -> WP]
  BY <1>1, ListsOf
<1>3. Nodes(next, head) \cap Nodes(next, free_) = {}
  BY <1>1, <1>2 DEF Partition
<1>4. Nodes(next, head) \cup Nodes(next, free_) = WP
  BY <1>1, <1>2 DEF Partition
<1> QED
  BY <1>2, <1>3, <1>4 DEF ListsPartitionPool

(* After init_wp_pool all nodes are free, in the order of the pool.        *)
LEMMA WpStarts == WpInit => WpInv
<1> SUFFICES ASSUME WpInit PROVE WpInv
  OBVIOUS
<1>0. NR_WP \in Nat \ {0} /\ NULL \notin WP
  BY PoolAssumption DEF WP
<1>1. WpTypeOK
  BY <1>0, PoolAssumption DEF WpInit, init_wp_pool, WpTypeOK, WP, Ptr
<1> DEFINE hs == [i \in 0 .. 0 - 1 |-> 0]
           fs == [i \in 0 .. NR_WP - 1 |-> i]
<1>2. Linked(next, head, hs, 0)
  BY <1>0 DEF WpInit, init_wp_pool, Linked
<1>3. Linked(next, free_, fs, NR_WP)
  BY <1>0 DEF WpInit, init_wp_pool, Linked, WP
<1>4. Partition(next, head, free_, hs, 0, fs, NR_WP)
  BY <1>0, <1>2, <1>3 DEF Partition, WP
<1>5. Partitioned(next, head, free_)
  <2> HIDE DEF hs, fs
  <2> QED
    BY <1>4 DEF Partitioned
<1>6. Nodes(next, head) = {}
  <2> HIDE DEF hs, fs
  <2>1. Nodes(next, head) = {hs[i] : i \in 0 .. 0 - 1}
    BY <1>4, ListsOf
  <2> QED
    BY <2>1
<1> QED
  BY <1>1, <1>5, <1>6 DEF WpInv, Watching

(* new_wp on the pointers: f becomes the last node of the active list.     *)
Appends(nxt, h, f, hs, m, nxt2, h2) ==
  /\ nxt2 = [w \in WP |-> IF w = f THEN NULL ELSE IF m > 0 /\ w = hs[m - 1] THEN f ELSE nxt[w]]
  /\ h2 = IF m = 0 THEN f ELSE h

(* new_wp keeps the two lists: the first free node becomes the last active *)
(* one.                                                                    *)
LEMMA Appended ==
  ASSUME NEW nxt \in [WP -> Ptr], NEW h, NEW f, f # NULL, NEW hs, NEW m, NEW fs, NEW c,
         Partition(nxt, h, f, hs, m, fs, c),
         NEW nxt2, NEW h2, Appends(nxt, h, f, hs, m, nxt2, h2)
  PROVE  /\ Partitioned(nxt2, h2, nxt[f]) /\ Nodes(nxt2, h2) = Nodes(nxt, h) \cup {f}
         /\ f \in WP /\ f \notin Nodes(nxt, h)
<1>0. /\ nxt2 = [w \in WP |-> IF w = f THEN NULL ELSE IF m > 0 /\ w = hs[m - 1] THEN f ELSE nxt[w]]
      /\ h2 = IF m = 0 THEN f ELSE h
  BY DEF Appends
<1>1. /\ m \in Nat /\ c \in Nat /\ m + c = NR_WP /\ NR_WP \in Nat
      /\ hs \in [0 .. m - 1 -> WP] /\ fs \in [0 .. c - 1 -> WP]
      /\ Nodes(nxt, h) = {hs[i] : i \in 0 .. m - 1} /\ NULL \notin WP
  BY ListsOf
<1>2. c > 0 /\ f = fs[0] /\ 0 \in 0 .. c - 1 /\ f \in WP
  BY <1>1 DEF Partition, Linked
<1>3. \A i \in 0 .. m - 1 : hs[i] # f
  BY <1>2 DEF Partition
<1> DEFINE hs2 == [i \in 0 .. (m + 1) - 1 |-> IF i = m THEN f ELSE hs[i]]
           fs2 == [i \in 0 .. (c - 1) - 1 |-> fs[i + 1]]
<1>4. Linked(nxt2, h2, hs2, m + 1)
  <2>1. m + 1 \in Nat /\ hs2 \in [0 .. (m + 1) - 1 -> WP]
    BY <1>1, <1>2
  <2>2. h2 = IF m + 1 = 0 THEN NULL ELSE hs2[0]
    BY <1>0, <1>1 DEF Partition, Linked
  <2>3. ASSUME NEW i \in 0 .. (m + 1) - 1
        PROVE nxt2[hs2[i]] = IF i = (m + 1) - 1 THEN NULL ELSE hs2[i + 1]
    <3>1. CASE i = m
      BY <1>0, <1>1, <1>2, <3>1
    <3>2. CASE i # m
      <4>1. i \in 0 .. m - 1 /\ hs2[i] = hs[i] /\ hs[i] \in WP /\ m - 1 \in 0 .. m - 1 /\ m > 0 /\ hs[i] # f
        BY <1>1, <1>3, <3>2
      <4>2. nxt[hs[i]] = IF i = m - 1 THEN NULL ELSE hs[i + 1]
        BY <4>1 DEF Partition, Linked
      <4>3. hs[i] = hs[m - 1] => i = m - 1
        BY <4>1 DEF Partition
      <4>4. nxt2[hs[i]] = IF i = m - 1 THEN f ELSE hs[i + 1]
        BY <1>0, <4>1, <4>2, <4>3
      <4> QED
        BY <1>1, <3>2, <4>1, <4>4
    <3> QED
      BY <3>1, <3>2
  <2> QED
    BY <2>1, <2>2, <2>3 DEF Linked
<1>5. Linked(nxt2, nxt[f], fs2, c - 1)
  <2>1. c - 1 \in Nat /\ fs2 \in [0 .. (c - 1) - 1 -> WP]
    BY <1>1, <1>2
  <2>2. nxt[f] = IF c - 1 = 0 THEN NULL ELSE fs2[0]
    <3>1. nxt[fs[0]] = IF 0 = c - 1 THEN NULL ELSE fs[0 + 1]
      BY <1>2 DEF Partition, Linked
    <3> QED
      BY <1>0, <1>1, <1>2, <3>1
  <2>3. ASSUME NEW i \in 0 .. (c - 1) - 1
        PROVE nxt2[fs2[i]] = IF i = (c - 1) - 1 THEN NULL ELSE fs2[i + 1]
    <3>1. i + 1 \in 0 .. c - 1 /\ fs2[i] = fs[i + 1] /\ fs[i + 1] \in WP
      BY <1>1
    <3>2. nxt[fs[i + 1]] = IF i + 1 = c - 1 THEN NULL ELSE fs[(i + 1) + 1]
      BY <3>1 DEF Partition, Linked
    <3>3. fs[i + 1] # f
      BY <1>2, <3>1 DEF Partition
    <3>4. m > 0 => fs[i + 1] # hs[m - 1]
      <4>1. m > 0 => m - 1 \in 0 .. m - 1
        BY <1>1
      <4> QED
        BY <4>1, <3>1 DEF Partition
    <3>5. nxt2[fs[i + 1]] = nxt[fs[i + 1]]
      BY <1>0, <3>1, <3>3, <3>4
    <3> QED
      BY <1>1, <3>1, <3>2, <3>5
  <2> QED
    BY <2>1, <2>2, <2>3 DEF Linked
<1>6. Partition(nxt2, h2, nxt[f], hs2, m + 1, fs2, c - 1)
  <2>1. (m + 1) + (c - 1) = NR_WP
    BY <1>1
  <2>2. ASSUME NEW i \in 0 .. (m + 1) - 1, NEW j \in 0 .. (m + 1) - 1, hs2[i] = hs2[j] PROVE i = j
    <3>1. CASE i = m \/ j = m
      BY <1>1, <1>3, <2>2, <3>1
    <3>2. CASE i # m /\ j # m
      <4>1. i \in 0 .. m - 1 /\ j \in 0 .. m - 1 /\ hs[i] = hs[j]
        BY <1>1, <2>2, <3>2
      <4> QED
        BY <4>1 DEF Partition
    <3> QED
      BY <3>1, <3>2
  <2>3. ASSUME NEW i \in 0 .. (c - 1) - 1, NEW j \in 0 .. (c - 1) - 1, fs2[i] = fs2[j] PROVE i = j
    <3>1. i + 1 \in 0 .. c - 1 /\ j + 1 \in 0 .. c - 1 /\ fs[i + 1] = fs[j + 1]
      BY <1>1, <2>3
    <3>2. i + 1 = j + 1
      BY <3>1 DEF Partition
    <3> QED
      BY <3>2, <1>1
  <2>4. ASSUME NEW i \in 0 .. (m + 1) - 1, NEW j \in 0 .. (c - 1) - 1 PROVE hs2[i] # fs2[j]
    <3>1. j + 1 \in 0 .. c - 1 /\ fs2[j] = fs[j + 1] /\ j + 1 # 0
      BY <1>1
    <3>2. CASE i = m
      <4>1. hs2[i] = fs[0]
        BY <1>1, <1>2, <3>2
      <4> QED
        BY <1>2, <3>1, <4>1 DEF Partition
    <3>3. CASE i # m
      <4>1. i \in 0 .. m - 1 /\ hs2[i] = hs[i]
        BY <1>1, <3>3
      <4> QED
        BY <3>1, <4>1 DEF Partition
    <3> QED
      BY <3>2, <3>3
  <2>5. ASSUME NEW w \in WP
        PROVE (\E i \in 0 .. (m + 1) - 1 : w = hs2[i]) \/ (\E j \in 0 .. (c - 1) - 1 : w = fs2[j])
    <3>1. CASE \E i \in 0 .. m - 1 : w = hs[i]
      <4>1. PICK i \in 0 .. m - 1 : w = hs[i]
        BY <3>1
      <4>2. i \in 0 .. (m + 1) - 1 /\ hs2[i] = w
        BY <4>1, <1>1
      <4> QED
        BY <4>2
    <3>2. CASE \E j \in 0 .. c - 1 : w = fs[j]
      <4>1. PICK j \in 0 .. c - 1 : w = fs[j]
        BY <3>2
      <4>2. CASE j = 0
        <5>1. m \in 0 .. (m + 1) - 1 /\ hs2[m] = w
          BY <1>1, <1>2, <4>1, <4>2
        <5> QED
          BY <5>1
      <4>3. CASE j # 0
        <5>1. j - 1 \in 0 .. (c - 1) - 1 /\ fs2[j - 1] = w
          BY <1>1, <4>1, <4>3
        <5> QED
          BY <5>1
      <4> QED
        BY <4>2, <4>3
    <3> QED
      BY <3>1, <3>2 DEF Partition
  <2> HIDE DEF hs2, fs2
  <2> QED
    BY <1>4, <1>5, <2>1, <2>2, <2>3, <2>4, <2>5 DEF Partition
<1>7. Partitioned(nxt2, h2, nxt[f])
  <2> HIDE DEF hs2, fs2
  <2> QED
    BY <1>6 DEF Partitioned
<1>8. Nodes(nxt2, h2) = {hs2[i] : i \in 0 .. (m + 1) - 1}
  <2>1. m + 1 <= NR_WP
    BY <1>1, <1>2
  <2> HIDE DEF hs2
  <2> QED
    BY <1>4, <2>1, NodesLinked
<1>9. {hs2[i] : i \in 0 .. (m + 1) - 1} = {hs[i] : i \in 0 .. m - 1} \cup {f}
  <2>1. ASSUME NEW i \in 0 .. (m + 1) - 1 PROVE hs2[i] \in {hs[k] : k \in 0 .. m - 1} \cup {f}
    BY <1>1
  <2>2. ASSUME NEW i \in 0 .. m - 1 PROVE hs[i] \in {hs2[k] : k \in 0 .. (m + 1) - 1}
    <3>1. i \in 0 .. (m + 1) - 1 /\ hs2[i] = hs[i]
      BY <1>1
    <3> QED
      BY <3>1
  <2>3. f \in {hs2[k] : k \in 0 .. (m + 1) - 1}
    <3>1. m \in 0 .. (m + 1) - 1 /\ hs2[m] = f
      BY <1>1
    <3> QED
      BY <3>1
  <2> QED
    BY <2>1, <2>2, <2>3
<1> QED
  BY <1>1, <1>2, <1>3, <1>7, <1>8, <1>9

(* free_wp on the pointers: node q of the active list is unlinked and      *)
(* becomes the first of the free list.                                     *)
Removes(nxt, h, f, hs, q, nxt2, h2) ==
  /\ nxt2 = [w \in WP |-> IF w = hs[q] THEN f ELSE IF q > 0 /\ w = hs[q - 1] THEN nxt[hs[q]] ELSE nxt[w]]
  /\ h2 = IF q = 0 THEN nxt[hs[q]] ELSE h

(* free_wp keeps the two lists, wherever in the active list the node is.   *)
LEMMA Removed ==
  ASSUME NEW nxt \in [WP -> Ptr], NEW h, NEW f \in Ptr, NEW hs, NEW m, NEW fs, NEW c,
         Partition(nxt, h, f, hs, m, fs, c), NEW q \in 0 .. m - 1,
         NEW nxt2, NEW h2, Removes(nxt, h, f, hs, q, nxt2, h2)
  PROVE  /\ Partitioned(nxt2, h2, hs[q])
         /\ Nodes(nxt2, h2) \subseteq Nodes(nxt, h) \ {hs[q]}
<1>0. /\ nxt2 = [w \in WP |-> IF w = hs[q] THEN f ELSE IF q > 0 /\ w = hs[q - 1] THEN nxt[hs[q]] ELSE nxt[w]]
      /\ h2 = IF q = 0 THEN nxt[hs[q]] ELSE h
  BY DEF Removes
<1>1. /\ m \in Nat /\ c \in Nat /\ m + c = NR_WP /\ NR_WP \in Nat
      /\ hs \in [0 .. m - 1 -> WP] /\ fs \in [0 .. c - 1 -> WP]
      /\ Nodes(nxt, h) = {hs[i] : i \in 0 .. m - 1} /\ NULL \notin WP
  BY ListsOf
<1>2. hs[q] \in WP /\ m > 0 /\ q \in Nat
  BY <1>1
<1>3. /\ \A i \in 0 .. m - 1 : nxt[hs[i]] = IF i = m - 1 THEN NULL ELSE hs[i + 1]
      /\ \A i \in 0 .. c - 1 : nxt[fs[i]] = IF i = c - 1 THEN NULL ELSE fs[i + 1]
      /\ h = IF m = 0 THEN NULL ELSE hs[0]
      /\ f = IF c = 0 THEN NULL ELSE fs[0]
  BY DEF Partition, Linked
<1>4. /\ \A i, j \in 0 .. m - 1 : hs[i] = hs[j] => i = j
      /\ \A i, j \in 0 .. c - 1 : fs[i] = fs[j] => i = j
      /\ \A i \in 0 .. m - 1, j \in 0 .. c - 1 : hs[i] # fs[j]
      /\ \A w \in WP : (\E i \in 0 .. m - 1 : w = hs[i]) \/ (\E j \in 0 .. c - 1 : w = fs[j])
  BY DEF Partition
<1> DEFINE Skip(i) == IF i < q THEN i ELSE i + 1
           hs2 == [i \in 0 .. (m - 1) - 1 |-> hs[Skip(i)]]
           fs2 == [i \in 0 .. (c + 1) - 1 |-> IF i = 0 THEN hs[q] ELSE fs[i - 1]]
<1>5. ASSUME NEW i \in 0 .. (m - 1) - 1
      PROVE Skip(i) \in 0 .. m - 1 /\ Skip(i) # q /\ hs2[i] = hs[Skip(i)] /\ hs2[i] \in WP /\ hs2[i] # hs[q]
  <2>1. Skip(i) \in 0 .. m - 1 /\ Skip(i) # q
    BY <1>1
  <2> HIDE DEF Skip
  <2> QED
    BY <1>1, <1>4, <2>1
<1>6. Linked(nxt2, h2, hs2, m - 1)
  <2>1. m - 1 \in Nat /\ hs2 \in [0 .. (m - 1) - 1 -> WP]
    <3>1. \A i \in 0 .. (m - 1) - 1 : hs[Skip(i)] \in WP
      BY <1>5
    <3> HIDE DEF Skip
    <3> QED
      BY <1>0, <1>1, <1>2, <3>1
  <2>2. h2 = IF m - 1 = 0 THEN NULL ELSE hs2[0]
    <3>1. CASE m - 1 = 0
      BY <1>0, <1>1, <1>3, <3>1
    <3>2. CASE m - 1 # 0 /\ q = 0
      <4>1. 0 \in 0 .. (m - 1) - 1 /\ hs2[0] = hs[1]
        BY <1>1, <3>2
      <4>2. 0 # m - 1 /\ 0 \in 0 .. m - 1
        BY <1>1, <1>2, <3>2
      <4>3. nxt[hs[0]] = hs[0 + 1]
        BY <1>3, <4>2
      <4> QED
        BY <1>0, <3>2, <4>1, <4>3
    <3>3. CASE m - 1 # 0 /\ q # 0
      <4>1. 0 \in 0 .. (m - 1) - 1 /\ hs2[0] = hs[0]
        BY <1>1, <1>2, <3>3
      <4> QED
        BY <1>0, <1>2, <1>3, <3>3, <4>1
    <3> QED
      BY <3>1, <3>2, <3>3
  <2>3. ASSUME NEW i \in 0 .. (m - 1) - 1
        PROVE nxt2[hs2[i]] = IF i = (m - 1) - 1 THEN NULL ELSE hs2[i + 1]
    <3>1. i \in 0 .. m - 1 /\ i + 1 \in 0 .. m - 1 /\ i \in Nat
      BY <1>1
    <3>2. i # (m - 1) - 1 => i + 1 \in 0 .. (m - 1) - 1 /\ hs2[i + 1] = hs[Skip(i + 1)]
      BY <1>1
    <3>3. CASE i < q - 1
      <4>1. Skip(i) = i /\ Skip(i + 1) = i + 1 /\ i # (m - 1) - 1 /\ i # m - 1
        BY <1>1, <1>2, <3>3
      <4>2. hs[i] # hs[q] /\ (q > 0 => hs[i] # hs[q - 1])
        <5>1. q > 0 => q - 1 \in 0 .. m - 1 /\ i # q - 1
          BY <1>1, <3>3
        <5>2. i # q
          BY <1>2, <3>3
        <5> QED
          BY <1>4, <3>1, <5>1, <5>2
      <4>3. nxt2[hs[i]] = nxt[hs[i]]
        BY <1>0, <1>1, <3>1, <4>2
      <4>4. nxt[hs[i]] = hs[i + 1]
        BY <1>3, <3>1, <4>1
      <4> QED
        BY <1>5, <3>2, <4>1, <4>3, <4>4
    <3>4. CASE i = q - 1
      <4>1. Skip(i) = i /\ Skip(i + 1) = (i + 1) + 1 /\ q > 0 /\ i + 1 = q
        BY <1>1, <1>2, <3>4
      <4>2. hs[i] # hs[q]
        BY <1>4, <3>1, <3>4, <1>2
      <4>3. nxt2[hs[i]] = nxt[hs[q]]
        BY <1>0, <1>1, <3>1, <3>4, <4>1, <4>2
      <4>4. nxt[hs[q]] = IF q = m - 1 THEN NULL ELSE hs[q + 1]
        BY <1>3
      <4>5. (i = (m - 1) - 1) <=> (q = m - 1)
        BY <1>1, <1>2, <3>4
      <4> QED
        BY <1>5, <3>2, <4>1, <4>3, <4>4, <4>5
    <3>5. CASE i > q - 1
      <4>1. Skip(i) = i + 1 /\ Skip(i + 1) = (i + 1) + 1 /\ i + 1 # q
        BY <1>1, <1>2, <3>5
      <4>2. hs[i + 1] # hs[q] /\ (q > 0 => hs[i + 1] # hs[q - 1])
        <5>1. q > 0 => q - 1 \in 0 .. m - 1 /\ i + 1 # q - 1
          BY <1>1, <3>5
        <5> QED
          BY <1>4, <3>1, <5>1, <4>1
      <4>3. nxt2[hs[i + 1]] = nxt[hs[i + 1]]
        BY <1>0, <1>1, <3>1, <4>2
      <4>4. nxt[hs[i + 1]] = IF i + 1 = m - 1 THEN NULL ELSE hs[(i + 1) + 1]
        BY <1>3, <3>1
      <4>5. (i = (m - 1) - 1) <=> (i + 1 = m - 1)
        BY <1>0, <1>1, <1>2, <3>1
      <4> QED
        BY <1>5, <3>2, <4>1, <4>3, <4>4, <4>5
    <3> QED
      BY <1>2, <3>1, <3>3, <3>4, <3>5
  <2> QED
    BY <2>1, <2>2, <2>3 DEF Linked
<1>7. Linked(nxt2, hs[q], fs2, c + 1)
  <2>1. c + 1 \in Nat /\ fs2 \in [0 .. (c + 1) - 1 -> WP]
    BY <1>1, <1>2
  <2>2. hs[q] = IF c + 1 = 0 THEN NULL ELSE fs2[0]
    BY <1>1
  <2>3. ASSUME NEW i \in 0 .. (c + 1) - 1
        PROVE nxt2[fs2[i]] = IF i = (c + 1) - 1 THEN NULL ELSE fs2[i + 1]
    <3>1. CASE i = 0
      <4>1. fs2[i] = hs[q] /\ nxt2[hs[q]] = f
        BY <1>0, <1>1, <1>2, <3>1
      <4>2. c # 0 => i + 1 \in 0 .. (c + 1) - 1 /\ fs2[i + 1] = fs[0]
        BY <1>1, <3>1
      <4> QED
        BY <1>1, <1>3, <3>1, <4>1, <4>2
    <3>2. CASE i # 0
      <4>1. i - 1 \in 0 .. c - 1 /\ fs2[i] = fs[i - 1] /\ fs[i - 1] \in WP
        BY <1>1, <3>2
      <4>2. fs[i - 1] # hs[q] /\ (q > 0 => fs[i - 1] # hs[q - 1])
        <5>1. q > 0 => q - 1 \in 0 .. m - 1
          BY <1>1
        <5> QED
          BY <1>4, <4>1, <5>1
      <4>3. nxt2[fs[i - 1]] = nxt[fs[i - 1]]
        BY <1>0, <4>1, <4>2
      <4>4. nxt[fs[i - 1]] = IF i - 1 = c - 1 THEN NULL ELSE fs[(i - 1) + 1]
        BY <1>3, <4>1
      <4>5. i # c => i + 1 \in 0 .. (c + 1) - 1 /\ fs2[i + 1] = fs[(i - 1) + 1]
        BY <1>1, <3>2
      <4> QED
        BY <1>1, <4>1, <4>3, <4>4, <4>5
    <3> QED
      BY <3>1, <3>2
  <2> QED
    BY <2>1, <2>2, <2>3 DEF Linked
<1>8. Partition(nxt2, h2, hs[q], hs2, m - 1, fs2, c + 1)
  <2>1. (m - 1) + (c + 1) = NR_WP
    BY <1>1
  <2>2. ASSUME NEW i \in 0 .. (m - 1) - 1, NEW j \in 0 .. (m - 1) - 1, hs2[i] = hs2[j] PROVE i = j
    <3>1. Skip(i) = Skip(j)
      <4> HIDE DEF Skip, hs2
      <4> QED
        BY <1>4, <1>5, <2>2
    <3>2. i \in Int /\ j \in Int /\ q \in Int
      BY <1>1, <1>2
    <3> QED
      BY <3>1, <3>2
  <2>3. ASSUME NEW i \in 0 .. (c + 1) - 1, NEW j \in 0 .. (c + 1) - 1, fs2[i] = fs2[j] PROVE i = j
    <3>1. \A k \in 0 .. (c + 1) - 1 : k # 0 => k - 1 \in 0 .. c - 1 /\ fs2[k] = fs[k - 1] /\ fs[k - 1] # hs[q]
      BY <1>1, <1>4
    <3>2. fs2[0] = hs[q]
      BY <1>1
    <3>3. i # 0 /\ j # 0 => i - 1 = j - 1
      <4> HIDE DEF fs2
      <4> QED
        BY <1>4, <2>3, <3>1
    <3>4. i = 0 <=> j = 0
      <4> HIDE DEF fs2
      <4> QED
        BY <2>3, <3>1, <3>2
    <3> QED
      BY <1>1, <3>3, <3>4
  <2>4. ASSUME NEW i \in 0 .. (m - 1) - 1, NEW j \in 0 .. (c + 1) - 1 PROVE hs2[i] # fs2[j]
    <3>1. CASE j = 0
      BY <1>1, <1>5, <3>1
    <3>2. CASE j # 0
      <4>1. j - 1 \in 0 .. c - 1 /\ fs2[j] = fs[j - 1]
        BY <1>1, <3>2
      <4> HIDE DEF Skip, hs2, fs2
      <4> QED
        BY <1>4, <1>5, <4>1
    <3> QED
      BY <3>1, <3>2
  <2>5. ASSUME NEW w \in WP
        PROVE (\E i \in 0 .. (m - 1) - 1 : w = hs2[i]) \/ (\E j \in 0 .. (c + 1) - 1 : w = fs2[j])
    <3>1. CASE \E i \in 0 .. m - 1 : w = hs[i]
      <4>1. PICK i \in 0 .. m - 1 : w = hs[i]
        BY <3>1
      <4>2. CASE i = q
        <5>1. 0 \in 0 .. (c + 1) - 1 /\ fs2[0] = w
          BY <1>1, <4>1, <4>2
        <5> QED
          BY <5>1
      <4>3. CASE i < q
        <5>1. i \in 0 .. (m - 1) - 1 /\ hs2[i] = w
          BY <1>1, <4>1, <4>3
        <5> QED
          BY <5>1
      <4>4. CASE i > q
        <5>1. i - 1 \in 0 .. (m - 1) - 1 /\ hs2[i - 1] = w
          <6>1. i - 1 \in 0 .. (m - 1) - 1 /\ Skip(i - 1) = i
            BY <1>1, <4>4
          <6> HIDE DEF Skip
          <6> QED
            BY <4>1, <6>1
        <5> QED
          BY <5>1
      <4> QED
        BY <1>2, <4>2, <4>3, <4>4
    <3>2. CASE \E j \in 0 .. c - 1 : w = fs[j]
      <4>1. PICK j \in 0 .. c - 1 : w = fs[j]
        BY <3>2
      <4>2. j + 1 \in 0 .. (c + 1) - 1 /\ fs2[j + 1] = w
        BY <1>1, <4>1
      <4> QED
        BY <4>2
    <3> QED
      BY <1>4, <3>1, <3>2
  <2> HIDE DEF hs2, fs2
  <2> QED
    BY <1>6, <1>7, <2>1, <2>2, <2>3, <2>4, <2>5 DEF Partition
<1>9. Partitioned(nxt2, h2, hs[q])
  <2> HIDE DEF hs2, fs2
  <2> QED
    BY <1>8 DEF Partitioned
<1>10. Nodes(nxt2, h2) = {hs2[i] : i \in 0 .. (m - 1) - 1}
  <2>1. m - 1 <= NR_WP
    BY <1>1
  <2> HIDE DEF hs2
  <2> QED
    BY <1>6, <2>1, NodesLinked
<1>11. Nodes(nxt2, h2) \subseteq Nodes(nxt, h) \ {hs[q]}
  <2> HIDE DEF hs2, Skip
  <2> QED
    BY <1>1, <1>5, <1>10
<1> QED
  BY <1>9, <1>11

(* The command w.                                                          *)
LEMMA WpNew == ASSUME NEW x \in Exprs, WpInv, new_wp(x) PROVE WpInv'
<1>1. PICK hs, m, fs, c : Partition(next, head, free_, hs, m, fs, c)
  BY DEF WpInv, Partitioned
<1>2. /\ m \in Nat /\ hs \in [0 .. m - 1 -> WP] /\ NULL \notin WP
      /\ Nodes(next, head) = {hs[i] : i \in 0 .. m - 1} /\ Nodes(next, head) \subseteq WP
  BY <1>1, ListsOf
<1>3. /\ next \in [WP -> Ptr] /\ e \in [WP -> Exprs \cup {NoExpr}] /\ value \in [WP -> Values]
      /\ free_ \in WP /\ head \in Ptr /\ env \in [Exprs -> Values] /\ free_ # NULL
  BY DEF WpInv, WpTypeOK, new_wp, Ptr
<1>4. (head = NULL) <=> (m = 0)
  <2>1. head = IF m = 0 THEN NULL ELSE hs[0]
    BY <1>1 DEF Partition, Linked
  <2>2. m # 0 => 0 \in 0 .. m - 1
    BY <1>2
  <2> QED
    BY <1>2, <2>1, <2>2
<1>5. next' = [w \in WP |-> IF w = free_ THEN NULL ELSE IF m > 0 /\ w = hs[m - 1] THEN free_ ELSE next[w]]
  <2>1. CASE m = 0
    <3>1. next' = [next EXCEPT ![free_] = NULL]
      BY <1>4, <2>1 DEF new_wp
    <3>2. ~(m > 0)
      BY <2>1
    <3> QED
      BY <1>3, <3>1, <3>2
  <2>2. CASE m # 0
    <3> DEFINE tail == CHOOSE p \in Nodes(next, head) : next[p] = NULL
    <3>1. m - 1 \in 0 .. m - 1 /\ hs[m - 1] \in Nodes(next, head) /\ m > 0
      BY <1>2, <2>2
    <3>2. next[hs[m - 1]] = NULL
      BY <1>1, <3>1 DEF Partition, Linked
    <3>3. tail \in Nodes(next, head) /\ next[tail] = NULL
      BY <3>1, <3>2
    <3>4. next' = [[next EXCEPT ![free_] = NULL] EXCEPT ![tail] = free_]
      BY <1>4, <2>2 DEF new_wp
    <3> HIDE DEF tail
    <3>5. PICK i \in 0 .. m - 1 : tail = hs[i]
      BY <1>2, <3>3
    <3>6. next[hs[i]] = IF i = m - 1 THEN NULL ELSE hs[i + 1]
      BY <1>1, <3>5 DEF Partition, Linked
    <3>7. i # m - 1 => i + 1 \in 0 .. m - 1
      BY <1>2
    <3>8. i = m - 1
      BY <1>2, <3>3, <3>5, <3>6, <3>7
    <3>9. hs[m - 1] # free_ /\ hs[m - 1] \in WP
      <4>1. c \in Nat /\ free_ = IF c = 0 THEN NULL ELSE fs[0]
        BY <1>1 DEF Partition, Linked
      <4>2. free_ = fs[0] /\ 0 \in 0 .. c - 1
        BY <4>1, <1>3
      <4> QED
        BY <1>1, <1>2, <3>1, <4>2 DEF Partition
    <3> QED
      BY <1>3, <3>1, <3>4, <3>5, <3>8, <3>9
  <2> QED
    BY <2>1, <2>2
<1>6. head' = IF m = 0 THEN free_ ELSE head
  BY <1>4 DEF new_wp
<1>7. free_' = next[free_] /\ e' = [e EXCEPT ![free_] = x] /\ value' = [value EXCEPT ![free_] = env[x]]
      /\ env' = env /\ sdb_state' = sdb_state
  BY DEF new_wp
<1>8. /\ Partitioned(next', head', free_') /\ Nodes(next', head') = Nodes(next, head) \cup {free_}
      /\ free_ \notin Nodes(next, head)
  <2>1. /\ Partitioned(next', head', next[free_]) /\ Nodes(next', head') = Nodes(next, head) \cup {free_}
        /\ free_ \notin Nodes(next, head)
    <3>1. Appends(next, head, free_, hs, m, next', head')
      BY <1>5, <1>6 DEF Appends
    <3> QED
      BY <1>1, <1>3, <3>1, Appended, SMTT(30)
  <2> QED
    BY <1>7, <2>1
<1>9. WpTypeOK'
  <2>1. next' \in [WP -> Ptr]
    BY <1>3, <1>5 DEF Ptr
  <2>2. head' \in Ptr /\ free_' \in Ptr
    BY <1>3, <1>6, <1>7 DEF Ptr
  <2>3. e' \in [WP -> Exprs \cup {NoExpr}] /\ value' \in [WP -> Values]
    BY <1>3, <1>7
  <2> QED
    BY <1>7, <2>1, <2>2, <2>3 DEF WpTypeOK, WpInv
<1>10. Watching'
  <2> SUFFICES ASSUME NEW w \in Nodes(next', head') PROVE e'[w] \in Exprs /\ value'[w] = env'[e'[w]]
    BY DEF Watching
  <2>1. CASE w = free_
    BY <1>3, <1>7, <2>1
  <2>2. CASE w # free_
    <3>1. w \in Nodes(next, head) /\ w \in WP
      BY <1>2, <1>8, <2>2
    <3>2. e[w] \in Exprs /\ value[w] = env[e[w]]
      BY <3>1 DEF WpInv, Watching
    <3> QED
      BY <1>3, <1>7, <2>2, <3>1, <3>2
  <2> QED
    BY <2>1, <2>2
<1> QED
  BY <1>8, <1>9, <1>10 DEF WpInv

(* The command d.                                                          *)
LEMMA WpDelete == ASSUME NEW wp \in WP, WpInv, cmd_d(wp) PROVE WpInv'
<1>1. CASE wp \notin Nodes(next, head)
  BY <1>1 DEF cmd_d, pool, WpInv, WpTypeOK, Watching
<1>2. CASE wp \in Nodes(next, head)
  <2>0. free_wp(wp) /\ env' = env /\ sdb_state' = sdb_state
    BY <1>2 DEF cmd_d
  <2>1. PICK hs, m, fs, c : Partition(next, head, free_, hs, m, fs, c)
    BY DEF WpInv, Partitioned
  <2>2. /\ m \in Nat /\ hs \in [0 .. m - 1 -> WP] /\ NULL \notin WP
        /\ Nodes(next, head) = {hs[i] : i \in 0 .. m - 1} /\ Nodes(next, head) \subseteq WP
    BY <2>1, ListsOf
  <2>3. /\ next \in [WP -> Ptr] /\ e \in [WP -> Exprs \cup {NoExpr}] /\ value \in [WP -> Values]
        /\ free_ \in Ptr /\ head \in Ptr
    BY DEF WpInv, WpTypeOK
  <2>4. PICK q \in 0 .. m - 1 : wp = hs[q]
    BY <1>2, <2>2
  <2>5. /\ head = hs[0] /\ 0 \in 0 .. m - 1
        /\ \A i \in 0 .. m - 1 : next[hs[i]] = IF i = m - 1 THEN NULL ELSE hs[i + 1]
        /\ \A i, j \in 0 .. m - 1 : hs[i] = hs[j] => i = j
    <3>1. m # 0 /\ 0 \in 0 .. m - 1
      BY <2>2
    <3> QED
      BY <2>1, <3>1 DEF Partition, Linked
  <2>6. (wp = head) <=> (q = 0)
    BY <2>4, <2>5
  <2>7. next' = [w \in WP |-> IF w = hs[q] THEN free_ ELSE IF q > 0 /\ w = hs[q - 1] THEN next[hs[q]] ELSE next[w]]
    <3>1. CASE q = 0
      <4>1. next' = [next EXCEPT ![wp] = free_]
        BY <2>0, <2>6, <3>1 DEF free_wp
      <4>2. ~(q > 0)
        BY <3>1
      <4> QED
        BY <2>3, <2>4, <4>1, <4>2
    <3>2. CASE q # 0
      <4> DEFINE prev == CHOOSE p \in Nodes(next, head) : next[p] = wp
      <4>1. q - 1 \in 0 .. m - 1 /\ hs[q - 1] \in Nodes(next, head) /\ q > 0 /\ q - 1 # m - 1 /\ (q - 1) + 1 = q
        BY <2>2, <3>2
      <4>2. next[hs[q - 1]] = wp
        BY <2>4, <2>5, <4>1
      <4>3. prev \in Nodes(next, head) /\ next[prev] = wp
        BY <4>1, <4>2
      <4>4. next' = [next EXCEPT ![prev] = next[wp], ![wp] = free_]
        BY <2>0, <2>6, <3>2 DEF free_wp
      <4> HIDE DEF prev
      <4>5. PICK i \in 0 .. m - 1 : prev = hs[i]
        BY <2>2, <4>3
      <4>6. next[hs[i]] = IF i = m - 1 THEN NULL ELSE hs[i + 1]
        BY <2>5, <4>5
      <4>7. i # m - 1 => i + 1 \in 0 .. m - 1
        BY <2>2
      <4>8. i = q - 1
        <5>1. wp \in WP /\ i # m - 1
          BY <2>2, <4>3, <4>5, <4>6, SMTT(60)
        <5>2. i + 1 = q
          BY <2>4, <2>5, <4>3, <4>5, <4>6, <4>7, <5>1
        <5> QED
          BY <5>2, <2>2
      <4>9. hs[q - 1] # wp /\ hs[q - 1] \in WP
        <5>1. q - 1 # q
          BY <2>2
        <5> QED
          BY <2>2, <2>4, <2>5, <4>1, <5>1
      <4> QED
        BY <2>3, <2>4, <4>1, <4>4, <4>5, <4>8, <4>9
    <3> QED
      BY <3>1, <3>2
  <2>8. head' = IF q = 0 THEN next[hs[q]] ELSE head
    BY <2>0, <2>4, <2>6 DEF free_wp
  <2>9. free_' = wp /\ value' = [value EXCEPT ![wp] = 0] /\ e' = [e EXCEPT ![wp] = NoExpr]
    BY <2>0 DEF free_wp
  <2>10. Partitioned(next', head', free_') /\ Nodes(next', head') \subseteq Nodes(next, head) \ {wp}
    <3>1. Partitioned(next', head', hs[q]) /\ Nodes(next', head') \subseteq Nodes(next, head) \ {hs[q]}
      <4>1. Removes(next, head, free_, hs, q, next', head')
        BY <2>7, <2>8 DEF Removes
      <4> QED
        BY <2>1, <2>3, <4>1, Removed
    <3> QED
      BY <2>4, <2>9, <3>1
  <2>11. WpTypeOK'
    <3>0. hs[q] \in WP
      BY <2>2
    <3>1. next' \in [WP -> Ptr]
      BY <2>3, <2>7, <3>0 DEF Ptr
    <3>2. head' \in Ptr /\ free_' \in Ptr
      BY <2>3, <2>8, <2>9, <3>0 DEF Ptr
    <3>3. e' \in [WP -> Exprs \cup {NoExpr}] /\ value' \in [WP -> Values]
      BY <2>3, <2>9, PoolAssumption
    <3> QED
      BY <2>0, <3>1, <3>2, <3>3 DEF WpTypeOK, WpInv
  <2>12. Watching'
    <3> SUFFICES ASSUME NEW w \in Nodes(next', head') PROVE e'[w] \in Exprs /\ value'[w] = env'[e'[w]]
      BY DEF Watching
    <3>1. w \in Nodes(next, head) /\ w \in WP /\ w # wp
      BY <2>2, <2>10
    <3>2. e[w] \in Exprs /\ value[w] = env[e[w]]
      BY <3>1 DEF WpInv, Watching
    <3> QED
      BY <2>0, <2>3, <2>9, <3>1, <3>2
  <2> QED
    BY <2>10, <2>11, <2>12 DEF WpInv
<1> QED
  BY <1>1, <1>2

(* An instruction of the guest: all active watchpoints are compared, and   *)
(* the run goes on only if none has changed.                               *)
LEMMA WpExec ==
  ASSUME NEW now \in [Exprs -> Values], NEW ends \in BOOLEAN, WpInv, sdb_exec_once(now, ends)
  PROVE  /\ WpInv'
         /\ sdb_state' = "RUNNING" => \A w \in Nodes(next, head) : env'[e[w]] = env[e[w]]
<1>1. /\ next' = next /\ e' = e /\ head' = head /\ free_' = free_ /\ env' = now
      /\ value' = [w \in WP |-> IF w \in Nodes(next, head) THEN now[e[w]] ELSE value[w]]
      /\ sdb_state' = IF ends THEN "END" ELSE IF Changed(now) THEN "STOP" ELSE "RUNNING"
  BY DEF sdb_exec_once, check_wp
<1>2. \A w \in Nodes(next, head) : w \in WP /\ e[w] \in Exprs /\ value[w] = env[e[w]]
  <2>1. Nodes(next, head) \subseteq WP
    BY ListsOf DEF WpInv, Partitioned
  <2> QED
    BY <2>1 DEF WpInv, Watching
<1>3. value' \in [WP -> Values]
  BY <1>1, <1>2 DEF WpInv, WpTypeOK
<1>4. WpTypeOK'
  <2>1. sdb_state' \in {"STOP", "RUNNING", "END", "DEAD"}
    BY <1>1, Zenon
  <2> QED
    BY <1>1, <1>3, <2>1 DEF WpInv, WpTypeOK
<1>5. Watching'
  <2>1. Nodes(next', head') = Nodes(next, head)
    BY <1>1
  <2> QED
    BY <1>1, <1>2, <2>1 DEF Watching
<1>6. ASSUME sdb_state' = "RUNNING", NEW w \in Nodes(next, head) PROVE env'[e[w]] = env[e[w]]
  <2>1. ~Changed(now)
    BY <1>1, <1>6
  <2>2. now[e[w]] = value[w]
    BY <2>1 DEF Changed
  <2> QED
    BY <1>1, <1>2, <2>2
<1> QED
  BY <1>1, <1>4, <1>5, <1>6 DEF WpInv

(* The other commands leave the pool alone.                                *)
LEMMA WpOther ==
  ASSUME WpInv, UNCHANGED <<pool, env>>, sdb_state' \in {"STOP", "RUNNING", "DEAD"} \/ sdb_state' = sdb_state
  PROVE  WpInv'
BY DEF pool, WpInv, WpTypeOK, Watching

(* Every step keeps the invariant, and one after which NEMU still runs has *)
(* changed no watched expression.                                          *)
LEMMA WpStep ==
  ASSUME WpInv, [WpNext]_wpVars
  PROVE  /\ WpInv'
         /\ sdb_state = "RUNNING" /\ sdb_state' = "RUNNING" =>
              \A w \in Nodes(next, head) : env'[e[w]] = env[e[w]]
<1>1. CASE \E x \in Exprs : new_wp(x)
  BY <1>1, WpNew DEF new_wp
<1>2. CASE \E x \in Exprs \cup BadExprs : new_wp_asserts(x)
  BY <1>2, WpOther DEF new_wp_asserts
<1>3. CASE \E wp \in WP : cmd_d(wp)
  BY <1>3, WpDelete DEF cmd_d
<1>4. CASE sdb_cpu_exec
  BY <1>4, WpOther DEF sdb_cpu_exec
<1>5. CASE \E now \in [Exprs -> Values], ends \in BOOLEAN : sdb_exec_once(now, ends)
  BY <1>5, WpExec
<1>6. CASE budget_spent
  BY <1>6, WpOther DEF budget_spent
<1>7. CASE UNCHANGED wpVars
  BY <1>7, WpOther DEF wpVars, pool
<1> QED
  BY <1>1, <1>2, <1>3, <1>4, <1>5, <1>6, <1>7 DEF WpNext

(* Whatever the commands and their order, no node is lost, put on both     *)
(* lists or linked into a cycle, and both lists end in NULL                *)
(* (watchpoint.c), for every size of the pool.                             *)
THEOREM PoolNeverBroken == WpSpec => []ListsPartitionPool
<1>1. WpInv => ListsPartitionPool
  BY PoolPartition DEF WpInv
<1> QED
  BY <1>1, WpStarts, WpStep, PTL DEF WpSpec

(* A run that goes on has changed no watched expression: no change of one  *)
(* goes unreported, whichever watchpoints were set and deleted before      *)
(* (watchpoint.c, cpu-exec.c).                                             *)
THEOREM WatchpointsCatch == WpSpec => NoMissedHit
<1>1. ASSUME WpInv, [WpNext]_wpVars
      PROVE [sdb_state = "RUNNING" /\ sdb_state' = "RUNNING" =>
               \A w \in Nodes(next, head) : env'[e[w]] = env[e[w]]]_wpVars
  BY <1>1, WpStep
<1> QED
  BY <1>1, WpStarts, WpStep, PTL DEF WpSpec, NoMissedHit

-----------------------------------------------------------------------------
(* The ring of the last instructions.                                      *)

(* Quotient and remainder by name, as the lemmas need them.                *)
Quo(x, d) == x \div d
Rem(x, d) == x % d

(* Division with remainder.                                                *)
LEMMA Euclid ==
  ASSUME NEW d \in Nat \ {0}, NEW x \in Int
  PROVE  Quo(x, d) \in Int /\ Rem(x, d) \in 0 .. d - 1 /\ x = Quo(x, d) * d + Rem(x, d)
BY DEF Quo, Rem

(* q and r are a quotient and a remainder of x by d.                       *)
Divides(x, d, q, r) == x = q * d + r

(* Quotient and remainder are unique.                                      *)
LEMMA DivUnique ==
  ASSUME NEW d \in Nat \ {0}, NEW q \in Int, NEW r \in 0 .. d - 1, NEW x \in Int, Divides(x, d, q, r)
  PROVE  Quo(x, d) = q /\ Rem(x, d) = r
<1> DEFINE p == Quo(x, d)
           k == q - p
<1>1. p \in Int /\ Rem(x, d) \in 0 .. d - 1 /\ x = p * d + Rem(x, d)
  BY Euclid
<1> HIDE DEF p
<1>2. d * k = Rem(x, d) - r
  BY <1>1 DEF Divides
<1>3. k \in Int /\ -d < d * k /\ d * k < d
  BY <1>1, <1>2
<1> HIDE DEF k
<1>4. k = 0
  BY <1>3
<1>5. q = p
  BY <1>1, <1>4 DEF k
<1>6. Rem(x, d) = r
  BY <1>1, <1>2, <1>4
<1> QED
  BY <1>5, <1>6 DEF p

(* The parameters are positive, and the ring holds a whole number of       *)
(* instructions.                                                           *)
LEMMA RingParameters ==
  /\ Inst # {} /\ IlenBytes \in Nat \ {0} /\ RbSize \in Nat \ {0} /\ CounterMod \in Nat \ {0} /\ MaxSteps \in Nat \ {0}
  /\ Capacity \in Nat \ {0} /\ RbSize = Capacity * IlenBytes
  /\ CounterMod > RbSize /\ Rem(CounterMod, RbSize) = 0
<1>1. /\ Inst # {} /\ IlenBytes \in Nat \ {0} /\ RbSize \in Nat \ {0} /\ CounterMod \in Nat \ {0} /\ MaxSteps \in Nat \ {0}
      /\ CounterMod > RbSize
  BY CpuExecAssumption
<1>2. Rem(CounterMod, RbSize) = 0 /\ Rem(RbSize, IlenBytes) = 0 /\ Capacity = Quo(RbSize, IlenBytes)
  BY CpuExecAssumption, Zenon DEF Rem, Quo, Capacity
<1>3. Capacity \in Int /\ RbSize = Capacity * IlenBytes + 0
  BY <1>1, <1>2, Euclid
<1>4. Capacity > 0
  BY <1>1, <1>3
<1> QED
  BY <1>1, <1>2, <1>3, <1>4

(* The values of the counters in and out.                                  *)
Counter == 0 .. CounterMod - 1

(* A counter that is advanced wraps around at most once.                   *)
LEMMA CounterAdd ==
  ASSUME NEW a \in Counter, NEW x \in 0 .. RbSize
  PROVE  (a + x) % CounterMod = IF a + x < CounterMod THEN a + x ELSE a + x - CounterMod
<1>1. CounterMod \in Nat \ {0} /\ RbSize \in Nat /\ RbSize < CounterMod /\ a \in Nat /\ x \in Nat /\ a < CounterMod
  BY RingParameters DEF Counter
<1>2. Rem(a + x, CounterMod) = IF a + x < CounterMod THEN a + x ELSE a + x - CounterMod
  <2>1. CASE a + x < CounterMod
    <3>1. Divides(a + x, CounterMod, 0, a + x) /\ a + x \in 0 .. CounterMod - 1
      BY <1>1, <2>1 DEF Divides
    <3>2. a + x \in Int
      BY <1>1
    <3> QED
      BY <1>1, <2>1, <3>1, <3>2, DivUnique
  <2>2. CASE ~(a + x < CounterMod)
    <3>1. Divides(a + x, CounterMod, 1, a + x - CounterMod) /\ a + x - CounterMod \in 0 .. CounterMod - 1
      BY <1>1, <2>2 DEF Divides
    <3>2. a + x \in Int
      BY <1>1
    <3> QED
      BY <1>1, <2>2, <3>1, <3>2, DivUnique
  <2> QED
    BY <2>1, <2>2
<1> QED
  BY <1>2 DEF Rem

(* The difference of two counters.                                         *)
LEMMA CounterSub ==
  ASSUME NEW a \in Counter, NEW b \in Counter
  PROVE  (a - b) % CounterMod = IF a >= b THEN a - b ELSE a - b + CounterMod
<1>1. CounterMod \in Nat \ {0} /\ a \in Nat /\ b \in Nat /\ a < CounterMod /\ b < CounterMod
  BY RingParameters DEF Counter
<1>2. Rem(a - b, CounterMod) = IF a >= b THEN a - b ELSE a - b + CounterMod
  <2>1. CASE a >= b
    <3>1. Divides(a - b, CounterMod, 0, a - b) /\ a - b \in 0 .. CounterMod - 1
      BY <1>1, <2>1 DEF Divides
    <3>2. a - b \in Int /\ -1 \in Int
      BY <1>1
    <3> QED
      BY <1>1, <2>1, <3>1, <3>2, DivUnique
  <2>2. CASE ~(a >= b)
    <3>1. Divides(a - b, CounterMod, -1, a - b + CounterMod) /\ a - b + CounterMod \in 0 .. CounterMod - 1
      BY <1>1, <2>2 DEF Divides
    <3>2. a - b \in Int /\ -1 \in Int
      BY <1>1
    <3> QED
      BY <1>1, <2>2, <3>1, <3>2, DivUnique
  <2> QED
    BY <2>1, <2>2
<1> QED
  BY <1>2 DEF Rem

(* An index that has run past the end of the buffer continues at its       *)
(* beginning.                                                              *)
Wrapped(x, size) == IF x < size THEN x ELSE x - size

(* The place in the buffer of the byte x places after counter c.           *)
Slot(c, x) == Wrapped((c % RbSize) + x, RbSize)

(* Advancing a counter advances its place, also when the counter           *)
(* overflows: 2^32 is a multiple of the size.                              *)
LEMMA SlotMoves ==
  ASSUME NEW a \in Counter, NEW x \in 0 .. RbSize
  PROVE  /\ a % RbSize \in 0 .. RbSize - 1
         /\ ((a + x) % CounterMod) % RbSize = Slot(a, x)
<1>1. /\ CounterMod \in Nat \ {0} /\ RbSize \in Nat \ {0} /\ RbSize < CounterMod /\ a \in Nat /\ x \in Nat /\ a < CounterMod
      /\ x <= RbSize
  BY RingParameters DEF Counter
<1> DEFINE q == Quo(a, RbSize)
           r == Rem(a, RbSize)
           c == Quo(CounterMod, RbSize)
           y == IF r + x < RbSize THEN r + x ELSE r + x - RbSize
           p == IF r + x < RbSize THEN q ELSE q + 1
           z == IF a + x < CounterMod THEN a + x ELSE a + x - CounterMod
<1>2. q \in Int /\ r \in 0 .. RbSize - 1 /\ a = q * RbSize + r /\ c \in Int /\ CounterMod = c * RbSize
  <2>1. CounterMod = c * RbSize + Rem(CounterMod, RbSize) /\ c \in Int
    BY <1>1, Euclid
  <2>2. c * RbSize \in Int
    BY <1>1, <2>1
  <2> HIDE DEF c
  <2>3. CounterMod = c * RbSize
    BY <2>1, <2>2, RingParameters
  <2> QED
    BY <1>1, <2>1, <2>3, Euclid
<1> HIDE DEF q, r, c
<1>3. y \in 0 .. RbSize - 1 /\ p \in Int /\ a + x = p * RbSize + y
  <2>1. CASE r + x < RbSize
    BY <1>1, <1>2, <2>1
  <2>2. CASE ~(r + x < RbSize)
    <3>1. (q + 1) * RbSize = q * RbSize + RbSize
      BY <1>1, <1>2
    <3>2. q * RbSize \in Int
      BY <1>1, <1>2
    <3> QED
      BY <1>1, <1>2, <2>2, <3>1, <3>2
  <2> QED
    BY <2>1, <2>2
<1>4. (a + x) % CounterMod = z
  BY CounterAdd
<1> HIDE DEF y, p
<1>5. z \in Int /\ \E k \in Int : Divides(z, RbSize, k, y)
  <2>1. CASE a + x < CounterMod
    <3>1. Divides(z, RbSize, p, y) /\ z \in Int
      BY <1>1, <1>3, <2>1 DEF Divides
    <3> QED
      BY <1>3, <3>1
  <2>2. CASE ~(a + x < CounterMod)
    <3>1. (p - c) * RbSize = p * RbSize - c * RbSize
      BY <1>1, <1>2, <1>3
    <3>2. p * RbSize \in Int /\ c * RbSize \in Int
      BY <1>1, <1>2, <1>3
    <3>3. z = (p - c) * RbSize + y /\ p - c \in Int
      BY <1>1, <1>2, <1>3, <2>2, <3>1, <3>2
    <3>4. Divides(z, RbSize, p - c, y)
      BY <3>3 DEF Divides
    <3>5. z \in Int
      BY <1>1, <2>2
    <3> HIDE DEF z
    <3> QED
      BY <3>3, <3>4, <3>5
  <2> QED
    BY <2>1, <2>2
<1> HIDE DEF z
<1>6. Rem(z, RbSize) = y
  BY <1>1, <1>3, <1>5, DivUnique
<1>7. z % RbSize = y
  BY <1>6, Zenon DEF Rem
<1>8. a % RbSize = r
  BY Zenon DEF r, Rem
<1>9. y = Slot(a, x)
  <2>1. y = Wrapped(r + x, RbSize)
    BY <1>1, <1>2 DEF y, Wrapped
  <2> QED
    BY <1>8, <2>1 DEF Slot
<1> QED
  BY <1>2, <1>4, <1>7, <1>8, <1>9

(* The place x + y bytes on is y bytes on from the place x bytes on.       *)
LEMMA SlotSlot ==
  ASSUME NEW a \in Counter, NEW x \in 0 .. RbSize, NEW y \in Nat, x + y < RbSize
  PROVE  Slot((a + x) % CounterMod, y) = Slot(a, x + y)
<1>1. RbSize \in Nat \ {0}
  BY RingParameters
<1> DEFINE at == a % RbSize
           b == (a + x) % CounterMod
           bt == b % RbSize
<1>2. at \in 0 .. RbSize - 1 /\ bt = Slot(a, x)
  BY SlotMoves
<1>3. \A z \in Int : Slot(a, z) = Wrapped(at + z, RbSize)
  BY DEF Slot
<1>4. Slot(b, y) = Wrapped(bt + y, RbSize)
  BY DEF Slot
<1> HIDE DEF at, b, bt
<1>5. bt = Wrapped(at + x, RbSize)
  BY <1>1, <1>2, <1>3
<1>6. Slot(a, x + y) = Wrapped(at + (x + y), RbSize)
  BY <1>1, <1>3
<1>7. Slot(b, y) = Slot(a, x + y)
  BY <1>1, <1>2, <1>4, <1>5, <1>6 DEF Wrapped
<1> QED
  BY <1>7 DEF b

(* The ring r holds the instructions s, oldest first, byte for byte.       *)
Holds(r, s) ==
  /\ r.buffer \in [0 .. RbSize - 1 -> Inst \X (1 .. IlenBytes)] /\ r.in \in Counter /\ r.out \in Counter
  /\ s \in Seq(Inst) /\ Len(s) <= Capacity
  /\ RingBuffer_Len(r) = Len(s) * IlenBytes
  /\ \A i \in 1 .. Len(s), j \in 1 .. IlenBytes :
       r.buffer[Slot(r.out, (i - 1) * IlenBytes + (j - 1))] = <<s[i], j>>

(* A product grows with its first factor.                                  *)
LEMMA Fits ==
  ASSUME NEW k \in Nat, NEW c \in Nat, k <= c, NEW d \in Nat
  PROVE  k * d \in Nat /\ k * d <= c * d
OBVIOUS

(* The bytes of instruction i lie among those of m instructions.           *)
LEMMA Within ==
  ASSUME NEW m \in Nat, NEW i \in 1 .. m, NEW j \in 1 .. IlenBytes
  PROVE  /\ (i - 1) * IlenBytes + (j - 1) \in Nat
         /\ (i - 1) * IlenBytes + (j - 1) < m * IlenBytes
         /\ (i - 1) * IlenBytes + (j - 1) = i * IlenBytes - IlenBytes + (j - 1)
         /\ i * IlenBytes \in Nat /\ i * IlenBytes <= m * IlenBytes /\ m * IlenBytes \in Nat
<1>1. IlenBytes \in Nat \ {0} /\ i - 1 \in Nat /\ i \in Nat /\ i <= m
  BY RingParameters
<1>2. (i - 1) * IlenBytes = i * IlenBytes - IlenBytes /\ (i - 1) * IlenBytes \in Nat
  BY <1>1
<1>3. i * IlenBytes \in Nat /\ i * IlenBytes <= m * IlenBytes /\ m * IlenBytes \in Nat
  BY <1>1, Fits
<1> QED
  BY <1>1, <1>2, <1>3

(* The length of a ring that holds s.                                      *)
LEMMA RingLength ==
  ASSUME NEW r, NEW s, Holds(r, s)
  PROVE  /\ Len(s) \in Nat /\ Len(s) * IlenBytes \in 0 .. RbSize
         /\ r.in \in Counter /\ r.out \in Counter
         /\ Len(s) * IlenBytes = IF r.in >= r.out THEN r.in - r.out ELSE r.in - r.out + CounterMod
         /\ RingBuffer_Len(r) = Len(s) * IlenBytes
<1>1. s \in Seq(Inst) /\ Len(s) <= Capacity /\ r.in \in Counter /\ r.out \in Counter
  BY DEF Holds
<1>2. Capacity \in Nat /\ IlenBytes \in Nat /\ RbSize = Capacity * IlenBytes /\ Len(s) \in Nat /\ RbSize \in Nat
  BY <1>1, RingParameters
<1>3. Len(s) * IlenBytes \in Nat /\ Len(s) * IlenBytes <= Capacity * IlenBytes
  BY <1>1, <1>2, Fits
<1>4. RingBuffer_Len(r) = IF r.in >= r.out THEN r.in - r.out ELSE r.in - r.out + CounterMod
  BY <1>1, CounterSub DEF RingBuffer_Len
<1>5. RingBuffer_Len(r) = Len(s) * IlenBytes
  BY DEF Holds
<1> QED
  BY <1>1, <1>2, <1>3, <1>4, <1>5

(* RingBuffer_Out takes the oldest instruction from the ring, and          *)
(* RingBuffer_Read reads it.                                               *)
LEMMA RingOut ==
  ASSUME NEW r, NEW s, Holds(r, s), s # << >>, r = [buffer |-> r.buffer, in |-> r.in, out |-> r.out]
  PROVE  /\ Holds(RingBuffer_Out(r, IlenBytes), Tail(s))
         /\ WordOf(RingBuffer_Read(r, IlenBytes)) = s[1]
         /\ RingBuffer_Out(r, IlenBytes) = [buffer |-> r.buffer, in |-> r.in, out |-> (r.out + IlenBytes) % CounterMod]
<1> DEFINE L == Len(s) * IlenBytes
           out2 == (r.out + IlenBytes) % CounterMod
           r2 == [buffer |-> r.buffer, in |-> r.in, out |-> out2]
<1>1. /\ Len(s) \in Nat /\ L \in 0 .. RbSize /\ r.in \in Counter /\ r.out \in Counter
      /\ L = IF r.in >= r.out THEN r.in - r.out ELSE r.in - r.out + CounterMod
      /\ RingBuffer_Len(r) = L
  BY RingLength
<1>2. /\ s \in Seq(Inst) /\ Len(s) >= 1 /\ Tail(s) \in Seq(Inst) /\ Len(Tail(s)) = Len(s) - 1 /\ Len(s) <= Capacity
      /\ \A i \in 1 .. Len(s) - 1 : Tail(s)[i] = s[i + 1]
  BY DEF Holds
<1>3. IlenBytes \in Nat \ {0} /\ RbSize \in Nat \ {0} /\ CounterMod \in Nat \ {0} /\ RbSize < CounterMod /\ Capacity \in Nat
  BY RingParameters
<1>4. L >= IlenBytes /\ IlenBytes \in 0 .. RbSize /\ Len(Tail(s)) * IlenBytes = L - IlenBytes
  <2>1. L >= 1 * IlenBytes
    BY <1>1, <1>2, <1>3, Fits
  <2>2. (Len(s) - 1) * IlenBytes = L - IlenBytes
    BY <1>1, <1>3
  <2> HIDE DEF L
  <2> QED
    BY <1>1, <1>2, <1>3, <2>1, <2>2
<1> HIDE DEF L
<1>5. minimum(IlenBytes, RingBuffer_Len(r)) = IlenBytes
  BY <1>1, <1>3, <1>4 DEF minimum
<1>6. RingBuffer_Out(r, IlenBytes) = r2
  BY <1>5 DEF RingBuffer_Out
<1>7. out2 = IF r.out + IlenBytes < CounterMod THEN r.out + IlenBytes ELSE r.out + IlenBytes - CounterMod
  BY <1>1, <1>4, CounterAdd
<1>a. r.in \in Nat /\ r.out \in Nat /\ r.in < CounterMod /\ r.out < CounterMod
  BY <1>1, <1>3 DEF Counter
<1>8. out2 \in Counter
  <2> HIDE DEF out2
  <2> QED
    BY <1>3, <1>4, <1>7, <1>a DEF Counter
<1>9. RingBuffer_Len(r2) = Len(Tail(s)) * IlenBytes
  <2> HIDE DEF out2
  <2>1. RingBuffer_Len(r2) = IF r.in >= out2 THEN r.in - out2 ELSE r.in - out2 + CounterMod
    BY <1>1, <1>8, CounterSub DEF RingBuffer_Len
  <2> QED
    <3> DEFINE ri == r.in
               ro == r.out
    <3>1. /\ L = IF ri >= ro THEN ri - ro ELSE ri - ro + CounterMod
          /\ out2 = IF ro + IlenBytes < CounterMod THEN ro + IlenBytes ELSE ro + IlenBytes - CounterMod
          /\ RingBuffer_Len(r2) = IF ri >= out2 THEN ri - out2 ELSE ri - out2 + CounterMod
          /\ ri \in Nat /\ ro \in Nat /\ ri < CounterMod /\ ro < CounterMod
      BY <1>1, <1>7, <1>a, <2>1
    <3> HIDE DEF ri, ro
    <3>2. RingBuffer_Len(r2) = L - IlenBytes
      BY <1>3, <1>4, <3>1, SMTT(30)
    <3> QED
      BY <1>4, <3>2
<1>10. ASSUME NEW i \in 1 .. Len(Tail(s)), NEW j \in 1 .. IlenBytes
       PROVE r.buffer[Slot(out2, (i - 1) * IlenBytes + (j - 1))] = <<Tail(s)[i], j>>
  <2> DEFINE y == (i - 1) * IlenBytes + (j - 1)
             x == ((i + 1) - 1) * IlenBytes + (j - 1)
  <2>1. i \in 1 .. Len(s) - 1 /\ i + 1 \in 1 .. Len(s) /\ Tail(s)[i] = s[i + 1]
    BY <1>1, <1>2
  <2>2. r.buffer[Slot(r.out, x)] = <<s[i + 1], j>>
    BY <2>1 DEF Holds
  <2>3. y \in Nat /\ x < L /\ x = IlenBytes + y
    <3>1. x < Len(s) * IlenBytes
      BY <1>1, <2>1, Within
    <3>2. x = IlenBytes + y
      BY <1>3, <2>1, SMTT(30)
    <3>3. y \in Nat
      <4>1. Len(Tail(s)) \in Nat
        BY <1>1, <1>2
      <4> QED
        BY <4>1, Within
    <3> HIDE DEF x, y
    <3> QED
      BY <3>1, <3>2, <3>3 DEF L
  <2> HIDE DEF x, y
  <2>4. IlenBytes + y < RbSize
    BY <1>1, <1>3, <2>3
  <2>5. Slot(out2, y) = Slot(r.out, IlenBytes + y)
    BY <1>1, <1>4, <2>3, <2>4, SlotSlot
  <2> QED
    BY <2>1, <2>2, <2>3, <2>5 DEF y
<1>11. Holds(r2, Tail(s))
  <2> HIDE DEF out2
  <2>1. r.buffer \in [0 .. RbSize - 1 -> Inst \X (1 .. IlenBytes)]
    BY DEF Holds
  <2>2. Len(Tail(s)) <= Capacity
    BY <1>1, <1>2, <1>3
  <2> QED
    BY <1>1, <1>2, <1>8, <1>9, <1>10, <2>1, <2>2 DEF Holds
<1>12. WordOf(RingBuffer_Read(r, IlenBytes)) = s[1]
  <2> DEFINE at == r.out % RbSize
             l == minimum(IlenBytes, RbSize - at)
             bytes == [k \in 1 .. IlenBytes |-> IF k <= l THEN r.buffer[at + k - 1] ELSE r.buffer[k - l - 1]]
  <2>1. at \in 0 .. RbSize - 1
    BY <1>1, <1>3, SlotMoves
  <2>2. RingBuffer_Read(r, IlenBytes) = bytes
    BY <1>5 DEF RingBuffer_Read
  <2>3. Slot(r.out, 0) = Wrapped(at + 0, RbSize)
    BY DEF Slot
  <2>4. 1 \in 1 .. Len(s) /\ 1 \in 1 .. IlenBytes /\ (1 - 1) * IlenBytes + (1 - 1) = 0
    BY <1>1, <1>2, <1>3
  <2>5. r.buffer[Slot(r.out, (1 - 1) * IlenBytes + (1 - 1))] = <<s[1], 1>>
    BY <2>4 DEF Holds
  <2> HIDE DEF at
  <2>6. l >= 1 /\ at + 1 - 1 = at /\ Slot(r.out, 0) = at
    BY <1>3, <2>1, <2>3 DEF minimum, Wrapped
  <2> HIDE DEF l
  <2>7. bytes[1] = r.buffer[at]
    BY <2>4, <2>6
  <2>8. bytes[1] = <<s[1], 1>>
    BY <2>4, <2>5, <2>6, <2>7
  <2> HIDE DEF bytes
  <2> QED
    BY <2>2, <2>8 DEF WordOf
<1> QED
  BY <1>6, <1>11, <1>12

(* Putting x bytes in makes the ring x bytes longer.                       *)
LEMMA LengthGrows ==
  ASSUME NEW a \in Counter, NEW b \in Counter, NEW x \in 0 .. RbSize, ((a - b) % CounterMod) + x < CounterMod
  PROVE  /\ (a + x) % CounterMod \in Counter
         /\ (((a + x) % CounterMod) - b) % CounterMod = ((a - b) % CounterMod) + x
<1> DEFINE c == (a + x) % CounterMod
           y == (a - b) % CounterMod
           z == (c - b) % CounterMod
<1>1. /\ CounterMod \in Nat \ {0} /\ RbSize \in Nat /\ RbSize < CounterMod /\ a \in Nat /\ b \in Nat /\ x \in Nat
      /\ a < CounterMod /\ b < CounterMod /\ x < CounterMod
  BY RingParameters DEF Counter
<1>2. c = IF a + x < CounterMod THEN a + x ELSE a + x - CounterMod
  BY CounterAdd
<1>3. y = IF a >= b THEN a - b ELSE a - b + CounterMod
  BY CounterSub
<1> HIDE DEF c, y
<1>4. c \in Counter
  BY <1>1, <1>2 DEF Counter
<1>5. z = IF c >= b THEN c - b ELSE c - b + CounterMod
  BY <1>4, CounterSub
<1>6. y + x < CounterMod
  BY DEF y
<1> HIDE DEF z
<1>7. z = y + x
  BY <1>1, <1>2, <1>3, <1>5, <1>6
<1> QED
  BY <1>4, <1>7 DEF c, y, z

(* A ring with o the place of its oldest byte, L bytes long and with room  *)
(* for I more, whose next byte goes to `at', l of them before the end of   *)
(* the buffer.                                                             *)
Placed(size, I, L, o, at, l) ==
  /\ size \in Nat /\ I \in Nat /\ I > 0 /\ L \in Nat /\ L + I <= size
  /\ o \in Nat /\ o < size /\ at \in Nat /\ at < size /\ at = Wrapped(o + L, size)
  /\ l \in Int /\ l = IF I < size - at THEN I ELSE size - at

(* The two parts of the copy are the places of the new bytes in their      *)
(* order, and no place of an older byte is among them.                     *)
LEMMA Places ==
  ASSUME NEW size, NEW I, NEW L, NEW o, NEW at, NEW l, Placed(size, I, L, o, at, l), NEW k \in 0 .. size - 1
  PROVE  /\ k \in at .. at + l - 1 => k - at + 1 \in 1 .. I
         /\ k < I - l => l + k + 1 \in 1 .. I
         /\ \A j \in 1 .. I : k = Wrapped(o + (L + (j - 1)), size) =>
              IF k \in at .. at + l - 1 THEN k - at + 1 = j ELSE k < I - l /\ l + k + 1 = j
         /\ \A y \in Nat : y < L /\ k = Wrapped(o + y, size) =>
              k \notin at .. at + l - 1 /\ ~(k < I - l)
<1>0. size \in Nat /\ I \in Nat /\ L \in Nat /\ o \in Nat /\ at \in Nat /\ l \in Int /\ k \in Int /\ k >= 0 /\ k < size
  BY DEF Placed
<1>a. k \in at .. at + l - 1 <=> at <= k /\ k <= at + l - 1
  BY <1>0
<1>1. k \in at .. at + l - 1 => k - at + 1 \in 1 .. I
  BY <1>0 DEF Placed, Wrapped
<1>2. k < I - l => l + k + 1 \in 1 .. I
  BY <1>0 DEF Placed, Wrapped
<1>3. ASSUME NEW j \in 1 .. I, k = Wrapped(o + (L + (j - 1)), size)
      PROVE  IF k \in at .. at + l - 1 THEN k - at + 1 = j ELSE k < I - l /\ l + k + 1 = j
  <2>1. j \in Int /\ 1 <= j /\ j <= I
    BY <1>0
  <2>2. IF at <= k /\ k <= at + l - 1 THEN k - at + 1 = j ELSE k < I - l /\ l + k + 1 = j
    BY <1>0, <1>3, <2>1 DEF Placed, Wrapped
  <2> QED
    BY <1>a, <2>2
<1>4. ASSUME NEW y \in Nat, y < L, k = Wrapped(o + y, size) PROVE k \notin at .. at + l - 1 /\ ~(k < I - l)
  <2>1. ~(at <= k /\ k <= at + l - 1) /\ ~(k < I - l)
    BY <1>0, <1>4 DEF Placed, Wrapped
  <2> QED
    BY <1>a, <2>1
<1> QED
  BY <1>1, <1>2, <1>3, <1>4

(* RingBuffer_In appends an instruction to a ring that is not full, split  *)
(* at the end of the buffer or not.                                        *)
LEMMA RingIn ==
  ASSUME NEW r, NEW s, Holds(r, s), Len(s) < Capacity, NEW v \in Inst,
         r = [buffer |-> r.buffer, in |-> r.in, out |-> r.out]
  PROVE  Holds(RingBuffer_In(r, BytesOf(v)), Append(s, v))
<1> DEFINE L == Len(s) * IlenBytes
           data == BytesOf(v)
           at == r.in % RbSize
           o == r.out % RbSize
           l == minimum(IlenBytes, RbSize - at)
           in2 == (r.in + IlenBytes) % CounterMod
           buffer2 == [k \in 0 .. RbSize - 1 |->
                         IF k \in at .. at + l - 1 THEN data[k - at + 1]
                         ELSE IF k < IlenBytes - l THEN data[l + k + 1]
                         ELSE r.buffer[k]]
           r2 == [buffer |-> buffer2, in |-> in2, out |-> r.out]
<1>1. /\ Len(s) \in Nat /\ L \in 0 .. RbSize /\ r.in \in Counter /\ r.out \in Counter
      /\ L = IF r.in >= r.out THEN r.in - r.out ELSE r.in - r.out + CounterMod
      /\ RingBuffer_Len(r) = L
  BY RingLength
<1>2. s \in Seq(Inst) /\ r.buffer \in [0 .. RbSize - 1 -> Inst \X (1 .. IlenBytes)]
  BY DEF Holds
<1>3. /\ IlenBytes \in Nat \ {0} /\ RbSize \in Nat \ {0} /\ CounterMod \in Nat \ {0} /\ RbSize < CounterMod
      /\ Capacity \in Nat /\ RbSize = Capacity * IlenBytes
  BY RingParameters
<1>a. r.in \in Nat /\ r.out \in Nat /\ r.in < CounterMod /\ r.out < CounterMod
  BY <1>1, <1>3 DEF Counter
<1>4. L + IlenBytes <= RbSize /\ (Len(s) + 1) * IlenBytes = L + IlenBytes
  <2>1. (Len(s) + 1) * IlenBytes <= Capacity * IlenBytes
    <3>1. Len(s) + 1 \in Nat /\ Len(s) + 1 <= Capacity
      BY <1>1, <1>3
    <3> QED
      BY <1>3, <3>1, Fits
  <2>2. (Len(s) + 1) * IlenBytes = L + IlenBytes
    BY <1>1, <1>3
  <2> HIDE DEF L
  <2> QED
    BY <1>3, <2>1, <2>2
<1> HIDE DEF L
<1>5. Len(data) = IlenBytes /\ \A j \in 1 .. IlenBytes : data[j] = <<v, j>>
  BY <1>3 DEF BytesOf
<1>6. RingBuffer_Avail(r) = RbSize - L
  <2>1. RbSize \in Counter /\ L \in Counter
    BY <1>1, <1>3 DEF Counter
  <2>2. (RbSize - L) % CounterMod = IF RbSize >= L THEN RbSize - L ELSE RbSize - L + CounterMod
    BY <2>1, CounterSub
  <2>3. RbSize >= L
    BY <1>1, <1>3
  <2> QED
    BY <1>1, <2>2, <2>3 DEF RingBuffer_Avail
<1>7. minimum(Len(data), RingBuffer_Avail(r)) = IlenBytes
  BY <1>1, <1>3, <1>4, <1>5, <1>6 DEF minimum
<1>8. RingBuffer_In(r, BytesOf(v)) = r2
  <2>1. RingBuffer_In(r, BytesOf(v)) = [r EXCEPT !.buffer = buffer2, !.in = in2]
    BY <1>7 DEF RingBuffer_In
  <2> HIDE DEF buffer2, in2
  <2> QED
    BY <2>1
<1>9. at \in 0 .. RbSize - 1 /\ o \in 0 .. RbSize - 1
  BY <1>1, <1>3, SlotMoves
<1>10. IlenBytes \in 0 .. RbSize
  BY <1>1, <1>3, <1>4
<1>11. in2 = IF r.in + IlenBytes < CounterMod THEN r.in + IlenBytes ELSE r.in + IlenBytes - CounterMod
  BY <1>1, <1>10, CounterAdd
<1>12. r.in = (r.out + L) % CounterMod
  <2>1. (r.out + L) % CounterMod = IF r.out + L < CounterMod THEN r.out + L ELSE r.out + L - CounterMod
    BY <1>1, CounterAdd
  <2> DEFINE z == (r.out + L) % CounterMod
             ri == r.in
             ro == r.out
  <2>2. /\ z = IF ro + L < CounterMod THEN ro + L ELSE ro + L - CounterMod
        /\ L = IF ri >= ro THEN ri - ro ELSE ri - ro + CounterMod
        /\ ri \in Nat /\ ro \in Nat /\ ri < CounterMod /\ ro < CounterMod
    BY <1>1, <1>a, <2>1
  <2> HIDE DEF z, ri, ro
  <2>3. ri = z
    BY <1>3, <2>2
  <2> QED
    BY <2>3 DEF z, ri
<1>13. at = Wrapped(o + L, RbSize)
  <2>1. ((r.out + L) % CounterMod) % RbSize = Slot(r.out, L)
    BY <1>1, SlotMoves
  <2>2. at = Slot(r.out, L)
    BY <1>12, <2>1
  <2> QED
    BY <2>2 DEF Slot
<1>14. \A y \in Int : Slot(r.out, y) = Wrapped(o + y, RbSize)
  BY DEF Slot
<1> HIDE DEF in2, at, o, data
<1>15. l \in Int /\ l = IF IlenBytes < RbSize - at THEN IlenBytes ELSE RbSize - at
  BY <1>3, <1>9 DEF minimum
<1> HIDE DEF l
<1>b. /\ IlenBytes \in Nat /\ IlenBytes > 0 /\ RbSize \in Nat /\ L \in Nat /\ L + IlenBytes <= RbSize
      /\ at \in Nat /\ at < RbSize /\ o \in Nat /\ o < RbSize /\ CounterMod \in Nat /\ RbSize < CounterMod
  BY <1>1, <1>3, <1>4, <1>9, SMTT(30)
<1>c. Placed(RbSize, IlenBytes, L, o, at, l)
  BY <1>b, <1>13, <1>15 DEF Placed
<1>d. ASSUME NEW j \in 1 .. IlenBytes PROVE data[j] = <<v, j>> /\ data[j] \in Inst \X (1 .. IlenBytes)
  BY <1>5
<1>16. ASSUME NEW k \in 0 .. RbSize - 1 PROVE buffer2[k] \in Inst \X (1 .. IlenBytes)
  <2>1. CASE k \in at .. at + l - 1
    BY <1>c, <1>d, <2>1, Places
  <2>2. CASE k \notin at .. at + l - 1 /\ k < IlenBytes - l
    BY <1>c, <1>d, <2>2, Places
  <2>3. CASE k \notin at .. at + l - 1 /\ ~(k < IlenBytes - l)
    BY <1>2, <2>3
  <2> QED
    BY <2>1, <2>2, <2>3
<1>17. ASSUME NEW j \in 1 .. IlenBytes PROVE buffer2[Slot(r.out, L + (j - 1))] = <<v, j>>
  <2> DEFINE k == Slot(r.out, L + (j - 1))
  <2>1. k = Wrapped(o + (L + (j - 1)), RbSize)
    BY <1>14, <1>b, SMTT(30)
  <2> HIDE DEF k
  <2>2. k \in 0 .. RbSize - 1
    BY <1>b, <2>1, SMTT(30) DEF Wrapped
  <2>3. IF k \in at .. at + l - 1 THEN k - at + 1 = j ELSE k < IlenBytes - l /\ l + k + 1 = j
    BY <1>c, <2>1, <2>2, Places
  <2> QED
    BY <1>5, <2>2, <2>3 DEF k
<1>18. ASSUME NEW y \in Nat, y < L PROVE buffer2[Slot(r.out, y)] = r.buffer[Slot(r.out, y)]
  <2> DEFINE k == Slot(r.out, y)
  <2>1. k = Wrapped(o + y, RbSize)
    BY <1>14, <1>b
  <2> HIDE DEF k
  <2>2. k \in 0 .. RbSize - 1
    BY <1>b, <1>18, <2>1, SMTT(30) DEF Wrapped
  <2>3. k \notin at .. at + l - 1 /\ ~(k < IlenBytes - l)
    BY <1>c, <1>18, <2>1, <2>2, Places
  <2> QED
    BY <2>2, <2>3 DEF k
<1>19. buffer2 \in [0 .. RbSize - 1 -> Inst \X (1 .. IlenBytes)]
  <2> HIDE DEF buffer2
  <2>1. buffer2 = [k \in 0 .. RbSize - 1 |-> buffer2[k]]
    BY DEF buffer2
  <2> QED
    BY <1>16, <2>1
<1> HIDE DEF buffer2
<1>20. /\ Append(s, v) \in Seq(Inst) /\ Len(Append(s, v)) = Len(s) + 1
       /\ \A i \in 1 .. Len(s) : Append(s, v)[i] = s[i]
       /\ Append(s, v)[Len(s) + 1] = v
  BY <1>2
<1>21. in2 \in Counter
  BY <1>3, <1>10, <1>11, <1>a DEF Counter
<1>22. RingBuffer_Len(r2) = L + IlenBytes
  <2>1. (r.in - r.out) % CounterMod = L
    BY <1>1 DEF RingBuffer_Len
  <2>2. L + IlenBytes < CounterMod
    BY <1>b
  <2>3. (((r.in + IlenBytes) % CounterMod) - r.out) % CounterMod = ((r.in - r.out) % CounterMod) + IlenBytes
    BY <1>1, <1>10, <2>1, <2>2, LengthGrows
  <2> QED
    BY <2>1, <2>3 DEF RingBuffer_Len, in2
<1>23. ASSUME NEW i \in 1 .. Len(s) + 1, NEW j \in 1 .. IlenBytes
       PROVE buffer2[Slot(r.out, (i - 1) * IlenBytes + (j - 1))] = <<Append(s, v)[i], j>>
  <2>1. CASE i = Len(s) + 1
    <3>1. (i - 1) * IlenBytes = L
      BY <1>1, <2>1 DEF L
    <3> QED
      BY <1>17, <1>20, <2>1, <3>1
  <2>2. CASE i # Len(s) + 1
    <3> DEFINE y == (i - 1) * IlenBytes + (j - 1)
    <3>1. i \in 1 .. Len(s)
      BY <1>1, <2>2
    <3>2. y \in Nat /\ y < L
      BY <1>1, <3>1, Within DEF L
    <3>3. r.buffer[Slot(r.out, y)] = <<s[i], j>>
      BY <3>1 DEF Holds
    <3> HIDE DEF y
    <3>4. buffer2[Slot(r.out, y)] = <<s[i], j>>
      BY <1>18, <3>2, <3>3
    <3> QED
      BY <1>20, <3>1, <3>4 DEF y
  <2> QED
    BY <2>1, <2>2
<1>24. Holds(r2, Append(s, v))
  <2>1. Len(Append(s, v)) <= Capacity
    BY <1>1, <1>3, <1>20
  <2>2. RingBuffer_Len(r2) = Len(Append(s, v)) * IlenBytes
    BY <1>4, <1>20, <1>22
  <2> QED
    BY <1>1, <1>19, <1>20, <1>21, <1>23, <2>1, <2>2 DEF Holds
<1> QED
  BY <1>8, <1>24

(* RingBuffer_Read of all bytes gives the instructions in order.           *)
LEMMA RingRead ==
  ASSUME NEW r, NEW s, Holds(r, s)
  PROVE  RingBuffer_Read(r, RbSize) =
           [k \in 1 .. Len(s) * IlenBytes |-> <<s[1 + ((k - 1) \div IlenBytes)], 1 + ((k - 1) % IlenBytes)>>]
<1> DEFINE L == Len(s) * IlenBytes
           at == r.out % RbSize
           l == minimum(L, RbSize - at)
<1>1. Len(s) \in Nat /\ L \in 0 .. RbSize /\ r.out \in Counter /\ RingBuffer_Len(r) = L
  BY RingLength
<1>2. IlenBytes \in Nat \ {0} /\ RbSize \in Nat \ {0}
  BY RingParameters
<1>3. at \in 0 .. RbSize - 1
  BY <1>1, <1>2, SlotMoves
<1>4. minimum(RbSize, RingBuffer_Len(r)) = L
  <2> HIDE DEF L
  <2> QED
    BY <1>1, <1>2 DEF minimum
<1>5. RingBuffer_Read(r, RbSize) = [k \in 1 .. L |-> IF k <= l THEN r.buffer[at + k - 1] ELSE r.buffer[k - l - 1]]
  BY <1>4 DEF RingBuffer_Read
<1>6. \A y \in Int : Slot(r.out, y) = Wrapped(at + y, RbSize)
  BY DEF Slot
<1> HIDE DEF at
<1>7. ASSUME NEW k \in 1 .. L
      PROVE (IF k <= l THEN r.buffer[at + k - 1] ELSE r.buffer[k - l - 1])
              = <<s[1 + ((k - 1) \div IlenBytes)], 1 + ((k - 1) % IlenBytes)>>
  <2> DEFINE q == Quo(k - 1, IlenBytes)
             m == Rem(k - 1, IlenBytes)
  <2>1. k \in Int /\ k - 1 \in Int /\ 1 <= k /\ k <= L /\ L \in Int
    BY <1>1
  <2>2. q \in Int /\ m \in 0 .. IlenBytes - 1 /\ k - 1 = q * IlenBytes + m
    BY <1>2, <2>1, Euclid
  <2>3. q = (k - 1) \div IlenBytes /\ m = (k - 1) % IlenBytes
    BY Zenon DEF Quo, Rem
  <2> HIDE DEF q, m
  <2>4. 1 + q \in 1 .. Len(s) /\ 1 + m \in 1 .. IlenBytes
    <3>1. q >= 0
      <4> SUFFICES ASSUME q <= -1 PROVE FALSE
        BY <2>2
      <4>1. q * IlenBytes <= -1 * IlenBytes
        BY <1>2, <2>2
      <4> QED
        BY <1>2, <2>1, <2>2, <4>1
    <3>2. q < Len(s)
      <4> SUFFICES ASSUME Len(s) <= q PROVE FALSE
        BY <1>1, <2>2
      <4>1. q * IlenBytes >= L
        BY <1>1, <1>2, <2>2, <3>1, Fits
      <4> HIDE DEF L
      <4> QED
        BY <1>2, <2>1, <2>2, <4>1
    <3> QED
      BY <1>1, <1>2, <2>2, <3>1, <3>2
  <2>5. r.buffer[Slot(r.out, ((1 + q) - 1) * IlenBytes + ((1 + m) - 1))] = <<s[1 + q], 1 + m>>
    BY <2>4 DEF Holds
  <2>6. ((1 + q) - 1) * IlenBytes + ((1 + m) - 1) = k - 1
    <3>1. (1 + q) - 1 = q /\ (1 + m) - 1 = m
      BY <2>2
    <3> QED
      BY <2>2, <3>1
  <2>7. r.buffer[Slot(r.out, k - 1)] = <<s[1 + q], 1 + m>>
    BY <2>5, <2>6
  <2>8. Slot(r.out, k - 1) = Wrapped(at + (k - 1), RbSize)
    BY <1>6, <2>1
  <2> HIDE DEF L
  <2>9. IF k <= l THEN Slot(r.out, k - 1) = at + k - 1 ELSE Slot(r.out, k - 1) = k - l - 1
    BY <1>2, <1>3, <2>1, <2>8 DEF minimum, Wrapped
  <2> HIDE DEF l
  <2> QED
    BY <2>3, <2>7, <2>9
<1> HIDE DEF L, l
<1>8. [k \in 1 .. L |-> IF k <= l THEN r.buffer[at + k - 1] ELSE r.buffer[k - l - 1]]
        = [k \in 1 .. L |-> <<s[1 + ((k - 1) \div IlenBytes)], 1 + ((k - 1) % IlenBytes)>>]
  BY <1>7
<1> QED
  BY <1>5, <1>8 DEF L

(* r has the three fields of the struct and no other.                      *)
Ring(r) == r = [buffer |-> r.buffer, in |-> r.in, out |-> r.out]

(* After i turns of the loop of a dump, the instructions printed and those *)
(* still in the ring make up s.                                            *)
Dumped(r, s, i, d) ==
  /\ Ring(d.r) /\ d = [r |-> d.r, seen |-> d.seen]
  /\ \E t \in Seq(Inst) : /\ Holds(d.r, t) /\ d.seen \in Seq(Inst) /\ d.seen \o t = s
                          /\ Len(d.seen) = minimum(i, Len(s))

(* One turn of that loop.                                                  *)
DumpStep(d) ==
  IF RingBuffer_IsEmpty(d.r) THEN d
  ELSE [r |-> RingBuffer_Out(d.r, IlenBytes), seen |-> Append(d.seen, WordOf(RingBuffer_Read(d.r, IlenBytes)))]

(* A turn takes an instruction from the ring to those printed.             *)
LEMMA DumpOne ==
  ASSUME NEW r, NEW s, NEW i \in Nat, NEW d, s \in Seq(Inst), Dumped(r, s, i, d)
  PROVE  Dumped(r, s, i + 1, DumpStep(d))
<1>1. PICK t \in Seq(Inst) : /\ Holds(d.r, t) /\ d.seen \in Seq(Inst) /\ d.seen \o t = s
                             /\ Len(d.seen) = minimum(i, Len(s))
  BY DEF Dumped
<1>2. Len(s) = Len(d.seen) + Len(t) /\ Len(t) \in Nat /\ Len(d.seen) \in Nat /\ Len(s) \in Nat
  BY <1>1
<1>3. RingBuffer_Len(d.r) = Len(t) * IlenBytes /\ IlenBytes \in Nat \ {0}
  BY <1>1, RingLength, RingParameters
<1>4. CASE t = << >>
  <2>1. Len(t) = 0
    BY <1>4
  <2>2. RingBuffer_IsEmpty(d.r)
    BY <1>3, <2>1 DEF RingBuffer_IsEmpty
  <2>3. Len(d.seen) = minimum(i + 1, Len(s))
    BY <1>1, <1>2, <2>1 DEF minimum
  <2>4. DumpStep(d) = d
    BY <2>2 DEF DumpStep
  <2> QED
    BY <1>1, <2>3, <2>4 DEF Dumped
<1>5. CASE t # << >>
  <2>1. Len(t) >= 1 /\ t = << t[1] >> \o Tail(t) /\ Tail(t) \in Seq(Inst) /\ t[1] \in Inst
    BY <1>5
  <2>2. ~RingBuffer_IsEmpty(d.r)
    <3>1. Len(t) * IlenBytes >= 1 * IlenBytes
      BY <1>2, <1>3, <2>1, Fits
    <3> QED
      BY <1>3, <3>1 DEF RingBuffer_IsEmpty
  <2> DEFINE r2 == RingBuffer_Out(d.r, IlenBytes)
             w == WordOf(RingBuffer_Read(d.r, IlenBytes))
  <2>3. /\ Holds(r2, Tail(t)) /\ w = t[1]
        /\ r2 = [buffer |-> d.r.buffer, in |-> d.r.in, out |-> (d.r.out + IlenBytes) % CounterMod]
    BY <1>1, <1>5, RingOut DEF Dumped, Ring
  <2>4. DumpStep(d) = [r |-> r2, seen |-> Append(d.seen, w)]
    BY <2>2 DEF DumpStep
  <2>5. Ring(r2)
    <3> DEFINE ro == (d.r.out + IlenBytes) % CounterMod
    <3> HIDE DEF ro
    <3> QED
      BY <2>3 DEF Ring
  <2> HIDE DEF r2, w
  <2>6. Append(d.seen, w) \in Seq(Inst) /\ Len(Append(d.seen, w)) = Len(d.seen) + 1
    BY <1>1, <2>1, <2>3
  <2>7. Append(d.seen, w) \o Tail(t) = s
    BY <1>1, <2>1, <2>3, SMTT(30)
  <2>8. Len(d.seen) + 1 = minimum(i + 1, Len(s))
    BY <1>1, <1>2, <2>1 DEF minimum
  <2> DEFINE d2 == [r |-> r2, seen |-> Append(d.seen, w)]
  <2>9. d2.r = r2 /\ d2.seen = Append(d.seen, w) /\ d2 = [r |-> d2.r, seen |-> d2.seen]
    OBVIOUS
  <2> HIDE DEF d2
  <2>10. Dumped(r, s, i + 1, d2)
    BY <2>1, <2>3, <2>5, <2>6, <2>7, <2>8, <2>9 DEF Dumped
  <2> QED
    BY <2>4, <2>10 DEF d2
<1> QED
  BY <1>4, <1>5

(* f lists the states of the first k turns.                                *)
DumpRun(f, r, k) == f = [i \in 0 .. k |-> IF i = 0 THEN [r |-> r, seen |-> << >>] ELSE DumpStep(f[i - 1])]

(* There is such a list: the recursive definition in DumpOf has a          *)
(* solution.                                                               *)
LEMMA DumpRuns ==
  ASSUME NEW r, NEW k \in Nat
  PROVE  \E f : DumpRun(f, r, k)
<1> DEFINE S == {c \in Nat : \E f : DumpRun(f, r, c)}
           start == [r |-> r, seen |-> << >>]
<1>1. 0 \in S
  <2> DEFINE f == [i \in 0 .. 0 |-> start]
  <2>1. DumpRun(f, r, 0)
    BY DEF DumpRun
  <2> QED
    BY <2>1
<1>2. ASSUME NEW c \in Nat, c \in S PROVE c + 1 \in S
  <2>1. PICK f : DumpRun(f, r, c)
    BY <1>2
  <2> DEFINE g == [i \in 0 .. c + 1 |-> IF i <= c THEN f[i] ELSE DumpStep(f[c])]
  <2>2. ASSUME NEW i \in 0 .. c + 1
        PROVE g[i] = IF i = 0 THEN start ELSE DumpStep(g[i - 1])
    <3>1. CASE i = 0
      <4>1. 0 \in 0 .. c
        OBVIOUS
      <4> QED
        BY <2>1, <3>1, <4>1 DEF DumpRun
    <3>2. CASE i # 0 /\ i <= c
      <4>1. i \in 0 .. c /\ i - 1 \in 0 .. c + 1 /\ i - 1 <= c
        BY <3>2
      <4>2. f[i] = DumpStep(f[i - 1])
        BY <2>1, <3>2, <4>1 DEF DumpRun
      <4>3. g[i] = f[i] /\ g[i - 1] = f[i - 1]
        BY <3>2, <4>1
      <4> HIDE DEF g
      <4> QED
        BY <3>2, <4>2, <4>3
    <3>3. CASE i = c + 1
      <4>1. i # 0 /\ ~(i <= c) /\ i - 1 = c /\ c \in 0 .. c + 1 /\ c <= c
        BY <3>3
      <4>2. g[i] = DumpStep(f[c]) /\ g[c] = f[c]
        BY <4>1
      <4> HIDE DEF g
      <4> QED
        BY <4>1, <4>2
    <3> QED
      BY <3>1, <3>2, <3>3
  <2>3. g = [i \in 0 .. c + 1 |-> g[i]]
    OBVIOUS
  <2> HIDE DEF g
  <2>4. DumpRun(g, r, c + 1)
    BY <2>2, <2>3 DEF DumpRun
  <2> QED
    BY <2>4
<1> HIDE DEF S
<1>3. k \in S
  BY <1>1, <1>2, Induct
<1> QED
  BY <1>3 DEF S

(* A dump prints what the ring holds.                                      *)
LEMMA DumpAll ==
  ASSUME NEW r, NEW s, Holds(r, s), Ring(r)
  PROVE  DumpOf(r) = s
<1>0. s \in Seq(Inst) /\ Len(s) <= Capacity /\ Capacity \in Nat /\ Len(s) \in Nat
  BY RingParameters DEF Holds
<1> DEFINE f == CHOOSE g : DumpRun(g, r, Capacity)
<1>1. DumpRun(f, r, Capacity)
  BY <1>0, DumpRuns
<1>2. DumpOf(r) = f[Capacity].seen
  BY DEF DumpOf, DumpRun, DumpStep
<1> HIDE DEF f
<1>3. \A i \in 0 .. Capacity : f[i] = IF i = 0 THEN [r |-> r, seen |-> << >>] ELSE DumpStep(f[i - 1])
  BY <1>1 DEF DumpRun
<1> DEFINE S == {i \in Nat : i \in 0 .. Capacity => Dumped(r, s, i, f[i])}
<1>4. 0 \in S
  <2> DEFINE d == [r |-> r, seen |-> << >>]
  <2>1. d.r = r /\ d.seen = << >> /\ d = [r |-> d.r, seen |-> d.seen]
    OBVIOUS
  <2>2. << >> \in Seq(Inst) /\ << >> \o s = s /\ Len(<< >>) = minimum(0, Len(s))
    BY <1>0 DEF minimum
  <2>3. f[0] = d
    BY <1>0, <1>3
  <2> HIDE DEF d
  <2>4. Dumped(r, s, 0, d)
    BY <1>0, <2>1, <2>2 DEF Dumped
  <2> QED
    BY <2>3, <2>4
<1>5. ASSUME NEW i \in Nat, i \in S PROVE i + 1 \in S
  <2> SUFFICES ASSUME i + 1 \in 0 .. Capacity PROVE Dumped(r, s, i + 1, f[i + 1])
    OBVIOUS
  <2>1. i \in 0 .. Capacity /\ i + 1 # 0 /\ (i + 1) - 1 = i
    BY <1>0
  <2>2. Dumped(r, s, i, f[i])
    BY <1>5, <2>1
  <2>3. f[i + 1] = DumpStep(f[i])
    BY <1>3, <2>1
  <2> QED
    BY <1>0, <2>2, <2>3, DumpOne
<1>6. Dumped(r, s, Capacity, f[Capacity])
  <2>1. Capacity \in S
    <3> HIDE DEF S
    <3> QED
      BY <1>0, <1>4, <1>5, Induct
  <2> QED
    BY <1>0, <2>1
<1> DEFINE seen == f[Capacity].seen
<1>7. PICK t \in Seq(Inst) : seen \in Seq(Inst) /\ seen \o t = s /\ Len(seen) = minimum(Capacity, Len(s))
  BY <1>6 DEF Dumped
<1> HIDE DEF seen
<1>8. Len(seen) = Len(s)
  BY <1>0, <1>7 DEF minimum
<1>9. Len(t) = 0
  BY <1>0, <1>7, <1>8
<1>10. seen = s
  BY <1>7, <1>8, <1>9
<1> QED
  BY <1>2, <1>10 DEF seen

(* The inductive invariant of the run loop.                                *)
CpuInv ==
  /\ CpuTypeOK
  /\ rb = "live" => Holds(TheRing, last)
  /\ rb = "null" => last = << >>
  /\ dump # << >> => dump = last /\ loop = "dead"

(* NEMU starts without a ring.                                             *)
LEMMA CpuStarts == CpuInit => CpuInv
<1> SUFFICES ASSUME CpuInit PROVE CpuInv
  OBVIOUS
<1>1. Inst # {} /\ IlenBytes \in Nat \ {0} /\ RbSize \in Nat \ {0} /\ CounterMod \in Nat \ {0} /\ MaxSteps \in Nat \ {0}
  BY RingParameters
<1>2. buffer \in [0 .. RbSize - 1 -> Inst \X (1 .. IlenBytes)]
  <2>1. (CHOOSE v \in Inst : TRUE) \in Inst
    BY <1>1
  <2>2. 1 \in 1 .. IlenBytes
    BY <1>1
  <2> QED
    BY <2>1, <2>2 DEF CpuInit
<1>3. n \in -1 .. MaxSteps /\ in \in 0 .. CounterMod - 1 /\ out \in 0 .. CounterMod - 1
  BY <1>1 DEF CpuInit
<1>4. last \in Seq(Inst) /\ dump \in Seq(Inst)
  BY DEF CpuInit
<1>5. nemu_state = "NEMU_STOP" /\ loop = "prompt" /\ rb = "null" /\ last = << >> /\ dump = << >>
  BY DEF CpuInit
<1> QED
  BY <1>2, <1>3, <1>4, <1>5 DEF CpuInv, CpuTypeOK

(* TheRing has the fields of the struct.                                   *)
LEMMA CpuRing == Ring(TheRing) /\ TheRing.buffer = buffer /\ TheRing.in = in /\ TheRing.out = out
BY DEF Ring, TheRing

(* Recording an instruction makes the ring hold it, and drops the oldest   *)
(* when the ring is full.                                                  *)
LEMMA CpuRecord ==
  ASSUME NEW v \in Inst, Holds(TheRing, last)
  PROVE  Holds(record(v), Remember(v)) /\ Ring(record(v))
<1> DEFINE r == TheRing
<1>1. Ring(r)
  BY CpuRing
<1> HIDE DEF r
<1>2. Holds(r, last) /\ record(v) = RingBuffer_In(IF RingBuffer_IsFull(r) THEN RingBuffer_Out(r, IlenBytes) ELSE r, BytesOf(v))
  BY DEF r, record
<1>3. /\ Len(last) \in Nat /\ last \in Seq(Inst) /\ Len(last) <= Capacity /\ Capacity \in Nat \ {0} /\ IlenBytes \in Nat \ {0}
      /\ RbSize = Capacity * IlenBytes /\ RbSize \in Nat \ {0} /\ CounterMod \in Nat \ {0} /\ RbSize < CounterMod
  BY <1>2, RingParameters DEF Holds
<1>4. /\ RingBuffer_Len(r) = Len(last) * IlenBytes /\ Len(last) * IlenBytes \in 0 .. RbSize
  BY <1>2, RingLength
<1>5. RingBuffer_Avail(r) = RbSize - Len(last) * IlenBytes
  <2> DEFINE L == Len(last) * IlenBytes
  <2>1. L \in 0 .. RbSize /\ RingBuffer_Len(r) = L
    BY <1>4
  <2> HIDE DEF L
  <2>2. RbSize \in Counter /\ L \in Counter /\ RbSize >= L
    BY <1>3, <2>1 DEF Counter
  <2>3. (RbSize - L) % CounterMod = RbSize - L
    BY <2>2, CounterSub
  <2>4. RingBuffer_Avail(r) = RbSize - L
    BY <2>1, <2>3 DEF RingBuffer_Avail
  <2> QED
    BY <2>4 DEF L
<1>6. RingBuffer_IsFull(r) <=> Len(last) = Capacity
  <2>1. Len(last) = Capacity => RbSize - Len(last) * IlenBytes = 0
    BY <1>3
  <2>2. Len(last) # Capacity => RbSize - Len(last) * IlenBytes # 0
    <3> SUFFICES ASSUME Len(last) # Capacity PROVE RbSize - Len(last) * IlenBytes # 0
      OBVIOUS
    <3>1. (Len(last) + 1) * IlenBytes <= Capacity * IlenBytes
      <4>1. Len(last) + 1 \in Nat /\ Len(last) + 1 <= Capacity
        BY <1>3
      <4> QED
        BY <1>3, <4>1, Fits
    <3>2. (Len(last) + 1) * IlenBytes = Len(last) * IlenBytes + IlenBytes
      BY <1>3
    <3> QED
      BY <1>3, <1>4, <3>1, <3>2
  <2> QED
    BY <1>5, <2>1, <2>2 DEF RingBuffer_IsFull
<1>7. CASE Len(last) = Capacity
  <2> DEFINE r2 == RingBuffer_Out(r, IlenBytes)
  <2>1. last # << >>
    BY <1>3, <1>7
  <2>2. /\ Holds(r2, Tail(last))
        /\ r2 = [buffer |-> r.buffer, in |-> r.in, out |-> (r.out + IlenBytes) % CounterMod]
    BY <1>1, <1>2, <2>1, RingOut DEF Ring
  <2>3. record(v) = RingBuffer_In(r2, BytesOf(v)) /\ Remember(v) = Append(Tail(last), v)
    BY <1>2, <1>3, <1>6, <1>7 DEF Remember
  <2>4. Ring(r2)
    BY <2>2 DEF Ring
  <2> HIDE DEF r2
  <2>5. Len(Tail(last)) < Capacity
    BY <1>3, <1>7, <2>1
  <2>6. Holds(record(v), Append(Tail(last), v))
    BY <2>2, <2>3, <2>4, <2>5, RingIn DEF Ring
  <2>7. Ring(record(v))
    BY <2>3, <2>4 DEF Ring, RingBuffer_In
  <2> QED
    BY <2>3, <2>6, <2>7
<1>8. CASE Len(last) # Capacity
  <2>1. Len(last) < Capacity
    BY <1>3, <1>8
  <2>2. record(v) = RingBuffer_In(r, BytesOf(v)) /\ Remember(v) = Append(last, v)
    BY <1>2, <1>3, <1>6, <1>8, <2>1 DEF Remember
  <2>3. Holds(record(v), Append(last, v))
    BY <1>1, <1>2, <2>1, <2>2, RingIn DEF Ring
  <2>4. Ring(record(v))
    BY <1>1, <2>2 DEF Ring, RingBuffer_In
  <2> QED
    BY <2>2, <2>3, <2>4
<1> QED
  BY <1>7, <1>8

(* An instruction is executed and recorded.                                *)
LEMMA CpuExecOnce ==
  ASSUME CpuInv, NEW v \in Inst, NEW after \in {"NEMU_RUNNING", "NEMU_STOP", "NEMU_END", "NEMU_ABORT"},
         exec_once(v, after)
  PROVE  CpuInv'
<1>1. /\ rb = "live" /\ rb' = rb /\ dump' = dump /\ loop = "exec"
      /\ buffer' = record(v).buffer /\ in' = record(v).in /\ out' = record(v).out /\ last' = Remember(v)
  BY DEF exec_once, Running, SetRing
<1>2. nemu_state' \in {"NEMU_STOP", "NEMU_RUNNING", "NEMU_END", "NEMU_ABORT", "NEMU_QUIT"}
  <2>1. nemu_state' = after \/ nemu_state' = nemu_state
    BY DEF exec_once
  <2> QED
    BY <2>1 DEF CpuInv, CpuTypeOK
<1>3. (n' = 0 /\ loop' = "exec") \/ (n' = n /\ loop' = "update")
  BY DEF exec_once
<1>4. Holds(record(v), Remember(v)) /\ Ring(record(v))
  BY <1>1, CpuRecord DEF CpuInv
<1>5. TheRing' = record(v)
  BY <1>1, <1>4 DEF TheRing, Ring
<1>6. /\ buffer' \in [0 .. RbSize - 1 -> Inst \X (1 .. IlenBytes)]
      /\ in' \in 0 .. CounterMod - 1 /\ out' \in 0 .. CounterMod - 1 /\ last' \in Seq(Inst)
  BY <1>1, <1>4 DEF Holds, Counter
<1>7. n' \in -1 .. MaxSteps /\ loop' \in {"prompt", "exec", "update", "dead"}
  <2>1. n \in -1 .. MaxSteps /\ 0 \in -1 .. MaxSteps
    BY RingParameters DEF CpuInv, CpuTypeOK
  <2> QED
    BY <1>3, <2>1
<1>8. CpuTypeOK'
  BY <1>1, <1>2, <1>6, <1>7 DEF CpuInv, CpuTypeOK
<1>9. dump = << >>
  BY <1>1 DEF CpuInv
<1>10. Holds(TheRing', last')
  BY <1>1, <1>4, <1>5
<1> QED
  BY <1>1, <1>8, <1>9, <1>10 DEF CpuInv

(* A failed assertion dumps the ring and frees it.                         *)
LEMMA CpuDump ==
  ASSUME CpuInv, exec_panics
  PROVE  CpuInv'
<1>1. /\ UNCHANGED <<nemu_state, n, buffer, in, out, last>> /\ loop' = "dead"
      /\ dump' = IF rb = "live" THEN DumpOf(TheRing) ELSE << >>
      /\ rb' = IF rb = "null" THEN "null" ELSE "freed"
  BY DEF exec_panics, assert_fail_msg, statistic
<1>2. rb = "live" => DumpOf(TheRing) = last
  BY DumpAll, CpuRing DEF CpuInv
<1>3. dump' \in Seq(Inst) /\ (dump' # << >> => dump' = last)
  <2>1. last \in Seq(Inst) /\ << >> \in Seq(Inst)
    BY DEF CpuInv, CpuTypeOK
  <2> QED
    BY <1>1, <1>2, <2>1
<1>4. rb' \in {"null", "live", "freed"} /\ rb' # "live" /\ (rb' = "null" => rb = "null")
  BY <1>1
<1> QED
  BY <1>1, <1>3, <1>4 DEF CpuInv, CpuTypeOK

(* cpu_exec allocates an empty ring the first time.                        *)
LEMMA CpuAllocates ==
  ASSUME CpuInv, NEW steps \in -1 .. MaxSteps, cpu_exec(steps)
  PROVE  CpuInv'
<1>1. /\ nemu_state' = "NEMU_RUNNING" /\ n' = steps /\ loop' = "exec" /\ UNCHANGED <<buffer, last, dump>>
      /\ loop = "prompt"
      /\ IF rb = "null" THEN rb' = "live" /\ in' = 0 /\ out' = 0 ELSE UNCHANGED <<rb, in, out>>
  BY DEF cpu_exec
<1>2. dump = << >>
  BY <1>1 DEF CpuInv
<1>3. CASE rb = "null"
  <2>1. last = << >> /\ rb' = "live" /\ in' = 0 /\ out' = 0
    BY <1>1, <1>3 DEF CpuInv
  <2>2. CounterMod \in Nat \ {0} /\ IlenBytes \in Nat /\ Capacity \in Nat
    BY RingParameters
  <2>3. 0 \in 0 .. CounterMod - 1
    BY <2>2
  <2>4. CpuTypeOK'
    BY <1>1, <2>1, <2>3 DEF CpuInv, CpuTypeOK
  <2>5. TheRing'.buffer = buffer /\ TheRing'.in = 0 /\ TheRing'.out = 0
    BY <1>1, <2>1 DEF TheRing
  <2>6. RingBuffer_Len(TheRing') = 0
    <3>1. 0 \in Counter
      BY <2>3 DEF Counter
    <3>2. (0 - 0) % CounterMod = 0
      BY <3>1, CounterSub
    <3> QED
      BY <2>5, <3>2 DEF RingBuffer_Len
  <2>7. Len(last) = 0 /\ last \in Seq(Inst)
    BY <2>1
  <2>8. buffer \in [0 .. RbSize - 1 -> Inst \X (1 .. IlenBytes)]
    BY DEF CpuInv, CpuTypeOK
  <2>9. Holds(TheRing', last)
    BY <2>2, <2>3, <2>5, <2>6, <2>7, <2>8 DEF Holds, Counter
  <2> QED
    BY <1>1, <1>2, <2>1, <2>4, <2>9 DEF CpuInv
<1>4. CASE rb # "null"
  <2>1. UNCHANGED <<rb, in, out>>
    BY <1>1, <1>4
  <2>2. TheRing' = TheRing
    BY <1>1, <2>1 DEF TheRing
  <2> QED
    BY <1>1, <1>2, <1>4, <2>1, <2>2 DEF CpuInv, CpuTypeOK
<1> QED
  BY <1>3, <1>4

(* The other steps leave the ring alone or free it.                        *)
LEMMA CpuOther ==
  ASSUME CpuInv, UNCHANGED <<buffer, in, out, last, dump>>,
         rb' = rb \/ rb' = IF rb = "null" THEN "null" ELSE "freed",
         nemu_state' \in {"NEMU_STOP", "NEMU_RUNNING", "NEMU_END", "NEMU_ABORT", "NEMU_QUIT"},
         n' \in -1 .. MaxSteps, loop' \in {"prompt", "exec", "update", "dead"}, loop = "dead" => loop' = "dead"
  PROVE  CpuInv'
<1>1. TheRing' = TheRing
  BY DEF TheRing
<1>2. rb' \in {"null", "live", "freed"} /\ (rb' = "live" => rb = "live") /\ (rb' = "null" => rb = "null")
  BY DEF CpuInv, CpuTypeOK
<1> QED
  BY <1>1, <1>2 DEF CpuInv, CpuTypeOK

(* Every step keeps the invariant.                                         *)
LEMMA CpuStep == CpuInv /\ [CpuNext]_cpuVars => CpuInv'
<1> SUFFICES ASSUME CpuInv, [CpuNext]_cpuVars PROVE CpuInv'
  OBVIOUS
<1>0. /\ nemu_state \in {"NEMU_STOP", "NEMU_RUNNING", "NEMU_END", "NEMU_ABORT", "NEMU_QUIT"}
      /\ n \in -1 .. MaxSteps /\ loop \in {"prompt", "exec", "update", "dead"} /\ MaxSteps \in Nat
  BY RingParameters DEF CpuInv, CpuTypeOK
<1>1. CASE \E steps \in -1 .. MaxSteps : cpu_exec(steps)
  BY <1>1, CpuAllocates
<1>2. CASE \E v \in Inst, after \in {"NEMU_RUNNING", "NEMU_STOP", "NEMU_END", "NEMU_ABORT"} : exec_once(v, after)
  BY <1>2, CpuExecOnce
<1>3. ASSUME NEW closed \in BOOLEAN, device_update(closed) PROVE CpuInv'
  <2>1. /\ nemu_state' = "NEMU_QUIT" \/ nemu_state' = nemu_state
        /\ n' = IF n > 0 THEN n - 1 ELSE n
        /\ loop' = "exec" /\ loop = "update" /\ UNCHANGED <<rb, buffer, in, out, last, dump>>
    BY <1>3 DEF device_update
  <2>2. n' \in -1 .. MaxSteps
    BY <1>0, <2>1
  <2>3. nemu_state' \in {"NEMU_STOP", "NEMU_RUNNING", "NEMU_END", "NEMU_ABORT", "NEMU_QUIT"}
    BY <1>0, <2>1
  <2> QED
    BY <2>1, <2>2, <2>3, CpuOther
<1>4. CASE cpu_exec_returns
  <2>1. /\ nemu_state' = "NEMU_STOP" \/ nemu_state' = nemu_state
        /\ rb' = rb \/ rb' = IF rb = "null" THEN "null" ELSE "freed"
        /\ loop' = "prompt" /\ loop = "exec" /\ UNCHANGED <<n, buffer, in, out, last, dump>>
    BY <1>4 DEF cpu_exec_returns, statistic
  <2>3. nemu_state' \in {"NEMU_STOP", "NEMU_RUNNING", "NEMU_END", "NEMU_ABORT", "NEMU_QUIT"} /\ n' \in -1 .. MaxSteps
    BY <1>0, <2>1
  <2> QED
    BY <2>1, <2>3, CpuOther
<1>5. CASE exec_panics
  BY <1>5, CpuDump
<1>6. CASE uses_freed_buffer
  BY <1>0, <1>6, CpuOther DEF uses_freed_buffer
<1>7. CASE cmd_q
  BY <1>0, <1>7, CpuOther DEF cmd_q
<1>8. CASE UNCHANGED cpuVars
  BY <1>0, <1>8, CpuOther DEF cpuVars
<1> QED
  BY <1>1, <1>2, <1>3, <1>4, <1>5, <1>6, <1>7, <1>8 DEF CpuNext, Machine

(* While it is allocated the ring holds, byte for byte and in order, the   *)
(* last instructions executed, as many as fit, also when the counters have *)
(* overflowed, and a failed assertion prints exactly those (iringbuf.c,    *)
(* cpu-exec.c), for every size of the ring and every word size of the      *)
(* counters that it divides.                                               *)
THEOREM RingComplete == CpuSpec => []RingHoldsLast
<1>1. CpuInv => RingHoldsLast
  <2> SUFFICES ASSUME CpuInv PROVE RingHoldsLast
    OBVIOUS
  <2>1. LastInstructions
    BY RingRead DEF CpuInv, LastInstructions
  <2> QED
    BY <2>1 DEF CpuInv, RingHoldsLast, DumpIsLast
<1> QED
  BY <1>1, CpuStarts, CpuStep, PTL DEF CpuSpec

=============================================================================
