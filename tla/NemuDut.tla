------------------------------ MODULE NemuDut ------------------------------
(***************************************************************************)
(* NEMU's difftest client (cpu/difftest/dut.c) with what sets its two skip *)
(* flags: a device access of the instruction (find_mapid_by_addr), the     *)
(* instructions a reference packs, and a device read made by the debugger, *)
(* from the prompt (`x', `p') or from a watchpoint (check_wp).             *)
(*                                                                         *)
(* A machine is a pc, one register x and one word of memory m.  The client *)
(* copies and compares registers only.  "load" moves m to x, "store" a     *)
(* function of x to m, "in" loads x from a device, "out" writes to one,    *)
(* "alu" keeps x; "pack" keeps x and is executed by the reference in one   *)
(* go with the PackLen - 1 instructions that follow it.  NEMU may compute  *)
(* register or memory wrongly in any instruction: finding that is what     *)
(* difftest is for.  The flow of control is always right.                  *)
(***************************************************************************)
EXTENDS Integers

CONSTANTS
  N,        \* instructions of the program
  PackLen   \* instructions the reference executes at once: nr_dut of difftest_skip_dut

ASSUME DutAssumption == N \in Nat /\ PackLen \in Nat \ {0, 1}

VARIABLES
  prog,                            \* the program
  cpu, ref,                        \* DUT and reference
  is_skip_ref, skip_dut_nr_inst,   \* dut.c
  dut_state,                       \* nemu_state.state; "PANIC" is the panic of difftest_step
  phase,                           \* "prompt", "exec", "difftest" or "wp": where execute() is
  gold,                            \* history: NEMU without errors, with the same device answers
  faulty,                          \* history: NEMU computed an instruction wrongly
  peeked,                          \* history: the debugger read a device
  exempt,                          \* history: a device access was wrong itself, or cut short a packed group
  spoiled                          \* history: the memories of NEMU and reference were put out of step

dutVars == <<prog, cpu, ref, is_skip_ref, skip_dut_nr_inst, dut_state, phase, gold, faulty,
             peeked, exempt, spoiled>>

Words == {0, 1}
Machines == [pc : 1 .. N + 1, x : Words, m : Words]
Devices == {"in", "out"}
Kinds == {"alu", "load", "store", "pack"} \cup Devices

DutInit ==
  /\ prog \in [1 .. N -> Kinds]
  /\ \A i \in 1 .. N : prog[i] = "pack" =>
       i + PackLen - 1 <= N /\ \A j \in i + 1 .. i + PackLen - 1 : prog[j] # "pack"
  /\ cpu = [pc |-> 1, x |-> 0, m |-> 0] /\ ref = cpu /\ gold = cpu
  /\ is_skip_ref = FALSE /\ skip_dut_nr_inst = 0
  /\ dut_state = "RUNNING" /\ phase = "prompt"
  /\ faulty = FALSE /\ peeked = FALSE /\ exempt = FALSE /\ spoiled = FALSE

(* One instruction, done right; d is the device's answer.                  *)
ExecOne(s, d) ==
  [pc |-> s.pc + 1,
   x  |-> CASE prog[s.pc] = "load" -> s.m
            [] prog[s.pc] = "in"   -> d
            [] OTHER               -> s.x,
   m  |-> IF prog[s.pc] = "store" THEN 1 - s.x ELSE s.m]

(* The reference: a device it does not have reads as zero.                 *)
RefOne(r) == ExecOne(r, 0)
Packed(r) == LET run[k \in 0 .. PackLen] == IF k = 0 THEN r ELSE RefOne(run[k - 1])
             IN  run[PackLen]
ref_difftest_exec(r) ==
  IF r.pc > N THEN r ELSE IF prog[r.pc] = "pack" THEN Packed(r) ELSE RefOne(r)

----------------------------------------------------------------------------

(* The device access, or the debugger, ends the catching up.  If the rest  *)
(* of the packed group, which NEMU has not reached, stores to memory, the  *)
(* reference has already done so.                                          *)
difftest_skip_ref ==
  /\ is_skip_ref' = TRUE /\ skip_dut_nr_inst' = 0
  /\ spoiled' = (spoiled \/ \E i \in cpu'.pc .. ref.pc - 1 : prog[i] = "store")

(* difftest_skip_dut(1, PackLen): the reference runs, NEMU follows within  *)
(* PackLen instructions.                                                   *)
difftest_skip_dut ==
  /\ skip_dut_nr_inst' = skip_dut_nr_inst + PackLen
  /\ ref' = ref_difftest_exec(ref)
  /\ UNCHANGED is_skip_ref

(* What NEMU makes of a right result: the parts in `bug' come out wrong.   *)
Botch(s, bug) ==
  [pc |-> s.pc, x |-> IF "x" \in bug THEN 1 - s.x ELSE s.x,
   m  |-> IF "m" \in bug THEN 1 - s.m ELSE s.m]

(* isa_exec_once: d is the device's answer, bug what NEMU computes wrong.  *)
(* A store under a flag the debugger has left is NEMU's alone.             *)
dut_exec_once(d, bug) ==
  /\ phase = "exec" /\ dut_state = "RUNNING" /\ cpu.pc <= N
  /\ cpu' = Botch(ExecOne(cpu, d), bug)
  /\ gold' = ExecOne(gold, d)
  /\ faulty' = (faulty \/ bug # {})
  /\ exempt' = (exempt \/ (prog[cpu.pc] \in Devices /\ ("x" \in bug \/ skip_dut_nr_inst > 0)))
  /\ \/ prog[cpu.pc] \in Devices /\ difftest_skip_ref /\ UNCHANGED ref
     \/ prog[cpu.pc] = "pack" /\ difftest_skip_dut /\ UNCHANGED spoiled
     \/ /\ prog[cpu.pc] \notin Devices \cup {"pack"}
        /\ spoiled' = (spoiled \/ (prog[cpu.pc] = "store" /\ is_skip_ref /\ skip_dut_nr_inst = 0))
        /\ UNCHANGED <<is_skip_ref, skip_dut_nr_inst, ref>>
  /\ phase' = "difftest"
  /\ UNCHANGED <<prog, dut_state, peeked>>

(* isa_difftest_checkregs: pc and registers, not memory.                   *)
SameRegs(r, s) == r.pc = s.pc /\ r.x = s.x
checkregs(r) == dut_state' = IF SameRegs(r, cpu) THEN dut_state ELSE "ABORT"

(* Mutation: the flag outlives the instruction it was set for.             *)
CopyToRef_keeps_flag ==
  ref' = [cpu EXCEPT !.m = ref.m] /\ UNCHANGED <<is_skip_ref, skip_dut_nr_inst, dut_state>>

CopyToRef ==
  ref' = [cpu EXCEPT !.m = ref.m] /\ is_skip_ref' = FALSE /\ UNCHANGED <<skip_dut_nr_inst, dut_state>>

CatchUp ==
  /\ skip_dut_nr_inst' = IF ref.pc = cpu.pc THEN 0 ELSE skip_dut_nr_inst - 1
  /\ IF ref.pc = cpu.pc THEN checkregs(ref)
     ELSE dut_state' = IF skip_dut_nr_inst = 1 THEN "PANIC" ELSE dut_state
  /\ UNCHANGED <<ref, is_skip_ref>>

difftest_step ==
  /\ phase = "difftest"
  /\ IF skip_dut_nr_inst > 0 THEN CatchUp
     ELSE IF is_skip_ref THEN CopyToRef
     ELSE /\ ref' = ref_difftest_exec(ref)
          /\ checkregs(ref')
          /\ UNCHANGED <<is_skip_ref, skip_dut_nr_inst>>
  /\ phase' = "wp"
  /\ UNCHANGED <<prog, cpu, gold, faulty, peeked, exempt, spoiled>>

(* _check_wp evaluates the watched expressions; a change stops the loop.   *)
_check_wp(dev, hit) ==
  /\ phase = "wp"
  /\ UNCHANGED <<prog, cpu, ref, dut_state, gold, faulty, exempt>>
  /\ IF dev THEN difftest_skip_ref ELSE UNCHANGED <<is_skip_ref, skip_dut_nr_inst, spoiled>>
  /\ phase' = IF hit \/ dut_state # "RUNNING" THEN "prompt" ELSE "exec"
  /\ peeked' = (peeked \/ dev)

(* At the prompt: `x N EXPR' or `p *EXPR', then `c'.                       *)
Examine ==
  /\ phase = "prompt" /\ dut_state = "RUNNING"
  /\ UNCHANGED <<prog, cpu, ref, dut_state, phase, gold, faulty, exempt>>
  /\ difftest_skip_ref
  /\ peeked' = TRUE

Continue ==
  /\ phase = "prompt" /\ dut_state = "RUNNING"
  /\ phase' = "exec"
  /\ UNCHANGED <<prog, cpu, ref, is_skip_ref, skip_dut_nr_inst, dut_state, gold, faulty,
                 peeked, exempt, spoiled>>

DutNext ==
  \/ \E d \in Words, bug \in SUBSET {"x", "m"} : dut_exec_once(d, bug)
  \/ difftest_step
  \/ \E dev, hit \in BOOLEAN : _check_wp(dev, hit)
  \/ Examine
  \/ Continue

DutSpec == DutInit /\ [][DutNext]_dutVars

----------------------------------------------------------------------------
(* The counter of instructions to catch up never goes below zero.          *)
DutTypeOK ==
  /\ {cpu, ref, gold} \subseteq Machines
  /\ is_skip_ref \in BOOLEAN /\ skip_dut_nr_inst \in 0 .. PackLen
  /\ dut_state \in {"RUNNING", "ABORT", "PANIC"}
  /\ phase \in {"prompt", "exec", "difftest", "wp"}
  /\ {faulty, peeked, exempt, spoiled} \subseteq BOOLEAN

(* Difftest stops NEMU only for an instruction NEMU computed wrongly: no   *)
(* order of device accesses, packed instructions and breakpoints makes the *)
(* two sides differ, or NEMU miss the reference's pc.  The exceptions are  *)
(* about memory, which is never copied: a device access cut short a packed *)
(* group whose rest stores (the case dut.c:41 mentions), or the debugger   *)
(* read a device just before a store, which only NEMU then executes.       *)
NoFalseAlarm == dut_state # "RUNNING" => faulty \/ spoiled

(* "this is used to let ref skip instructions which can not produce        *)
(* consistent behavior with NEMU": every other instruction is compared.    *)
(* While NEMU runs on and has caught up its register is right, whatever it *)
(* computed wrongly before.  The exceptions are the three ways a wrong     *)
(* register is copied to the reference unseen (dut.c:120): the device      *)
(* access itself computed it, the device access cut short the packed group *)
(* that did, or the debugger read a device and so exempted an instruction  *)
(* that needs no skipping.                                                 *)
FaultCaught ==
  ~peeked /\ ~exempt /\ dut_state = "RUNNING" /\ skip_dut_nr_inst = 0 /\ phase \in {"prompt", "exec"}
    => cpu.x = gold.x

(* Difftest stops NEMU for a wrong register, and for nothing else,         *)
(* whatever device accesses, packed instructions and breakpoints come in   *)
(* between, but for the exceptions above (dut.c:36, 102).                  *)
AlarmIffFault == NoFalseAlarm /\ FaultCaught
============================================================================
