----------------------------- MODULE NpcDifftest ----------------------------
(***************************************************************************)
(* Differential testing of the core: the simulation loop of                *)
(* npc/csrc/main.cpp stops the clock in every cycle in which an instruction*)
(* completes, compares the core with NEMU (difftest_check) and lets NEMU   *)
(* execute the completing instruction (difftest_step).  The comparison     *)
(* therefore lags one instruction behind.                                  *)
(*                                                                         *)
(* NEMU has no devices: an instruction that touched one is not executed by *)
(* NEMU; the core's registers are copied over instead, one comparison      *)
(* later.  The device announces itself through is_skip_ref.                *)
(***************************************************************************)
EXTENDS NpcCore

VARIABLES
  ref_pc, ref_gpr, ref_csr, ref_mem, ref_state,  \* NEMU's own state
  is_skip_ref, is_skip_ref_r,
  loop       \* "eval": clock may rise; "step": checked; "go": NEMU stepped;
             \* "break": a mismatch left the loop

refVars == <<ref_pc, ref_gpr, ref_csr, ref_mem, ref_state>>
skipVars == <<is_skip_ref, is_skip_ref_r>>
diffVars == <<vars, refVars, skipVars, loop>>

Ref == INSTANCE NemuIsa WITH pc <- ref_pc, gpr <- ref_gpr, csr <- ref_csr,
                             mem <- ref_mem, state <- ref_state

(* Mutation: the image is not copied, only the registers.                  *)
DiffInit_no_image ==
  /\ Init
  /\ ref_pc = pc /\ ref_gpr = gpr /\ ref_csr = csr
  /\ ref_mem = [c \in Cells |-> 0]
  /\ ref_state = "RUNNING"
  /\ is_skip_ref = FALSE /\ is_skip_ref_r = FALSE
  /\ loop = "eval"

(* difftest_init: the image and the registers are copied to NEMU.          *)
DiffInit ==
  /\ Init
  /\ ref_pc = pc /\ ref_gpr = gpr /\ ref_csr = csr /\ ref_mem = mem
  /\ ref_state = "RUNNING"
  /\ is_skip_ref = FALSE /\ is_skip_ref_r = FALSE
  /\ loop = "eval"

(* checkregs: pc, the general registers and the four csrs.                 *)
checkregs == ref_pc = pc /\ ref_gpr = gpr /\ ref_csr = csr

(* Mutation: a skipped instruction is not followed by a register copy.     *)
difftest_check_no_regcpy ==
  /\ loop = "eval" /\ status = "run" /\ lsu_valid
  /\ loop' = IF is_skip_ref_r \/ checkregs THEN "step" ELSE "break"
  /\ is_skip_ref_r' = FALSE
  /\ UNCHANGED <<vars, refVars, is_skip_ref>>

(* difftest_check, called when dut_status (the core's lsu_valid) is up.    *)
difftest_check ==
  /\ loop = "eval" /\ status = "run" /\ lsu_valid
  /\ IF is_skip_ref_r
     THEN /\ ref_pc' = pc /\ ref_gpr' = gpr /\ ref_csr' = csr
          /\ UNCHANGED <<ref_mem, ref_state>>
          /\ is_skip_ref_r' = FALSE
          /\ loop' = "step"
     ELSE /\ loop' = IF checkregs THEN "step" ELSE "break"
          /\ UNCHANGED <<refVars, is_skip_ref_r>>
  /\ UNCHANGED <<vars, is_skip_ref>>

(* Mutation: the skip request is honoured and stays up.                    *)
difftest_step_keeps_skip ==
  /\ loop = "step"
  /\ IF is_skip_ref
     THEN is_skip_ref_r' = TRUE /\ UNCHANGED <<refVars, is_skip_ref>>
     ELSE /\ IF ref_state = "RUNNING" THEN Ref!IsaNext ELSE UNCHANGED refVars
          /\ UNCHANGED skipVars
  /\ loop' = "go"
  /\ UNCHANGED vars

(* difftest_step: NEMU executes one instruction, unless it has stopped.    *)
difftest_step ==
  /\ loop = "step"
  /\ IF is_skip_ref
     THEN /\ is_skip_ref' = FALSE /\ is_skip_ref_r' = TRUE
          /\ UNCHANGED refVars
     ELSE /\ IF ref_state = "RUNNING" THEN Ref!IsaNext ELSE UNCHANGED refVars
          /\ UNCHANGED skipVars
  /\ loop' = "go"
  /\ UNCHANGED vars

(* A device calls difftest_skip when it serves an access.                  *)
DeviceServed ==
  \/ r_slave = "busy" /\ r_slave' = "okay" /\ Cell(araddr) \in Device
  \/ b_resp = "busy" /\ b_resp' = "okay" /\ Cell(awaddr) \in Device

(* The clock rises; a cycle without a completing instruction does so       *)
(* without a comparison.                                                   *)
clock_edge ==
  /\ loop = "go" \/ (loop = "eval" /\ ~lsu_valid)
  /\ Next
  /\ loop' = "eval"
  /\ is_skip_ref' = (is_skip_ref \/ DeviceServed)
  /\ UNCHANGED <<refVars, is_skip_ref_r>>

DiffNext == difftest_check \/ difftest_step \/ clock_edge

DiffSpec == DiffInit /\ [][DiffNext]_diffVars

-----------------------------------------------------------------------------
(* Properties.                                                             *)

(* The harness itself stays well typed.                                    *)
DiffTypeOK ==
  /\ ref_pc \in Word /\ ref_gpr \in [Regs -> Word]
  /\ ref_csr \in [Csrs -> Word] /\ ref_mem \in [Cells -> Word]
  /\ ref_state \in {"RUNNING", "END", "ABORT", "PANIC"}
  /\ is_skip_ref \in BOOLEAN /\ is_skip_ref_r \in BOOLEAN
  /\ loop \in {"eval", "step", "go", "break"}

(* difftest_check never reports a mismatch: with its lag of one            *)
(* instruction, with device accesses skipped and re-synchronised one       *)
(* comparison later, and whatever the bus latencies, NEMU and the core     *)
(* agree whenever they are compared.                                       *)
NeverMismatch == loop # "break"

(* A skip request belongs to the instruction that is executing, which does *)
(* access a device: the flag neither leaks to the next instruction (which  *)
(* would then go unchecked) nor is it lost.                                *)
SkipIsForDevice ==
  /\ is_skip_ref => Loading \/ Storing
  /\ is_skip_ref => Cell(wb.exu_res) \in Device
  /\ loop \in {"eval", "step"} /\ lsu_valid /\ status = "run" =>
       is_skip_ref = (/\ lsu_opt \in {"load", "store"}
                      /\ Cell(wb.exu_res) \in Device \ Unmapped)

(* Between instructions the two memories are equal: a store that the       *)
(* device skip keeps from NEMU never was a store to memory.                *)
MemoriesAgree == Start /\ status = "run" => ref_mem = mem

(* The reference never drifts: its registers and NEMU's state stay well    *)
(* formed and, skips or not, its memory follows the core's.                *)
ReferenceSound == DiffTypeOK /\ MemoriesAgree
=============================================================================
