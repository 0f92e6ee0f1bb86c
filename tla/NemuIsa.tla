------------------------------ MODULE NemuIsa -------------------------------
(***************************************************************************)
(* NEMU as the reference model: one step executes one instruction, the way *)
(* exec_once and decode_exec do (nemu/src/isa/riscv32/inst.c).             *)
(*                                                                         *)
(* This is the specification the processor is compared with after every    *)
(* instruction; module NpcCore shows that the cycle-level processor        *)
(* implements it.                                                          *)
(***************************************************************************)
EXTENDS Rv32

VARIABLES
  pc,    \* cpu.pc
  gpr,   \* cpu.gpr
  csr,   \* cpu.csr
  mem,   \* pmem
  state  \* "RUNNING", "END" (ebreak), "ABORT" (invalid), "PANIC" (no memory)

isaVars == <<pc, gpr, csr, mem, state>>

(* The register file is copied from the device under test at start up, so  *)
(* it may hold anything; the code image is any memory contents.            *)
IsaInit ==
  /\ pc = RESET_PC
  /\ gpr \in [Regs -> Word] /\ gpr[0] = 0
  /\ csr = [c \in Csrs |-> 0]
  /\ mem \in [Cells -> Word]
  /\ state = "RUNNING"

(* inst_fetch: the instruction at cpu.pc.                                  *)
Fetched == Decode[mem[Cell(pc)]]

(* The registers become r, the csrs c, and pc becomes s->dnpc.             *)
Retire(r, c, dnpc) ==
  /\ gpr' = r
  /\ csr' = c
  /\ pc' = dnpc

snpc == Add(pc, 4)

ExecAlu(i) ==
  /\ i.op \in {"alu", "alui", "lui", "auipc"}
  /\ LET src1 == gpr[i.rs1]
         result == CASE i.op = "alu" -> Alu(i.fn, src1, gpr[i.rs2])
                     [] i.op = "alui" -> Alu(i.fn, src1, i.imm)
                     [] i.op = "lui" -> i.imm
                     [] i.op = "auipc" -> Add(pc, i.imm)
     IN Retire(WriteReg(gpr, i.rd, result), csr, snpc)
  /\ UNCHANGED <<mem, state>>

(* A device register may return anything.                                  *)
ExecLoad(i) ==
  /\ i.op = "load"
  /\ LET c == Cell(Add(gpr[i.rs1], i.imm)) IN
       /\ c \notin Unmapped
       /\ \E v \in IF c \in Device THEN Word ELSE {mem[c]} :
            Retire(WriteReg(gpr, i.rd, v), csr, snpc)
  /\ UNCHANGED <<mem, state>>

ExecStore(i) ==
  /\ i.op = "store"
  /\ LET c == Cell(Add(gpr[i.rs1], i.imm)) IN
       /\ c \notin Unmapped
       /\ mem' = IF c \in Device THEN mem
                 ELSE [mem EXCEPT ![c] = gpr[i.rs2]]
  /\ Retire(gpr, csr, snpc)
  /\ UNCHANGED state

(* Branch conditions are operations of the arithmetic unit: 0 or 1.        *)
ExecJump(i) ==
  /\ i.op \in {"branch", "jal", "jalr"}
  /\ LET src1 == gpr[i.rs1]
         target == Add(src1, i.imm)
         dnpc == CASE i.op = "branch" ->
                        IF Alu(i.fn, src1, gpr[i.rs2]) # 0
                        THEN Add(pc, i.imm) ELSE snpc
                   [] i.op = "jal" -> Add(pc, i.imm)
                   [] i.op = "jalr" -> target - (target % 2)
     IN Retire(IF i.op = "branch" THEN gpr ELSE WriteReg(gpr, i.rd, snpc),
               csr, dnpc)
  /\ UNCHANGED <<mem, state>>

ExecCsr(i) ==
  /\ i.op \in {"csrrw", "csrrs"}
  /\ LET t == csr[i.csr]
         new == IF i.op = "csrrw" THEN gpr[i.rs1]
                ELSE Alu("or", t, gpr[i.rs1])
     IN Retire(WriteReg(gpr, i.rd, t), [csr EXCEPT ![i.csr] = new], snpc)
  /\ UNCHANGED <<mem, state>>

(* isa_raise_intr, and mret.                                               *)
ExecTrap(i) ==
  /\ \/ /\ i.op = "ecall"
        /\ Retire(gpr, [csr EXCEPT !["mcause"] = IRQ_ECALL, !["mepc"] = pc],
                  csr["mtvec"])
     \/ /\ i.op = "mret"
        /\ Retire(gpr, csr, csr["mepc"])
  /\ UNCHANGED <<mem, state>>

(* ebreak ends the program; a word no pattern matches aborts it.  The csr  *)
(* instructions other than csrrw and csrrs, fence.i and the all-zero word  *)
(* match no pattern.                                                       *)
ExecEnd(i) ==
  /\ \/ i.op = "ebreak" /\ state' = "END"
     \/ i.op \in CsrC \cup CsrImm \cup {"fence_i", "zero", "inv"} /\ state' = "ABORT"
  /\ Retire(gpr, csr, snpc)
  /\ UNCHANGED mem

(* An access to an address that is neither memory nor a device stops the   *)
(* process (out_of_bound).                                                 *)
OutOfBound ==
  LET i == Fetched IN
  /\ \/ Cell(pc) \in Unmapped
     \/ /\ i.op \in {"load", "store"}
        /\ Cell(Add(gpr[i.rs1], i.imm)) \in Unmapped
  /\ state' = "PANIC"
  /\ UNCHANGED <<pc, gpr, csr, mem>>

exec_once ==
  LET i == Fetched IN
  /\ Cell(pc) \notin Unmapped
  /\ \/ ExecAlu(i) \/ ExecLoad(i) \/ ExecStore(i) \/ ExecJump(i)
     \/ ExecCsr(i) \/ ExecTrap(i) \/ ExecEnd(i)

IsaNext ==
  /\ state = "RUNNING"
  /\ exec_once \/ OutOfBound

IsaSpec == IsaInit /\ [][IsaNext]_isaVars
=============================================================================
