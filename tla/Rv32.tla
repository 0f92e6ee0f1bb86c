-------------------------------- MODULE Rv32 --------------------------------
(***************************************************************************)
(* What the simulated processor (npc) and its reference model (NEMU) share *)
(* about the instruction set: machine words, word-aligned memory cells and *)
(* decoded instructions.                                                   *)
(*                                                                         *)
(* A word is a number below 4 * NWords, so a memory of NWords cells covers *)
(* the whole address space and every addition wraps.  A memory word and an *)
(* instruction are the same thing: Decode says which instruction a word    *)
(* encodes.  The arithmetic of one operation is the parameter Alu.         *)
(***************************************************************************)
EXTENDS Integers

CONSTANTS
  NWords,        \* number of memory cells
  NReg,          \* number of general registers (32)
  Fns,           \* operations of the arithmetic unit
  Alu(_, _, _),  \* Alu(fn, src1, src2)
  Decode,        \* the instruction each word encodes
  Device,        \* cells that are device registers, not memory
  Unmapped,      \* cells no slave answers for
  RESET_PC       \* address of the first instruction

WordSize == 4 * NWords
Word == 0 .. WordSize - 1
Cells == 0 .. NWords - 1
Regs == 0 .. NReg - 1
Csrs == {"mstatus", "mtvec", "mepc", "mcause"}

Ops == {"alu", "alui", "lui", "auipc", "load", "store", "branch", "jal",
        "jalr", "csrrw", "csrrs", "csrrc", "csrrwi", "csrrsi", "csrrci",
        "ecall", "mret", "ebreak", "fence_i", "zero", "inv"}

(* The csr instructions: write, set and clear, from a register or (the     *)
(* last of each pair) from the immediate, which is its rs1 field.          *)
CsrW == {"csrrw", "csrrwi"}
CsrS == {"csrrs", "csrrsi"}
CsrC == {"csrrc", "csrrci"}
CsrImm == {"csrrwi", "csrrsi", "csrrci"}

Instr == [op : Ops, fn : Fns, rd : Regs, rs1 : Regs, rs2 : Regs,
          imm : Word, csr : Csrs]

IRQ_ECALL == 11 % WordSize

(* Addition wraps around at the width of a word.                           *)
Add(a, b) == (a + b) % WordSize
Cell(a) == a \div 4

ASSUME Rv32Assumption ==
  /\ NWords \in Nat \ {0}
  /\ NReg \in Nat \ {0}
  /\ \A fn \in Fns : \A a, b \in Word : Alu(fn, a, b) \in Word
  /\ {"or", "clear"} \subseteq Fns
  /\ Decode \in [Word -> Instr]
  /\ Device \subseteq Cells
  /\ Unmapped \subseteq Cells
  /\ RESET_PC \in Word

(* A csrrs from register 0 writes back what it read.                       *)
ASSUME OrAssumption == \A a \in Word : Alu("or", a, 0) = a

(* A register write: register 0 always reads as zero.                      *)
WriteReg(r, i, v) == [r EXCEPT ![i] = IF i = 0 THEN 0 ELSE v]
=============================================================================
