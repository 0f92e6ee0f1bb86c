------------------------------- MODULE NpcAlu -------------------------------
(***************************************************************************)
(* The arithmetic of the core (npc/vsrc/alu.v and the comparisons of       *)
(* exu.v) beside the C expressions with which NEMU computes the same       *)
(* instructions (nemu/src/isa/riscv32/inst.c).                             *)
(*                                                                         *)
(* The circuit is combinational: the state is what its inputs hold, and a  *)
(* step changes one of them.  Words have 2^SHW bits; the code has SHW = 5. *)
(***************************************************************************)
EXTENDS Integers, Bitwise

CONSTANTS
  SHW,        \* width of a shift amount
  SraAmounts  \* second operands examined for SRA

ASSUME AluAssumption == SHW \in Nat \ {0} /\ SraAmounts \subseteq 0 .. 2^(2^SHW) - 1

VARIABLES i_opt, i_src1, i_src2

aluVars == <<i_opt, i_src1, i_src2>>

XLEN == 2^SHW
Size == 2^XLEN
AluWord == 0 .. Size - 1
MinInt == 2^(XLEN - 1)      \* `INT_MAX of defines.vh: the sign bit alone

ExuOpts == {"ADD", "SUB", "AND", "OR", "XOR", "SLL", "SRL", "SRA",
            "SLT", "SLTU", "BEQ", "BNE", "BLT", "BGE", "BLTU", "BGEU"}

Flag(b) == IF b THEN 1 ELSE 0
Sign(w) == w \div 2^(XLEN - 1)

-----------------------------------------------------------------------------
(* The core.                                                               *)

(* Mutation: a logical right shift.                                        *)
tmp_res_logical(s1, s2) == s1 \div 2^(s2 % 2^(SHW + 1))

(* alu.v tmp_res: the operand, sign extended to twice its width, shifted   *)
(* by SHW + 1 bits of the other.                                           *)
tmp_res(s1, s2) ==
  (s1 + Sign(s1) * (Size - 1) * Size) \div 2^(s2 % 2^(SHW + 1))

o_alu_res(opt, s1, s2) ==
  CASE opt = "ADD" -> (s1 + s2) % Size
    [] opt = "SUB" -> (s1 - s2) % Size
    [] opt = "AND" -> s1 & s2
    [] opt = "OR"  -> s1 | s2
    [] opt = "XOR" -> s1 ^^ s2
    [] opt = "SLL" -> (s1 * 2^(s2 % XLEN)) % Size
    [] opt = "SRL" -> s1 \div 2^(s2 % XLEN)
    [] opt = "SRA" -> tmp_res(s1, s2) % Size

(* The borrow of a subtraction one bit wider than the operands.            *)
o_sububit(s1, s2) == ((s1 - s2) % (2 * Size)) \div Size

(* exu.v less: signed comparison from the sign bits and the difference.    *)
less(s1, s2) ==
  CASE s2 = MinInt -> 0
    [] s2 # MinInt /\ s1 = MinInt -> 1
    [] OTHER -> IF Sign(s1) # Sign(s2) THEN Sign(s1)
                ELSE Sign(o_alu_res("SUB", s1, s2))

int_res(opt, s1, s2) ==
  CASE opt \in {"SLT", "BLT"} -> less(s1, s2)
    [] opt \in {"SLTU", "BLTU"} -> o_sububit(s1, s2)
    [] opt = "BEQ" -> Flag(o_alu_res("SUB", s1, s2) = 0)
    [] opt = "BNE" -> Flag(o_alu_res("SUB", s1, s2) # 0)
    [] opt = "BGE" -> 1 - less(s1, s2)
    [] opt = "BGEU" -> 1 - o_sububit(s1, s2)
    [] OTHER -> o_alu_res(opt, s1, s2)

-----------------------------------------------------------------------------
(* NEMU: word_t is unsigned, sword_t the same bits as a signed number,     *)
(* whose right shift fills with the sign.                                  *)

sword_t(w) == IF w >= MinInt THEN w - Size ELSE w

NemuRes(opt, s1, s2) ==
  LET shamt == s2 % XLEN IN
  CASE opt = "ADD" -> (s1 + s2) % Size
    [] opt = "SUB" -> (s1 - s2) % Size
    [] opt = "AND" -> s1 & s2
    [] opt = "OR"  -> s1 | s2
    [] opt = "XOR" -> s1 ^^ s2
    [] opt = "SLL" -> (s1 * 2^shamt) % Size
    [] opt = "SRL" -> s1 \div 2^shamt
    [] opt = "SRA" -> (sword_t(s1) \div 2^shamt) % Size
    [] opt \in {"SLT", "BLT"} -> Flag(sword_t(s1) < sword_t(s2))
    [] opt \in {"SLTU", "BLTU"} -> Flag(s1 < s2)
    [] opt = "BEQ" -> Flag(s1 = s2)
    [] opt = "BNE" -> Flag(s1 # s2)
    [] opt = "BGE" -> Flag(sword_t(s1) >= sword_t(s2))
    [] opt = "BGEU" -> Flag(s1 >= s2)

-----------------------------------------------------------------------------
Src2(opt) == IF opt = "SRA" THEN SraAmounts ELSE AluWord

AluInit ==
  /\ i_opt \in ExuOpts
  /\ i_src1 = 0 /\ i_src2 = 0

AluNext ==
  \/ i_src1' \in AluWord /\ UNCHANGED <<i_opt, i_src2>>
  \/ i_src2' \in Src2(i_opt) /\ UNCHANGED <<i_opt, i_src1>>

AluSpec == AluInit /\ [][AluNext]_aluVars

-----------------------------------------------------------------------------
(* The core computes what NEMU computes: signed comparison without a       *)
(* signed comparator, also where the difference overflows and at the most  *)
(* negative number; unsigned comparison from a borrow; the arithmetic      *)
(* shift from a double width logical one.  difftest's checkregs compares   *)
(* exactly this after every instruction.                                   *)
AluMatchesNemu == int_res(i_opt, i_src1, i_src2) = NemuRes(i_opt, i_src1, i_src2)

(* Second operands of SRA: those with no bit set just above the lowest SHW *)
(* bits, as every shift by an immediate has, and all of them.              *)
InRange == {w \in AluWord : (w \div XLEN) % 2 = 0}
AllAmounts == AluWord
=============================================================================
