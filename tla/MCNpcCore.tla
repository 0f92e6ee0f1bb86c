----------------------------- MODULE MCNpcCore ------------------------------
(***************************************************************************)
(* Instances of NpcCore: six memory cells (four of code and data, one      *)
(* device register, one hole in the address map), three registers, and an  *)
(* instruction set with one or two encodings of every kind.                *)
(***************************************************************************)
EXTENDS NpcCore

I(op, fn, rd, a, b, imm, c) ==
  [op |-> op, fn |-> fn, rd |-> rd, rs1 |-> a, rs2 |-> b, imm |-> imm,
   csr |-> c]

MCFns == {"add", "ltu", "or", "clear"}

(* Bit i of a word below 32.                                               *)
Bit(w, i) == (w \div 2^i) % 2
Bitwise(w, v, Op(_, _)) ==
  (Op(Bit(w, 0), Bit(v, 0)) + 2 * Op(Bit(w, 1), Bit(v, 1))
   + 4 * Op(Bit(w, 2), Bit(v, 2)) + 8 * Op(Bit(w, 3), Bit(v, 3))
   + 16 * Op(Bit(w, 4), Bit(v, 4))) % WordSize

MCAlu(fn, a, b) ==
  CASE fn = "add" -> Add(a, b)
    [] fn = "ltu" -> IF a < b THEN 1 ELSE 0
    [] fn = "or" -> Bitwise(a, b, LAMBDA x, y : IF x + y > 0 THEN 1 ELSE 0)
    [] fn = "clear" -> Bitwise(a, b, LAMBDA x, y : IF y = 0 THEN x ELSE 0)

(* The instructions both models implement.  Register 1 holds multiples of  *)
(* four only, so that jalr through it stays aligned; words 0, 4, 8, .. are *)
(* what a store of register 1 into the code can write.  The branch goes    *)
(* back by one instruction: its offset is -4.                              *)
Common ==
  [w \in Word |->
    CASE w = 0 -> I("ebreak", "add", 0, 0, 0, 0, "mepc")
      [] w = 1 -> I("load", "add", 2, 0, 0, 12, "mepc")
      [] w = 2 -> I("store", "add", 0, 1, 1, 4, "mepc")
      [] w = 3 -> I("branch", "ltu", 0, 0, 1, 20, "mepc")
      [] w = 4 -> I("alui", "add", 1, 1, 0, 4, "mepc")
      [] w = 5 -> I("jal", "add", 1, 0, 0, 8, "mepc")
      [] w = 6 -> I("jalr", "add", 1, 1, 0, 4, "mepc")
      [] w = 7 -> I("csrrw", "add", 2, 1, 0, 0, "mtvec")
      [] w = 8 -> I("ecall", "add", 0, 0, 0, 0, "mepc")
      [] w = 9 -> I("mret", "add", 0, 0, 0, 0, "mepc")
      [] w = 10 -> I("csrrs", "add", 1, 1, 0, 0, "mepc")
      [] w = 11 -> I("lui", "add", 2, 1, 0, 8, "mepc")
      [] w = 12 -> I("alu", "add", 1, 1, 1, 0, "mepc")
      [] w = 13 -> I("auipc", "add", 1, 1, 0, 4, "mepc")
      [] w = 14 -> I("load", "add", 2, 0, 0, 16, "mepc")
      [] w = 15 -> I("store", "add", 0, 0, 1, 16, "mepc")
      [] w = 16 -> I("load", "add", 2, 0, 0, 20, "mepc")
      [] w = 17 -> I("store", "add", 0, 0, 2, 20, "mepc")
      [] w = 18 -> I("csrrs", "add", 2, 0, 0, 0, "mcause")
      [] w = 20 -> I("store", "add", 0, 0, 2, 8, "mepc")
      [] OTHER -> I("inv", "add", 0, 0, 0, 0, "mepc")]

(* The same with what only the core implements.                            *)
CoreOnly ==
  [Common EXCEPT ![7] = I("csrrc", "add", 2, 1, 0, 0, "mtvec"),
                 ![10] = I("csrrsi", "add", 1, 1, 0, 4, "mepc"),
                 ![11] = I("fence_i", "add", 0, 0, 0, 0, "mepc"),
                 ![13] = I("zero", "add", 0, 0, 0, 0, "mepc"),
                 ![18] = I("csrrwi", "add", 2, 1, 0, 4, "mtvec")]

(* jalr with an odd offset.                                                *)
OddJalr == [Common EXCEPT ![6] = I("jalr", "add", 1, 1, 0, 5, "mepc")]

Images(first, second, third, fourth) ==
  {<<a, b, c, d>> : a \in first, b \in second, c \in third, d \in fourth}

(* The programs in which the listed words are the four code cells; the     *)
(* device cell reads as ebreak when it is fetched.                         *)
Program(q) == [c \in Cells |-> IF c < 4 THEN q[c + 1] ELSE 0]

AllPrograms ==
  {Program(q) : q \in Images(1 .. 18, 1 .. 18, {2, 6, 9, 20},
                             {4, 5})}
OddPrograms == {Program(<<6, 6, 6, 6>>)}
=============================================================================
