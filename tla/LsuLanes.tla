------------------------------ MODULE LsuLanes ------------------------------
(***************************************************************************)
(* Byte and halfword accesses on a bus of words: the shifts, strobes and   *)
(* extensions of npc/vsrc/lsu.v, the word memory of npc/csrc/dpic.cpp      *)
(* behind it, and NEMU's byte addressed loads and stores as the reference. *)
(*                                                                         *)
(* A byte has ByteSize values (the code: 2^8), a word four bytes, lane 0   *)
(* lowest.  One step is one load or store; its timing is the business of   *)
(* NpcCore.                                                                *)
(***************************************************************************)
EXTENDS Integers, FiniteSets

CONSTANTS
  ByteSize,  \* values of a byte, an even number
  NWords     \* words of memory

ASSUME LanesAssumption ==
  ByteSize \in Nat \ {0} /\ ByteSize % 2 = 0 /\ NWords \in Nat \ {0}

VARIABLES
  pmem,     \* the simulated memory, a byte per address
  ref_pmem, \* NEMU's memory
  o_regld,  \* what the core's last load delivered
  ref_ld    \* what NEMU's last load delivered

lsuVars == <<pmem, ref_pmem, o_regld, ref_ld>>

(* The values of n bytes: a shift by n bytes is a product or a quotient    *)
(* with it.                                                                *)
Span(n) == <<1, ByteSize, ByteSize * ByteSize, ByteSize * ByteSize * ByteSize,
             ByteSize * ByteSize * ByteSize * ByteSize>>[n + 1]

Byte == 0 .. ByteSize - 1
WordSize == Span(4)
LsuWord == 0 .. WordSize - 1
Lanes == 0 .. 3
Addr == 0 .. 4 * NWords - 1

Loads == {"LB", "LH", "LW", "LBU", "LHU"}
Stores == {"SB", "SH", "SW"}

AccessLen(opt) == CASE opt \in {"LB", "LBU", "SB"} -> 1
              [] opt \in {"LH", "LHU", "SH"} -> 2
              [] OTHER -> 4

(* Byte l of a word, and the word made of the bytes b[0] .. b[3].          *)
ByteOf(w, l) == (w \div Span(l)) % ByteSize
WordOf(b) == b[0] + b[1] * Span(1) + b[2] * Span(2) + b[3] * Span(3)

(* The low n bytes of a word, and their value with the sign extended.      *)
Low(w, n) == w % Span(n)
SignExt(w, n) ==
  LET v == Low(w, n) IN
  IF v >= Span(n) \div 2 THEN v + WordSize - Span(n) ELSE v

Base(a) == a - (a % 4)

-----------------------------------------------------------------------------
(* lsu.v, store side.                                                      *)

wdata_int(regst, a) == (regst * Span(a % 4)) % WordSize

(* Lanes to write; lanes beyond the word fall off the shift.               *)
wstrb(opt, a) == {l + (a % 4) : l \in 0 .. AccessLen(opt) - 1} \cap Lanes

(* dpic.cpp pmem_write: the masks it knows, each written as one access of  *)
(* that many bytes; any other mask writes nothing.                         *)
KnownMasks == {{l} : l \in Lanes} \cup {{0, 1}, {2, 3}, Lanes}

pmem_write(m, waddr, wdata, wmask) ==
  [a \in Addr |-> IF /\ wmask \in KnownMasks
                     /\ Base(a) = Base(waddr) /\ a % 4 \in wmask
                  THEN ByteOf(wdata, a % 4) ELSE m[a]]

(* dpic.cpp pmem_read: the aligned word.                                   *)
pmem_read(m, raddr) == WordOf([l \in Lanes |-> m[Base(raddr) + l]])

(* lsu.v, load side: shift down, then select and extend.                   *)
rdata_int(rdata, a) == rdata \div Span(a % 4)

(* Mutation: lh is extended from the sign of its low byte.                 *)
regld_sign_of_low_byte(opt, rdata, a) ==
  LET d == rdata_int(rdata, a) IN
  CASE opt \in {"LB", "LH"} -> SignExt(d, 1)
    [] opt = "LW" -> d
    [] opt = "LBU" -> Low(d, 1)
    [] opt = "LHU" -> Low(d, 2)

(* u_rdata_mux.                                                            *)
regld(opt, rdata, a) ==
  LET d == rdata_int(rdata, a) IN
  CASE opt = "LB" -> SignExt(d, 1)
    [] opt = "LH" -> SignExt(d, 2)
    [] opt = "LW" -> d
    [] opt = "LBU" -> Low(d, 1)
    [] opt = "LHU" -> Low(d, 2)

-----------------------------------------------------------------------------
(* NEMU: host_read and host_write of len bytes at the address, and the     *)
(* extensions of inst.c.                                                   *)

host_read(m, a, len) ==
  WordOf([l \in Lanes |-> IF l < len THEN m[a + l] ELSE 0])

host_write(m, a, len, data) ==
  [c \in Addr |-> IF c \in a .. a + len - 1 THEN ByteOf(data, c - a) ELSE m[c]]

NemuLoad(opt, m, a) ==
  LET v == host_read(m, a, AccessLen(opt)) IN
  IF opt \in {"LB", "LH"} THEN SignExt(v, AccessLen(opt)) ELSE v

-----------------------------------------------------------------------------
(* Accesses are aligned to their size: compilers emit no others, and the   *)
(* core has no trap for them.                                              *)
Aligned(opt, a) == a % AccessLen(opt) = 0

LsuInit ==
  /\ pmem = [a \in Addr |-> 0] /\ ref_pmem = pmem
  /\ o_regld = 0 /\ ref_ld = 0

Store(opt, a, regst) ==
  /\ Aligned(opt, a)
  /\ pmem' = pmem_write(pmem, a, wdata_int(regst, a), wstrb(opt, a))
  /\ ref_pmem' = host_write(ref_pmem, a, AccessLen(opt), Low(regst, AccessLen(opt)))
  /\ UNCHANGED <<o_regld, ref_ld>>

Load(opt, a) ==
  /\ Aligned(opt, a)
  /\ o_regld' = regld(opt, pmem_read(pmem, a), a)
  /\ ref_ld' = NemuLoad(opt, ref_pmem, a)
  /\ UNCHANGED <<pmem, ref_pmem>>

LsuNext ==
  \/ \E opt \in Stores, a \in Addr, regst \in LsuWord : Store(opt, a, regst)
  \/ \E opt \in Loads, a \in Addr : Load(opt, a)

LsuSpec == LsuInit /\ [][LsuNext]_lsuVars

-----------------------------------------------------------------------------
(* After any sequence of stores of any width the simulated memory and      *)
(* NEMU's hold the same bytes: no store spills into a neighbouring lane or *)
(* word and none is lost to a mask that pmem_write does not know.          *)
SameBytes == pmem = ref_pmem

(* Every load delivers what NEMU's delivers, sign included.                *)
SameLoad == o_regld = ref_ld

(* Memory and loads together: no sequence of stores and loads of any width *)
(* tells the core's byte lanes from NEMU's.                                *)
LanesMatchNemu == SameBytes /\ SameLoad
=============================================================================
