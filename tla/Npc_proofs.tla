----------------------------- MODULE Npc_proofs -----------------------------
(***************************************************************************)
(* Proofs about the processor, for every memory size, register count,      *)
(* instruction encoding, arithmetic unit, program and delay of the bus.    *)
(* First about the core by itself (NpcCore); then that it implements       *)
(* NEMU's interpreter, and that the difftest harness around it             *)
(* (NpcDifftest) never reports a difference and never skips an instruction *)
(* for nothing.                                                            *)
(***************************************************************************)
EXTENDS NpcDifftest, TLAPS

-----------------------------------------------------------------------------
(* Words, cells and registers.                                             *)

(* Address arithmetic wraps: every sum is a word.                          *)
LEMMA AddWord ==
  ASSUME NEW a \in Int, NEW b \in Int
  PROVE  Add(a, b) \in Word
<1>1. WordSize \in Nat \ {0}
  BY Rv32Assumption DEF WordSize
<1> HIDE DEF WordSize
<1>2. (a + b) % WordSize \in 0 .. WordSize - 1
  BY <1>1
<1> QED
  BY <1>2 DEF Add, Word

(* Words are integers.                                                     *)
LEMMA WordInt == \A a \in Word : a \in Int
BY DEF Word

(* Zero and the constant 4 are words.                                      *)
LEMMA ConstWords ==
  0 \in Word /\ 4 % WordSize \in Word /\ IRQ_ECALL \in Word
<1>1. WordSize \in Nat \ {0}
  BY Rv32Assumption DEF WordSize
<1> HIDE DEF WordSize
<1> QED
  BY <1>1 DEF Word, IRQ_ECALL

(* Four consecutive addresses share a cell.                                *)
LEMMA CellType ==
  ASSUME NEW a \in Word
  PROVE  Cell(a) \in Cells
<1>1. NWords \in Nat
  BY Rv32Assumption
<1>2. a \in Int /\ 0 <= a /\ a < 4 * NWords
  BY <1>1 DEF Word, WordSize
<1>3. a \div 4 \in Int /\ 0 <= a \div 4 /\ a \div 4 < NWords
  BY <1>1, <1>2, SMT
<1> QED
  BY <1>1, <1>3 DEF Cell, Cells

(* A register write keeps the register file a register file.               *)
LEMMA WriteRegType ==
  ASSUME NEW r \in [Regs -> Word], NEW i \in Regs, NEW v \in Word
  PROVE  WriteReg(r, i, v) \in [Regs -> Word]
BY ConstWords DEF WriteReg

-----------------------------------------------------------------------------
(* The decoded instruction is an instruction.                              *)
LEMMA CurType ==
  ASSUME TypeOK
  PROVE  /\ cur \in Instr
         /\ cur.op \in Ops /\ cur.fn \in Fns /\ cur.imm \in Word
         /\ cur.rd \in Regs /\ cur.rs1 \in Regs /\ cur.rs2 \in Regs
         /\ cur.csr \in Csrs
<1>1. cur \in Instr
  BY Rv32Assumption DEF TypeOK, cur
<1> QED
  BY <1>1 DEF Instr

(* Operands and results of the execution unit are words.                   *)
LEMMA ExuType ==
  ASSUME TypeOK
  PROVE  /\ rs1 \in Word /\ rs2 \in Word /\ csrs \in Word
         /\ src1 \in Word /\ src2 \in Word /\ int_res \in Word
         /\ exu_res \in Word /\ exu_csrd \in Word /\ pc_next \in Word
<1> USE CurType, ConstWords
<1> HIDE DEF cur
<1>0. 0 \in Regs
  BY Rv32Assumption DEF Regs
<1>1. rs1 \in Word
  BY <1>0 DEF rs1, TypeOK
<1>2. rs2 \in Word
  BY DEF rs2, TypeOK
<1>3. csrs \in Word
  BY DEF csrs, csrsren, TypeOK
<1>4. src1 \in Word
  BY <1>1 DEF src1, TypeOK
<1>5. src2 \in Word
  BY <1>2 DEF src2
<1>6. int_res \in Word
  <2>1. Alu(cur.fn, src1, src2) \in Word
    BY <1>4, <1>5, Rv32Assumption
  <2>2. Add(src1, src2) \in Word
    BY <1>4, <1>5, AddWord, WordInt
  <2> QED
    BY <2>1, <2>2 DEF int_res
<1>7. exu_res \in Word
  BY <1>3, <1>6 DEF exu_res
<1>8. exu_csrd \in Word
  <2>1. "or" \in Fns /\ "clear" \in Fns
    BY Rv32Assumption
  <2>2. sys_rs1 \in Word
    BY <1>1 DEF sys_rs1
  <2>3. /\ Alu("or", csrs, sys_rs1) \in Word
        /\ Alu("clear", csrs, sys_rs1) \in Word
    BY <1>3, <2>1, <2>2, Rv32Assumption
  <2> QED
    BY <2>2, <2>3 DEF exu_csrd
<1>9. pc_next \in Word
  <2>1. csr["mtvec"] \in Word /\ csr["mepc"] \in Word
    BY DEF TypeOK, Csrs
  <2>2. Add(pc, cur.imm) \in Word /\ Add(rs1, cur.imm) \in Word
    BY <1>1, AddWord, WordInt DEF TypeOK
  <2>3. Add(pc, 4) \in Word
    BY AddWord, WordInt DEF TypeOK
  <2> QED
    BY <2>1, <2>2, <2>3 DEF pc_next
<1> QED
  BY <1>1, <1>2, <1>3, <1>4, <1>5, <1>6, <1>7, <1>8, <1>9

(* What decode latches fits the writeback registers.                       *)
LEMMA LatchedType ==
  ASSUME TypeOK
  PROVE  Latched \in Writeback /\ opt \in LsuOpts
<1> USE CurType, ExuType
<1>1. opt \in LsuOpts
  BY DEF opt, LsuOpts
<1>2. csr["mstatus"] \in Word /\ pc \in Word
  BY DEF TypeOK, Csrs
<1>3. rdwen \in BOOLEAN /\ csrdwen \in BOOLEAN
  BY DEF rdwen, csrdwen, csrsren
<1> QED
  BY <1>1, <1>2, <1>3 DEF Latched, Writeback

-----------------------------------------------------------------------------
(* Type correctness, unit by unit.                                         *)

(* The reset values are typed.                                             *)
LEMMA InitType == Init => TypeOK
<1> SUFFICES ASSUME Init PROVE TypeOK
  OBVIOUS
<1> USE ConstWords
<1>1. pc \in Word /\ pc_reg \in Word /\ gpr \in [Regs -> Word]
      /\ csr \in [Csrs -> Word] /\ mem \in [Cells -> Word]
  BY Rv32Assumption, ProgramsAssumption DEF Init, Reset
<1>2. ResetWriteback \in Writeback
  <2>1. 0 \in Regs
    BY Rv32Assumption DEF Regs
  <2> QED
    BY <2>1 DEF ResetWriteback, Writeback, Csrs
<1> QED
  BY <1>1, <1>2 DEF Init, Reset, TypeOK, SlaveStates, LsuOpts

(* The fetch unit keeps its registers typed.                               *)
LEMMA IfuType ==
  ASSUME TypeOK, NEW b \in BOOLEAN, Ifu(b), FetchSlave(b)
  PROVE  /\ f_r_done' \in BOOLEAN /\ f_arvalid' \in BOOLEAN
         /\ f_rready' \in BOOLEAN /\ f_araddr' \in Word /\ instr' \in Word
         /\ f_slave' \in SlaveStates /\ f_rdata' \in Word
<1>1. f_r_done' \in BOOLEAN /\ f_arvalid' \in BOOLEAN /\ f_rready' \in BOOLEAN
  BY DEF Ifu
<1>2. f_araddr' \in Word /\ instr' \in Word
  BY DEF Ifu, TypeOK
<1>3. mem[Cell(f_araddr)] \in Word
  BY CellType DEF TypeOK
<1>4. f_slave' \in SlaveStates /\ f_rdata' \in Word
  BY <1>3 DEF FetchSlave, fetchVars, Answer, TypeOK, SlaveStates
<1> QED
  BY <1>1, <1>2, <1>4

(* So does the read side of the load/store unit.                           *)
LEMMA ReadType ==
  ASSUME TypeOK, NEW b \in BOOLEAN, LsuRead(b), ReadSlave(b)
  PROVE  /\ r_done' \in BOOLEAN /\ arvalid' \in BOOLEAN /\ rready' \in BOOLEAN
         /\ araddr' \in Word /\ r_slave' \in SlaveStates /\ r_rdata' \in Word
<1>1. r_done' \in BOOLEAN /\ arvalid' \in BOOLEAN /\ rready' \in BOOLEAN
  BY DEF LsuRead
<1>2. araddr' \in Word
  BY ExuType DEF LsuRead, TypeOK
<1>3. mem[Cell(araddr)] \in Word
  BY CellType DEF TypeOK
<1>4. r_slave' \in SlaveStates /\ r_rdata' \in Word
  BY <1>3 DEF ReadSlave, Answer, TypeOK, SlaveStates
<1> QED
  BY <1>1, <1>2, <1>4

(* And the write side, with the memory behind it.                          *)
LEMMA WriteType ==
  ASSUME TypeOK, NEW a \in BOOLEAN, NEW b \in BOOLEAN,
         LsuWrite(a, b), WriteSlave(a, b)
  PROVE  /\ w_done' \in BOOLEAN /\ awvalid' \in BOOLEAN /\ wvalid' \in BOOLEAN
         /\ wlast_reg' \in BOOLEAN /\ bready' \in BOOLEAN
         /\ awaddr' \in Word /\ wdata' \in Word
         /\ aw_got' \in BOOLEAN /\ w_got' \in BOOLEAN
         /\ b_resp' \in SlaveStates /\ mem' \in [Cells -> Word]
<1>1. /\ w_done' \in BOOLEAN /\ awvalid' \in BOOLEAN /\ wvalid' \in BOOLEAN
      /\ wlast_reg' \in BOOLEAN /\ bready' \in BOOLEAN
  BY DEF LsuWrite
<1>2. awaddr' \in Word /\ wdata' \in Word
  BY ExuType DEF LsuWrite, TypeOK
<1>3. aw_got' \in BOOLEAN /\ w_got' \in BOOLEAN
  BY DEF WriteSlave, TypeOK
<1>4. b_resp' \in SlaveStates
  BY DEF WriteSlave, Answer, TypeOK, SlaveStates
<1>5. mem' \in [Cells -> Word]
  BY CellType DEF WriteSlave, TypeOK
<1> QED
  BY <1>1, <1>2, <1>3, <1>4, <1>5

(* And the units that write the architectural state.                       *)
LEMMA ArchType ==
  ASSUME TypeOK, Bru, Regfile, Csrfile, Wbu, LsuCommon
  PROVE  /\ pc' \in Word /\ pc_reg' \in Word
         /\ gpr' \in [Regs -> Word] /\ csr' \in [Csrs -> Word]
         /\ wb' \in Writeback /\ wbu_ready' \in BOOLEAN
         /\ lsu_opt' \in LsuOpts /\ valid_r' \in BOOLEAN
<1>1. pc' \in Word /\ pc_reg' \in Word
  BY ExuType DEF Bru, TypeOK
<1>2. wb' \in Writeback /\ lsu_opt' \in LsuOpts
  BY LatchedType DEF Wbu, LsuCommon, TypeOK
<1>3. wbu_ready' \in BOOLEAN /\ valid_r' \in BOOLEAN
  BY DEF Wbu, LsuCommon, lsu_valid, idu_valid
<1>4. /\ wb.rdid \in Regs /\ wb.exu_res \in Word /\ wb.csrd \in Word
      /\ wb.mepc \in Word /\ wb.mstatus \in Word
  BY DEF TypeOK, Writeback
<1>5. gpr' \in [Regs -> Word]
  <2>1. lsu_res \in Word
    BY ConstWords DEF lsu_res, TypeOK
  <2>2. (IF wb.ld_en THEN lsu_res ELSE wb.exu_res) \in Word
    BY <2>1, <1>4
  <2> QED
    BY <2>2, <1>4, WriteRegType DEF Regfile, TypeOK
<1>6. csr' \in [Csrs -> Word]
  <2>1. CASE ~lsu_valid
    BY <2>1 DEF Csrfile, TypeOK
  <2>2. CASE lsu_valid
    <3> DEFINE new(c) ==
          CASE c = "mepc" /\ wb.mepc_wen -> wb.mepc
            [] c = "mcause" /\ wb.mepc_wen -> IRQ_ECALL
            [] c = "mstatus" /\ wb.mstatus_wen -> wb.mstatus
            [] OTHER -> IF wb.csrdwen /\ wb.csrdid = c
                        THEN wb.csrd ELSE csr[c]
    <3>1. ASSUME NEW c \in Csrs PROVE new(c) \in Word
      <4>1. csr[c] \in Word
        BY DEF TypeOK
      <4> QED
        BY <4>1, <1>4, ConstWords
    <3>2. csr' = [c \in Csrs |-> new(c)]
      BY <2>2 DEF Csrfile
    <3> HIDE DEF new
    <3> QED
      BY <3>1, <3>2
  <2> QED
    BY <2>1, <2>2
<1> QED
  BY <1>1, <1>2, <1>3, <1>5, <1>6

(* Every register of the core keeps its width, in every cycle.             *)
THEOREM TypeCorrect == Spec => []TypeOK
<1>1. Init => TypeOK
  BY InitType
<1>2. TypeOK /\ [Next]_vars => TypeOK'
  <2> SUFFICES ASSUME TypeOK, [Next]_vars PROVE TypeOK'
    OBVIOUS
  <2>1. CASE Cycle
    <3>1. PICK f_ar \in BOOLEAN, l_ar \in BOOLEAN, l_aw \in BOOLEAN,
               l_w \in BOOLEAN :
            /\ Ifu(f_ar) /\ FetchSlave(f_ar)
            /\ LsuRead(l_ar) /\ ReadSlave(l_ar)
            /\ LsuWrite(l_aw, l_w) /\ WriteSlave(l_aw, l_w)
      BY <2>1 DEF Cycle
    <3>2. status' \in {"run", "finish", "decode_error", "fatal"}
      BY <2>1 DEF Cycle, TypeOK
    <3>3. LsuCommon /\ Wbu /\ Bru /\ Regfile /\ Csrfile
      BY <2>1 DEF Cycle
    <3>4. /\ f_r_done' \in BOOLEAN /\ f_arvalid' \in BOOLEAN
          /\ f_rready' \in BOOLEAN /\ f_araddr' \in Word /\ instr' \in Word
          /\ f_slave' \in SlaveStates /\ f_rdata' \in Word
      BY <3>1, IfuType
    <3>5. /\ r_done' \in BOOLEAN /\ arvalid' \in BOOLEAN
          /\ rready' \in BOOLEAN /\ araddr' \in Word
          /\ r_slave' \in SlaveStates /\ r_rdata' \in Word
      BY <3>1, ReadType
    <3>6. /\ w_done' \in BOOLEAN /\ awvalid' \in BOOLEAN /\ wvalid' \in BOOLEAN
          /\ wlast_reg' \in BOOLEAN /\ bready' \in BOOLEAN
          /\ awaddr' \in Word /\ wdata' \in Word
          /\ aw_got' \in BOOLEAN /\ w_got' \in BOOLEAN
          /\ b_resp' \in SlaveStates /\ mem' \in [Cells -> Word]
      BY <3>1, WriteType
    <3>7. /\ pc' \in Word /\ pc_reg' \in Word
          /\ gpr' \in [Regs -> Word] /\ csr' \in [Csrs -> Word]
          /\ wb' \in Writeback /\ wbu_ready' \in BOOLEAN
          /\ lsu_opt' \in LsuOpts /\ valid_r' \in BOOLEAN
      BY <3>3, ArchType
    <3> QED
      BY <3>2, <3>4, <3>5, <3>6, <3>7 DEF TypeOK
  <2>2. CASE Stop
    <3>1. status' \in {"run", "finish", "decode_error", "fatal"}
      BY <2>2, Zenon DEF Stop
    <3> QED
      BY <2>2, <3>1 DEF Stop, TypeOK, archVars, ifuVars, fetchVars, lsuVars,
                        dataVars
  <2>3. CASE UNCHANGED vars
    BY <2>3 DEF vars, TypeOK, archVars, ifuVars, fetchVars, lsuVars, dataVars
  <2> QED
    BY <2>1, <2>2, <2>3 DEF Next
<1> QED
  BY <1>1, <1>2, PTL DEF Spec

-----------------------------------------------------------------------------
(* One instruction in flight.                                              *)

(* In a quiet port the read slave stays idle and the registers at rest.    *)
LEMMA ReadStaysQuiet ==
  ASSUME TypeOK, ReadQuiet, NEW b \in BOOLEAN, LsuRead(b), ReadSlave(b),
         ~(idu_valid /\ opt = "load")
  PROVE  ReadQuiet'
BY DEF ReadQuiet, LsuRead, ReadSlave, r_rvalid, Answered, TypeOK

(* The same for the write side.                                            *)
LEMMA WriteStaysQuiet ==
  ASSUME TypeOK, WriteQuiet, NEW a \in BOOLEAN, NEW b \in BOOLEAN,
         LsuWrite(a, b), WriteSlave(a, b), ~(idu_valid /\ opt = "store")
  PROVE  WriteQuiet'
BY DEF WriteQuiet, LsuWrite, WriteSlave, bvalid, Answered, wlast, TypeOK

(* And for the fetch port while nothing was written back.                  *)
LEMMA FetchStaysQuiet ==
  ASSUME TypeOK, FetchQuiet, NEW b \in BOOLEAN, Ifu(b), FetchSlave(b),
         ~wbu_ready
  PROVE  FetchQuiet'
BY DEF FetchQuiet, Ifu, FetchSlave, f_rvalid, idu_valid, Answered, TypeOK

(* With the fetch port quiet no instruction is decoded.                    *)
LEMMA QuietNoDecode ==
  ASSUME FetchQuiet
  PROVE  ~idu_valid
BY DEF FetchQuiet, idu_valid, f_rvalid, Answered

(* The units of one running cycle, for the readies the slaves chose.       *)
Units(f_ar, l_ar, l_aw, l_w) ==
  /\ Ifu(f_ar) /\ FetchSlave(f_ar)
  /\ LsuRead(l_ar) /\ ReadSlave(l_ar)
  /\ LsuWrite(l_aw, l_w) /\ WriteSlave(l_aw, l_w)
  /\ LsuCommon /\ Wbu /\ Bru /\ Regfile /\ Csrfile

(* A written back instruction is followed by a fetch.                      *)
LEMMA StartStep ==
  ASSUME TypeOK, Start,
         NEW f_ar \in BOOLEAN, NEW l_ar \in BOOLEAN, NEW l_aw \in BOOLEAN,
         NEW l_w \in BOOLEAN, Units(f_ar, l_ar, l_aw, l_w)
  PROVE  Fetching'
<1>1. ~idu_valid
  BY QuietNoDecode DEF Start
<1>2. ReadQuiet' /\ WriteQuiet'
  BY <1>1, ReadStaysQuiet, WriteStaysQuiet DEF Start, Units
<1>3. ~valid_r' /\ ~wbu_ready'
  BY <1>1 DEF Units, LsuCommon, Wbu, lsu_valid, Start, ReadQuiet, WriteQuiet
<1>4. ReadPending(f_r_done, f_arvalid, f_rready, f_slave)'
  BY <1>1 DEF Start, FetchQuiet, ReadPending, Units, Ifu, FetchSlave, f_rvalid,
              Answered, TypeOK
<1> QED
  BY <1>2, <1>3, <1>4 DEF Fetching

(* A fetch goes on until its word is decoded, which starts execution.      *)
LEMMA FetchingStep ==
  ASSUME TypeOK, Fetching, Running,
         NEW f_ar \in BOOLEAN, NEW l_ar \in BOOLEAN, NEW l_aw \in BOOLEAN,
         NEW l_w \in BOOLEAN, Units(f_ar, l_ar, l_aw, l_w)
  PROVE  IF idu_valid THEN Executing' ELSE Fetching'
<1>1. ~wbu_ready'
  BY DEF Units, Wbu, lsu_valid, Fetching, ReadQuiet, WriteQuiet
<1>2. CASE ~idu_valid
  <2>1. ReadQuiet' /\ WriteQuiet'
    BY <1>2, ReadStaysQuiet, WriteStaysQuiet DEF Fetching, Units
  <2>2. ~valid_r'
    BY <1>2 DEF Units, LsuCommon
  <2>3. ReadPending(f_r_done, f_arvalid, f_rready, f_slave)'
    BY <1>2 DEF Fetching, ReadPending, Units, Ifu, FetchSlave, f_rvalid,
                fetchVars, Answered, Answer, idu_valid, TypeOK
  <2> QED
    BY <1>1, <1>2, <2>1, <2>2, <2>3 DEF Fetching
<1>3. CASE idu_valid
  <2>1. FetchQuiet'
    BY <1>3 DEF Fetching, ReadPending, Units, Ifu, FetchSlave, f_rvalid,
                fetchVars, Answered, idu_valid, FetchQuiet, TypeOK
  <2>2. lsu_opt' = opt /\ valid_r'
    BY <1>3 DEF Units, LsuCommon
  <2>3. CASE opt = "nop"
    <3>1. ReadQuiet' /\ WriteQuiet'
      BY <2>3, ReadStaysQuiet, WriteStaysQuiet DEF Fetching, Units
    <3> QED
      BY <1>1, <1>3, <2>1, <2>2, <2>3, <3>1 DEF Computing, Executing
  <2>4. CASE opt = "load"
    <3>1. WriteQuiet'
      BY <2>4, WriteStaysQuiet DEF Fetching, Units
    <3>2. ReadPending(r_done, arvalid, rready, r_slave)'
      BY <1>3, <2>4 DEF Fetching, ReadQuiet, ReadPending, Units, LsuRead,
                        ReadSlave, r_rvalid, Answered, TypeOK
    <3> QED
      BY <1>1, <1>3, <2>1, <2>2, <2>4, <3>1, <3>2 DEF Loading, Executing
  <2>5. CASE opt = "store"
    <3>1. ReadQuiet'
      BY <2>5, ReadStaysQuiet DEF Fetching, Units
    <3>2. /\ ~w_done' /\ awvalid' /\ wvalid' /\ ~aw_got' /\ ~w_got'
          /\ b_resp' = "idle" /\ ~bready' /\ ~wlast_reg'
      BY <1>3, <2>5 DEF Fetching, WriteQuiet, Units, LsuWrite, WriteSlave,
                        bvalid, Answered, wlast, TypeOK
    <3> QED
      BY <1>1, <1>3, <2>1, <2>2, <2>5, <3>1, <3>2 DEF Storing, Executing
  <2> QED
    BY <2>3, <2>4, <2>5 DEF opt
<1> QED
  BY <1>2, <1>3

(* An operation without memory access completes in its first cycle.        *)
LEMMA ComputingStep ==
  ASSUME TypeOK, Computing,
         NEW f_ar \in BOOLEAN, NEW l_ar \in BOOLEAN, NEW l_aw \in BOOLEAN,
         NEW l_w \in BOOLEAN, Units(f_ar, l_ar, l_aw, l_w)
  PROVE  lsu_valid /\ Start'
<1>1. ~idu_valid
  BY QuietNoDecode DEF Computing
<1>2. FetchQuiet' /\ ReadQuiet' /\ WriteQuiet'
  BY <1>1, FetchStaysQuiet, ReadStaysQuiet, WriteStaysQuiet
     DEF Computing, Units
<1>3. lsu_valid
  BY DEF lsu_valid, Computing, ReadQuiet, WriteQuiet
<1> QED
  BY <1>1, <1>2, <1>3 DEF Units, Wbu, LsuCommon, Start

(* A load completes exactly when its answer is taken.                      *)
LEMMA LoadingStep ==
  ASSUME TypeOK, Loading,
         NEW f_ar \in BOOLEAN, NEW l_ar \in BOOLEAN, NEW l_aw \in BOOLEAN,
         NEW l_w \in BOOLEAN, Units(f_ar, l_ar, l_aw, l_w)
  PROVE  IF lsu_valid THEN Start' ELSE Loading'
<1>1. ~idu_valid
  BY QuietNoDecode DEF Loading
<1>2. FetchQuiet' /\ WriteQuiet'
  BY <1>1, FetchStaysQuiet, WriteStaysQuiet DEF Loading, Units
<1>3. lsu_valid <=> r_rvalid /\ rready
  BY DEF lsu_valid, Loading, WriteQuiet, ReadPending, TypeOK
<1>4. ~valid_r' /\ lsu_opt' = "load" /\ wbu_ready' = lsu_valid
  BY <1>1 DEF Units, LsuCommon, Wbu, Loading
<1>5. CASE lsu_valid
  <2>1. ReadQuiet'
    BY <1>1, <1>3, <1>5 DEF Loading, ReadPending, Units, LsuRead, ReadSlave,
                  r_rvalid, Answered, ReadQuiet, TypeOK
  <2> QED
    BY <1>2, <1>4, <1>5, <2>1 DEF Start
<1>6. CASE ~lsu_valid
  <2>1. ReadPending(r_done, arvalid, rready, r_slave)'
    BY <1>1, <1>3, <1>6 DEF Loading, ReadPending, Units, LsuRead, ReadSlave,
                  r_rvalid, Answered, Answer, TypeOK
  <2> QED
    BY <1>2, <1>4, <1>6, <2>1 DEF Loading
<1> QED
  BY <1>5, <1>6

(* A store completes exactly when its response is taken.                   *)
LEMMA StoringStep ==
  ASSUME TypeOK, Storing,
         NEW f_ar \in BOOLEAN, NEW l_ar \in BOOLEAN, NEW l_aw \in BOOLEAN,
         NEW l_w \in BOOLEAN, Units(f_ar, l_ar, l_aw, l_w)
  PROVE  IF lsu_valid THEN Start' ELSE Storing'
<1>1. ~idu_valid
  BY QuietNoDecode DEF Storing
<1>2. FetchQuiet' /\ ReadQuiet'
  BY <1>1, FetchStaysQuiet, ReadStaysQuiet DEF Storing, Units
<1>3. lsu_valid <=> bvalid /\ bready
  BY DEF lsu_valid, Storing, ReadQuiet, r_rvalid, Answered, TypeOK
<1>4. ~valid_r' /\ lsu_opt' = "store" /\ wbu_ready' = lsu_valid
  BY <1>1 DEF Units, LsuCommon, Wbu, Storing
<1>5. CASE lsu_valid
  <2>1. WriteQuiet'
    BY <1>1, <1>3, <1>5 DEF Storing, Units, LsuWrite, WriteSlave, bvalid,
                  Answered, WriteQuiet, wlast, TypeOK
  <2> QED
    BY <1>2, <1>4, <1>5, <2>1 DEF Start
<1>6. CASE ~lsu_valid
  <2> USE <1>1, <1>3, <1>6 DEF Storing, Units, LsuWrite, WriteSlave, bvalid,
                               Answered, Answer, wlast, TypeOK
  <2>1. CASE b_resp = "idle"
    <3>1. /\ ~w_done' /\ ~bready'
          /\ awvalid' = ~aw_got' /\ wvalid' = ~w_got'
          /\ (b_resp' = "idle") = ~(aw_got' /\ w_got')
          /\ wlast_reg' => w_got' /\ b_resp' \in {"idle", "busy"}
      BY <2>1
    <3> QED
      BY <1>2, <1>4, <3>1, <2>1
  <2>2. CASE b_resp = "busy"
    BY <1>2, <1>4, <2>2
  <2>3. CASE bvalid
    BY <1>2, <1>4, <2>3
  <2> QED
    BY <2>1, <2>2, <2>3 DEF SlaveStates
<1> QED
  BY <1>5, <1>6

(* A stopped simulation, or a step that changes nothing, keeps a phase.    *)
LEMMA FrozenPhase ==
  ASSUME OneInFlight, UNCHANGED <<archVars, pc_reg, ifuVars, fetchVars, lsuVars,
                                  dataVars, wb, wbu_ready>>
  PROVE  OneInFlight'
BY DEF OneInFlight, Start, Fetching, Computing, Loading, Storing, FetchQuiet,
       ReadQuiet, WriteQuiet, ReadPending, Answered, bvalid, archVars, ifuVars,
       fetchVars, lsuVars, dataVars

(* The choice of the slaves in a cycle.                                    *)
LEMMA CycleUnits ==
  ASSUME Cycle
  PROVE  /\ Running /\ UNCHANGED status
         /\ \E f_ar, l_ar, l_aw, l_w \in BOOLEAN : Units(f_ar, l_ar, l_aw, l_w)
BY DEF Cycle, Units

(* Reset leaves the core ready to fetch.                                   *)
LEMMA InitPhase == Init => Start
BY DEF Init, Reset, Start, FetchQuiet, ReadQuiet, WriteQuiet

(* Whatever the slaves' latencies and the program, at most one instruction *)
(* is in flight and a port not in use is at rest.                          *)
THEOREM SingleIssue == Spec => []OneInFlight
<1>1. Init => OneInFlight
  BY InitPhase DEF OneInFlight
<1>2. TypeOK /\ OneInFlight /\ [Next]_vars => OneInFlight'
  <2> SUFFICES ASSUME TypeOK, OneInFlight, [Next]_vars PROVE OneInFlight'
    OBVIOUS
  <2>1. CASE Cycle
    <3>1. Running
      BY <2>1, CycleUnits
    <3>2. PICK f_ar \in BOOLEAN, l_ar \in BOOLEAN, l_aw \in BOOLEAN,
               l_w \in BOOLEAN : Units(f_ar, l_ar, l_aw, l_w)
      BY <2>1, CycleUnits
    <3>3. CASE Start
      BY <3>2, <3>3, StartStep DEF OneInFlight
    <3>4. CASE Fetching
      BY <3>1, <3>2, <3>4, FetchingStep DEF OneInFlight, Executing
    <3>5. CASE Computing
      BY <3>2, <3>5, ComputingStep DEF OneInFlight
    <3>6. CASE Loading
      BY <3>2, <3>6, LoadingStep DEF OneInFlight
    <3>7. CASE Storing
      BY <3>2, <3>7, StoringStep DEF OneInFlight
    <3> QED
      BY <3>3, <3>4, <3>5, <3>6, <3>7 DEF OneInFlight
  <2>2. CASE Stop
    BY <2>2, FrozenPhase DEF Stop
  <2>3. CASE UNCHANGED vars
    BY <2>3, FrozenPhase DEF vars
  <2> QED
    BY <2>1, <2>2, <2>3 DEF Next
<1> QED
  BY <1>1, <1>2, TypeCorrect, PTL DEF Spec

-----------------------------------------------------------------------------
(* AXI requests are held.                                                  *)

(* A request, once raised, stays up with its payload until accepted: the   *)
(* ports start a new transaction only when the old one is over, which is   *)
(* what OneInFlight adds to the ports' own equations.                      *)
THEOREM RequestsHeld == Spec => AxiRequestsHeld
<1>1. TypeOK /\ OneInFlight /\ [Next]_vars => [HeldUntilAccepted]_vars
  <2> SUFFICES ASSUME TypeOK, OneInFlight, Next PROVE HeldUntilAccepted
    BY DEF HeldUntilAccepted, vars
  <2>1. CASE Stop
    BY <2>1 DEF Stop, HeldUntilAccepted, ifuVars, fetchVars, lsuVars, dataVars
  <2>2. CASE Cycle
    <3>1. PICK f_ar \in BOOLEAN, l_ar \in BOOLEAN, l_aw \in BOOLEAN,
               l_w \in BOOLEAN : Units(f_ar, l_ar, l_aw, l_w)
      BY <2>2, CycleUnits
    <3>2. f_arvalid => ~wbu_ready /\ f_slave = "idle"
      BY DEF OneInFlight, Start, Fetching, Computing, Loading, Storing,
             FetchQuiet, ReadPending, TypeOK
    <3>3. arvalid => ~idu_valid /\ r_slave = "idle"
      BY QuietNoDecode DEF OneInFlight, Start, Fetching, Computing, Loading,
             Storing, ReadQuiet, ReadPending, TypeOK
    <3>4. /\ awvalid => ~idu_valid /\ ~aw_got /\ b_resp = "idle"
          /\ wvalid => ~idu_valid /\ ~w_got /\ b_resp = "idle" /\ ~wlast_reg
      BY QuietNoDecode DEF OneInFlight, Start, Fetching, Computing, Loading,
             Storing, WriteQuiet, TypeOK
    <3>5. f_arvalid /\ f_slave' = "idle" => f_arvalid' /\ UNCHANGED f_araddr
      BY <3>1, <3>2 DEF Units, Ifu, FetchSlave, TypeOK
    <3>6. arvalid /\ r_slave' = "idle" => arvalid' /\ UNCHANGED araddr
      BY <3>1, <3>3 DEF Units, LsuRead, ReadSlave, TypeOK
    <3>7. awvalid /\ ~aw_got' => awvalid' /\ UNCHANGED awaddr
      BY <3>1, <3>4 DEF Units, LsuWrite, WriteSlave, TypeOK
    <3>8. wvalid /\ ~w_got' => wvalid' /\ UNCHANGED wdata
      BY <3>1, <3>4 DEF Units, LsuWrite, WriteSlave, wlast, TypeOK
    <3> QED
      BY <3>5, <3>6, <3>7, <3>8 DEF HeldUntilAccepted
  <2> QED
    BY <2>1, <2>2 DEF Next
<1> QED
  BY <1>1, TypeCorrect, SingleIssue, PTL DEF Spec, AxiRequestsHeld

-----------------------------------------------------------------------------
(* What decode latched stays what it would latch.                          *)

(* The phases exclude each other.                                          *)
LEMMA PhasesDisjoint ==
  /\ Start => ~Fetching /\ ~Computing /\ ~Loading /\ ~Storing
  /\ Fetching => ~Computing /\ ~Loading /\ ~Storing
  /\ Computing => ~Loading /\ ~Storing
  /\ Loading => ~Storing
BY DEF Start, Fetching, Computing, Loading, Storing, FetchQuiet, ReadQuiet,
       WriteQuiet, ReadPending

(* So do the phases after a step.                                          *)
LEMMA PhasesDisjointNext ==
  /\ Fetching' => ~Computing' /\ ~Loading' /\ ~Storing'
  /\ Start' => ~Fetching' /\ ~Computing' /\ ~Loading' /\ ~Storing'
  /\ Computing' => ~Loading' /\ ~Storing'
  /\ Loading' => ~Storing'
BY DEF Start, Fetching, Computing, Loading, Storing, FetchQuiet, ReadQuiet,
       WriteQuiet, ReadPending

(* The combinational signals depend on the instruction register, the       *)
(* register files and pc only.                                             *)
LEMMA SignalsStable ==
  ASSUME UNCHANGED <<instr, gpr, csr, pc>>
  PROVE  /\ Latched' = Latched /\ pc_next' = pc_next /\ opt' = opt
         /\ cur' = cur /\ exu_res' = exu_res /\ rs2' = rs2
<1>1. cur' = cur
  BY DEF cur
<1> HIDE DEF cur
<1>2. opt' = opt /\ rs1' = rs1 /\ rs2' = rs2 /\ sys_rs1' = sys_rs1
  BY <1>1 DEF opt, rs1, rs2, sys_rs1
<1>3. csrsren' = csrsren /\ csrdwen' = csrdwen /\ rdwen' = rdwen
  BY <1>1 DEF csrsren, csrdwen, rsneq0, rdwen
<1>4. csrs' = csrs
  BY <1>1, <1>3 DEF csrs
<1>5. src1' = src1 /\ src2' = src2
  BY <1>1, <1>2, Zenon DEF src1, src2
<1>6. int_res' = int_res
  BY <1>1, <1>5 DEF int_res
<1>7. exu_res' = exu_res
  BY <1>1, <1>4, <1>6 DEF exu_res, sysins
<1>8. exu_csrd' = exu_csrd
  BY <1>1, <1>2, <1>4, Zenon DEF exu_csrd
<1>9. pc_next' = pc_next
  BY <1>1, <1>2, <1>6, Zenon DEF pc_next
<1>10. Latched' = Latched
  BY <1>1, <1>2, <1>3, <1>7, <1>8 DEF Latched
<1> QED
  BY <1>1, <1>2, <1>7, <1>9, <1>10

(* Until an instruction completes, the architectural state stays.          *)
LEMMA ArchStable ==
  ASSUME ~lsu_valid, Bru, Regfile, Csrfile
  PROVE  UNCHANGED <<gpr, csr, pc>>
BY DEF Bru, Regfile, Csrfile

(* After a writeback there is nothing to be coherent with.                 *)
LEMMA StartCoherent == Start => WritebackCoherent
BY PhasesDisjoint DEF WritebackCoherent, Executing

(* The memory only changes with a write response.                          *)
LEMMA MemStable ==
  ASSUME TypeOK, NEW a \in BOOLEAN, NEW b \in BOOLEAN, WriteSlave(a, b),
         b_resp # "busy" \/ ~bvalid'
  PROVE  UNCHANGED mem
BY DEF WriteSlave, bvalid, Answered, Answer, TypeOK

(* A fetch starts at pc.                                                   *)
LEMMA StartCoherentStep ==
  ASSUME TypeOK, Start,
         NEW f_ar \in BOOLEAN, NEW l_ar \in BOOLEAN, NEW l_aw \in BOOLEAN,
         NEW l_w \in BOOLEAN, Units(f_ar, l_ar, l_aw, l_w)
  PROVE  WritebackCoherent'
<1>1. Fetching'
  BY StartStep
<1>2. ~Executing' /\ ~Loading' /\ ~Storing'
  BY <1>1, PhasesDisjointNext DEF Executing
<1>3. ~lsu_valid
  BY DEF lsu_valid, Start, ReadQuiet, WriteQuiet
<1>4. pc' = pc
  BY <1>3, ArchStable DEF Units
<1>5. f_araddr' = pc
  BY DEF Units, Ifu, Start
<1>6. ~f_rvalid' /\ ~f_rready'
  BY DEF Units, Ifu, FetchSlave, Start, FetchQuiet, f_rvalid, Answered, TypeOK
<1> QED
  BY <1>1, <1>2, <1>4, <1>5, <1>6 DEF WritebackCoherent

(* The word fetched is the word memory holds at pc, and decode latches     *)
(* from it.                                                                *)
LEMMA FetchingCoherentStep ==
  ASSUME TypeOK, Fetching, WritebackCoherent, Running,
         NEW f_ar \in BOOLEAN, NEW l_ar \in BOOLEAN, NEW l_aw \in BOOLEAN,
         NEW l_w \in BOOLEAN, Units(f_ar, l_ar, l_aw, l_w)
  PROVE  WritebackCoherent'
<1>1. ~lsu_valid
  BY DEF lsu_valid, Fetching, ReadQuiet, WriteQuiet
<1>2. gpr' = gpr /\ csr' = csr /\ pc' = pc
  BY <1>1, ArchStable DEF Units
<1>3. mem' = mem
  BY MemStable DEF Units, Fetching, WriteQuiet
<1>4. f_araddr' = f_araddr /\ f_araddr = pc
  BY DEF Units, Ifu, Fetching, WritebackCoherent
<1>5. CASE ~idu_valid
  <2>1. Fetching'
    BY <1>5, FetchingStep
  <2>2. ~Executing' /\ ~Loading' /\ ~Storing'
    BY <2>1, PhasesDisjointNext DEF Executing
  <2>3. f_rvalid' => /\ f_rdata' = mem'[Cell(pc')]
                     /\ f_slave' = Answer(Cell(pc'))
    BY <1>2, <1>3, <1>4, <1>5 DEF Units, FetchSlave, WritebackCoherent, f_rvalid,
                  Answered, Fetching, ReadPending, fetchVars, idu_valid, TypeOK
  <2>4. f_rready' => instr' = f_rdata'
    BY <1>5 DEF Units, Ifu, FetchSlave, Fetching, ReadPending, f_rvalid,
                Answered, idu_valid, fetchVars, TypeOK
  <2> QED
    BY <1>2, <1>4, <2>1, <2>2, <2>3, <2>4 DEF WritebackCoherent
<1>6. CASE idu_valid
  <2>1. Executing'
    BY <1>6, FetchingStep
  <2>2. ~Fetching'
    BY <2>1, PhasesDisjointNext DEF Executing
  <2>3. /\ f_rvalid /\ f_rready /\ f_rdata = mem[Cell(pc)] /\ instr = f_rdata
        /\ f_slave = Answer(Cell(pc))
    BY <1>6 DEF idu_valid, WritebackCoherent, Fetching
  <2>4. instr' = instr
    BY <2>3 DEF Units, Ifu
  <2>5. /\ Latched' = Latched /\ pc_next' = pc_next /\ opt' = opt
        /\ cur' = cur /\ exu_res' = exu_res /\ rs2' = rs2
    BY <1>2, <2>4, SignalsStable
  <2>6. /\ wb' = Latched /\ pc_reg' = pc_next /\ lsu_opt' = opt
    BY <1>6 DEF Units, Wbu, Bru, LsuCommon
  <2>7. cur.op # "inv" /\ Cell(pc) \notin Unmapped
    BY <1>6, <2>3 DEF Running, decode_error, access_fault, Answer
  <2>8. Loading' => araddr' = exu_res' /\ ~r_rvalid'
    <3>1. Loading' => opt = "load"
      BY <2>6 DEF Loading
    <3> QED
      BY <1>6, <2>5, <3>1 DEF Units, LsuRead, ReadSlave, Fetching, ReadQuiet,
                              r_rvalid, Answered, TypeOK
  <2>9. Storing' => awaddr' = exu_res' /\ wdata' = rs2' /\ ~bvalid'
    <3>1. Storing' => opt = "store"
      BY <2>6 DEF Storing
    <3> QED
      BY <1>6, <2>5, <3>1 DEF Units, LsuWrite, WriteSlave, Fetching, WriteQuiet,
                              bvalid, Answered, TypeOK
  <2>10. instr' = mem'[Cell(pc')]
    BY <1>2, <1>3, <2>3, <2>4
  <2> QED
    BY <1>2, <2>2, <2>5, <2>6, <2>7, <2>8, <2>9, <2>10 DEF WritebackCoherent
<1> QED
  BY <1>5, <1>6

(* While a memory access waits, nothing it depends on changes.             *)
LEMMA ExecutingStable ==
  ASSUME TypeOK, Loading \/ Storing, WritebackCoherent, ~lsu_valid,
         NEW f_ar \in BOOLEAN, NEW l_ar \in BOOLEAN, NEW l_aw \in BOOLEAN,
         NEW l_w \in BOOLEAN, Units(f_ar, l_ar, l_aw, l_w)
  PROVE  /\ UNCHANGED <<instr, gpr, csr, pc, wb, pc_reg, lsu_opt>>
         /\ UNCHANGED <<araddr, awaddr, wdata>>
         /\ Latched' = Latched /\ pc_next' = pc_next /\ opt' = opt
         /\ cur' = cur /\ exu_res' = exu_res /\ rs2' = rs2
<1>1. FetchQuiet
  BY DEF Loading, Storing
<1>2. ~idu_valid
  BY <1>1, QuietNoDecode
<1>3. UNCHANGED <<instr, wb, pc_reg, lsu_opt, araddr, awaddr, wdata>>
  BY <1>1, <1>2 DEF FetchQuiet, Units, Ifu, f_rvalid, Answered, Wbu, Bru,
                    LsuCommon, LsuRead, LsuWrite
<1>4. UNCHANGED <<gpr, csr, pc>>
  BY ArchStable DEF Units
<1> QED
  BY <1>3, <1>4, SignalsStable

(* A load's answer is the word memory holds at its address.                *)
LEMMA LoadingCoherentStep ==
  ASSUME TypeOK, Loading, WritebackCoherent, ~lsu_valid,
         NEW f_ar \in BOOLEAN, NEW l_ar \in BOOLEAN, NEW l_aw \in BOOLEAN,
         NEW l_w \in BOOLEAN, Units(f_ar, l_ar, l_aw, l_w)
  PROVE  WritebackCoherent'
<1>1. Loading'
  BY LoadingStep
<1>2. ~Fetching' /\ ~Storing'
  BY <1>1, PhasesDisjointNext
<1>3. mem' = mem
  BY MemStable DEF Units, Loading, WriteQuiet
<1>4. ~bvalid
  BY DEF Loading, WriteQuiet, bvalid, Answered
<1>5. /\ UNCHANGED <<instr, gpr, csr, pc, wb, pc_reg, lsu_opt, araddr>>
      /\ Latched' = Latched /\ pc_next' = pc_next /\ opt' = opt
      /\ cur' = cur /\ exu_res' = exu_res
  BY ExecutingStable
<1>6. /\ wb = Latched /\ pc_reg = pc_next /\ lsu_opt = opt
      /\ cur.op # "inv" /\ Cell(pc) \notin Unmapped
      /\ instr = mem[Cell(pc)] /\ araddr = exu_res
  BY <1>4 DEF WritebackCoherent, Executing
<1>7. r_rvalid' => /\ r_slave' = Answer(Cell(araddr))
                   /\ Cell(araddr) \notin Device => r_rdata' = mem[Cell(araddr)]
  BY DEF Units, ReadSlave, r_rvalid, Answered, WritebackCoherent, TypeOK
<1> QED
  BY <1>2, <1>3, <1>5, <1>6, <1>7 DEF WritebackCoherent

(* A store writes what its instruction asks for, and answers for it.       *)
LEMMA StoringCoherentStep ==
  ASSUME TypeOK, Storing, WritebackCoherent, ~lsu_valid,
         NEW f_ar \in BOOLEAN, NEW l_ar \in BOOLEAN, NEW l_aw \in BOOLEAN,
         NEW l_w \in BOOLEAN, Units(f_ar, l_ar, l_aw, l_w)
  PROVE  WritebackCoherent'
<1>1. Storing'
  BY StoringStep
<1>2. ~Fetching' /\ ~Loading'
  BY <1>1, PhasesDisjointNext
<1>3. ~bvalid' => ~bvalid /\ mem' = mem
  <2>1. bvalid => ~bready
    BY DEF lsu_valid, Storing
  <2>2. bvalid => bvalid'
    BY <2>1 DEF Units, WriteSlave, bvalid, Answered, TypeOK
  <2> QED
    BY <2>2, MemStable DEF Units
<1>4. /\ UNCHANGED <<instr, gpr, csr, pc, wb, pc_reg, lsu_opt, awaddr, wdata>>
      /\ Latched' = Latched /\ pc_next' = pc_next /\ opt' = opt
      /\ cur' = cur /\ exu_res' = exu_res /\ rs2' = rs2
  BY ExecutingStable
<1>5. /\ wb = Latched /\ pc_reg = pc_next /\ lsu_opt = opt
      /\ cur.op # "inv" /\ Cell(pc) \notin Unmapped
      /\ ~bvalid => instr = mem[Cell(pc)]
      /\ awaddr = exu_res /\ wdata = rs2
  BY DEF WritebackCoherent, Executing
<1>6. bvalid' => b_resp' = Answer(Cell(awaddr))
  BY DEF Units, WriteSlave, bvalid, Answered, WritebackCoherent, TypeOK
<1> QED
  BY <1>2, <1>3, <1>4, <1>5, <1>6 DEF WritebackCoherent

(* What a stopped simulation holds stays coherent.                         *)
LEMMA FrozenCoherent ==
  ASSUME WritebackCoherent,
         UNCHANGED <<archVars, pc_reg, ifuVars, fetchVars, lsuVars, dataVars,
                     wb, wbu_ready>>
  PROVE  WritebackCoherent'
<1>1. /\ Latched' = Latched /\ pc_next' = pc_next /\ opt' = opt
      /\ cur' = cur /\ exu_res' = exu_res /\ rs2' = rs2
  BY SignalsStable DEF archVars, ifuVars
<1>2. /\ Fetching' = Fetching /\ Executing' = Executing /\ Loading' = Loading
      /\ Storing' = Storing
  BY DEF Executing, Fetching, Computing, Loading, Storing, FetchQuiet,
         ReadQuiet, WriteQuiet, ReadPending, Answered, bvalid, ifuVars,
         fetchVars, lsuVars, dataVars
<1>3. f_rvalid' = f_rvalid /\ r_rvalid' = r_rvalid /\ bvalid' = bvalid
  BY DEF f_rvalid, r_rvalid, bvalid, Answered, fetchVars, dataVars
<1> HIDE DEF Fetching, Executing, Loading, Storing
<1> QED
  BY <1>1, <1>2, <1>3 DEF WritebackCoherent, archVars, ifuVars, fetchVars,
                          lsuVars, dataVars

(* For every program, encoding and bus latency: what an instruction writes *)
(* back is what decode computes from the state it completes in.            *)
THEOREM Coherence == Spec => []WritebackCoherent
<1>1. Init => WritebackCoherent
  BY InitPhase, StartCoherent
<1>2. TypeOK /\ OneInFlight /\ WritebackCoherent /\ [Next]_vars
        => WritebackCoherent'
  <2> SUFFICES ASSUME TypeOK, OneInFlight, WritebackCoherent, [Next]_vars
               PROVE  WritebackCoherent'
    OBVIOUS
  <2>1. CASE Cycle
    <3>1. Running
      BY <2>1, CycleUnits
    <3>2. PICK f_ar \in BOOLEAN, l_ar \in BOOLEAN, l_aw \in BOOLEAN,
               l_w \in BOOLEAN : Units(f_ar, l_ar, l_aw, l_w)
      BY <2>1, CycleUnits
    <3>3. Start' => WritebackCoherent'
      BY PhasesDisjointNext DEF WritebackCoherent, Executing
    <3>4. CASE Start
      BY <3>2, <3>4, StartCoherentStep
    <3>5. CASE Fetching
      BY <3>1, <3>2, <3>5, FetchingCoherentStep
    <3>6. CASE Computing
      BY <3>2, <3>3, <3>6, ComputingStep
    <3>7. CASE Loading
      BY <3>2, <3>3, <3>7, LoadingStep, LoadingCoherentStep
    <3>8. CASE Storing
      BY <3>2, <3>3, <3>8, StoringStep, StoringCoherentStep
    <3> QED
      BY <3>4, <3>5, <3>6, <3>7, <3>8 DEF OneInFlight
  <2>2. CASE Stop
    BY <2>2, FrozenCoherent DEF Stop
  <2>3. CASE UNCHANGED vars
    BY <2>3, FrozenCoherent DEF vars
  <2> QED
    BY <2>1, <2>2, <2>3 DEF Next
<1> QED
  BY <1>1, <1>2, TypeCorrect, SingleIssue, PTL DEF Spec

-----------------------------------------------------------------------------
(* The core implements NEMU.                                               *)

(* Words, instances.                                                       *)
LEMMA SameOps ==
  /\ Nemu!WordSize = WordSize /\ Nemu!Word = Word /\ Nemu!Regs = Regs /\ Nemu!Csrs = Csrs /\ Nemu!Cells = Cells
  /\ \A a, b : Nemu!Add(a, b) = Add(a, b)
  /\ \A a : Nemu!Cell(a) = Cell(a)
  /\ \A r, i, v : Nemu!WriteReg(r, i, v) = WriteReg(r, i, v)
  /\ Nemu!IRQ_ECALL = IRQ_ECALL
  /\ Nemu!CsrC = CsrC /\ Nemu!CsrImm = CsrImm
BY DEF Nemu!WordSize, WordSize, Nemu!Word, Word, Nemu!Regs, Regs, Nemu!Csrs, Csrs,
   Nemu!Cells, Cells, Nemu!Add, Add, Nemu!Cell, Cell,
   Nemu!WriteReg, WriteReg, Nemu!IRQ_ECALL, IRQ_ECALL, Nemu!CsrC, CsrC, Nemu!CsrImm, CsrImm

(* The instruction that executes means the same to the core and to NEMU:   *)
(* both implement it, and a jalr has an even target, of which only NEMU    *)
(* clears the lowest bit.                                                  *)
Portable ==
  Executing => /\ cur.op \notin CsrC \cup CsrImm \cup {"fence_i", "zero"}
               /\ cur.op = "jalr" => pc_next % 2 = 0

(* What the core writes back when an instruction completes.                *)
NextGpr == IF wb.rdwen THEN WriteReg(gpr, wb.rdid, IF wb.ld_en THEN lsu_res ELSE wb.exu_res) ELSE gpr
NextCsr == [c \in Csrs |->
                CASE c = "mepc" /\ wb.mepc_wen -> wb.mepc
                  [] c = "mcause" /\ wb.mepc_wen -> IRQ_ECALL
                  [] c = "mstatus" /\ wb.mstatus_wen -> wb.mstatus
                  [] OTHER -> IF wb.csrdwen /\ wb.csrdid = c
                              THEN wb.csrd ELSE csr[c]]

(* The cycle in which the load/store unit is valid writes the results      *)
(* back.                                                                   *)
LEMMA WrittenBack ==
  ASSUME lsu_valid, Bru, Regfile, Csrfile
  PROVE  pc' = pc_reg /\ gpr' = NextGpr /\ csr' = NextCsr
BY DEF Bru, Regfile, Csrfile, NextGpr, NextCsr

(* Sums.                                                                   *)
LEMMA Sums ==
  /\ \A a \in Word : Add(0, a) = a
  /\ \A a \in Word : Add(a, 4 % WordSize) = Add(a, 4)
<1>1. NWords \in Nat \ {0}
  BY Rv32Assumption
<1>2. \A a \in Word : Add(0, a) = a
  <2>1. WordSize \in Nat \ {0}
    BY <1>1 DEF WordSize
  <2> QED
    BY <2>1 DEF Add, Word
<1>3. ASSUME NEW a \in Word PROVE Add(a, 4 % WordSize) = Add(a, 4)
  <2>1. CASE NWords = 1
    BY <2>1 DEF Add, WordSize, Word
  <2>2. CASE NWords # 1
    <3>1. WordSize \in Nat /\ WordSize > 4
      BY <1>1, <2>2 DEF WordSize
    <3>2. 4 % WordSize = 4
      BY <3>1
    <3> QED
      BY <3>2
  <2> QED
    BY <2>1, <2>2
<1> QED
  BY <1>2, <1>3

(* No csr is written.                                                      *)
LEMMA CsrsKept ==
  ASSUME TypeOK, wb = Latched, cur.op \notin CsrW \cup CsrS \cup CsrC \cup {"ecall"}
  PROVE  NextCsr = csr
<1>1. ~wb.csrdwen /\ ~wb.mepc_wen /\ wb.mstatus = csr["mstatus"]
  BY DEF Latched, csrdwen
<1>2. \A c \in Csrs : NextCsr[c] = csr[c]
  BY <1>1 DEF NextCsr
<1> QED
  BY <1>2 DEF NextCsr, TypeOK

(* Arithmetic: the core's operand selection and NEMU's give the same       *)
(* result.                                                                 *)
LEMMA AluResult ==
  ASSUME TypeOK, wb = Latched, gpr[0] = 0, cur.op \in {"alu", "alui", "lui", "auipc"}
  PROVE  /\ NextGpr = WriteReg(gpr, cur.rd,
              CASE cur.op = "alu" -> Alu(cur.fn, gpr[cur.rs1], gpr[cur.rs2])
                [] cur.op = "alui" -> Alu(cur.fn, gpr[cur.rs1], cur.imm)
                [] cur.op = "lui" -> cur.imm
                [] cur.op = "auipc" -> Add(pc, cur.imm))
         /\ pc_next = Add(pc, 4) /\ NextCsr = csr
<1>1. NextCsr = csr
  BY CsrsKept DEF CsrW, CsrS, CsrC
<1>2. pc_next = Add(pc, 4)
  BY DEF pc_next
<1>3. wb.rdwen /\ ~wb.ld_en /\ wb.rdid = cur.rd /\ wb.exu_res = exu_res
  BY DEF Latched, rdwen, opt
<1>4. exu_res = int_res
  BY DEF exu_res, sysins, CsrW, CsrS, CsrC
<1>5. NextGpr = WriteReg(gpr, cur.rd, int_res)
  BY <1>3, <1>4 DEF NextGpr
<1>6. cur.op = "alu" => int_res = Alu(cur.fn, gpr[cur.rs1], gpr[cur.rs2])
  BY DEF int_res, src1, src2, rs1, rs2
<1>7. cur.op = "alui" => int_res = Alu(cur.fn, gpr[cur.rs1], cur.imm)
  BY DEF int_res, src1, src2, rs1, rs2
<1>8. cur.op = "lui" => int_res = cur.imm
  BY Sums, CurType DEF int_res, src1, src2, rs1
<1>9. cur.op = "auipc" => int_res = Add(pc, cur.imm)
  BY DEF int_res, src1, src2, rs1
<1> QED
  BY <1>1, <1>2, <1>5, <1>6, <1>7, <1>8, <1>9

(* Branches and jumps.                                                     *)
LEMMA JumpResult ==
  ASSUME TypeOK, wb = Latched, cur.op \in {"branch", "jal", "jalr"}
  PROVE  /\ NextGpr = IF cur.op = "branch" THEN gpr ELSE WriteReg(gpr, cur.rd, Add(pc, 4))
         /\ NextCsr = csr
         /\ cur.op = "branch" =>
              pc_next = IF Alu(cur.fn, gpr[cur.rs1], gpr[cur.rs2]) # 0
                        THEN Add(pc, cur.imm) ELSE Add(pc, 4)
         /\ cur.op = "jal" => pc_next = Add(pc, cur.imm)
         /\ cur.op = "jalr" => pc_next = Add(gpr[cur.rs1], cur.imm)
<1>1. NextCsr = csr
  BY CsrsKept DEF CsrW, CsrS, CsrC
<1>2. ~wb.ld_en /\ wb.rdid = cur.rd /\ wb.exu_res = exu_res
  BY DEF Latched, rdwen, opt
<1>3. wb.rdwen = (cur.op # "branch")
  BY DEF Latched, rdwen, csrsren, CsrW, CsrS, CsrC
<1>4. exu_res = int_res
  BY DEF exu_res, sysins, CsrW, CsrS, CsrC
<1>5. cur.op # "branch" => int_res = Add(pc, 4)
  BY Sums DEF int_res, src1, src2, TypeOK
<1>6. cur.op = "branch" => int_res = Alu(cur.fn, gpr[cur.rs1], gpr[cur.rs2])
  BY DEF int_res, src1, src2, rs1, rs2
<1>7. NextGpr = IF cur.op = "branch" THEN gpr ELSE WriteReg(gpr, cur.rd, Add(pc, 4))
  BY <1>2, <1>3, <1>4, <1>5 DEF NextGpr
<1>8. cur.op = "branch" =>
              pc_next = IF Alu(cur.fn, gpr[cur.rs1], gpr[cur.rs2]) # 0
                        THEN Add(pc, cur.imm) ELSE Add(pc, 4)
  BY <1>6 DEF pc_next
<1>9. /\ cur.op = "jal" => pc_next = Add(pc, cur.imm)
      /\ cur.op = "jalr" => pc_next = Add(gpr[cur.rs1], cur.imm)
  BY DEF pc_next, rs1
<1> QED
  BY <1>1, <1>7, <1>8, <1>9

(* csrrw and csrrs.                                                        *)
LEMMA CsrResult ==
  ASSUME TypeOK, wb = Latched, gpr[0] = 0, cur.op \in {"csrrw", "csrrs"}
  PROVE  /\ NextGpr = WriteReg(gpr, cur.rd, csr[cur.csr])
         /\ NextCsr = [csr EXCEPT ![cur.csr] = IF cur.op = "csrrw" THEN gpr[cur.rs1]
                                               ELSE Alu("or", csr[cur.csr], gpr[cur.rs1])]
         /\ pc_next = Add(pc, 4)
<1>1. pc_next = Add(pc, 4)
  BY DEF pc_next
<1>2. /\ ~wb.ld_en /\ wb.rdid = cur.rd /\ wb.exu_res = exu_res
      /\ ~wb.mepc_wen /\ ~wb.mstatus_wen
      /\ wb.csrdid = cur.csr /\ wb.csrd = exu_csrd
  BY DEF Latched, opt
<1>3. exu_res = csrs
  BY DEF exu_res, sysins, CsrW, CsrS
<1>4. wb.rdwen = (cur.rd # 0) /\ (cur.rd # 0 => csrsren)
  BY DEF Latched, rdwen, csrsren, CsrW, CsrS, CsrC
<1>5. NextGpr = WriteReg(gpr, cur.rd, csr[cur.csr])
  <2>1. CASE cur.rd # 0
    BY <1>2, <1>3, <1>4, <2>1 DEF NextGpr, csrs
  <2>2. CASE cur.rd = 0
    BY <1>4, <2>2, CurType DEF NextGpr, WriteReg, TypeOK
  <2> QED
    BY <2>1, <2>2
<1>6. sys_rs1 = gpr[cur.rs1]
  BY DEF sys_rs1, rs1, CsrImm
<1>7. cur.op = "csrrw" => wb.csrdwen /\ exu_csrd = gpr[cur.rs1]
  BY <1>6 DEF Latched, csrdwen, exu_csrd, CsrW, CsrS, CsrC
<1>8. cur.op = "csrrs" => /\ wb.csrdwen = (cur.rs1 # 0)
                          /\ exu_csrd = Alu("or", csr[cur.csr], gpr[cur.rs1])
  BY <1>6 DEF Latched, csrdwen, rsneq0, exu_csrd, csrs, csrsren, CsrW, CsrS, CsrC, CsrImm
<1>9. csr[cur.csr] \in Word
  BY CurType DEF TypeOK
<1>10. cur.rs1 = 0 => Alu("or", csr[cur.csr], gpr[cur.rs1]) = csr[cur.csr]
  BY <1>9, OrAssumption
<1> DEFINE new == IF cur.op = "csrrw" THEN gpr[cur.rs1]
                  ELSE Alu("or", csr[cur.csr], gpr[cur.rs1])
<1>11. \A c \in Csrs : NextCsr[c] = IF c = cur.csr THEN new ELSE csr[c]
  BY <1>2, <1>7, <1>8, <1>10 DEF NextCsr
<1>12. NextCsr = [csr EXCEPT ![cur.csr] = new]
  <2>1. NextCsr = [c \in Csrs |-> NextCsr[c]]
    BY DEF NextCsr
  <2>2. csr \in [Csrs -> Word] /\ cur.csr \in Csrs
    BY CurType DEF TypeOK
  <2> HIDE DEF new
  <2> QED
    BY <1>11, <2>1, <2>2
<1> QED
  BY <1>1, <1>5, <1>12

(* ecall and mret.                                                         *)
LEMMA TrapResult ==
  ASSUME TypeOK, wb = Latched, cur.op \in {"ecall", "mret"}
  PROVE  /\ NextGpr = gpr
         /\ cur.op = "ecall" => /\ NextCsr = [csr EXCEPT !["mcause"] = IRQ_ECALL, !["mepc"] = pc]
                                /\ pc_next = csr["mtvec"]
         /\ cur.op = "mret" => NextCsr = csr /\ pc_next = csr["mepc"]
<1>1. ~wb.rdwen
  BY DEF Latched, rdwen, csrsren, CsrW, CsrS, CsrC
<1>2. ~wb.csrdwen
  BY DEF Latched, csrdwen, CsrW, CsrS, CsrC
<1>3. cur.op = "ecall" => NextCsr = [csr EXCEPT !["mcause"] = IRQ_ECALL, !["mepc"] = pc]
  <2>1. wb.mepc_wen = (cur.op = "ecall") /\ wb.mepc = pc /\ wb.mstatus = csr["mstatus"]
    BY DEF Latched
  <2>2. cur.op = "ecall" => \A c \in Csrs : NextCsr[c] = IF c = "mcause" THEN IRQ_ECALL
                                                ELSE IF c = "mepc" THEN pc ELSE csr[c]
    BY <1>2, <2>1 DEF NextCsr
  <2> QED
    BY <2>2 DEF NextCsr, TypeOK, Csrs
<1>4. cur.op = "mret" => NextCsr = csr
  BY CsrsKept DEF CsrW, CsrS, CsrC
<1> QED
  BY <1>1, <1>3, <1>4 DEF NextGpr, pc_next

(* A load writes what the bus returned.                                    *)
LEMMA LoadResult ==
  ASSUME TypeOK, wb = Latched, lsu_opt = opt, cur.op = "load"
  PROVE  /\ NextGpr = WriteReg(gpr, cur.rd, r_rdata)
         /\ exu_res = Add(gpr[cur.rs1], cur.imm) /\ wb.exu_res = exu_res
         /\ NextCsr = csr /\ pc_next = Add(pc, 4)
<1>1. NextCsr = csr
  BY CsrsKept DEF CsrW, CsrS, CsrC
<1>2. wb.rdwen /\ wb.ld_en /\ wb.rdid = cur.rd /\ lsu_res = r_rdata
  BY DEF Latched, rdwen, opt, lsu_res
<1>3. exu_res = Add(gpr[cur.rs1], cur.imm)
  BY DEF exu_res, sysins, int_res, src1, src2, rs1, CsrW, CsrS, CsrC
<1>4. wb.exu_res = exu_res
  BY DEF Latched
<1> QED
  BY <1>1, <1>2, <1>3, <1>4 DEF NextGpr, pc_next

(* A store writes no register.                                             *)
LEMMA StoreResult ==
  ASSUME TypeOK, wb = Latched, cur.op = "store"
  PROVE  /\ NextGpr = gpr
         /\ exu_res = Add(gpr[cur.rs1], cur.imm) /\ wb.exu_res = exu_res
         /\ NextCsr = csr /\ pc_next = Add(pc, 4) /\ rs2 = gpr[cur.rs2]
<1>1. NextCsr = csr
  BY CsrsKept DEF CsrW, CsrS, CsrC
<1>2. ~wb.rdwen
  BY DEF Latched, rdwen, csrsren, CsrW, CsrS, CsrC
<1>3. exu_res = Add(gpr[cur.rs1], cur.imm)
  BY DEF exu_res, sysins, int_res, src1, src2, rs1, CsrW, CsrS, CsrC
<1>4. wb.exu_res = exu_res
  BY DEF Latched
<1> QED
  BY <1>1, <1>2, <1>3, <1>4 DEF NextGpr, pc_next, rs2

-----------------------------------------------------------------------------
(* Register 0 is zero, and a store that faults leaves memory alone.        *)
X0IsZero == gpr[0] = 0

(* A store that faults has not changed memory, so the instruction is still *)
(* the one in memory.                                                      *)
FaultKeepsMemory == Storing /\ b_resp = "err" => instr = mem[Cell(pc)]

(* No write reaches register 0.                                            *)
LEMMA ZeroKept ==
  ASSUME TypeOK, gpr[0] = 0, [Next]_vars
  PROVE  gpr'[0] = 0
<1>1. CASE Cycle
  <2>1. gpr' = gpr \/ \E v : gpr' = WriteReg(gpr, wb.rdid, v)
    BY <1>1 DEF Cycle, Regfile
  <2>2. wb.rdid \in Regs /\ 0 \in Regs /\ gpr \in [Regs -> Word]
    BY Rv32Assumption DEF TypeOK, Writeback, Regs
  <2> QED
    BY <2>1, <2>2 DEF WriteReg
<1>2. CASE Stop
  BY <1>2 DEF Stop, archVars
<1>3. CASE UNCHANGED vars
  BY <1>3 DEF vars, archVars
<1> QED
  BY <1>1, <1>2, <1>3 DEF Next

(* A cycle keeps that a faulting store changes nothing.                    *)
LEMMA FaultKept ==
  ASSUME TypeOK, OneInFlight, WritebackCoherent, FaultKeepsMemory, [Next]_vars
  PROVE  FaultKeepsMemory'
<1>1. CASE Cycle
  <2>1. PICK f_ar \in BOOLEAN, l_ar \in BOOLEAN, l_aw \in BOOLEAN,
             l_w \in BOOLEAN : Units(f_ar, l_ar, l_aw, l_w)
    BY <1>1, CycleUnits
  <2>2. CASE Storing /\ ~lsu_valid
    <3>1. UNCHANGED <<instr, pc, awaddr>>
      BY <2>1, <2>2, ExecutingStable
    <3>2. WriteSlave(l_aw, l_w)
      BY <2>1 DEF Units
    <3>3. b_resp' = "err" => mem' = mem
      BY <3>2 DEF WriteSlave, Answer
    <3>4. b_resp' = "err" => b_resp = "busy" \/ b_resp = "err"
      BY <3>2 DEF WriteSlave, Answer, bvalid, Answered
    <3>5. b_resp = "busy" => instr = mem[Cell(pc)]
      BY <2>2 DEF WritebackCoherent, Executing, bvalid, Answered
    <3> QED
      BY <2>2, <3>1, <3>3, <3>4, <3>5 DEF FaultKeepsMemory
  <2>3. CASE Storing /\ lsu_valid
    BY <2>1, <2>3, StoringStep, PhasesDisjointNext DEF FaultKeepsMemory
  <2>4. CASE ~Storing
    <3>1. b_resp = "idle"
      BY <2>4 DEF OneInFlight, Start, Fetching, Computing, Loading, WriteQuiet
    <3>2. b_resp' # "err"
      BY <2>1, <3>1 DEF Units, WriteSlave, bvalid, Answered
    <3> QED
      BY <3>2 DEF FaultKeepsMemory
  <2> QED
    BY <2>2, <2>3, <2>4
<1>2. CASE UNCHANGED <<instr, mem, pc, b_resp>> /\ Storing' = Storing
  BY <1>2 DEF FaultKeepsMemory
<1>3. UNCHANGED <<archVars, pc_reg, ifuVars, fetchVars, lsuVars, dataVars, wb, wbu_ready>> => Storing' = Storing
  BY DEF Storing, FetchQuiet, ReadQuiet, bvalid, Answered, ifuVars, fetchVars, lsuVars,
     dataVars
<1> QED
  BY <1>1, <1>2, <1>3 DEF Next, Stop, vars, archVars, ifuVars, dataVars

(* The invariant the refinement needs.                                     *)
CoreInv == TypeOK /\ OneInFlight /\ WritebackCoherent /\ X0IsZero /\ FaultKeepsMemory

(* The core keeps its phases, its pipeline registers coherent with the     *)
(* instruction, and register 0 zero.                                       *)
THEOREM CoreInvariant == Spec => []CoreInv
<1>1. Init => X0IsZero /\ FaultKeepsMemory
  <2>1. Init => ~Storing
    BY InitPhase, PhasesDisjoint
  <2>2. Init => X0IsZero
    BY Rv32Assumption DEF Init, Reset, Regs, X0IsZero
  <2> QED
    BY <2>1, <2>2 DEF FaultKeepsMemory
<1>2. TypeOK /\ OneInFlight /\ WritebackCoherent /\ X0IsZero /\ FaultKeepsMemory /\ [Next]_vars
      => X0IsZero' /\ FaultKeepsMemory'
  BY ZeroKept, FaultKept DEF X0IsZero
<1> QED
  BY <1>1, <1>2, TypeCorrect, SingleIssue, Coherence, PTL DEF Spec, CoreInv

-----------------------------------------------------------------------------
(* The reference's view of a running core.                                 *)
LEMMA Mapped ==
  /\ status = "run" => isaState = "RUNNING" /\ isaPc = IF b_resp = "okay" THEN pc_reg ELSE pc
  /\ status = "finish" => isaState = "END" /\ (b_resp # "okay" => isaPc = Add(pc, 4))
  /\ status = "decode_error" => isaState = "ABORT" /\ (b_resp # "okay" => isaPc = Add(pc, 4))
  /\ status = "fatal" => isaState = "PANIC" /\ isaPc = IF b_resp = "okay" THEN pc_reg ELSE pc
BY DEF isaState, isaPc

(* The same after a step.                                                  *)
LEMMA MappedNext ==
  /\ status' = "run" => isaState' = "RUNNING" /\ isaPc' = IF b_resp' = "okay" THEN pc_reg' ELSE pc'
  /\ status' = "finish" => isaState' = "END" /\ (b_resp' # "okay" => isaPc' = Add(pc', 4))
  /\ status' = "decode_error" => isaState' = "ABORT" /\ (b_resp' # "okay" => isaPc' = Add(pc', 4))
  /\ status' = "fatal" => isaState' = "PANIC" /\ isaPc' = IF b_resp' = "okay" THEN pc_reg' ELSE pc'
BY DEF isaState, isaPc

(* While an instruction executes, NEMU is about to execute the same one.   *)
LEMMA Executed ==
  ASSUME CoreInv, Executing, status = "run", b_resp # "okay"
  PROVE  /\ isaPc = pc /\ isaState = "RUNNING"
         /\ Nemu!Fetched = cur /\ Nemu!Cell(isaPc) \notin Unmapped
         /\ wb = Latched /\ pc_reg = pc_next /\ lsu_opt = opt
<1>1. isaPc = pc /\ isaState = "RUNNING"
  BY Mapped
<1>2. instr = mem[Cell(pc)]
  <2>1. CASE bvalid
    <3>1. Storing
      BY <2>1 DEF Executing, Computing, Loading, WriteQuiet, bvalid, Answered
    <3> QED
      BY <2>1, <3>1 DEF CoreInv, FaultKeepsMemory, bvalid, Answered
  <2>2. CASE ~bvalid
    BY <2>2 DEF CoreInv, WritebackCoherent
  <2> QED
    BY <2>1, <2>2
<1>3. Nemu!Fetched = cur
  BY <1>1, <1>2, SameOps DEF Nemu!Fetched, cur
<1> QED
  BY <1>1, <1>3, SameOps DEF CoreInv, WritebackCoherent

(* An instruction that does not access memory completes: one step of NEMU. *)
LEMMA ComputeIsNemu ==
  ASSUME CoreInv, Portable, Computing, Running,
         status' = "run",
         NEW f_ar \in BOOLEAN, NEW l_ar \in BOOLEAN, NEW l_aw \in BOOLEAN,
         NEW l_w \in BOOLEAN, Units(f_ar, l_ar, l_aw, l_w)
  PROVE  Nemu!IsaNext
<1>1. /\ lsu_valid /\ b_resp = "idle" /\ Executing /\ status = "run"
  BY DEF Computing, Executing, lsu_valid, WriteQuiet, ReadQuiet, Running
<1>2. /\ isaPc = pc /\ isaState = "RUNNING"
      /\ Nemu!Fetched = cur /\ Nemu!Cell(isaPc) \notin Unmapped
      /\ wb = Latched /\ pc_reg = pc_next /\ lsu_opt = opt
  BY <1>1, Executed
<1>3. pc' = pc_next /\ gpr' = NextGpr /\ csr' = NextCsr
  BY <1>1, <1>2, WrittenBack DEF Units
<1>4. mem' = mem /\ b_resp' # "okay"
  BY <1>1 DEF Units, WriteSlave, bvalid, Answered, CoreInv
<1>5. isaPc' = pc' /\ isaState' = "RUNNING"
  BY <1>4, MappedNext
<1>6. cur.op \in {"alu", "alui", "lui", "auipc", "branch", "jal", "jalr", "csrrw", "csrrs", "ecall", "mret"}
  <2>1. cur.op \in Ops /\ instr \in Word
    BY CurType DEF CoreInv, TypeOK
  <2>2. cur.op \notin CsrC \cup CsrImm \cup {"fence_i", "zero"}
    BY <1>1 DEF Portable
  <2>3. cur.op \notin {"load", "store"}
    BY <1>2 DEF Computing, opt
  <2>4. cur.op \notin {"inv", "ebreak"}
    BY <1>1 DEF CoreInv, WritebackCoherent, Running, check_finish
  <2> QED
    BY <2>1, <2>2, <2>3, <2>4 DEF Ops, CsrC, CsrImm
<1> USE SameOps
<1> HIDE DEF cur
<1>7. CASE cur.op \in {"alu", "alui", "lui", "auipc"}
  <2>1. Nemu!ExecAlu(cur)
    BY <1>2, <1>3, <1>4, <1>5, <1>7, AluResult DEF Nemu!ExecAlu, Nemu!Retire, Nemu!snpc,
       CoreInv, X0IsZero
  <2> QED
    BY <1>2, <2>1 DEF Nemu!IsaNext, Nemu!exec_once
<1>8. CASE cur.op \in {"branch", "jal", "jalr"}
  <2>1. cur.op = "jalr" => LET t == Add(gpr[cur.rs1], cur.imm) IN t = t - (t % 2)
    <3>1. cur.op = "jalr" => pc_next = Add(gpr[cur.rs1], cur.imm)
      BY <1>2, <1>8, JumpResult DEF CoreInv
    <3>2. pc_next \in Int
      BY ExuType, WordInt DEF CoreInv
    <3>3. cur.op = "jalr" => pc_next % 2 = 0
      BY <1>1 DEF Portable
    <3>4. cur.op = "jalr" => pc_next = pc_next - (pc_next % 2)
      BY <3>2, <3>3
    <3> QED
      BY <3>1, <3>4
  <2>2. Nemu!ExecJump(cur)
    BY <1>2, <1>3, <1>4, <1>5, <1>8, <2>1, JumpResult DEF Nemu!ExecJump, Nemu!Retire,
       Nemu!snpc, CoreInv, X0IsZero
  <2> QED
    BY <1>2, <2>2 DEF Nemu!IsaNext, Nemu!exec_once
<1>9. CASE cur.op \in {"csrrw", "csrrs"}
  <2>1. Nemu!ExecCsr(cur)
    BY <1>2, <1>3, <1>4, <1>5, <1>9, CsrResult DEF Nemu!ExecCsr, Nemu!Retire, Nemu!snpc,
       CoreInv, X0IsZero
  <2> QED
    BY <1>2, <2>1 DEF Nemu!IsaNext, Nemu!exec_once
<1>10. CASE cur.op \in {"ecall", "mret"}
  <2>1. Nemu!ExecTrap(cur)
    BY <1>2, <1>3, <1>4, <1>5, <1>10, TrapResult DEF Nemu!ExecTrap, Nemu!Retire, CoreInv
  <2> QED
    BY <1>2, <2>1 DEF Nemu!IsaNext, Nemu!exec_once
<1> QED
  BY <1>6, <1>7, <1>8, <1>9, <1>10

(* A load completes: one step of NEMU.                                     *)
LEMMA LoadIsNemu ==
  ASSUME CoreInv, Loading, lsu_valid, Running,
         status' = "run",
         NEW f_ar \in BOOLEAN, NEW l_ar \in BOOLEAN, NEW l_aw \in BOOLEAN,
         NEW l_w \in BOOLEAN, Units(f_ar, l_ar, l_aw, l_w)
  PROVE  Nemu!IsaNext
<1>1. /\ b_resp = "idle" /\ Executing /\ status = "run"
      /\ rready /\ r_rvalid
  BY DEF Loading, Executing, lsu_valid, WriteQuiet, Running, ReadPending
<1>2. /\ isaPc = pc /\ isaState = "RUNNING"
      /\ Nemu!Fetched = cur /\ Nemu!Cell(isaPc) \notin Unmapped
      /\ wb = Latched /\ pc_reg = pc_next /\ lsu_opt = opt
  BY <1>1, Executed
<1>3. pc' = pc_next /\ gpr' = NextGpr /\ csr' = NextCsr
  BY <1>1, <1>2, WrittenBack DEF Units
<1>4. mem' = mem /\ b_resp' # "okay"
  BY <1>1 DEF Units, WriteSlave, bvalid, Answered, CoreInv
<1>5. isaPc' = pc' /\ isaState' = "RUNNING"
  BY <1>4, MappedNext
<1>6. cur.op = "load"
  BY <1>2 DEF Loading, opt
<1> USE SameOps
<1> HIDE DEF cur
<1>7. /\ gpr' = WriteReg(gpr, cur.rd, r_rdata) /\ csr' = csr /\ pc' = Add(pc, 4)
      /\ exu_res = Add(gpr[cur.rs1], cur.imm)
  BY <1>2, <1>3, <1>6, LoadResult DEF CoreInv
<1>8. /\ Cell(exu_res) \notin Unmapped
      /\ r_rdata \in IF Cell(exu_res) \in Device THEN Word ELSE {mem[Cell(exu_res)]}
  BY <1>1 DEF CoreInv, WritebackCoherent, Running, access_fault, Answer, TypeOK
<1>9. Nemu!ExecLoad(cur)
  BY <1>2, <1>4, <1>5, <1>6, <1>7, <1>8 DEF Nemu!ExecLoad, Nemu!Retire, Nemu!snpc
<1> QED
  BY <1>2, <1>9 DEF Nemu!IsaNext, Nemu!exec_once

(* A store is performed, some cycles before it completes: one step of      *)
(* NEMU.                                                                   *)
LEMMA StoreIsNemu ==
  ASSUME CoreInv, Storing, b_resp # "okay", b_resp' = "okay", status = "run", status' = "run",
         ~lsu_valid,
         NEW f_ar \in BOOLEAN, NEW l_ar \in BOOLEAN, NEW l_aw \in BOOLEAN,
         NEW l_w \in BOOLEAN, Units(f_ar, l_ar, l_aw, l_w)
  PROVE  Nemu!IsaNext
<1>1. Executing
  BY DEF Executing
<1>2. /\ isaPc = pc /\ isaState = "RUNNING"
      /\ Nemu!Fetched = cur /\ Nemu!Cell(isaPc) \notin Unmapped
      /\ wb = Latched /\ pc_reg = pc_next /\ lsu_opt = opt
  BY <1>1, Executed
<1>3. UNCHANGED <<gpr, csr, pc_reg>>
  BY ExecutingStable DEF CoreInv
<1>4. isaPc' = pc_reg /\ isaState' = "RUNNING"
  BY <1>3, MappedNext
<1>5. cur.op = "store"
  BY <1>2 DEF Storing, opt
<1> USE SameOps
<1> HIDE DEF cur
<1>6. /\ pc_next = Add(pc, 4) /\ rs2 = gpr[cur.rs2]
      /\ exu_res = Add(gpr[cur.rs1], cur.imm)
  BY <1>2, <1>5, StoreResult DEF CoreInv
<1>7. awaddr = exu_res /\ wdata = rs2
  BY DEF CoreInv, WritebackCoherent
<1>8. WriteSlave(l_aw, l_w)
  BY DEF Units
<1>9. /\ Cell(exu_res) \notin Unmapped
      /\ mem' = IF Cell(exu_res) \in Device THEN mem ELSE [mem EXCEPT ![Cell(exu_res)] = rs2]
  BY <1>7, <1>8 DEF WriteSlave, Answer
<1>10. Nemu!ExecStore(cur)
  BY <1>2, <1>3, <1>4, <1>5, <1>6, <1>9 DEF Nemu!ExecStore, Nemu!Retire, Nemu!snpc
<1> QED
  BY <1>2, <1>10 DEF Nemu!IsaNext, Nemu!exec_once

(* An access fault, an undefined instruction or ebreak stops the           *)
(* simulation: NEMU stops too.                                             *)
LEMMA StoppedIsNemu ==
  ASSUME CoreInv, Stop
  PROVE  Nemu!IsaNext
<1> USE SameOps
<1>1. /\ status = "run" /\ isaState = "RUNNING"
      /\ UNCHANGED <<gpr, csr, mem, pc, b_resp, pc_reg>>
      /\ access_fault \/ decode_error \/ check_finish
  BY Mapped DEF Stop, archVars, dataVars, Running
<1>2. CASE access_fault
  <2>1. status' = "fatal"
    BY <1>2, Zenon DEF Stop
  <2>2. b_resp # "okay" /\ isaPc = pc
    <3>1. b_resp # "okay"
      BY <1>2 DEF access_fault, CoreInv, OneInFlight, Start, Fetching, Computing,
         Loading, Storing,
           FetchQuiet, ReadQuiet, WriteQuiet, ReadPending
    <3> QED
      BY <1>1, <3>1, Mapped
  <2>3. isaPc' = pc /\ isaState' = "PANIC"
    BY <1>1, <2>1, <2>2, MappedNext
  <2>4. CASE f_rready /\ f_slave = "err"
    <3>1. Fetching
      BY <2>4 DEF CoreInv, OneInFlight, Start, Fetching, Computing, Loading, Storing,
         FetchQuiet
    <3>2. Cell(pc) \in Unmapped
      BY <2>4, <3>1 DEF CoreInv, WritebackCoherent, f_rvalid, Answered, Answer
    <3> QED
      BY <1>1, <2>2, <2>3, <3>2 DEF Nemu!IsaNext, Nemu!OutOfBound
  <2>5. CASE (rready /\ r_slave = "err") \/ (bready /\ b_resp = "err")
    <3>1. Loading \/ Storing
      BY <2>5 DEF CoreInv, OneInFlight, Start, Fetching, Computing, ReadQuiet, WriteQuiet
    <3>2. /\ Nemu!Fetched = cur /\ wb = Latched /\ lsu_opt = opt
      BY <1>1, <2>2, <3>1, Executed DEF Executing
    <3>3. Loading => cur.op = "load"
      BY <3>2 DEF Loading, opt
    <3>4. Storing => cur.op = "store"
      BY <3>2 DEF Storing, opt
    <3>5. exu_res = Add(gpr[cur.rs1], cur.imm) /\ cur.op \in {"load", "store"}
      BY <3>1, <3>2, <3>3, <3>4, LoadResult, StoreResult DEF CoreInv
    <3>6. Cell(exu_res) \in Unmapped
      <4>1. CASE Loading
        <5>1. r_slave = "err"
          BY <2>5, <4>1 DEF Loading, WriteQuiet
        <5> QED
          BY <4>1, <5>1 DEF CoreInv, WritebackCoherent, r_rvalid, Answered, Answer
      <4>2. CASE Storing
        <5>1. b_resp = "err"
          BY <2>5, <4>2 DEF Storing, ReadQuiet
        <5> QED
          BY <4>2, <5>1 DEF CoreInv, WritebackCoherent, bvalid, Answered, Answer
      <4> QED
        BY <3>1, <4>1, <4>2
    <3> HIDE DEF cur
    <3> QED
      BY <1>1, <2>2, <2>3, <3>2, <3>5, <3>6 DEF Nemu!IsaNext, Nemu!OutOfBound
  <2> QED
    BY <1>2, <2>4, <2>5 DEF access_fault
<1>3. CASE decode_error /\ ~access_fault
  <2>1. status' = "decode_error"
    BY <1>3, Zenon DEF Stop
  <2>2. Fetching
    BY <1>3 DEF CoreInv, OneInFlight, Start, Fetching, Computing, Loading, Storing,
       FetchQuiet, decode_error, idu_valid
  <2>3. b_resp = "idle"
    BY <2>2 DEF Fetching, WriteQuiet
  <2>4. isaPc = pc /\ isaPc' = Add(pc, 4) /\ isaState' = "ABORT"
    BY <1>1, <2>1, <2>3, Mapped, MappedNext
  <2>5. instr = mem[Cell(pc)] /\ f_slave = Answer(Cell(pc)) /\ f_rready /\ cur.op = "inv"
    BY <1>3, <2>2 DEF CoreInv, WritebackCoherent, decode_error, idu_valid
  <2>6. Cell(pc) \notin Unmapped
    BY <1>3, <2>5 DEF access_fault, Answer
  <2>7. Nemu!Fetched = cur
    BY <2>4, <2>5 DEF Nemu!Fetched, cur
  <2> HIDE DEF cur
  <2>8. Nemu!ExecEnd(cur)
    BY <1>1, <2>4, <2>5 DEF Nemu!ExecEnd, Nemu!Retire, Nemu!snpc
  <2> QED
    BY <1>1, <2>4, <2>6, <2>7, <2>8 DEF Nemu!IsaNext, Nemu!exec_once
<1>4. CASE ~access_fault /\ ~decode_error
  <2>1. status' = "finish" /\ check_finish
    BY <1>1, <1>4, Zenon DEF Stop
  <2>2. Executing
    BY <2>1 DEF CoreInv, OneInFlight, Executing, Start, Fetching, check_finish,
       lsu_valid, ReadQuiet, WriteQuiet
  <2>3. cur.op = "ebreak" /\ lsu_opt = opt
    BY <2>1, <2>2 DEF check_finish, CoreInv, WritebackCoherent
  <2>4. Computing
    BY <2>2, <2>3 DEF Executing, Loading, Storing, opt
  <2>5. b_resp = "idle"
    BY <2>4 DEF Computing, WriteQuiet
  <2>6. isaPc = pc /\ isaPc' = Add(pc, 4) /\ isaState' = "END"
    BY <1>1, <2>1, <2>5, Mapped, MappedNext
  <2>7. Nemu!Fetched = cur /\ Nemu!Cell(isaPc) \notin Unmapped
    BY <1>1, <2>2, <2>5, Executed
  <2> HIDE DEF cur
  <2>8. Nemu!ExecEnd(cur)
    BY <1>1, <2>3, <2>6 DEF Nemu!ExecEnd, Nemu!Retire, Nemu!snpc
  <2> QED
    BY <1>1, <2>7, <2>8 DEF Nemu!IsaNext, Nemu!exec_once
<1> QED
  BY <1>1, <1>2, <1>3, <1>4

(* A cycle in which nothing is written and no store performed is none of   *)
(* NEMU's.                                                                 *)
LEMMA WaitIsStutter ==
  ASSUME UNCHANGED <<gpr, csr, mem>>, status = "run", status' = "run",
         (IF b_resp = "okay" THEN pc_reg ELSE pc) = (IF b_resp' = "okay" THEN pc_reg' ELSE pc')
  PROVE  UNCHANGED Nemu!isaVars
BY Mapped, MappedNext DEF Nemu!isaVars

(* A clock cycle is a step of NEMU or none.                                *)
LEMMA CycleIsNemu ==
  ASSUME CoreInv, Portable, Cycle
  PROVE  Nemu!IsaNext \/ UNCHANGED Nemu!isaVars
<1>1. PICK f_ar \in BOOLEAN, l_ar \in BOOLEAN, l_aw \in BOOLEAN,
           l_w \in BOOLEAN : Units(f_ar, l_ar, l_aw, l_w)
  BY CycleUnits
<1>2. Running /\ status = "run" /\ status' = "run"
  BY DEF Cycle, Running
<1>3. CASE Start \/ Fetching
  <2>1. ~lsu_valid /\ b_resp = "idle"
    BY <1>3 DEF Start, Fetching, lsu_valid, ReadQuiet, WriteQuiet
  <2>2. UNCHANGED <<gpr, csr, pc>>
    BY <1>1, <2>1, ArchStable DEF Units
  <2>3. mem' = mem /\ b_resp' # "okay"
    BY <1>1, <2>1 DEF Units, WriteSlave, bvalid, Answered
  <2> QED
    BY <1>2, <2>1, <2>2, <2>3, WaitIsStutter
<1>4. CASE Computing
  BY <1>1, <1>2, <1>4, ComputeIsNemu
<1>5. CASE Loading /\ lsu_valid
  BY <1>1, <1>2, <1>5, LoadIsNemu
<1>6. CASE Loading /\ ~lsu_valid
  <2>1. b_resp = "idle"
    BY <1>6 DEF Loading, WriteQuiet
  <2>2. UNCHANGED <<gpr, csr, pc>>
    BY <1>1, <1>6, ArchStable DEF Units
  <2>3. mem' = mem /\ b_resp' # "okay"
    BY <1>1, <2>1 DEF Units, WriteSlave, bvalid, Answered
  <2> QED
    BY <1>2, <2>1, <2>2, <2>3, WaitIsStutter
<1>7. CASE Storing /\ ~lsu_valid
  <2>1. UNCHANGED <<gpr, csr, pc, pc_reg>>
    BY <1>1, <1>7, ExecutingStable DEF CoreInv
  <2>2. WriteSlave(l_aw, l_w)
    BY <1>1 DEF Units
  <2>3. CASE b_resp # "okay" /\ b_resp' = "okay"
    BY <1>1, <1>2, <1>7, <2>3, StoreIsNemu
  <2>4. CASE b_resp = "okay"
    <3>1. ~bready
      BY <1>7, <2>4 DEF lsu_valid, bvalid, Answered, Storing
    <3>2. b_resp' = "okay" /\ mem' = mem
      BY <2>2, <2>4, <3>1 DEF WriteSlave, bvalid, Answered
    <3> QED
      BY <1>2, <2>1, <2>4, <3>2, WaitIsStutter
  <2>5. CASE b_resp # "okay" /\ b_resp' # "okay"
    <3>1. mem' = mem
      BY <2>2, <2>5 DEF WriteSlave, Answer
    <3> QED
      BY <1>2, <2>1, <2>5, <3>1, WaitIsStutter
  <2> QED
    BY <2>3, <2>4, <2>5
<1>8. CASE Storing /\ lsu_valid
  <2>1. bvalid /\ bready
    BY <1>8 DEF Storing, lsu_valid, ReadQuiet
  <2>2. b_resp = "okay"
    BY <1>2, <2>1 DEF Running, access_fault, bvalid, Answered
  <2>3. b_resp' = "idle" /\ mem' = mem
    BY <1>1, <2>1, <2>2 DEF Units, WriteSlave, bvalid, Answered
  <2>4. wb = Latched /\ cur.op = "store"
    BY <1>8 DEF CoreInv, WritebackCoherent, Executing, Storing, opt
  <2>5. pc' = pc_reg /\ gpr' = NextGpr /\ csr' = NextCsr
    BY <1>1, <1>8, WrittenBack DEF Units
  <2>6. gpr' = gpr /\ csr' = csr
    BY <2>4, <2>5, StoreResult DEF CoreInv
  <2> QED
    BY <1>2, <2>2, <2>3, <2>5, <2>6, WaitIsStutter
<1> QED
  BY <1>3, <1>4, <1>5, <1>6, <1>7, <1>8 DEF CoreInv, OneInFlight

(* The multi-cycle core implements the interpreter, one instruction at a   *)
(* time, whatever the bus delays and whatever the program, code that       *)
(* modifies itself included, as long as it executes only what both         *)
(* implement.                                                              *)
THEOREM CoreImplementsNemu == Spec /\ []Portable => ImplementsNemu
<1>1. Init => Nemu!IsaInit
  <2> SUFFICES ASSUME Init PROVE Nemu!IsaInit
    OBVIOUS
  <2>1. TypeOK
    BY InitType
  <2>2. isaPc = pc /\ isaState = "RUNNING"
    BY Mapped DEF Init, Reset
  <2> QED
    BY <2>1, <2>2, SameOps, Rv32Assumption DEF Nemu!IsaInit, Init, Reset, TypeOK, Regs
<1>2. CoreInv /\ Portable /\ [Next]_vars => [Nemu!IsaNext]_(Nemu!isaVars)
  <2>1. UNCHANGED vars => UNCHANGED Nemu!isaVars
    BY DEF vars, archVars, dataVars, Nemu!isaVars, isaPc, isaState
  <2> QED
    BY <2>1, CycleIsNemu, StoppedIsNemu DEF Next
<1> QED
  BY <1>1, <1>2, CoreInvariant, PTL DEF Spec, ImplementsNemu, Nemu!IsaSpec

-----------------------------------------------------------------------------
(* The harness.                                                            *)

(* The reference of the harness has the core's words and cells.            *)
LEMMA SameRefOps ==
  /\ Ref!WordSize = WordSize /\ Ref!Word = Word /\ Ref!Regs = Regs /\ Ref!Csrs = Csrs /\ Ref!Cells = Cells
  /\ \A a, b : Ref!Add(a, b) = Add(a, b)
  /\ \A a : Ref!Cell(a) = Cell(a)
  /\ \A r, i, v : Ref!WriteReg(r, i, v) = WriteReg(r, i, v)
  /\ Ref!IRQ_ECALL = IRQ_ECALL
  /\ Ref!CsrC = CsrC /\ Ref!CsrImm = CsrImm
BY DEF Ref!WordSize, WordSize, Ref!Word, Word, Ref!Regs, Regs, Ref!Csrs, Csrs, Ref!Cells,
   Cells, Ref!Add, Add, Ref!Cell, Cell,
   Ref!WriteReg, WriteReg, Ref!IRQ_ECALL, IRQ_ECALL, Ref!CsrC, CsrC, Ref!CsrImm, CsrImm

(* The reference's registers and memory have their types.                  *)
RefTypes ==
  /\ ref_pc \in Word /\ ref_gpr \in [Regs -> Word]
  /\ ref_csr \in [Csrs -> Word] /\ ref_mem \in [Cells -> Word]
  /\ ref_state \in {"RUNNING", "END", "ABORT", "PANIC"}

(* What the reference fetches is an instruction.                           *)
LEMMA RefFetchType ==
  ASSUME RefTypes
  PROVE  LET i == Ref!Fetched IN
         /\ i.fn \in Fns /\ i.imm \in Word
         /\ i.rd \in Regs /\ i.rs1 \in Regs /\ i.rs2 \in Regs /\ i.csr \in Csrs
         /\ ref_gpr[i.rs1] \in Word /\ ref_gpr[i.rs2] \in Word /\ ref_csr[i.csr] \in Word
<1>1. Ref!Fetched \in Instr
  BY SameRefOps, CellType, Rv32Assumption DEF Ref!Fetched, RefTypes
<1> QED
  BY <1>1 DEF Instr, RefTypes

(* A step of the reference keeps its types.                                *)
LEMMA RefTypesKept ==
  ASSUME RefTypes, Ref!IsaNext
  PROVE  RefTypes'
<1> USE SameRefOps, RefFetchType
<1> DEFINE i == Ref!Fetched
<1>0. /\ i.fn \in Fns /\ i.imm \in Word
      /\ i.rd \in Regs /\ i.rs1 \in Regs /\ i.rs2 \in Regs /\ i.csr \in Csrs
      /\ ref_gpr[i.rs1] \in Word /\ ref_gpr[i.rs2] \in Word /\ ref_csr[i.csr] \in Word
  OBVIOUS
<1>a. \A x, y \in Word : Add(x, y) \in Word
  BY AddWord, WordInt
<1>b. Add(ref_pc, 4) \in Word
  BY AddWord, WordInt DEF RefTypes
<1>c. ASSUME NEW r \in Regs, NEW v \in Word PROVE WriteReg(ref_gpr, r, v) \in [Regs -> Word]
  BY WriteRegType DEF RefTypes
<1>d. /\ Ref!OutOfBound \/ Ref!ExecAlu(i) \/ Ref!ExecLoad(i) \/ Ref!ExecStore(i) \/ Ref!ExecJump(i)
         \/ Ref!ExecCsr(i) \/ Ref!ExecTrap(i) \/ Ref!ExecEnd(i)
  BY DEF Ref!IsaNext, Ref!exec_once
<1> HIDE DEF i
<1>1. CASE Ref!ExecAlu(i)
  <2>1. PICK v : /\ v = CASE i.op = "alu" -> Alu(i.fn, ref_gpr[i.rs1], ref_gpr[i.rs2])
                         [] i.op = "alui" -> Alu(i.fn, ref_gpr[i.rs1], i.imm)
                         [] i.op = "lui" -> i.imm
                         [] i.op = "auipc" -> Add(ref_pc, i.imm)
                 /\ ref_gpr' = WriteReg(ref_gpr, i.rd, v)
                 /\ ref_csr' = ref_csr /\ ref_pc' = Add(ref_pc, 4) /\ ref_mem' = ref_mem /\ ref_state' = ref_state
    BY <1>1 DEF Ref!ExecAlu, Ref!Retire, Ref!snpc
  <2>2. i.op \in {"alu", "alui", "lui", "auipc"}
    BY <1>1 DEF Ref!ExecAlu
  <2>3. /\ Alu(i.fn, ref_gpr[i.rs1], ref_gpr[i.rs2]) \in Word
        /\ Alu(i.fn, ref_gpr[i.rs1], i.imm) \in Word
        /\ Add(ref_pc, i.imm) \in Word
    BY <1>0, <1>a, Rv32Assumption DEF RefTypes
  <2>4. v \in Word
    BY <1>0, <2>1, <2>2, <2>3
  <2> QED
    BY <1>0, <1>b, <1>c, <2>1, <2>4 DEF RefTypes
<1>2. CASE Ref!ExecLoad(i)
  <2>1. PICK v : /\ v \in IF Cell(Add(ref_gpr[i.rs1], i.imm)) \in Device THEN Word ELSE {ref_mem[Cell(Add(ref_gpr[i.rs1], i.imm))]}
                 /\ ref_gpr' = WriteReg(ref_gpr, i.rd, v)
                 /\ ref_csr' = ref_csr /\ ref_pc' = Add(ref_pc, 4) /\ ref_mem' = ref_mem /\ ref_state' = ref_state
    BY <1>2 DEF Ref!ExecLoad, Ref!Retire, Ref!snpc
  <2>2. ref_mem[Cell(Add(ref_gpr[i.rs1], i.imm))] \in Word
    BY <1>0, <1>a, CellType DEF RefTypes
  <2>3. v \in Word
    BY <2>1, <2>2
  <2> QED
    BY <1>0, <1>b, <1>c, <2>1, <2>3 DEF RefTypes
<1>3. CASE Ref!ExecStore(i)
  BY <1>0, <1>b, <1>3 DEF Ref!ExecStore, Ref!Retire, Ref!snpc, RefTypes
<1>4. CASE Ref!ExecJump(i)
  <2>1. /\ ref_gpr' = (IF i.op = "branch" THEN ref_gpr ELSE WriteReg(ref_gpr, i.rd, Add(ref_pc, 4)))
        /\ ref_csr' = ref_csr /\ ref_mem' = ref_mem /\ ref_state' = ref_state
    BY <1>4 DEF Ref!ExecJump, Ref!Retire, Ref!snpc
  <2>2. LET t == Add(ref_gpr[i.rs1], i.imm) IN
        /\ i.op \in {"branch", "jal", "jalr"}
        /\ i.op = "branch" => ref_pc' = IF Alu(i.fn, ref_gpr[i.rs1], ref_gpr[i.rs2]) # 0 THEN Add(ref_pc, i.imm) ELSE Add(ref_pc, 4)
        /\ i.op = "jal" => ref_pc' = Add(ref_pc, i.imm)
        /\ i.op = "jalr" => ref_pc' = t - (t % 2)
    BY <1>4 DEF Ref!ExecJump, Ref!Retire, Ref!snpc
  <2>3. \A t \in Word : t - (t % 2) \in Word
    <3>1. WordSize \in Nat
      BY Rv32Assumption DEF WordSize
    <3> QED
      BY <3>1 DEF Word
  <2>4. ref_pc' \in Word
    BY <1>0, <1>a, <1>b, <2>2, <2>3 DEF RefTypes
  <2> QED
    BY <1>0, <1>b, <1>c, <2>1, <2>4 DEF RefTypes
<1>5. CASE Ref!ExecCsr(i)
  <2>1. /\ ref_gpr' = WriteReg(ref_gpr, i.rd, ref_csr[i.csr])
        /\ ref_csr' = [ref_csr EXCEPT ![i.csr] = IF i.op = "csrrw" THEN ref_gpr[i.rs1] ELSE Alu("or", ref_csr[i.csr], ref_gpr[i.rs1])]
        /\ ref_pc' = Add(ref_pc, 4) /\ ref_mem' = ref_mem /\ ref_state' = ref_state
    BY <1>5 DEF Ref!ExecCsr, Ref!Retire, Ref!snpc
  <2>2. Alu("or", ref_csr[i.csr], ref_gpr[i.rs1]) \in Word
    BY <1>0, Rv32Assumption
  <2> QED
    BY <1>0, <1>b, <1>c, <2>1, <2>2 DEF RefTypes
<1>6. CASE Ref!ExecTrap(i)
  <2>1. ref_csr["mtvec"] \in Word /\ ref_csr["mepc"] \in Word
    BY DEF RefTypes, Csrs
  <2> QED
    BY <1>6, <2>1, ConstWords DEF Ref!ExecTrap, Ref!Retire, RefTypes
<1>7. CASE Ref!ExecEnd(i)
  BY <1>7, <1>b DEF Ref!ExecEnd, Ref!Retire, Ref!snpc, RefTypes
<1>8. CASE Ref!OutOfBound
  BY <1>8 DEF Ref!OutOfBound, RefTypes
<1> QED
  BY <1>d, <1>1, <1>2, <1>3, <1>4, <1>5, <1>6, <1>7, <1>8

-----------------------------------------------------------------------------
(* The executing instruction has been answered by a device.                *)
Served ==
  \/ Loading /\ r_rvalid /\ Cell(araddr) \in Device \ Unmapped
  \/ Storing /\ bvalid /\ Cell(awaddr) \in Device \ Unmapped

(* The flag that makes the harness skip the reference is up exactly when   *)
(* the executing instruction was answered by a device.                     *)
SkipInv ==
  /\ is_skip_ref => Served
  /\ loop # "go" /\ status = "run" /\ Served => is_skip_ref
  /\ loop = "go" => ~is_skip_ref
  /\ loop \in {"step", "go"} => lsu_valid /\ status = "run"
  /\ loop \in {"eval", "step", "go", "break"}
  /\ is_skip_ref \in BOOLEAN /\ is_skip_ref_r \in BOOLEAN

(* The harness adds nothing to what the core does.                         *)
LEMMA HarnessRunsCore == [DiffNext]_diffVars => [Next]_vars
BY DEF DiffNext, difftest_check, difftest_step, clock_edge, diffVars

(* The steps of the harness between two clock edges leave the core as it   *)
(* is.                                                                     *)
LEMMA FrozenHarness ==
  ASSUME UNCHANGED vars
  PROVE  /\ Served' = Served /\ lsu_valid' = lsu_valid
         /\ Executing' = Executing /\ Storing' = Storing /\ Start' = Start
<1>1. UNCHANGED <<ifuVars, fetchVars, lsuVars, dataVars, wbu_ready>>
  BY DEF vars
<1> QED
  BY <1>1 DEF Served, lsu_valid, Executing, Start, Computing, Loading, Storing,
     FetchQuiet, ReadQuiet, WriteQuiet,
     ReadPending, r_rvalid, bvalid, Answered, ifuVars, fetchVars, lsuVars, dataVars

(* A completed instruction leaves nothing served.                          *)
LEMMA CompletedServes ==
  ASSUME CoreInv, lsu_valid, Cycle
  PROVE  ~Served' /\ ~DeviceServed /\ Start'
<1>1. PICK f_ar \in BOOLEAN, l_ar \in BOOLEAN, l_aw \in BOOLEAN,
           l_w \in BOOLEAN : Units(f_ar, l_ar, l_aw, l_w)
  BY CycleUnits
<1>2. Executing
  BY DEF CoreInv, OneInFlight, Executing, Start, Fetching, lsu_valid, ReadQuiet,
     WriteQuiet
<1>3. Start'
  BY <1>1, <1>2, ComputingStep, LoadingStep, StoringStep DEF CoreInv, Executing
<1>4. ~Served'
  BY <1>3, PhasesDisjointNext DEF Served
<1>5. r_slave # "busy" /\ b_resp # "busy"
  BY <1>2 DEF Executing, Computing, Loading, Storing, lsu_valid, ReadQuiet, WriteQuiet,
     ReadPending, r_rvalid, bvalid, Answered
<1> QED
  BY <1>3, <1>4, <1>5 DEF DeviceServed

(* While an instruction waits for the bus, a device's answer is noted when *)
(* it comes and is not forgotten.                                          *)
LEMMA PendingServes ==
  ASSUME CoreInv, ~lsu_valid, Cycle
  PROVE  Served' <=> Served \/ DeviceServed
<1>1. PICK f_ar \in BOOLEAN, l_ar \in BOOLEAN, l_aw \in BOOLEAN,
           l_w \in BOOLEAN : Units(f_ar, l_ar, l_aw, l_w)
  BY CycleUnits
<1>2. CASE Start \/ Fetching
  <2>1. r_slave = "idle" /\ b_resp = "idle"
    BY <1>2 DEF Start, Fetching, ReadQuiet, WriteQuiet
  <2>2. ~r_rvalid' /\ ~bvalid'
    BY <1>1, <2>1 DEF Units, ReadSlave, WriteSlave, r_rvalid, bvalid, Answered
  <2> QED
    BY <2>1, <2>2 DEF Served, DeviceServed, r_rvalid, bvalid, Answered
<1>3. CASE Computing
  BY <1>3 DEF Computing, lsu_valid, ReadQuiet, WriteQuiet
<1>4. CASE Loading
  <2>1. Loading' /\ ~Storing' /\ araddr' = araddr
    BY <1>1, <1>4, LoadingStep, PhasesDisjointNext, ExecutingStable DEF CoreInv
  <2>2. ~Storing /\ b_resp = "idle"
    BY <1>4, PhasesDisjoint DEF Loading, WriteQuiet
  <2>3. ReadSlave(l_ar)
    BY <1>1 DEF Units
  <2>4. r_rvalid => r_rvalid' /\ r_slave' = r_slave
    BY <1>4, <2>3 DEF ReadSlave, lsu_valid, Loading, ReadPending, r_rvalid, Answered
  <2>5. r_rvalid' => r_rvalid \/ (r_slave = "busy" /\ r_slave' = Answer(Cell(araddr)))
    BY <2>3 DEF ReadSlave, r_rvalid, Answered
  <2>6. r_slave = "busy" /\ r_slave' = "okay" => r_rvalid' /\ Cell(araddr) \notin Unmapped
    BY <2>3 DEF ReadSlave, r_rvalid, Answered, Answer
  <2> QED
    BY <1>4, <2>1, <2>2, <2>4, <2>5, <2>6 DEF Served, DeviceServed, Answer
<1>5. CASE Storing
  <2>1. Storing' /\ ~Loading' /\ awaddr' = awaddr
    BY <1>1, <1>5, StoringStep, PhasesDisjointNext, ExecutingStable DEF CoreInv
  <2>2. ~Loading /\ r_slave = "idle"
    BY <1>5, PhasesDisjoint DEF Storing, ReadQuiet
  <2>3. WriteSlave(l_aw, l_w)
    BY <1>1 DEF Units
  <2>4. bvalid => bvalid'
    BY <1>5, <2>3 DEF WriteSlave, lsu_valid, Storing, bvalid, Answered
  <2>5. bvalid' => bvalid \/ (b_resp = "busy" /\ b_resp' = Answer(Cell(awaddr)))
    BY <2>3 DEF WriteSlave, bvalid, Answered
  <2>6. b_resp = "busy" /\ b_resp' = "okay" => bvalid' /\ Cell(awaddr) \notin Unmapped
    BY <2>3 DEF WriteSlave, bvalid, Answered, Answer
  <2> QED
    BY <1>5, <2>1, <2>2, <2>4, <2>5, <2>6 DEF Served, DeviceServed, Answer
<1> QED
  BY <1>2, <1>3, <1>4, <1>5 DEF CoreInv, OneInFlight

(* Every step keeps the flag right.                                        *)
LEMMA SkipKept ==
  ASSUME CoreInv, SkipInv, [DiffNext]_diffVars
  PROVE  SkipInv'
<1>1. CASE UNCHANGED diffVars
  BY <1>1, FrozenHarness DEF SkipInv, diffVars, skipVars, vars
<1>2. CASE difftest_check
  <2>1. UNCHANGED vars /\ loop' \in {"step", "break"} /\ is_skip_ref' = is_skip_ref /\ is_skip_ref_r' \in BOOLEAN
    BY <1>2 DEF difftest_check, SkipInv
  <2>2. loop = "eval" /\ lsu_valid /\ status = "run"
    BY <1>2 DEF difftest_check
  <2>3. Served' = Served /\ lsu_valid' = lsu_valid /\ status' = status
    BY <2>1, FrozenHarness DEF vars
  <2> QED
    BY <2>1, <2>2, <2>3 DEF SkipInv
<1>3. CASE difftest_step
  BY <1>3, FrozenHarness DEF SkipInv, difftest_step, skipVars, vars
<1>4. CASE clock_edge /\ Cycle
  <2>1. loop' = "eval" /\ is_skip_ref_r' = is_skip_ref_r /\ is_skip_ref' = (is_skip_ref \/ DeviceServed)
        /\ status' = status /\ status = "run" /\ (loop = "go" \/ (loop = "eval" /\ ~lsu_valid))
    BY <1>4 DEF clock_edge, Cycle, Running
  <2>2. CASE lsu_valid
    BY <1>4, <2>1, <2>2, CompletedServes DEF SkipInv
  <2>3. CASE ~lsu_valid
    BY <1>4, <2>1, <2>3, PendingServes DEF SkipInv
  <2> QED
    BY <2>2, <2>3
<1>5. CASE clock_edge /\ Stop
  <2>1. loop' = "eval" /\ is_skip_ref_r' = is_skip_ref_r /\ is_skip_ref' = (is_skip_ref \/ DeviceServed)
        /\ UNCHANGED <<ifuVars, fetchVars, lsuVars, dataVars, wbu_ready>>
    BY <1>5 DEF clock_edge, Stop
  <2>2. status' # "run"
    BY <1>5, Zenon DEF Stop
  <2>3. ~DeviceServed
    BY <2>1 DEF DeviceServed, dataVars
  <2>4. Served' = Served
    BY <2>1 DEF Served, Loading, Storing, FetchQuiet, ReadQuiet, WriteQuiet,
       ReadPending, r_rvalid, bvalid, Answered, ifuVars, fetchVars, lsuVars, dataVars
  <2> QED
    BY <2>1, <2>2, <2>3, <2>4 DEF SkipInv
<1> QED
  BY <1>1, <1>2, <1>3, <1>4, <1>5 DEF DiffNext, clock_edge, Next

(* The core inside the harness keeps its invariant.                        *)
THEOREM HarnessCore == DiffSpec => Spec
BY HarnessRunsCore, PTL DEF DiffSpec, DiffInit, Spec

(* The flag is always right.                                               *)
LEMMA SkipInvariant == DiffSpec => []SkipInv
<1>1. DiffInit => SkipInv
  <2> SUFFICES ASSUME DiffInit PROVE SkipInv
    OBVIOUS
  <2>1. ~Served
    BY InitPhase, PhasesDisjoint DEF DiffInit, Served
  <2> QED
    BY <2>1 DEF DiffInit, SkipInv
<1> QED
  BY <1>1, SkipKept, HarnessCore, CoreInvariant, PTL DEF DiffSpec

(* The harness skips the comparison of an instruction if and only if it    *)
(* has accessed a device (difftest.cpp, the DPI functions of the memory).  *)
THEOREM SkipsAreDevices == DiffSpec => []SkipIsForDevice
<1>1. ASSUME CoreInv, SkipInv PROVE SkipIsForDevice
  <2>1. Executing => wb.exu_res = exu_res /\ lsu_opt = opt
    BY <1>1 DEF CoreInv, WritebackCoherent, Latched
  <2>2. Loading => araddr = wb.exu_res /\ lsu_opt = "load" /\ ~Storing
    BY <1>1, <2>1, PhasesDisjoint DEF CoreInv, WritebackCoherent, Executing, Loading
  <2>3. Storing => awaddr = wb.exu_res /\ lsu_opt = "store"
    BY <1>1, <2>1 DEF CoreInv, WritebackCoherent, Executing, Storing
  <2>4. lsu_valid => \/ Computing /\ lsu_opt = "nop" /\ ~Loading /\ ~Storing
                     \/ Loading /\ r_rvalid
                     \/ Storing /\ bvalid
    BY <1>1, PhasesDisjoint DEF CoreInv, OneInFlight, Start, Fetching, Computing,
       Loading, Storing, lsu_valid, ReadQuiet, WriteQuiet, ReadPending
  <2>5. /\ is_skip_ref => Loading \/ Storing
        /\ is_skip_ref => Cell(wb.exu_res) \in Device
    BY <1>1, <2>2, <2>3 DEF SkipInv, Served
  <2>6. ASSUME loop \in {"eval", "step"}, lsu_valid, status = "run"
        PROVE  is_skip_ref = (/\ lsu_opt \in {"load", "store"}
                              /\ Cell(wb.exu_res) \in Device \ Unmapped)
    <3>1. is_skip_ref = Served
      BY <1>1, <2>6 DEF SkipInv, Served
    <3>2. Served <=> /\ lsu_opt \in {"load", "store"}
                     /\ Cell(wb.exu_res) \in Device \ Unmapped
      BY <2>2, <2>3, <2>4, <2>6 DEF Served
    <3> QED
      BY <3>1, <3>2 DEF Served
  <2> QED
    BY <2>5, <2>6 DEF SkipIsForDevice
<1> QED
  BY <1>1, HarnessCore, CoreInvariant, SkipInvariant, PTL

-----------------------------------------------------------------------------
(* What NEMU's memory becomes when the executing store has been performed. *)
Performed(m) ==
  IF Storing /\ b_resp = "okay" /\ Cell(awaddr) \notin Device
  THEN [m EXCEPT ![Cell(awaddr)] = wdata] ELSE m

(* Between instructions, and while one executes, the reference has the     *)
(* registers of the core, and its memory but for the store that has been   *)
(* performed.                                                              *)
RefInSync ==
  status = "run" /\ loop \in {"eval", "step"} =>
    /\ ref_state = "RUNNING"
    /\ ~is_skip_ref_r => checkregs
    /\ loop = "step" => ~is_skip_ref_r
    /\ Executing => instr = ref_mem[Cell(pc)]
    /\ mem = Performed(ref_mem)

(* Once the reference was stepped it has what the core is about to write   *)
(* back.                                                                   *)
RefStepped ==
  loop = "go" /\ Running =>
    /\ ref_state = "RUNNING" /\ ref_mem = mem
    /\ ~is_skip_ref_r => ref_pc = pc_reg /\ ref_gpr = NextGpr /\ ref_csr = NextCsr

(* The invariant of the comparison.                                        *)
RefInv == RefTypes /\ RefInSync /\ RefStepped /\ loop # "break"

(* The reference executes the instruction that completes, with the same    *)
(* results.                                                                *)
LEMMA RefExecutes ==
  ASSUME CoreInv, Portable, Running, lsu_valid, checkregs,
         ref_state = "RUNNING", instr = ref_mem[Cell(pc)], mem = Performed(ref_mem), ~Served,
         Ref!IsaNext
  PROVE  /\ ref_state' = "RUNNING" /\ ref_mem' = mem
         /\ ref_pc' = pc_reg /\ ref_gpr' = NextGpr /\ ref_csr' = NextCsr
<1> USE SameRefOps
<1>1. Executing
  BY DEF CoreInv, OneInFlight, Executing, Start, Fetching, lsu_valid, ReadQuiet,
     WriteQuiet
<1>2. /\ wb = Latched /\ pc_reg = pc_next /\ lsu_opt = opt
      /\ cur.op # "inv" /\ Cell(pc) \notin Unmapped /\ TypeOK /\ gpr[0] = 0
  BY <1>1 DEF CoreInv, WritebackCoherent, X0IsZero
<1>3. Ref!Fetched = cur /\ ref_pc = pc /\ ref_gpr = gpr /\ ref_csr = csr
  BY DEF checkregs, Ref!Fetched, cur
<1>4. cur.op \in Ops \ (CsrC \cup CsrImm \cup {"fence_i", "zero", "inv", "ebreak"})
  <2>1. cur.op \in Ops /\ instr \in Word
    BY CurType DEF CoreInv, TypeOK
  <2>2. cur.op \notin CsrC \cup CsrImm \cup {"fence_i", "zero"}
    BY <1>1 DEF Portable
  <2>3. cur.op # "ebreak"
    BY DEF Running, check_finish
  <2> QED
    BY <1>2, <2>1, <2>2, <2>3
<1> HIDE DEF cur
<1>5. \/ Ref!OutOfBound \/ Ref!ExecAlu(cur) \/ Ref!ExecLoad(cur) \/ Ref!ExecStore(cur) \/ Ref!ExecJump(cur)
      \/ Ref!ExecCsr(cur) \/ Ref!ExecTrap(cur) \/ Ref!ExecEnd(cur)
  BY <1>3 DEF Ref!IsaNext, Ref!exec_once
<1>6. ~Ref!ExecEnd(cur)
  BY <1>4 DEF Ref!ExecEnd
<1>7. Ref!OutOfBound => cur.op \in {"load", "store"} /\ Cell(Add(gpr[cur.rs1], cur.imm)) \in Unmapped
  BY <1>2, <1>3 DEF Ref!OutOfBound
<1>8. CASE Computing
  <2>1. cur.op \notin {"load", "store"}
    BY <1>2, <1>8 DEF Computing, opt
  <2>2. mem = ref_mem
    BY <1>8, PhasesDisjoint DEF Performed
  <2>3. ~Ref!OutOfBound /\ ~Ref!ExecLoad(cur) /\ ~Ref!ExecStore(cur)
    BY <1>7, <2>1 DEF Ref!ExecLoad, Ref!ExecStore
  <2>4. CASE Ref!ExecAlu(cur)
    <3>1. cur.op \in {"alu", "alui", "lui", "auipc"}
      BY <2>4 DEF Ref!ExecAlu
    <3> QED
      BY <1>2, <1>3, <2>2, <2>4, <3>1, AluResult DEF Ref!ExecAlu, Ref!Retire, Ref!snpc
  <2>5. CASE Ref!ExecJump(cur)
    <3>1. cur.op \in {"branch", "jal", "jalr"}
      BY <2>5 DEF Ref!ExecJump
    <3>2. cur.op = "jalr" => LET t == Add(gpr[cur.rs1], cur.imm) IN t - (t % 2) = t
      <4>1. cur.op = "jalr" => pc_next = Add(gpr[cur.rs1], cur.imm)
        BY <1>2, <3>1, JumpResult
      <4>2. pc_next \in Int
        BY <1>2, ExuType, WordInt
      <4>3. cur.op = "jalr" => pc_next % 2 = 0
        BY <1>1 DEF Portable
      <4>4. cur.op = "jalr" => pc_next - (pc_next % 2) = pc_next
        BY <4>2, <4>3
      <4> QED
        BY <4>1, <4>4
    <3> QED
      BY <1>2, <1>3, <2>2, <2>5, <3>1, <3>2, JumpResult DEF Ref!ExecJump, Ref!Retire,
         Ref!snpc
  <2>6. CASE Ref!ExecCsr(cur)
    <3>1. cur.op \in {"csrrw", "csrrs"}
      BY <2>6 DEF Ref!ExecCsr
    <3> QED
      BY <1>2, <1>3, <2>2, <2>6, <3>1, CsrResult DEF Ref!ExecCsr, Ref!Retire, Ref!snpc
  <2>7. CASE Ref!ExecTrap(cur)
    <3>1. cur.op \in {"ecall", "mret"}
      BY <2>7 DEF Ref!ExecTrap
    <3> QED
      BY <1>2, <1>3, <2>2, <2>7, <3>1, TrapResult DEF Ref!ExecTrap, Ref!Retire, Ref!snpc
  <2> QED
    BY <1>5, <1>6, <2>3, <2>4, <2>5, <2>6, <2>7
<1>9. CASE Loading
  <2>1. cur.op = "load"
    BY <1>2, <1>9 DEF Loading, opt
  <2>2. mem = ref_mem
    BY <1>9, PhasesDisjoint DEF Performed
  <2>3. r_rvalid /\ rready
    BY <1>9 DEF lsu_valid, Loading, WriteQuiet, ReadPending
  <2>4. /\ NextGpr = WriteReg(gpr, cur.rd, r_rdata) /\ NextCsr = csr /\ pc_next = Add(pc, 4)
        /\ exu_res = Add(gpr[cur.rs1], cur.imm) /\ araddr = exu_res
    BY <1>2, <1>9, <2>1, LoadResult DEF CoreInv, WritebackCoherent
  <2>5. Cell(araddr) \notin Unmapped
    BY <1>9, <2>3 DEF CoreInv, WritebackCoherent, Running, access_fault, Answer
  <2>6. Cell(araddr) \notin Device /\ r_rdata = mem[Cell(araddr)]
    BY <1>9, <2>3, <2>5 DEF Served, CoreInv, WritebackCoherent
  <2>7. Ref!ExecLoad(cur)
    BY <1>5, <1>6, <1>7, <2>1, <2>4, <2>5 DEF Ref!ExecAlu, Ref!ExecStore, Ref!ExecJump,
       Ref!ExecCsr, Ref!ExecTrap
  <2> QED
    BY <1>2, <1>3, <2>2, <2>4, <2>6, <2>7 DEF Ref!ExecLoad, Ref!Retire, Ref!snpc
<1>10. CASE Storing
  <2>1. cur.op = "store"
    BY <1>2, <1>10 DEF Storing, opt
  <2>2. bvalid /\ bready
    BY <1>10 DEF lsu_valid, Storing, ReadQuiet
  <2>3. /\ NextGpr = gpr /\ NextCsr = csr /\ pc_next = Add(pc, 4) /\ rs2 = gpr[cur.rs2]
        /\ exu_res = Add(gpr[cur.rs1], cur.imm) /\ awaddr = exu_res /\ wdata = rs2
    BY <1>2, <1>10, <2>1, StoreResult DEF CoreInv, WritebackCoherent
  <2>4. b_resp = "okay" /\ Cell(awaddr) \notin Unmapped
    BY <1>10, <2>2 DEF CoreInv, WritebackCoherent, Running, access_fault, Answer, bvalid,
       Answered
  <2>5. Cell(awaddr) \notin Device
    BY <1>10, <2>2, <2>4 DEF Served
  <2>6. mem = [ref_mem EXCEPT ![Cell(awaddr)] = wdata]
    BY <1>10, <2>4, <2>5 DEF Performed
  <2>7. Ref!ExecStore(cur)
    BY <1>5, <1>6, <1>7, <2>1, <2>3, <2>4 DEF Ref!ExecAlu, Ref!ExecLoad, Ref!ExecJump,
       Ref!ExecCsr, Ref!ExecTrap
  <2> QED
    BY <1>2, <1>3, <2>3, <2>5, <2>6, <2>7 DEF Ref!ExecStore, Ref!Retire, Ref!snpc
<1> QED
  BY <1>1, <1>8, <1>9, <1>10 DEF Executing

(* While the core executes the reference waits.                            *)
LEMMA RefWaits ==
  ASSUME CoreInv, CoreInv', RefInSync, loop = "eval", ~lsu_valid, Cycle,
         loop' = "eval", UNCHANGED <<refVars, is_skip_ref_r>>
  PROVE  RefInSync'
<1>1. PICK f_ar \in BOOLEAN, l_ar \in BOOLEAN, l_aw \in BOOLEAN,
           l_w \in BOOLEAN : Units(f_ar, l_ar, l_aw, l_w)
  BY CycleUnits
<1>2. /\ status = "run" /\ status' = "run" /\ UNCHANGED <<gpr, csr, pc>>
      /\ UNCHANGED <<ref_pc, ref_gpr, ref_csr, ref_mem, ref_state>>
  BY <1>1, ArchStable DEF Cycle, Running, Units, refVars
<1>3. /\ ref_state = "RUNNING" /\ ~is_skip_ref_r => checkregs
      /\ Executing => instr = ref_mem[Cell(pc)]
      /\ mem = Performed(ref_mem)
  BY <1>2 DEF RefInSync
<1>4. ref_state' = "RUNNING" /\ ~is_skip_ref_r' => checkregs'
  BY <1>2, <1>3 DEF checkregs
<1>5. (Executing' => instr' = ref_mem[Cell(pc)]) /\ mem' = Performed(ref_mem)'
  <2>1. CASE Start \/ Fetching
    <3>1. b_resp = "idle" /\ ~Storing
      BY <2>1, PhasesDisjoint DEF Start, Fetching, WriteQuiet
    <3>2. mem' = mem /\ b_resp' # "okay" /\ ~bvalid'
      BY <1>1, <3>1 DEF Units, WriteSlave, bvalid, Answered
    <3>3. mem = ref_mem
      BY <1>3, <3>1 DEF Performed
    <3>4. Executing' => instr' = mem'[Cell(pc')]
      BY <3>2 DEF CoreInv, WritebackCoherent
    <3> QED
      BY <1>2, <3>2, <3>3, <3>4 DEF Performed
  <2>2. CASE Computing
    BY <2>2 DEF Computing, lsu_valid, ReadQuiet, WriteQuiet
  <2>3. CASE Loading
    <3>1. Loading' /\ ~Storing' /\ instr' = instr
      BY <1>1, <2>3, LoadingStep, PhasesDisjointNext, ExecutingStable DEF CoreInv
    <3>2. b_resp = "idle" /\ ~Storing
      BY <2>3, PhasesDisjoint DEF Loading, WriteQuiet
    <3>3. mem' = mem
      BY <1>1, <3>2 DEF Units, WriteSlave, bvalid, Answered
    <3> QED
      BY <1>2, <1>3, <2>3, <3>1, <3>2, <3>3 DEF Performed, Executing
  <2>4. CASE Storing
    <3>1. Storing' /\ UNCHANGED <<instr, awaddr, wdata>>
      BY <1>1, <2>4, StoringStep, ExecutingStable DEF CoreInv
    <3>2. WriteSlave(l_aw, l_w)
      BY <1>1 DEF Units
    <3>3. CASE b_resp = "okay"
      <4>1. b_resp' = "okay" /\ mem' = mem
        BY <2>4, <3>2, <3>3 DEF lsu_valid, Storing, WriteSlave, bvalid, Answered
      <4> QED
        BY <1>2, <1>3, <2>4, <3>1, <3>3, <4>1 DEF Performed, Executing
    <3>4. CASE b_resp # "okay" /\ b_resp' = "okay"
      <4>1. mem' = IF Cell(awaddr) \in Device THEN mem ELSE [mem EXCEPT ![Cell(awaddr)] = wdata]
        BY <3>2, <3>4 DEF WriteSlave, Answer
      <4>2. mem = ref_mem
        BY <1>3, <3>4 DEF Performed
      <4> QED
        BY <1>2, <1>3, <2>4, <3>1, <3>4, <4>1, <4>2 DEF Performed, Executing
    <3>5. CASE b_resp # "okay" /\ b_resp' # "okay"
      <4>1. mem' = mem
        BY <3>2, <3>5 DEF WriteSlave, Answer
      <4> QED
        BY <1>2, <1>3, <2>4, <3>1, <3>5, <4>1 DEF Performed, Executing
    <3> QED
      BY <3>3, <3>4, <3>5
  <2> QED
    BY <2>1, <2>2, <2>3, <2>4 DEF CoreInv, OneInFlight
<1> QED
  BY <1>2, <1>4, <1>5 DEF RefInSync

(* The write-back makes the core equal to the reference that was stepped.  *)
LEMMA RefCatchesUp ==
  ASSUME CoreInv, RefStepped, loop = "go", lsu_valid, Cycle,
         loop' = "eval", UNCHANGED <<refVars, is_skip_ref_r>>
  PROVE  RefInSync'
<1>1. PICK f_ar \in BOOLEAN, l_ar \in BOOLEAN, l_aw \in BOOLEAN,
           l_w \in BOOLEAN : Units(f_ar, l_ar, l_aw, l_w)
  BY CycleUnits
<1>2. Start' /\ ~Executing' /\ ~Storing'
  BY CompletedServes, PhasesDisjointNext DEF Executing
<1>3. pc' = pc_reg /\ gpr' = NextGpr /\ csr' = NextCsr
  BY <1>1, WrittenBack DEF Units
<1>4. mem' = mem
  <2>1. b_resp # "busy"
    BY DEF CoreInv, OneInFlight, Start, Fetching, Computing, Loading, Storing, lsu_valid,
       ReadQuiet, WriteQuiet, bvalid, Answered
  <2> QED
    BY <1>1, <2>1 DEF Units, WriteSlave
<1>5. /\ ref_state = "RUNNING" /\ ref_mem = mem
      /\ ~is_skip_ref_r => ref_pc = pc_reg /\ ref_gpr = NextGpr /\ ref_csr = NextCsr
  BY DEF RefStepped, Cycle
<1>6. UNCHANGED <<ref_pc, ref_gpr, ref_csr, ref_mem, ref_state>>
  BY DEF refVars
<1> QED
  BY <1>2, <1>3, <1>4, <1>5, <1>6 DEF RefInSync, checkregs, Performed

(* A step of the harness that leaves the core alone leaves its signals.    *)
LEMMA FrozenCore ==
  ASSUME UNCHANGED vars
  PROVE  /\ Executing' = Executing /\ lsu_valid' = lsu_valid /\ Running' = Running
         /\ NextGpr' = NextGpr /\ NextCsr' = NextCsr
         /\ UNCHANGED <<status, instr, pc, gpr, csr, mem, pc_reg>>
         /\ \A m : Performed(m)' = Performed(m)
<1>1. UNCHANGED <<archVars, pc_reg, ifuVars, fetchVars, lsuVars, dataVars, wb, wbu_ready, status>>
  BY DEF vars
<1>2. UNCHANGED <<status, instr, pc, gpr, csr, mem, pc_reg>>
  BY <1>1 DEF archVars, ifuVars, dataVars
<1>3. Executing' = Executing /\ lsu_valid' = lsu_valid /\ Storing' = Storing
  BY FrozenHarness
<1>4. Running' = Running
  <2>1. access_fault' = access_fault
    BY <1>1 DEF access_fault, ifuVars, fetchVars, lsuVars, dataVars
  <2>2. idu_valid' = idu_valid /\ cur' = cur
    BY <1>1 DEF idu_valid, f_rvalid, Answered, cur, ifuVars, fetchVars
  <2> QED
    BY <1>2, <1>3, <2>1, <2>2 DEF Running, decode_error, check_finish
<1>5. NextGpr' = NextGpr /\ NextCsr' = NextCsr
  <2>1. lsu_res' = lsu_res
    BY <1>1 DEF lsu_res, lsuVars, dataVars
  <2> QED
    BY <1>1, <1>2, <2>1, Zenon DEF NextGpr, NextCsr
<1>6. \A m : Performed(m)' = Performed(m)
  BY <1>1, <1>3 DEF Performed, lsuVars, dataVars
<1> QED
  BY <1>2, <1>3, <1>4, <1>5, <1>6

(* Every step keeps the reference in sync.                                 *)
LEMMA RefKept ==
  ASSUME Portable, CoreInv, CoreInv', SkipInv, RefInv, [DiffNext]_diffVars
  PROVE  RefInv'
<1>1. CASE UNCHANGED diffVars
  <2>1. UNCHANGED vars /\ UNCHANGED <<ref_pc, ref_gpr, ref_csr, ref_mem, ref_state>> /\ UNCHANGED <<is_skip_ref_r, loop>>
    BY <1>1 DEF diffVars, refVars, skipVars
  <2> QED
    BY <2>1, FrozenCore DEF RefInv, RefTypes, RefInSync, RefStepped, checkregs
<1>2. CASE difftest_check
  <2>1. /\ UNCHANGED vars /\ loop = "eval" /\ status = "run"
    BY <1>2 DEF difftest_check
  <2>2. /\ ref_state = "RUNNING"
        /\ ~is_skip_ref_r => checkregs
        /\ Executing => instr = ref_mem[Cell(pc)]
        /\ mem = Performed(ref_mem)
    BY <2>1 DEF RefInv, RefInSync
  <2>3. /\ loop' = "step" /\ ref_mem' = ref_mem /\ ref_state' = ref_state
        /\ ref_pc' = pc /\ ref_gpr' = gpr /\ ref_csr' = csr /\ ~is_skip_ref_r'
    BY <1>2, <2>2 DEF difftest_check, checkregs, refVars
  <2>4. RefTypes'
    BY <2>3 DEF RefInv, RefTypes, CoreInv, TypeOK
  <2>5. RefInSync'
    BY <2>1, <2>2, <2>3, FrozenCore DEF RefInSync, checkregs
  <2> QED
    BY <2>3, <2>4, <2>5 DEF RefInv, RefStepped
<1>3. CASE difftest_step
  <2>1. /\ UNCHANGED vars /\ loop = "step" /\ loop' = "go" /\ status = "run" /\ lsu_valid
    BY <1>3 DEF difftest_step, SkipInv
  <2>2. /\ ref_state = "RUNNING" /\ checkregs
        /\ Executing => instr = ref_mem[Cell(pc)]
        /\ mem = Performed(ref_mem) /\ ~is_skip_ref_r
    BY <2>1 DEF RefInv, RefInSync
  <2>3. Executing
    BY <2>1 DEF CoreInv, OneInFlight, Executing, Start, Fetching, lsu_valid, ReadQuiet,
       WriteQuiet
  <2>4. RefInSync' /\ loop' # "break"
    BY <2>1 DEF RefInSync
  <2>5. CASE is_skip_ref
    <3>1. UNCHANGED <<ref_pc, ref_gpr, ref_csr, ref_mem, ref_state>> /\ is_skip_ref_r' = TRUE
      BY <1>3, <2>5 DEF difftest_step, refVars
    <3>2. Served
      BY <2>5 DEF SkipInv
    <3>3. mem = ref_mem
      BY <2>2, <3>2, PhasesDisjoint DEF Served, Performed
    <3>4. RefStepped'
      BY <2>1, <2>2, <3>1, <3>3, FrozenCore DEF RefStepped
    <3>5. RefTypes'
      BY <3>1 DEF RefInv, RefTypes
    <3> QED
      BY <2>4, <3>4, <3>5 DEF RefInv
  <2>6. CASE ~is_skip_ref
    <3>1. Ref!IsaNext /\ is_skip_ref_r' = is_skip_ref_r
      BY <1>3, <2>2, <2>6 DEF difftest_step, skipVars
    <3>2. ~Served
      BY <2>1, <2>6 DEF SkipInv
    <3>3. RefTypes'
      BY <3>1, RefTypesKept DEF RefInv
    <3>4. RefStepped'
      BY <2>1, <2>2, <2>3, <3>1, <3>2, RefExecutes, FrozenCore DEF RefStepped
    <3> QED
      BY <2>4, <3>3, <3>4 DEF RefInv
  <2> QED
    BY <2>5, <2>6
<1>4. CASE clock_edge
  <2>1. /\ loop' = "eval" /\ UNCHANGED <<refVars, is_skip_ref_r>>
        /\ loop = "go" \/ (loop = "eval" /\ ~lsu_valid)
    BY <1>4 DEF clock_edge
  <2>2. RefTypes'
    BY <2>1 DEF refVars, RefInv, RefTypes
  <2>3. CASE Cycle /\ loop = "go"
    BY <2>1, <2>2, <2>3, RefCatchesUp DEF RefInv, RefStepped, SkipInv
  <2>4. CASE Cycle /\ loop = "eval" /\ ~lsu_valid
    BY <2>1, <2>2, <2>4, RefWaits DEF RefInv, RefStepped
  <2>5. CASE Stop
    <3>1. status' # "run"
      BY <2>5, Zenon DEF Stop
    <3> QED
      BY <2>1, <2>2, <3>1 DEF RefInv, RefInSync, RefStepped
  <2> QED
    BY <1>4, <2>1, <2>3, <2>4, <2>5 DEF clock_edge, Next
<1> QED
  BY <1>1, <1>2, <1>3, <1>4 DEF DiffNext

(* The reference is always in sync.                                        *)
LEMMA RefInvariant == DiffSpec /\ []Portable => []RefInv
<1>1. DiffInit => RefInv
  <2> SUFFICES ASSUME DiffInit PROVE RefInv
    OBVIOUS
  <2>1. Start /\ TypeOK
    BY InitPhase, InitType DEF DiffInit
  <2>2. ~Executing /\ ~Storing
    BY <2>1, PhasesDisjoint DEF Executing
  <2>3. RefTypes
    BY <2>1 DEF DiffInit, RefTypes, TypeOK
  <2> QED
    BY <2>2, <2>3 DEF DiffInit, RefInv, RefInSync, RefStepped, Performed, checkregs
<1>2. Portable /\ CoreInv /\ CoreInv' /\ SkipInv /\ RefInv /\ [DiffNext]_diffVars => RefInv'
  BY RefKept
<1> QED
  BY <1>1, <1>2, HarnessCore, CoreInvariant, SkipInvariant, PTL DEF DiffSpec

(* Between instructions the memories are the same.                         *)
LEMMA BetweenInstructions ==
  ASSUME SkipInv, RefInv, Start, status = "run"
  PROVE  ref_mem = mem
<1>1. ~lsu_valid /\ ~Storing
  BY PhasesDisjoint DEF Start, lsu_valid, ReadQuiet, WriteQuiet
<1>2. loop = "eval"
  BY <1>1 DEF SkipInv, RefInv
<1> QED
  BY <1>1, <1>2 DEF RefInv, RefInSync, Performed

(* Difftest never reports a difference between the core and NEMU for a     *)
(* program that executes only what both implement, whatever it loads from  *)
(* devices and whenever the bus answers (difftest.cpp).                    *)
THEOREM NoMismatch == DiffSpec /\ []Portable => []NeverMismatch
<1>1. RefInv => NeverMismatch
  BY DEF RefInv, NeverMismatch
<1> QED
  BY <1>1, RefInvariant, PTL

(* The memories, which difftest does not compare, are the same between     *)
(* instructions as well: no store is lost by skipping the reference, nor   *)
(* by the code that copies the registers after a skip (difftest.cpp).      *)
THEOREM MemoriesSame == DiffSpec /\ []Portable => []ReferenceSound
<1>1. SkipInv /\ RefInv => ReferenceSound
  <2> SUFFICES ASSUME SkipInv, RefInv PROVE ReferenceSound
    OBVIOUS
  <2>1. DiffTypeOK
    BY DEF DiffTypeOK, RefInv, RefTypes, SkipInv
  <2>2. MemoriesAgree
    BY BetweenInstructions DEF MemoriesAgree
  <2> QED
    BY <2>1, <2>2 DEF ReferenceSound
<1> QED
  BY <1>1, RefInvariant, SkipInvariant, PTL

=============================================================================
