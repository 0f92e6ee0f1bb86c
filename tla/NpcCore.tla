------------------------------- MODULE NpcCore ------------------------------
(***************************************************************************)
(* The multi-cycle RISC-V core of npc/vsrc and the AXI ports it drives.    *)
(*                                                                         *)
(* One step is one clock cycle of the simulated core.  Every unit (ifu,    *)
(* idu/exu, lsu, wbu, bru, iru, csrfile, regfile) contributes a conjunct   *)
(* that says what its registers hold after the clock edge, from what the   *)
(* combinational signals are before it; the slaves behind the fetch and    *)
(* the data port choose freely how long they take.                         *)
(*                                                                         *)
(* Word sized, aligned accesses only: which byte lanes a narrow access     *)
(* uses is not part of the core's control.                                 *)
(***************************************************************************)
EXTENDS Rv32

CONSTANT Programs  \* the memory images the simulation may start from

ASSUME ProgramsAssumption == Programs \subseteq [Cells -> Word]

VARIABLES
  \* architectural state
  pc, gpr, csr, mem,
  \* bru: u_pc_reg, the next pc waiting for the instruction to complete
  pc_reg,
  \* ifu
  f_r_done, f_arvalid, f_rready, f_araddr, instr,
  \* the slave behind the fetch port, and the word it returns
  f_slave, f_rdata,
  \* lsu, common and read side
  lsu_opt, valid_r, r_done, arvalid, araddr, rready,
  \* lsu, write side
  w_done, awvalid, wvalid, wlast_reg, awaddr, wdata, bready,
  \* the slave behind the data port
  r_slave, r_rdata, aw_got, w_got, b_resp,
  \* wbu (and iru): what decode latched for writeback, and u_ready_reg
  wb, wbu_ready,
  \* the simulation: "run", "finish", "decode_error" or "fatal"
  status

archVars == <<pc, gpr, csr>>
ifuVars == <<f_r_done, f_arvalid, f_rready, f_araddr, instr>>
fetchVars == <<f_slave, f_rdata>>
lsuVars == <<lsu_opt, valid_r, r_done, arvalid, araddr, rready, w_done,
             awvalid, wvalid, wlast_reg, awaddr, wdata, bready>>
dataVars == <<r_slave, r_rdata, aw_got, w_got, b_resp, mem>>
vars == <<archVars, pc_reg, ifuVars, fetchVars, lsuVars, dataVars, wb,
          wbu_ready, status>>

LsuOpts == {"load", "store", "nop"}
SlaveStates == {"idle", "busy", "okay", "err"}

(* The registers of u_idu_sig_reg, u_exu_sig_reg and of the iru.           *)
Writeback == [ld_en : BOOLEAN, rdwen : BOOLEAN, rdid : Regs, exu_res : Word,
              csrdwen : BOOLEAN, csrdid : Csrs, csrd : Word,
              mepc_wen : BOOLEAN, mepc : Word,
              mstatus_wen : BOOLEAN, mstatus : Word]

ResetWriteback ==
  [ld_en |-> FALSE, rdwen |-> FALSE, rdid |-> 0, exu_res |-> 0,
   csrdwen |-> FALSE, csrdid |-> "mstatus", csrd |-> 0,
   mepc_wen |-> FALSE, mepc |-> 0, mstatus_wen |-> FALSE, mstatus |-> 0]

(* The registers after reset.  The register file has no reset: Verilator   *)
(* starts it at zero.                                                      *)
Reset ==
  /\ pc = RESET_PC /\ pc_reg = 0
  /\ gpr = [r \in Regs |-> 0]
  /\ csr = [c \in Csrs |-> 0]
  /\ f_r_done = TRUE /\ f_arvalid = FALSE /\ f_rready = FALSE
  /\ f_araddr = 0 /\ instr = 0
  /\ f_slave = "idle" /\ f_rdata = 0
  /\ lsu_opt = "load"
  /\ valid_r = FALSE
  /\ r_done = TRUE /\ arvalid = FALSE /\ araddr = 0 /\ rready = FALSE
  /\ w_done = TRUE /\ awvalid = FALSE /\ wvalid = FALSE /\ wlast_reg = FALSE
  /\ awaddr = 0 /\ wdata = 0 /\ bready = FALSE
  /\ r_slave = "idle" /\ r_rdata = 0
  /\ aw_got = FALSE /\ w_got = FALSE /\ b_resp = "idle"
  /\ wb = ResetWriteback /\ wbu_ready = TRUE
  /\ status = "run"

Init == Reset /\ mem \in Programs

-----------------------------------------------------------------------------
(* Combinational signals.                                                  *)

Answered(slave) == slave \in {"okay", "err"}
f_rvalid == Answered(f_slave)
r_rvalid == Answered(r_slave)
bvalid == Answered(b_resp)

(* ifu o_post_valid; idu and exu pass it on in the same cycle.             *)
idu_valid == f_rvalid /\ f_rready

(* lsu o_post_valid: the instruction completes in this cycle.              *)
lsu_valid ==
  \/ ~w_done /\ bvalid /\ bready
  \/ ~r_done /\ r_rvalid /\ rready
  \/ w_done /\ r_done /\ valid_r

(* idu: the decoded instruction and its control signals.                   *)
cur == Decode[instr]
sysins == cur.op \in CsrW \cup CsrS \cup CsrC \cup {"ecall", "mret", "ebreak"}
csrsren == cur.op \in CsrS \cup CsrC \/ (cur.op \in CsrW /\ cur.rd # 0)
rsneq0 == IF cur.op \in CsrImm THEN cur.imm # 0 ELSE cur.rs1 # 0
csrdwen == cur.op \in CsrW \/ (cur.op \in CsrS \cup CsrC /\ rsneq0)
rdwen ==
  \/ cur.op \in {"alu", "alui", "lui", "auipc", "load", "jal", "jalr"}
  \/ csrsren /\ cur.rd # 0
opt == IF cur.op \in {"load", "store"} THEN cur.op ELSE "nop"

(* exu: operands and results.                                              *)
rs1 == gpr[IF cur.op \in {"lui", "auipc", "jal"} THEN 0 ELSE cur.rs1]
rs2 == gpr[cur.rs2]
csrs == IF csrsren THEN csr[cur.csr] ELSE 0
src1 == IF cur.op \in {"auipc", "jal", "jalr"} THEN pc ELSE rs1
src2 == CASE cur.op \in {"alu", "branch"} -> rs2
          [] cur.op \in {"jal", "jalr"} -> 4 % WordSize
          [] OTHER -> cur.imm
int_res == IF cur.op \in {"alu", "alui", "branch"}
           THEN Alu(cur.fn, src1, src2) ELSE Add(src1, src2)
exu_res == IF sysins THEN csrs ELSE int_res
sys_rs1 == IF cur.op \in CsrImm THEN cur.imm ELSE rs1
exu_csrd == CASE cur.op \in CsrW -> sys_rs1
              [] cur.op \in CsrS -> Alu("or", csrs, sys_rs1)
              [] cur.op \in CsrC -> Alu("clear", csrs, sys_rs1)
              [] OTHER -> 0

(* Mutation: the carry out of a jump's target is kept.                     *)
pc_next_keeps_carry ==
  CASE cur.op = "ecall" -> csr["mtvec"]
    [] cur.op = "mret" -> csr["mepc"]
    [] cur.op = "jal" \/ (cur.op = "branch" /\ int_res # 0) -> pc + cur.imm
    [] cur.op = "jalr" -> rs1 + cur.imm
    [] OTHER -> Add(pc, 4)

(* bru pc_next: i_brch && ~i_zero || i_jal, i_jalr, or the next word.      *)
pc_next ==
  CASE cur.op = "ecall" -> csr["mtvec"]
    [] cur.op = "mret" -> csr["mepc"]
    [] cur.op = "jal" \/ (cur.op = "branch" /\ int_res # 0) ->
         Add(pc, cur.imm)
    [] cur.op = "jalr" -> Add(rs1, cur.imm)
    [] OTHER -> Add(pc, 4)

(* What decode latches for writeback.                                      *)
Latched ==
  [ld_en |-> opt = "load", rdwen |-> rdwen, rdid |-> cur.rd,
   exu_res |-> exu_res,
   csrdwen |-> csrdwen, csrdid |-> cur.csr, csrd |-> exu_csrd,
   mepc_wen |-> cur.op = "ecall", mepc |-> pc,
   mstatus_wen |-> cur.op \in {"ecall", "mret"}, mstatus |-> csr["mstatus"]]

(* A bus error, an undecodable word and a completing ebreak stop the       *)
(* simulation before the clock edge.                                       *)
access_fault ==
  \/ f_rready /\ f_slave = "err"
  \/ rready /\ r_slave = "err"
  \/ bready /\ b_resp = "err"
decode_error == idu_valid /\ cur.op = "inv"
check_finish == lsu_valid /\ cur.op = "ebreak"

-----------------------------------------------------------------------------
(* The units at a clock edge.                                              *)

(* Mutation: the request is dropped whether or not it was accepted.        *)
Ifu_drops_request(arready) ==
  LET ren == wbu_ready IN
  /\ f_r_done' = (idu_valid \/ (f_r_done /\ ~ren))
  /\ f_arvalid' = (f_r_done /\ ren)
  /\ f_araddr' = IF ren THEN pc ELSE f_araddr
  /\ f_rready' = ((f_rvalid /\ ~f_rready) \/ (f_rready /\ ~f_rvalid))
  /\ instr' = IF f_rvalid THEN f_rdata ELSE instr

(* ifu: fetch when the previous instruction was written back; the word is  *)
(* latched in every cycle in which rvalid is up.                           *)
Ifu(arready) ==
  LET ren == wbu_ready IN
  /\ f_r_done' = (idu_valid \/ (f_r_done /\ ~ren))
  /\ f_arvalid' = ((f_arvalid /\ ~arready) \/ (f_r_done /\ ren))
  /\ f_araddr' = IF ren THEN pc ELSE f_araddr
  /\ f_rready' = ((f_rvalid /\ ~f_rready) \/ (f_rready /\ ~f_rvalid))
  /\ instr' = IF f_rvalid THEN f_rdata ELSE instr

(* Mutation: the answer does not end the access.                           *)
LsuRead_never_done(ready) ==
  LET ren == idu_valid /\ opt = "load" IN
  /\ r_done' = (r_done /\ ~ren)
  /\ arvalid' = ((arvalid /\ ~ready) \/ (r_done /\ ren))
  /\ araddr' = IF ren THEN exu_res ELSE araddr
  /\ rready' = ((r_rvalid /\ ~rready) \/ (rready /\ ~r_rvalid))

(* lsu, read side.                                                         *)
LsuRead(ready) ==
  LET ren == idu_valid /\ opt = "load" IN
  /\ r_done' = ((r_rvalid /\ rready) \/ (r_done /\ ~ren))
  /\ arvalid' = ((arvalid /\ ~ready) \/ (r_done /\ ren))
  /\ araddr' = IF ren THEN exu_res ELSE araddr
  /\ rready' = ((r_rvalid /\ ~rready) \/ (rready /\ ~r_rvalid))

(* lsu, write side.  Bursts have one beat, so wlast accompanies it.        *)
wlast(wready) == ~wlast_reg /\ wvalid /\ wready

LsuWrite(awready, wready) ==
  LET wen == idu_valid /\ opt = "store" IN
  /\ w_done' = ((bvalid /\ bready) \/ (w_done /\ ~wen))
  /\ awvalid' = ((awvalid /\ ~awready) \/ (w_done /\ wen))
  /\ wvalid' = ((wvalid /\ ~(wready /\ wlast(wready))) \/ (w_done /\ wen))
  /\ wlast_reg' = (wvalid /\ wready)
  /\ awaddr' = IF wen THEN exu_res ELSE awaddr
  /\ wdata' = IF wen THEN rs2 ELSE wdata
  /\ bready' = (bvalid /\ ~bready)

LsuCommon ==
  /\ lsu_opt' = IF idu_valid THEN opt ELSE lsu_opt
  /\ valid_r' = idu_valid

(* Mutation: the ready register is set and never falls.                    *)
Wbu_ready_sticks ==
  /\ wb' = IF idu_valid THEN Latched ELSE wb
  /\ wbu_ready' = (lsu_valid \/ wbu_ready)

(* wbu and iru: latch at decode, report completion one cycle later.        *)
Wbu ==
  /\ wb' = IF idu_valid THEN Latched ELSE wb
  /\ wbu_ready' = lsu_valid

(* Mutation: pc moves on at decode instead of at completion.               *)
Bru_moves_early ==
  /\ pc_reg' = IF idu_valid THEN pc_next ELSE pc_reg
  /\ pc' = IF idu_valid THEN pc_next ELSE pc

(* bru: the next pc is computed at decode and taken at completion.         *)
Bru ==
  /\ pc_reg' = IF idu_valid THEN pc_next ELSE pc_reg
  /\ pc' = IF lsu_valid THEN pc_reg ELSE pc

(* lsu o_regld: the word read, or zero when the operation is no load.      *)
lsu_res == IF lsu_opt = "load" THEN r_rdata ELSE 0

Regfile ==
  gpr' = IF lsu_valid /\ wb.rdwen
         THEN WriteReg(gpr, wb.rdid, IF wb.ld_en THEN lsu_res ELSE wb.exu_res)
         ELSE gpr

(* Mutation: ecall saves mepc but leaves mcause as it was.                 *)
Csrfile_no_mcause ==
  csr' = IF ~lsu_valid THEN csr
         ELSE [c \in Csrs |->
                CASE c = "mepc" /\ wb.mepc_wen -> wb.mepc
                  [] c = "mstatus" /\ wb.mstatus_wen -> wb.mstatus
                  [] OTHER -> IF wb.csrdwen /\ wb.csrdid = c
                              THEN wb.csrd ELSE csr[c]]

(* csrfile: a trap write wins over a csr instruction.                      *)
Csrfile ==
  csr' = IF ~lsu_valid THEN csr
         ELSE [c \in Csrs |->
                CASE c = "mepc" /\ wb.mepc_wen -> wb.mepc
                  [] c = "mcause" /\ wb.mepc_wen -> IRQ_ECALL
                  [] c = "mstatus" /\ wb.mstatus_wen -> wb.mstatus
                  [] OTHER -> IF wb.csrdwen /\ wb.csrdid = c
                              THEN wb.csrd ELSE csr[c]]

-----------------------------------------------------------------------------
(* The slaves behind the AXI ports, as the core's ports use them: accept   *)
(* one request, answer after any number of cycles, hold the answer until   *)
(* it is taken.  A ready without its valid has no effect on either side    *)
(* and is left out.  Programs run from memory: a device cell that is       *)
(* fetched from all the same behaves like a memory cell.                   *)

Answer(c) == IF c \in Unmapped THEN "err" ELSE "okay"

FetchSlave(ready) ==
  \/ /\ f_slave = "idle" /\ (ready => f_arvalid)
     /\ f_slave' = IF f_arvalid /\ ready THEN "busy" ELSE "idle"
     /\ UNCHANGED f_rdata
  \/ /\ f_slave = "busy" /\ ~ready
     /\ \/ UNCHANGED fetchVars
        \/ /\ f_slave' = Answer(Cell(f_araddr))
           /\ f_rdata' = mem[Cell(f_araddr)]
  \/ /\ f_rvalid /\ ~ready
     /\ f_slave' = IF f_rready THEN "idle" ELSE f_slave
     /\ UNCHANGED f_rdata

ReadSlave(ready) ==
  \/ /\ r_slave = "idle" /\ (ready => arvalid)
     /\ r_slave' = IF arvalid /\ ready THEN "busy" ELSE "idle"
     /\ UNCHANGED r_rdata
  \/ /\ r_slave = "busy" /\ ~ready
     /\ \/ UNCHANGED <<r_slave, r_rdata>>
        \/ /\ r_slave' = Answer(Cell(araddr))
           /\ r_rdata' \in IF Cell(araddr) \in Device THEN Word
                           ELSE {mem[Cell(araddr)]}
  \/ /\ r_rvalid /\ ~ready
     /\ r_slave' = IF rready THEN "idle" ELSE r_slave
     /\ UNCHANGED r_rdata

(* The address and the data beat are accepted in either order; memory is   *)
(* written when the response is issued.                                    *)
WriteSlave(awready, wready) ==
  \/ /\ b_resp = "idle"
     /\ awready => awvalid /\ ~aw_got
     /\ wready => wvalid /\ ~w_got
     /\ aw_got' = (aw_got \/ (awvalid /\ awready))
     /\ w_got' = (w_got \/ wlast(wready))
     /\ b_resp' = IF aw_got' /\ w_got' THEN "busy" ELSE "idle"
     /\ UNCHANGED mem
  \/ /\ b_resp = "busy" /\ ~awready /\ ~wready
     /\ \/ UNCHANGED <<b_resp, mem>>
        \/ /\ b_resp' = Answer(Cell(awaddr))
           /\ mem' = IF Cell(awaddr) \in Device \cup Unmapped THEN mem
                     ELSE [mem EXCEPT ![Cell(awaddr)] = wdata]
     /\ UNCHANGED <<aw_got, w_got>>
  \/ /\ bvalid /\ ~awready /\ ~wready
     /\ b_resp' = IF bready THEN "idle" ELSE b_resp
     /\ aw_got' = (aw_got /\ ~bready)
     /\ w_got' = (w_got /\ ~bready)
     /\ UNCHANGED mem

-----------------------------------------------------------------------------
Running == status = "run" /\ ~access_fault /\ ~decode_error /\ ~check_finish

Cycle ==
  /\ Running
  /\ \E f_ar, l_ar, l_aw, l_w \in BOOLEAN :
       /\ Ifu(f_ar) /\ FetchSlave(f_ar)
       /\ LsuRead(l_ar) /\ ReadSlave(l_ar)
       /\ LsuWrite(l_aw, l_w) /\ WriteSlave(l_aw, l_w)
  /\ LsuCommon /\ Wbu /\ Bru /\ Regfile /\ Csrfile
  /\ UNCHANGED status

Stop ==
  /\ status = "run" /\ ~Running
  /\ status' = CASE access_fault -> "fatal"
                 [] decode_error /\ ~access_fault -> "decode_error"
                 [] OTHER -> "finish"
  /\ UNCHANGED <<archVars, pc_reg, ifuVars, fetchVars, lsuVars, dataVars, wb,
                 wbu_ready>>

Next == Cycle \/ Stop

Spec == Init /\ [][Next]_vars

(* Slaves answer eventually: every step that changes nothing is a cycle    *)
(* spent waiting for one.                                                  *)
FairSpec == Spec /\ WF_vars(Next)

-----------------------------------------------------------------------------
(* Properties.                                                             *)

(* Every register holds a value of its width.                              *)
TypeOK ==
  /\ pc \in Word /\ pc_reg \in Word
  /\ gpr \in [Regs -> Word] /\ csr \in [Csrs -> Word] /\ mem \in [Cells -> Word]
  /\ f_r_done \in BOOLEAN /\ f_arvalid \in BOOLEAN /\ f_rready \in BOOLEAN
  /\ f_araddr \in Word /\ instr \in Word
  /\ f_slave \in SlaveStates /\ f_rdata \in Word
  /\ lsu_opt \in LsuOpts /\ valid_r \in BOOLEAN
  /\ r_done \in BOOLEAN /\ arvalid \in BOOLEAN /\ rready \in BOOLEAN
  /\ araddr \in Word
  /\ w_done \in BOOLEAN /\ awvalid \in BOOLEAN /\ wvalid \in BOOLEAN
  /\ wlast_reg \in BOOLEAN /\ bready \in BOOLEAN
  /\ awaddr \in Word /\ wdata \in Word
  /\ r_slave \in SlaveStates /\ r_rdata \in Word
  /\ aw_got \in BOOLEAN /\ w_got \in BOOLEAN /\ b_resp \in SlaveStates
  /\ wb \in Writeback /\ wbu_ready \in BOOLEAN
  /\ status \in {"run", "finish", "decode_error", "fatal"}

(* The ports at rest.                                                      *)
FetchQuiet == f_r_done /\ ~f_arvalid /\ ~f_rready /\ f_slave = "idle"
ReadQuiet == r_done /\ ~arvalid /\ ~rready /\ r_slave = "idle"
WriteQuiet == /\ w_done /\ ~awvalid /\ ~wvalid /\ ~bready /\ ~wlast_reg
              /\ ~aw_got /\ ~w_got /\ b_resp = "idle"

(* A read is at its address, waiting for its answer, or being answered.    *)
ReadPending(done, avalid, ready, slave) ==
  /\ ~done
  /\ avalid = (slave = "idle")
  /\ ready => Answered(slave)

(* The five places an instruction can be: the previous one was just        *)
(* written back; its word is being fetched; or it executes as an operation *)
(* without memory access, a load or a store.                               *)
Start == wbu_ready /\ ~valid_r /\ FetchQuiet /\ ReadQuiet /\ WriteQuiet

Fetching ==
  /\ ~wbu_ready /\ ~valid_r /\ ReadQuiet /\ WriteQuiet
  /\ ReadPending(f_r_done, f_arvalid, f_rready, f_slave)

Computing ==
  /\ ~wbu_ready /\ valid_r /\ lsu_opt = "nop"
  /\ FetchQuiet /\ ReadQuiet /\ WriteQuiet

Loading ==
  /\ ~wbu_ready /\ lsu_opt = "load" /\ FetchQuiet /\ WriteQuiet
  /\ ReadPending(r_done, arvalid, rready, r_slave)

Storing ==
  /\ ~wbu_ready /\ lsu_opt = "store" /\ FetchQuiet /\ ReadQuiet
  /\ ~w_done
  /\ awvalid = ~aw_got /\ wvalid = ~w_got
  /\ (b_resp = "idle") = ~(aw_got /\ w_got)
  /\ bready => bvalid
  /\ wlast_reg => w_got /\ ~bvalid

(* The control of a core without pipeline registers rests on pulses alone: *)
(* idu_valid starts the lsu, lsu_valid ends the instruction, wbu_ready     *)
(* starts the next fetch.  None is ever lost or doubled: at most one       *)
(* instruction is in flight, the fetch port and the two halves of the data *)
(* port are never busy together, and a port that is not in use is at rest. *)
OneInFlight == Start \/ Fetching \/ Computing \/ Loading \/ Storing

Executing == Computing \/ Loading \/ Storing

(* What decode latched one or many cycles ago is still what decode would   *)
(* latch now: neither the instruction register nor an operand changes      *)
(* between decode and writeback, the request on the bus is the one the     *)
(* instruction asks for, and the instruction is the word memory holds at   *)
(* pc until its own store is performed.                                    *)
WritebackCoherent ==
  /\ Executing =>
       /\ wb = Latched /\ pc_reg = pc_next /\ lsu_opt = opt
       /\ cur.op # "inv" /\ Cell(pc) \notin Unmapped
       /\ ~bvalid => instr = mem[Cell(pc)]
  /\ Fetching =>
       /\ f_araddr = pc
       /\ f_rvalid => /\ f_rdata = mem[Cell(pc)]
                      /\ f_slave = Answer(Cell(pc))
       /\ f_rready => instr = f_rdata
  /\ Loading =>
       /\ araddr = exu_res
       /\ r_rvalid => /\ r_slave = Answer(Cell(araddr))
                      /\ Cell(araddr) \notin Device => r_rdata = mem[Cell(araddr)]
  /\ Storing =>
       /\ awaddr = exu_res /\ wdata = rs2
       /\ bvalid => b_resp = Answer(Cell(awaddr))

(* The AXI rule every slave relies on: a request stays up, with the same   *)
(* address and data, until the slave has accepted it.                      *)
HeldUntilAccepted ==
  /\ f_arvalid /\ f_slave' = "idle" => f_arvalid' /\ UNCHANGED f_araddr
  /\ arvalid /\ r_slave' = "idle" => arvalid' /\ UNCHANGED araddr
  /\ awvalid /\ ~aw_got' => awvalid' /\ UNCHANGED awaddr
  /\ wvalid /\ ~w_got' => wvalid' /\ UNCHANGED wdata

(* No step of the core withdraws or alters a request of the fetch port or  *)
(* of the load/store unit before it is accepted.                           *)
AxiRequestsHeld == [][HeldUntilAccepted]_vars

(* NEMU, which difftest runs beside the core, sees the same execution: a   *)
(* store takes effect when the slave performs it, every other instruction  *)
(* when it is written back.                                                *)
isaPc ==
  CASE b_resp = "okay" -> pc_reg
    [] b_resp # "okay" /\ status \in {"finish", "decode_error"} -> Add(pc, 4)
    [] OTHER -> pc

isaState ==
  CASE status = "run" -> "RUNNING"
    [] status = "finish" -> "END"
    [] status = "decode_error" -> "ABORT"
    [] status = "fatal" -> "PANIC"

Nemu == INSTANCE NemuIsa WITH pc <- isaPc, state <- isaState

(* The core implements the reference model instruction by instruction.     *)
ImplementsNemu == Nemu!IsaSpec

(* Every instruction completes: there is always another writeback until    *)
(* the simulation stops.                                                   *)
AlwaysCompletes == []<>(lsu_valid \/ status # "run")
=============================================================================
