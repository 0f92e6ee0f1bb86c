--------------------------- MODULE NpcBus_proofs ----------------------------
(***************************************************************************)
(* Proofs about the interconnect and its arbiter (NpcBus), for every       *)
(* number of masters and slaves and every burst length: whatever stalls in *)
(* whichever cycle, each answer reaches the master that asked and is the   *)
(* right one. The invariant says, for each of the nine phases of a         *)
(* transaction, what every register of the interconnect, of the two        *)
(* buffers, of the masters and of the slaves holds; a clock cycle leads    *)
(* from a phase to itself or to the next.  And about the byte lanes of the *)
(* words that travel over it (LsuLanes), for every size of byte and memory.*)
(***************************************************************************)
EXTENDS NpcBus, LsuLanes, WellFoundedInduction, TLAPS

-----------------------------------------------------------------------------
(* The invariant, its parameters, and who is selected.                     *)

(* The registers of the interconnect have their widths.                    *)
IsBus(b) ==
  /\ DOMAIN b = {"state", "sel", "addr", "addr_valid", "len", "arready", "awready", "wready", "bvalid", "bresp",
                 "m_arvalid", "m_awvalid", "m_rready", "m_bready"}
  /\ b.state \in {"IDLE", "DECODE", "WRITE", "WRITE_RESP", "WRITE_DROP", "READ", "READ_DROP", "WAIT_IDLE"}
  /\ b.sel \in Slaves /\ b.addr \in Slaves \cup {Unmapped} /\ b.addr_valid \in BOOLEAN /\ b.len \in 0 .. 255
  /\ b.arready \in Masters \cup {None} /\ b.awready \in Masters \cup {None} /\ b.wready \in Masters \cup {None}
  /\ b.bvalid \subseteq Masters /\ b.bresp \in {"OKAY", "DECERR"}
  /\ b.m_arvalid \subseteq Slaves /\ b.m_awvalid \subseteq Slaves
  /\ b.m_rready \in Slaves \cup {None} /\ b.m_bready \in Slaves \cup {None}
Beats == [from : Slaves \cup {Unmapped, None}, beat : 0 .. MaxLen, last : BOOLEAN]

(* What a buffer of items T towards V holds.                               *)
Buf(V, T) == [ready : BOOLEAN, valid : SUBSET V, out : T, temp : T]
ReadBuf == Buf(Masters, Beats)
WriteBuf == Buf(Slaves, {0, 1, None})
SlaveRec == [r : Burst \cup {None}, rvalid : BOOLEAN, aw : BOOLEAN, w : {0, 1, None}, b : BOOLEAN]

(* Every variable has its type.                                            *)
Types ==
  /\ rd \in [Masters -> Reading \cup {None}] /\ wr \in [Masters -> Writing \cup {None}]
  /\ arb \in [grant : Ports \cup {None}, mask : SUBSET Ports]
  /\ IsBus(bus) /\ rq \in ReadBuf /\ wq \in WriteBuf
  /\ sl \in [Slaves -> SlaveRec] /\ written \in [Slaves -> {0, 1}]

(* The masters other than X have not been given a beat and still ask.      *)
ReadsWait(X) == \A m \in Masters \ X : rd[m] # None => rd[m].ar /\ rd[m].beat = 0
WritesWait(X) == \A m \in Masters \ X : wr[m] # None => wr[m].aw /\ wr[m].w

(* The slaves other than X have no read under way, no write under way.     *)
NoBursts(X) == \A v \in Slaves \ X : sl[v].r = None /\ ~sl[v].rvalid
NoStores(X) == \A v \in Slaves \ X : ~sl[v].aw /\ sl[v].w = None /\ ~sl[v].b

(* Nothing is under way in the buffers or at the slaves.                   *)
ReadQuiet == rq.valid = {} /\ rq.temp = NoData
WriteQuiet == wq.valid = {} /\ wq.temp = None
SlavesQuiet == NoBursts({}) /\ NoStores({}) /\ bus.m_arvalid = {} /\ bus.m_awvalid = {}

(* Beat i of read r.                                                       *)
Beat(r, i) == [from |-> r.to, beat |-> IF r.to = Unmapped THEN 0 ELSE i, last |-> i = r.len]

(* The read buffer holds the beats of master s from the next one it waits  *)
(* for up to, and not including, beat `made'.                              *)
Buffered(s, made) ==
  /\ rq.valid \in {{}, {s}}
  /\ rq.valid = {} => rq.temp = NoData /\ made = rd[s].beat
  /\ rq.valid # {} => rq.out = Beat(rd[s], rd[s].beat)
  /\ rq.valid # {} /\ rq.temp = NoData => made = rd[s].beat + 1
  /\ rq.temp # NoData => rq.temp = Beat(rd[s], rd[s].beat + 1) /\ made = rd[s].beat + 2

(* The granted transaction is the read of s, the write of s.               *)
ReadGranted(s) == arb.grant = 2 * s + 1 /\ rd[s] # None
WriteGranted(s) == arb.grant = 2 * s /\ wr[s] # None

(* The handshake signals the interconnect drives.                          *)
Ready(ar, aw, w, b, mr, mb) ==
  /\ bus.arready = ar /\ bus.awready = aw /\ bus.wready \in w
  /\ bus.bvalid = b /\ bus.m_rready \in mr /\ bus.m_bready = mb

(* The phases. Nothing under way; the granted master, if any, still asks.  *)
IdleP ==
  /\ bus.state = "IDLE" /\ Ready(None, None, {None}, {}, {None}, None)
  /\ ReadQuiet /\ WriteQuiet /\ SlavesQuiet /\ ReadsWait({}) /\ WritesWait({})
  /\ arb.grant # None => \E s \in Masters : ReadGranted(s) \/ WriteGranted(s)

(* The granted read is being decoded.                                      *)
DecodeR(s) ==
  /\ bus.state = "DECODE" /\ Ready(s, None, {None}, {}, {None}, None) /\ ReadGranted(s)
  /\ bus.addr_valid /\ bus.addr = rd[s].to /\ bus.len = rd[s].len
  /\ ReadQuiet /\ WriteQuiet /\ SlavesQuiet /\ ReadsWait({}) /\ WritesWait({})

(* The granted write is being decoded.                                     *)
DecodeW(s) ==
  /\ bus.state = "DECODE" /\ Ready(None, s, {None}, {}, {None}, None) /\ WriteGranted(s)
  /\ bus.addr_valid /\ bus.addr = wr[s].to
  /\ ReadQuiet /\ WriteQuiet /\ SlavesQuiet /\ ReadsWait({}) /\ WritesWait({})

(* A read of s is under way and no write.                                  *)
Reads(s) ==
  /\ ReadGranted(s) /\ ~rd[s].ar /\ ReadsWait({s}) /\ WritesWait({}) /\ WriteQuiet
  /\ NoStores({}) /\ bus.m_awvalid = {}

(* Slave v has yet to accept the address.                                  *)
Asking(s, v) ==
  /\ sl[v].r = None /\ ~sl[v].rvalid /\ rd[s].beat = 0 /\ ReadQuiet
  /\ bus.m_arvalid = (IF bus.addr_valid THEN {} ELSE {v})

(* Slave v has accepted it and its burst is ahead of the buffer by         *)
(* nothing.                                                                *)
Sending(s, v) ==
  /\ ~bus.addr_valid /\ bus.m_arvalid = {} /\ sl[v].r # None
  /\ sl[v].r.len = rd[s].len /\ sl[v].r.beat <= rd[s].len
  /\ Buffered(s, sl[v].r.beat)

(* The burst of the addressed slave is being forwarded.                    *)
ReadP(s) ==
  /\ bus.state = "READ" /\ Ready(None, None, {None}, {}, Slaves \cup {None}, None) /\ Reads(s)
  /\ bus.sel = rd[s].to /\ bus.len = rd[s].len /\ NoBursts({bus.sel})
  /\ Asking(s, bus.sel) \/ Sending(s, bus.sel)

(* There is no such slave: decode errors are being made, one for each      *)
(* beat.                                                                   *)
DropR(s) ==
  /\ bus.state = "READ_DROP" /\ Ready(None, None, {None}, {}, {None}, None) /\ Reads(s)
  /\ NoBursts({}) /\ bus.m_arvalid = {}
  /\ rd[s].to = Unmapped /\ bus.len <= rd[s].len /\ Buffered(s, rd[s].len - bus.len)

(* The last beat is in the buffer.                                         *)
WaitR(s) ==
  /\ bus.state = "WAIT_IDLE" /\ Ready(None, None, {None}, {}, {None}, None) /\ Reads(s)
  /\ NoBursts({}) /\ bus.m_arvalid = {} /\ rq.valid = {s} /\ Buffered(s, rd[s].len + 1)

(* A write of s is under way and no read.                                  *)
Writes(s) ==
  /\ WriteGranted(s) /\ ~wr[s].aw /\ ReadsWait({}) /\ WritesWait({s}) /\ ReadQuiet
  /\ NoBursts({}) /\ bus.m_arvalid = {}

(* The address on its way to slave v is in one place.                      *)
Addressed(v) ==
  \/ bus.addr_valid /\ bus.m_awvalid = {} /\ ~sl[v].aw
  \/ ~bus.addr_valid /\ bus.m_awvalid = {v} /\ ~sl[v].aw
  \/ ~bus.addr_valid /\ bus.m_awvalid = {} /\ sl[v].aw

(* The word is being taken from the master.                                *)
WriteP(s) ==
  /\ bus.state = "WRITE" /\ Ready(None, None, {s, None}, {}, {None}, None) /\ Writes(s)
  /\ wr[s].w /\ bus.sel = wr[s].to /\ NoStores({bus.sel}) /\ WriteQuiet
  /\ Addressed(bus.sel) /\ sl[bus.sel].w = None /\ ~sl[bus.sel].b
  /\ bus.wready # None => wq.ready

(* The word is on its way to the slave, or there, and its response is      *)
(* awaited.                                                                *)
RespW(s) ==
  /\ bus.state = "WRITE_RESP" /\ Ready(None, None, {None}, {}, {None}, bus.sel) /\ Writes(s)
  /\ ~wr[s].w /\ bus.sel = wr[s].to /\ NoStores({bus.sel}) /\ ~bus.addr_valid
  /\ Addressed(bus.sel) /\ wq.temp = None
  /\ \/ wq.valid = {bus.sel} /\ wq.out = wr[s].data /\ sl[bus.sel].w = None /\ ~sl[bus.sel].b
     \/ wq.valid = {} /\ sl[bus.sel].w = wr[s].data
  /\ sl[bus.sel].b => sl[bus.sel].aw /\ written[bus.sel] = wr[s].data

(* There is no such slave: the word is being taken and thrown away.        *)
DropW(s) ==
  /\ bus.state = "WRITE_DROP" /\ Ready(None, None, {s}, {}, {None}, None) /\ Writes(s)
  /\ wr[s].w /\ wr[s].to = Unmapped /\ NoStores({}) /\ bus.m_awvalid = {} /\ WriteQuiet /\ bus.bresp = "DECERR"

(* The response is offered to the master.                                  *)
WaitW(s) ==
  /\ bus.state = "WAIT_IDLE" /\ Ready(None, None, {None}, {s}, {None}, None) /\ Writes(s)
  /\ ~wr[s].w /\ NoStores({}) /\ bus.m_awvalid = {} /\ WriteQuiet
  /\ IF wr[s].to = Unmapped THEN bus.bresp = "DECERR" ELSE bus.bresp = "OKAY" /\ written[wr[s].to] = wr[s].data

(* One of the nine phases.                                                 *)
Phase ==
  \/ IdleP
  \/ \E s \in Masters : DecodeR(s) \/ DecodeW(s) \/ ReadP(s) \/ DropR(s) \/ WaitR(s)
                        \/ WriteP(s) \/ RespW(s) \/ DropW(s) \/ WaitW(s)

(* The spare register is free when the buffer says it is ready, and only   *)
(* then is a slave asked for a beat.                                       *)
Skids == (rq.ready => rq.temp = NoData) /\ (bus.m_rready # None => rq.ready)

(* The inductive invariant.                                                *)
BusInvar == Types /\ Phase /\ Skids

(* The parameters, one by one.                                             *)
LEMMA BusParameters ==
  /\ S_COUNT \in Nat /\ S_COUNT > 0 /\ 0 \in Masters /\ MaxLen \in Nat /\ MaxLen <= 255
  /\ \A m \in Masters : m \in Nat /\ 2 * m \in Ports /\ 2 * m + 1 \in Ports /\ m # None
  /\ \A p \in Ports : p \in Nat /\ p # None
  /\ \A v \in Slaves : v # None /\ v # Unmapped
  /\ None # Unmapped /\ None # 0 /\ None # 1 /\ WriteTargets \subseteq Slaves \cup {Unmapped}
<1>1. /\ S_COUNT \in Nat \ {0} /\ MaxLen \in 0 .. 255 /\ WriteTargets \subseteq Slaves \cup {Unmapped}
      /\ Unmapped \notin Slaves /\ None \notin Slaves \cup Ports \cup {Unmapped, 0, 1}
  BY BusAssumption
<1>2. \A m \in Masters : m \in Nat /\ 2 * m \in Ports /\ 2 * m + 1 \in Ports
  BY <1>1 DEF Masters, Ports
<1>3. \A m \in Masters : m \in Ports
  BY <1>1 DEF Masters, Ports
<1>4. 0 \in Masters /\ \A p \in Ports : p \in Nat
  BY <1>1 DEF Masters, Ports
<1> QED
  BY <1>1, <1>2, <1>3, <1>4

(* Port 2m and port 2m + 1 belong to master m.                             *)
LEMMA Halves ==
  ASSUME NEW m \in Nat
  PROVE  (2 * m) \div 2 = m /\ (2 * m) % 2 = 0 /\ (2 * m + 1) \div 2 = m /\ (2 * m + 1) % 2 = 1
OBVIOUS

(* The selected master exists and is the one whose port is granted.        *)
LEMMA Selected ==
  ASSUME Types
  PROVE  /\ s_select \in Masters
         /\ \A s \in Masters : arb.grant = 2 * s + 1 => s_select = s /\ read
         /\ \A s \in Masters : arb.grant = 2 * s => s_select = s /\ ~read
<1>1. arb.grant \in Ports \cup {None}
  BY DEF Types
<1>2. s_select \in Masters
  <2>1. CASE arb.grant = None
    BY <2>1, BusParameters DEF s_select
  <2>2. CASE arb.grant \in Ports
    <3>1. arb.grant \in Nat /\ arb.grant <= 2 * S_COUNT - 1 /\ arb.grant # None
      BY <2>2, BusParameters DEF Ports
    <3>2. arb.grant \div 2 \in Masters
      BY <3>1, BusParameters DEF Masters
    <3> QED
      BY <3>1, <3>2 DEF s_select
  <2> QED
    BY <1>1, <2>1, <2>2
<1>3. ASSUME NEW s \in Masters, arb.grant = 2 * s + 1
      PROVE  s_select = s /\ read
  <2>1. arb.grant # None /\ s \in Nat
    BY <1>3, BusParameters
  <2>2. (2 * s + 1) \div 2 = s /\ (2 * s + 1) % 2 = 1
    BY <2>1, Halves
  <2> QED
    BY <1>3, <2>1, <2>2 DEF s_select, read
<1>4. ASSUME NEW s \in Masters, arb.grant = 2 * s
      PROVE  s_select = s /\ ~read
  <2>1. arb.grant # None /\ s \in Nat
    BY <1>4, BusParameters
  <2>2. (2 * s) \div 2 = s /\ (2 * s) % 2 = 0
    BY <2>1, Halves
  <2> QED
    BY <1>4, <2>1, <2>2 DEF s_select, read
<1> QED
  BY <1>2, <1>3, <1>4

-----------------------------------------------------------------------------
(* One clock cycle of the masters and of the slaves.                       *)

(* The choices of a cycle are bits.                                        *)
LEMMA EnvBits ==
  ASSUME NEW e \in Env
  PROVE  e.rready \in BOOLEAN /\ e.bready \in BOOLEAN /\ e.a \in BOOLEAN /\ e.w \in BOOLEAN
         /\ e.r \in BOOLEAN /\ e.b \in BOOLEAN
BY DEF Env

(* A read whose master is not answered in this cycle stays as it is.       *)
LEMMA ReadKept ==
  ASSUME Types, NEW e \in Env, Cycle(e), NEW m \in Masters, ~(m \in rq.valid /\ e.rready), bus.arready # m
  PROVE  rd'[m] = rd[m]
<1>1. rd'[m] = ReadMaster(m, e)
  BY DEF Cycle
<1>2. CASE rd[m] = None
  BY <1>1, <1>2 DEF ReadMaster
<1>3. CASE rd[m] # None
  <2>1. rd[m] \in Reading
    BY <1>3 DEF Types
  <2>2. [rd[m] EXCEPT !.ar = rd[m].ar /\ bus.arready # m] = rd[m]
    <3>1. (rd[m].ar /\ bus.arready # m) = rd[m].ar
      BY <2>1 DEF Reading
    <3>2. [rd[m] EXCEPT !.ar = rd[m].ar] = rd[m]
      BY <2>1 DEF Reading
    <3> QED
      BY <3>1, <3>2
  <2> QED
    BY <1>1, <1>3, <2>2 DEF ReadMaster
<1> QED
  BY <1>2, <1>3

(* A write whose master is not answered in this cycle stays as it is.      *)
LEMMA WriteKept ==
  ASSUME Types, NEW e \in Env, Cycle(e), NEW m \in Masters, ~(m \in bus.bvalid /\ e.bready), bus.awready # m, bus.wready # m
  PROVE  wr'[m] = wr[m]
<1>1. wr'[m] = WriteMaster(m, e)
  BY DEF Cycle
<1>2. CASE wr[m] = None
  BY <1>1, <1>2 DEF WriteMaster
<1>3. CASE wr[m] # None
  <2>1. wr[m] \in Writing
    BY <1>3 DEF Types
  <2>2. (wr[m].aw /\ bus.awready # m) = wr[m].aw /\ (wr[m].w /\ bus.wready # m) = wr[m].w
    BY <2>1 DEF Writing
  <2>3. [wr[m] EXCEPT !.aw = wr[m].aw] = wr[m] /\ [wr[m] EXCEPT !.w = wr[m].w] = wr[m]
    BY <2>1 DEF Writing
  <2>4. wr'[m] = [wr[m] EXCEPT !.aw = wr[m].aw /\ bus.awready # m, !.w = wr[m].w /\ bus.wready # m]
    BY <1>1, <1>3 DEF WriteMaster
  <2>5. [wr[m] EXCEPT !.aw = wr[m].aw /\ bus.awready # m, !.w = wr[m].w /\ bus.wready # m]
        = [[wr[m] EXCEPT !.aw = wr[m].aw /\ bus.awready # m] EXCEPT !.w = wr[m].w /\ bus.wready # m]
    OBVIOUS
  <2> QED
    BY <2>2, <2>3, <2>4, <2>5
<1> QED
  BY <1>2, <1>3

(* The read side of a slave after a cycle.                                 *)
NextBurst(v, e) ==
  IF v \in bus.m_arvalid /\ ArReady(v, e) THEN [beat |-> 0, len |-> bus.len]
  ELSE IF sl[v].r # None /\ sl[v].rvalid /\ bus.m_rready = v
       THEN IF sl[v].r.beat = sl[v].r.len THEN None ELSE [sl[v].r EXCEPT !.beat = @ + 1]
  ELSE sl[v].r
NextValid(v, e) ==
  IF v \in bus.m_arvalid /\ ArReady(v, e) THEN FALSE
  ELSE IF sl[v].r # None /\ sl[v].rvalid /\ bus.m_rready = v THEN FALSE
  ELSE sl[v].r # None /\ (sl[v].rvalid \/ e.r)
ReadSide(v, e) ==
  /\ sl'[v].r = NextBurst(v, e)
  /\ sl'[v].rvalid = NextValid(v, e)

(* The write side of a slave after a cycle.                                *)
WriteSide(v, e) ==
  IF sl[v].b
  THEN IF bus.m_bready = v THEN ~sl'[v].aw /\ sl'[v].w = None /\ ~sl'[v].b
       ELSE sl'[v].aw = sl[v].aw /\ sl'[v].w = sl[v].w /\ sl'[v].b
  ELSE /\ sl'[v].aw = (sl[v].aw \/ (v \in bus.m_awvalid /\ AwReady(v, e)))
       /\ sl'[v].w = (IF v \in wq.valid /\ WReady(v, e) THEN wq.out ELSE sl[v].w)
       /\ sl'[v].b = (e.b /\ sl[v].aw /\ sl[v].w # None /\ v \notin Mute)

(* A cycle does both.                                                      *)
LEMMA SlaveSides ==
  ASSUME Types, NEW e \in Env, Cycle(e), NEW v \in Slaves
  PROVE  ReadSide(v, e) /\ WriteSide(v, e)
<1> DEFINE t == SlaveRead(sl[v], v, e)
<1>1. sl'[v] = SlaveWrite(t, v, e)
  BY DEF Cycle
<1>2. sl[v] \in SlaveRec
  BY DEF Types
<1>3. /\ t.r = NextBurst(v, e) /\ t.rvalid = NextValid(v, e)
      /\ t.aw = sl[v].aw /\ t.w = sl[v].w /\ t.b = sl[v].b
      /\ DOMAIN t = {"r", "rvalid", "aw", "w", "b"}
  <2>1. CASE v \in bus.m_arvalid /\ ArReady(v, e)
    <3>1. t = [sl[v] EXCEPT !.r = [beat |-> 0, len |-> bus.len], !.rvalid = FALSE]
      BY <2>1 DEF SlaveRead
    <3> QED
      BY <1>2, <2>1, <3>1 DEF SlaveRec, NextBurst, NextValid
  <2>2. CASE ~(v \in bus.m_arvalid /\ ArReady(v, e)) /\ sl[v].r # None /\ sl[v].rvalid /\ bus.m_rready = v
    <3> DEFINE r1 == IF sl[v].r.beat = sl[v].r.len THEN None ELSE [sl[v].r EXCEPT !.beat = @ + 1]
    <3>1. t = [sl[v] EXCEPT !.rvalid = FALSE, !.r = r1]
      BY <2>2 DEF SlaveRead
    <3>2. NextBurst(v, e) = r1 /\ NextValid(v, e) = FALSE
      BY <2>2 DEF NextBurst, NextValid
    <3> HIDE DEF r1, t
    <3> QED
      BY <1>2, <3>1, <3>2 DEF SlaveRec
  <2>3. CASE ~(v \in bus.m_arvalid /\ ArReady(v, e)) /\ ~(sl[v].r # None /\ sl[v].rvalid /\ bus.m_rready = v)
    <3>1. t = [sl[v] EXCEPT !.rvalid = sl[v].r # None /\ (sl[v].rvalid \/ e.r)]
      BY <2>3 DEF SlaveRead
    <3>2. NextBurst(v, e) = sl[v].r /\ NextValid(v, e) = (sl[v].r # None /\ (sl[v].rvalid \/ e.r))
      BY <2>3 DEF NextBurst, NextValid
    <3> HIDE DEF t
    <3> QED
      BY <1>2, <3>1, <3>2 DEF SlaveRec
  <2> QED
    BY <2>1, <2>2, <2>3
<1> HIDE DEF t
<1>4. sl[v].aw \in BOOLEAN /\ sl[v].b \in BOOLEAN
  BY <1>2 DEF SlaveRec
<1>5. ReadSide(v, e)
  <2>1. sl'[v].r = t.r /\ sl'[v].rvalid = t.rvalid
    BY <1>1, <1>3 DEF SlaveWrite
  <2> QED
    BY <1>3, <2>1 DEF ReadSide
<1>6. WriteSide(v, e)
  <2>1. CASE sl[v].b /\ bus.m_bready = v
    <3>1. sl'[v] = [t EXCEPT !.b = FALSE, !.aw = FALSE, !.w = None]
      BY <1>1, <1>3, <2>1 DEF SlaveWrite
    <3> QED
      BY <1>3, <2>1, <3>1 DEF WriteSide
  <2>2. CASE sl[v].b /\ bus.m_bready # v
    <3>1. sl'[v] = t
      BY <1>1, <1>3, <2>2 DEF SlaveWrite
    <3> QED
      BY <1>3, <2>2, <3>1 DEF WriteSide
  <2>3. CASE ~sl[v].b
    <3>1. sl'[v] = [t EXCEPT !.aw = t.aw \/ (v \in bus.m_awvalid /\ AwReady(v, e)),
                             !.w = IF v \in wq.valid /\ WReady(v, e) THEN wq.out ELSE t.w,
                             !.b = BReply(t, v, e)]
      BY <1>1, <1>3, <2>3 DEF SlaveWrite
    <3>2. BReply(t, v, e) = (e.b /\ sl[v].aw /\ sl[v].w # None /\ v \notin Mute)
      BY <1>3 DEF BReply
    <3> QED
      BY <1>3, <2>3, <3>1, <3>2 DEF WriteSide
  <2> QED
    BY <1>4, <2>1, <2>2, <2>3
<1> QED
  BY <1>5, <1>6

(* A slave without a read under way that is not asked stays so.            *)
LEMMA BurstKept ==
  ASSUME Types, NEW e \in Env, Cycle(e), NEW v \in Slaves, v \notin bus.m_arvalid, sl[v].r = None, ~sl[v].rvalid
  PROVE  sl'[v].r = None /\ ~sl'[v].rvalid
BY SlaveSides DEF ReadSide, NextBurst, NextValid

(* A slave without a write under way that is not asked stays so.           *)
LEMMA StoreKept ==
  ASSUME Types, NEW e \in Env, Cycle(e), NEW v \in Slaves, v \notin bus.m_awvalid, v \notin wq.valid,
         ~sl[v].aw, sl[v].w = None, ~sl[v].b
  PROVE  ~sl'[v].aw /\ sl'[v].w = None /\ ~sl'[v].b
BY SlaveSides DEF WriteSide

(* The history of a slave changes when it begins to answer.                *)
LEMMA WrittenKept ==
  ASSUME Types, NEW e \in Env, Cycle(e), NEW v \in Slaves
  PROVE  written'[v] = IF ~sl[v].b /\ sl'[v].b THEN sl[v].w ELSE written[v]
BY DEF Cycle

(* A grant is held until it is acknowledged.                               *)
LEMMA ArbKept ==
  ASSUME NEW e \in Env, Cycle(e), arb.grant # None, ~acknowledge(e)
  PROVE  arb' = arb
BY DEF Cycle, arbiter

(* Every set of numbers that is not empty has a least one.                 *)
LEMMA LeastNat ==
  ASSUME NEW T \in SUBSET Nat, T # {}
  PROVE  \E x \in T : \A y \in T : x <= y
<1> DEFINE R == OpToRel(<, Nat)
<1>1. IsWellFoundedOn(R, Nat)
  BY NatLessThanWellFounded
<1>2. \A x, y \in Nat : x < y => <<x, y>> \in R
  BY DEF OpToRel
<1> HIDE DEF R
<1>3. PICK x \in T : \A y \in T : <<y, x>> \notin R
  BY <1>1, WFMin
<1>4. ASSUME NEW y \in T PROVE x <= y
  <2>1. x \in Nat /\ y \in Nat /\ ~(y < x)
    BY <1>2, <1>3
  <2> QED
    BY <2>1
<1> QED
  BY <1>3, <1>4

(* The lowest port of a set is one of it.                                  *)
LEMMA LowestPort ==
  ASSUME NEW P, P \subseteq Ports, P # {}
  PROVE  Min(P) \in P
<1>1. P \subseteq Nat
  BY BusParameters
<1>2. PICK n \in P : \A k \in P : n <= k
  BY <1>1, LeastNat
<1> QED
  BY <1>2 DEF Min

-----------------------------------------------------------------------------
(* One clock cycle of the arbiter and of the buffers.                      *)

(* The master of port p asks.                                              *)
Asked(p) ==
  \E m \in Masters : \/ p = 2 * m /\ wr[m] # None /\ wr[m].aw
                     \/ p = 2 * m + 1 /\ rd[m] # None /\ rd[m].ar

(* A requested port exists and its master asks.                            *)
LEMMA Requests == request \subseteq Ports /\ \A p \in request : Asked(p)
<1>1. ASSUME NEW p \in request PROVE p \in Ports /\ Asked(p)
  <2>1. PICK m \in Masters : \/ p = 2 * m /\ wr[m] # None /\ wr[m].aw
                             \/ p = 2 * m + 1 /\ rd[m] # None /\ rd[m].ar
    BY DEF request
  <2> QED
    BY <2>1, BusParameters DEF Asked
<1> QED
  BY <1>1

(* A new grant is to a master that asks.                                   *)
LEMMA NewGrant ==
  ASSUME Types, NEW e \in Env, Cycle(e), arb.grant = None \/ acknowledge(e)
  PROVE  /\ arb' \in [grant : Ports \cup {None}, mask : SUBSET Ports]
         /\ arb'.grant = None \/ Asked(arb'.grant)
<1>1. arb \in [grant : Ports \cup {None}, mask : SUBSET Ports]
  BY DEF Types
<1>2. arb' = arbiter(e)
  BY DEF Cycle
<1>3. CASE request = {}
  <2>1. arb' = [arb EXCEPT !.grant = None]
    BY <1>2, <1>3 DEF arbiter
  <2> QED
    BY <1>1, <2>1
<1>4. CASE request # {}
  <2> DEFINE g == IF request \cap arb.mask # {} THEN Min(request \cap arb.mask) ELSE Min(request)
  <2>1. arb' = [grant |-> g, mask |-> {p \in Ports : p > g}]
    BY <1>2, <1>4 DEF arbiter
  <2>2. g \in request
    <3>1. CASE request \cap arb.mask # {}
      <4>1. Min(request \cap arb.mask) \in request \cap arb.mask
        BY <3>1, Requests, LowestPort
      <4> QED
        BY <3>1, <4>1
    <3>2. CASE request \cap arb.mask = {}
      <4>1. Min(request) \in request
        BY <1>4, Requests, LowestPort
      <4> QED
        BY <3>2, <4>1
    <3> QED
      BY <3>1, <3>2
  <2> HIDE DEF g
  <2>3. arb'.grant = g /\ arb'.mask \subseteq Ports
    BY <2>1
  <2>4. g \in Ports /\ Asked(g)
    BY <2>2, Requests
  <2> QED
    BY <2>1, <2>3, <2>4
<1> QED
  BY <1>3, <1>4

(* What a cycle makes of a buffer, field by field.                         *)
SkidIs(n, q, to, sink, x, empty) ==
  /\ n.ready = Early(q, to, sink, x, empty)
  /\ IF q.ready
     THEN IF sink \/ to \notin q.valid
          THEN /\ n.valid = (IF x = empty THEN q.valid \ {to} ELSE q.valid \cup {to})
               /\ n.out = x /\ n.temp = q.temp
          ELSE n.valid = q.valid /\ n.out = q.out /\ n.temp = x
     ELSE IF sink
          THEN /\ n.valid = (IF q.temp = empty THEN q.valid \ {to} ELSE q.valid \cup {to})
               /\ n.out = q.temp /\ n.temp = empty
          ELSE n.valid = q.valid /\ n.out = q.out /\ n.temp = q.temp

(* The buffer does that, and holds items of the same kind.                 *)
LEMMA SkidFields ==
  ASSUME NEW V, NEW T, NEW q \in Buf(V, T),
         NEW to, NEW sink, NEW x, NEW empty
  PROVE  /\ SkidIs(Skid(q, to, sink, x, empty), q, to, sink, x, empty)
         /\ (to \in V /\ x \in T /\ empty \in T
              => Skid(q, to, sink, x, empty) \in Buf(V, T))
<1>0. q \in [ready : BOOLEAN, valid : SUBSET V, out : T, temp : T]
  BY DEF Buf
<1> DEFINE o(y) == Output(q, to, y, empty)
           mv == IF q.ready
                 THEN IF sink \/ to \notin q.valid THEN o(x) ELSE [q EXCEPT !.temp = x]
                 ELSE IF sink THEN [o(q.temp) EXCEPT !.temp = empty] ELSE q
           val(y) == IF y = empty THEN q.valid \ {to} ELSE q.valid \cup {to}
           D == {"ready", "valid", "out", "temp"}
           n == Skid(q, to, sink, x, empty)
<1>1. n = [mv EXCEPT !.ready = Early(q, to, sink, x, empty)]
  BY DEF Skid
<1>2. ASSUME NEW y
      PROVE  o(y).ready = q.ready /\ o(y).valid = val(y) /\ o(y).out = y /\ o(y).temp = q.temp
             /\ o(y) = [ready |-> q.ready, valid |-> val(y), out |-> y, temp |-> q.temp]
  <2>1. o(y) = [q EXCEPT !.valid = val(y), !.out = y]
    BY DEF Output
  <2> HIDE DEF o, val
  <2> QED
    BY <1>0, <2>1
<1>3. Early(q, to, sink, x, empty) \in BOOLEAN
  BY DEF Early
<1> HIDE DEF n, Buf
<1>4. CASE q.ready /\ (sink \/ to \notin q.valid)
  <2>1. mv = [ready |-> q.ready, valid |-> val(x), out |-> x, temp |-> q.temp]
    BY <1>2, <1>4
  <2> HIDE DEF mv, val
  <2>2. n = [ready |-> Early(q, to, sink, x, empty), valid |-> val(x), out |-> x, temp |-> q.temp]
    BY <1>0, <1>1, <2>1
  <2>3. n.ready = Early(q, to, sink, x, empty) /\ n.valid = val(x) /\ n.out = x /\ n.temp = q.temp
    BY <2>2
  <2>4. SkidIs(n, q, to, sink, x, empty)
    BY <1>4, <2>3 DEF SkidIs, val
  <2>5. to \in V => val(x) \subseteq V
    BY <1>0 DEF val
  <2> QED
    BY <1>0, <1>3, <2>2, <2>4, <2>5 DEF n, Buf
<1>5. CASE q.ready /\ ~sink /\ to \in q.valid
  <2>1. mv = [q EXCEPT !.temp = x]
    BY <1>5
  <2> HIDE DEF mv, val
  <2>2. n = [ready |-> Early(q, to, sink, x, empty), valid |-> q.valid, out |-> q.out, temp |-> x]
    BY <1>0, <1>1, <2>1
  <2>3. SkidIs(n, q, to, sink, x, empty)
    BY <1>5, <2>2 DEF SkidIs
  <2> QED
    BY <1>0, <1>3, <2>2, <2>3 DEF n, Buf
<1>6. CASE ~q.ready /\ sink
  <2>1. mv = [o(q.temp) EXCEPT !.temp = empty]
    BY <1>6
  <2>a. o(q.temp) = [ready |-> q.ready, valid |-> val(q.temp), out |-> q.temp, temp |-> q.temp]
    BY <1>2
  <2> HIDE DEF mv, val, o
  <2>2. n = [ready |-> Early(q, to, sink, x, empty), valid |-> val(q.temp), out |-> q.temp, temp |-> empty]
    <3>1. mv = [ready |-> q.ready, valid |-> val(q.temp), out |-> q.temp, temp |-> empty]
      BY <2>1, <2>a
    <3> QED
      BY <1>1, <3>1
  <2>3. SkidIs(n, q, to, sink, x, empty)
    BY <1>6, <2>2 DEF SkidIs, val
  <2>5. to \in V => val(q.temp) \subseteq V
    BY <1>0 DEF val
  <2> QED
    BY <1>0, <1>3, <2>2, <2>3, <2>5 DEF n, Buf
<1>7. CASE ~q.ready /\ ~sink
  <2>1. mv = q
    BY <1>7
  <2> HIDE DEF mv
  <2>2. n = [ready |-> Early(q, to, sink, x, empty), valid |-> q.valid, out |-> q.out, temp |-> q.temp]
    BY <1>0, <1>1, <2>1
  <2>3. SkidIs(n, q, to, sink, x, empty)
    BY <1>7, <2>2 DEF SkidIs
  <2> QED
    BY <1>0, <1>3, <2>2, <2>3 DEF n, Buf
<1> QED
  BY <1>4, <1>5, <1>6, <1>7

-----------------------------------------------------------------------------
(* One clock cycle of the state machine: the width of every register.      *)

(* No count exceeds the length of its burst.                               *)
Fits ==
  /\ bus.state = "IDLE" /\ arb.grant # None => (IF read THEN rd[s_select] # None ELSE wr[s_select] # None)
  /\ \A m \in rq.valid : rd[m] # None => rq.out.last \/ rd[m].beat < MaxLen
  /\ \A v \in Slaves : sl[v].r # None => sl[v].r.beat = sl[v].r.len \/ sl[v].r.beat < MaxLen
  /\ bus.m_arvalid # {} => bus.len <= MaxLen

(* What every state does unless it says otherwise, field by field.         *)
DefaultsAre(d, e) ==
  /\ d.state = bus.state /\ d.sel = bus.sel /\ d.addr = bus.addr /\ d.addr_valid = bus.addr_valid /\ d.len = bus.len
  /\ d.awready = None /\ d.wready = None /\ d.arready = None /\ d.m_bready = None /\ d.m_rready = None
  /\ d.bresp = bus.bresp /\ d.bvalid = (IF e.bready THEN {} ELSE bus.bvalid)
  /\ d.m_awvalid = {v \in bus.m_awvalid : ~AwReady(v, e)}
  /\ d.m_arvalid = {v \in bus.m_arvalid : ~ArReady(v, e)}

(* Defaults does that.                                                     *)
LEMMA DefaultFields ==
  ASSUME Types, NEW e \in Env
  PROVE  IsBus(Defaults(e)) /\ DefaultsAre(Defaults(e), e)
<1> DEFINE av == {v \in bus.m_awvalid : ~AwReady(v, e)}
           rv == {v \in bus.m_arvalid : ~ArReady(v, e)}
           bv == IF e.bready THEN {} ELSE bus.bvalid
           d == Defaults(e)
<1>1. IsBus(bus)
  BY DEF Types
<1>2. d = [bus EXCEPT !.awready = None, !.wready = None, !.arready = None, !.bvalid = bv,
                      !.m_awvalid = av, !.m_bready = None, !.m_arvalid = rv, !.m_rready = None]
  BY <1>1 DEF Defaults, IsBus
<1>3. bus.bvalid \subseteq Masters /\ bus.m_awvalid \subseteq Slaves /\ bus.m_arvalid \subseteq Slaves
  BY <1>1 DEF IsBus
<1>4. av \subseteq Slaves /\ rv \subseteq Slaves /\ bv \subseteq Masters
  BY <1>3
<1>5. DefaultsAre(d, e)
  <2> HIDE DEF av, rv, bv, d
  <2>1. /\ d.state = bus.state /\ d.sel = bus.sel /\ d.addr = bus.addr /\ d.addr_valid = bus.addr_valid /\ d.len = bus.len
        /\ d.awready = None /\ d.wready = None /\ d.arready = None /\ d.m_bready = None /\ d.m_rready = None
        /\ d.bresp = bus.bresp /\ d.bvalid = bv /\ d.m_awvalid = av /\ d.m_arvalid = rv
    BY <1>1, <1>2 DEF IsBus
  <2> QED
    BY <2>1 DEF DefaultsAre, av, rv, bv
<1>6. IsBus(d)
  <2> HIDE DEF av, rv, bv, d
  <2> QED
    BY <1>1, <1>2, <1>4 DEF IsBus
<1> QED
  BY <1>5, <1>6

(* What enters the buffers is of their kind.                               *)
LEMMA InputsTyped ==
  ASSUME Types
  PROVE  rInt \in Beats /\ NoData \in Beats /\ wInt \in {0, 1, None}
<1>1. NoData \in Beats
  BY BusParameters DEF NoData, Beats
<1>2. bus.sel \in Slaves /\ sl[bus.sel] \in SlaveRec
  BY DEF Types, IsBus
<1>3. rInt \in Beats
  <2>1. CASE bus.state = "READ_DROP"
    <3>1. [from |-> Unmapped, beat |-> 0, last |-> bus.len = 0] \in Beats
      BY BusParameters DEF Beats
    <3> QED
      BY <2>1, <3>1 DEF rInt
  <2>2. CASE sl[bus.sel].r # None
    <3>1. sl[bus.sel].r \in Burst
      BY <1>2, <2>2 DEF SlaveRec
    <3>2. [from |-> bus.sel, beat |-> sl[bus.sel].r.beat, last |-> sl[bus.sel].r.beat = sl[bus.sel].r.len] \in Beats
      BY <1>2, <3>1 DEF Beats, Burst
    <3> QED
      BY <1>1, <2>1, <3>2 DEF rInt
  <2>3. CASE bus.state # "READ_DROP" /\ sl[bus.sel].r = None
    BY <1>1, <2>3 DEF rInt
  <2> QED
    BY <2>1, <2>2, <2>3
<1>4. wInt \in {0, 1, None}
  <2>1. s_select \in Masters
    BY Selected
  <2>2. wHandshake => wr[s_select] \in Writing
    BY <2>1 DEF wHandshake, Types
  <2>3. wHandshake => wr[s_select].data \in {0, 1}
    BY <2>2 DEF Writing
  <2> QED
    BY <2>3 DEF wInt
<1> QED
  BY <1>1, <1>3, <1>4

(* A ready bit names who it is for, or nobody.                             *)
LEMMA OnlyTyped ==
  ASSUME NEW S, NEW x \in S, NEW b
  PROVE  Only(b, x) \in S \cup {None}
BY DEF Only

(* Every state keeps the registers within their widths.                    *)
LEMMA BusTyped ==
  ASSUME Types, NEW e \in Env, Fits
  PROVE  IsBus(Bus(e))
<1> DEFINE d == Defaults(e)
<1>1. IsBus(d) /\ IsBus(bus)
  BY DefaultFields DEF Types
<1>2. s_select \in Masters /\ bus.sel \in Slaves
  BY <1>1, Selected DEF IsBus
<1>3. Only(rEarly(e), bus.sel) \in Slaves \cup {None} /\ Only(wEarly(e), s_select) \in Masters \cup {None}
  BY <1>2, OnlyTyped
<1> DEFINE ro == Only(rEarly(e), bus.sel)
           wo == Only(wEarly(e), s_select)
<1> HIDE DEF d
<1>4. CASE bus.state = "IDLE"
  <2>1. Bus(e) = STATE_IDLE(d)
    BY <1>4 DEF Bus, d
  <2>2. CASE arb.grant = None
    BY <1>1, <2>1, <2>2 DEF STATE_IDLE
  <2>3. CASE arb.grant # None /\ read
    <3>1. rd[s_select] \in Reading
      BY <1>2, <1>4, <2>3 DEF Fits, Types
    <3>2. rd[s_select].to \in Slaves \cup {Unmapped} /\ rd[s_select].len \in 0 .. 255
      <4>1. rd[s_select].to \in Slaves \cup {Unmapped} /\ rd[s_select].len \in 0 .. MaxLen
        BY <3>1 DEF Reading
      <4>2. MaxLen \in Nat /\ MaxLen <= 255
        BY BusParameters
      <4> QED
        BY <4>1, <4>2
    <3>3. Bus(e) = [d EXCEPT !.addr_valid = TRUE, !.addr = rd[s_select].to, !.len = rd[s_select].len,
                              !.arready = s_select, !.state = "DECODE"]
      BY <2>1, <2>3 DEF STATE_IDLE
    <3> QED
      BY <1>1, <1>2, <3>2, <3>3 DEF IsBus
  <2>4. CASE arb.grant # None /\ ~read
    <3>1. wr[s_select] \in Writing
      BY <1>2, <1>4, <2>4 DEF Fits, Types
    <3>2. wr[s_select].to \in Slaves \cup {Unmapped} /\ 0 \in 0 .. 255
      BY <3>1, BusParameters DEF Writing
    <3>3. Bus(e) = [d EXCEPT !.addr_valid = TRUE, !.addr = wr[s_select].to, !.len = 0,
                 !.awready = s_select, !.state = "DECODE"]
      BY <2>1, <2>4 DEF STATE_IDLE
    <3> QED
      BY <1>1, <1>2, <3>2, <3>3 DEF IsBus
  <2> QED
    BY <2>2, <2>3, <2>4
<1>5. CASE bus.state = "DECODE"
  <2>1. Bus(e) = STATE_DECODE(d, e)
    BY <1>5 DEF Bus, d
  <2>2. CASE bus.addr \in Slaves /\ read
    <3>1. Bus(e) = [d EXCEPT !.sel = bus.addr, !.m_rready = ro, !.state = "READ"]
      BY <2>1, <2>2 DEF STATE_DECODE
    <3> QED
      BY <1>1, <1>3, <2>2, <3>1 DEF IsBus
  <2>3. CASE bus.addr \in Slaves /\ ~read
    <3>1. Bus(e) = [d EXCEPT !.sel = bus.addr, !.wready = wo, !.state = "WRITE"]
      BY <2>1, <2>3 DEF STATE_DECODE
    <3> QED
      BY <1>1, <1>3, <2>3, <3>1 DEF IsBus
  <2>4. CASE bus.addr \notin Slaves /\ read
    <3>1. Bus(e) = [d EXCEPT !.state = "READ_DROP"]
      BY <2>1, <2>4 DEF STATE_DECODE
    <3> QED
      BY <1>1, <3>1 DEF IsBus
  <2>5. CASE bus.addr \notin Slaves /\ ~read
    <3>1. Bus(e) = [d EXCEPT !.bresp = "DECERR", !.wready = s_select, !.state = "WRITE_DROP"]
      BY <2>1, <2>5 DEF STATE_DECODE
    <3> QED
      BY <1>1, <1>2, <3>1 DEF IsBus
  <2> QED
    BY <2>2, <2>3, <2>4, <2>5
<1>6. CASE bus.state = "WRITE"
  <2> DEFINE av == IF bus.addr_valid THEN d.m_awvalid \cup {bus.sel} ELSE d.m_awvalid
             fwd == [d EXCEPT !.m_awvalid = av, !.addr_valid = FALSE]
  <2>1. Bus(e) = IF wHandshake THEN [fwd EXCEPT !.m_bready = bus.sel, !.state = "WRITE_RESP"]
                 ELSE [fwd EXCEPT !.wready = wo]
    BY <1>6 DEF Bus, d, STATE_WRITE
  <2>2. IsBus(fwd)
    <3>1. av \subseteq Slaves
      BY <1>1, <1>2 DEF IsBus
    <3> HIDE DEF av
    <3> QED
      BY <1>1, <3>1 DEF IsBus
  <2> HIDE DEF fwd
  <2> QED
    BY <1>2, <1>3, <2>1, <2>2 DEF IsBus
<1>7. CASE bus.state = "WRITE_RESP"
  <2> DEFINE bv == d.bvalid \cup {s_select}
  <2>1. Bus(e) = IF bus.m_bready = bus.sel /\ sl[bus.sel].b
                 THEN [d EXCEPT !.bresp = "OKAY", !.bvalid = bv, !.state = "WAIT_IDLE"]
                 ELSE [d EXCEPT !.m_bready = bus.sel]
    BY <1>1, <1>7 DEF Bus, d, STATE_WRITE_RESP, IsBus
  <2>2. bv \subseteq Masters
    BY <1>1, <1>2 DEF IsBus
  <2> HIDE DEF bv
  <2> QED
    BY <1>1, <1>2, <2>1, <2>2 DEF IsBus
<1>8. CASE bus.state = "WRITE_DROP"
  <2> DEFINE bv == d.bvalid \cup {s_select}
             off == [d EXCEPT !.addr_valid = FALSE]
  <2>1. IsBus(off) /\ off.bvalid = d.bvalid
    BY <1>1 DEF IsBus
  <2>2. Bus(e) = IF wHandshake THEN [off EXCEPT !.bvalid = off.bvalid \cup {s_select}, !.state = "WAIT_IDLE"]
                 ELSE [off EXCEPT !.wready = s_select]
    BY <1>8 DEF Bus, d, STATE_WRITE_DROP
  <2>3. off.bvalid \cup {s_select} = bv /\ bv \subseteq Masters
    BY <1>1, <1>2, <2>1 DEF IsBus
  <2> HIDE DEF bv, off
  <2> QED
    BY <1>2, <2>1, <2>2, <2>3 DEF IsBus
<1>9. CASE bus.state = "READ"
  <2> DEFINE av == IF bus.addr_valid THEN d.m_arvalid \cup {bus.sel} ELSE d.m_arvalid
             fwd == [d EXCEPT !.m_arvalid = av, !.addr_valid = FALSE]
  <2>1. Bus(e) = IF rInt # NoData /\ rInt.last THEN [fwd EXCEPT !.state = "WAIT_IDLE"]
                                   ELSE [fwd EXCEPT !.m_rready = ro]
    BY <1>9 DEF Bus, d, STATE_READ
  <2>2. IsBus(fwd)
    <3>1. av \subseteq Slaves
      BY <1>1, <1>2 DEF IsBus
    <3> HIDE DEF av
    <3> QED
      BY <1>1, <3>1 DEF IsBus
  <2> HIDE DEF fwd
  <2> QED
    BY <1>3, <2>1, <2>2 DEF IsBus
<1>10. CASE bus.state = "READ_DROP"
  <2> DEFINE ln == (bus.len - 1) % 256
  <2>1. Bus(e) = IF rq.ready THEN [d EXCEPT !.len = ln, !.state = IF bus.len = 0 THEN "WAIT_IDLE" ELSE d.state]
                 ELSE d
    BY <1>1, <1>10 DEF Bus, d, STATE_READ_DROP, IsBus
  <2>2. ln \in 0 .. 255
    <3>1. bus.len \in 0 .. 255
      BY <1>1 DEF IsBus
    <3> QED
      BY <3>1
  <2> HIDE DEF ln
  <2> QED
    BY <1>1, <2>1, <2>2 DEF IsBus
<1>11. CASE bus.state = "WAIT_IDLE"
  <2>1. Bus(e) = IF arb.grant = None \/ acknowledge(e) THEN [d EXCEPT !.state = "IDLE"] ELSE d
    BY <1>11 DEF Bus, d, STATE_WAIT_IDLE
  <2> QED
    BY <1>1, <2>1 DEF IsBus
<1>12. bus.state \in {"IDLE", "DECODE", "WRITE", "WRITE_RESP", "WRITE_DROP", "READ", "READ_DROP", "WAIT_IDLE"}
  BY <1>1 DEF IsBus
<1> QED
  BY <1>4, <1>5, <1>6, <1>7, <1>8, <1>9, <1>10, <1>11, <1>12

(* Reads keep their type.                                                  *)
LEMMA ReadsTyped ==
  ASSUME Types, NEW e \in Env, Cycle(e), Fits
  PROVE  rd' \in [Masters -> Reading \cup {None}]
<1>1. rd' = [m \in Masters |-> ReadMaster(m, e)]
  BY DEF Cycle
<1>2. ASSUME NEW m \in Masters PROVE ReadMaster(m, e) \in Reading \cup {None}
  <2> DEFINE r == rd[m]
  <2>1. CASE r = None
    BY <2>1 DEF ReadMaster
  <2>2. CASE r # None
    <3>1. r \in Reading
      BY <2>2 DEF Types
    <3>2. r.beat \in 0 .. MaxLen /\ r.ar \in BOOLEAN
      BY <3>1 DEF Reading
    <3>3. [r EXCEPT !.ar = r.ar /\ bus.arready # m] \in Reading
      BY <3>1, <3>2 DEF Reading
    <3>4. m \in rq.valid /\ ~rq.out.last => [r EXCEPT !.beat = r.beat + 1] \in Reading
      <4>1. m \in rq.valid /\ ~rq.out.last => r.beat + 1 \in 0 .. MaxLen
        BY <2>2, <3>2, BusParameters DEF Fits
      <4> QED
        BY <3>1, <4>1 DEF Reading
    <3>5. ReadMaster(m, e) = IF m \in rq.valid /\ e.rready
                             THEN IF rq.out.last THEN None ELSE [r EXCEPT !.beat = r.beat + 1]
                             ELSE [r EXCEPT !.ar = r.ar /\ bus.arready # m]
      BY <2>2 DEF ReadMaster
    <3> QED
      BY <3>3, <3>4, <3>5
  <2> QED
    BY <2>1, <2>2
<1> QED
  BY <1>1, <1>2

(* Writes keep their type.                                                 *)
LEMMA WritesTyped ==
  ASSUME Types, NEW e \in Env, Cycle(e)
  PROVE  wr' \in [Masters -> Writing \cup {None}]
<1>1. wr' = [m \in Masters |-> WriteMaster(m, e)]
  BY DEF Cycle
<1>2. ASSUME NEW m \in Masters PROVE WriteMaster(m, e) \in Writing \cup {None}
  <2> DEFINE r == wr[m]
             r1 == [r EXCEPT !.aw = r.aw /\ bus.awready # m]
  <2>1. CASE r = None \/ (m \in bus.bvalid /\ e.bready)
    BY <2>1 DEF WriteMaster
  <2>2. CASE ~(r = None \/ (m \in bus.bvalid /\ e.bready))
    <3>1. r \in Writing
      BY <2>2 DEF Types
    <3>2. r1 \in Writing
      BY <3>1 DEF Writing
    <3>3. WriteMaster(m, e) = [r1 EXCEPT !.w = r.w /\ bus.wready # m]
      BY <2>2 DEF WriteMaster
    <3> HIDE DEF r1
    <3>4. (r.w /\ bus.wready # m) \in BOOLEAN
      BY <3>1 DEF Writing
    <3> QED
      BY <3>2, <3>3, <3>4 DEF Writing
  <2> QED
    BY <2>1, <2>2
<1> QED
  BY <1>1, <1>2

(* Slaves keep their type.                                                 *)
LEMMA SlavesTyped ==
  ASSUME Types, NEW e \in Env, Cycle(e), Fits
  PROVE  sl' \in [Slaves -> SlaveRec] /\ written' \in [Slaves -> {0, 1}]
<1>1. sl' = [v \in Slaves |-> SlaveWrite(SlaveRead(sl[v], v, e), v, e)]
  BY DEF Cycle
<1>2. ASSUME NEW v \in Slaves
      PROVE  sl'[v] \in SlaveRec /\ written'[v] \in {0, 1}
  <2> DEFINE s == sl[v]
             t == SlaveRead(s, v, e)
  <2>1. s \in SlaveRec
    BY DEF Types
  <2>2. NextBurst(v, e) \in Burst \cup {None}
    <3>1. CASE v \in bus.m_arvalid /\ ArReady(v, e)
      <4>1. bus.len \in 0 .. MaxLen
        BY <3>1, BusParameters DEF Fits, Types, IsBus
      <4> QED
        BY <3>1, <4>1, BusParameters DEF NextBurst, Burst
    <3>2. CASE ~(v \in bus.m_arvalid /\ ArReady(v, e))
      <4>1. CASE s.r = None
        BY <3>2, <4>1 DEF NextBurst
      <4>2. CASE s.r # None
        <5>1. s.r \in Burst
          BY <2>1, <4>2 DEF SlaveRec
        <5>2. s.r.beat # s.r.len => s.r.beat + 1 \in 0 .. MaxLen
          BY <4>2, <5>1, BusParameters DEF Fits, Burst
        <5>3. s.r.beat # s.r.len => [s.r EXCEPT !.beat = s.r.beat + 1] \in Burst
          BY <5>1, <5>2 DEF Burst
        <5> QED
          BY <3>2, <5>1, <5>3 DEF NextBurst
      <4> QED
        BY <4>1, <4>2
    <3> QED
      BY <3>1, <3>2
  <2>3. NextValid(v, e) \in BOOLEAN
    BY <2>1 DEF NextValid, SlaveRec
  <2>4. sl'[v].r \in Burst \cup {None} /\ sl'[v].rvalid \in BOOLEAN
    BY <2>2, <2>3, SlaveSides DEF ReadSide
  <2>5. /\ sl'[v].aw \in BOOLEAN /\ sl'[v].w \in {0, 1, None} /\ sl'[v].b \in BOOLEAN
        /\ ~sl[v].b /\ sl'[v].b => sl[v].w \in {0, 1}
    <3>1. s.aw \in BOOLEAN /\ s.w \in {0, 1, None} /\ s.b \in BOOLEAN /\ wq.out \in {0, 1, None}
      BY <2>1 DEF SlaveRec, Types, WriteBuf, Buf
    <3>2. WriteSide(v, e)
      BY SlaveSides
    <3>3. CASE s.b
      <4>1. IF bus.m_bready = v THEN ~sl'[v].aw /\ sl'[v].w = None /\ ~sl'[v].b
            ELSE sl'[v].aw = sl[v].aw /\ sl'[v].w = sl[v].w /\ sl'[v].b
        BY <3>2, <3>3 DEF WriteSide
      <4>2. sl'[v] = SlaveWrite(t, v, e) /\ t.b = s.b /\ DOMAIN t = {"r", "rvalid", "aw", "w", "b"}
        BY <1>1, <2>1 DEF SlaveRead, SlaveRec
      <4> HIDE DEF t
      <4>3. sl'[v].aw \in BOOLEAN /\ sl'[v].b \in BOOLEAN
        BY <3>1, <3>3, <4>1, <4>2 DEF SlaveWrite
      <4> QED
        BY <3>1, <3>3, <4>1, <4>3
    <3>4. CASE ~s.b
      <4>1. /\ sl'[v].aw = (sl[v].aw \/ (v \in bus.m_awvalid /\ AwReady(v, e)))
            /\ sl'[v].w = (IF v \in wq.valid /\ WReady(v, e) THEN wq.out ELSE sl[v].w)
            /\ sl'[v].b = (e.b /\ sl[v].aw /\ sl[v].w # None /\ v \notin Mute)
        BY <3>2, <3>4 DEF WriteSide
      <4> QED
        BY <3>1, <4>1, EnvBits
    <3> QED
      BY <3>3, <3>4
  <2>6. sl'[v] \in SlaveRec
    <3>1. sl'[v] = [r |-> sl'[v].r, rvalid |-> sl'[v].rvalid, aw |-> sl'[v].aw, w |-> sl'[v].w, b |-> sl'[v].b]
      <4>1. sl'[v] = SlaveWrite(t, v, e)
        BY <1>1
      <4>2. t = [r |-> t.r, rvalid |-> t.rvalid, aw |-> t.aw, w |-> t.w, b |-> t.b]
        BY <2>1 DEF SlaveRead, SlaveRec
      <4> HIDE DEF t
      <4> QED
        BY <4>1, <4>2 DEF SlaveWrite
    <3> QED
      BY <2>4, <2>5, <3>1 DEF SlaveRec
  <2>7. written'[v] \in {0, 1}
    BY <2>5, WrittenKept DEF Types
  <2> QED
    BY <2>6, <2>7
<1>3. sl' \in [Slaves -> SlaveRec]
  BY <1>1, <1>2
<1>4. written' \in [Slaves -> {0, 1}]
  <2>1. written' = [v \in Slaves |-> written'[v]]
    BY DEF Cycle
  <2> QED
    BY <1>2, <2>1
<1> QED
  BY <1>3, <1>4

(* A cycle keeps every type.                                               *)
LEMMA TypesStep ==
  ASSUME Types, NEW e \in Env, Cycle(e), Fits
  PROVE  Types'
<1>1. rd' \in [Masters -> Reading \cup {None}] /\ wr' \in [Masters -> Writing \cup {None}]
  BY ReadsTyped, WritesTyped
<1>2. arb' \in [grant : Ports \cup {None}, mask : SUBSET Ports]
  <2>1. CASE arb.grant # None /\ ~acknowledge(e)
    BY <2>1, ArbKept DEF Types
  <2>2. CASE arb.grant = None \/ acknowledge(e)
    BY <2>2, NewGrant
  <2> QED
    BY <2>1, <2>2
<1>3. IsBus(bus)'
  <2>1. bus' = Bus(e)
    BY DEF Cycle
  <2>2. IsBus(Bus(e))
    BY BusTyped
  <2> QED
    BY <2>1, <2>2 DEF IsBus
<1>4. rq' \in ReadBuf
  <2>1. rq' = Skid(rq, s_select, e.rready, rInt, NoData)
    BY DEF Cycle
  <2>2. rInt \in Beats /\ NoData \in Beats /\ s_select \in Masters /\ rq \in ReadBuf
    BY InputsTyped, Selected DEF Types
  <2> QED
    BY <2>1, <2>2, SkidFields DEF ReadBuf
<1>5. wq' \in WriteBuf
  <2>1. wq' = Skid(wq, bus.sel, WReady(bus.sel, e), wInt, None)
    BY DEF Cycle
  <2>2. wInt \in {0, 1, None} /\ None \in {0, 1, None} /\ bus.sel \in Slaves /\ wq \in WriteBuf
    BY InputsTyped DEF Types, IsBus
  <2> QED
    BY <2>1, <2>2, SkidFields DEF WriteBuf
<1>6. sl' \in [Slaves -> SlaveRec] /\ written' \in [Slaves -> {0, 1}]
  BY SlavesTyped
<1> QED
  BY <1>1, <1>2, <1>3, <1>4, <1>5, <1>6 DEF Types

-----------------------------------------------------------------------------
(* What a cycle keeps as it is, and how the buffer for read data moves.    *)

(* The buffer for read data in a cycle.                                    *)
LEMMA ReadBuffer ==
  ASSUME Types, NEW e \in Env, Cycle(e)
  PROVE  SkidIs(rq', rq, s_select, e.rready, rInt, NoData)
<1>1. rq' = Skid(rq, s_select, e.rready, rInt, NoData) /\ rq \in Buf(Masters, Beats)
  BY DEF Cycle, Types, ReadBuf
<1> QED
  BY <1>1, SkidFields

(* The buffer for write data in a cycle.                                   *)
LEMMA WriteBuffer ==
  ASSUME Types, NEW e \in Env, Cycle(e)
  PROVE  SkidIs(wq', wq, bus.sel, WReady(bus.sel, e), wInt, None)
<1>1. wq' = Skid(wq, bus.sel, WReady(bus.sel, e), wInt, None) /\ wq \in Buf(Slaves, {0, 1, None})
  BY DEF Cycle, Types, WriteBuf
<1> QED
  BY <1>1, SkidFields

(* An empty read buffer to which nothing is sent stays empty.              *)
LEMMA ReadQuietStep ==
  ASSUME Types, NEW e \in Env, Cycle(e), ReadQuiet, rInt = NoData
  PROVE  ReadQuiet'
BY ReadBuffer DEF ReadQuiet, SkidIs

(* An empty write buffer to which nothing is sent stays empty.             *)
LEMMA WriteQuietStep ==
  ASSUME Types, NEW e \in Env, Cycle(e), WriteQuiet, wInt = None
  PROVE  WriteQuiet'
BY WriteBuffer DEF WriteQuiet, SkidIs

(* Reads that wait go on waiting.                                          *)
LEMMA ReadsWaitStep ==
  ASSUME Types, NEW e \in Env, Cycle(e), NEW X, ReadsWait(X), rq.valid \subseteq X, bus.arready \in X \cup {None}
  PROVE  ReadsWait(X)' /\ \A m \in Masters \ X : rd'[m] = rd[m]
<1>1. ASSUME NEW m \in Masters \ X PROVE rd'[m] = rd[m]
  <2>1. m \notin rq.valid /\ bus.arready # m
    BY BusParameters
  <2> QED
    BY <2>1, ReadKept
<1> QED
  BY <1>1 DEF ReadsWait

(* Writes that wait go on waiting.                                         *)
LEMMA WritesWaitStep ==
  ASSUME Types, NEW e \in Env, Cycle(e), NEW X, WritesWait(X), bus.bvalid \subseteq X,
         bus.awready \in X \cup {None}, bus.wready \in X \cup {None}
  PROVE  WritesWait(X)' /\ \A m \in Masters \ X : wr'[m] = wr[m]
<1>1. ASSUME NEW m \in Masters \ X PROVE wr'[m] = wr[m]
  <2>1. m \notin bus.bvalid /\ bus.awready # m /\ bus.wready # m
    BY BusParameters
  <2> QED
    BY <2>1, WriteKept
<1> QED
  BY <1>1 DEF WritesWait

(* Slaves that are not asked to read stay idle.                            *)
LEMMA NoBurstsStep ==
  ASSUME Types, NEW e \in Env, Cycle(e), NEW X, NoBursts(X), bus.m_arvalid \subseteq X
  PROVE  NoBursts(X)'
<1>1. ASSUME NEW v \in Slaves \ X PROVE sl'[v].r = None /\ ~sl'[v].rvalid
  <2>1. v \notin bus.m_arvalid /\ sl[v].r = None /\ ~sl[v].rvalid
    BY DEF NoBursts
  <2> QED
    BY <2>1, BurstKept
<1> QED
  BY <1>1 DEF NoBursts

(* Slaves that are not asked to write stay idle.                           *)
LEMMA NoStoresStep ==
  ASSUME Types, NEW e \in Env, Cycle(e), NEW X, NoStores(X), bus.m_awvalid \subseteq X, wq.valid \subseteq X
  PROVE  NoStores(X)'
<1>1. ASSUME NEW v \in Slaves \ X PROVE ~sl'[v].aw /\ sl'[v].w = None /\ ~sl'[v].b
  <2>1. v \notin bus.m_awvalid /\ v \notin wq.valid /\ ~sl[v].aw /\ sl[v].w = None /\ ~sl[v].b
    BY DEF NoStores
  <2> QED
    BY <2>1, StoreKept
<1> QED
  BY <1>1 DEF NoStores

(* A slave is asked for a beat only if the buffer will be ready for it.    *)
LEMMA ReadyRaised ==
  ASSUME Types, NEW e \in Env, Cycle(e), bus'.m_rready # None
  PROVE  rEarly(e)
<1> DEFINE d == Defaults(e)
<1>1. DefaultsAre(d, e) /\ IsBus(d) /\ IsBus(bus)
  BY DefaultFields DEF Types
<1>2. d.m_rready = None /\ DOMAIN d = DOMAIN bus
  BY <1>1 DEF DefaultsAre, IsBus
<1>3. bus' = Bus(e)
  BY DEF Cycle
<1> HIDE DEF d
<1>4. CASE bus.state = "IDLE"
  BY <1>2, <1>3, <1>4 DEF Bus, STATE_IDLE, d
<1>5. CASE bus.state = "DECODE"
  <2>1. bus' = STATE_DECODE(d, e)
    BY <1>3, <1>5 DEF Bus, d
  <2>2. CASE bus.addr \in Slaves /\ read
    BY <1>1, <2>1, <2>2 DEF STATE_DECODE, Only, IsBus
  <2>3. CASE ~(bus.addr \in Slaves /\ read)
    BY <1>2, <2>1, <2>3 DEF STATE_DECODE
  <2> QED
    BY <2>2, <2>3
<1>6. CASE bus.state = "WRITE"
  BY <1>2, <1>3, <1>6 DEF Bus, STATE_WRITE, d
<1>7. CASE bus.state = "WRITE_RESP"
  BY <1>2, <1>3, <1>7 DEF Bus, STATE_WRITE_RESP, d
<1>8. CASE bus.state = "WRITE_DROP"
  BY <1>2, <1>3, <1>8 DEF Bus, STATE_WRITE_DROP, d
<1>9. CASE bus.state = "READ"
  <2>1. bus' = STATE_READ(d, e)
    BY <1>3, <1>9 DEF Bus, d
  <2>2. CASE rInt # NoData /\ rInt.last
    BY <1>2, <2>1, <2>2 DEF STATE_READ
  <2>3. CASE ~(rInt # NoData /\ rInt.last)
    BY <1>1, <2>1, <2>3 DEF STATE_READ, Only, IsBus
  <2> QED
    BY <2>2, <2>3
<1>10. CASE bus.state = "READ_DROP"
  BY <1>2, <1>3, <1>10 DEF Bus, STATE_READ_DROP, d
<1>11. CASE bus.state = "WAIT_IDLE"
  BY <1>2, <1>3, <1>11 DEF Bus, STATE_WAIT_IDLE, d
<1> QED
  BY <1>1, <1>4, <1>5, <1>6, <1>7, <1>8, <1>9, <1>10, <1>11 DEF IsBus

(* A cycle keeps that promise.                                             *)
LEMMA SkidsStep ==
  ASSUME Types, NEW e \in Env, Cycle(e), Skids
  PROVE  Skids'
<1>1. rq'.ready => rq'.temp = NoData
  <2>1. rq.ready => rq.temp = NoData
    BY DEF Skids
  <2> QED
    BY <2>1, ReadBuffer DEF SkidIs, Early
<1>2. bus'.m_rready # None => rq'.ready
  <2>1. rq'.ready = Early(rq, s_select, e.rready, rInt, NoData)
    BY ReadBuffer DEF SkidIs
  <2> QED
    BY <2>1, ReadyRaised DEF rEarly
<1> QED
  BY <1>1, <1>2 DEF Skids

(* The master that takes a beat waits for the next one.                    *)
LEMMA Moves ==
  ASSUME Types, NEW e \in Env, Cycle(e), NEW s \in Masters, rd[s] # None, bus.arready = None,
         ~(s \in rq.valid /\ e.rready /\ rq.out.last)
  PROVE  rd'[s] = IF s \in rq.valid /\ e.rready THEN [rd[s] EXCEPT !.beat = @ + 1] ELSE rd[s]
<1>1. rd'[s] = ReadMaster(s, e)
  BY DEF Cycle
<1>2. CASE s \in rq.valid /\ e.rready
  BY <1>1, <1>2 DEF ReadMaster
<1>3. CASE ~(s \in rq.valid /\ e.rready)
  <2>1. bus.arready # s
    BY BusParameters
  <2> QED
    BY <1>3, <2>1, ReadKept
<1> QED
  BY <1>2, <1>3

(* A beat is not the empty item.                                           *)
LEMMA BeatIsData ==
  ASSUME NEW r \in Reading, NEW i
  PROVE  Beat(r, i) # NoData
<1>1. r.to # None
  BY BusParameters DEF Reading
<1>2. Beat(r, i).from = r.to /\ NoData.from = None
  BY DEF Beat, NoData
<1> QED
  BY <1>1, <1>2

(* A cycle moves the beats through the buffer: none is lost, none doubled, *)
(* none overtakes another, whoever stalls.                                 *)
LEMMA BufferStep ==
  ASSUME Types, NEW e \in Env, Cycle(e), Skids, NEW s \in Masters, s_select = s, rd[s] # None, bus.arready = None,
         NEW k \in Nat, Buffered(s, k), NEW n \in Nat, rd[s].beat <= rd[s].len,
         rq.ready /\ rInt # NoData => rInt = Beat(rd[s], k) /\ n = k + 1,
         ~(rq.ready /\ rInt # NoData) => n = k,
         ~(s \in rq.valid /\ e.rready /\ rq.out.last)
  PROVE  /\ Buffered(s, n)' /\ rd'[s] # None /\ rd'[s].to = rd[s].to /\ rd'[s].len = rd[s].len /\ rd'[s].ar = rd[s].ar
         /\ rd'[s].beat <= rd[s].len
<1>1. rd[s] \in Reading /\ rd[s].beat \in 0 .. MaxLen /\ rd[s].len \in 0 .. MaxLen /\ MaxLen \in Nat
  <2>1. rd[s] \in Reading
    BY DEF Types
  <2> QED
    BY <2>1, BusParameters DEF Reading
<1> DEFINE r == rd[s]
           b == rd[s].beat
           moved == s \in rq.valid /\ e.rready
           b2 == IF moved THEN b + 1 ELSE b
<1>2. /\ rq.valid \in {{}, {s}}
      /\ rq.valid = {} => rq.temp = NoData /\ k = b
      /\ rq.valid # {} => rq.out = Beat(r, b)
      /\ rq.valid # {} /\ rq.temp = NoData => k = b + 1
      /\ rq.temp # NoData => rq.temp = Beat(r, b + 1) /\ k = b + 2
  BY DEF Buffered
<1>3. rd'[s] = IF moved THEN [r EXCEPT !.beat = b + 1] ELSE r
  BY Moves
<1>4. moved => b # r.len
  <2>1. moved => rq.out = Beat(r, b) /\ ~rq.out.last
    BY <1>2
  <2>2. Beat(r, b).last = (b = r.len)
    BY DEF Beat
  <2> QED
    BY <2>1, <2>2
<1>5. /\ rd'[s] # None /\ rd'[s].to = r.to /\ rd'[s].len = r.len /\ rd'[s].ar = r.ar /\ rd'[s].beat = b2
  <2>1. CASE moved
    <3>1. rd'[s] = [r EXCEPT !.beat = b + 1]
      BY <1>3, <2>1
    <3>2. rd'[s] # None
      <4>1. b + 1 \in 0 .. MaxLen
        BY <1>1, <1>2, <1>4, <2>1
      <4>2. rd'[s] \in Reading
        BY <1>1, <3>1, <4>1 DEF Reading
      <4> QED
        BY <4>2, NoneAssumption
    <3> QED
      BY <1>1, <2>1, <3>1, <3>2 DEF Reading
  <2>2. CASE ~moved
    BY <1>3, <2>2
  <2> QED
    BY <2>1, <2>2
<1>6. \A i : Beat(rd'[s], i) = Beat(r, i) /\ Beat(r, i) # NoData
  BY <1>1, <1>5, BeatIsData DEF Beat
<1>7. b2 <= r.len
  BY <1>1, <1>2, <1>4
<1> DEFINE q == rq'
<1>8. SkidIs(q, rq, s, e.rready, rInt, NoData) /\ (rq.ready => rq.temp = NoData)
  BY ReadBuffer DEF Skids
<1>9. /\ q.valid \in {{}, {s}}
      /\ q.valid = {} => q.temp = NoData /\ n = b2
      /\ q.valid # {} => q.out = Beat(r, b2)
      /\ q.valid # {} /\ q.temp = NoData => n = b2 + 1
      /\ q.temp # NoData => q.temp = Beat(r, b2 + 1) /\ n = b2 + 2
  <2> HIDE DEF q
  <2>0. \A i : Beat(r, i) # NoData
    BY <1>6
  <2>1. CASE rq.ready /\ (e.rready \/ s \notin rq.valid)
    <3>1. q.valid = (IF rInt = NoData THEN rq.valid \ {s} ELSE rq.valid \cup {s}) /\ q.out = rInt /\ q.temp = NoData
      BY <1>8, <2>1 DEF SkidIs
    <3>2. k = b2
      BY <1>1, <1>2, <1>8, <2>1
    <3>3. q.valid = (IF rInt = NoData THEN {} ELSE {s})
      BY <1>2, <3>1
    <3> HIDE DEF b2
    <3> QED
      BY <1>1, <2>1, <3>1, <3>2, <3>3
  <2>2. CASE rq.ready /\ ~e.rready /\ s \in rq.valid
    <3>1. q.valid = rq.valid /\ q.out = rq.out /\ q.temp = rInt
      BY <1>8, <2>2 DEF SkidIs
    <3>2. k = b + 1 /\ b2 = b /\ rq.valid = {s}
      BY <1>1, <1>2, <1>8, <2>2
    <3> QED
      BY <1>1, <1>2, <2>0, <2>2, <3>1, <3>2
  <2>3. CASE ~rq.ready /\ e.rready
    <3>1. q.valid = (IF rq.temp = NoData THEN rq.valid \ {s} ELSE rq.valid \cup {s}) /\ q.out = rq.temp /\ q.temp = NoData
      BY <1>8, <2>3 DEF SkidIs
    <3>2. n = k
      BY <2>3
    <3>3. CASE rq.temp = NoData
      <4>1. q.valid = {}
        BY <1>2, <3>1, <3>3
      <4>2. k = b2
        BY <1>1, <1>2, <2>3, <3>3
      <4> QED
        BY <3>1, <3>2, <4>1, <4>2
    <3>4. CASE rq.temp # NoData
      <4>1. q.valid = {s} /\ b2 = b + 1 /\ k = b + 2
        BY <1>1, <1>2, <2>3, <3>1, <3>4
      <4> QED
        BY <1>1, <1>2, <3>1, <3>2, <3>4, <4>1
    <3> QED
      BY <3>3, <3>4
  <2>4. CASE ~rq.ready /\ ~e.rready
    <3>1. q.valid = rq.valid /\ q.out = rq.out /\ q.temp = rq.temp
      BY <1>8, <2>4 DEF SkidIs
    <3>2. n = k /\ b2 = b
      BY <2>4
    <3> QED
      BY <1>2, <3>1, <3>2
  <2> QED
    BY <2>1, <2>2, <2>3, <2>4
<1>10. Buffered(s, n)'
  BY <1>5, <1>6, <1>9 DEF Buffered
<1> QED
  BY <1>5, <1>7, <1>10

-----------------------------------------------------------------------------
(* From phase to phase: reads.                                             *)

(* A new grant is to a master that goes on asking.                         *)
LEMMA AwaitsGrant ==
  ASSUME Types, NEW e \in Env, Cycle(e), arb.grant = None \/ acknowledge(e),
         \A m \in Masters : rd[m] # None /\ rd[m].ar => rd'[m] = rd[m],
         \A m \in Masters : wr[m] # None /\ wr[m].aw => wr'[m] = wr[m]
  PROVE  (arb.grant # None => \E s \in Masters : ReadGranted(s) \/ WriteGranted(s))'
<1>1. CASE arb'.grant = None
  BY <1>1
<1>2. CASE Asked(arb'.grant)
  <2>1. PICK m \in Masters : \/ arb'.grant = 2 * m /\ wr[m] # None /\ wr[m].aw
                             \/ arb'.grant = 2 * m + 1 /\ rd[m] # None /\ rd[m].ar
    BY <1>2 DEF Asked
  <2> QED
    BY <2>1 DEF ReadGranted, WriteGranted
<1> QED
  BY <1>1, <1>2, NewGrant

(* Before a transaction is decoded nothing moves in the buffers and at the *)
(* slaves.                                                                 *)
LEMMA QuietSide ==
  ASSUME Types, NEW e \in Env, Cycle(e), ReadQuiet, WriteQuiet, SlavesQuiet, bus.state \in {"IDLE", "DECODE"}
  PROVE  ReadQuiet' /\ WriteQuiet' /\ NoBursts({})' /\ NoStores({})'
<1>1. rInt = NoData /\ wInt = None
  BY DEF rInt, wInt
<1>2. ReadQuiet' /\ WriteQuiet'
  BY <1>1, ReadQuietStep, WriteQuietStep
<1>3. NoBursts({})'
  BY NoBurstsStep DEF SlavesQuiet
<1>4. NoStores({})'
  BY NoStoresStep DEF SlavesQuiet, WriteQuiet
<1> QED
  BY <1>2, <1>3, <1>4

(* An idle interconnect stays idle or decodes the granted transaction.     *)
LEMMA IdleStep ==
  ASSUME Types, NEW e \in Env, Cycle(e), IdleP
  PROVE  Phase'
<1> DEFINE d == Defaults(e)
<1>1. DefaultsAre(d, e) /\ IsBus(d)
  BY DefaultFields
<1>2. bus' = STATE_IDLE(d)
  BY DEF Cycle, Bus, IdleP
<1>3. /\ Ready(None, None, {None}, {}, {None}, None) /\ bus.state = "IDLE"
      /\ ReadQuiet /\ WriteQuiet /\ SlavesQuiet /\ ReadsWait({}) /\ WritesWait({})
  BY DEF IdleP
<1>4. ReadQuiet' /\ WriteQuiet' /\ NoBursts({})' /\ NoStores({})'
  BY <1>3, QuietSide
<1>5. ReadsWait({})' /\ \A m \in Masters : rd'[m] = rd[m]
  BY <1>3, ReadsWaitStep DEF Ready, ReadQuiet
<1>6. WritesWait({})' /\ \A m \in Masters : wr'[m] = wr[m]
  BY <1>3, WritesWaitStep DEF Ready
<1>7. /\ d.awready = None /\ d.wready = None /\ d.arready = None /\ d.m_bready = None /\ d.m_rready = None
      /\ d.bvalid = {} /\ d.m_awvalid = {} /\ d.m_arvalid = {} /\ d.state = "IDLE"
  BY <1>1, <1>3 DEF DefaultsAre, Ready, SlavesQuiet
<1> HIDE DEF d
<1>8. CASE arb.grant = None
  <2>1. bus' = d
    BY <1>2, <1>8 DEF STATE_IDLE
  <2>2. SlavesQuiet' /\ Ready(None, None, {None}, {}, {None}, None)' /\ bus'.state = "IDLE"
    BY <1>4, <1>7, <2>1 DEF SlavesQuiet, Ready
  <2>3. (arb.grant # None => \E s \in Masters : ReadGranted(s) \/ WriteGranted(s))'
    BY <1>5, <1>6, <1>8, AwaitsGrant
  <2>4. IdleP'
    BY <1>4, <1>5, <1>6, <2>2, <2>3 DEF IdleP
  <2> QED
    BY <2>4 DEF Phase
<1>9. CASE arb.grant # None
  <2>1. PICK s \in Masters : ReadGranted(s) \/ WriteGranted(s)
    BY <1>9 DEF IdleP
  <2>2. arb' = arb
    <3>1. rq.valid = {} /\ bus.bvalid = {}
      BY <1>3 DEF ReadQuiet, Ready
    <3>2. ~acknowledge(e)
      BY <3>1 DEF acknowledge
    <3> QED
      BY <1>9, <3>2, ArbKept
  <2>3. CASE ReadGranted(s)
    <3>1. s_select = s /\ read
      BY <2>3, Selected DEF ReadGranted
    <3>2. bus' = [d EXCEPT !.addr_valid = TRUE, !.addr = rd[s].to, !.len = rd[s].len, !.arready = s, !.state = "DECODE"]
      BY <1>2, <1>9, <3>1 DEF STATE_IDLE
    <3>3. /\ bus'.state = "DECODE" /\ Ready(s, None, {None}, {}, {None}, None)'
          /\ bus'.addr_valid /\ bus'.addr = rd[s].to /\ bus'.len = rd[s].len
          /\ bus'.m_arvalid = {} /\ bus'.m_awvalid = {}
      BY <1>1, <1>7, <3>2 DEF Ready, IsBus
    <3>4. ReadGranted(s)' /\ rd'[s] = rd[s]
      BY <1>5, <2>2, <2>3 DEF ReadGranted
    <3>5. DecodeR(s)'
      BY <1>4, <1>5, <1>6, <3>3, <3>4 DEF DecodeR, SlavesQuiet
    <3> QED
      BY <3>5 DEF Phase
  <2>4. CASE WriteGranted(s)
    <3>1. s_select = s /\ ~read
      BY <2>4, Selected DEF WriteGranted
    <3>2. bus' = [d EXCEPT !.addr_valid = TRUE, !.addr = wr[s].to, !.len = 0, !.awready = s, !.state = "DECODE"]
      BY <1>2, <1>9, <3>1 DEF STATE_IDLE
    <3>3. /\ bus'.state = "DECODE" /\ Ready(None, s, {None}, {}, {None}, None)'
          /\ bus'.addr_valid /\ bus'.addr = wr[s].to
          /\ bus'.m_arvalid = {} /\ bus'.m_awvalid = {}
      BY <1>1, <1>7, <3>2 DEF Ready, IsBus
    <3>4. WriteGranted(s)' /\ wr'[s] = wr[s]
      BY <1>6, <2>2, <2>4 DEF WriteGranted
    <3>5. DecodeW(s)'
      BY <1>4, <1>5, <1>6, <3>3, <3>4 DEF DecodeW, SlavesQuiet
    <3> QED
      BY <3>5 DEF Phase
  <2> QED
    BY <2>1, <2>3, <2>4
<1> QED
  BY <1>8, <1>9

(* A decoded read is forwarded, or answered with errors if there is no     *)
(* such slave.                                                             *)
LEMMA DecodeReadStep ==
  ASSUME Types, NEW e \in Env, Cycle(e), NEW s \in Masters, DecodeR(s), IsBus(bus)'
  PROVE  Phase'
<1> DEFINE d == Defaults(e)
<1>1. DefaultsAre(d, e) /\ IsBus(d)
  BY DefaultFields
<1>2. bus' = STATE_DECODE(d, e)
  BY DEF Cycle, Bus, DecodeR
<1>3. /\ Ready(s, None, {None}, {}, {None}, None) /\ bus.state = "DECODE" /\ ReadGranted(s)
      /\ bus.addr_valid /\ bus.addr = rd[s].to /\ bus.len = rd[s].len
      /\ ReadQuiet /\ WriteQuiet /\ SlavesQuiet /\ ReadsWait({}) /\ WritesWait({})
  BY DEF DecodeR
<1>4. ReadQuiet' /\ WriteQuiet' /\ NoBursts({})' /\ NoStores({})'
  BY <1>3, QuietSide
<1>5. ReadsWait({s})'
  <2>1. ReadsWait({s}) /\ rq.valid \subseteq {s} /\ bus.arready \in {s} \cup {None}
    BY <1>3 DEF ReadsWait, Ready, ReadQuiet
  <2> QED
    BY <2>1, ReadsWaitStep
<1>6. WritesWait({})'
  BY <1>3, WritesWaitStep DEF Ready
<1>7. /\ d.awready = None /\ d.wready = None /\ d.arready = None /\ d.m_bready = None /\ d.m_rready = None
      /\ d.bvalid = {} /\ d.m_awvalid = {} /\ d.m_arvalid = {} /\ d.addr_valid /\ d.len = bus.len
  BY <1>1, <1>3 DEF DefaultsAre, Ready, SlavesQuiet
<1> HIDE DEF d
<1>8. arb' = arb /\ s_select = s /\ read
  <2>1. rq.valid = {} /\ bus.bvalid = {}
    BY <1>3 DEF ReadQuiet, Ready
  <2>2. ~acknowledge(e)
    BY <2>1 DEF acknowledge
  <2>3. arb.grant # None
    BY <1>3, BusParameters DEF ReadGranted
  <2> QED
    BY <1>3, <2>2, <2>3, ArbKept, Selected DEF ReadGranted
<1>9. /\ rd'[s] # None /\ ~rd'[s].ar /\ rd'[s].to = rd[s].to /\ rd'[s].len = rd[s].len /\ rd'[s].beat = 0
  <2>1. rd[s] \in Reading /\ rd[s] # None /\ rd[s].beat = 0
    BY <1>3 DEF ReadGranted, Types, ReadsWait
  <2>2. rd'[s] = [rd[s] EXCEPT !.ar = rd[s].ar /\ bus.arready # s]
    BY <1>3, <2>1 DEF Cycle, ReadMaster, ReadQuiet
  <2>3. (rd[s].ar /\ bus.arready # s) = FALSE
    BY <1>3 DEF Ready
  <2>4. rd'[s] = [rd[s] EXCEPT !.ar = FALSE]
    BY <2>2, <2>3
  <2>5. rd'[s] \in Reading
    BY <2>1, <2>4 DEF Reading
  <2> QED
    BY <2>1, <2>4, <2>5, NoneAssumption DEF Reading
<1>10. CASE bus.addr \in Slaves
  <2>1. bus' = [d EXCEPT !.sel = bus.addr, !.m_rready = Only(rEarly(e), bus.sel), !.state = "READ"]
    BY <1>2, <1>8, <1>10 DEF STATE_DECODE
  <2>2. /\ bus'.state = "READ" /\ bus'.sel = rd[s].to /\ bus'.len = rd[s].len /\ bus'.addr_valid
        /\ bus'.m_arvalid = {} /\ bus'.m_awvalid = {} /\ bus'.arready = None /\ bus'.awready = None
        /\ bus'.wready = None /\ bus'.bvalid = {} /\ bus'.m_bready = None
    BY <1>1, <1>3, <1>7, <2>1 DEF IsBus
  <2>3. Ready(None, None, {None}, {}, Slaves \cup {None}, None)'
    BY <2>2 DEF Ready, IsBus
  <2>4. Reads(s)'
    BY <1>3, <1>4, <1>5, <1>6, <1>8, <1>9, <2>2 DEF Reads, ReadGranted
  <2>5. NoBursts({bus.sel})'
    BY <1>4 DEF NoBursts
  <2>6. Asking(s, bus.sel)'
    BY <1>4, <1>9, <1>10, <1>3, <2>2 DEF Asking, NoBursts
  <2>7. ReadP(s)'
    BY <1>9, <2>2, <2>3, <2>4, <2>5, <2>6 DEF ReadP
  <2> QED
    BY <2>7 DEF Phase
<1>11. CASE bus.addr \notin Slaves
  <2>1. bus' = [d EXCEPT !.state = "READ_DROP"]
    BY <1>2, <1>8, <1>11 DEF STATE_DECODE
  <2>2. /\ bus'.state = "READ_DROP" /\ bus'.len = rd[s].len
        /\ bus'.m_arvalid = {} /\ bus'.m_awvalid = {} /\ bus'.arready = None /\ bus'.awready = None
        /\ bus'.wready = None /\ bus'.bvalid = {} /\ bus'.m_bready = None /\ bus'.m_rready = None
    BY <1>1, <1>3, <1>7, <2>1 DEF IsBus
  <2>3. Ready(None, None, {None}, {}, {None}, None)'
    BY <2>2 DEF Ready
  <2>4. Reads(s)'
    BY <1>3, <1>4, <1>5, <1>6, <1>8, <1>9, <2>2 DEF Reads, ReadGranted
  <2>5. rd[s].to = Unmapped /\ rd[s].len \in Nat
    <3>1. rd[s] \in Reading
      BY <1>3 DEF ReadGranted, Types
    <3> QED
      BY <1>3, <1>11, <3>1 DEF Reading
  <2>6. Buffered(s, rd[s].len - bus.len)'
    BY <1>4, <1>9, <2>2, <2>5 DEF Buffered, ReadQuiet
  <2>7. DropR(s)'
    BY <1>4, <1>9, <2>2, <2>3, <2>4, <2>5, <2>6 DEF DropR
  <2> QED
    BY <2>7 DEF Phase
<1> QED
  BY <1>10, <1>11

(* What the phases of a read have in common stays so.                      *)
LEMMA ReadsStep ==
  ASSUME Types, NEW e \in Env, Cycle(e), NEW s \in Masters, Reads(s), rq.valid \subseteq {s}, bus.state # "WRITE",
         bus.arready = None, bus.awready = None, bus.wready = None, bus.bvalid = {},
         ~acknowledge(e), rd'[s] # None, rd'[s].ar = rd[s].ar, bus'.m_awvalid = {}
  PROVE  Reads(s)'
<1>1. arb' = arb
  BY ArbKept, BusParameters DEF Reads, ReadGranted
<1>2. ReadsWait({s})'
  BY ReadsWaitStep DEF Reads
<1>3. WritesWait({})'
  BY WritesWaitStep DEF Reads
<1>4. WriteQuiet'
  <2>1. wInt = None
    BY DEF wInt
  <2> QED
    BY <2>1, WriteQuietStep DEF Reads
<1>5. NoStores({})'
  BY NoStoresStep DEF Reads, WriteQuiet
<1> QED
  BY <1>1, <1>2, <1>3, <1>4, <1>5 DEF Reads, ReadGranted

(* While beats are still to come the transaction is not acknowledged.      *)
LEMMA InFlight ==
  ASSUME Types, NEW s \in Masters, rd[s] # None, NEW k, Buffered(s, k), k \in Nat, k <= rd[s].len, NEW e, s_select = s, read
  PROVE  /\ rd[s].beat <= rd[s].len /\ ~(s \in rq.valid /\ e.rready /\ rq.out.last) /\ ~acknowledge(e)
<1>1. rd[s].beat \in Nat /\ rd[s].len \in Nat
  <2>1. rd[s] \in Reading
    BY DEF Types
  <2> QED
    BY <2>1 DEF Reading
<1>2. rq.valid # {} => rd[s].beat < k /\ rq.out.last = (rd[s].beat = rd[s].len)
  <2>1. rq.valid # {} => rd[s].beat < k
    BY <1>1 DEF Buffered
  <2>2. rq.valid # {} => rq.out = Beat(rd[s], rd[s].beat)
    BY DEF Buffered
  <2>3. Beat(rd[s], rd[s].beat).last = (rd[s].beat = rd[s].len)
    BY DEF Beat
  <2> QED
    BY <2>1, <2>2, <2>3
<1>3. rq.valid = {} => rd[s].beat = k
  BY DEF Buffered
<1>4. s \in rq.valid => ~rq.out.last
  <2>1. rq.valid # {} => rd[s].beat # rd[s].len
    BY <1>1, <1>2
  <2>2. s \in rq.valid => rq.valid # {}
    OBVIOUS
  <2> QED
    BY <1>2, <2>1, <2>2, Zenon
<1> QED
  BY <1>1, <1>2, <1>3, <1>4 DEF acknowledge

(* A read goes on until the last beat is in the buffer.                    *)
LEMMA ReadStep ==
  ASSUME Types, NEW e \in Env, Cycle(e), Skids, NEW s \in Masters, ReadP(s), IsBus(bus)'
  PROVE  Phase'
<1> DEFINE d == Defaults(e)
<1>1. DefaultsAre(d, e) /\ IsBus(d) /\ IsBus(bus)
  BY DefaultFields DEF Types
<1>2. bus' = STATE_READ(d, e)
  BY DEF Cycle, Bus, ReadP
<1>3. PICK v \in Slaves : v = bus.sel
  BY <1>1 DEF IsBus
<1>4. /\ Ready(None, None, {None}, {}, Slaves \cup {None}, None) /\ Reads(s) /\ bus.state = "READ"
      /\ v = rd[s].to /\ bus.len = rd[s].len /\ NoBursts({v})
      /\ Asking(s, v) \/ Sending(s, v)
  BY <1>3 DEF ReadP
<1>5. s_select = s /\ read /\ rd[s] \in Reading /\ rd[s] # None
  BY <1>4, Selected DEF Reads, ReadGranted, Types
<1>6. rd[s].len \in 0 .. MaxLen /\ rd[s].beat \in 0 .. MaxLen /\ MaxLen \in Nat
  BY <1>5, BusParameters DEF Reading
<1>7. /\ d.awready = None /\ d.wready = None /\ d.arready = None /\ d.m_bready = None /\ d.m_rready = None
      /\ d.bvalid = {} /\ d.m_awvalid = {} /\ d.len = bus.len /\ d.sel = v /\ d.state = "READ"
      /\ d.m_arvalid = {w \in bus.m_arvalid : ~ArReady(w, e)}
  BY <1>1, <1>3, <1>4 DEF DefaultsAre, Ready, Reads
<1> HIDE DEF d
<1> DEFINE av == IF bus.addr_valid THEN d.m_arvalid \cup {v} ELSE d.m_arvalid
           fin == rInt # NoData /\ rInt.last
<1>8. /\ bus'.state = (IF fin THEN "WAIT_IDLE" ELSE "READ") /\ bus'.sel = v /\ bus'.len = rd[s].len
      /\ bus'.addr_valid = FALSE /\ bus'.m_arvalid = av /\ bus'.m_awvalid = {} /\ bus'.arready = None
      /\ bus'.awready = None /\ bus'.wready = None /\ bus'.bvalid = {} /\ bus'.m_bready = None
      /\ fin => bus'.m_rready = None
  <2> DEFINE fwd == [d EXCEPT !.m_arvalid = av, !.addr_valid = FALSE]
  <2>1. bus' = IF fin THEN [fwd EXCEPT !.state = "WAIT_IDLE"] ELSE [fwd EXCEPT !.m_rready = Only(rEarly(e), v)]
    BY <1>2, <1>3 DEF STATE_READ
  <2> HIDE DEF av, fin
  <2>2. CASE fin
    BY <1>1, <1>4, <1>7, <2>1, <2>2 DEF IsBus
  <2>3. CASE ~fin
    BY <1>1, <1>4, <1>7, <2>1, <2>3 DEF IsBus
  <2> QED
    BY <2>2, <2>3
<1>9. Ready(None, None, {None}, {}, Slaves \cup {None}, None)'
  BY <1>8 DEF Ready, IsBus
<1>10. ReadSide(v, e)
  BY SlaveSides
<1>11. bus.arready = None /\ bus.awready = None /\ bus.wready = None /\ bus.bvalid = {}
  BY <1>4 DEF Ready
<1>12. CASE Asking(s, v)
  <2>1. /\ sl[v].r = None /\ ~sl[v].rvalid /\ rd[s].beat = 0 /\ ReadQuiet
        /\ bus.m_arvalid = (IF bus.addr_valid THEN {} ELSE {v})
    BY <1>12 DEF Asking
  <2>2. rInt = NoData
    BY <1>3, <1>4, <2>1 DEF rInt
  <2>3. ReadQuiet' /\ rq.valid = {}
    BY <2>1, <2>2, ReadQuietStep DEF ReadQuiet
  <2>4. rd'[s] = rd[s]
    <3>1. bus.arready # s
      BY <1>11, BusParameters
    <3> QED
      BY <2>3, <3>1, ReadKept
  <2>5. Reads(s)'
    <3>1. ~acknowledge(e)
      BY <1>5, <2>3 DEF acknowledge
    <3> QED
      BY <1>4, <1>5, <1>8, <1>11, <2>3, <2>4, <3>1, ReadsStep
  <2>6. NoBursts({v})'
    BY <1>4, <2>1, NoBurstsStep
  <2>7. Asking(s, v)' \/ Sending(s, v)'
    <3>1. CASE bus.addr_valid
      <4>1. av = {v}
        BY <1>7, <2>1, <3>1
      <4>2. sl'[v].r = None /\ ~sl'[v].rvalid
        BY <1>10, <2>1, <3>1 DEF ReadSide, NextBurst, NextValid
      <4> QED
        BY <1>8, <2>1, <2>3, <2>4, <4>1, <4>2 DEF Asking
    <3>2. CASE ~bus.addr_valid /\ ArReady(v, e)
      <4>1. av = {}
        BY <1>7, <2>1, <3>2
      <4>2. sl'[v].r = [beat |-> 0, len |-> bus.len]
        BY <1>10, <2>1, <3>2 DEF ReadSide, NextBurst
      <4>3. sl'[v].r \in Burst
        BY <1>4, <1>6, <4>2 DEF Burst
      <4>4. sl'[v].r # None /\ sl'[v].r.beat = 0 /\ sl'[v].r.len = rd[s].len
        BY <1>4, <4>2, <4>3, NoneAssumption
      <4>5. Buffered(s, sl[v].r.beat)'
        BY <2>1, <2>3, <2>4, <4>4 DEF Buffered, ReadQuiet
      <4> QED
        BY <1>6, <1>8, <2>4, <4>1, <4>4, <4>5 DEF Sending
    <3>3. CASE ~bus.addr_valid /\ ~ArReady(v, e)
      <4>1. av = {v}
        BY <1>7, <2>1, <3>3
      <4>2. sl'[v].r = None /\ ~sl'[v].rvalid
        BY <1>10, <2>1, <3>3 DEF ReadSide, NextBurst, NextValid
      <4> QED
        BY <1>8, <2>1, <2>3, <2>4, <4>1, <4>2 DEF Asking
    <3> QED
      BY <3>1, <3>2, <3>3
  <2>8. bus'.state = "READ"
    BY <1>8, <2>2
  <2>9. ReadP(s)'
    BY <1>4, <1>8, <1>9, <2>4, <2>5, <2>6, <2>7, <2>8 DEF ReadP
  <2> QED
    BY <2>9 DEF Phase
<1>13. CASE Sending(s, v)
  <2>1. /\ ~bus.addr_valid /\ bus.m_arvalid = {} /\ sl[v].r # None
        /\ sl[v].r.len = rd[s].len /\ sl[v].r.beat <= rd[s].len /\ Buffered(s, sl[v].r.beat)
    BY <1>13 DEF Sending
  <2>2. sl[v].r \in Burst /\ sl[v].rvalid \in BOOLEAN
    BY <2>1 DEF Types, SlaveRec
  <2>3. PICK k \in Nat : k = sl[v].r.beat
    BY <2>2 DEF Burst
  <2>4. k <= rd[s].len /\ Buffered(s, k)
    BY <2>1, <2>3
  <2>5. rd[s].beat <= rd[s].len /\ ~(s \in rq.valid /\ e.rready /\ rq.out.last) /\ ~acknowledge(e)
    BY <1>5, <2>4, InFlight
  <2> DEFINE took == sl[v].rvalid /\ bus.m_rready = v
  <2>6. rInt = IF took THEN Beat(rd[s], k) ELSE NoData
    <3>1. Beat(rd[s], k) = [from |-> v, beat |-> k, last |-> k = sl[v].r.len]
      BY <1>4, <2>1, BusParameters DEF Beat
    <3> QED
      BY <1>3, <1>4, <2>1, <2>3, <3>1 DEF rInt
  <2>7. took => rq.ready
    BY BusParameters DEF Skids
  <2>8. Beat(rd[s], k) # NoData /\ Beat(rd[s], k).last = (k = rd[s].len)
    BY <1>5, BeatIsData DEF Beat
  <2>9. av = {} /\ rq.valid \subseteq {s}
    BY <1>7, <2>1 DEF Buffered
  <2>10. CASE ~took
    <3>1. rInt = NoData
      BY <2>6, <2>10
    <3>2. /\ Buffered(s, k)' /\ rd'[s] # None /\ rd'[s].to = rd[s].to /\ rd'[s].len = rd[s].len
          /\ rd'[s].ar = rd[s].ar
      BY <1>5, <1>11, <2>4, <2>5, <3>1, BufferStep
    <3>3. sl'[v].r = sl[v].r
      BY <1>10, <2>1, <2>10 DEF ReadSide, NextBurst
    <3>4. Sending(s, v)'
      BY <1>8, <2>1, <2>3, <2>9, <3>2, <3>3 DEF Sending
    <3>5. Reads(s)'
      BY <1>4, <1>8, <1>11, <2>5, <2>9, <3>2, ReadsStep
    <3>6. NoBursts({v})'
      BY <1>4, <2>1, NoBurstsStep
    <3>7. bus'.state = "READ"
      BY <1>8, <3>1
    <3>8. ReadP(s)'
      BY <1>4, <1>8, <1>9, <3>2, <3>4, <3>5, <3>6, <3>7 DEF ReadP
    <3> QED
      BY <3>8 DEF Phase
  <2>11. CASE took
    <3>1. rInt = Beat(rd[s], k) /\ rInt # NoData /\ rq.ready /\ k + 1 \in Nat
      BY <2>6, <2>7, <2>8, <2>11
    <3>2. /\ Buffered(s, k + 1)' /\ rd'[s] # None /\ rd'[s].to = rd[s].to /\ rd'[s].len = rd[s].len
          /\ rd'[s].ar = rd[s].ar /\ rd'[s].beat <= rd[s].len
      BY <1>5, <1>11, <2>4, <2>5, <3>1, BufferStep
    <3>3. Reads(s)'
      BY <1>4, <1>8, <1>11, <2>5, <2>9, <3>2, ReadsStep
    <3>4. NoBursts({v})'
      BY <1>4, <2>1, NoBurstsStep
    <3>5. fin = (k = rd[s].len)
      BY <2>8, <3>1
    <3>6. CASE k = rd[s].len
      <4>1. sl'[v].r = None /\ ~sl'[v].rvalid
        BY <1>10, <2>1, <2>3, <2>11, <3>6 DEF ReadSide, NextBurst, NextValid
      <4>2. NoBursts({})'
        BY <3>4, <4>1 DEF NoBursts
      <4>3. Buffered(s, rd[s].len + 1)'
        BY <3>2, <3>6
      <4>4. rq'.valid = {s}
        <5>1. rd'[s].beat # k + 1
          BY <1>6, <3>2, <3>6
        <5> QED
          BY <3>2, <5>1 DEF Buffered
      <4>5. Ready(None, None, {None}, {}, {None}, None)' /\ bus'.state = "WAIT_IDLE" /\ bus'.m_arvalid = {}
        BY <1>8, <2>9, <3>5, <3>6 DEF Ready
      <4>6. WaitR(s)'
        BY <3>3, <4>2, <4>3, <4>4, <4>5 DEF WaitR
      <4> QED
        BY <4>6 DEF Phase
    <3>7. CASE k # rd[s].len
      <4>1. sl'[v].r = [sl[v].r EXCEPT !.beat = @ + 1]
        BY <1>10, <2>1, <2>3, <2>11, <3>7 DEF ReadSide, NextBurst
      <4>2. k + 1 \in 0 .. MaxLen /\ k + 1 <= rd[s].len
        BY <1>6, <2>4, <3>7
      <4>3. sl'[v].r.beat = k + 1 /\ sl'[v].r.len = rd[s].len /\ sl'[v].r \in Burst
        BY <2>1, <2>2, <2>3, <4>1, <4>2 DEF Burst
      <4>4. sl'[v].r # None
        BY <4>3, NoneAssumption
      <4>5. Sending(s, v)'
        BY <1>8, <2>9, <3>2, <4>2, <4>3, <4>4 DEF Sending
      <4>6. bus'.state = "READ"
        BY <1>8, <3>5, <3>7
      <4>7. ReadP(s)'
        BY <1>4, <1>8, <1>9, <3>2, <3>3, <3>4, <4>5, <4>6 DEF ReadP
      <4> QED
        BY <4>7 DEF Phase
    <3> QED
      BY <3>6, <3>7
  <2> QED
    BY <2>10, <2>11
<1> QED
  BY <1>4, <1>12, <1>13

(* The errors go on until the last one is in the buffer; the eight-bit     *)
(* count does not wrap before.                                             *)
LEMMA DropReadStep ==
  ASSUME Types, NEW e \in Env, Cycle(e), Skids, NEW s \in Masters, DropR(s), IsBus(bus)'
  PROVE  Phase'
<1> DEFINE d == Defaults(e)
<1>1. DefaultsAre(d, e) /\ IsBus(d) /\ IsBus(bus)
  BY DefaultFields DEF Types
<1>2. bus' = STATE_READ_DROP(d)
  BY DEF Cycle, Bus, DropR
<1>3. /\ Ready(None, None, {None}, {}, {None}, None) /\ Reads(s) /\ bus.state = "READ_DROP"
      /\ NoBursts({}) /\ bus.m_arvalid = {}
      /\ rd[s].to = Unmapped /\ bus.len <= rd[s].len /\ Buffered(s, rd[s].len - bus.len)
  BY DEF DropR
<1>4. s_select = s /\ read /\ rd[s] \in Reading /\ rd[s] # None
  BY <1>3, Selected DEF Reads, ReadGranted, Types
<1>5. rd[s].len \in 0 .. MaxLen /\ rd[s].beat \in 0 .. MaxLen /\ MaxLen \in Nat /\ bus.len \in 0 .. 255
  BY <1>1, <1>4, BusParameters DEF Reading, IsBus
<1>6. /\ d.awready = None /\ d.wready = None /\ d.arready = None /\ d.m_bready = None /\ d.m_rready = None
      /\ d.bvalid = {} /\ d.m_awvalid = {} /\ d.len = bus.len /\ d.state = "READ_DROP" /\ d.m_arvalid = {}
  BY <1>1, <1>3 DEF DefaultsAre, Ready, Reads
<1> HIDE DEF d
<1>7. /\ bus'.state = (IF rq.ready /\ bus.len = 0 THEN "WAIT_IDLE" ELSE "READ_DROP")
      /\ bus'.len = (IF rq.ready THEN (bus.len - 1) % 256 ELSE bus.len)
      /\ bus'.m_arvalid = {} /\ bus'.m_awvalid = {} /\ bus'.arready = None
      /\ bus'.awready = None /\ bus'.wready = None /\ bus'.bvalid = {} /\ bus'.m_bready = None /\ bus'.m_rready = None
  <2> DEFINE ln == (bus.len - 1) % 256
  <2>1. bus' = IF rq.ready THEN [d EXCEPT !.len = ln, !.state = IF bus.len = 0 THEN "WAIT_IDLE" ELSE d.state] ELSE d
    BY <1>1, <1>2 DEF STATE_READ_DROP, IsBus
  <2> HIDE DEF ln
  <2>2. CASE rq.ready
    <3>1. bus'.len = ln
      BY <1>1, <2>1, <2>2 DEF IsBus
    <3>2. /\ bus'.state = (IF bus.len = 0 THEN "WAIT_IDLE" ELSE "READ_DROP")
          /\ bus'.m_arvalid = {} /\ bus'.m_awvalid = {} /\ bus'.arready = None
          /\ bus'.awready = None /\ bus'.wready = None /\ bus'.bvalid = {} /\ bus'.m_bready = None /\ bus'.m_rready = None
      BY <1>1, <1>6, <2>1, <2>2 DEF IsBus
    <3> QED
      BY <2>2, <3>1, <3>2 DEF ln
  <2>3. CASE ~rq.ready
    BY <1>6, <2>1, <2>3
  <2> QED
    BY <2>2, <2>3
<1>8. Ready(None, None, {None}, {}, {None}, None)'
  BY <1>7 DEF Ready
<1>9. bus.arready = None /\ bus.awready = None /\ bus.wready = None /\ bus.bvalid = {}
  BY <1>3 DEF Ready
<1>10. PICK k \in Nat : k = rd[s].len - bus.len
  BY <1>3, <1>5
<1>11. k <= rd[s].len /\ Buffered(s, k) /\ rq.valid \subseteq {s}
  BY <1>3, <1>5, <1>10 DEF Buffered
<1>12. rd[s].beat <= rd[s].len /\ ~(s \in rq.valid /\ e.rready /\ rq.out.last) /\ ~acknowledge(e)
  BY <1>4, <1>11, InFlight
<1>13. rInt = Beat(rd[s], k) /\ rInt # NoData
  <2>1. Beat(rd[s], k) = [from |-> Unmapped, beat |-> 0, last |-> k = rd[s].len]
    BY <1>3 DEF Beat
  <2>2. (k = rd[s].len) = (bus.len = 0)
    BY <1>5, <1>10
  <2>3. rInt = [from |-> Unmapped, beat |-> 0, last |-> bus.len = 0]
    BY <1>3 DEF rInt
  <2> QED
    BY <1>4, <2>1, <2>2, <2>3, BeatIsData
<1>14. NoBursts({})'
  BY <1>3, NoBurstsStep
<1>15. PICK n \in Nat : n = IF rq.ready THEN k + 1 ELSE k
  OBVIOUS
<1>16. /\ Buffered(s, n)' /\ rd'[s] # None /\ rd'[s].to = rd[s].to /\ rd'[s].len = rd[s].len
       /\ rd'[s].ar = rd[s].ar /\ rd'[s].beat <= rd[s].len
  <2>1. rq.ready /\ rInt # NoData => rInt = Beat(rd[s], k) /\ n = k + 1
    BY <1>13, <1>15
  <2>2. ~(rq.ready /\ rInt # NoData) => n = k
    BY <1>13, <1>15
  <2> QED
    BY <1>4, <1>9, <1>11, <1>12, <2>1, <2>2, BufferStep
<1>17. Reads(s)'
  BY <1>3, <1>7, <1>9, <1>11, <1>12, <1>16, ReadsStep
<1>18. CASE rq.ready /\ bus.len = 0
  <2>1. n = rd[s].len + 1
    BY <1>5, <1>10, <1>15, <1>18
  <2>2. Buffered(s, rd[s].len + 1)'
    BY <1>16, <2>1
  <2>3. rq'.valid = {s}
    <3>1. rd'[s].beat # n
      BY <1>5, <1>16, <2>1
    <3> QED
      BY <1>16, <3>1 DEF Buffered
  <2>4. bus'.state = "WAIT_IDLE"
    BY <1>7, <1>18
  <2>5. WaitR(s)'
    BY <1>7, <1>8, <1>14, <1>17, <2>2, <2>3, <2>4 DEF WaitR
  <2> QED
    BY <2>5 DEF Phase
<1>19. CASE ~(rq.ready /\ bus.len = 0)
  <2>1. bus'.len <= rd[s].len /\ n = rd[s].len - bus'.len
    <3>1. CASE rq.ready
      <4>1. bus.len > 0 /\ (bus.len - 1) % 256 = bus.len - 1
        BY <1>5, <1>19, <3>1
      <4> QED
        BY <1>3, <1>5, <1>7, <1>10, <1>15, <3>1, <4>1, SMTT(30)
    <3>2. CASE ~rq.ready
      BY <1>3, <1>7, <1>10, <1>15, <3>2
    <3> QED
      BY <3>1, <3>2
  <2>2. Buffered(s, rd[s].len - bus.len)'
    BY <1>16, <2>1
  <2>3. bus'.state = "READ_DROP"
    BY <1>7, <1>19
  <2>4. DropR(s)'
    BY <1>3, <1>7, <1>8, <1>14, <1>16, <1>17, <2>1, <2>2, <2>3 DEF DropR
  <2> QED
    BY <2>4 DEF Phase
<1> QED
  BY <1>18, <1>19

(* A read ends with the master's taking the last beat.                     *)
LEMMA WaitReadStep ==
  ASSUME Types, NEW e \in Env, Cycle(e), Skids, NEW s \in Masters, WaitR(s), IsBus(bus)'
  PROVE  Phase'
<1> DEFINE d == Defaults(e)
<1>1. DefaultsAre(d, e) /\ IsBus(d) /\ IsBus(bus)
  BY DefaultFields DEF Types
<1>2. bus' = STATE_WAIT_IDLE(d, e)
  BY DEF Cycle, Bus, WaitR
<1>3. /\ Ready(None, None, {None}, {}, {None}, None) /\ Reads(s) /\ bus.state = "WAIT_IDLE"
      /\ NoBursts({}) /\ bus.m_arvalid = {} /\ rq.valid = {s} /\ Buffered(s, rd[s].len + 1)
  BY DEF WaitR
<1>4. s_select = s /\ read /\ rd[s] \in Reading /\ rd[s] # None /\ arb.grant # None
  BY <1>3, Selected, BusParameters DEF Reads, ReadGranted, Types
<1>5. rd[s].len \in Nat /\ rd[s].beat \in Nat
  BY <1>4 DEF Reading
<1>6. /\ d.awready = None /\ d.wready = None /\ d.arready = None /\ d.m_bready = None /\ d.m_rready = None
      /\ d.bvalid = {} /\ d.m_awvalid = {} /\ d.state = "WAIT_IDLE" /\ d.m_arvalid = {}
  BY <1>1, <1>3 DEF DefaultsAre, Ready, Reads
<1> HIDE DEF d
<1>7. /\ bus'.state = (IF acknowledge(e) THEN "IDLE" ELSE "WAIT_IDLE")
      /\ bus'.m_arvalid = {} /\ bus'.m_awvalid = {} /\ bus'.arready = None
      /\ bus'.awready = None /\ bus'.wready = None /\ bus'.bvalid = {} /\ bus'.m_bready = None /\ bus'.m_rready = None
  BY <1>1, <1>2, <1>4, <1>6 DEF STATE_WAIT_IDLE, IsBus
<1>8. Ready(None, None, {None}, {}, {None}, None)'
  BY <1>7 DEF Ready
<1>9. bus.arready = None /\ bus.awready = None /\ bus.wready = None /\ bus.bvalid = {}
  BY <1>3 DEF Ready
<1>10. NoBursts({})'
  BY <1>3, NoBurstsStep
<1>11. rInt = NoData /\ wInt = None
  BY <1>3 DEF rInt, wInt
<1>12. /\ rd[s].beat <= rd[s].len /\ rq.out.last = (rd[s].beat = rd[s].len)
       /\ (rq.temp = NoData) = (rd[s].beat = rd[s].len)
  <2>1. /\ rq.out = Beat(rd[s], rd[s].beat)
        /\ rq.temp = NoData => rd[s].len + 1 = rd[s].beat + 1
        /\ rq.temp # NoData => rd[s].len + 1 = rd[s].beat + 2
    BY <1>3 DEF Buffered
  <2>2. Beat(rd[s], rd[s].beat).last = (rd[s].beat = rd[s].len)
    BY DEF Beat
  <2>3. rd[s].beat <= rd[s].len
    BY <1>5, <2>1
  <2>4. rq.temp = NoData <=> rd[s].beat = rd[s].len
    BY <1>5, <2>1
  <2> QED
    BY <2>1, <2>2, <2>3, <2>4
<1>13. acknowledge(e) = (e.rready /\ rq.out.last)
  <2>1. s \in rq.valid /\ rq.out.last \in BOOLEAN /\ e.rready \in BOOLEAN
    BY <1>3, <1>12, EnvBits
  <2> QED
    BY <1>4, <2>1 DEF acknowledge
<1>14. CASE acknowledge(e)
  <2>1. e.rready /\ rq.out.last /\ rq.temp = NoData
    BY <1>12, <1>13, <1>14
  <2>2. rd'[s] = None
    BY <1>3, <1>4, <2>1 DEF Cycle, ReadMaster
  <2>3. ReadsWait({s})' /\ \A m \in Masters \ {s} : rd'[m] = rd[m]
    BY <1>3, <1>9, ReadsWaitStep DEF Reads
  <2>4. WritesWait({})' /\ \A m \in Masters : wr'[m] = wr[m]
    BY <1>3, <1>9, WritesWaitStep DEF Reads
  <2>5. ReadsWait({})'
    BY <2>2, <2>3 DEF ReadsWait
  <2>6. ReadQuiet'
    <3>1. SkidIs(rq', rq, s, e.rready, rInt, NoData)
      BY <1>4, ReadBuffer
    <3>2. rq'.valid = rq.valid \ {s} /\ rq'.temp = NoData
      BY <1>11, <2>1, <3>1 DEF SkidIs
    <3> QED
      BY <1>3, <3>2 DEF ReadQuiet
  <2>7. WriteQuiet' /\ NoStores({})'
    BY <1>3, <1>11, WriteQuietStep, NoStoresStep DEF Reads, WriteQuiet
  <2>8. SlavesQuiet' /\ bus'.state = "IDLE"
    BY <1>7, <1>10, <1>14, <2>7 DEF SlavesQuiet
  <2>9. (arb.grant # None => \E m \in Masters : ReadGranted(m) \/ WriteGranted(m))'
    <3>1. \A m \in Masters : rd[m] # None /\ rd[m].ar => rd'[m] = rd[m]
      BY <1>3, <2>3 DEF Reads
    <3> QED
      BY <1>14, <2>4, <3>1, AwaitsGrant
  <2>10. IdleP'
    BY <1>8, <2>4, <2>5, <2>6, <2>7, <2>8, <2>9 DEF IdleP
  <2> QED
    BY <2>10 DEF Phase
<1>15. CASE ~acknowledge(e)
  <2>1. ~(s \in rq.valid /\ e.rready /\ rq.out.last)
    BY <1>13, <1>15
  <2>2. PICK k \in Nat : k = rd[s].len + 1
    BY <1>5
  <2>3. /\ Buffered(s, k)' /\ rd'[s] # None /\ rd'[s].to = rd[s].to /\ rd'[s].len = rd[s].len
        /\ rd'[s].ar = rd[s].ar /\ rd'[s].beat <= rd[s].len
    <3>1. Buffered(s, k)
      BY <1>3, <2>2
    <3> QED
      BY <1>4, <1>9, <1>11, <1>12, <2>1, <3>1, BufferStep
  <2>4. rq'.valid = {s}
    <3>1. rd'[s].beat # k
      BY <1>5, <2>2, <2>3
    <3> QED
      BY <2>3, <3>1 DEF Buffered
  <2>5. Reads(s)'
    <3>1. rq.valid \subseteq {s}
      BY <1>3
    <3> QED
      BY <1>3, <1>7, <1>9, <1>15, <2>3, <3>1, ReadsStep
  <2>6. Buffered(s, rd[s].len + 1)'
    BY <2>2, <2>3
  <2>7. WaitR(s)'
    BY <1>7, <1>8, <1>10, <1>15, <2>4, <2>5, <2>6 DEF WaitR
  <2> QED
    BY <2>7 DEF Phase
<1> QED
  BY <1>14, <1>15

-----------------------------------------------------------------------------
(* From phase to phase: writes.                                            *)

(* A decoded write is forwarded, or dropped if there is no such slave.     *)
LEMMA DecodeWriteStep ==
  ASSUME Types, NEW e \in Env, Cycle(e), NEW s \in Masters, DecodeW(s), IsBus(bus)'
  PROVE  Phase'
<1> DEFINE d == Defaults(e)
<1>1. DefaultsAre(d, e) /\ IsBus(d)
  BY DefaultFields
<1>2. bus' = STATE_DECODE(d, e)
  BY DEF Cycle, Bus, DecodeW
<1>3. /\ Ready(None, s, {None}, {}, {None}, None) /\ bus.state = "DECODE" /\ WriteGranted(s)
      /\ bus.addr_valid /\ bus.addr = wr[s].to
      /\ ReadQuiet /\ WriteQuiet /\ SlavesQuiet /\ ReadsWait({}) /\ WritesWait({})
  BY DEF DecodeW
<1>4. ReadQuiet' /\ WriteQuiet' /\ NoBursts({})' /\ NoStores({})'
  BY <1>3, QuietSide
<1>5. ReadsWait({})'
  BY <1>3, ReadsWaitStep DEF Ready, ReadQuiet
<1>6. WritesWait({s})'
  <2>1. /\ WritesWait({s}) /\ bus.bvalid \subseteq {s} /\ bus.awready \in {s} \cup {None}
        /\ bus.wready \in {s} \cup {None}
    BY <1>3 DEF WritesWait, Ready
  <2> QED
    BY <2>1, WritesWaitStep
<1>7. /\ d.awready = None /\ d.wready = None /\ d.arready = None /\ d.m_bready = None /\ d.m_rready = None
      /\ d.bvalid = {} /\ d.m_awvalid = {} /\ d.m_arvalid = {} /\ d.addr_valid
  BY <1>1, <1>3 DEF DefaultsAre, Ready, SlavesQuiet
<1> HIDE DEF d
<1>8. arb' = arb /\ s_select = s /\ ~read
  <2>1. rq.valid = {} /\ bus.bvalid = {}
    BY <1>3 DEF ReadQuiet, Ready
  <2>2. ~acknowledge(e)
    BY <2>1 DEF acknowledge
  <2>3. arb.grant # None
    BY <1>3, BusParameters DEF WriteGranted
  <2> QED
    BY <1>3, <2>2, <2>3, ArbKept, Selected DEF WriteGranted
<1>9. /\ wr'[s] # None /\ ~wr'[s].aw /\ wr'[s].w /\ wr'[s].to = wr[s].to
  <2>1. wr[s] \in Writing /\ wr[s] # None /\ wr[s].w
    BY <1>3 DEF WriteGranted, Types, WritesWait
  <2>2. wr'[s] = [wr[s] EXCEPT !.aw = wr[s].aw /\ bus.awready # s, !.w = wr[s].w /\ bus.wready # s]
    BY <1>3, <2>1 DEF Cycle, WriteMaster, Ready
  <2>3. (wr[s].aw /\ bus.awready # s) = FALSE /\ (wr[s].w /\ bus.wready # s) = TRUE
    BY <1>3, <2>1, BusParameters DEF Ready
  <2>4. wr'[s] = [[wr[s] EXCEPT !.aw = FALSE] EXCEPT !.w = TRUE]
    BY <2>2, <2>3
  <2>5. [wr[s] EXCEPT !.aw = FALSE] \in Writing
    BY <2>1 DEF Writing
  <2>6. wr'[s] \in Writing
    BY <2>4, <2>5 DEF Writing
  <2> QED
    BY <2>1, <2>4, <2>6, NoneAssumption DEF Writing
<1>10. CASE bus.addr \in Slaves
  <2>1. bus' = [d EXCEPT !.sel = bus.addr, !.wready = Only(wEarly(e), s), !.state = "WRITE"]
    BY <1>2, <1>8, <1>10 DEF STATE_DECODE
  <2>2. /\ bus'.state = "WRITE" /\ bus'.sel = wr[s].to /\ bus'.addr_valid
        /\ bus'.m_arvalid = {} /\ bus'.m_awvalid = {} /\ bus'.arready = None /\ bus'.awready = None
        /\ bus'.wready = Only(wEarly(e), s) /\ bus'.bvalid = {} /\ bus'.m_bready = None /\ bus'.m_rready = None
    BY <1>1, <1>3, <1>7, <2>1 DEF IsBus
  <2>3. Ready(None, None, {s, None}, {}, {None}, None)'
    BY <2>2 DEF Ready, Only
  <2>4. Writes(s)'
    BY <1>3, <1>4, <1>5, <1>6, <1>8, <1>9, <2>2 DEF Writes, WriteGranted
  <2>5. NoStores({bus.sel})'
    BY <1>4 DEF NoStores
  <2>6. ~sl'[bus'.sel].aw /\ sl'[bus'.sel].w = None /\ ~sl'[bus'.sel].b
    BY <1>3, <1>4, <1>10, <2>2 DEF NoStores
  <2>7. Addressed(bus.sel)'
    BY <2>2, <2>6 DEF Addressed
  <2>8. bus'.wready # None => wq'.ready
    <3>1. wq'.ready = Early(wq, bus.sel, WReady(bus.sel, e), wInt, None)
      BY WriteBuffer DEF SkidIs
    <3> QED
      BY <2>2, <3>1 DEF Only, wEarly
  <2>9. WriteP(s)'
    BY <1>4, <1>9, <2>2, <2>3, <2>4, <2>5, <2>6, <2>7, <2>8 DEF WriteP
  <2> QED
    BY <2>9 DEF Phase
<1>11. CASE bus.addr \notin Slaves
  <2>1. bus' = [d EXCEPT !.bresp = "DECERR", !.wready = s, !.state = "WRITE_DROP"]
    BY <1>2, <1>8, <1>11 DEF STATE_DECODE
  <2>2. /\ bus'.state = "WRITE_DROP" /\ bus'.bresp = "DECERR"
        /\ bus'.m_arvalid = {} /\ bus'.m_awvalid = {} /\ bus'.arready = None /\ bus'.awready = None
        /\ bus'.wready = s /\ bus'.bvalid = {} /\ bus'.m_bready = None /\ bus'.m_rready = None
    BY <1>1, <1>3, <1>7, <2>1 DEF IsBus
  <2>3. Ready(None, None, {s}, {}, {None}, None)'
    BY <2>2 DEF Ready
  <2>4. Writes(s)'
    BY <1>3, <1>4, <1>5, <1>6, <1>8, <1>9, <2>2 DEF Writes, WriteGranted
  <2>5. wr[s].to = Unmapped
    <3>1. bus.addr \in Slaves \cup {Unmapped}
      BY DEF Types, IsBus
    <3> QED
      BY <1>3, <1>11, <3>1
  <2>6. DropW(s)'
    BY <1>4, <1>9, <2>2, <2>3, <2>4, <2>5 DEF DropW
  <2> QED
    BY <2>6 DEF Phase
<1> QED
  BY <1>10, <1>11

(* What the phases of a write have in common stays so.                     *)
LEMMA WritesStep ==
  ASSUME Types, NEW e \in Env, Cycle(e), NEW s \in Masters, Writes(s), bus.state \notin {"READ", "READ_DROP"},
         bus.arready = None, bus.awready = None, bus.wready \in {s, None}, bus.bvalid \subseteq {s},
         ~acknowledge(e), wr'[s] # None, ~wr'[s].aw, bus'.m_arvalid = {}
  PROVE  Writes(s)'
<1>1. arb' = arb
  BY ArbKept, BusParameters DEF Writes, WriteGranted
<1>2. ReadsWait({})'
  BY ReadsWaitStep DEF Writes, ReadQuiet
<1>3. WritesWait({s})'
  BY WritesWaitStep DEF Writes
<1>4. ReadQuiet'
  <2>1. rInt = NoData
    BY DEF rInt
  <2> QED
    BY <2>1, ReadQuietStep DEF Writes
<1>5. NoBursts({})'
  BY NoBurstsStep DEF Writes
<1> QED
  BY <1>1, <1>2, <1>3, <1>4, <1>5 DEF Writes, WriteGranted

(* The word leaves the master with the handshake and not before.           *)
LEMMA WordHandedOver ==
  ASSUME Types, NEW e \in Env, Cycle(e), NEW s \in Masters, wr[s] # None, ~wr[s].aw, bus.awready = None,
         ~(s \in bus.bvalid /\ e.bready)
  PROVE  /\ wr'[s] # None /\ ~wr'[s].aw /\ wr'[s].to = wr[s].to /\ wr'[s].data = wr[s].data
         /\ wr'[s].w = (wr[s].w /\ bus.wready # s)
<1>1. wr[s] \in Writing
  BY DEF Types
<1>2. wr'[s] = [wr[s] EXCEPT !.aw = wr[s].aw /\ bus.awready # s, !.w = wr[s].w /\ bus.wready # s]
  BY <1>1 DEF Cycle, WriteMaster
<1>3. (wr[s].aw /\ bus.awready # s) = FALSE
  OBVIOUS
<1>4. PICK b \in BOOLEAN : b = (wr[s].w /\ bus.wready # s)
  OBVIOUS
<1>5. wr'[s] = [[wr[s] EXCEPT !.aw = FALSE] EXCEPT !.w = b]
  BY <1>2, <1>3, <1>4
<1>6. [wr[s] EXCEPT !.aw = FALSE] \in Writing
  BY <1>1 DEF Writing
<1>7. wr'[s] \in Writing
  BY <1>5, <1>6 DEF Writing
<1>8. wr'[s].w = b /\ ~wr'[s].aw /\ wr'[s].to = wr[s].to /\ wr'[s].data = wr[s].data
  BY <1>1, <1>5 DEF Writing
<1> QED
  BY <1>4, <1>7, <1>8, NoneAssumption

(* The address reaches the slave once.                                     *)
LEMMA AddressStep ==
  ASSUME Types, NEW e \in Env, Cycle(e), NEW v \in Slaves, Addressed(v), ~sl[v].b, bus'.addr_valid = FALSE,
         bus'.m_awvalid = (IF bus.addr_valid THEN {w \in bus.m_awvalid : ~AwReady(w, e)} \cup {v}
                                             ELSE {w \in bus.m_awvalid : ~AwReady(w, e)})
  PROVE  Addressed(v)'
<1>1. /\ sl'[v].aw = (sl[v].aw \/ (v \in bus.m_awvalid /\ AwReady(v, e)))
  BY SlaveSides DEF WriteSide
<1>2. CASE bus.addr_valid /\ bus.m_awvalid = {} /\ ~sl[v].aw
  <2>1. bus'.m_awvalid = {v} /\ ~sl'[v].aw
    BY <1>1, <1>2
  <2> QED
    BY <2>1 DEF Addressed
<1>3. CASE ~bus.addr_valid /\ bus.m_awvalid = {v} /\ ~sl[v].aw /\ AwReady(v, e)
  <2>1. bus'.m_awvalid = {} /\ sl'[v].aw
    BY <1>1, <1>3
  <2> QED
    BY <2>1 DEF Addressed
<1>4. CASE ~bus.addr_valid /\ bus.m_awvalid = {v} /\ ~sl[v].aw /\ ~AwReady(v, e)
  <2>1. bus'.m_awvalid = {v} /\ ~sl'[v].aw
    BY <1>1, <1>4
  <2> QED
    BY <2>1 DEF Addressed
<1>5. CASE ~bus.addr_valid /\ bus.m_awvalid = {} /\ sl[v].aw
  <2>1. bus'.m_awvalid = {} /\ sl'[v].aw
    BY <1>1, <1>5
  <2> QED
    BY <2>1 DEF Addressed
<1> QED
  BY <1>2, <1>3, <1>4, <1>5 DEF Addressed

(* A write waits for the word and puts it into the buffer.                 *)
LEMMA WriteStep ==
  ASSUME Types, NEW e \in Env, Cycle(e), NEW s \in Masters, WriteP(s), IsBus(bus)'
  PROVE  Phase'
<1> DEFINE d == Defaults(e)
<1>1. DefaultsAre(d, e) /\ IsBus(d) /\ IsBus(bus)
  BY DefaultFields DEF Types
<1>2. bus' = STATE_WRITE(d, e)
  BY DEF Cycle, Bus, WriteP
<1>3. PICK v \in Slaves : v = bus.sel
  BY <1>1 DEF IsBus
<1>4. /\ bus.state = "WRITE" /\ Ready(None, None, {s, None}, {}, {None}, None) /\ Writes(s)
      /\ wr[s].w /\ v = wr[s].to /\ NoStores({v}) /\ WriteQuiet
      /\ Addressed(v) /\ sl[v].w = None /\ ~sl[v].b
      /\ bus.wready # None => wq.ready
  BY <1>3 DEF WriteP
<1>5. s_select = s /\ ~read /\ wr[s] \in Writing /\ wr[s] # None /\ ~wr[s].aw
  BY <1>4, Selected DEF Writes, WriteGranted, Types
<1>6. /\ d.awready = None /\ d.wready = None /\ d.arready = None /\ d.m_bready = None /\ d.m_rready = None
      /\ d.bvalid = {} /\ d.m_arvalid = {} /\ d.sel = v /\ d.state = "WRITE"
      /\ d.m_awvalid = {w \in bus.m_awvalid : ~AwReady(w, e)}
  BY <1>1, <1>3, <1>4 DEF DefaultsAre, Ready, Writes
<1> HIDE DEF d
<1> DEFINE av == IF bus.addr_valid THEN d.m_awvalid \cup {v} ELSE d.m_awvalid
<1>7. wHandshake = (bus.wready = s)
  BY <1>4, <1>5 DEF wHandshake
<1>8. /\ bus'.state = (IF bus.wready = s THEN "WRITE_RESP" ELSE "WRITE") /\ bus'.sel = v
      /\ bus'.addr_valid = FALSE /\ bus'.m_awvalid = av /\ bus'.m_arvalid = {} /\ bus'.arready = None
      /\ bus'.awready = None /\ bus'.bvalid = {} /\ bus'.m_rready = None
      /\ bus'.wready = (IF bus.wready = s THEN None ELSE Only(wEarly(e), s))
      /\ bus'.m_bready = (IF bus.wready = s THEN v ELSE None)
  <2> DEFINE fwd == [d EXCEPT !.m_awvalid = av, !.addr_valid = FALSE]
  <2>1. bus' = IF bus.wready = s THEN [fwd EXCEPT !.m_bready = v, !.state = "WRITE_RESP"]
                                 ELSE [fwd EXCEPT !.wready = Only(wEarly(e), s)]
    BY <1>2, <1>3, <1>5, <1>7 DEF STATE_WRITE
  <2> HIDE DEF av
  <2>2. CASE bus.wready = s
    BY <1>1, <1>6, <2>1, <2>2 DEF IsBus
  <2>3. CASE bus.wready # s
    BY <1>1, <1>6, <2>1, <2>3 DEF IsBus
  <2> QED
    BY <2>2, <2>3
<1>9. bus.arready = None /\ bus.awready = None /\ bus.wready \in {s, None} /\ bus.bvalid = {}
  BY <1>4 DEF Ready
<1>10. ~acknowledge(e)
  BY <1>4, <1>9 DEF acknowledge, Writes, ReadQuiet
<1>11. /\ wr'[s] # None /\ ~wr'[s].aw /\ wr'[s].to = wr[s].to /\ wr'[s].data = wr[s].data
       /\ wr'[s].w = (wr[s].w /\ bus.wready # s)
  BY <1>5, <1>9, WordHandedOver
<1>12. Writes(s)'
  BY <1>4, <1>8, <1>9, <1>10, <1>11, WritesStep
<1>13. NoStores({v})'
  <2>1. bus.m_awvalid \subseteq {v} /\ wq.valid \subseteq {v}
    BY <1>4 DEF Addressed, WriteQuiet
  <2> QED
    BY <1>4, <2>1, NoStoresStep
<1>14. Addressed(v)'
  BY <1>4, <1>6, <1>8, AddressStep
<1>15. sl'[v].w = None /\ ~sl'[v].b
  BY <1>4, SlaveSides DEF WriteSide, WriteQuiet
<1>16. CASE bus.wready = s
  <2>1. wInt = wr[s].data /\ wInt # None
    <3>1. wr[s].data \in {0, 1}
      BY <1>5 DEF Writing
    <3> QED
      BY <1>4, <1>5, <1>7, <1>16, <3>1, BusParameters DEF wInt
  <2>2. wq.ready /\ wq.valid = {} /\ wq.temp = None
    BY <1>4, <1>16, BusParameters DEF WriteQuiet
  <2>3. wq'.valid = {v} /\ wq'.out = wr[s].data /\ wq'.temp = None
    BY <1>3, <2>1, <2>2, WriteBuffer DEF SkidIs
  <2>4. Ready(None, None, {None}, {}, {None}, bus.sel)' /\ bus'.state = "WRITE_RESP"
    BY <1>8, <1>16 DEF Ready
  <2>5. RespW(s)'
    BY <1>4, <1>8, <1>11, <1>12, <1>13, <1>14, <1>15, <1>16, <2>3, <2>4 DEF RespW
  <2> QED
    BY <2>5 DEF Phase
<1>17. CASE bus.wready # s
  <2>1. wInt = None
    BY <1>7, <1>17 DEF wInt
  <2>2. WriteQuiet'
    BY <1>4, <2>1, WriteQuietStep
  <2>3. bus'.wready # None => wq'.ready
    <3>1. wq'.ready = Early(wq, bus.sel, WReady(bus.sel, e), wInt, None)
      BY WriteBuffer DEF SkidIs
    <3> QED
      BY <1>8, <1>17, <3>1 DEF Only, wEarly
  <2>4. Ready(None, None, {s, None}, {}, {None}, None)' /\ bus'.state = "WRITE"
    BY <1>8, <1>17 DEF Ready, Only
  <2>5. WriteP(s)'
    BY <1>4, <1>8, <1>11, <1>12, <1>13, <1>14, <1>15, <1>17, <2>2, <2>3, <2>4 DEF WriteP
  <2> QED
    BY <2>5 DEF Phase
<1> QED
  BY <1>16, <1>17

(* The word reaches the slave, which answers after it has written it.      *)
LEMMA ResponseStep ==
  ASSUME Types, NEW e \in Env, Cycle(e), NEW s \in Masters, RespW(s), IsBus(bus)'
  PROVE  Phase'
<1> DEFINE d == Defaults(e)
<1>1. DefaultsAre(d, e) /\ IsBus(d) /\ IsBus(bus)
  BY DefaultFields DEF Types
<1>2. bus' = STATE_WRITE_RESP(d)
  BY DEF Cycle, Bus, RespW
<1>3. PICK v \in Slaves : v = bus.sel
  BY <1>1 DEF IsBus
<1>4. /\ bus.state = "WRITE_RESP" /\ Ready(None, None, {None}, {}, {None}, v) /\ Writes(s)
      /\ ~wr[s].w /\ v = wr[s].to /\ NoStores({v}) /\ ~bus.addr_valid
      /\ Addressed(v) /\ wq.temp = None
      /\ \/ wq.valid = {v} /\ wq.out = wr[s].data /\ sl[v].w = None /\ ~sl[v].b
         \/ wq.valid = {} /\ sl[v].w = wr[s].data
      /\ sl[v].b => sl[v].aw /\ written[v] = wr[s].data
  BY <1>3 DEF RespW
<1>5. s_select = s /\ ~read /\ wr[s] \in Writing /\ wr[s] # None /\ ~wr[s].aw
  BY <1>4, Selected DEF Writes, WriteGranted, Types
<1>6. /\ d.awready = None /\ d.wready = None /\ d.arready = None /\ d.m_bready = None /\ d.m_rready = None
      /\ d.bvalid = {} /\ d.m_arvalid = {} /\ d.sel = v /\ d.state = "WRITE_RESP" /\ d.addr_valid = bus.addr_valid
      /\ d.m_awvalid = {w \in bus.m_awvalid : ~AwReady(w, e)}
  BY <1>1, <1>3, <1>4 DEF DefaultsAre, Ready, Writes
<1> HIDE DEF d
<1>9. bus.arready = None /\ bus.awready = None /\ bus.wready = None /\ bus.bvalid = {} /\ bus.m_bready = v
  BY <1>4 DEF Ready
<1>10. ~acknowledge(e)
  BY <1>4, <1>9 DEF acknowledge, Writes, ReadQuiet
<1>11. wr'[s] = wr[s]
  <2>1. bus.awready # s /\ bus.wready # s
    BY <1>9, BusParameters
  <2> QED
    BY <1>9, <2>1, WriteKept
<1>12. wr[s].data \in {0, 1} /\ wr[s].data # None
  BY <1>5, BusParameters DEF Writing
<1>13. NoStores({v})'
  <2>1. bus.m_awvalid \subseteq {v} /\ wq.valid \subseteq {v}
    BY <1>4 DEF Addressed
  <2> QED
    BY <1>4, <2>1, NoStoresStep
<1>14. wInt = None
  BY <1>4 DEF wInt
<1>15. WriteSide(v, e) /\ SkidIs(wq', wq, v, WReady(v, e), wInt, None)
  BY <1>3, SlaveSides, WriteBuffer
<1>16. written'[v] = IF ~sl[v].b /\ sl'[v].b THEN sl[v].w ELSE written[v]
  BY WrittenKept
<1>17. CASE sl[v].b
  <2>1. bus' = [d EXCEPT !.bresp = "OKAY", !.bvalid = {s}, !.state = "WAIT_IDLE"]
    <3>1. d.bvalid \cup {s} = {s}
      BY <1>6
    <3> QED
      BY <1>1, <1>2, <1>3, <1>5, <1>9, <1>17, <3>1 DEF STATE_WRITE_RESP, IsBus
  <2>2. bus.m_awvalid = {} /\ wq.valid = {} /\ written[v] = wr[s].data
    BY <1>4, <1>17 DEF Addressed
  <2>3. /\ bus'.state = "WAIT_IDLE" /\ bus'.bresp = "OKAY" /\ bus'.bvalid = {s} /\ bus'.m_awvalid = {}
        /\ bus'.m_arvalid = {} /\ bus'.arready = None /\ bus'.awready = None /\ bus'.wready = None
        /\ bus'.m_rready = None /\ bus'.m_bready = None
    <3>1. d.m_awvalid = {}
      BY <1>6, <2>2
    <3> QED
      BY <1>1, <1>6, <2>1, <3>1 DEF IsBus
  <2>4. ~sl'[v].aw /\ sl'[v].w = None /\ ~sl'[v].b
    BY <1>9, <1>15, <1>17 DEF WriteSide
  <2>5. NoStores({})'
    BY <1>13, <2>4 DEF NoStores
  <2>6. WriteQuiet'
    BY <1>4, <1>14, <2>2, WriteQuietStep DEF WriteQuiet
  <2>7. written'[v] = wr[s].data
    BY <1>16, <1>17, <2>2
  <2>8. Writes(s)'
    BY <1>4, <1>5, <1>9, <1>10, <1>11, <2>3, WritesStep
  <2>9. Ready(None, None, {None}, {s}, {None}, None)'
    BY <2>3 DEF Ready
  <2>10. wr'[s].to # Unmapped
    BY <1>4, <1>11, BusParameters
  <2>11. WaitW(s)'
    BY <1>4, <1>11, <2>3, <2>5, <2>6, <2>7, <2>8, <2>9, <2>10 DEF WaitW
  <2> QED
    BY <2>11 DEF Phase
<1>18. CASE ~sl[v].b
  <2>1. bus' = [d EXCEPT !.m_bready = v]
    BY <1>2, <1>3, <1>18 DEF STATE_WRITE_RESP
  <2>2. /\ bus'.state = "WRITE_RESP" /\ bus'.sel = v /\ bus'.addr_valid = FALSE /\ bus'.bvalid = {}
        /\ bus'.m_awvalid = {w \in bus.m_awvalid : ~AwReady(w, e)}
        /\ bus'.m_arvalid = {} /\ bus'.arready = None /\ bus'.awready = None /\ bus'.wready = None
        /\ bus'.m_rready = None /\ bus'.m_bready = v
    BY <1>1, <1>4, <1>6, <2>1 DEF IsBus
  <2>3. Addressed(v)'
    BY <1>4, <1>18, <2>2, AddressStep
  <2>4. Writes(s)'
    BY <1>4, <1>5, <1>9, <1>10, <1>11, <2>2, WritesStep
  <2>5. Ready(None, None, {None}, {}, {None}, bus.sel)'
    BY <2>2 DEF Ready
  <2>6. /\ sl'[v].aw = (sl[v].aw \/ (v \in bus.m_awvalid /\ AwReady(v, e)))
        /\ sl'[v].w = (IF v \in wq.valid /\ WReady(v, e) THEN wq.out ELSE sl[v].w)
        /\ sl'[v].b = (e.b /\ sl[v].aw /\ sl[v].w # None /\ v \notin Mute)
    BY <1>15, <1>18 DEF WriteSide
  <2>7. wq'.temp = None
    BY <1>4, <1>14, <1>15 DEF SkidIs
  <2>8. /\ \/ wq'.valid = {v} /\ wq'.out = wr[s].data /\ sl'[v].w = None /\ ~sl'[v].b
           \/ wq'.valid = {} /\ sl'[v].w = wr[s].data
        /\ sl'[v].b => sl'[v].aw /\ written'[v] = wr[s].data
    <3>1. CASE wq.valid = {v} /\ wq.out = wr[s].data /\ sl[v].w = None
      <4>0. ~sl'[v].b
        BY <2>6, <3>1
      <4>1. CASE WReady(v, e)
        <5>1. wq'.valid = {}
          BY <1>4, <1>14, <1>15, <3>1, <4>1 DEF SkidIs
        <5>2. sl'[v].w = wr[s].data
          BY <2>6, <3>1, <4>1
        <5> QED
          BY <4>0, <5>1, <5>2
      <4>2. CASE ~WReady(v, e)
        <5>1. wq'.valid = {v} /\ wq'.out = wr[s].data
          BY <1>4, <1>14, <1>15, <3>1, <4>2 DEF SkidIs
        <5>2. sl'[v].w = None
          BY <2>6, <3>1, <4>2
        <5> QED
          BY <4>0, <5>1, <5>2
      <4> QED
        BY <4>1, <4>2
    <3>2. CASE wq.valid = {} /\ sl[v].w = wr[s].data
      <4>1. wq'.valid = {}
        BY <1>4, <1>14, <1>15, <3>2 DEF SkidIs
      <4>2. sl'[v].w = wr[s].data
        BY <2>6, <3>2
      <4>3. sl'[v].b => sl'[v].aw /\ written'[v] = wr[s].data
        BY <1>16, <1>18, <2>6, <3>2
      <4> QED
        BY <4>1, <4>2, <4>3
    <3> QED
      BY <1>4, <3>1, <3>2
  <2>9. RespW(s)'
    BY <1>4, <1>11, <1>13, <2>2, <2>3, <2>4, <2>5, <2>7, <2>8 DEF RespW
  <2> QED
    BY <2>9 DEF Phase
<1> QED
  BY <1>17, <1>18

(* A dropped write is answered with an error.                              *)
LEMMA DropWriteStep ==
  ASSUME Types, NEW e \in Env, Cycle(e), NEW s \in Masters, DropW(s), IsBus(bus)'
  PROVE  Phase'
<1> DEFINE d == Defaults(e)
<1>1. DefaultsAre(d, e) /\ IsBus(d) /\ IsBus(bus)
  BY DefaultFields DEF Types
<1>2. bus' = STATE_WRITE_DROP(d)
  BY DEF Cycle, Bus, DropW
<1>3. /\ bus.state = "WRITE_DROP" /\ Ready(None, None, {s}, {}, {None}, None) /\ Writes(s)
      /\ wr[s].w /\ wr[s].to = Unmapped /\ NoStores({}) /\ bus.m_awvalid = {} /\ WriteQuiet /\ bus.bresp = "DECERR"
  BY DEF DropW
<1>4. s_select = s /\ ~read /\ wr[s] \in Writing /\ wr[s] # None /\ ~wr[s].aw
  BY <1>3, Selected DEF Writes, WriteGranted, Types
<1>5. bus.arready = None /\ bus.awready = None /\ bus.wready = s /\ bus.bvalid = {}
  BY <1>3 DEF Ready
<1>6. /\ d.awready = None /\ d.wready = None /\ d.arready = None /\ d.m_bready = None /\ d.m_rready = None
      /\ d.bvalid = {} /\ d.m_arvalid = {} /\ d.m_awvalid = {} /\ d.bresp = "DECERR"
  BY <1>1, <1>3, <1>5 DEF DefaultsAre, Writes
<1> HIDE DEF d
<1>7. wHandshake
  BY <1>3, <1>4, <1>5 DEF wHandshake
<1>8. /\ bus'.state = "WAIT_IDLE" /\ bus'.bresp = "DECERR" /\ bus'.bvalid = {s} /\ bus'.m_awvalid = {}
      /\ bus'.m_arvalid = {} /\ bus'.arready = None /\ bus'.awready = None /\ bus'.wready = None
      /\ bus'.m_rready = None /\ bus'.m_bready = None
  <2> DEFINE off == [d EXCEPT !.addr_valid = FALSE]
  <2>1. bus' = [off EXCEPT !.bvalid = off.bvalid \cup {s}, !.state = "WAIT_IDLE"]
    BY <1>2, <1>4, <1>7 DEF STATE_WRITE_DROP
  <2>2. off.bvalid \cup {s} = {s}
    BY <1>1, <1>6 DEF IsBus
  <2> QED
    BY <1>1, <1>6, <2>1, <2>2 DEF IsBus
<1>9. ~acknowledge(e)
  BY <1>3, <1>5 DEF acknowledge, Writes, ReadQuiet
<1>10. /\ wr'[s] # None /\ ~wr'[s].aw /\ wr'[s].to = wr[s].to /\ ~wr'[s].w
  BY <1>4, <1>5, WordHandedOver
<1>11. Writes(s)'
  BY <1>3, <1>5, <1>8, <1>9, <1>10, WritesStep
<1>12. WriteQuiet' /\ NoStores({})'
  <2>1. wInt = None
    BY <1>3 DEF wInt
  <2> QED
    BY <1>3, <2>1, WriteQuietStep, NoStoresStep DEF WriteQuiet
<1>13. Ready(None, None, {None}, {s}, {None}, None)'
  BY <1>8 DEF Ready
<1>14. WaitW(s)'
  BY <1>3, <1>8, <1>10, <1>11, <1>12, <1>13 DEF WaitW
<1> QED
  BY <1>14 DEF Phase

(* A write ends with the master's taking the response.                     *)
LEMMA WaitWriteStep ==
  ASSUME Types, NEW e \in Env, Cycle(e), NEW s \in Masters, WaitW(s), IsBus(bus)'
  PROVE  Phase'
<1> DEFINE d == Defaults(e)
<1>1. DefaultsAre(d, e) /\ IsBus(d) /\ IsBus(bus)
  BY DefaultFields DEF Types
<1>2. bus' = STATE_WAIT_IDLE(d, e)
  BY DEF Cycle, Bus, WaitW
<1>3. /\ bus.state = "WAIT_IDLE" /\ Ready(None, None, {None}, {s}, {None}, None) /\ Writes(s)
      /\ ~wr[s].w /\ NoStores({}) /\ bus.m_awvalid = {} /\ WriteQuiet
      /\ IF wr[s].to = Unmapped THEN bus.bresp = "DECERR" ELSE bus.bresp = "OKAY" /\ written[wr[s].to] = wr[s].data
  BY DEF WaitW
<1>4. s_select = s /\ ~read /\ wr[s] \in Writing /\ wr[s] # None /\ ~wr[s].aw /\ arb.grant # None
  BY <1>3, Selected, BusParameters DEF Writes, WriteGranted, Types
<1>5. bus.arready = None /\ bus.awready = None /\ bus.wready = None /\ bus.bvalid = {s}
  BY <1>3 DEF Ready
<1>6. /\ d.awready = None /\ d.wready = None /\ d.arready = None /\ d.m_bready = None /\ d.m_rready = None
      /\ d.bvalid = (IF e.bready THEN {} ELSE {s}) /\ d.m_arvalid = {} /\ d.m_awvalid = {} /\ d.bresp = bus.bresp
      /\ d.state = "WAIT_IDLE"
  BY <1>1, <1>3, <1>5 DEF DefaultsAre, Writes
<1> HIDE DEF d
<1>7. acknowledge(e) <=> e.bready
  BY <1>4, <1>5 DEF acknowledge
<1>8. /\ bus'.state = (IF e.bready THEN "IDLE" ELSE "WAIT_IDLE") /\ bus'.bresp = bus.bresp
      /\ bus'.bvalid = (IF e.bready THEN {} ELSE {s}) /\ bus'.m_awvalid = {}
      /\ bus'.m_arvalid = {} /\ bus'.arready = None /\ bus'.awready = None /\ bus'.wready = None
      /\ bus'.m_rready = None /\ bus'.m_bready = None
  BY <1>1, <1>2, <1>4, <1>6, <1>7 DEF STATE_WAIT_IDLE, IsBus
<1>9. WriteQuiet' /\ NoStores({})'
  <2>1. wInt = None
    BY <1>3 DEF wInt
  <2> QED
    BY <1>3, <2>1, WriteQuietStep, NoStoresStep DEF WriteQuiet
<1>10. CASE e.bready
  <2>1. wr'[s] = None
    BY <1>5, <1>10 DEF Cycle, WriteMaster
  <2>2. WritesWait({s})' /\ \A m \in Masters \ {s} : wr'[m] = wr[m]
    BY <1>3, <1>5, WritesWaitStep DEF Writes
  <2>3. ReadsWait({})' /\ \A m \in Masters : rd'[m] = rd[m]
    BY <1>3, <1>5, ReadsWaitStep DEF Writes, ReadQuiet
  <2>4. WritesWait({})'
    BY <2>1, <2>2 DEF WritesWait
  <2>5. ReadQuiet' /\ NoBursts({})'
    <3>1. rInt = NoData
      BY <1>3 DEF rInt
    <3> QED
      BY <1>3, <3>1, ReadQuietStep, NoBurstsStep DEF Writes
  <2>6. SlavesQuiet' /\ bus'.state = "IDLE" /\ Ready(None, None, {None}, {}, {None}, None)'
    BY <1>8, <1>9, <1>10, <2>5 DEF SlavesQuiet, Ready
  <2>7. (arb.grant # None => \E m \in Masters : ReadGranted(m) \/ WriteGranted(m))'
    <3>1. \A m \in Masters : wr[m] # None /\ wr[m].aw => wr'[m] = wr[m]
      BY <1>4, <2>2
    <3> QED
      BY <1>7, <1>10, <2>3, <3>1, AwaitsGrant
  <2>8. IdleP'
    BY <1>9, <2>3, <2>4, <2>5, <2>6, <2>7 DEF IdleP
  <2> QED
    BY <2>8 DEF Phase
<1>11. CASE ~e.bready
  <2>1. wr'[s] = wr[s]
    <3>1. bus.awready # s /\ bus.wready # s
      BY <1>5, BusParameters
    <3> QED
      BY <1>11, <3>1, WriteKept
  <2>2. Writes(s)'
    BY <1>3, <1>4, <1>5, <1>7, <1>8, <1>11, <2>1, WritesStep
  <2>3. Ready(None, None, {None}, {s}, {None}, None)' /\ bus'.state = "WAIT_IDLE"
    BY <1>8, <1>11 DEF Ready
  <2>4. \A v \in Slaves : written'[v] = written[v]
    <3> SUFFICES ASSUME NEW v \in Slaves PROVE written'[v] = written[v]
      OBVIOUS
    <3>1. ~sl'[v].b
      BY <1>9 DEF NoStores
    <3> QED
      BY <3>1, WrittenKept
  <2>5. wr[s].to # Unmapped => wr[s].to \in Slaves
    BY <1>4, BusParameters DEF Writing
  <2>6. WaitW(s)'
    BY <1>3, <1>8, <1>9, <2>1, <2>2, <2>3, <2>4, <2>5 DEF WaitW
  <2> QED
    BY <2>6 DEF Phase
<1> QED
  BY <1>10, <1>11

(* In every phase the counts fit.                                          *)
LEMMA PhaseFits == ASSUME Types, Phase PROVE Fits
<1>1. \A m \in Masters : rd[m] # None => rd[m] \in Reading /\ rd[m].beat \in 0 .. MaxLen /\ rd[m].len \in 0 .. MaxLen
  <2> SUFFICES ASSUME NEW m \in Masters, rd[m] # None
               PROVE  rd[m] \in Reading /\ rd[m].beat \in 0 .. MaxLen /\ rd[m].len \in 0 .. MaxLen
    OBVIOUS
  <2>1. rd[m] \in Reading
    BY DEF Types
  <2> QED
    BY <2>1 DEF Reading
<1>2. MaxLen \in Nat
  BY BusParameters
<1>3. CASE IdleP
  <2>1. arb.grant # None => (IF read THEN rd[s_select] # None ELSE wr[s_select] # None)
    BY <1>3, Selected DEF IdleP, ReadGranted, WriteGranted
  <2> QED
    BY <1>3, <2>1 DEF IdleP, ReadQuiet, SlavesQuiet, NoBursts, Fits
<1>4. ASSUME NEW s \in Masters, DecodeR(s) \/ DecodeW(s)
      PROVE  Fits
  BY <1>4 DEF DecodeR, DecodeW, ReadQuiet, SlavesQuiet, NoBursts, Fits
<1>5. ASSUME NEW s \in Masters, WriteP(s) \/ RespW(s) \/ DropW(s) \/ WaitW(s)
      PROVE  Fits
  BY <1>5 DEF WriteP, RespW, DropW, WaitW, Writes, ReadQuiet, NoBursts, Fits
<1>6. ASSUME NEW s \in Masters, ReadP(s)
      PROVE  Fits
  <2>1. bus.sel \in Slaves /\ bus.state = "READ" /\ NoBursts({bus.sel}) /\ bus.len = rd[s].len /\ rd[s] # None
    BY <1>6 DEF ReadP, Types, IsBus, Reads, ReadGranted
  <2>2. CASE Asking(s, bus.sel)
    BY <1>1, <2>1, <2>2 DEF Asking, ReadQuiet, NoBursts, Fits
  <2>3. CASE Sending(s, bus.sel)
    <3>1. /\ bus.m_arvalid = {} /\ sl[bus.sel].r # None
          /\ sl[bus.sel].r.len = rd[s].len /\ sl[bus.sel].r.beat <= rd[s].len /\ Buffered(s, sl[bus.sel].r.beat)
      BY <2>3 DEF Sending
    <3>2. sl[bus.sel].r \in Burst
      BY <2>1, <3>1 DEF Types, SlaveRec
    <3>3. sl[bus.sel].r.beat \in 0 .. MaxLen
      BY <3>2 DEF Burst
    <3>4. \A m \in rq.valid : m = s /\ rd[s].beat < MaxLen
      <4>1. rq.valid # {} => rd[s].beat < sl[bus.sel].r.beat /\ rq.valid = {s}
        BY <1>1, <2>1, <3>1, <3>3 DEF Buffered
      <4> QED
        BY <1>1, <1>2, <2>1, <3>3, <4>1
    <3>5. \A v \in Slaves : sl[v].r # None => sl[v].r.beat = sl[v].r.len \/ sl[v].r.beat < MaxLen
      BY <1>1, <1>2, <2>1, <3>1, <3>3 DEF NoBursts
    <3> QED
      BY <2>1, <3>1, <3>4, <3>5 DEF Fits
  <2> QED
    BY <1>6, <2>2, <2>3 DEF ReadP
<1>7. ASSUME NEW s \in Masters, NEW k \in Nat, k <= rd[s].len + 1, Buffered(s, k), NoBursts({}), bus.m_arvalid = {},
             bus.state # "IDLE", rd[s] # None
      PROVE  Fits
  <2>1. rq.valid # {} => rq.valid = {s} /\ rq.out = Beat(rd[s], rd[s].beat) /\ rd[s].beat < k
    BY <1>1, <1>7 DEF Buffered
  <2>2. Beat(rd[s], rd[s].beat).last = (rd[s].beat = rd[s].len)
    BY DEF Beat
  <2>3. rq.valid # {} => rd[s].beat = rd[s].len \/ rd[s].beat < MaxLen
    BY <1>1, <1>2, <1>7, <2>1
  <2>4. \A m \in rq.valid : rq.out.last \/ rd[m].beat < MaxLen
    BY <2>1, <2>2, <2>3
  <2> QED
    BY <1>7, <2>4 DEF NoBursts, Fits
<1>8. ASSUME NEW s \in Masters, DropR(s)
      PROVE  Fits
  <2>1. /\ bus.state = "READ_DROP" /\ rd[s] # None /\ bus.len \in 0 .. 255 /\ NoBursts({}) /\ bus.m_arvalid = {}
        /\ bus.len <= rd[s].len /\ Buffered(s, rd[s].len - bus.len)
    BY <1>8 DEF DropR, Reads, ReadGranted, Types, IsBus
  <2>2. PICK k \in Nat : k = rd[s].len - bus.len
    BY <1>1, <1>2, <2>1, SMTT(30)
  <2>3. k <= rd[s].len + 1
    BY <1>1, <1>2, <2>1, <2>2
  <2> QED
    BY <1>7, <2>1, <2>2, <2>3
<1>9. ASSUME NEW s \in Masters, WaitR(s)
      PROVE  Fits
  <2>1. /\ bus.state = "WAIT_IDLE" /\ rd[s] # None /\ NoBursts({}) /\ bus.m_arvalid = {} /\ Buffered(s, rd[s].len + 1)
    BY <1>9 DEF WaitR, Reads, ReadGranted
  <2>2. rd[s].len + 1 \in Nat /\ rd[s].len + 1 <= rd[s].len + 1
    BY <1>1, <1>2, <2>1
  <2> QED
    BY <1>7, <2>1, <2>2
<1> QED
  BY <1>3, <1>4, <1>5, <1>6, <1>8, <1>9 DEF Phase

-----------------------------------------------------------------------------
(* The invariant holds, and says what Delivered does.                      *)

(* A cycle keeps the invariant.                                            *)
LEMMA CycleStep ==
  ASSUME BusInvar, NEW e \in Env, Cycle(e)
  PROVE  BusInvar'
<1>1. Types /\ Phase /\ Skids
  BY DEF BusInvar
<1>2. Types' /\ Skids'
  BY <1>1, PhaseFits, TypesStep, SkidsStep
<1>3. IsBus(bus)'
  BY <1>2 DEF Types
<1>4. Phase'
  <2>1. CASE IdleP
    BY <1>1, <2>1, IdleStep
  <2>2. ASSUME NEW s \in Masters,
               DecodeR(s) \/ DecodeW(s) \/ ReadP(s) \/ DropR(s) \/ WaitR(s) \/ WriteP(s) \/ RespW(s) \/ DropW(s) \/ WaitW(s)
        PROVE  Phase'
    <3>1. CASE DecodeR(s)
      BY <1>1, <1>3, <3>1, DecodeReadStep
    <3>2. CASE DecodeW(s)
      BY <1>1, <1>3, <3>2, DecodeWriteStep
    <3>3. CASE ReadP(s)
      BY <1>1, <1>3, <3>3, ReadStep
    <3>4. CASE DropR(s)
      BY <1>1, <1>3, <3>4, DropReadStep
    <3>5. CASE WaitR(s)
      BY <1>1, <1>3, <3>5, WaitReadStep
    <3>6. CASE WriteP(s)
      BY <1>1, <1>3, <3>6, WriteStep
    <3>7. CASE RespW(s)
      BY <1>1, <1>3, <3>7, ResponseStep
    <3>8. CASE DropW(s)
      BY <1>1, <1>3, <3>8, DropWriteStep
    <3>9. CASE WaitW(s)
      BY <1>1, <1>3, <3>9, WaitWriteStep
    <3> QED
      BY <2>2, <3>1, <3>2, <3>3, <3>4, <3>5, <3>6, <3>7, <3>8, <3>9
  <2> QED
    BY <1>1, <2>1, <2>2 DEF Phase
<1> QED
  BY <1>2, <1>4 DEF BusInvar

(* Masters that had nothing under way begin to ask, the others go on.      *)
Asks ==
  /\ UNCHANGED <<arb, bus, rq, wq, sl, written>>
  /\ \A m \in Masters : IF rd[m] # None THEN rd'[m] = rd[m] ELSE rd'[m] # None => rd'[m].ar /\ rd'[m].beat = 0
  /\ \A m \in Masters : IF wr[m] # None THEN wr'[m] = wr[m] ELSE wr'[m] # None => wr'[m].aw /\ wr'[m].w

(* A new request does not disturb the phase.                               *)
LEMMA RequestStep == ASSUME Types, Phase, Asks PROVE Phase'
<1>1. arb' = arb /\ bus' = bus /\ rq' = rq /\ wq' = wq /\ sl' = sl /\ written' = written
  BY DEF Asks
<1>2. ASSUME NEW s \in Masters
      PROVE  (rd[s] # None => rd'[s] = rd[s]) /\ (wr[s] # None => wr'[s] = wr[s])
  BY DEF Asks
<1>3. ASSUME NEW X, ReadsWait(X) PROVE ReadsWait(X)'
  BY <1>3 DEF Asks, ReadsWait
<1>4. ASSUME NEW X, WritesWait(X) PROVE WritesWait(X)'
  BY <1>4 DEF Asks, WritesWait
<1>5. ASSUME NEW X PROVE (NoBursts(X) => NoBursts(X)') /\ (NoStores(X) => NoStores(X)')
  BY <1>1 DEF NoBursts, NoStores
<1>6. (ReadQuiet => ReadQuiet') /\ (WriteQuiet => WriteQuiet')
  BY <1>1 DEF ReadQuiet, WriteQuiet
<1>7. SlavesQuiet => SlavesQuiet'
  BY <1>1 DEF SlavesQuiet, NoBursts, NoStores
<1>8. ASSUME NEW s \in Masters
      PROVE  (ReadGranted(s) => ReadGranted(s)' /\ rd'[s] = rd[s]) /\ (WriteGranted(s) => WriteGranted(s)' /\ wr'[s] = wr[s])
  BY <1>1, <1>2 DEF ReadGranted, WriteGranted
<1>9. ASSUME NEW s \in Masters, Reads(s) PROVE Reads(s)' /\ rd'[s] = rd[s]
  BY <1>1, <1>3, <1>4, <1>5, <1>6, <1>8, <1>9 DEF Reads
<1>10. ASSUME NEW s \in Masters, Writes(s) PROVE Writes(s)' /\ wr'[s] = wr[s]
  BY <1>1, <1>3, <1>4, <1>5, <1>6, <1>8, <1>10 DEF Writes
<1>11. CASE IdleP
  <2>1. (arb.grant # None => \E s \in Masters : ReadGranted(s) \/ WriteGranted(s))'
    BY <1>1, <1>8, <1>11 DEF IdleP
  <2>2. IdleP'
    BY <1>1, <1>3, <1>4, <1>6, <1>7, <1>11, <2>1 DEF IdleP, Ready
  <2> QED
    BY <2>2 DEF Phase
<1>12. ASSUME NEW s \in Masters, DecodeR(s) PROVE DecodeR(s)'
  BY <1>1, <1>3, <1>4, <1>6, <1>7, <1>8, <1>12 DEF DecodeR, Ready
<1>13. ASSUME NEW s \in Masters, DecodeW(s) PROVE DecodeW(s)'
  BY <1>1, <1>3, <1>4, <1>6, <1>7, <1>8, <1>13 DEF DecodeW, Ready
<1>14. ASSUME NEW s \in Masters, ReadP(s) PROVE ReadP(s)'
  <2>1. Reads(s)' /\ rd'[s] = rd[s]
    BY <1>9, <1>14 DEF ReadP
  <2>2. Asking(s, bus.sel)' \/ Sending(s, bus.sel)'
    BY <1>1, <1>14, <2>1 DEF ReadP, Asking, Sending, Buffered, ReadQuiet
  <2>3. NoBursts({bus.sel})'
    BY <1>1, <1>14 DEF ReadP, NoBursts
  <2> QED
    BY <1>1, <1>14, <2>1, <2>2, <2>3 DEF ReadP, Ready
<1>15. ASSUME NEW s \in Masters, DropR(s) PROVE DropR(s)'
  <2>1. Reads(s)' /\ rd'[s] = rd[s]
    BY <1>9, <1>15 DEF DropR
  <2> QED
    BY <1>1, <1>5, <1>15, <2>1 DEF DropR, Ready, Buffered
<1>16. ASSUME NEW s \in Masters, WaitR(s) PROVE WaitR(s)'
  <2>1. Reads(s)' /\ rd'[s] = rd[s]
    BY <1>9, <1>16 DEF WaitR
  <2> QED
    BY <1>1, <1>5, <1>16, <2>1 DEF WaitR, Ready, Buffered
<1>17. ASSUME NEW s \in Masters, WriteP(s) PROVE WriteP(s)'
  <2>1. Writes(s)' /\ wr'[s] = wr[s]
    BY <1>10, <1>17 DEF WriteP
  <2>2. NoStores({bus.sel})' /\ Addressed(bus.sel)'
    BY <1>1, <1>17 DEF WriteP, NoStores, Addressed
  <2> QED
    BY <1>1, <1>6, <1>17, <2>1, <2>2 DEF WriteP, Ready
<1>18. ASSUME NEW s \in Masters, RespW(s) PROVE RespW(s)'
  <2>1. Writes(s)' /\ wr'[s] = wr[s]
    BY <1>10, <1>18 DEF RespW
  <2>2. NoStores({bus.sel})' /\ Addressed(bus.sel)'
    BY <1>1, <1>18 DEF RespW, NoStores, Addressed
  <2> QED
    BY <1>1, <1>18, <2>1, <2>2 DEF RespW, Ready
<1>19. ASSUME NEW s \in Masters, DropW(s) PROVE DropW(s)'
  <2>1. Writes(s)' /\ wr'[s] = wr[s]
    BY <1>10, <1>19 DEF DropW
  <2> QED
    BY <1>1, <1>5, <1>6, <1>19, <2>1 DEF DropW, Ready
<1>20. ASSUME NEW s \in Masters, WaitW(s) PROVE WaitW(s)'
  <2>1. Writes(s)' /\ wr'[s] = wr[s]
    BY <1>10, <1>20 DEF WaitW
  <2> QED
    BY <1>1, <1>5, <1>6, <1>20, <2>1 DEF WaitW, Ready
<1> QED
  BY <1>11, <1>12, <1>13, <1>14, <1>15, <1>16, <1>17, <1>18, <1>19, <1>20 DEF Phase

(* A new request keeps the invariant.                                      *)
LEMMA AskStep ==
  ASSUME BusInvar, Asks, rd' \in [Masters -> Reading \cup {None}], wr' \in [Masters -> Writing \cup {None}]
  PROVE  BusInvar'
<1>1. Types /\ Phase /\ Skids
  BY DEF BusInvar
<1>2. Types'
  BY <1>1 DEF Types, Asks, IsBus
<1>3. Skids'
  BY <1>1 DEF Skids, Asks
<1> QED
  BY <1>1, <1>2, <1>3, RequestStep DEF BusInvar

(* Every step keeps the invariant.                                         *)
LEMMA BusStep == BusInvar /\ [BusNext]_busVars => BusInvar'
<1> SUFFICES ASSUME BusInvar, [BusNext]_busVars PROVE BusInvar'
  OBVIOUS
<1>0. rd \in [Masters -> Reading \cup {None}] /\ wr \in [Masters -> Writing \cup {None}]
  BY DEF BusInvar, Types
<1>1. CASE \E e \in Env : Cycle(e)
  BY <1>1, CycleStep
<1>2. ASSUME NEW m \in Masters, NEW to \in Slaves \cup {Unmapped}, NEW len \in 0 .. MaxLen, Read(m, to, len)
      PROVE  BusInvar'
  <2> DEFINE new == [to |-> to, len |-> len, beat |-> 0, ar |-> TRUE]
  <2>1. new \in Reading
    BY BusParameters DEF Reading
  <2>2. rd[m] = None /\ rd' = [rd EXCEPT ![m] = new] /\ UNCHANGED <<wr, arb, bus, rq, wq, sl, written>>
    BY <1>2 DEF Read
  <2>3. new.ar /\ new.beat = 0
    OBVIOUS
  <2> HIDE DEF new
  <2>4. Asks
    <3>1. \A n \in Masters : rd'[n] = IF n = m THEN new ELSE rd[n]
      BY <1>0, <2>2
    <3>2. ASSUME NEW n \in Masters
          PROVE  IF rd[n] # None THEN rd'[n] = rd[n] ELSE rd'[n] # None => rd'[n].ar /\ rd'[n].beat = 0
      BY <2>2, <2>3, <3>1
    <3>3. ASSUME NEW n \in Masters
          PROVE  IF wr[n] # None THEN wr'[n] = wr[n] ELSE wr'[n] # None => wr'[n].aw /\ wr'[n].w
      BY <2>2
    <3> QED
      BY <2>2, <3>2, <3>3 DEF Asks
  <2>5. rd' \in [Masters -> Reading \cup {None}] /\ wr' \in [Masters -> Writing \cup {None}]
    BY <1>0, <2>1, <2>2
  <2> QED
    BY <2>4, <2>5, AskStep
<1>3. ASSUME NEW m \in Masters, NEW to \in WriteTargets, NEW data \in {0, 1}, Write(m, to, data)
      PROVE  BusInvar'
  <2> DEFINE new == [to |-> to, data |-> data, aw |-> TRUE, w |-> TRUE]
  <2>1. new \in Writing
    BY DEF Writing
  <2>2. wr[m] = None /\ wr' = [wr EXCEPT ![m] = new] /\ UNCHANGED <<rd, arb, bus, rq, wq, sl, written>>
    BY <1>3 DEF Write
  <2>3. new.aw /\ new.w
    OBVIOUS
  <2> HIDE DEF new
  <2>4. Asks
    <3>1. \A n \in Masters : wr'[n] = IF n = m THEN new ELSE wr[n]
      BY <1>0, <2>2
    <3>2. ASSUME NEW n \in Masters
          PROVE  IF wr[n] # None THEN wr'[n] = wr[n] ELSE wr'[n] # None => wr'[n].aw /\ wr'[n].w
      BY <2>2, <2>3, <3>1
    <3>3. ASSUME NEW n \in Masters
          PROVE  IF rd[n] # None THEN rd'[n] = rd[n] ELSE rd'[n] # None => rd'[n].ar /\ rd'[n].beat = 0
      BY <2>2
    <3> QED
      BY <2>2, <3>2, <3>3 DEF Asks
  <2>5. rd' \in [Masters -> Reading \cup {None}] /\ wr' \in [Masters -> Writing \cup {None}]
    BY <1>0, <2>1, <2>2
  <2> QED
    BY <2>4, <2>5, AskStep
<1>4. CASE UNCHANGED busVars
  <2>1. Asks /\ rd' = rd /\ wr' = wr
    BY <1>4 DEF Asks, busVars
  <2> QED
    BY <1>0, <2>1, AskStep
<1> QED
  BY <1>1, <1>2, <1>3, <1>4 DEF BusNext

(* The interconnect after reset satisfies the invariant.                   *)
LEMMA BusStarts == BusInit => BusInvar
<1> SUFFICES ASSUME BusInit PROVE BusInvar
  OBVIOUS
<1>1. PICK v \in Slaves :
       bus = [state |-> "IDLE", sel |-> v, addr |-> v, addr_valid |-> FALSE, len |-> 0,
              arready |-> None, awready |-> None, wready |-> None, bvalid |-> {}, bresp |-> "OKAY",
              m_arvalid |-> {}, m_awvalid |-> {}, m_rready |-> None, m_bready |-> None]
  BY DEF BusInit
<1>2. /\ bus.state = "IDLE" /\ bus.sel = v /\ bus.addr = v /\ bus.addr_valid = FALSE /\ bus.len = 0
      /\ bus.arready = None /\ bus.awready = None /\ bus.wready = None /\ bus.bvalid = {} /\ bus.bresp = "OKAY"
      /\ bus.m_arvalid = {} /\ bus.m_awvalid = {} /\ bus.m_rready = None /\ bus.m_bready = None
      /\ DOMAIN bus = {"state", "sel", "addr", "addr_valid", "len", "arready", "awready", "wready", "bvalid", "bresp",
                 "m_arvalid", "m_awvalid", "m_rready", "m_bready"}
  BY <1>1
<1>3. IsBus(bus)
  <2>1. bus.len \in 0 .. 255 /\ bus.addr_valid \in BOOLEAN /\ bus.bresp \in {"OKAY", "DECERR"}
    <3>1. bus.len = 0 /\ bus.addr_valid = FALSE /\ bus.bresp = "OKAY"
      BY <1>2
    <3>2. bus.len \in 0 .. 255
      BY <3>1
    <3>3. bus.addr_valid \in BOOLEAN /\ bus.bresp \in {"OKAY", "DECERR"}
      BY <3>1
    <3> QED
      BY <3>2, <3>3
  <2>2. /\ bus.arready \in Masters \cup {None} /\ bus.awready \in Masters \cup {None}
        /\ bus.wready \in Masters \cup {None} /\ bus.m_rready \in Slaves \cup {None}
        /\ bus.m_bready \in Slaves \cup {None}
    BY <1>2
  <2>3. /\ bus.bvalid \subseteq Masters /\ bus.m_arvalid \subseteq Slaves /\ bus.m_awvalid \subseteq Slaves
        /\ bus.sel \in Slaves /\ bus.addr \in Slaves \cup {Unmapped}
    BY <1>2
  <2>4. bus.state \in {"IDLE", "DECODE", "WRITE", "WRITE_RESP", "WRITE_DROP", "READ", "READ_DROP", "WAIT_IDLE"}
    BY <1>2
  <2> QED
    BY <1>2, <2>1, <2>2, <2>3, <2>4 DEF IsBus
<1>4. NoData \in Beats
  BY BusParameters DEF NoData, Beats
<1>5. /\ rq = [ready |-> FALSE, valid |-> {}, out |-> NoData, temp |-> NoData] /\ rq \in ReadBuf
      /\ wq = [ready |-> FALSE, valid |-> {}, out |-> None, temp |-> None] /\ wq \in WriteBuf
  BY <1>4 DEF BusInit, ReadBuf, WriteBuf, Buf
<1>6. /\ rd = [m \in Masters |-> None] /\ wr = [m \in Masters |-> None]
      /\ arb = [grant |-> None, mask |-> {}] /\ written = [w \in Slaves |-> 0]
      /\ sl = [w \in Slaves |-> [r |-> None, rvalid |-> FALSE, aw |-> FALSE, w |-> None, b |-> FALSE]]
  BY DEF BusInit
<1>7. Types
  <2>1. rd \in [Masters -> Reading \cup {None}] /\ wr \in [Masters -> Writing \cup {None}]
    BY <1>6
  <2>2. arb \in [grant : Ports \cup {None}, mask : SUBSET Ports] /\ written \in [Slaves -> {0, 1}]
    BY <1>6
  <2>3. [r |-> None, rvalid |-> FALSE, aw |-> FALSE, w |-> None, b |-> FALSE] \in SlaveRec
    BY DEF SlaveRec
  <2>4. sl \in [Slaves -> SlaveRec]
    BY <1>6, <2>3
  <2> QED
    BY <1>3, <1>5, <2>1, <2>2, <2>4 DEF Types
<1>8. Skids
  BY <1>2, <1>5 DEF Skids
<1>9. IdleP
  <2>1. ReadQuiet /\ WriteQuiet
    BY <1>5 DEF ReadQuiet, WriteQuiet
  <2>2. SlavesQuiet
    BY <1>2, <1>6 DEF SlavesQuiet, NoBursts, NoStores
  <2>3. ReadsWait({}) /\ WritesWait({}) /\ arb.grant = None
    BY <1>6 DEF ReadsWait, WritesWait
  <2> QED
    BY <1>2, <2>1, <2>2, <2>3 DEF IdleP, Ready
<1> QED
  BY <1>7, <1>8, <1>9 DEF BusInvar, Phase

(* The invariant says all that Delivered does.                             *)
LEMMA BusDelivers == BusInvar => Delivered
<1> SUFFICES ASSUME BusInvar PROVE Delivered
  OBVIOUS
<1>1. Types /\ Phase
  BY DEF BusInvar
<1>2. BusTypeOK
  <2>1. arb.grant \in Ports \cup {None} /\ arb.mask \subseteq Ports
    BY <1>1 DEF Types
  <2>2. IsBus(bus) /\ rq.valid \subseteq Masters /\ wq.valid \subseteq Slaves
    BY <1>1 DEF Types, ReadBuf, WriteBuf, Buf
  <2>3. /\ bus.state \in {"IDLE", "DECODE", "WRITE", "WRITE_RESP", "WRITE_DROP", "READ", "READ_DROP", "WAIT_IDLE"}
        /\ bus.sel \in Slaves /\ bus.len \in 0 .. 255 /\ bus.bvalid \subseteq Masters
        /\ bus.arready \in Masters \cup {None} /\ bus.awready \in Masters \cup {None}
        /\ bus.wready \in Masters \cup {None} /\ bus.m_rready \in Slaves \cup {None}
        /\ bus.m_bready \in Slaves \cup {None}
    BY <2>2 DEF IsBus
  <2> QED
    BY <2>1, <2>2, <2>3 DEF BusTypeOK
<1>3. BeatsRight /\ WriteArrived
  <2>1. CASE IdleP
    BY <2>1 DEF IdleP, ReadQuiet, Ready, BeatsRight, WriteArrived
  <2>2. ASSUME NEW s \in Masters, DecodeR(s) \/ DecodeW(s)
        PROVE  BeatsRight /\ WriteArrived
    BY <2>2 DEF DecodeR, DecodeW, ReadQuiet, Ready, BeatsRight, WriteArrived
  <2>3. ASSUME NEW s \in Masters, Reads(s), NEW k, Buffered(s, k), bus.bvalid = {}
        PROVE  BeatsRight /\ WriteArrived
    <3>1. \A m \in rq.valid : m = s /\ rq.out = Beat(rd[s], rd[s].beat)
      BY <2>3 DEF Buffered
    <3>2. rd[s] # None /\ ~rd[s].ar
      BY <2>3 DEF Reads, ReadGranted
    <3> QED
      BY <2>3, <3>1, <3>2 DEF BeatsRight, WriteArrived, Beat
  <2>4. ASSUME NEW s \in Masters, ReadP(s)
        PROVE  BeatsRight /\ WriteArrived
    <3>1. Reads(s) /\ bus.bvalid = {}
      BY <2>4 DEF ReadP, Ready
    <3>2. CASE Asking(s, bus.sel)
      BY <3>1, <3>2 DEF Asking, ReadQuiet, BeatsRight, WriteArrived
    <3>3. CASE Sending(s, bus.sel)
      BY <2>3, <3>1, <3>3 DEF Sending
    <3> QED
      BY <2>4, <3>2, <3>3 DEF ReadP
  <2>5. ASSUME NEW s \in Masters, DropR(s) \/ WaitR(s)
        PROVE  BeatsRight /\ WriteArrived
    BY <2>3, <2>5 DEF DropR, WaitR, Ready
  <2>6. ASSUME NEW s \in Masters, WriteP(s) \/ RespW(s) \/ DropW(s)
        PROVE  BeatsRight /\ WriteArrived
    BY <2>6 DEF WriteP, RespW, DropW, Writes, ReadQuiet, Ready, BeatsRight, WriteArrived
  <2>7. ASSUME NEW s \in Masters, WaitW(s)
        PROVE  BeatsRight /\ WriteArrived
    BY <2>7 DEF WaitW, Writes, WriteGranted, ReadQuiet, Ready, BeatsRight, WriteArrived
  <2> QED
    BY <1>1, <2>1, <2>2, <2>4, <2>5, <2>6, <2>7 DEF Phase
<1> QED
  BY <1>2, <1>3 DEF Delivered

(* Whatever stalls in whichever cycle, on either side: every beat a master *)
(* is offered is the next one of the slave it addressed, or a decode error *)
(* if there is none, rlast comes with the last one, a write is answered    *)
(* only to the master that made it and only after the addressed slave has  *)
(* written the word, and every register stays within its width             *)
(* (amba/axi_interconnect.v, amba/arbiter.v).                              *)
THEOREM AnswersDelivered == BusSpec => []Delivered
<1>1. BusInit => BusInvar
  BY BusStarts
<1>2. BusInvar /\ [BusNext]_busVars => BusInvar'
  BY BusStep
<1>3. BusInvar => Delivered
  BY BusDelivers
<1> QED
  BY <1>1, <1>2, <1>3, PTL DEF BusSpec

-----------------------------------------------------------------------------
(* The byte lanes (LsuLanes).  A word is the number of four digits; shifts *)
(* and remainders move and cut digits.                                     *)

(* Quotient and remainder are the only ones.                               *)
LEMMA Division ==
  ASSUME NEW d \in Nat, d > 0, NEW q \in Nat, NEW r \in 0 .. d - 1, NEW x \in Nat, x = q * d + r
  PROVE  x \div d = q /\ x % d = r
<1> DEFINE p == x \div d
           s == x % d
           k == q - p
<1>1. p \in Nat /\ s \in 0 .. d - 1 /\ x = p * d + s
  OBVIOUS
<1> HIDE DEF p, s
<1>2. d * k = s - r
  BY <1>1
<1>3. k \in Int /\ s - r < d /\ -d < s - r
  BY <1>1
<1>4. k = 0
  <2>1. ASSUME k >= 1 PROVE FALSE
    <3>1. d * (k - 1) >= 0
      BY <1>3, <2>1
    <3> QED
      BY <1>2, <1>3, <3>1
  <2>2. ASSUME k <= -1 PROVE FALSE
    <3>1. d * (-1 - k) >= 0
      BY <1>3, <2>2
    <3> QED
      BY <1>2, <1>3, <3>1
  <2> QED
    BY <1>3, <2>1, <2>2
<1>5. q = p /\ s = r
  BY <1>1, <1>2, <1>4
<1> QED
  BY <1>5 DEF p, s

(* The powers of the size of a byte.                                       *)
LEMMA Spans ==
  /\ ByteSize \in Nat /\ ByteSize > 0
  /\ Span(0) = 1 /\ Span(1) = ByteSize
  /\ Span(2) \in Nat /\ Span(2) > 0 /\ Span(2) = ByteSize * ByteSize
  /\ Span(3) \in Nat /\ Span(3) > 0 /\ Span(3) = Span(2) * ByteSize /\ Span(3) = ByteSize * Span(2)
  /\ Span(4) \in Nat /\ Span(4) > 0 /\ Span(4) = Span(3) * ByteSize
  /\ Span(4) = Span(2) * Span(2) /\ Span(4) = ByteSize * Span(3)
<1> DEFINE R == ByteSize
<1>1. R \in Nat /\ R > 0
  BY LanesAssumption
<1>2. /\ Span(0) = 1 /\ Span(1) = R /\ Span(2) = R * R /\ Span(3) = R * R * R /\ Span(4) = R * R * R * R
  BY <1>1 DEF Span
<1> HIDE DEF R
<1>3. R * R \in Nat /\ R * R > 0
  BY <1>1
<1>4. R * R * R \in Nat /\ R * R * R > 0 /\ R * R * R = R * (R * R)
  <2> DEFINE S == R * R
  <2>1. S \in Nat /\ S > 0
    BY <1>3
  <2> HIDE DEF S
  <2>2. S * R \in Nat /\ S * R > 0 /\ S * R = R * S
    BY <1>1, <2>1
  <2> QED
    BY <2>2 DEF S
<1>5. R * R * R * R \in Nat /\ R * R * R * R > 0 /\ R * R * R * R = R * (R * R * R)
  <2> DEFINE S == R * R * R
  <2>1. S \in Nat /\ S > 0
    BY <1>4
  <2> HIDE DEF S
  <2>2. S * R \in Nat /\ S * R > 0 /\ S * R = R * S
    BY <1>1, <2>1
  <2> QED
    BY <2>2 DEF S
<1>6. R * R * R * R = (R * R) * (R * R)
  BY <1>1
<1> QED
  BY <1>1, <1>2, <1>3, <1>4, <1>5, <1>6 DEF R

(* The number with the digits x, y, z, u.                                  *)
Num(x, y, z, u) == x + y * Span(1) + z * Span(2) + u * Span(3)

(* Numbers of one, two, three and four digits.                             *)
LEMMA NumBounds ==
  ASSUME NEW x \in Byte, NEW y \in Byte, NEW z \in Byte, NEW u \in Byte
  PROVE  /\ x \in 0 .. Span(1) - 1
         /\ x + y * Span(1) \in 0 .. Span(2) - 1
         /\ x + y * Span(1) + z * Span(2) \in 0 .. Span(3) - 1
         /\ Num(x, y, z, u) \in 0 .. Span(4) - 1
<1> DEFINE R == ByteSize  S == Span(2)  C == Span(3)  F == Span(4)
<1>0. /\ R \in Nat /\ R > 0 /\ Span(1) = R /\ S \in Nat /\ S > 0 /\ S = R * R
      /\ C \in Nat /\ C > 0 /\ C = R * S /\ F \in Nat /\ F > 0 /\ F = R * C
  BY Spans
<1>1. x \in 0 .. R - 1 /\ y \in 0 .. R - 1 /\ z \in 0 .. R - 1 /\ u \in 0 .. R - 1
  BY DEF Byte
<1> HIDE DEF R, S, C, F
<1>2. x + y * R \in 0 .. S - 1
  <2>1. y * R <= (R - 1) * R /\ y * R >= 0 /\ y * R \in Int
    <3>1. (R - 1 - y) * R >= 0
      BY <1>0, <1>1
    <3> QED
      BY <1>0, <1>1, <3>1
  <2>2. (R - 1) * R = S - R
    BY <1>0
  <2> QED
    BY <1>0, <1>1, <2>1, <2>2
<1>3. x + y * R + z * S \in 0 .. C - 1
  <2> DEFINE a == x + y * R
  <2>0. a \in 0 .. S - 1
    BY <1>2
  <2> HIDE DEF a
  <2>1. z * S <= (R - 1) * S /\ z * S >= 0 /\ z * S \in Int
    <3>1. (R - 1 - z) * S >= 0
      BY <1>0, <1>1
    <3> QED
      BY <1>0, <1>1, <3>1
  <2>2. (R - 1) * S = C - S
    BY <1>0
  <2>3. a + z * S \in 0 .. C - 1
    BY <1>0, <1>1, <2>0, <2>1, <2>2
  <2> QED
    BY <2>3 DEF a
<1>4. x + y * R + z * S + u * C \in 0 .. F - 1
  <2> DEFINE a == x + y * R + z * S
  <2>0. a \in 0 .. C - 1
    BY <1>3
  <2> HIDE DEF a
  <2>1. u * C <= (R - 1) * C /\ u * C >= 0 /\ u * C \in Int
    <3>1. (R - 1 - u) * C >= 0
      BY <1>0, <1>1
    <3> QED
      BY <1>0, <1>1, <3>1
  <2>2. (R - 1) * C = F - C
    BY <1>0
  <2>3. a + u * C \in 0 .. F - 1
    BY <1>0, <1>1, <2>0, <2>1, <2>2
  <2> QED
    BY <2>3 DEF a
<1> QED
  BY <1>0, <1>1, <1>2, <1>3, <1>4 DEF Num, R, S, C, F

(* Shifting a number down drops its low digits; the remainder is them.     *)
LEMMA NumCut ==
  ASSUME NEW x \in Byte, NEW y \in Byte, NEW z \in Byte, NEW u \in Byte
  PROVE  /\ Num(x, y, z, u) \in Nat
         /\ Num(x, y, z, u) \div Span(0) = Num(x, y, z, u)
         /\ Num(x, y, z, u) \div Span(1) = Num(y, z, u, 0) /\ Num(x, y, z, u) % Span(1) = Num(x, 0, 0, 0)
         /\ Num(x, y, z, u) \div Span(2) = Num(z, u, 0, 0) /\ Num(x, y, z, u) % Span(2) = Num(x, y, 0, 0)
         /\ Num(x, y, z, u) \div Span(3) = Num(u, 0, 0, 0)
         /\ Num(x, y, z, u) % Span(4) = Num(x, y, z, u)
<1> DEFINE R == ByteSize  S == Span(2)  C == Span(3)  F == Span(4)  w == Num(x, y, z, u)
<1>0. /\ R \in Nat /\ R > 0 /\ Span(1) = R /\ S \in Nat /\ S > 0 /\ S = R * R
      /\ C \in Nat /\ C > 0 /\ C = R * S /\ C = S * R /\ F \in Nat /\ F > 0 /\ Span(0) = 1
  BY Spans
<1>1. x \in Nat /\ y \in Nat /\ z \in Nat /\ u \in Nat /\ 0 \in Byte
  BY <1>0 DEF Byte
<1>2. /\ x \in 0 .. R - 1 /\ x + y * R \in 0 .. S - 1 /\ x + y * R + z * S \in 0 .. C - 1 /\ w \in 0 .. F - 1
      /\ w = x + y * R + z * S + u * C
  BY <1>0, NumBounds DEF Num
<1>3. /\ Num(y, z, u, 0) = y + z * R + u * S /\ Num(z, u, 0, 0) = z + u * R /\ Num(u, 0, 0, 0) = u
      /\ Num(x, 0, 0, 0) = x /\ Num(x, y, 0, 0) = x + y * R
  BY <1>0, <1>1 DEF Num
<1> HIDE DEF R, S, C, F, w
<1>4. w \in Nat /\ w \div Span(0) = w /\ w % F = w
  BY <1>0, <1>2
<1>5. w \div R = y + z * R + u * S /\ w % R = x
  <2> DEFINE q == y + z * R + u * S
  <2>1. q \in Nat /\ w = q * R + x
    BY <1>0, <1>1, <1>2
  <2> HIDE DEF q
  <2>2. w \div R = q /\ w % R = x
    BY <1>0, <1>2, <1>4, <2>1, Division
  <2> QED
    BY <2>2 DEF q
<1>6. w \div S = z + u * R /\ w % S = x + y * R
  <2> DEFINE q == z + u * R  r == x + y * R
  <2>1. q \in Nat /\ w = q * S + r
    BY <1>0, <1>1, <1>2
  <2>2. r \in 0 .. S - 1
    BY <1>2
  <2> HIDE DEF q, r
  <2>3. w \div S = q /\ w % S = r
    BY <1>0, <1>4, <2>1, <2>2, Division
  <2> QED
    BY <2>3 DEF q, r
<1>7. w \div C = u
  <2> DEFINE r == x + y * R + z * S
  <2>1. w = u * C + r /\ r \in 0 .. C - 1
    BY <1>0, <1>1, <1>2
  <2> HIDE DEF r
  <2> QED
    BY <1>0, <1>1, <1>4, <2>1, Division
<1>a. /\ Span(1) = R /\ Span(2) = S /\ Span(3) = C /\ Span(4) = F /\ Num(x, y, z, u) = w
  BY <1>0 DEF S, C, F, w
<1> QED
  BY <1>3, <1>4, <1>5, <1>6, <1>7, <1>a

(* The bytes of a number are its digits.                                   *)
LEMMA NumBytes ==
  ASSUME NEW x \in Byte, NEW y \in Byte, NEW z \in Byte, NEW u \in Byte
  PROVE  /\ ByteOf(Num(x, y, z, u), 0) = x /\ ByteOf(Num(x, y, z, u), 1) = y
         /\ ByteOf(Num(x, y, z, u), 2) = z /\ ByteOf(Num(x, y, z, u), 3) = u
<1>1. 0 \in Byte /\ Span(1) = ByteSize
  BY Spans DEF Byte
<1>2. ASSUME NEW a \in Byte, NEW b \in Byte, NEW c \in Byte, NEW d \in Byte
      PROVE  Num(a, b, c, d) % ByteSize = a
  <2>1. Num(a, b, c, d) % ByteSize = Num(a, 0, 0, 0)
    BY <1>1, NumCut
  <2>2. Num(a, 0, 0, 0) = a
    BY Spans DEF Num, Byte
  <2> QED
    BY <2>1, <2>2
<1>3. /\ Num(x, y, z, u) \div Span(0) = Num(x, y, z, u)
      /\ Num(x, y, z, u) \div Span(1) = Num(y, z, u, 0)
      /\ Num(x, y, z, u) \div Span(2) = Num(z, u, 0, 0)
      /\ Num(x, y, z, u) \div Span(3) = Num(u, 0, 0, 0)
  BY NumCut
<1> QED
  BY <1>1, <1>2, <1>3 DEF ByteOf

(* Every word has digits.                                                  *)
LEMMA Digits ==
  ASSUME NEW w \in LsuWord
  PROVE  \E x, y, z, u \in Byte : w = Num(x, y, z, u)
<1> DEFINE R == ByteSize  S == Span(2)  C == Span(3)  F == Span(4)
           x == w % R  p == w \div R
           y == p % R  q == p \div R
           z == q % R  u == q \div R
<1>0. /\ R \in Nat /\ R > 0 /\ Span(1) = R /\ S \in Nat /\ S > 0 /\ S = R * R
      /\ C \in Nat /\ C > 0 /\ C = R * S /\ C = S * R /\ F \in Nat /\ F > 0 /\ F = R * C
  BY Spans
<1>1. w \in Nat /\ w < F
  BY <1>0 DEF LsuWord, WordSize
<1> HIDE DEF R, S, C, F
<1>2. x \in 0 .. R - 1 /\ p \in Nat /\ w = p * R + x
  BY <1>0, <1>1
<1> HIDE DEF x, p
<1>3. y \in 0 .. R - 1 /\ q \in Nat /\ p = q * R + y
  BY <1>0, <1>2
<1> HIDE DEF y, q
<1>4. z \in 0 .. R - 1 /\ u \in Nat /\ q = u * R + z
  BY <1>0, <1>3
<1> HIDE DEF z, u
<1>5. w = x + y * R + z * S + u * C
  <2>1. p = u * S + z * R + y
    BY <1>0, <1>2, <1>3, <1>4
  <2>2. p * R = u * C + z * S + y * R
    BY <1>0, <1>2, <1>3, <1>4, <2>1
  <2>3. u * C \in Int /\ z * S \in Int /\ y * R \in Int
    BY <1>0, <1>3, <1>4
  <2> QED
    BY <1>1, <1>2, <2>2, <2>3
<1>6. u < R
  <2>1. u * C <= w
    <3>1. y * R >= 0 /\ z * S >= 0 /\ u * C \in Int /\ y * R \in Int /\ z * S \in Int
      BY <1>0, <1>3, <1>4
    <3> QED
      BY <1>1, <1>2, <1>5, <3>1
  <2>2. ASSUME u >= R PROVE FALSE
    <3>1. (u - R) * C >= 0
      BY <1>0, <1>4, <2>2
    <3>2. u * C >= R * C
      BY <1>0, <1>4, <3>1
    <3> QED
      BY <1>0, <1>1, <1>4, <2>1, <3>2
  <2> QED
    BY <1>0, <1>4, <2>2
<1>7. x \in Byte /\ y \in Byte /\ z \in Byte /\ u \in Byte
  BY <1>0, <1>2, <1>3, <1>4, <1>6 DEF Byte, R
<1>8. w = Num(x, y, z, u)
  BY <1>0, <1>5 DEF Num, S, C
<1> QED
  BY <1>7, <1>8

(* Shifting a number up within a word drops its high digits.               *)
LEMMA NumUp ==
  ASSUME NEW x \in Byte, NEW y \in Byte, NEW z \in Byte, NEW u \in Byte
  PROVE  /\ (Num(x, y, z, u) * Span(0)) % Span(4) = Num(x, y, z, u)
         /\ (Num(x, y, z, u) * Span(1)) % Span(4) = Num(0, x, y, z)
         /\ (Num(x, y, z, u) * Span(2)) % Span(4) = Num(0, 0, x, y)
         /\ (Num(x, y, z, u) * Span(3)) % Span(4) = Num(0, 0, 0, x)
<1> DEFINE R == ByteSize  S == Span(2)  C == Span(3)  F == Span(4)  w == Num(x, y, z, u)
<1>0. /\ R \in Nat /\ R > 0 /\ Span(1) = R /\ S \in Nat /\ S > 0 /\ S = R * R
      /\ C \in Nat /\ C > 0 /\ C = R * S /\ C = S * R /\ F \in Nat /\ F > 0 /\ Span(0) = 1
      /\ F = S * S /\ F = R * C /\ F = C * R
  BY Spans
<1>1. x \in Nat /\ y \in Nat /\ z \in Nat /\ u \in Nat /\ 0 \in Byte
  BY <1>0 DEF Byte
<1>2. /\ Num(0, x, y, z) \in 0 .. F - 1 /\ Num(0, 0, x, y) \in 0 .. F - 1 /\ Num(0, 0, 0, x) \in 0 .. F - 1
      /\ w \in 0 .. F - 1
  BY <1>1, NumBounds
<1>3. /\ Num(0, x, y, z) = x * R + y * S + z * C /\ Num(0, 0, x, y) = x * S + y * C /\ Num(0, 0, 0, x) = x * C
      /\ w = x + y * R + z * S + u * C
  BY <1>0, <1>1 DEF Num
<1> HIDE DEF R, S, C, F, w
<1>4. (w * Span(0)) % F = w
  BY <1>0, <1>2
<1>5. (w * R) % F = Num(0, x, y, z)
  <2> DEFINE r == x * R + y * S + z * C
  <2>1. w * R = u * F + r /\ w * R \in Nat
    BY <1>0, <1>1, <1>3
  <2> HIDE DEF r
  <2>2. r \in 0 .. F - 1
    BY <1>2, <1>3 DEF r
  <2> DEFINE v == w * R
  <2>a. v = u * F + r /\ v \in Nat
    BY <2>1
  <2> HIDE DEF v
  <2>3. v % F = r
    <3>1. F \in Nat /\ F > 0 /\ u \in Nat
      BY <1>0, <1>1, <2>1
    <3> QED
      BY <3>1, <2>2, <2>a, Division, ZenonT(60)
  <2> QED
    BY <1>3, <2>3 DEF r, v
<1>6. (w * S) % F = Num(0, 0, x, y)
  <2> DEFINE r == x * S + y * C
             q == z + u * R
  <2>1. w * S = q * F + r /\ w * S \in Nat /\ q \in Nat
    BY <1>0, <1>1, <1>3
  <2> HIDE DEF r, q
  <2>2. r \in 0 .. F - 1
    BY <1>2, <1>3 DEF r
  <2> DEFINE v == w * S
  <2>a. v = q * F + r /\ v \in Nat
    BY <2>1
  <2> HIDE DEF v
  <2>3. v % F = r
    <3>1. F \in Nat /\ F > 0 /\ q \in Nat
      BY <1>0, <1>1, <2>1
    <3> QED
      BY <3>1, <2>2, <2>a, Division, ZenonT(60)
  <2> QED
    BY <1>3, <2>3 DEF r, v
<1>7. (w * C) % F = Num(0, 0, 0, x)
  <2> DEFINE r == x * C
             q == y + z * R + u * S
  <2>1. w * C = q * F + r /\ w * C \in Nat /\ q \in Nat
    BY <1>0, <1>1, <1>3
  <2> HIDE DEF r, q
  <2>2. r \in 0 .. F - 1
    BY <1>2, <1>3 DEF r
  <2> DEFINE v == w * C
  <2>a. v = q * F + r /\ v \in Nat
    BY <2>1
  <2> HIDE DEF v
  <2>3. v % F = r
    <3>1. F \in Nat /\ F > 0 /\ q \in Nat
      BY <1>0, <1>1, <2>1
    <3> QED
      BY <3>1, <2>2, <2>a, Division, ZenonT(60)
  <2> QED
    BY <1>3, <2>3 DEF r, v
<1>a. /\ Span(1) = R /\ Span(2) = S /\ Span(3) = C /\ Span(4) = F /\ Num(x, y, z, u) = w
  BY <1>0 DEF S, C, F, w
<1> QED
  BY <1>4, <1>5, <1>6, <1>7, <1>a

(* An aligned access lies within its word.                                 *)
LEMMA Offsets ==
  ASSUME NEW opt \in Loads \cup Stores, NEW a \in Addr, Aligned(opt, a)
  PROVE  /\ a \in Nat /\ a % 4 \in 0 .. 3 /\ AccessLen(opt) \in {1, 2, 4}
         /\ AccessLen(opt) = 2 => a % 4 \in {0, 2}
         /\ AccessLen(opt) = 4 => a % 4 = 0
         /\ (a % 4) + AccessLen(opt) <= 4
<1>1. a \in Nat
  BY LanesAssumption DEF Addr
<1>2. AccessLen(opt) \in {1, 2, 4}
  BY DEF AccessLen
<1>3. a % AccessLen(opt) = 0
  BY DEF Aligned
<1>4. AccessLen(opt) = 2 => a % 4 \in {0, 2}
  BY <1>1, <1>3
<1>5. AccessLen(opt) = 4 => a % 4 = 0
  BY <1>1, <1>3
<1> QED
  BY <1>1, <1>2, <1>4, <1>5

(* The lanes that are written are those of the bytes of the access.        *)
LEMMA LanesWritten ==
  ASSUME NEW a \in Nat, NEW c \in Nat, NEW n \in 1 .. 4, (a % 4) + n <= 4
  PROVE  /\ (Base(c) = Base(a) /\ c % 4 \in {l + (a % 4) : l \in 0 .. n - 1} \cap Lanes) <=> c \in a .. a + n - 1
         /\ c \in a .. a + n - 1 => c % 4 = (a % 4) + (c - a)
<1>1. /\ a % 4 \in 0 .. 3 /\ c % 4 \in 0 .. 3
  OBVIOUS
<1>2. ASSUME c \in a .. a + n - 1 PROVE c % 4 = (a % 4) + (c - a) /\ Base(c) = Base(a)
  BY <1>2 DEF Base
<1>3. ASSUME Base(c) = Base(a), NEW l \in 0 .. n - 1, c % 4 = l + (a % 4) PROVE c \in a .. a + n - 1
  BY <1>1, <1>3 DEF Base
<1>4. ASSUME c \in a .. a + n - 1 PROVE c % 4 \in {l + (a % 4) : l \in 0 .. n - 1} \cap Lanes
  <2>1. c - a \in 0 .. n - 1 /\ c % 4 = (c - a) + (a % 4) /\ c % 4 \in Lanes
    BY <1>1, <1>2, <1>4 DEF Lanes
  <2> QED
    BY <2>1
<1> QED
  BY <1>2, <1>3, <1>4

(* The masks of aligned stores are ones that pmem_write knows.             *)
LEMMA MaskKnown ==
  ASSUME NEW opt \in Stores, NEW a \in Addr, Aligned(opt, a)
  PROVE  wstrb(opt, a) \in KnownMasks
<1> DEFINE n == AccessLen(opt)  o == a % 4
<1>1. /\ o \in 0 .. 3 /\ n \in {1, 2, 4} /\ (n = 2 => o \in {0, 2}) /\ (n = 4 => o = 0)
  BY Offsets
<1>2. wstrb(opt, a) = {l + o : l \in 0 .. n - 1} \cap Lanes
  BY DEF wstrb
<1> HIDE DEF n, o
<1>3. CASE n = 1
  <2>1. {l + o : l \in 0 .. n - 1} = {o}
    <3>1. 0 .. n - 1 = {0} /\ 0 + o = o
      BY <1>1, <1>3
    <3>2. {l + o : l \in {0}} = {o}
      BY <3>1
    <3> QED
      BY <3>1, <3>2, Zenon
  <2>2. wstrb(opt, a) = {o} /\ o \in Lanes
    BY <1>1, <1>2, <2>1 DEF Lanes
  <2> QED
    BY <2>2, Zenon DEF KnownMasks
<1>4. CASE n = 2
  <2>1. {l + o : l \in 0 .. n - 1} = {o, o + 1}
    <3>1. 0 .. n - 1 = {0, 1} /\ 0 + o = o /\ 1 + o = o + 1
      BY <1>1, <1>4
    <3>2. {l + o : l \in {0, 1}} = {o, o + 1}
      BY <3>1, Zenon
    <3> QED
      BY <3>1, <3>2, Zenon
  <2>2. wstrb(opt, a) = {o, o + 1}
    BY <1>1, <1>2, <1>4, <2>1 DEF Lanes
  <2>3. wstrb(opt, a) = {0, 1} \/ wstrb(opt, a) = {2, 3}
    BY <1>1, <1>4, <2>2
  <2> QED
    BY <2>3 DEF KnownMasks
<1>5. CASE n = 4
  <2>1. 0 .. n - 1 = Lanes
    BY <1>5 DEF Lanes
  <2>2. {l + o : l \in Lanes} = Lanes
    BY <1>1, <1>5 DEF Lanes
  <2>3. wstrb(opt, a) = Lanes
    BY <1>2, <2>1, <2>2
  <2> QED
    BY <2>3 DEF KnownMasks
<1> QED
  BY <1>1, <1>3, <1>4, <1>5

(* What a store puts in the lanes are the bytes of the register.           *)
LEMMA BytesStored ==
  ASSUME NEW opt \in Stores, NEW a \in Addr, NEW regst \in LsuWord, Aligned(opt, a),
         NEW j \in 0 .. AccessLen(opt) - 1
  PROVE  /\ ByteOf(wdata_int(regst, a), (a % 4) + j) = ByteOf(Low(regst, AccessLen(opt)), j)
         /\ ByteOf(Low(regst, AccessLen(opt)), j) \in Byte
<1> DEFINE n == AccessLen(opt)  o == a % 4
<1>1. /\ o \in 0 .. 3 /\ n \in {1, 2, 4} /\ (n = 2 => o \in {0, 2}) /\ (n = 4 => o = 0) /\ j \in 0 .. n - 1
  BY Offsets
<1>2. PICK x \in Byte, y \in Byte, z \in Byte, u \in Byte : regst = Num(x, y, z, u)
  BY Digits
<1>3. 0 \in Byte
  BY Spans DEF Byte
<1>4. wdata_int(regst, a) = CASE o = 0 -> Num(x, y, z, u) [] o = 1 -> Num(0, x, y, z)
                              [] o = 2 -> Num(0, 0, x, y) [] o = 3 -> Num(0, 0, 0, x)
  BY <1>1, <1>2, NumUp DEF wdata_int, WordSize
<1>5. Low(regst, n) = CASE n = 1 -> Num(x, 0, 0, 0) [] n = 2 -> Num(x, y, 0, 0) [] n = 4 -> Num(x, y, z, u)
  BY <1>1, <1>2, NumCut DEF Low
<1> HIDE DEF n, o
<1>6. CASE n = 1
  <2>1. j = 0 /\ Low(regst, n) = Num(x, 0, 0, 0)
    BY <1>1, <1>5, <1>6
  <2>2. ByteOf(Low(regst, n), j) = x
    BY <1>3, <2>1, NumBytes
  <2>3. o + j = o
    BY <1>1, <2>1
  <2>4. ByteOf(wdata_int(regst, a), o) = x
    <3>1. CASE o = 0
      BY <1>4, <3>1, NumBytes
    <3>2. CASE o = 1
      BY <1>3, <1>4, <3>2, NumBytes
    <3>3. CASE o = 2
      BY <1>3, <1>4, <3>3, NumBytes
    <3>4. CASE o = 3
      BY <1>3, <1>4, <3>4, NumBytes
    <3> QED
      BY <1>1, <3>1, <3>2, <3>3, <3>4
  <2> QED
    BY <2>2, <2>3, <2>4 DEF n, o
<1>7. CASE n = 2
  <2>1. j \in {0, 1} /\ Low(regst, n) = Num(x, y, 0, 0)
    BY <1>1, <1>5, <1>7
  <2>2. ByteOf(Low(regst, n), j) = IF j = 0 THEN x ELSE y
    BY <1>3, <2>1, NumBytes
  <2>3. ByteOf(wdata_int(regst, a), o + j) = IF j = 0 THEN x ELSE y
    <3>1. CASE o = 0
      <4>1. wdata_int(regst, a) = Num(x, y, z, u) /\ (j = 0 => o + j = 0) /\ (j = 1 => o + j = 1)
        BY <1>4, <3>1
      <4> QED
        BY <2>1, <4>1, NumBytes
    <3>2. CASE o = 2
      <4>1. wdata_int(regst, a) = Num(0, 0, x, y) /\ (j = 0 => o + j = 2) /\ (j = 1 => o + j = 3)
        BY <1>4, <3>2
      <4> QED
        BY <1>3, <2>1, <4>1, NumBytes
    <3> QED
      BY <1>1, <1>7, <3>1, <3>2
  <2> QED
    BY <2>1, <2>2, <2>3 DEF n, o
<1>8. CASE n = 4
  <2>1. o = 0 /\ o + j = j /\ Low(regst, n) = Num(x, y, z, u) /\ wdata_int(regst, a) = Num(x, y, z, u)
    BY <1>1, <1>4, <1>5, <1>8
  <2>2. j \in 0 .. 3
    BY <1>1, <1>8
  <2>3. ByteOf(Num(x, y, z, u), j) \in Byte
    BY <2>2, NumBytes
  <2> QED
    BY <2>1, <2>3 DEF n, o
<1> QED
  BY <1>1, <1>6, <1>7, <1>8

(* A store changes the simulated memory as it changes NEMU's.              *)
LEMMA StoresSame ==
  ASSUME NEW opt \in Stores, NEW a \in Addr, NEW regst \in LsuWord, Aligned(opt, a), NEW m \in [Addr -> Byte]
  PROVE  /\ pmem_write(m, a, wdata_int(regst, a), wstrb(opt, a)) =
              host_write(m, a, AccessLen(opt), Low(regst, AccessLen(opt)))
         /\ host_write(m, a, AccessLen(opt), Low(regst, AccessLen(opt))) \in [Addr -> Byte]
<1> DEFINE n == AccessLen(opt)
           w == wdata_int(regst, a)
           v == Low(regst, n)
           k == wstrb(opt, a)
<1>1. a \in Nat /\ n \in 1 .. 4 /\ (a % 4) + n <= 4
  BY Offsets
<1>2. k \in KnownMasks
  BY MaskKnown
<1>3. ASSUME NEW c \in Addr
      PROVE  /\ (IF k \in KnownMasks /\ Base(c) = Base(a) /\ c % 4 \in k THEN ByteOf(w, c % 4) ELSE m[c])
                  = (IF c \in a .. a + n - 1 THEN ByteOf(v, c - a) ELSE m[c])
             /\ (IF c \in a .. a + n - 1 THEN ByteOf(v, c - a) ELSE m[c]) \in Byte
  <2>0. c \in Nat
    BY LanesAssumption DEF Addr
  <2>1. (Base(c) = Base(a) /\ c % 4 \in k) <=> c \in a .. a + n - 1
    BY <1>1, <2>0, LanesWritten DEF wstrb
  <2>2. CASE c \in a .. a + n - 1
    <3> DEFINE j == c - a
    <3>1. j \in 0 .. n - 1 /\ c % 4 = (a % 4) + j
      <4> HIDE DEF n
      <4>1. c % 4 = (a % 4) + (c - a)
        BY <1>1, <2>0, <2>2, LanesWritten
      <4> QED
        BY <1>1, <2>0, <2>2, <4>1
    <3>2. ByteOf(w, c % 4) = ByteOf(v, j) /\ ByteOf(v, j) \in Byte
      <4> HIDE DEF j
      <4> QED
        BY <3>1, BytesStored
    <3> HIDE DEF k, w, v, n
    <3> QED
      BY <1>2, <2>1, <2>2, <3>2
  <2>3. CASE c \notin a .. a + n - 1
    <3> HIDE DEF k, w, v, n
    <3> QED
      BY <2>1, <2>3
  <2> QED
    BY <2>2, <2>3
<1>4. /\ pmem_write(m, a, w, k) = [c \in Addr |-> IF k \in KnownMasks /\ Base(c) = Base(a) /\ c % 4 \in k
                                                   THEN ByteOf(w, c % 4) ELSE m[c]]
      /\ host_write(m, a, n, v) = [c \in Addr |-> IF c \in a .. a + n - 1 THEN ByteOf(v, c - a) ELSE m[c]]
  BY DEF pmem_write, host_write
<1> HIDE DEF k, w, v, n
<1>5. pmem_write(m, a, w, k) = host_write(m, a, n, v) /\ host_write(m, a, n, v) \in [Addr -> Byte]
  BY <1>3, <1>4
<1> QED
  BY <1>5 DEF k, w, v, n

(* What the bus delivers, shifted down, holds the bytes at the address in  *)
(* its low digits.                                                         *)
LEMMA BytesLoaded ==
  ASSUME NEW opt \in Loads, NEW a \in Addr, Aligned(opt, a), NEW m \in [Addr -> Byte]
  PROVE  LET d == rdata_int(pmem_read(m, a), a)
             n == AccessLen(opt)
         IN /\ Low(d, n) = host_read(m, a, n) /\ Low(host_read(m, a, n), n) = host_read(m, a, n)
            /\ n = 4 => d = host_read(m, a, n)
<1> DEFINE d == rdata_int(pmem_read(m, a), a)
           n == AccessLen(opt)
           o == a % 4
           p == Base(a)
<1>1. a \in Nat /\ o \in 0 .. 3 /\ n \in {1, 2, 4} /\ (n = 2 => o \in {0, 2}) /\ (n = 4 => o = 0)
  BY Offsets
<1>2. p \in Nat /\ a = p + o /\ p \in Addr /\ p + 1 \in Addr /\ p + 2 \in Addr /\ p + 3 \in Addr /\ p + 0 = p
  <2>1. a \in 0 .. 4 * NWords - 1 /\ NWords \in Nat
    BY LanesAssumption DEF Addr
  <2>2. a - (a % 4) >= 0 /\ a - (a % 4) + 3 <= 4 * NWords - 1
    BY <2>1
  <2> QED
    BY <1>1, <2>1, <2>2 DEF Base, Addr
<1> DEFINE x == m[p]  y == m[p + 1]  z == m[p + 2]  u == m[p + 3]
<1>3. x \in Byte /\ y \in Byte /\ z \in Byte /\ u \in Byte /\ 0 \in Byte
  BY <1>2, Spans DEF Byte
<1>4. pmem_read(m, a) = Num(x, y, z, u)
  BY <1>2 DEF pmem_read, WordOf, Num, Lanes
<1>5. host_read(m, a, n) = CASE n = 1 -> Num(m[a], 0, 0, 0) [] n = 2 -> Num(m[a], m[a + 1], 0, 0)
                             [] n = 4 -> Num(m[a], m[a + 1], m[a + 2], m[a + 3])
  <2>1. a + 0 = a
    BY <1>1
  <2> HIDE DEF n
  <2> DEFINE g == [l \in Lanes |-> IF l < n THEN m[a + l] ELSE 0]
  <2>a. host_read(m, a, n) = Num(g[0], g[1], g[2], g[3])
    BY DEF host_read, WordOf, Num
  <2>b. /\ g[0] = (IF 0 < n THEN m[a] ELSE 0) /\ g[1] = (IF 1 < n THEN m[a + 1] ELSE 0)
        /\ g[2] = (IF 2 < n THEN m[a + 2] ELSE 0) /\ g[3] = (IF 3 < n THEN m[a + 3] ELSE 0)
    BY <2>1 DEF Lanes
  <2> HIDE DEF g
  <2>2. CASE n = 1
    BY <2>a, <2>b, <2>2
  <2>3. CASE n = 2
    BY <2>a, <2>b, <2>3
  <2>4. CASE n = 4
    BY <2>a, <2>b, <2>4
  <2> QED
    BY <1>1, <2>2, <2>3, <2>4
<1>6. d = CASE o = 0 -> Num(x, y, z, u) [] o = 1 -> Num(y, z, u, 0)
            [] o = 2 -> Num(z, u, 0, 0) [] o = 3 -> Num(u, 0, 0, 0)
  BY <1>1, <1>3, <1>4, NumCut DEF rdata_int
<1> HIDE DEF d, n, o, p
<1>7. CASE n = 1
  <2> DEFINE b == m[a]
  <2>1. b = (CASE o = 0 -> x [] o = 1 -> y [] o = 2 -> z [] o = 3 -> u) /\ host_read(m, a, n) = Num(b, 0, 0, 0)
    BY <1>1, <1>2, <1>5, <1>7
  <2> HIDE DEF x, y, z, u, b
  <2>2. \E e, f, g \in Byte : d = Num(b, e, f, g)
    <3>1. CASE o = 0
      BY <1>3, <1>6, <2>1, <3>1
    <3>2. CASE o = 1
      BY <1>3, <1>6, <2>1, <3>2
    <3>3. CASE o = 2
      BY <1>3, <1>6, <2>1, <3>3
    <3>4. CASE o = 3
      BY <1>3, <1>6, <2>1, <3>4
    <3> QED
      BY <1>1, <3>1, <3>2, <3>3, <3>4
  <2>3. b \in Byte
    BY <1>1, <1>3, <2>1
  <2>4. PICK e \in Byte, f \in Byte, g \in Byte : d = Num(b, e, f, g)
    BY <2>2
  <2>5. Num(b, e, f, g) % Span(1) = Num(b, 0, 0, 0) /\ Num(b, 0, 0, 0) % Span(1) = Num(b, 0, 0, 0)
    BY <1>3, <2>3, NumCut
  <2>6. Low(d, 1) = Num(b, 0, 0, 0) /\ Low(Num(b, 0, 0, 0), 1) = Num(b, 0, 0, 0)
    BY <2>4, <2>5 DEF Low
  <2>7. /\ Low(d, n) = host_read(m, a, n) /\ Low(host_read(m, a, n), n) = host_read(m, a, n)
        /\ n # 4
    <3>1. host_read(m, a, n) = Num(b, 0, 0, 0)
      BY <2>1
    <3>2. Low(d, n) = host_read(m, a, n)
      BY <1>7, <2>6, <3>1, Zenon
    <3>3. Low(host_read(m, a, n), n) = host_read(m, a, n)
      BY <1>7, <2>6, <3>1, Zenon
    <3> QED
      BY <1>7, <3>2, <3>3
  <2> QED
    BY <2>7 DEF d, n
<1>8. CASE n = 2
  <2> DEFINE b == m[a]  c == m[a + 1]
  <2>0. o \in {0, 2} /\ (o = 0 => a = p /\ a + 1 = p + 1) /\ (o = 2 => a = p + 2 /\ a + 1 = p + 3)
    BY <1>1, <1>2, <1>8
  <2>1. b = (IF o = 0 THEN x ELSE z) /\ c = (IF o = 0 THEN y ELSE u) /\ host_read(m, a, n) = Num(b, c, 0, 0)
    BY <1>1, <1>2, <1>5, <1>8, <2>0
  <2> HIDE DEF x, y, z, u, b, c
  <2>2. \E f, g \in Byte : d = Num(b, c, f, g)
    <3>1. CASE o = 0
      BY <1>3, <1>6, <2>1, <3>1
    <3>3. CASE o = 2
      BY <1>3, <1>6, <2>1, <3>3
    <3> QED
      BY <2>0, <3>1, <3>3
  <2>3. b \in Byte /\ c \in Byte
    BY <1>3, <2>1
  <2>4. PICK f \in Byte, g \in Byte : d = Num(b, c, f, g)
    BY <2>2
  <2>5. Num(b, c, f, g) % Span(2) = Num(b, c, 0, 0) /\ Num(b, c, 0, 0) % Span(2) = Num(b, c, 0, 0)
    BY <1>3, <2>3, NumCut
  <2>6. Low(d, 2) = Num(b, c, 0, 0) /\ Low(Num(b, c, 0, 0), 2) = Num(b, c, 0, 0)
    BY <2>4, <2>5 DEF Low
  <2> QED
    BY <1>8, <2>1, <2>6 DEF d, n
<1>9. CASE n = 4
  <2>1. o = 0 /\ a = p
    BY <1>1, <1>2, <1>9
  <2>2. host_read(m, a, n) = Num(x, y, z, u) /\ d = Num(x, y, z, u)
    BY <1>5, <1>6, <1>9, <2>1
  <2>3. Num(x, y, z, u) % Span(4) = Num(x, y, z, u)
    BY <1>3, NumCut
  <2> QED
    BY <1>9, <2>2, <2>3 DEF Low, d, n
<1> QED
  BY <1>1, <1>7, <1>8, <1>9

(* A load delivers what NEMU's delivers.                                   *)
LEMMA LoadsSame ==
  ASSUME NEW opt \in Loads, NEW a \in Addr, Aligned(opt, a), NEW m \in [Addr -> Byte]
  PROVE  regld(opt, pmem_read(m, a), a) = NemuLoad(opt, m, a)
<1> DEFINE d == rdata_int(pmem_read(m, a), a)
           v == host_read(m, a, AccessLen(opt))
<1>1. /\ Low(d, AccessLen(opt)) = v /\ Low(v, AccessLen(opt)) = v
      /\ AccessLen(opt) = 4 => d = v
  BY BytesLoaded
<1>2. SignExt(d, AccessLen(opt)) = SignExt(v, AccessLen(opt))
  BY <1>1 DEF SignExt
<1>3. NemuLoad(opt, m, a) = IF opt \in {"LB", "LH"} THEN SignExt(v, AccessLen(opt)) ELSE v
  BY DEF NemuLoad
<1>4. regld(opt, pmem_read(m, a), a) =
        CASE opt = "LB" -> SignExt(d, 1) [] opt = "LH" -> SignExt(d, 2) [] opt = "LW" -> d
          [] opt = "LBU" -> Low(d, 1) [] opt = "LHU" -> Low(d, 2)
  BY DEF regld
<1> HIDE DEF d, v
<1>5. /\ opt \in {"LB", "LBU"} => AccessLen(opt) = 1
      /\ opt \in {"LH", "LHU"} => AccessLen(opt) = 2
      /\ opt = "LW" => AccessLen(opt) = 4
  BY DEF AccessLen
<1>6. opt \in {"LB", "LH", "LW", "LBU", "LHU"}
  BY DEF Loads
<1> QED
  BY <1>1, <1>2, <1>3, <1>4, <1>5, <1>6

(* The simulated memory holds bytes, and LanesMatchNemu.                   *)
LsuInv == pmem \in [Addr -> Byte] /\ LanesMatchNemu

(* No sequence of aligned loads and stores of any width tells the core's   *)
(* byte lanes from NEMU's: the memories hold the same bytes and every load *)
(* delivers the same word, sign included, for every size of byte and of    *)
(* memory.                                                                 *)
THEOREM LanesCorrect == LsuSpec => []LanesMatchNemu
<1>1. LsuInit => LsuInv
  <2>1. 0 \in Byte
    BY Spans DEF Byte
  <2> QED
    BY <2>1 DEF LsuInit, LsuInv, LanesMatchNemu, SameBytes, SameLoad
<1>2. LsuInv /\ [LsuNext]_lsuVars => LsuInv'
  <2> SUFFICES ASSUME LsuInv, [LsuNext]_lsuVars PROVE LsuInv'
    OBVIOUS
  <2>0. pmem \in [Addr -> Byte] /\ ref_pmem = pmem /\ o_regld = ref_ld
    BY DEF LsuInv, LanesMatchNemu, SameBytes, SameLoad
  <2>1. ASSUME NEW opt \in Stores, NEW a \in Addr, NEW regst \in LsuWord, Store(opt, a, regst) PROVE LsuInv'
    <3>1. /\ Aligned(opt, a) /\ pmem' = pmem_write(pmem, a, wdata_int(regst, a), wstrb(opt, a))
          /\ ref_pmem' = host_write(pmem, a, AccessLen(opt), Low(regst, AccessLen(opt)))
          /\ o_regld' = o_regld /\ ref_ld' = ref_ld
      BY <2>0, <2>1 DEF Store
    <3>2. pmem' = ref_pmem' /\ pmem' \in [Addr -> Byte]
      BY <2>0, <3>1, StoresSame
    <3> QED
      BY <2>0, <3>1, <3>2 DEF LsuInv, LanesMatchNemu, SameBytes, SameLoad
  <2>2. ASSUME NEW opt \in Loads, NEW a \in Addr, Load(opt, a) PROVE LsuInv'
    <3>1. /\ Aligned(opt, a) /\ o_regld' = regld(opt, pmem_read(pmem, a), a)
          /\ ref_ld' = NemuLoad(opt, pmem, a) /\ pmem' = pmem /\ ref_pmem' = ref_pmem
      BY <2>0, <2>2 DEF Load
    <3>2. o_regld' = ref_ld'
      BY <2>0, <3>1, LoadsSame
    <3> QED
      BY <2>0, <3>1, <3>2 DEF LsuInv, LanesMatchNemu, SameBytes, SameLoad
  <2>3. CASE UNCHANGED lsuVars
    BY <2>0, <2>3 DEF lsuVars, LsuInv, LanesMatchNemu, SameBytes, SameLoad
  <2> QED
    BY <2>1, <2>2, <2>3 DEF LsuNext
<1>3. LsuInv => LanesMatchNemu
  BY DEF LsuInv
<1> QED
  BY <1>1, <1>2, <1>3, PTL DEF LsuSpec
=============================================================================
