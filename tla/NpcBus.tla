------------------------------- MODULE NpcBus --------------------------------
(***************************************************************************)
(* The AXI interconnect between the fetch unit, the instruction cache and  *)
(* the load/store unit on one side and memory and devices on the other     *)
(* (amba/axi_interconnect.v), with its round-robin arbiter                 *)
(* (amba/arbiter.v), clock by clock: one transaction at a time is granted, *)
(* decoded, forwarded and answered.                                        *)
(*                                                                         *)
(* Port 2m of the arbiter is the write channel of master m, port 2m + 1    *)
(* its read channel.  A one-bit signal per master or slave is a set, or a  *)
(* single one or None where the code drives at most one.  Writes have one  *)
(* beat, the only kind the load/store unit makes.                          *)
(*                                                                         *)
(* Masters and slaves are what the bus protocol promises of them: a valid  *)
(* stays up until it is accepted; readiness, and the time a slave takes,   *)
(* are chosen freely in every cycle.                                       *)
(***************************************************************************)
EXTENDS Integers, FiniteSetsExt

CONSTANTS
  S_COUNT,         \* masters, numbered from 0
  Writers,         \* the masters that write (the load/store unit)
  MaxLen,          \* largest arlen
  Slaves,
  Mute,            \* the slaves that answer no write (the timer, see BReply)
  WriteTargets,    \* where the programs write to
  Unmapped, None

Masters == 0 .. S_COUNT - 1
Ports == 0 .. 2 * S_COUNT - 1

ASSUME BusAssumption ==
  /\ S_COUNT \in Nat \ {0}
  /\ Writers \subseteq Masters /\ MaxLen \in 0 .. 255
  /\ Mute \subseteq Slaves /\ WriteTargets \subseteq Slaves \cup {Unmapped}
  /\ Unmapped \notin Slaves /\ None \notin Slaves \cup Ports \cup {Unmapped, 0, 1}

(* A read and a write of a master, and a burst of a slave.                 *)
Reading == [to : Slaves \cup {Unmapped}, len : 0 .. MaxLen, beat : 0 .. MaxLen, ar : BOOLEAN]
Writing == [to : WriteTargets, data : {0, 1}, aw : BOOLEAN, w : BOOLEAN]
Burst == [beat : 0 .. MaxLen, len : 0 .. MaxLen]

ASSUME NoneAssumption == None \notin Reading \cup Writing \cup Burst

VARIABLES
  rd,   \* per master: its read [to, len, beat, ar], or None
  wr,   \* per master: its write [to, data, aw, w], or None
  arb,  \* the arbiter: grant, a port or None, and mask, a set of ports
  bus,  \* the registers of the interconnect
  rq,   \* its buffer for read data, towards the masters
  wq,   \* its buffer for write data, towards the slaves
  sl,   \* the slaves
  written   \* history: the last word each slave has written

busVars == <<rd, wr, arb, bus, rq, wq, sl, written>>

NoData == [from |-> None, beat |-> 0, last |-> FALSE]

-----------------------------------------------------------------------------
(* The buffer of a data channel: an output register and a spare one, so    *)
(* that `ready' can be registered.  q is the buffer, `to' who is selected, *)
(* `sink' its readiness, x the incoming item or `empty'.                   *)

Early(q, to, sink, x, empty) == sink \/ (q.temp = empty /\ (to \notin q.valid \/ x = empty))

Output(q, to, x, empty) ==
  [q EXCEPT !.valid = IF x = empty THEN @ \ {to} ELSE @ \cup {to}, !.out = x]

(* Mutation: an item that finds the output register busy replaces it.      *)
Skid_no_temp(q, to, sink, x, empty) ==
  [Output(q, to, x, empty) EXCEPT !.ready = Early(q, to, sink, x, empty)]

Skid(q, to, sink, x, empty) ==
  LET moved == IF q.ready
               THEN IF sink \/ to \notin q.valid THEN Output(q, to, x, empty)
                                                 ELSE [q EXCEPT !.temp = x]
               ELSE IF sink THEN [Output(q, to, q.temp, empty) EXCEPT !.temp = empty]
               ELSE q
  IN [moved EXCEPT !.ready = Early(q, to, sink, x, empty)]

-----------------------------------------------------------------------------
(* Signals.  e holds the free choices of a cycle: the readiness of the     *)
(* masters (rready, bready) and of the slaves (a for an address, w), and   *)
(* whether a slave has its next read beat (r) or its write response (b).   *)

Env == [{"rready", "bready", "a", "w", "r", "b"} -> BOOLEAN]

s_select == IF arb.grant = None THEN 0 ELSE arb.grant \div 2
read == arb.grant # None /\ arb.grant % 2 = 1

ArReady(v, e) == e.a /\ sl[v].r = None
AwReady(v, e) == e.a /\ ~sl[v].aw
WReady(v, e) == e.w /\ sl[v].w = None

(* The beat that enters the read buffer, and the word that enters the      *)
(* write buffer.                                                           *)
rInt ==
  IF bus.state = "READ_DROP"
    THEN [from |-> Unmapped, beat |-> 0, last |-> bus.len = 0]
  ELSE IF bus.state = "READ" /\ bus.m_rready = bus.sel /\ sl[bus.sel].r # None /\ sl[bus.sel].rvalid
    THEN [from |-> bus.sel, beat |-> sl[bus.sel].r.beat, last |-> sl[bus.sel].r.beat = sl[bus.sel].r.len]
  ELSE NoData
wHandshake == bus.wready = s_select /\ wr[s_select] # None /\ wr[s_select].w
wInt == IF bus.state = "WRITE" /\ wHandshake THEN wr[s_select].data ELSE None

rEarly(e) == Early(rq, s_select, e.rready, rInt, NoData)
wEarly(e) == Early(wq, bus.sel, WReady(bus.sel, e), wInt, None)

(* acknowledge: the granted transaction ends.                              *)
acknowledge(e) ==
  /\ arb.grant # None
  /\ IF read THEN s_select \in rq.valid /\ e.rready /\ rq.out.last
             ELSE s_select \in bus.bvalid /\ e.bready

-----------------------------------------------------------------------------
(* The arbiter.                                                            *)

request == {2 * m : m \in {n \in Masters : wr[n] # None /\ wr[n].aw}}
             \cup {2 * m + 1 : m \in {n \in Masters : rd[n] # None /\ rd[n].ar}}

(* Held until acknowledged; then the lowest requesting port above the one  *)
(* granted last, or the lowest of all.                                     *)
arbiter(e) ==
  IF arb.grant # None /\ ~acknowledge(e) THEN arb
  ELSE IF request = {} THEN [arb EXCEPT !.grant = None]
  ELSE LET g == IF request \cap arb.mask # {} THEN Min(request \cap arb.mask) ELSE Min(request)
       IN [grant |-> g, mask |-> {p \in Ports : p > g}]

-----------------------------------------------------------------------------
(* The state machine.  Defaults is what every state does unless it says    *)
(* otherwise.                                                              *)

Defaults(e) ==
  [bus EXCEPT !.awready = None, !.wready = None, !.arready = None,
              !.bvalid = IF e.bready THEN {} ELSE @,
              !.m_awvalid = {v \in @ : ~AwReady(v, e)}, !.m_bready = None,
              !.m_arvalid = {v \in @ : ~ArReady(v, e)}, !.m_rready = None]

Only(b, x) == IF b THEN x ELSE None

STATE_IDLE(d) ==
  IF arb.grant = None THEN d
  ELSE IF read THEN [d EXCEPT !.addr_valid = TRUE, !.addr = rd[s_select].to, !.len = rd[s_select].len,
                              !.arready = s_select, !.state = "DECODE"]
  ELSE [d EXCEPT !.addr_valid = TRUE, !.addr = wr[s_select].to, !.len = 0,
                 !.awready = s_select, !.state = "DECODE"]

(* The ready bits raised here still go by the slave selected before.       *)
STATE_DECODE(d, e) ==
  IF bus.addr \in Slaves
  THEN IF read THEN [d EXCEPT !.sel = bus.addr, !.m_rready = Only(rEarly(e), bus.sel), !.state = "READ"]
               ELSE [d EXCEPT !.sel = bus.addr, !.wready = Only(wEarly(e), s_select), !.state = "WRITE"]
  ELSE IF read THEN [d EXCEPT !.state = "READ_DROP"]
       ELSE [d EXCEPT !.bresp = "DECERR", !.wready = s_select, !.state = "WRITE_DROP"]

STATE_WRITE(d, e) ==
  LET fwd == [d EXCEPT !.m_awvalid = IF bus.addr_valid THEN @ \cup {bus.sel} ELSE @, !.addr_valid = FALSE]
  IN IF wHandshake THEN [fwd EXCEPT !.m_bready = bus.sel, !.state = "WRITE_RESP"]
                   ELSE [fwd EXCEPT !.wready = Only(wEarly(e), s_select)]

STATE_WRITE_RESP(d) ==
  IF bus.m_bready = bus.sel /\ sl[bus.sel].b
  THEN [d EXCEPT !.bresp = "OKAY", !.bvalid = @ \cup {s_select}, !.state = "WAIT_IDLE"]
  ELSE [d EXCEPT !.m_bready = bus.sel]

STATE_WRITE_DROP(d) ==
  LET off == [d EXCEPT !.addr_valid = FALSE]
  IN IF wHandshake THEN [off EXCEPT !.bvalid = @ \cup {s_select}, !.state = "WAIT_IDLE"]
                   ELSE [off EXCEPT !.wready = s_select]

STATE_READ(d, e) ==
  LET fwd == [d EXCEPT !.m_arvalid = IF bus.addr_valid THEN @ \cup {bus.sel} ELSE @, !.addr_valid = FALSE]
  IN IF rInt # NoData /\ rInt.last THEN [fwd EXCEPT !.state = "WAIT_IDLE"]
                                   ELSE [fwd EXCEPT !.m_rready = Only(rEarly(e), bus.sel)]

STATE_READ_DROP(d) ==
  IF rq.ready THEN [d EXCEPT !.len = (bus.len - 1) % 256,
                             !.state = IF bus.len = 0 THEN "WAIT_IDLE" ELSE @]
  ELSE d

(* Mutation: an acknowledged grant that passes to the next port at once    *)
(* goes unnoticed.                                                         *)
STATE_WAIT_IDLE_ungranted(d, e) ==
  IF arb.grant = None THEN [d EXCEPT !.state = "IDLE"] ELSE d

STATE_WAIT_IDLE(d, e) ==
  IF arb.grant = None \/ acknowledge(e) THEN [d EXCEPT !.state = "IDLE"] ELSE d

Bus(e) ==
  LET d == Defaults(e)
  IN CASE bus.state = "IDLE"       -> STATE_IDLE(d)
       [] bus.state = "DECODE"     -> STATE_DECODE(d, e)
       [] bus.state = "WRITE"      -> STATE_WRITE(d, e)
       [] bus.state = "WRITE_RESP" -> STATE_WRITE_RESP(d)
       [] bus.state = "WRITE_DROP" -> STATE_WRITE_DROP(d)
       [] bus.state = "READ"       -> STATE_READ(d, e)
       [] bus.state = "READ_DROP"  -> STATE_READ_DROP(d)
       [] bus.state = "WAIT_IDLE"  -> STATE_WAIT_IDLE(d, e)

-----------------------------------------------------------------------------
(* Masters and slaves at the clock edge.                                   *)

ReadMaster(m, e) ==
  LET r == rd[m]
  IN IF r = None THEN None
     ELSE IF m \in rq.valid /\ e.rready
       THEN IF rq.out.last THEN None ELSE [r EXCEPT !.beat = @ + 1]
     ELSE [r EXCEPT !.ar = @ /\ bus.arready # m]

WriteMaster(m, e) ==
  IF wr[m] = None \/ (m \in bus.bvalid /\ e.bready) THEN None
  ELSE [wr[m] EXCEPT !.aw = @ /\ bus.awready # m, !.w = @ /\ bus.wready # m]

(* The read side of slave v: a beat is offered until it is taken.          *)
SlaveRead(s, v, e) ==
  IF v \in bus.m_arvalid /\ ArReady(v, e)
    THEN [s EXCEPT !.r = [beat |-> 0, len |-> bus.len], !.rvalid = FALSE]
  ELSE IF s.r # None /\ s.rvalid /\ bus.m_rready = v
    THEN [s EXCEPT !.rvalid = FALSE,
                   !.r = IF s.r.beat = s.r.len THEN None ELSE [s.r EXCEPT !.beat = @ + 1]]
  ELSE [s EXCEPT !.rvalid = s.r # None /\ (@ \/ e.r)]

(* A slave that has address and data answers.  The adapter in front of the *)
(* timer takes both and waits for ever: the timer ties awready, wready and *)
(* bvalid to zero.                                                         *)
BReply(s, v, e) == e.b /\ s.aw /\ s.w # None /\ v \notin Mute

SlaveWrite(s, v, e) ==
  IF s.b THEN IF bus.m_bready = v THEN [s EXCEPT !.b = FALSE, !.aw = FALSE, !.w = None] ELSE s
  ELSE [s EXCEPT !.aw = @ \/ (v \in bus.m_awvalid /\ AwReady(v, e)),
                 !.w = IF v \in wq.valid /\ WReady(v, e) THEN wq.out ELSE @,
                 !.b = BReply(s, v, e)]

Cycle(e) ==
  /\ rd' = [m \in Masters |-> ReadMaster(m, e)]
  /\ wr' = [m \in Masters |-> WriteMaster(m, e)]
  /\ arb' = arbiter(e)
  /\ bus' = Bus(e)
  /\ rq' = Skid(rq, s_select, e.rready, rInt, NoData)
  /\ wq' = Skid(wq, bus.sel, WReady(bus.sel, e), wInt, None)
  /\ sl' = [v \in Slaves |-> SlaveWrite(SlaveRead(sl[v], v, e), v, e)]
  /\ written' = [v \in Slaves |-> IF ~sl[v].b /\ sl'[v].b THEN sl[v].w ELSE written[v]]

(* At the same edge a master may raise a new request.                      *)
Read(m, to, len) ==
  /\ rd[m] = None /\ wr[m] = None
  /\ rd' = [rd EXCEPT ![m] = [to |-> to, len |-> len, beat |-> 0, ar |-> TRUE]]
  /\ UNCHANGED <<wr, arb, bus, rq, wq, sl, written>>

Write(m, to, data) ==
  /\ m \in Writers /\ rd[m] = None /\ wr[m] = None
  /\ wr' = [wr EXCEPT ![m] = [to |-> to, data |-> data, aw |-> TRUE, w |-> TRUE]]
  /\ UNCHANGED <<rd, arb, bus, rq, wq, sl, written>>

BusInit ==
  /\ rd = [m \in Masters |-> None] /\ wr = [m \in Masters |-> None]
  /\ arb = [grant |-> None, mask |-> {}]
  /\ \E v \in Slaves :
       bus = [state |-> "IDLE", sel |-> v, addr |-> v, addr_valid |-> FALSE, len |-> 0,
              arready |-> None, awready |-> None, wready |-> None, bvalid |-> {}, bresp |-> "OKAY",
              m_arvalid |-> {}, m_awvalid |-> {}, m_rready |-> None, m_bready |-> None]
  /\ rq = [ready |-> FALSE, valid |-> {}, out |-> NoData, temp |-> NoData]
  /\ wq = [ready |-> FALSE, valid |-> {}, out |-> None, temp |-> None]
  /\ sl = [v \in Slaves |-> [r |-> None, rvalid |-> FALSE, aw |-> FALSE, w |-> None, b |-> FALSE]]
  /\ written = [v \in Slaves |-> 0]

BusNext ==
  \/ \E e \in Env : Cycle(e)
  \/ \E m \in Masters, to \in Slaves \cup {Unmapped}, len \in 0 .. MaxLen : Read(m, to, len)
  \/ \E m \in Masters, to \in WriteTargets, data \in {0, 1} : Write(m, to, data)

BusSpec == BusInit /\ [][BusNext]_busVars

(* Again and again there is a cycle in which nobody holds up the others:   *)
(* the masters take what they asked for and the slaves answer in the end.  *)
NoStall == [i \in {"rready", "bready", "a", "w", "r", "b"} |-> TRUE]
BusFairSpec == BusSpec /\ WF_busVars(Cycle(NoStall))

-----------------------------------------------------------------------------
(* Properties.                                                             *)

(* Registers keep their widths, the eight-bit beat count included, and     *)
(* each handshake names a master or slave that exists.                     *)
BusTypeOK ==
  /\ arb.grant \in Ports \cup {None} /\ arb.mask \subseteq Ports
  /\ bus.state \in {"IDLE", "DECODE", "WRITE", "WRITE_RESP", "WRITE_DROP", "READ", "READ_DROP", "WAIT_IDLE"}
  /\ bus.sel \in Slaves /\ bus.len \in 0 .. 255
  /\ {bus.arready, bus.awready, bus.wready} \subseteq Masters \cup {None}
  /\ {bus.m_rready, bus.m_bready} \subseteq Slaves \cup {None}
  /\ bus.bvalid \subseteq Masters /\ rq.valid \subseteq Masters /\ wq.valid \subseteq Slaves

(* Whatever stalls on either side: a beat is offered only to a master that *)
(* waits for one, it is the next beat of the slave that master addressed,  *)
(* or a decode error where there is none, and rlast comes with the last    *)
(* one.                                                                    *)
BeatsRight ==
  \A m \in rq.valid :
    /\ rd[m] # None /\ ~rd[m].ar
    /\ rq.out = [from |-> rd[m].to, beat |-> IF rd[m].to = Unmapped THEN 0 ELSE rd[m].beat,
                 last |-> rd[m].beat = rd[m].len]

(* A write is answered only to the master that made it, after its word has *)
(* reached the slave it addressed, or with a decode error if there is none.*)
WriteArrived ==
  \A m \in bus.bvalid :
    /\ wr[m] # None /\ ~wr[m].aw /\ ~wr[m].w
    /\ IF wr[m].to = Unmapped THEN bus.bresp = "DECERR"
       ELSE bus.bresp = "OKAY" /\ written[wr[m].to] = wr[m].data

(* Every request of every master is answered, however often the others ask.*)
Answered ==
  /\ \A m \in Masters : rd[m] # None ~> rd[m] = None
  /\ \A m \in Writers : wr[m] # None ~> wr[m] = None

(* Whatever stalls, each answer reaches the master that asked, from the    *)
(* slave it asked, and is the right one: reads beat by beat, writes after  *)
(* they arrived, with every register of the interconnect within its width. *)
Delivered == BusTypeOK /\ BeatsRight /\ WriteArrived
=============================================================================
