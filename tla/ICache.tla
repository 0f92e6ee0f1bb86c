------------------------------- MODULE ICache -------------------------------
(***************************************************************************)
(* The instruction cache npc/vsrc/peripheral/axi_icache.v between the      *)
(* fetch unit and a memory that is read in bursts of one line.             *)
(*                                                                         *)
(* One step is one clock cycle of the cache, of the fetch unit that uses   *)
(* it and of the memory that fills it.  The core fetches from any address; *)
(* while an instruction executes it may store to memory, behind the        *)
(* cache's back, and the instruction fence.i is the only thing that makes  *)
(* the cache forget.  Its decoded signal fence_i is a level: it is up for  *)
(* as long as the instruction register holds a fence.i, that is until the  *)
(* first answer of the next fetch.                                         *)
(*                                                                         *)
(* Addresses count words.  The fetch unit always asks for one word.        *)
(***************************************************************************)
EXTENDS Integers, FiniteSets

CONSTANTS
  Tags,       \* number of lines that compete for a set
  Sets,       \* CACHELINE_NUM / CACHEWAY_NUM
  Ways,       \* CACHEWAY_NUM
  LineWords,  \* words per line: CACHELINE_SIZE / 4
  Words,      \* contents of a memory word
  FENCE,      \* the word that encodes fence.i
  MaxDirty    \* bound: words a program stores to between two fence.i

ASSUME ICacheAssumption ==
  /\ Tags \in Nat \ {0} /\ Sets \in Nat \ {0}
  /\ Ways \in Nat \ {0} /\ LineWords \in Nat \ {0}
  /\ FENCE \in Words /\ MaxDirty \in Nat

VARIABLES
  \* cache: control registers
  state, ifu_arready, ifu_rvalid, ifu_rdata, ifu_read_addr,
  icache_valid, icache_tag, icache_way_sel, icache_wr_offset,
  icache_arvalid, icache_rready,
  \* cache: arrays
  data_array, data_valid, tag_array,
  \* the core: fetch unit registers, and where the instruction is
  phase, arvalid, araddr, rready, instr,
  \* the memory and its read channel
  mem, m_busy, m_rvalid, m_beat,
  \* history: the addresses stored to since the last fence.i
  dirty

arrayVars == <<data_array, data_valid, tag_array>>
cacheVars == <<state, ifu_arready, ifu_rvalid, ifu_rdata, ifu_read_addr,
               icache_valid, icache_tag, icache_way_sel, icache_wr_offset,
               icache_arvalid, icache_rready>>
coreVars == <<phase, arvalid, araddr, rready, instr>>
memVars == <<m_busy, m_rvalid, m_beat>>
icacheVars == <<arrayVars, cacheVars, coreVars, memVars, mem, dirty>>

Addr == 0 .. Tags * Sets * LineWords - 1
Set == 0 .. Sets - 1
Way == 0 .. Ways - 1
Offset == 0 .. LineWords - 1

(* The fields of an address.                                               *)
TagOf(a) == a \div (Sets * LineWords)
IndexOf(a) == (a \div LineWords) % Sets
OffsetOf(a) == a % LineWords
LineOf(a) == a - (a % LineWords)

States == {"idle", "check_cache", "mem_araddr", "mem_rdata", "update_array",
           "instr_fetch"}

(* Registers after reset.  The arrays have none: the simulator starts them *)
(* at zero.                                                                *)
ICacheInit ==
  /\ state = "idle" /\ ifu_arready = FALSE /\ ifu_rvalid = FALSE
  /\ ifu_read_addr = 0
  /\ icache_valid = {} /\ icache_tag = [w \in Way |-> 0]
  /\ icache_way_sel = 0 /\ icache_wr_offset = 0
  /\ icache_arvalid = FALSE /\ icache_rready = FALSE
  /\ mem \in [Addr -> Words]
  /\ \E z \in Words \ {FENCE} :
       /\ ifu_rdata = z /\ instr = z
       /\ data_array = [s \in Set |-> [w \in Way |-> [o \in Offset |-> z]]]
  /\ data_valid = [s \in Set |-> {}]
  /\ tag_array = [s \in Set |-> [w \in Way |-> 0]]
  /\ phase = "start" /\ arvalid = FALSE /\ araddr = 0 /\ rready = FALSE
  /\ m_busy = FALSE /\ m_rvalid = FALSE /\ m_beat = 0
  /\ dirty = {}

-----------------------------------------------------------------------------
(* Signals.                                                                *)

fence_i == instr = FENCE
last_beat == m_beat = LineWords - 1
m_rdata == mem[LineOf(ifu_read_addr) + m_beat]

(* A word of the burst arrives.                                            *)
fill == state = "mem_rdata" /\ m_rvalid /\ icache_rready

(* check_cache: the ways that hold the line.                               *)
hits == {w \in Way : w \in icache_valid /\ icache_tag[w] = TagOf(ifu_read_addr)}
(* The loop returns the lowest.                                            *)
hit_way == CHOOSE w \in hits : \A v \in hits : w <= v

(* The answer register is free for the word of the current fetch.          *)
answer == state = "instr_fetch" /\ (rready \/ ~ifu_rvalid)

-----------------------------------------------------------------------------
(* The cache at a clock edge.                                              *)

(* idle: accept a request and read the set's tags and valid bits.          *)
Idle ==
  /\ state = "idle"
  /\ IF arvalid /\ ifu_arready
     THEN /\ state' = "check_cache" /\ ifu_arready' = FALSE
          /\ ifu_read_addr' = araddr
          /\ icache_valid' = data_valid[IndexOf(araddr)]
          /\ icache_tag' = tag_array[IndexOf(araddr)]
     ELSE /\ ifu_arready' = TRUE
          /\ UNCHANGED <<state, ifu_read_addr, icache_valid, icache_tag>>
  /\ UNCHANGED <<icache_way_sel, icache_wr_offset, icache_arvalid,
                 icache_rready>>

(* A miss replaces the way after the one used last, whatever the set.      *)
CheckCache ==
  /\ state = "check_cache"
  /\ IF hits # {}
     THEN state' = "instr_fetch" /\ icache_way_sel' = hit_way
     ELSE state' = "mem_araddr" /\ icache_way_sel' = (icache_way_sel + 1) % Ways
  /\ UNCHANGED <<ifu_arready, ifu_read_addr, icache_valid, icache_tag,
                 icache_wr_offset, icache_arvalid, icache_rready>>

(* Ask memory for the line.                                                *)
MemAraddr(m_arready) ==
  /\ state = "mem_araddr"
  /\ IF icache_arvalid /\ m_arready
     THEN state' = "mem_rdata" /\ icache_arvalid' = FALSE /\ icache_rready' = TRUE
     ELSE icache_arvalid' = TRUE /\ UNCHANGED <<state, icache_rready>>
  /\ UNCHANGED <<ifu_arready, ifu_read_addr, icache_valid, icache_tag,
                 icache_way_sel, icache_wr_offset>>

(* Take the words of the burst; wr_offset wraps after the last.            *)
MemRdata ==
  /\ state = "mem_rdata"
  /\ icache_rready' = ~(fill /\ last_beat)
  /\ icache_wr_offset' = IF fill THEN (icache_wr_offset + 1) % LineWords
                         ELSE icache_wr_offset
  /\ state' = IF fill /\ last_beat THEN "update_array" ELSE "mem_rdata"
  /\ UNCHANGED <<ifu_arready, ifu_read_addr, icache_valid, icache_tag,
                 icache_way_sel, icache_arvalid>>

UpdateArray ==
  /\ state = "update_array"
  /\ state' = "instr_fetch"
  /\ UNCHANGED <<ifu_arready, ifu_read_addr, icache_valid, icache_tag,
                 icache_way_sel, icache_wr_offset, icache_arvalid,
                 icache_rready>>

(* Answer from the data array; the address register moves on.              *)
InstrFetch ==
  /\ state = "instr_fetch"
  /\ IF answer
     THEN /\ state' = "idle" /\ ifu_arready' = TRUE
          /\ ifu_read_addr' = (ifu_read_addr + 1) % Cardinality(Addr)
     ELSE UNCHANGED <<state, ifu_arready, ifu_read_addr>>
  /\ UNCHANGED <<icache_valid, icache_tag, icache_way_sel, icache_wr_offset,
                 icache_arvalid, icache_rready>>

(* The registers of the answer channel.                                    *)
AnswerRegs ==
  /\ ifu_rvalid' = (answer \/ (ifu_rvalid /\ ~rready))
  /\ ifu_rdata' = IF answer
                  THEN data_array[IndexOf(ifu_read_addr)][icache_way_sel]
                                 [OffsetOf(ifu_read_addr)]
                  ELSE ifu_rdata

(* Mutation: fence.i does not invalidate.                                  *)
Arrays_ignore_fence ==
  LET s == IndexOf(ifu_read_addr)
      w == icache_way_sel
  IN
  /\ data_array' = IF fill
                   THEN [data_array EXCEPT ![s][w][icache_wr_offset] = m_rdata]
                   ELSE data_array
  /\ tag_array' = IF fill THEN [tag_array EXCEPT ![s][w] = TagOf(ifu_read_addr)]
                  ELSE tag_array
  /\ data_valid' = IF fill THEN [data_valid EXCEPT ![s] = {w}] ELSE data_valid

(* Mutation: words are written where the fetch wants to read.              *)
Arrays_write_at_fetch_offset ==
  LET s == IndexOf(ifu_read_addr)
      w == icache_way_sel
  IN
  /\ data_array' = IF fill
                   THEN [data_array EXCEPT
                          ![s][w][OffsetOf(ifu_read_addr)] = m_rdata]
                   ELSE data_array
  /\ tag_array' = IF fill THEN [tag_array EXCEPT ![s][w] = TagOf(ifu_read_addr)]
                  ELSE tag_array
  /\ data_valid' = CASE fence_i -> [t \in Set |-> {}]
                     [] ~fence_i /\ fill -> [data_valid EXCEPT ![s] = {w}]
                     [] OTHER -> data_valid

(* The arrays: every word of a fill writes the data, the tag and the valid *)
(* bits of its set, of which only the filled way's survives.  fence_i      *)
(* clears all valid bits, also against a fill in the same cycle.           *)
Arrays ==
  LET s == IndexOf(ifu_read_addr)
      w == icache_way_sel
  IN
  /\ data_array' = IF fill
                   THEN [data_array EXCEPT ![s][w][icache_wr_offset] = m_rdata]
                   ELSE data_array
  /\ tag_array' = IF fill THEN [tag_array EXCEPT ![s][w] = TagOf(ifu_read_addr)]
                  ELSE tag_array
  /\ data_valid' = CASE fence_i -> [t \in Set |-> {}]
                     [] ~fence_i /\ fill -> [data_valid EXCEPT ![s] = {w}]
                     [] OTHER -> data_valid

Cache(m_arready) ==
  /\ \/ Idle \/ CheckCache \/ MemAraddr(m_arready) \/ MemRdata
     \/ UpdateArray \/ InstrFetch
  /\ AnswerRegs /\ Arrays

-----------------------------------------------------------------------------
(* The core: the fetch unit (see NpcCore) and one instruction at a time.   *)

FetchUnit ==
  /\ rready' = ((ifu_rvalid /\ ~rready) \/ (rready /\ ~ifu_rvalid))
  /\ instr' = IF ifu_rvalid THEN ifu_rdata ELSE instr

StartFetch ==
  /\ phase = "start"
  /\ phase' = "fetch"
  /\ arvalid' = TRUE
  /\ araddr' \in Addr
  /\ UNCHANGED <<mem, dirty>>

WaitFetch ==
  /\ phase = "fetch"
  /\ phase' = IF ifu_rvalid /\ rready THEN "exec" ELSE "fetch"
  /\ arvalid' = (arvalid /\ ~ifu_arready)
  /\ UNCHANGED <<araddr, mem, dirty>>

(* The instruction completes: a fence.i, a store or anything else.         *)
Execute ==
  /\ phase = "exec"
  /\ phase' = "start"
  /\ \/ UNCHANGED mem /\ dirty' = IF instr = FENCE THEN {} ELSE dirty
     \/ /\ instr # FENCE
        /\ \E a \in Addr, v \in Words :
             /\ Cardinality(dirty \cup {a}) <= MaxDirty
             /\ mem' = [mem EXCEPT ![a] = v] /\ dirty' = dirty \cup {a}
  /\ UNCHANGED <<arvalid, araddr>>

Core == FetchUnit /\ (StartFetch \/ WaitFetch \/ Execute)

-----------------------------------------------------------------------------
(* The memory: accepts a burst, delivers its words after any delay each.   *)

Memory(m_arready) ==
  \/ /\ ~m_busy /\ (m_arready => icache_arvalid)
     /\ m_busy' = m_arready
     /\ m_rvalid' = FALSE /\ m_beat' = 0
  \/ /\ m_busy /\ ~m_arready
     /\ IF m_rvalid /\ icache_rready
        THEN /\ m_busy' = ~last_beat
             /\ m_beat' = IF last_beat THEN 0 ELSE m_beat + 1
             /\ m_rvalid' \in IF last_beat THEN {FALSE} ELSE BOOLEAN
        ELSE /\ m_rvalid' \in {TRUE, m_rvalid}
             /\ UNCHANGED <<m_busy, m_beat>>

ICacheNext ==
  \E m_arready \in BOOLEAN : Cache(m_arready) /\ Memory(m_arready) /\ Core

ICacheSpec == ICacheInit /\ [][ICacheNext]_icacheVars

(* The memory answers eventually: only waiting for it changes nothing.     *)
ICacheFairSpec == ICacheSpec /\ WF_icacheVars(ICacheNext)

-----------------------------------------------------------------------------
(* Properties.                                                             *)

(* Every register and array entry holds a value of its width.              *)
ICacheTypeOK ==
  /\ state \in States
  /\ ifu_arready \in BOOLEAN /\ ifu_rvalid \in BOOLEAN /\ ifu_rdata \in Words
  /\ ifu_read_addr \in Addr
  /\ icache_valid \in SUBSET Way /\ icache_tag \in [Way -> 0 .. Tags - 1]
  /\ icache_way_sel \in Way /\ icache_wr_offset \in Offset
  /\ icache_arvalid \in BOOLEAN /\ icache_rready \in BOOLEAN
  /\ data_array \in [Set -> [Way -> [Offset -> Words]]]
  /\ data_valid \in [Set -> SUBSET Way]
  /\ tag_array \in [Set -> [Way -> 0 .. Tags - 1]]
  /\ phase \in {"start", "fetch", "exec"}
  /\ arvalid \in BOOLEAN /\ araddr \in Addr /\ rready \in BOOLEAN
  /\ instr \in Words
  /\ mem \in [Addr -> Words]
  /\ m_busy \in BOOLEAN /\ m_rvalid \in BOOLEAN /\ m_beat \in Offset
  /\ dirty \in SUBSET Addr

(* A fetch answers with the word memory holds, unless the program stored   *)
(* to that very word and has not executed fence.i since.  So fence.i works *)
(* although its signal also covers the fetch after it, a store to one word *)
(* of a line never costs the other words their value, and the round robin  *)
(* over ways never answers from the wrong line.                            *)
FetchIsCurrent ==
  phase = "fetch" /\ ifu_rvalid /\ araddr \notin dirty => ifu_rdata = mem[araddr]

(* The word of address a that way w of set s would answer with.            *)
Holds(s, w, a) ==
  /\ w \in data_valid[s] /\ IndexOf(a) = s /\ TagOf(a) = tag_array[s][w]

(* Every valid line is whole and current except for words stored to, from  *)
(* the moment no fill is running; and no line is in two ways.              *)
LinesCoherent ==
  \A s \in Set, w \in Way, a \in Addr :
    Holds(s, w, a) =>
      /\ \/ data_array[s][w][OffsetOf(a)] = mem[a]
         \/ a \in dirty
         \/ state = "mem_rdata" /\ LineOf(a) = LineOf(ifu_read_addr)
      /\ \A v \in Way : Holds(s, v, a) => v = w

(* The write pointer into the line and the burst stay in step, and the     *)
(* pointer is back at the start of the line for the next fill.             *)
FillInStep ==
  /\ m_busy => state = "mem_rdata" /\ icache_wr_offset = m_beat
  /\ ~m_busy => icache_wr_offset = 0 /\ state # "mem_rdata"

(* Every fetch is answered.                                                *)
FetchAnswered == (phase = "fetch") ~> (phase = "exec")

(* What axi_icache.v's "w-way set-associative" promises: filling one way   *)
(* leaves the valid lines in the other ways of the set valid.              *)
FillKeepsOtherWays ==
  [][\A s \in Set, w \in Way :
       (w \in data_valid[s] /\ w # icache_way_sel /\ ~fence_i)
         => w \in data_valid'[s]]_icacheVars

(* The arrays and the fill: registers within their widths, lines coherent, *)
(* and the write pointer in step with the burst, whatever the order of     *)
(* fetches, stores, fence.i and stalls of memory.                          *)
CacheSound == ICacheTypeOK /\ LinesCoherent /\ FillInStep
=============================================================================
