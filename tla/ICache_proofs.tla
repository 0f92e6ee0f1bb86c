--------------------------- MODULE ICache_proofs ----------------------------
(***************************************************************************)
(* Proofs about ICache, for every number of tags, sets, ways and words in  *)
(* a line, every program and every delay of memory.                        *)
(***************************************************************************)
EXTENDS ICache, FiniteSetTheorems, TLAPS

-----------------------------------------------------------------------------
(* Addresses: tag, index and offset name a word.                           *)

(* Quotient and remainder by name, as the lemmas need them.                *)
Quo(x, d) == x \div d
Rem(x, d) == x % d

(* Division with remainder.                                                *)
LEMMA Euclid ==
  ASSUME NEW d \in Nat \ {0}, NEW x \in Nat
  PROVE  Quo(x, d) \in Nat /\ Rem(x, d) \in 0 .. d - 1 /\ x = Quo(x, d) * d + Rem(x, d)
BY DEF Quo, Rem

(* Quotient and remainder are unique.                                      *)
LEMMA DivUnique ==
  ASSUME NEW d \in Nat \ {0}, NEW q \in Nat, NEW r \in 0 .. d - 1, NEW x \in Nat, x = q * d + r
  PROVE  Quo(x, d) = q /\ Rem(x, d) = r
<1> DEFINE p == Quo(x, d)
           k == q - p
<1>1. p \in Nat /\ Rem(x, d) \in 0 .. d - 1 /\ x = p * d + Rem(x, d)
  BY Euclid
<1> HIDE DEF p
<1>2. d * k = Rem(x, d) - r
  BY <1>1
<1>3. k \in Int /\ -d < d * k /\ d * k < d
  BY <1>1, <1>2
<1> HIDE DEF k
<1>4. k = 0
  BY <1>3
<1> QED
  BY <1>1, <1>2, <1>4 DEF k, p

(* The three fields of an address are in range and make it up; its line    *)
(* begins where the offset is 0.                                           *)
LEMMA Fields ==
  ASSUME NEW a \in Addr
  PROVE  /\ TagOf(a) \in 0 .. Tags - 1 /\ IndexOf(a) \in Set /\ OffsetOf(a) \in Offset
         /\ a = (Sets * TagOf(a) + IndexOf(a)) * LineWords + OffsetOf(a)
         /\ LineOf(a) = (Sets * TagOf(a) + IndexOf(a)) * LineWords
<1>1. Tags \in Nat \ {0} /\ Sets \in Nat \ {0} /\ LineWords \in Nat \ {0}
  BY ICacheAssumption
<1> DEFINE q == Quo(a, LineWords)
           t == Quo(q, Sets)
<1>2. a \in Nat /\ a < Tags * Sets * LineWords
  BY <1>1 DEF Addr
<1>a. OffsetOf(a) = Rem(a, LineWords) /\ IndexOf(a) = Rem(q, Sets) /\ LineOf(a) = a - Rem(a, LineWords)
  BY Zenon DEF OffsetOf, IndexOf, LineOf, Quo, Rem
<1>3. q \in Nat /\ OffsetOf(a) \in Offset /\ a = q * LineWords + OffsetOf(a)
  BY <1>1, <1>2, <1>a, Euclid DEF Offset
<1>4. t \in Nat /\ IndexOf(a) \in Set /\ q = t * Sets + IndexOf(a)
  BY <1>1, <1>3, <1>a, Euclid DEF Set
<1> HIDE DEF q, t
<1>5. TagOf(a) = t
  <2> DEFINE r == LineWords * IndexOf(a) + OffsetOf(a)
             d == Sets * LineWords
  <2>1. d \in Nat \ {0}
    BY <1>1
  <2>2. r \in 0 .. d - 1
    <3>1. LineWords * IndexOf(a) <= LineWords * (Sets - 1)
      BY <1>1, <1>4 DEF Set
    <3>2. r \in Nat /\ r <= LineWords * (Sets - 1) + (LineWords - 1)
      BY <1>1, <1>3, <1>4, <3>1 DEF Set, Offset
    <3> QED
      BY <1>1, <3>2
  <2>3. a = t * d + r
    BY <1>1, <1>3, <1>4 DEF Set, Offset
  <2>4. TagOf(a) = Quo(a, d)
    BY Zenon DEF TagOf, Quo
  <2> HIDE DEF d, r
  <2> QED
    BY <1>2, <1>4, <2>1, <2>2, <2>3, <2>4, DivUnique
<1>6. t < Tags
  <2>1. SUFFICES ASSUME t >= Tags PROVE FALSE
    BY <1>1, <1>4
  <2>2. Sets * t >= Sets * Tags
    BY <1>1, <1>4, <2>1
  <2>3. q >= Sets * Tags
    BY <1>1, <1>4, <2>2 DEF Set
  <2>4. LineWords * q >= LineWords * (Sets * Tags)
    BY <1>1, <1>3, <2>3
  <2>5. a >= LineWords * (Sets * Tags)
    BY <1>1, <1>3, <2>4 DEF Offset
  <2>6. LineWords * (Sets * Tags) = Tags * Sets * LineWords
    BY <1>1
  <2> QED
    BY <1>1, <1>2, <2>5, <2>6
<1>7. LineOf(a) = q * LineWords
  <2>1. LineOf(a) = a - OffsetOf(a) /\ q * LineWords \in Nat /\ OffsetOf(a) \in Nat
    BY <1>1, <1>3, <1>a DEF Offset
  <2> QED
    BY <1>2, <1>3, <2>1
<1> QED
  BY <1>1, <1>3, <1>4, <1>5, <1>6, <1>7 DEF Set, Offset

(* Two addresses of the same set and tag are in the same line; with the    *)
(* same offset they are the same.                                          *)
LEMMA SameLine ==
  ASSUME NEW a \in Addr, NEW b \in Addr, TagOf(a) = TagOf(b), IndexOf(a) = IndexOf(b)
  PROVE  /\ LineOf(a) = LineOf(b)
         /\ OffsetOf(a) = OffsetOf(b) => a = b
BY Fields

(* An address is its line and its offset.                                  *)
LEMMA LineWord ==
  ASSUME NEW a \in Addr
  PROVE  LineOf(a) + OffsetOf(a) = a /\ LineOf(a) \in Nat
BY Fields, ICacheAssumption DEF LineOf, OffsetOf, Addr

(* Every word of a line of memory is a word of memory.                     *)
LEMMA LineInAddr ==
  ASSUME NEW a \in Addr, NEW o \in Offset
  PROVE  LineOf(a) + o \in Addr
<1>1. Tags \in Nat \ {0} /\ Sets \in Nat \ {0} /\ LineWords \in Nat \ {0}
  BY ICacheAssumption
<1>2. /\ TagOf(a) \in 0 .. Tags - 1 /\ IndexOf(a) \in Set
      /\ LineOf(a) = (Sets * TagOf(a) + IndexOf(a)) * LineWords
  BY Fields
<1> DEFINE q == Sets * TagOf(a) + IndexOf(a)
<1>3. q \in Nat /\ q <= Sets * Tags - 1
  <2>1. Sets * TagOf(a) <= Sets * (Tags - 1)
    BY <1>1, <1>2
  <2>2. Sets * (Tags - 1) = Sets * Tags - Sets
    BY <1>1
  <2>3. Sets * TagOf(a) \in Nat
    BY <1>1, <1>2
  <2> QED
    BY <1>1, <1>2, <2>1, <2>2, <2>3 DEF Set
<1> HIDE DEF q
<1>4. q * LineWords <= (Sets * Tags - 1) * LineWords /\ q * LineWords \in Nat
  BY <1>1, <1>3
<1>5. (Sets * Tags - 1) * LineWords = Tags * Sets * LineWords - LineWords
  BY <1>1
<1>6. Tags * Sets * LineWords \in Nat
  BY <1>1
<1> QED
  BY <1>1, <1>2, <1>4, <1>5, <1>6 DEF q, Addr, Offset

(* The address register wraps around within memory.                        *)
LEMMA NextAddr ==
  ASSUME NEW a \in Addr
  PROVE  (a + 1) % Cardinality(Addr) \in Addr
<1>1. Tags \in Nat \ {0} /\ Sets \in Nat \ {0} /\ LineWords \in Nat \ {0}
  BY ICacheAssumption
<1> DEFINE n == Tags * Sets * LineWords
<1>2. n \in Nat
  BY <1>1
<1>3. Addr = 0 .. n - 1
  BY DEF Addr
<1> HIDE DEF n
<1>4. Cardinality(Addr) = n /\ n > 0
  BY <1>2, <1>3, FS_Interval
<1> QED
  BY <1>2, <1>3, <1>4

(* A line has one tag and one set.                                         *)
LEMMA LineIndex ==
  ASSUME NEW a \in Addr, NEW b \in Addr, LineOf(a) = LineOf(b)
  PROVE  IndexOf(a) = IndexOf(b) /\ TagOf(a) = TagOf(b)
<1> DEFINE q(x) == Sets * TagOf(x) + IndexOf(x)
<1>1. Tags \in Nat \ {0} /\ Sets \in Nat \ {0} /\ LineWords \in Nat \ {0}
  BY ICacheAssumption
<1>2. \A x \in {a, b} : TagOf(x) \in Nat /\ IndexOf(x) \in 0 .. Sets - 1 /\ LineOf(x) = q(x) * LineWords
  BY Fields DEF Set
<1>3. q(a) \in Nat /\ q(b) \in Nat
  BY <1>1, <1>2
<1>4. q(a) * LineWords = q(b) * LineWords
  BY <1>2
<1> HIDE DEF q
<1>5. q(a) = q(b)
  BY <1>1, <1>3, <1>4
<1>6. \A x \in {a, b} : Rem(q(x), Sets) = IndexOf(x) /\ Quo(q(x), Sets) = TagOf(x)
  <2> SUFFICES ASSUME NEW x \in {a, b} PROVE Rem(q(x), Sets) = IndexOf(x) /\ Quo(q(x), Sets) = TagOf(x)
    OBVIOUS
  <2>1. q(x) \in Nat /\ TagOf(x) \in Nat /\ IndexOf(x) \in 0 .. Sets - 1
    BY <1>2, <1>3
  <2>2. q(x) = TagOf(x) * Sets + IndexOf(x)
    BY <1>1, <2>1 DEF q
  <2> QED
    BY <1>1, <2>1, <2>2, DivUnique
<1> QED
  BY <1>5, <1>6

-----------------------------------------------------------------------------
(* The invariant.                                                          *)

(* Way w of the set would answer the fetch with what memory holds, or the  *)
(* program has stored to that word.                                        *)
Current(w) ==
  \/ data_array[IndexOf(ifu_read_addr)][w][OffsetOf(ifu_read_addr)] = mem[ifu_read_addr]
  \/ ifu_read_addr \in dirty

(* The fetch and the burst are where the handshakes put them: nothing is   *)
(* under way unless the core fetches, the cache works on the address the   *)
(* core waits for, and memory is asked only by a miss.                     *)
Handshake ==
  /\ rready => ifu_rvalid
  /\ phase # "fetch" => state = "idle" /\ ~arvalid /\ ~ifu_rvalid
  /\ arvalid => state = "idle" /\ ~ifu_rvalid
  /\ state # "idle" => ~ifu_rvalid /\ ifu_read_addr = araddr
  /\ icache_arvalid => state = "mem_araddr"
  /\ m_rvalid => m_busy

(* A fill leaves its own way alone valid in the set, so no set has two     *)
(* valid ways.                                                             *)
SingleWay == \A s \in Set : \A v, w \in data_valid[s] : v = w

(* The tags and valid bits that were sampled when the fetch was accepted   *)
(* still tell the truth a cycle later: at most one way hits, and it is     *)
(* current.                                                                *)
Sampled ==
  state = "check_cache" => \A w \in hits : Current(w) /\ \A v \in hits : v = w

(* The words of the burst that have arrived are in their places.           *)
Filling ==
  state = "mem_rdata" =>
    \A o \in Offset : o < icache_wr_offset =>
      data_array[IndexOf(ifu_read_addr)][icache_way_sel][o] = mem[LineOf(ifu_read_addr) + o]

(* When the cache answers, the way it selected is current.                 *)
Ready == state \in {"update_array", "instr_fetch"} => Current(icache_way_sel)

(* Every valid line is current except for words stored to since the last   *)
(* fence.i, and for the line that is being filled.                         *)
LinesCurrent ==
  \A s \in Set, w \in Way, a \in Addr :
    Holds(s, w, a) =>
         \/ data_array[s][w][OffsetOf(a)] = mem[a]
         \/ a \in dirty
         \/ state = "mem_rdata" /\ LineOf(a) = LineOf(ifu_read_addr)

(* The inductive invariant of the cache.                                   *)
ICacheInv ==
  /\ ICacheTypeOK /\ Handshake /\ FillInStep
  /\ SingleWay /\ LinesCurrent
  /\ Sampled /\ Filling /\ Ready /\ FetchIsCurrent

(* The lowest way that hits is one that hits.                              *)
LEMMA HitWay ==
  ASSUME ICacheTypeOK, Sampled, state = "check_cache", hits # {}
  PROVE  hit_way \in hits
<1>1. PICK x \in hits : TRUE
  OBVIOUS
<1>2. x \in Int /\ \A v \in hits : v = x
  BY <1>1, ICacheAssumption DEF Sampled, hits, Way
<1>3. \E w \in hits : \A v \in hits : w <= v
  BY <1>1, <1>2
<1> QED
  BY <1>3 DEF hit_way

(* The control registers keep their types.                                 *)
LEMMA CacheTypes ==
  ASSUME ICacheTypeOK, Sampled, NEW b \in BOOLEAN, Cache(b)
  PROVE  /\ state' \in States
         /\ ifu_arready' \in BOOLEAN /\ ifu_rvalid' \in BOOLEAN /\ ifu_rdata' \in Words
         /\ ifu_read_addr' \in Addr
         /\ icache_valid' \in SUBSET Way /\ icache_tag' \in [Way -> 0 .. Tags - 1]
         /\ icache_way_sel' \in Way /\ icache_wr_offset' \in Offset
         /\ icache_arvalid' \in BOOLEAN /\ icache_rready' \in BOOLEAN
<1> USE DEF States
<1>1. IndexOf(araddr) \in Set /\ IndexOf(ifu_read_addr) \in Set /\ OffsetOf(ifu_read_addr) \in Offset
  BY Fields DEF ICacheTypeOK
<1>2. ifu_rdata' \in Words /\ ifu_rvalid' \in BOOLEAN
  <2>1. data_array[IndexOf(ifu_read_addr)][icache_way_sel][OffsetOf(ifu_read_addr)] \in Words
    BY <1>1 DEF ICacheTypeOK
  <2> QED
    BY <2>1 DEF Cache, AnswerRegs, ICacheTypeOK
<1>3. CASE Idle
  <2>1. data_valid[IndexOf(araddr)] \in SUBSET Way /\ tag_array[IndexOf(araddr)] \in [Way -> 0 .. Tags - 1]
    BY <1>1 DEF ICacheTypeOK
  <2> QED
    BY <1>2, <1>3, <2>1 DEF Idle, ICacheTypeOK
<1>4. CASE CheckCache
  <2>1. (icache_way_sel + 1) % Ways \in Way
    BY ICacheAssumption DEF ICacheTypeOK, Way
  <2>2. hits # {} => hit_way \in Way
    BY <1>4, HitWay DEF CheckCache, hits
  <2> QED
    BY <1>2, <1>4, <2>1, <2>2 DEF CheckCache, ICacheTypeOK
<1>5. CASE MemAraddr(b)
  BY <1>2, <1>5 DEF MemAraddr, ICacheTypeOK
<1>6. CASE MemRdata
  <2>1. (icache_wr_offset + 1) % LineWords \in Offset
    BY ICacheAssumption DEF ICacheTypeOK, Offset
  <2>2. icache_rready' \in BOOLEAN
    BY <1>6 DEF MemRdata
  <2> QED
    BY <1>2, <1>6, <2>1, <2>2 DEF MemRdata, ICacheTypeOK
<1>7. CASE UpdateArray
  BY <1>2, <1>7 DEF UpdateArray, ICacheTypeOK
<1>8. CASE InstrFetch
  <2>1. (ifu_read_addr + 1) % Cardinality(Addr) \in Addr
    BY NextAddr DEF ICacheTypeOK
  <2> QED
    BY <1>2, <1>8, <2>1 DEF InstrFetch, ICacheTypeOK
<1> QED
  BY <1>3, <1>4, <1>5, <1>6, <1>7, <1>8 DEF Cache

(* The arrays keep their types.                                            *)
LEMMA ArrayTypes ==
  ASSUME ICacheTypeOK, FillInStep, Arrays
  PROVE  /\ data_array' \in [Set -> [Way -> [Offset -> Words]]]
         /\ data_valid' \in [Set -> SUBSET Way]
         /\ tag_array' \in [Set -> [Way -> 0 .. Tags - 1]]
<1> DEFINE s == IndexOf(ifu_read_addr)
           w == icache_way_sel
<1>1. s \in Set /\ TagOf(ifu_read_addr) \in 0 .. Tags - 1 /\ w \in Way
  BY Fields DEF ICacheTypeOK
<1>2. m_rdata \in Words /\ icache_wr_offset \in Offset
  <2>1. LineOf(ifu_read_addr) + m_beat \in Addr
    BY LineInAddr DEF ICacheTypeOK
  <2> QED
    BY <2>1 DEF m_rdata, ICacheTypeOK
<1> HIDE DEF s, w
<1>3. [data_array EXCEPT ![s][w][icache_wr_offset] = m_rdata] \in [Set -> [Way -> [Offset -> Words]]]
  <2>1. data_array \in [Set -> [Way -> [Offset -> Words]]]
    BY DEF ICacheTypeOK
  <2>2. data_array[s] \in [Way -> [Offset -> Words]] /\ data_array[s][w] \in [Offset -> Words]
    BY <1>1, <2>1
  <2>3. [data_array[s][w] EXCEPT ![icache_wr_offset] = m_rdata] \in [Offset -> Words]
    BY <1>2, <2>2
  <2>4. [data_array[s] EXCEPT ![w][icache_wr_offset] = m_rdata] \in [Way -> [Offset -> Words]]
    BY <1>1, <2>2, <2>3
  <2> QED
    BY <1>1, <2>1, <2>2, <2>4
<1>4. [tag_array EXCEPT ![s][w] = TagOf(ifu_read_addr)] \in [Set -> [Way -> 0 .. Tags - 1]]
  BY <1>1 DEF ICacheTypeOK
<1>5. [data_valid EXCEPT ![s] = {w}] \in [Set -> SUBSET Way]
  BY <1>1 DEF ICacheTypeOK
<1>6. [t \in Set |-> {}] \in [Set -> SUBSET Way]
  OBVIOUS
<1>7. data_array' \in [Set -> [Way -> [Offset -> Words]]]
  BY <1>3 DEF Arrays, s, w, ICacheTypeOK
<1>8. tag_array' \in [Set -> [Way -> 0 .. Tags - 1]]
  BY <1>4 DEF Arrays, s, w, ICacheTypeOK
<1>9. data_valid' \in [Set -> SUBSET Way]
  <2>1. data_valid' \in {[t \in Set |-> {}], [data_valid EXCEPT ![s] = {w}], data_valid}
    BY Zenon DEF Arrays, s, w
  <2> QED
    BY <1>5, <1>6, <2>1 DEF ICacheTypeOK
<1> QED
  BY <1>7, <1>8, <1>9

(* The core's registers and memory keep their types.                       *)
LEMMA CoreTypes ==
  ASSUME ICacheTypeOK, Core
  PROVE  /\ phase' \in {"start", "fetch", "exec"}
         /\ arvalid' \in BOOLEAN /\ araddr' \in Addr /\ rready' \in BOOLEAN
         /\ instr' \in Words /\ mem' \in [Addr -> Words] /\ dirty' \in SUBSET Addr
<1>1. rready' \in BOOLEAN /\ instr' \in Words
  BY DEF Core, FetchUnit, ICacheTypeOK
<1>2. CASE StartFetch
  BY <1>1, <1>2 DEF StartFetch, ICacheTypeOK
<1>3. CASE WaitFetch
  <2>1. arvalid' \in BOOLEAN
    BY <1>3 DEF WaitFetch
  <2> QED
    BY <1>1, <1>3, <2>1 DEF WaitFetch, ICacheTypeOK
<1>4. CASE Execute
  BY <1>1, <1>4 DEF Execute, ICacheTypeOK
<1> QED
  BY <1>2, <1>3, <1>4 DEF Core

(* The burst keeps its types.                                              *)
LEMMA MemoryTypes ==
  ASSUME ICacheTypeOK, NEW b \in BOOLEAN, Memory(b)
  PROVE  m_busy' \in BOOLEAN /\ m_rvalid' \in BOOLEAN /\ m_beat' \in Offset
<1>1. 0 \in Offset /\ (~last_beat => m_beat + 1 \in Offset)
  BY ICacheAssumption DEF last_beat, Offset, ICacheTypeOK
<1>2. m_beat' \in Offset
  BY <1>1 DEF Memory, ICacheTypeOK
<1>3. m_busy' \in BOOLEAN
  BY DEF Memory, ICacheTypeOK
<1>4. m_rvalid' \in BOOLEAN
  BY DEF Memory, ICacheTypeOK
<1> QED
  BY <1>2, <1>3, <1>4

(* A cycle keeps all types.                                                *)
LEMMA ICacheTypesKept ==
  ASSUME ICacheTypeOK, Sampled, FillInStep, ICacheNext
  PROVE  ICacheTypeOK'
<1>1. PICK b \in BOOLEAN : Cache(b) /\ Memory(b) /\ Core
  BY DEF ICacheNext
<1>2. Arrays
  BY <1>1 DEF Cache
<1> QED
  BY <1>1, <1>2, CacheTypes, ArrayTypes, CoreTypes, MemoryTypes DEF ICacheTypeOK

(* A cycle keeps the handshakes.                                           *)
LEMMA HandshakeKept ==
  ASSUME ICacheTypeOK, Handshake, FillInStep, ICacheNext
  PROVE  Handshake'
<1>1. PICK b \in BOOLEAN : Cache(b) /\ Memory(b) /\ Core
  BY DEF ICacheNext
<1>2. AnswerRegs /\ FetchUnit
  BY <1>1 DEF Cache, Core
<1>3. (m_rvalid => m_busy)'
  BY <1>1 DEF Memory, Handshake, ICacheTypeOK
<1>4. (rready => ifu_rvalid)'
  BY <1>2 DEF AnswerRegs, FetchUnit, Handshake, ICacheTypeOK
<1>5. (icache_arvalid => state = "mem_araddr")'
  BY <1>1 DEF Cache, Idle, CheckCache, MemAraddr, MemRdata, UpdateArray, InstrFetch,
     Handshake
<1>6. /\ (phase # "fetch" => state = "idle" /\ ~arvalid /\ ~ifu_rvalid)'
      /\ (arvalid => state = "idle" /\ ~ifu_rvalid)'
      /\ (state # "idle" => ~ifu_rvalid /\ ifu_read_addr = araddr)'
  <2>1. CASE Idle
    <3>1. ~answer
      BY <2>1 DEF Idle, answer
    <3>2. CASE StartFetch
      BY <1>2, <2>1, <3>1, <3>2 DEF StartFetch, Idle, AnswerRegs, Handshake
    <3>3. CASE WaitFetch
      BY <1>2, <2>1, <3>1, <3>3 DEF WaitFetch, Idle, AnswerRegs, Handshake, ICacheTypeOK
    <3>4. CASE Execute
      BY <1>2, <2>1, <3>1, <3>4 DEF Execute, Idle, AnswerRegs, Handshake
    <3> QED
      BY <1>1, <3>2, <3>3, <3>4 DEF Core
  <2>2. CASE state # "idle"
    <3>1. phase = "fetch" /\ ~ifu_rvalid /\ ~rready /\ ~arvalid /\ ifu_read_addr = araddr
      BY <2>2 DEF Handshake
    <3>2. phase' = "fetch" /\ ~arvalid' /\ araddr' = araddr
      BY <1>1, <3>1 DEF Core, StartFetch, WaitFetch, Execute
    <3>3. CASE InstrFetch
      BY <1>2, <3>1, <3>2, <3>3 DEF InstrFetch, AnswerRegs, answer
    <3>4. CASE CheckCache \/ MemAraddr(b) \/ MemRdata \/ UpdateArray
      <4>1. state' # "idle" /\ ifu_read_addr' = ifu_read_addr /\ state # "instr_fetch"
        BY <3>4 DEF CheckCache, MemAraddr, MemRdata, UpdateArray
      <4> QED
        BY <1>2, <3>1, <3>2, <4>1 DEF AnswerRegs, answer
    <3> QED
      BY <1>1, <2>2, <3>3, <3>4 DEF Cache, Idle
  <2> QED
    BY <1>1, <2>1, <2>2 DEF Cache, CheckCache, MemAraddr, MemRdata, UpdateArray,
       InstrFetch
<1> QED
  BY <1>3, <1>4, <1>5, <1>6 DEF Handshake

(* A cycle keeps the write pointer in step with the burst, over the wrap   *)
(* at the end of the line.                                                 *)
LEMMA FillInStepKept ==
  ASSUME ICacheTypeOK, Handshake, FillInStep, ICacheNext
  PROVE  FillInStep'
<1>1. PICK b \in BOOLEAN : Cache(b) /\ Memory(b) /\ Core
  BY DEF ICacheNext
<1>2. CASE m_busy
  <2>1. MemRdata /\ state = "mem_rdata" /\ icache_wr_offset = m_beat
    BY <1>1, <1>2 DEF FillInStep, Cache, Idle, CheckCache, MemAraddr, UpdateArray,
       InstrFetch
  <2>2. fill <=> m_rvalid /\ icache_rready
    BY <2>1 DEF fill
  <2>3. CASE fill /\ last_beat
    <3>1. (icache_wr_offset + 1) % LineWords = 0
      <4>1. icache_wr_offset + 1 = LineWords /\ LineWords \in Nat \ {0}
        BY <2>1, <2>3, ICacheAssumption DEF last_beat
      <4> QED
        BY <4>1
    <3> QED
      BY <1>1, <1>2, <2>1, <2>2, <2>3, <3>1 DEF Memory, MemRdata, FillInStep
  <2>4. CASE fill /\ ~last_beat
    <3>1. (icache_wr_offset + 1) % LineWords = m_beat + 1
      <4>1. icache_wr_offset + 1 = m_beat + 1 /\ m_beat + 1 \in 0 .. LineWords - 1 /\ LineWords \in Nat \ {0}
        BY <2>1, <2>4, ICacheAssumption DEF last_beat, ICacheTypeOK, Offset
      <4> QED
        BY <4>1
    <3> QED
      BY <1>1, <1>2, <2>1, <2>2, <2>4, <3>1 DEF Memory, MemRdata, FillInStep
  <2>5. CASE ~fill
    BY <1>1, <1>2, <2>1, <2>2, <2>5 DEF Memory, MemRdata, FillInStep
  <2> QED
    BY <2>3, <2>4, <2>5
<1>3. CASE ~m_busy
  <2>1. state # "mem_rdata" /\ icache_wr_offset = 0
    BY <1>3 DEF FillInStep
  <2>2. m_busy' = b /\ m_beat' = 0 /\ (b => icache_arvalid)
    BY <1>1, <1>3 DEF Memory
  <2>3. icache_wr_offset' = 0
    BY <1>1, <2>1 DEF Cache, Idle, CheckCache, MemAraddr, MemRdata, UpdateArray,
       InstrFetch
  <2>4. state' = "mem_rdata" <=> b
    BY <1>1, <2>1, <2>2 DEF Handshake, Cache, Idle, CheckCache, MemAraddr, MemRdata,
       UpdateArray, InstrFetch
  <2> QED
    BY <2>2, <2>3, <2>4 DEF FillInStep
<1> QED
  BY <1>2, <1>3

(* While a fetch is under way, memory does not change and no fence.i       *)
(* completes.                                                              *)
LEMMA MemoryHeld ==
  ASSUME Handshake, Core, state # "idle" \/ arvalid \/ ifu_rvalid
  PROVE  phase = "fetch" /\ mem' = mem /\ dirty' = dirty /\ araddr' = araddr
BY DEF Handshake, Core, StartFetch, WaitFetch, Execute

(* Without a word from memory only valid bits change: fence_i clears them  *)
(* all.                                                                    *)
LEMMA Unwritten ==
  ASSUME ICacheTypeOK, Arrays, ~fill
  PROVE  /\ data_array' = data_array /\ tag_array' = tag_array
         /\ \A s \in Set : data_valid'[s] \subseteq data_valid[s]
         /\ fence_i => \A s \in Set : data_valid'[s] = {}
<1>1. data_array' = data_array /\ tag_array' = tag_array
  BY DEF Arrays
<1>2. data_valid' = IF fence_i THEN [t \in Set |-> {}] ELSE data_valid
  BY Zenon DEF Arrays
<1> QED
  BY <1>1, <1>2

(* A word from memory is written, the tag set, and every other way of the  *)
(* set invalidated.                                                        *)
LEMMA Written ==
  ASSUME ICacheTypeOK, Arrays, fill,
         NEW s, s = IndexOf(ifu_read_addr), NEW w, w = icache_way_sel
  PROVE  /\ s \in Set /\ w \in Way
         /\ \A t \in Set, v \in Way, o \in Offset :
              data_array'[t][v][o] = IF t = s /\ v = w /\ o = icache_wr_offset THEN m_rdata
                                     ELSE data_array[t][v][o]
         /\ \A t \in Set, v \in Way :
              tag_array'[t][v] = IF t = s /\ v = w THEN TagOf(ifu_read_addr) ELSE tag_array[t][v]
         /\ data_valid'[s] \subseteq {w}
         /\ \A t \in Set \ {s} : data_valid'[t] \subseteq data_valid[t]
<1>1. s \in Set /\ w \in Way
  BY Fields DEF ICacheTypeOK
<1>2. data_array' = [data_array EXCEPT ![s][w][icache_wr_offset] = m_rdata]
  BY DEF Arrays
<1>3. tag_array' = [tag_array EXCEPT ![s][w] = TagOf(ifu_read_addr)]
  BY DEF Arrays
<1>4. data_valid' = IF fence_i THEN [t \in Set |-> {}] ELSE [data_valid EXCEPT ![s] = {w}]
  BY Zenon DEF Arrays
<1>5. ASSUME NEW t \in Set, NEW v \in Way, NEW o \in Offset
      PROVE  data_array'[t][v][o] = IF t = s /\ v = w /\ o = icache_wr_offset THEN m_rdata
                                     ELSE data_array[t][v][o]
  BY <1>1, <1>2 DEF ICacheTypeOK
<1>6. ASSUME NEW t \in Set, NEW v \in Way
      PROVE  tag_array'[t][v] = IF t = s /\ v = w THEN TagOf(ifu_read_addr) ELSE tag_array[t][v]
  BY <1>1, <1>3 DEF ICacheTypeOK
<1>7. data_valid'[s] \subseteq {w} /\ \A t \in Set \ {s} : data_valid'[t] \subseteq data_valid[t]
  BY <1>1, <1>4 DEF ICacheTypeOK
<1> QED
  BY <1>1, <1>5, <1>6, <1>7

(* A cycle leaves no set with two valid ways.                              *)
LEMMA SingleWayKept ==
  ASSUME ICacheTypeOK, SingleWay, Arrays
  PROVE  SingleWay'
<1>1. CASE fill
  <2> DEFINE s == IndexOf(ifu_read_addr)
  <2>1. /\ data_valid'[s] \subseteq {icache_way_sel}
        /\ \A t \in Set \ {s} : data_valid'[t] \subseteq data_valid[t]
    BY <1>1, Written
  <2> QED
    BY <2>1 DEF SingleWay
<1>2. CASE ~fill
  BY <1>2, Unwritten DEF SingleWay
<1> QED
  BY <1>1, <1>2

(* The words of the burst arrive in order.                                 *)
LEMMA FillingKept ==
  ASSUME ICacheInv, ICacheNext
  PROVE  Filling'
<1>1. PICK b \in BOOLEAN : Cache(b) /\ Memory(b) /\ Core
  BY DEF ICacheNext
<1>2. ICacheTypeOK /\ Handshake /\ FillInStep /\ Filling /\ Arrays
  BY <1>1 DEF ICacheInv, Cache
<1> SUFFICES ASSUME state' = "mem_rdata"
             PROVE  Filling'
  BY DEF Filling
<1>3. mem' = mem /\ ifu_read_addr' = ifu_read_addr /\ icache_way_sel' = icache_way_sel
  <2>1. state \in {"mem_araddr", "mem_rdata"}
    BY <1>1 DEF Cache, Idle, CheckCache, MemAraddr, MemRdata, UpdateArray, InstrFetch
  <2> QED
    BY <1>1, <1>2, <2>1, MemoryHeld DEF Cache, Idle, CheckCache, MemAraddr, MemRdata,
       UpdateArray, InstrFetch
<1>4. CASE state # "mem_rdata"
  <2>1. icache_wr_offset' = 0
    <3>1. icache_wr_offset = 0
      BY <1>2, <1>4 DEF FillInStep, ICacheTypeOK
    <3> QED
      BY <1>1, <1>4, <3>1 DEF Cache, Idle, CheckCache, MemAraddr, MemRdata, UpdateArray,
         InstrFetch
  <2> QED
    BY <2>1 DEF Filling, Offset
<1>5. CASE state = "mem_rdata" /\ ~fill
  <2>1. data_array' = data_array
    BY <1>2, <1>5, Unwritten
  <2>2. icache_wr_offset' = icache_wr_offset
    BY <1>1, <1>5 DEF Cache, Idle, CheckCache, MemAraddr, MemRdata, UpdateArray,
       InstrFetch
  <2> QED
    BY <1>2, <1>3, <1>5, <2>1, <2>2 DEF Filling
<1>6. CASE state = "mem_rdata" /\ fill
  <2>1. ~last_beat /\ icache_wr_offset = m_beat
    BY <1>1, <1>2, <1>6 DEF FillInStep, Cache, Idle, CheckCache, MemAraddr, MemRdata,
       UpdateArray, InstrFetch, ICacheTypeOK
  <2>2. icache_wr_offset' = icache_wr_offset + 1
    <3>1. icache_wr_offset' = (icache_wr_offset + 1) % LineWords
      BY <1>1, <1>6 DEF Cache, Idle, CheckCache, MemAraddr, MemRdata, UpdateArray,
         InstrFetch
    <3>2. icache_wr_offset + 1 \in 0 .. LineWords - 1 /\ LineWords \in Nat \ {0}
      BY <1>2, <2>1, ICacheAssumption DEF last_beat, ICacheTypeOK, Offset
    <3> QED
      BY <3>1, <3>2
  <2> SUFFICES ASSUME NEW o \in Offset, o < icache_wr_offset + 1
               PROVE  data_array'[IndexOf(ifu_read_addr)][icache_way_sel][o]
                        = mem[LineOf(ifu_read_addr) + o]
    BY <1>3, <2>2 DEF Filling
  <2>3. data_array'[IndexOf(ifu_read_addr)][icache_way_sel][o]
          = IF o = icache_wr_offset THEN m_rdata
            ELSE data_array[IndexOf(ifu_read_addr)][icache_way_sel][o]
    BY <1>2, <1>6, Written
  <2>4. CASE o = icache_wr_offset
    BY <2>1, <2>3, <2>4 DEF m_rdata
  <2>5. CASE o # icache_wr_offset
    <3>1. o < icache_wr_offset
      BY <1>2, <2>5 DEF Offset, ICacheTypeOK
    <3> QED
      BY <1>2, <1>6, <2>3, <2>5, <3>1 DEF Filling
  <2> QED
    BY <2>4, <2>5
<1> QED
  BY <1>4, <1>5, <1>6

(* The last word of a burst completes the line.                            *)
LEMMA LineFilled ==
  ASSUME ICacheInv, Arrays, fill, last_beat, NEW o \in Offset
  PROVE  data_array'[IndexOf(ifu_read_addr)][icache_way_sel][o] = mem[LineOf(ifu_read_addr) + o]
<1>1. ICacheTypeOK /\ Handshake /\ FillInStep /\ Filling /\ state = "mem_rdata"
  BY DEF ICacheInv, fill
<1>2. data_array'[IndexOf(ifu_read_addr)][icache_way_sel][o]
          = IF o = icache_wr_offset THEN m_rdata
            ELSE data_array[IndexOf(ifu_read_addr)][icache_way_sel][o]
  BY <1>1, Written
<1>3. icache_wr_offset = m_beat /\ m_beat = LineWords - 1
  BY <1>1 DEF FillInStep, last_beat, ICacheTypeOK
<1>4. CASE o = m_beat
  BY <1>2, <1>3, <1>4 DEF m_rdata
<1>5. CASE o # m_beat
  <2>1. o < icache_wr_offset
    BY <1>3, <1>5, ICacheAssumption DEF Offset
  <2> QED
    BY <1>1, <1>2, <1>3, <1>5, <2>1 DEF Filling
<1> QED
  BY <1>4, <1>5

(* A hit, or the last word of a burst, makes the selected way current.     *)
LEMMA ReadyKept ==
  ASSUME ICacheInv, ICacheNext
  PROVE  Ready'
<1>1. PICK b \in BOOLEAN : Cache(b) /\ Memory(b) /\ Core
  BY DEF ICacheNext
<1>2. ICacheTypeOK /\ Handshake /\ Sampled /\ Ready /\ Arrays
  BY <1>1 DEF ICacheInv, Cache
<1> SUFFICES ASSUME state' \in {"update_array", "instr_fetch"}
             PROVE  Current(icache_way_sel)'
  BY DEF Ready
<1>3. state \in {"check_cache", "mem_rdata", "update_array", "instr_fetch"} /\ ifu_read_addr' = ifu_read_addr
  BY <1>1 DEF Cache, Idle, CheckCache, MemAraddr, MemRdata, UpdateArray, InstrFetch
<1>4. mem' = mem /\ dirty' = dirty
  BY <1>1, <1>2, <1>3, MemoryHeld
<1>5. CASE state = "check_cache"
  <2>1. hits # {} /\ icache_way_sel' = hit_way
    BY <1>1, <1>5 DEF Cache, Idle, CheckCache, MemAraddr, MemRdata, UpdateArray,
       InstrFetch
  <2>2. hit_way \in hits
    BY <1>2, <1>5, <2>1, HitWay
  <2>3. Current(hit_way)
    BY <1>2, <1>5, <2>2 DEF Sampled
  <2>4. data_array' = data_array
    BY <1>2, <1>5, Unwritten DEF fill
  <2> QED
    BY <1>3, <1>4, <2>1, <2>3, <2>4 DEF Current
<1>6. CASE state = "mem_rdata"
  <2>1. fill /\ last_beat /\ icache_way_sel' = icache_way_sel
    BY <1>1, <1>6 DEF Cache, Idle, CheckCache, MemAraddr, MemRdata, UpdateArray,
       InstrFetch
  <2>2. OffsetOf(ifu_read_addr) \in Offset /\ LineOf(ifu_read_addr) + OffsetOf(ifu_read_addr) = ifu_read_addr
    BY <1>2, Fields, LineWord DEF ICacheTypeOK
  <2>3. data_array'[IndexOf(ifu_read_addr)][icache_way_sel][OffsetOf(ifu_read_addr)] = mem[ifu_read_addr]
    BY <1>2, <2>1, <2>2, LineFilled
  <2> QED
    BY <1>3, <1>4, <2>1, <2>3 DEF Current
<1>7. CASE state \in {"update_array", "instr_fetch"}
  <2>1. icache_way_sel' = icache_way_sel
    BY <1>1, <1>7 DEF Cache, Idle, CheckCache, MemAraddr, MemRdata, UpdateArray,
       InstrFetch
  <2>2. data_array' = data_array
    BY <1>2, <1>7, Unwritten DEF fill
  <2> QED
    BY <1>2, <1>3, <1>4, <1>7, <2>1, <2>2 DEF Ready, Current
<1> QED
  BY <1>3, <1>5, <1>6, <1>7

(* Accepting a fetch samples the set.                                      *)
LEMMA SampledKept ==
  ASSUME ICacheInv, ICacheNext
  PROVE  Sampled'
<1>1. PICK b \in BOOLEAN : Cache(b) /\ Memory(b) /\ Core
  BY DEF ICacheNext
<1>2. ICacheTypeOK /\ Handshake /\ SingleWay /\ LinesCurrent /\ Arrays
  BY <1>1 DEF ICacheInv, Cache
<1> SUFFICES ASSUME state' = "check_cache", NEW w \in hits'
             PROVE  Current(w)' /\ \A v \in hits' : v = w
  BY DEF Sampled
<1>3. /\ state = "idle" /\ arvalid /\ ifu_read_addr' = araddr
      /\ icache_valid' = data_valid[IndexOf(araddr)]
      /\ icache_tag' = tag_array[IndexOf(araddr)]
  BY <1>1 DEF Cache, Idle, CheckCache, MemAraddr, MemRdata, UpdateArray, InstrFetch
<1>4. mem' = mem /\ dirty' = dirty
  BY <1>1, <1>2, <1>3, MemoryHeld
<1>5. data_array' = data_array
  BY <1>2, <1>3, Unwritten DEF fill
<1>6. IndexOf(araddr) \in Set /\ araddr \in Addr
  BY <1>2, Fields DEF ICacheTypeOK
<1>7. hits' \subseteq data_valid[IndexOf(araddr)]
  BY <1>3 DEF hits
<1>8. w \in Way /\ Holds(IndexOf(araddr), w, araddr)
  BY <1>3, <1>6 DEF hits, Holds
<1>9. data_array[IndexOf(araddr)][w][OffsetOf(araddr)] = mem[araddr] \/ araddr \in dirty
  BY <1>2, <1>3, <1>6, <1>8 DEF LinesCurrent
<1>10. Current(w)'
  BY <1>3, <1>4, <1>5, <1>9 DEF Current
<1> QED
  BY <1>2, <1>6, <1>7, <1>10 DEF SingleWay

(* No store, fill or fence.i leaves a stale valid line.                    *)
LEMMA LinesKept ==
  ASSUME ICacheInv, ICacheNext
  PROVE  LinesCurrent'
<1>1. PICK b \in BOOLEAN : Cache(b) /\ Memory(b) /\ Core
  BY DEF ICacheNext
<1>2. ICacheTypeOK /\ Handshake /\ LinesCurrent /\ Arrays
  BY <1>1 DEF ICacheInv, Cache
<1> SUFFICES ASSUME NEW s \in Set, NEW w \in Way, NEW a \in Addr, Holds(s, w, a)'
             PROVE  \/ (data_array[s][w][OffsetOf(a)] = mem[a])'
                    \/ a \in dirty'
                    \/ state' = "mem_rdata" /\ LineOf(a) = LineOf(ifu_read_addr')
  BY DEF LinesCurrent
<1>3. OffsetOf(a) \in Offset /\ ifu_read_addr \in Addr
  BY <1>2, Fields DEF ICacheTypeOK
<1>4. CASE fill
  <2>1. state = "mem_rdata" /\ ifu_read_addr' = ifu_read_addr
        /\ (state' = "mem_rdata" \/ last_beat)
    BY <1>1, <1>4 DEF fill, Cache, Idle, CheckCache, MemAraddr, MemRdata, UpdateArray,
       InstrFetch
  <2>2. mem' = mem /\ dirty' = dirty
    BY <1>1, <1>2, <2>1, MemoryHeld
  <2>3. CASE s = IndexOf(ifu_read_addr)
    <3>1. w = icache_way_sel /\ tag_array'[s][w] = TagOf(ifu_read_addr)
      BY <1>2, <1>4, <2>3, Written DEF Holds
    <3>2. LineOf(a) = LineOf(ifu_read_addr)
      BY <1>3, <2>3, <3>1, SameLine DEF Holds
    <3>3. LineOf(a) + OffsetOf(a) = a
      BY LineWord
    <3>4. last_beat => data_array'[s][w][OffsetOf(a)] = mem[a]
      BY <1>2, <1>3, <1>4, <2>3, <3>1, <3>2, <3>3, LineFilled
    <3> QED
      BY <2>1, <2>2, <3>2, <3>4
  <2>4. CASE s # IndexOf(ifu_read_addr)
    <3>1. /\ data_array'[s][w][OffsetOf(a)] = data_array[s][w][OffsetOf(a)]
          /\ tag_array'[s][w] = tag_array[s][w] /\ data_valid'[s] \subseteq data_valid[s]
      BY <1>2, <1>3, <1>4, <2>4, Written
    <3>2. Holds(s, w, a)
      BY <3>1 DEF Holds
    <3>3. LineOf(a) # LineOf(ifu_read_addr)
      <4>1. SUFFICES ASSUME LineOf(a) = LineOf(ifu_read_addr) PROVE IndexOf(a) = IndexOf(ifu_read_addr)
        BY <2>4, <3>2 DEF Holds
      <4> QED
        BY <1>3, <4>1, LineIndex
    <3> QED
      BY <1>2, <2>2, <3>1, <3>2, <3>3 DEF LinesCurrent
  <2> QED
    BY <2>3, <2>4
<1>5. CASE ~fill
  <2>1. /\ data_array' = data_array /\ tag_array' = tag_array
        /\ data_valid'[s] \subseteq data_valid[s]
        /\ fence_i => data_valid'[s] = {}
    BY <1>2, <1>5, Unwritten
  <2>2. Holds(s, w, a) /\ ~fence_i
    BY <2>1 DEF Holds
  <2>3. /\ state = "mem_rdata" => state' = "mem_rdata" /\ ifu_read_addr' = ifu_read_addr
    BY <1>1, <1>5 DEF Cache, Idle, CheckCache, MemAraddr, MemRdata, UpdateArray,
       InstrFetch
  <2>4. dirty \subseteq dirty' /\ (mem'[a] = mem[a] \/ a \in dirty')
    BY <1>1, <1>2, <2>2 DEF Core, StartFetch, WaitFetch, Execute, fence_i, ICacheTypeOK
  <2> QED
    BY <1>2, <2>1, <2>2, <2>3, <2>4 DEF LinesCurrent
<1> QED
  BY <1>4, <1>5

(* The answer register holds the current word until the core has taken it. *)
LEMMA FetchKept ==
  ASSUME ICacheInv, ICacheNext
  PROVE  FetchIsCurrent'
<1>1. PICK b \in BOOLEAN : Cache(b) /\ Memory(b) /\ Core
  BY DEF ICacheNext
<1>2. ICacheTypeOK /\ Handshake /\ Ready /\ FetchIsCurrent /\ AnswerRegs
  BY <1>1 DEF ICacheInv, Cache
<1> SUFFICES ASSUME phase' = "fetch", ifu_rvalid', araddr' \notin dirty'
             PROVE  ifu_rdata' = mem'[araddr']
  BY DEF FetchIsCurrent
<1>3. answer \/ ifu_rvalid
  BY <1>2 DEF AnswerRegs
<1>4. phase = "fetch" /\ mem' = mem /\ dirty' = dirty /\ araddr' = araddr
  BY <1>1, <1>2, <1>3, MemoryHeld DEF answer
<1>5. CASE answer
  <2>1. Current(icache_way_sel) /\ ifu_read_addr = araddr
    BY <1>2, <1>5 DEF answer, Ready, Handshake
  <2> QED
    BY <1>2, <1>4, <1>5, <2>1 DEF AnswerRegs, Current
<1>6. CASE ~answer
  BY <1>2, <1>3, <1>4, <1>6 DEF AnswerRegs, FetchIsCurrent
<1> QED
  BY <1>5, <1>6

(* The invariant holds after reset.                                        *)
LEMMA ICacheStarts == ICacheInit => ICacheInv
<1> SUFFICES ASSUME ICacheInit PROVE ICacheInv
  OBVIOUS
<1>1. 0 \in Addr /\ 0 \in Way /\ 0 \in Offset /\ 0 \in 0 .. Tags - 1
  <2>1. Tags * Sets * LineWords > 0
    BY ICacheAssumption
  <2> QED
    BY <2>1, ICacheAssumption DEF Addr, Way, Offset
<1>2. ICacheTypeOK
  <2>1. PICK z \in Words \ {FENCE} :
          /\ ifu_rdata = z /\ instr = z
          /\ data_array = [s \in Set |-> [w \in Way |-> [o \in Offset |-> z]]]
    BY DEF ICacheInit
  <2>2. ifu_rdata \in Words /\ instr \in Words /\ data_array \in [Set -> [Way -> [Offset -> Words]]]
    BY <2>1
  <2>3. /\ icache_tag \in [Way -> 0 .. Tags - 1] /\ data_valid \in [Set -> SUBSET Way]
        /\ tag_array \in [Set -> [Way -> 0 .. Tags - 1]]
    BY <1>1 DEF ICacheInit
  <2> QED
    BY <1>1, <2>2, <2>3 DEF ICacheInit, ICacheTypeOK, States
<1>3. Handshake /\ FillInStep /\ Sampled /\ Filling /\ Ready /\ FetchIsCurrent
  BY DEF ICacheInit, Handshake, FillInStep, Sampled, Filling, Ready, FetchIsCurrent
<1>4. SingleWay /\ LinesCurrent
  BY DEF ICacheInit, SingleWay, LinesCurrent, Holds
<1> QED
  BY <1>2, <1>3, <1>4 DEF ICacheInv

(* The invariant holds for ever.                                           *)
THEOREM ICacheInvariant == ICacheSpec => []ICacheInv
<1>1. ICacheInv /\ [ICacheNext]_icacheVars => ICacheInv'
  <2> SUFFICES ASSUME ICacheInv, [ICacheNext]_icacheVars PROVE ICacheInv'
    OBVIOUS
  <2>1. CASE ICacheNext
    <3>1. Arrays
      BY <2>1 DEF ICacheNext, Cache
    <3>2. ICacheTypeOK' /\ Handshake' /\ FillInStep' /\ SingleWay'
      BY <2>1, <3>1, ICacheTypesKept, HandshakeKept, FillInStepKept, SingleWayKept
         DEF ICacheInv
    <3> QED
      BY <2>1, <3>2, FillingKept, ReadyKept, SampledKept, LinesKept, FetchKept
         DEF ICacheInv
  <2>2. CASE UNCHANGED icacheVars
    <3> USE <2>2 DEF icacheVars, arrayVars, cacheVars, coreVars, memVars
    <3>1. ICacheTypeOK' /\ Handshake' /\ FillInStep'
      BY DEF ICacheInv, ICacheTypeOK, Handshake, FillInStep
    <3>2. SingleWay' /\ LinesCurrent'
      BY DEF ICacheInv, SingleWay, LinesCurrent, Holds
    <3>3. Sampled' /\ Filling' /\ Ready' /\ FetchIsCurrent'
      BY DEF ICacheInv, Sampled, hits, Current, Filling, Ready, FetchIsCurrent
    <3> QED
      BY <3>1, <3>2, <3>3 DEF ICacheInv
  <2> QED
    BY <2>1, <2>2
<1> QED
  BY <1>1, ICacheStarts, PTL DEF ICacheSpec

(* A fetch answers with the word memory holds, unless the program stored   *)
(* to that word and has not executed fence.i since, for every geometry of  *)
(* the cache and every timing (axi_icache.v).                              *)
THEOREM FetchesAreCurrent == ICacheSpec => []FetchIsCurrent
<1>1. ICacheInv => FetchIsCurrent
  BY DEF ICacheInv
<1> QED
  BY <1>1, ICacheInvariant, PTL

(* The valid lines are whole and current but for words stored to, no line  *)
(* is in two ways, and the write pointer is in step with the burst and     *)
(* back at the start of the line for the next (axi_icache.v).              *)
THEOREM CacheCoherent == ICacheSpec => []CacheSound
<1>1. ICacheInv => CacheSound
  <2> SUFFICES ASSUME ICacheInv PROVE LinesCoherent
    BY DEF ICacheInv, CacheSound
  <2>1. LinesCurrent /\ SingleWay
    BY DEF ICacheInv
  <2> QED
    BY <2>1 DEF LinesCoherent, LinesCurrent, SingleWay, Holds
<1> QED
  BY <1>1, ICacheInvariant, PTL

=============================================================================
