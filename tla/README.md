# Verification of the ysyx workbench

TLA+ models of the parts of the repository that carry its own logic: the NPC
processor with its cache and bus (`npc/vsrc`), its simulation harness
(`npc/csrc`), the NEMU emulator that serves as its reference (`nemu/src`), the
abstract machine's drivers (`abstract-machine/am`), the kernel of RT-Thread as
its abstract-machine port builds it (`rt-thread-am/src`), and the keyboard of
ysyxSoC. TLC checks the models on small instances; TLAPS proves, for every
instance, the central properties of the core, its harness, cache and
interconnect, of NEMU's monitor and devices, and of the heap, the context switch
and the scheduler of RT-Thread.

## 1. Inventory

| Component | State | Operations | What makes it correct |
|---|---|---|---|
| NPC core: `ifu idu iru exu lsu wbu bru regfile csrfile` | pc, registers, csrs, handshake registers of three bus ports, latched write-back signals | one clock edge updates all of them | one instruction at a time, requests held, operands stable, the architectural steps of NEMU, progress |
| NPC arithmetic (`alu.v`, `exu.v`), byte lanes (`lsu.v`, `dpic.cpp`, `mem.cpp`) | memory bytes | RV32I operations, loads and stores of every width | equal to NEMU's C expressions, same bytes |
| NPC instruction cache: `axi_icache.v` | controller, data, tag and valid arrays, fill pointer | lookup, burst fill, answer, fence.i | fetches are current, lines whole, every fetch answered |
| NPC interconnect: `axi_interconnect.v`, `arbiter.v`, slaves | grant and mask, transaction, two buffered channels | grant, decode, forward, buffer, answer | each beat once, in order, to its master; everyone served |
| NPC harness: `main.cpp difftest.cpp reg.cpp dpic.cpp` | NEMU's copy of the state, two skip flags | check, step, clock | no false mismatch, nothing but device accesses skipped |
| NEMU interpreter: `inst.c intr.c paddr.c hostcall.c` | pc, registers, csrs, memory | one instruction | the reference itself |
| NEMU debugger: `watchpoint.c sdb.c expr.c` | two linked lists, remembered values, tokens | `w d c si p x q`, a check after each instruction | lists intact, no missed hit, value as in C |
| NEMU run loop: `cpu-exec.c iringbuf.c` | `nemu_state`, byte ring with free-running counters | run, record, print, free | the last instructions, in order; closing the window ends the run |
| NEMU difftest client: `dut.c` | skip flag, catch-up counter | step, skip | an alarm for a wrong register and for nothing else |
| NEMU devices and drivers: `timer.c audio.c keyboard.c vga.c device.c`, `ioe/*.c` | ports, queues, sample buffer shared with SDL's thread | guest access, host event, callback, update | no torn time, no lost key, sound in order, frames shown |
| RT-Thread kernel: `scheduler_up.c thread.c idle.c ipc.c` | current thread, ready lists and bitmap, waiting lists, owners, inherited priorities, timers | thread, semaphore and mutex calls, sleep, timeout | lists agree with statuses, the most urgent thread runs, tokens and ownership conserved |
| RT-Thread heap: `mem.c`, port: `bsp/abstract-machine/src/context.c`, `cte.c`, `trap.S` | item chain; saved contexts, borrowed `user_data` | malloc, realloc, free; switch | blocks disjoint, failure only when full; threads run on where they left |
| ysyxSoC keyboard: `ps2_top_apb.v apb_delayer.v`, `ysyxsoc/input.c` | fifo, delayer, decoder state | receive a bit, read, poll | what was typed is reported, reads are answered |
| nanos-lite, guest programs, nvboard, rocket-chip, the rest of RT-Thread | | | skeletons, third-party or test code: left aside |

How they interact: the fetch and load/store units are AXI masters behind the
cache and the interconnect; slaves answer after a number of cycles that depends
on the address and on the other master. DPI calls connect slaves to the C++
memory and tell the harness when an instruction completes and when a device was
touched. The harness runs NEMU, built as a shared library, in lock step; NEMU
does the same with its own reference. Guest programs reach devices through the
abstract machine's drivers, loads and stores with the host's activity in
between; RT-Thread switches threads by the abstract machine's self-trap.

What is hard: the core has no central state machine, its control rests on
pulses whose length depends on slave latency; the interconnect computes ready a
cycle ahead; difftest compares one instruction late and re-synchronises after
device accesses; the cache's fill pointer and valid bits depend on burst timing;
SDL's thread shares variables without a lock; a kernel call that waits is two
halves with anything in between; the context switch borrows a field of the
thread that is not running yet. `PROJECT.json` lists each hazard at its line
with the properties that cover it.

## 2. Modules

| Module | Models | One step is |
|---|---|---|
| `Rv32` | the instruction set both machines share; decoder and ALU are parameters | - |
| `NemuIsa` | NEMU's interpreter, the abstract specification of the core | an instruction |
| `NpcCore` | the core and its bus ports | a clock cycle |
| `NpcDifftest` | harness: `NpcCore` extended, `NemuIsa` instantiated as the reference | a part of the loop in `main` |
| `NpcAlu`, `LsuLanes` | arithmetic and byte lanes beside NEMU's | an operation |
| `Expr` | the evaluator of the debugger beside the grammar of C | a token typed, a line evaluated |
| `ICache` | the cache, the fetch unit, a burst memory | a clock cycle |
| `NpcBus` | interconnect, arbiter, masters and slaves | a clock cycle, or a new request |
| `WatchpointPool` | pool and debugger commands | a command or an instruction |
| `CpuExec` | run loop and instruction ring | an instruction, a device update, a command |
| `NemuDut` | difftest client with debugger reads | a part of the run loop |
| `NemuIo` | keyboard and screen, host to driver | an event, an update, one guest access |
| `AmTimer` | uptime driver on NEMU's rtc or the NPC's timer | one load, a tick |
| `AmAudio` | sound driver, device, SDL's thread | one access to a shared variable |
| `RtSched` | scheduler, threads, idle | a kernel call |
| `RtIpc` | semaphores, mutexes, sleeping: extends `RtSched` | a kernel call, a half of one that waits, a timeout |
| `RtContext` | context switch of the port | a call, a trap, a return |
| `RtMem` | the heap | a call |
| `SocPs2` | keyboard, controller, delayer, driver | a clock cycle, an event |
| `MCNpcCore MCNpcDifftest MCRtIpc` | instances | |
| `MCNpcMemory MCAlgorithms MCNemu MCPlatform` | several components, one model each | |
| `Npc_proofs` | theorems about the core, and about core, harness and reference | |
| `ICache_proofs`, `NpcBus_proofs` | theorems about the cache; about the interconnect | |
| `NemuMonitor_proofs` | theorems about `WatchpointPool`, `CpuExec` and `NemuDut` | |
| `NemuDevices_proofs` | theorems about `AmTimer` and `AmAudio` | |
| `Platform_proofs` | theorems about `RtContext`, `RtMem` and `SocPs2` | |
| `RtKernel_proofs` | theorems about `RtSched` and `RtIpc` | |
| `RtPriority_proofs` | the theorem about priority inheritance: extends `RtKernel_proofs` | |

**Names.** Variables carry the names of the Verilog registers (`_reg` dropped)
or C variables. A combinational signal is an operator. A variable commented
"history" is no state of the program: it remembers what a property compares
with. An operator whose comment starts with "Mutation" is a deliberately wrong
variant of the definition after it, used to check that a property can fail.

**One model for several components.** `MCNpcMemory`, `MCAlgorithms`, `MCNemu`
and `MCPlatform` put components side by side that share no variable. What such
components do together is a shuffle of what each does alone, and every property
speaks of one component (a conjunction is of such properties), so nothing is
lost when in each behaviour one of them, `part`, acts.

**NpcCore.** `Cycle` is one rising edge: the conjunction of the next-state
equations of `Ifu`, `LsuRead`, `LsuWrite`, `LsuCommon`, `Wbu`, `Bru`,
`Regfile`, `Csrfile` and of the slaves behind the three ports. `Stop` is the
end of the simulation on a bus error, a decode error or a completing ebreak. A
slave accepts a request in any cycle, answers in any later one and holds the
answer until it is taken; address and data of a store are accepted in either
order. An unmapped address is answered with an error; a device read returns any
value. Abstracted: memory is word-addressed (lanes: `LsuLanes`); a store
reaches memory when its response is issued (nobody can look in between, which
`OneInFlight` shows). The model is the standalone build, in which fetches
bypass the cache. Accesses are aligned; mvendorid, marchid and the performance
counters are left out.

**NemuIsa.** One action per instruction class; `OutOfBound` is the panic of
`paddr.c`; `ExecEnd` is ebreak or a word without pattern. fence.i, the all-zero
word, csrrc and the immediate csr instructions have no pattern in NEMU and
abort it, while the core executes them: `npc_difftest`, which also checks the
refinement, uses the instruction set common to both (`Common`), `npc_core` the
core's own (`CoreOnly`). Multiply and divide, which only NEMU has, are left out.

**NpcDifftest.** `loop` is the position in the body of `main`: evaluate, check,
step NEMU, clock. `DeviceServed` is a device's call of `difftest_skip`.

**ICache.** One disjunct per state of the controller; `Arrays` writes data, tag
and valid bits, fence.i last as in the source. The rest of the core is one
action that completes an instruction: it may store any word anywhere or be the
fence.i it fetched. `dirty` holds the addresses stored to since the last fence.i.

**NpcBus.** The registers of the interconnect are records (`arb`, `bus`, `rq`,
`wq`) with one operator per state of the machine; `Skid` is the pair of output
and spare register both data channels have. `Cycle(e)` is a clock edge under
one choice `e` of who stalls; masters start reads and writes at any time,
overlapping freely, which is more than the three masters of `top.v` do.

**CpuExec, NemuDut, WatchpointPool.** The three cut the run loop of
`cpu-exec.c` along what each needs: the ring and the window, the comparison, the
watchpoints. In `NemuDut` a machine is a pc, a register and a word of memory,
and NEMU may compute register or memory wrongly in any instruction, a device
access and those of a packed group included; `gold` is NEMU without errors, so
that a missed alarm can be told from a false one. The client copies and compares
registers only, so the memories can drift apart. Control flow is assumed right.
Nothing under `src` calls `difftest_skip_dut` for riscv32; it is modelled as its
comment describes its use, with groups of `PackLen` instructions.

**AmAudio.** The callback is five steps: the first load of `tail`, copying, the
test and the two resets; the driver's loop reads the count, writes samples and
commits. Every load and store of the shared `tail` is a step of its own. `tail`
is a plain int, which a compiler may keep in a register: the second and third use
in the callback take either the value loaded first (`seen`) or a fresh one.

**RtSched and RtIpc.** The kernel is one record `k` and a kernel call an
operator on it, so that calls compose as in C (`rt_sem_release` ends in
`rt_schedule`). Interrupts never switch threads in this port (the function is
`assert(0)`), so a call up to its `rt_schedule` is atomic; a take that waits
continues in `Return` when its thread runs again. Which calls an application
makes is a constant. Nothing counts ticks in the port as it is; the `tick`
application models a port that does. A thread that owns a mutex is not closed.

**RtContext.** The array the switch leaves on the caller's stack is named by its
owner: `<<"frame", t>>`. `ContextsKept` is about registers, stack and place, not
about the value of `user_data`.

**RtMem.** Items are named by their offset. Every call is atomic, because the
heap lock is held. Sizes are unbounded integers, in the instance in units of 4
bytes.

**SocPs2.** Every register of the controller and the delayer, clock by clock.
`apb` is the phase of a read in the bridge (`AXI4ToAPB.scala`): the setup cycle is
a request that meets the bridge in `s_idle`, the access `s_inflight`; the next
setup may follow the answer directly. The crossbar, the keyboard and a second
peripheral that takes its time are external.

## 3. Runs

| Run | Instance | States | Checks |
|---|---|---|---|
| `npc_core` | 6 cells (4 memory, 1 device, 1 hole), 3 registers, 2,592 programs of 4 words, self-modifying ones included | 333,000 | `TypeOK`, `OneInFlight`, `WritebackCoherent`, `AxiRequestsHeld`, `AlwaysCompletes` |
| `npc_difftest` | the same with the common instructions | 883,000 | `ImplementsNemu`, `NeverMismatch`, `SkipIsForDevice`, `ReferenceSound` |
| `npc_memory` | cache of 1 set, 2 ways, 2 words per line, 2 tags; interconnect of 2 masters, 2 slaves, bursts of up to 3 beats | 293,000 | `FetchIsCurrent`, `CacheSound`, `Delivered`, `Answers` |
| `algorithms` | 4-bit ALU words, bytes of two values and 2 words of memory, lines of up to 7 of 7 tokens | 1,930,000 | `AluMatchesNemu`, `LanesMatchNemu`, `EvaluatesAsC` |
| `nemu` | 3 watchpoints; ring of 4 instructions, counters of 4 bits; programs of 4 instructions, packed groups of 4; queue of 3 keys, 3 events, 2 draws of a pixel; 2-bit time words; buffer of 4 bytes, 7 samples | 484,000 | `TypeOK`, `ListsPartitionPool`, `NoMissedHit`, `RingHoldsLast`, `ClosingStops`, `AlarmIffFault`, `KeysInOrder`, `FrameShown`, `UptimeIsCurrent`, `PlaysWhatWasWritten`, `AudioFinishes` |
| `rt_kernel` | 2 workers, main and idle, 4 priorities, a semaphore, 2 mutexes, 7 applications | 129,000 | `WaitersListed`, `HighestRuns`, `YieldShares`, `TokensConserved`, `OwnerHolds`, `PriorityInherited`, `NoUseAfterFree`, `SleepEnds` |
| `platform` | 3 threads; heap of 24 units, 9 sizes; fifo of 4, 2 key events | 879,000 | `ContextsKept`, `HeapConsistent`, `NullOnlyIfFull`, `KeyboardFaithful`, `ReadAnswered` |
| `difftest_oddjalr` | one program of jalr instructions with an odd offset | | violates `NeverMismatch` |
| `npc_alu_sra` | every amount of sra | | violates `AluMatchesNemu` |
| `icache_ways` | as in `npc_memory` | | violates `FillKeepsOtherWays` |
| `am_timer_clint` | the NPC's timer instead of NEMU's | | violates `UptimeMonotone` |
| `rt_ipc_resume` | a thread resumes a waiter of a mutex | | violates `OwnerHolds` |

**Bounds.** Latencies are not bounded: a state that waits is a cycle in the
state graph. Four code words are enough for every instruction to follow every
other one through branches and jumps; 24 values per word make addresses wrap
and distinguish aligned from odd ones. One cache set suffices because sets do
not interact except through fence.i, which clears all of them; two tags and two
ways give hits in either way and misses with replacement. Bursts of three beats
fill output and spare register and leave one behind. Two masters show that an
answer goes to the right one; that round robin starves nobody when three ask is
beyond this instance, as a fixed priority serves two. The expressions of
`NpcAlu` are uniform in the word length; 4 bits include overflow and the
smallest integer. Seven tokens give three operators, or two with parentheses;
the seven tokens cover unary and binary use, both levels of arithmetic and a
comparison. The ring wraps and its counters overflow. A queue of three keys
overflows with three events. Two draws are enough for a refresh in the middle of
one that finds the sync of the other. A packed group of four can begin with the
packed instruction, be cut short by a device access, and then load what the
reference has already stored to. Seven samples wrap the buffer of four. Two workers
and main give chains of inheritance over two mutexes. The heap of 24 units holds
three blocks with two holes, and sizes lie on both sides of every threshold.
Two key events, each possibly extended and released, give up to six codes
through a fifo of four.

**Fairness.** `npc_core`, the cache: the clock runs and a slave with a request
does something eventually; the SRAM and the UART answer within a fixed number of
cycles. Interconnect: weak fairness of a cycle in which nobody stalls, because
every stall in the system ends. `CpuExec`: the interpreter runs on. `NemuIo`:
the interpreter keeps calling `device_update` and the guest goes on. Audio: the
host schedules both threads. Kernel: a thread that only yields does so again
(`Yield`), and where ticks come a started timer expires. `SocPs2`: the clock.
The store to the timer, whose write channel is tied off, is left out of the
programs: it would hang both the core and the interconnect.

**Deadlock** is checked in `npc_memory` and `platform`. It is no error where the
system may end: the simulation stops (`npc_core`, `npc_difftest`), a line is
evaluated (`algorithms`), NEMU ends, aborts or runs out of the bounded events
and time (`nemu`), and threads of an application may all wait while idle, whose
loop is a stuttering step, runs (`rt_kernel`).

**What the violations show.** `difftest_oddjalr`: `bru.v` does not clear bit 0
of a jalr target. `npc_alu_sra`: `alu.v` takes six bits of the amount of an
arithmetic shift. `icache_ways`: a fill writes the valid bits of the whole set
and so invalidates the other way; results stay right (`FetchIsCurrent`), the
second way is useless. `am_timer_clint`: the driver combines words of two
moments, and uptime jumps 2^32 cycles ahead and back. `rt_ipc_resume`: a thread
resumed while it waits for a mutex returns success without owning it.

**Exceptions written into properties.** Each says what the code does not
promise, at the line where it does not.
- `PlaysWhatWasWritten`: two races of the unlocked `tail`. A guest write of the
  count between the callback's two loads (`audio.c:59`) that raises the bytes
  waiting from fewer than SDL asked for to more makes `memcpy` run past the end
  of `stream` and skips the samples that do not fit. A callback that resets
  `tail` between the guest's read of the count and its write, or after a write
  it has not seen (`audio.c:63`), drops or repeats samples. The copy stays within
  the sample buffer all the same.
- `AlarmIffFault`, false alarms: memory is never copied, so the two memories
  part when a device access cuts short a packed group whose rest stores (the
  case the comment at `dut.c:41` admits), or when the debugger reads a device just before a store, which
  only NEMU then executes (`map.h:41`). A later load differs.
- `AlarmIffFault`, missed faults: a wrong register is copied to the reference
  unseen (`dut.c:120`) when the device access itself computed it, when the device
  access cut short the packed group that did (`dut.c:45`), or when a device read
  by the debugger exempted an instruction that needs no skipping. A wrong word
  of memory is found only when it is loaded.
- `EvaluatesAsC`: a leading unary operator stops the search for the operator to
  split at (`expr.c:254`), and a failed register name is overwritten by a later
  success (`reg.c:50`); `Misread` and `NoRegister` describe those lines.
- `RingHoldsLast`: `statistic` frees the ring and keeps the pointer
  (`cpu-exec.c:121`).
- `KeysInOrder`: the prompt clears SDL's queue; an overflow of the ring is an
  assertion failure.
- `YieldShares`: with three ready threads of a priority a yield may leave one
  out (`scheduler_up.c:259`).
- `PriorityInherited`: hand-over of a mutex does not apply its ceiling
  (`ipc.c:1478`).
- `NoUseAfterFree`: a waiter of a deleted mutex, and one that times out, reads a
  freed mutex or the owner of one that has none (`ipc.c:1300`); applications that
  do so are excepted, and no property covers that hazard.
- `KeyboardFaithful`: a code that arrives as the last one is taken stays hidden
  until the next (`ps2_top_apb.v:87`); the fifo has no test for full.

Further observations of the same kind, which no property depends on: the
assertion of the cache's formal test bench was written for one-word lines
(`CacheTest.sv:224`); the cache answers okay for a failed burst
(`axi_icache.v:183`) and its valid bits have no reset (`:166`); a store to the
PS/2 controller is not answered; a realloc that shrinks a block by too little to split it
allocates a new one, and so can fail (`mem.c:497`); a take of a mutex that times
out leaves `pending_object` set (`ipc.c:1254`), and when such a thread later waits
for a semaphore while a thread waits for a mutex it owns and gives up, the change
of its priority moves it from the semaphore's list to that of the mutex
(`ipc.c:800`), which needs a port with ticks; the context switch restores
`user_data` only when the switcher runs again (`context.c:34`): a thread switched
to sees the pointer in the meantime, a store it makes is overwritten, and when
switches nest the value put back can be a pointer to an array whose call has
returned; a request less than the alignment below 2^32 wraps to 0 in `RT_ALIGN`
(`mem.c:303`, `435`), which the unbounded sizes of `RtMem` do not show.

## 4. Proofs

Each theorem holds for every value of the constants that satisfies the named
assumptions of its module; TLC evaluates those assumptions in every run. An
inductive invariant is written as a conjunction of named parts, and a proof that
the steps keep it has one lemma per action.

| Theorem | States | For every |
|---|---|---|
| `TypeCorrect`, `SingleIssue`, `RequestsHeld`, `Coherence` | `TypeOK`, `OneInFlight`, `AxiRequestsHeld`, `WritebackCoherent` | decoder, ALU, number of cells and registers, program, slave behaviour |
| `CoreImplementsNemu` | `ImplementsNemu`: the refinement of `NemuIsa` | the same, portable programs |
| `NoMismatch`, `MemoriesSame` | `NeverMismatch`, `ReferenceSound` | the same, portable programs |
| `SkipsAreDevices` | `SkipIsForDevice` | the same, any program |
| `FetchesAreCurrent`, `CacheCoherent` | `FetchIsCurrent`, `CacheSound` | number of sets, ways, words and tags, burst timing, stores |
| `AnswersDelivered` | `Delivered` | number of masters, slaves and beats, stalls of anyone in any cycle |
| `PoolNeverBroken`, `WatchpointsCatch` | `ListsPartitionPool`, `NoMissedHit` | pool size, expressions, sequence of commands |
| `RingComplete` | `RingHoldsLast` | sizes of ring, instruction and counter |
| `DifftestSound` | `AlarmIffFault` | program, faults in any instruction, length of packed groups |
| `TimeUntorn` | `UptimeIsCurrent` (with the latching rtc) | word size, length of run |
| `SoundInOrder` | `PlaysWhatWasWritten` | buffer, chunk and callback sizes, interleaving, choice of the loads of `tail` |
| `KeysDelivered` | `KeysInOrder` (with the type invariant) | queue length, number of keys and events |
| `LanesCorrect` | `LanesMatchNemu` | even byte size, number of words, contents, width, address |
| `ContextsNeverLost` | `ContextsKept`: registers, stack, place | set of threads, values |
| `HeapAlwaysConsistent`, `NullMeansFull` | `HeapConsistent`, `NullOnlyIfFull` | heap size, alignment, minimum size, requests |
| `UrgentRuns`, `KernelLists` | `HighestRuns`; `TypeOK`, `ListsAgree`, `CurrentExists` | threads, priorities, sequence of scheduler calls |
| `WaitersAreListed`, `TokensAreConserved`, `OwnersHold`, `NothingFreedIsUsed`, `UrgentRunsWithIpc` | `WaitersListed`, `TokensConserved`, `OwnerHolds`, `NoUseAfterFree`, `HighestRuns` | threads, priorities, semaphores, mutexes, sequence of calls, timeouts; orderly applications |
| `PrioritiesInherited` | `PriorityInherited` | the same, with chains and cycles of owners of any length |
| `KeyboardAlwaysFaithful` | `KeyboardFaithful` | fifo and frame length, key events, timing of bits and reads |

**The core (`Npc_proofs`).** `OneInFlight` is inductive by itself once it is
the disjunction of five phases that fix every handshake register; one lemma per
phase says which phases follow. `WritebackCoherent` needs the phases, because
operands can change only when `lsu_valid` is up and the bus payload only when
`idu_valid` is. `Rv32Assumption`: the word size is a positive multiple of four,
the decoder yields instructions, the ALU words. `ProgramsAssumption`: a program
is a memory contents.

**Core, harness and reference (`Npc_proofs`).** `CoreInv` adds to the
above that register 0 is zero and that a store answered with an error has not
written. It makes the completing cycle compute what `NemuIsa` computes in one
step, and every other cycle a stutter. `OrAssumption` (or with 0 is the
identity) makes csrrs with x0 a read. `SkipInv` ties the skip flag to the
instruction that was served by a device. `RefInv` says where the reference
stands at each position of the loop: with the core's registers and its memory
but for a store in progress while an instruction executes, and with what the
core is about to write back once it was stepped.
The hypothesis `Portable` of three theorems says that no executed instruction is
one NEMU has no pattern for (csrrc, csr immediates, fence.i, the zero word) and
that no jalr has an odd target: there the two machines differ, as
`difftest_oddjalr` shows for the latter. Self-modifying code, device reads,
every latency and stores of any kind are within it. `Portable` is true in all
883,000 states of `npc_difftest`, whose programs are all of this kind.

**The cache (`ICache_proofs`).** `ICacheInv`: types, the bus handshake, the fill
pointer in step with the burst, no line in two ways, valid lines current except
for words stored to since the last fence.i, and in each state of the controller
what it has sampled, what part of the line is already filled and that the line
it answers from is complete. Division with remainder is proved unique first, so
that tag, index and offset determine the address.

**The interconnect (`NpcBus_proofs`).** `BusInvar`: every register within its
width; one of ten phases (idle, two decodes, and read, drop, wait and their
counterparts for writes), each of which says how far the transaction is, what the slave has
done and which beats are in the output and spare registers, in order
(`Buffered`); and the promise that a ready bit computed a cycle ahead finds room
(`Skids`). The phases are needed because a beat that is in the buffer has left
the slave and is not yet at the master: no property of the two ends alone is
inductive. `BusAssumption` bounds bursts by the eight-bit count of the drop
state; `NoneAssumption` keeps the marker for "nothing" apart from transactions.

**The byte lanes (`NpcBus_proofs`).** A word is four digits to the base of a
byte, so the strobes, shifts and extensions of `lsu.v` are divisions and
remainders by products of `ByteSize`. `Division` (quotient and remainder are
unique) and the lemmas about digits on top of it compute each lane; a store is
compared with NEMU's byte by byte, and two words with equal bytes are equal.

**NEMU's monitor (`NemuMonitor_proofs`).** `WpInv` gives both linked lists
explicitly as sequences of nodes that partition the pool; each pointer
assignment of `new_wp` and `free_wp` is shown to insert or remove one node. The
remembered value of each watched expression is its value after the last check.
`CpuInv` says that the bytes from `out` to `in`, modulo ring size and counter
size, are those of the last instructions; `CpuExecAssumption` (the ring is a
multiple of an instruction, the counter's range of the ring) is what makes the
wrap of the counters harmless. `DutInv` says for each phase of the run loop where
the reference is (`DutPlaces`) and, as long as no exception has spoiled it, in
which state, relative to NEMU without errors (`DutReference`): in the same one,
at the end of the packed group NEMU is in (an explicit sequence of states leads
there), at the same memory when its registers are about to be overwritten, or one
instruction behind. A right NEMU is then never stopped (`DutRight`), and a
compared register is right (`DutCaught`).

**Devices (`NemuDevices_proofs`).** `TimerInv`: between the two reads the latch
holds both words of one moment of the call. `TimeFits` says that the time fits
two words. `AudioInv`: the bytes between front and tail are the ones written and
not played, and a callback that found fewer than SDL asked for finds no more than
that when it loads `tail` again, unless one of the two races happened; the bounds
hold without that proviso. `IoInv`: the ring from `key_f` to
`key_r`, read modulo its length, is the sequence of keys pressed and not yet
read, less what the queue still holds. The loops over the host's events are recursive functions over
their positions, so that the proof goes from one event to the next.

**Heap and contexts (`Platform_proofs`).** `MemInv`: the items form one chain
from 0 to the end with `prev` the inverse of `next` (`Chain`), nothing below
`lfree` is free (`Low`), no two free items touch except those `plug_holes` is
about to join (`Apart`), and `inuse` is the cardinality of the set of used
bytes. `CtxInv`: a thread that waits has a context of its own, with its registers
and on its own stack, and the array it left through is still there.

**The scheduler (`RtKernel_proofs`).** `SchedInv`: no list holds a thread twice,
every thread is linked where its status says, bits agree with lists (`Sound`);
only the current thread is running, though it may be suspended or closed while
the scheduler is locked, and idle is always ready or running (`Runs`, which is
why the bitmap is never empty when a switch is needed); and after a call that
reschedules the current thread is the best (`Best`). While a function works on a
thread the invariant holds for the others (`SoundBut`). `Spec` is the
specification of applications that make scheduler calls, in any order and
mixture. The lemmas are about records with at least the scheduler's fields, so
they apply to the kernel of `RtIpc` too.

**Semaphores, mutexes, sleeping (`RtKernel_proofs`).** `IpcInv` adds to the
above what ties threads to objects. The list of an object holds exactly the
threads that are suspended inside a take of it (`Queues`), and that of a mutex
is sorted by the priorities its waiters have now (`Ordered`), which inheritance
keeps changing: `_thread_update_priority` follows `pending_object` from owner to
owner, so the invariant also says that this pointer names the mutex a thread
waits for (`Pends`). `Tokens` counts a semaphore's value against its history and
excludes a waiter while there is a token; `Owners` matches each mutex with its
owner's list of held mutexes. Between two steps of one call a thread is in no
list, or out of place in one, and the lemmas are about kernels that are sound
but for that thread. The walk along the chain of owners is a recursive function
of a bounded depth; each of its steps keeps the invariant, so any number does.
`Best` holds again after every call that reschedules.
The five theorems have the hypothesis `Orderly`, about the calls the application
makes:
- not `mutex_delete`, whose waiters go on to read the freed mutex: the exception
  in `NoUseAfterFree`, which `rt_kernel` explores;
- not a resume of a thread that waits in a list (`resume_any`): that refutes
  `OwnerHolds` in `rt_ipc_resume`;
- not the calls only the scheduler's own applications use (locking the
  scheduler, setting a priority, deleting a thread); `KernelLists` and
  `UrgentRuns` cover those where no object is waited for;
- not timed waits for a mutex together with a tick that ends them, because of
  the stale `pending_object` described in section 3.
Of the applications of `rt_kernel`, those that yield, signal, exclude and time
out are orderly; those that delete threads or lock are covered by `Spec`'s
theorems; the one that deletes a mutex is only model-checked.
`WorkersAssumption` and `NullAssumption`: finitely many workers, and markers that
are no threads or objects.

**Priority inheritance (`RtPriority_proofs`).** `Lent` says of a kernel between
two calls that each mutex has the priority of its most urgent waiter (`Raised`),
each thread the least of its own priority and those of its mutexes (`RightBut`),
and that a thread does not wait for a mutex it owns (`Known`). It is an
invariant together with `IpcInv` (`LentInv`), and gives `PriorityInherited`
because the lists hold exactly the waiters.
The hard part is `_thread_update_priority`, which changes one thread's priority
and goes on to the owner of the mutex that thread waits for. In the middle of the
walk all is right but the priority of the thread it comes to next (`Walks`). When
a waiter of priority c comes, whatever the walk changes was less urgent than c and
becomes c; when one leaves, it was c and becomes less urgent (`Turned`, which
`LeastTurns` shows to pass from a waiter to its mutex and from a mutex to its
owner). So the walk changes no thread's priority twice: each call leaves fewer
threads whose priority it could change (`Ahead`), and the walk ends before its
bound, also where threads wait for each other in a cycle (`WalkEnds`).
A new waiter (`TakeLent`), a hand-over or a release (`ReleaseLent`) and a waiter
that is closed (`CloseLent`) are the calls that change priorities; of every other
call it is shown that it changes none and nobody who waits for a mutex (`Still`).
The theorem is about the orderly applications above, and the property itself
excludes those that set priorities or ceilings or remove mutexes.

**The keyboard (`Platform_proofs`).** A read passes through five phases in which
driver, delayer and controller move together (`BusPhase`); in each cycle either
no code moves, or one goes from the fifo to the read, or the driver is given the
one that was read. The codes in the read, in the fifo from `r_ptr` on and on the
wire, one after the other (`OnWay`), change only at their ends. They are the
frames of the events that were typed and not yet reported, less the prefixes the
two flags remember (`Told`, with the ends of the events' frames as witness).
This is needed because the prefix and the key of one event can be in three
places at once. `Ps2Assumption`: codes are bytes other than the two prefixes, and
the fifo has at least two places.

**Induction over data.** What a walk along a list, a loop that prints the ring or
a count of bytes computes is proved by taking the least counterexample of a set
of numbers, by extending explicit sequences and by induction over finite sets,
without the library's induction theorems.

**Only model-checked.** Liveness under fairness is out of the prover's reach:
`AlwaysCompletes`, `Answers`, `ClosingStops`, `FrameShown`, `AudioFinishes`,
`YieldShares`, `SleepEnds`, `ReadAnswered`. `AluMatchesNemu` uses bitwise
operators the prover has no theory for, and `EvaluatesAsC` recursive operators.
Not proved: the properties of semaphores and mutexes for applications that are
not `Orderly`; and `MCNemu`'s `TypeOK`, the type invariant of the model that puts
NEMU's components side by side, which is only model-checked.

## 5. Not modelled

- Most of the repository by size is third-party: RT-Thread's file systems,
  network, shell, drivers and multi-core code, rocket-chip with its floating
  point tests, the game emulator, the board simulator. The port builds none of
  the former, and none of it is this system's logic.
- RT-Thread's mailboxes, queues, events and memory pools wait through the same
  list functions as semaphores; timer lists are abstracted to the set of running
  timers.
- The AXI-lite interconnect and adapters and the demultiplexer of the SoC build,
  the wrap arithmetic of the SRAM's bursts, error responses to the cache.
- psram, sdram, flash, gpio, vga and bitrev of the SoC: chips behind vendored
  controllers or single registers.
- NEMU's serial port (one putc), alarm, disk and sd card; klib; nanos-lite, whose
  kernel is an unfilled skeleton; misaligned accesses; multiply and divide.

## 6. Plan

Done: all modules above, the theorems of section 4. Left, in this order:

1. mutexes that are deleted and timed waits for them, with an invariant that
   allows a stale `pending_object` and says for whom;
2. mailboxes, queues and events on the list functions of `RtIpc`.
