------------------------------ MODULE CpuExec ------------------------------
(***************************************************************************)
(* NEMU's run loop (cpu-exec.c) under the debugger's prompt (sdb.c), with  *)
(* the ring buffer of the last instructions (iringbuf.c).                  *)
(*                                                                         *)
(* The buffer is a ring of bytes with free-running 32-bit counters `in'    *)
(* and `out'.  Every executed instruction is put into it, the oldest one   *)
(* leaves when it is full; a failed assertion prints it.  It is allocated  *)
(* by the first run and freed by `statistic'.                              *)
(*                                                                         *)
(* Instructions are model values; byte j of instruction v is <<v, j>>.     *)
(***************************************************************************)
EXTENDS Integers, Sequences

CONSTANTS
  Inst,       \* instruction words
  IlenBytes,  \* bytes of an instruction (4)
  RbSize,     \* IRINGBUF_SIZE, a power of two
  CounterMod, \* 2^32, a multiple of RbSize
  MaxSteps    \* bound on the argument of `si'

ASSUME CpuExecAssumption ==
  /\ Inst # {} /\ {IlenBytes, RbSize, CounterMod, MaxSteps} \subseteq Nat \ {0}
  /\ RbSize % IlenBytes = 0
  /\ CounterMod % RbSize = 0
  /\ CounterMod > RbSize

VARIABLES
  nemu_state, \* NEMU_STOP, NEMU_RUNNING, NEMU_END, NEMU_ABORT, NEMU_QUIT
  n,          \* instructions left in execute, -1 for `c'; 0 when done
  loop,       \* "prompt", "exec" (loop body), "update" (device_update), "dead"
  rb,         \* the pointer's target: "null", "live" or "freed"
  buffer, in, out,
  last,       \* history: the last RbSize / IlenBytes executed instructions
  dump        \* what assert_fail_msg printed

ring == <<buffer, in, out>>
cpuVars == <<nemu_state, n, loop, rb, buffer, in, out, last, dump>>

Capacity == RbSize \div IlenBytes
BytesOf(v) == [j \in 1 .. IlenBytes |-> <<v, j>>]
WordOf(bytes) == bytes[1][1]

----------------------------------------------------------------------------
(* The ring buffer.  A state of it is a record r with the fields of the C  *)
(* struct; `x & (size - 1)' is x % size for a power of two.                *)
minimum(a, b) == IF a < b THEN a ELSE b

RingBuffer_Len(r) == (r.in - r.out) % CounterMod
RingBuffer_Avail(r) == (RbSize - RingBuffer_Len(r)) % CounterMod
RingBuffer_IsEmpty(r) == RingBuffer_Len(r) = 0
RingBuffer_IsFull(r) == RingBuffer_Avail(r) = 0

(* At most `Avail' bytes: up to the end of the buffer, the rest from its   *)
(* beginning.                                                              *)
RingBuffer_In(r, data) ==
  LET len == minimum(Len(data), RingBuffer_Avail(r))
      at == r.in % RbSize
      l == minimum(len, RbSize - at)
  IN [r EXCEPT
       !.buffer = [k \in 0 .. RbSize - 1 |->
                     IF k \in at .. at + l - 1 THEN data[k - at + 1]
                     ELSE IF k < len - l THEN data[l + k + 1]
                     ELSE r.buffer[k]],
       !.in = (r.in + len) % CounterMod]

(* The bytes a call copies out, and the buffer after it.                   *)
RingBuffer_Read(r, want) ==
  LET len == minimum(want, RingBuffer_Len(r))
      at == r.out % RbSize
      l == minimum(len, RbSize - at)
  IN [k \in 1 .. len |-> IF k <= l THEN r.buffer[at + k - 1]
                                   ELSE r.buffer[k - l - 1]]

RingBuffer_Out(r, want) ==
  [r EXCEPT !.out = (r.out + minimum(want, RingBuffer_Len(r))) % CounterMod]

TheRing == [buffer |-> buffer, in |-> in, out |-> out]

SetRing(r) ==
  /\ buffer' = r.buffer
  /\ in' = r.in
  /\ out' = r.out

(* The instructions a dump prints: at most Capacity, oldest first.         *)
DumpOf(r) ==
  LET state[i \in 0 .. Capacity] ==
        IF i = 0 THEN [r |-> r, seen |-> << >>]
        ELSE LET s == state[i - 1] IN
             IF RingBuffer_IsEmpty(s.r) THEN s
             ELSE [r |-> RingBuffer_Out(s.r, IlenBytes),
                   seen |-> Append(s.seen,
                                   WordOf(RingBuffer_Read(s.r, IlenBytes)))]
  IN state[Capacity].seen

----------------------------------------------------------------------------
CpuInit ==
  /\ nemu_state = "NEMU_STOP"
  /\ n = 0
  /\ loop = "prompt"
  /\ rb = "null"
  /\ buffer = [k \in 0 .. RbSize - 1 |-> <<CHOOSE v \in Inst : TRUE, 1>>]
  /\ in = 0 /\ out = 0
  /\ last = << >>
  /\ dump = << >>

(* statistic: the buffer is freed, the pointer keeps its value.            *)
statistic == rb' = IF rb = "null" THEN "null" ELSE "freed"

(* A failed Assert: the buffer is printed, statistic runs, NEMU dies.      *)
assert_fail_msg ==
  /\ dump' = IF rb = "live" THEN DumpOf(TheRing) ELSE << >>
  /\ statistic
  /\ loop' = "dead"
  /\ UNCHANGED <<nemu_state, n, buffer, in, out, last>>

(* cpu_exec(steps) from `c' (-1) or `si': refused once the program has     *)
(* ended; the first run allocates the buffer.                              *)
cpu_exec(steps) ==
  /\ loop = "prompt"
  /\ nemu_state \notin {"NEMU_END", "NEMU_ABORT"}
  /\ nemu_state' = "NEMU_RUNNING"
  /\ n' = steps
  /\ loop' = "exec"
  /\ IF rb = "null"
     THEN rb' = "live" /\ in' = 0 /\ out' = 0
     ELSE UNCHANGED <<rb, in, out>>
  /\ UNCHANGED <<buffer, last, dump>>

(* Mutation: nothing leaves a full buffer.                                 *)
record_no_evict(v) == RingBuffer_In(TheRing, BytesOf(v))

(* The block of exec_once that records an instruction.                     *)
record(v) ==
  LET r == IF RingBuffer_IsFull(TheRing)
           THEN RingBuffer_Out(TheRing, IlenBytes) ELSE TheRing
  IN RingBuffer_In(r, BytesOf(v))

Remember(v) ==
  IF Len(last) < Capacity THEN Append(last, v) ELSE Append(Tail(last), v)

Running == loop = "exec" /\ n # 0

(* Mutation: the loop is left only when the program has ended.             *)
Breaks_ignores_quit(state) == state \in {"NEMU_STOP", "NEMU_END", "NEMU_ABORT"}

(* execute leaves its loop.                                                *)
Breaks(state) == state # "NEMU_RUNNING"

(* One turn of execute: instruction v runs and is recorded.  `after' is    *)
(* what happened to the state: nothing, an end (ebreak), an abort (unknown *)
(* instruction, difftest) or a changed watchpoint, which stops a running   *)
(* machine only.                                                           *)
exec_once(v, after) ==
  /\ Running /\ rb = "live"
  /\ SetRing(record(v))
  /\ last' = Remember(v)
  /\ nemu_state' = IF after \in {"NEMU_END", "NEMU_ABORT"} THEN after
                   ELSE IF nemu_state = "NEMU_RUNNING" THEN after
                   ELSE nemu_state
  /\ IF Breaks(nemu_state')
     THEN n' = 0 /\ loop' = "exec"
     ELSE n' = n /\ loop' = "update"
  /\ UNCHANGED <<rb, dump>>

(* The instruction accesses an address outside memory and devices, which   *)
(* panics before exec_once records it; or an expression at the prompt does.*)
exec_panics ==
  /\ Running \/ loop = "prompt"
  /\ rb # "freed"
  /\ assert_fail_msg

(* device_update, which may see the window close, and `n--'.               *)
device_update(closed) ==
  /\ loop = "update"
  /\ nemu_state' = IF closed THEN "NEMU_QUIT" ELSE nemu_state
  /\ n' = IF n > 0 THEN n - 1 ELSE n
  /\ loop' = "exec"
  /\ UNCHANGED <<rb, buffer, in, out, last, dump>>

(* The end of cpu_exec.                                                    *)
cpu_exec_returns ==
  /\ loop = "exec" /\ n = 0
  /\ loop' = "prompt"
  /\ IF nemu_state \in {"NEMU_RUNNING", "NEMU_STOP"}
     THEN nemu_state' = "NEMU_STOP" /\ UNCHANGED rb
     ELSE statistic /\ UNCHANGED nemu_state
  /\ UNCHANGED <<n, buffer, in, out, last, dump>>

(* With the buffer freed, the next instruction of a machine that was left  *)
(* by closing the window, or an assertion at the prompt, still passes the  *)
(* test `if (rb)' and uses it.  What follows is undefined and not          *)
(* modelled further.                                                       *)
uses_freed_buffer ==
  /\ rb = "freed"
  /\ Running \/ loop = "prompt"
  /\ loop' = "dead"
  /\ UNCHANGED <<nemu_state, n, rb, buffer, in, out, last, dump>>

cmd_q ==
  /\ loop = "prompt"
  /\ nemu_state' = "NEMU_QUIT"
  /\ loop' = "dead"
  /\ UNCHANGED <<n, rb, buffer, in, out, last, dump>>

(* The steps of the simulator itself, as opposed to the user's.            *)
Machine ==
  \/ \E v \in Inst, after \in {"NEMU_RUNNING", "NEMU_STOP", "NEMU_END",
                               "NEMU_ABORT"} : exec_once(v, after)
  \/ \E closed \in BOOLEAN : device_update(closed)
  \/ cpu_exec_returns

CpuNext ==
  \/ \E steps \in -1 .. MaxSteps : cpu_exec(steps)
  \/ Machine
  \/ exec_panics
  \/ uses_freed_buffer
  \/ cmd_q

(* The loop of execute runs by itself.                                     *)
CpuFairness == WF_cpuVars(Machine)
CpuSpec == CpuInit /\ [][CpuNext]_cpuVars /\ CpuFairness

----------------------------------------------------------------------------
(* The counters of the ring stay 32-bit words, the run loop in its states. *)
CpuTypeOK ==
  /\ nemu_state \in {"NEMU_STOP", "NEMU_RUNNING", "NEMU_END", "NEMU_ABORT",
                     "NEMU_QUIT"}
  /\ n \in -1 .. MaxSteps
  /\ loop \in {"prompt", "exec", "update", "dead"}
  /\ rb \in {"null", "live", "freed"}
  /\ buffer \in [0 .. RbSize - 1 -> Inst \X (1 .. IlenBytes)]
  /\ in \in 0 .. CounterMod - 1 /\ out \in 0 .. CounterMod - 1
  /\ last \in Seq(Inst) /\ dump \in Seq(Inst)

(* The ring holds, byte for byte and in order, the instructions executed   *)
(* last, also when the counters have wrapped (iringbuf.c:75, cpu-exec.c:67)*)
LastInstructions ==
  rb = "live" =>
    RingBuffer_Read(TheRing, RbSize) =
      [k \in 1 .. Len(last) * IlenBytes |->
         <<last[1 + ((k - 1) \div IlenBytes)], 1 + ((k - 1) % IlenBytes)>>]

(* A failed assertion prints exactly those, oldest first, without the      *)
(* instruction that failed (cpu-exec.c:132).                               *)
DumpIsLast == dump # << >> => dump = last

(* Once the window is closed the run ends, whatever argument `c' or `si'   *)
(* had and whatever the program does (cpu-exec.c:112).                     *)
ClosingStops == (nemu_state = "NEMU_QUIT") ~> (loop \in {"prompt", "dead"})

(* What the ring holds and what an assertion failure prints are the last   *)
(* instructions executed (cpu-exec.c:67, 132).                             *)
RingHoldsLast == LastInstructions /\ DumpIsLast
=============================================================================
