------------------------------ MODULE AmTimer ------------------------------
(***************************************************************************)
(* The uptime of the abstract machine: the driver (timer.c of the nemu and *)
(* npc platforms, the same code) reads the device's 64-bit time as two     *)
(* 32-bit words, low word first, while the time goes on.  Two devices      *)
(* serve it: NEMU's rtc, which stores both words when the low one is read, *)
(* and the NPC's timer, which answers each read from its running counter.  *)
(*                                                                         *)
(* TimeWord stands for 2^32, so that a carry into the high word happens.   *)
(***************************************************************************)
EXTENDS Integers

CONSTANTS
  TimeWord,      \* values of one word of the time
  MaxTime,   \* bound on the time
  Device     \* "rtc" (NEMU) or "clint" (NPC)

ASSUME TimerAssumption ==
  /\ TimeWord \in Nat \ {0}
  /\ MaxTime \in Nat
  /\ Device \in {"rtc", "clint"}

(* The high word has come into use, and the 64 bits of the time are never  *)
(* exhausted.                                                              *)
ASSUME TimeFits == TimeWord <= MaxTime /\ MaxTime < TimeWord * TimeWord

VARIABLES
  now,            \* the time of the device
  rtc_port_base,  \* the two words NEMU's rtc stored last
  lo, hi,         \* locals of the driver's get_time
  pc,             \* where the guest is: "idle", "lo" read next, "hi" read next
  boot,           \* __am_timer_init has not returned yet
  boot_time,      \* static variable of the driver
  uptime,         \* what the last __am_timer_uptime returned
  called          \* history: the time at which the current call began

timerVars == <<now, rtc_port_base, lo, hi, pc, boot, boot_time, uptime, called>>

Lo(t) == t % TimeWord
Hi(t) == t \div TimeWord

TimerInit ==
  /\ now \in 0 .. TimeWord
  /\ rtc_port_base = <<0, 0>>
  /\ lo = 0 /\ hi = 0
  /\ pc = "lo"
  /\ boot = TRUE
  /\ boot_time = 0
  /\ uptime = 0
  /\ called = now

(* Time goes on between any two accesses.                                  *)
Tick ==
  /\ now < MaxTime
  /\ now' = now + 1
  /\ UNCHANGED <<rtc_port_base, lo, hi, pc, boot, boot_time, uptime, called>>

(* Mutation: the handler refreshes only the word that is read.             *)
rtc_io_handler_one_word(offset) ==
  IF offset = 0 THEN <<Lo(now), rtc_port_base[2]>>
  ELSE <<rtc_port_base[1], Hi(now)>>

(* Mutation: the low word is not cut to its width.                         *)
rtc_io_handler_no_cast(offset) ==
  IF offset = 0 THEN <<now, Hi(now)>> ELSE rtc_port_base

(* What a read of NEMU's rtc leaves in its two words before the word at    *)
(* the offset is returned.                                                 *)
rtc_io_handler(offset) ==
  IF offset = 0 THEN <<Lo(now), Hi(now)>> ELSE rtc_port_base

(* What a read of the NPC's timer returns, for each of its two words.      *)
mtime_words == <<Lo(now), Hi(now)>>

(* inl(RTC_ADDR + offset) on either machine.                               *)
inl(offset) ==
  IF Device = "rtc"
  THEN rtc_io_handler(offset)[1 + offset \div 4]
  ELSE mtime_words[1 + offset \div 4]

Access(offset) ==
  rtc_port_base' = IF Device = "rtc" THEN rtc_io_handler(offset)
                                     ELSE rtc_port_base

(* __am_timer_uptime is called.                                            *)
UptimeCall ==
  /\ pc = "idle"
  /\ pc' = "lo"
  /\ called' = now
  /\ UNCHANGED <<now, rtc_port_base, lo, hi, boot, boot_time, uptime>>

(* get_time, first line.                                                   *)
ReadLo ==
  /\ pc = "lo"
  /\ lo' = inl(0)
  /\ Access(0)
  /\ pc' = "hi"
  /\ UNCHANGED <<now, hi, boot, boot_time, uptime, called>>

(* get_time, second line, and the caller's use of the result: the boot     *)
(* time, or the uptime since then (an unsigned difference).                *)
ReadHi ==
  LET time == inl(4) * TimeWord + lo IN
  /\ pc = "hi"
  /\ hi' = inl(4)
  /\ Access(4)
  /\ IF boot
     THEN boot_time' = time /\ UNCHANGED uptime
     ELSE uptime' = (time - boot_time) % (TimeWord * TimeWord) /\ UNCHANGED boot_time
  /\ boot' = FALSE
  /\ pc' = "idle"
  /\ UNCHANGED <<now, lo, called>>

TimerNext == Tick \/ UptimeCall \/ ReadLo \/ ReadHi

TimerSpec == TimerInit /\ [][TimerNext]_timerVars

----------------------------------------------------------------------------
(* The words the rtc stores, and those the driver reads, fit their width.  *)
TimerTypeOK ==
  /\ now \in 0 .. MaxTime
  /\ rtc_port_base \in (0 .. TimeWord - 1) \X Nat
  /\ lo \in 0 .. TimeWord - 1
  /\ hi \in Nat
  /\ pc \in {"idle", "lo", "hi"}
  /\ boot \in BOOLEAN
  /\ {boot_time, uptime, called} \subseteq Nat

(* Every uptime is the time since boot at some moment of the call: the two *)
(* words belong together although time passes between the two reads of     *)
(* get_time (timer.c:8).                                                   *)
UptimeIsCurrent ==
  [][uptime' # uptime => \E t \in called .. now : uptime' = t - boot_time]_timerVars

(* A program sees its uptime never run backwards, as the loop of the rtc   *)
(* test (one line per second of uptime) takes for granted.                 *)
UptimeMonotone == [][uptime' >= uptime]_timerVars
=============================================================================
