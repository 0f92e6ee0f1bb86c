------------------------------- MODULE SocPs2 -------------------------------
(***************************************************************************)
(* The keyboard of ysyxSoC from the wire to the program: the PS/2          *)
(* controller (perip/ps2/ps2_top_apb.v), the APB delayer every peripheral  *)
(* is read through (perip/amba/apb_delayer.v), the bridge from the core's  *)
(* bus (src/amba/AXI4ToAPB.scala) and the driver that polls the keyboard   *)
(* (am/src/riscv/ysyxsoc/input.c).  The program also reads another         *)
(* peripheral, which takes its time, over the same bus.                    *)
(*                                                                         *)
(* keyboard:   typed    history: the key events so far                     *)
(*             wire     the scan codes it has still to send                *)
(* controller: sampled  a falling edge of ps2_clk was seen last cycle      *)
(*             counter  bits of the frame that is being received           *)
(*             fifo, w_ptr, r_ptr                                          *)
(*             empty    the register of that name, which is set when there *)
(*                      is a code                                          *)
(*             ps2_apb_state                                               *)
(* delayer:    state, counter85, prdata_r                                  *)
(* bridge:     apb, dev the phase of a read, and of what: "setup" is a     *)
(*                      request in s_idle, "access" is s_inflight          *)
(* driver:     is_break, is_extend                                         *)
(*             reported history: the events it has given                   *)
(* histories:  stored   codes in the fifo                                  *)
(*             lost     a frame was bad or the fifo ran over               *)
(*             raced    the newest code came in the cycle the last one was *)
(*                      taken                                              *)
(***************************************************************************)
EXTENDS Integers, Sequences, SequencesExt

CONSTANTS
  Codes,      \* scan codes of keys
  DEPTH,      \* places of the fifo
  LastBit,    \* the value of counter that ends a frame
  MaxEvents,  \* bound: key events
  MaxWait     \* bound: cycles the other peripheral takes

E0 == 224
F0 == 240

ASSUME Ps2Assumption ==
  /\ Codes \subseteq 1 .. 255 \ {E0, F0}
  /\ {DEPTH, MaxEvents, MaxWait} \subseteq Nat \ {0} /\ DEPTH > 1 /\ LastBit \in Nat

VARIABLES typed, wire, sampled, counter, fifo, w_ptr, r_ptr, empty, ps2_apb_state,
          state, counter85, prdata_r, apb, dev, is_break, is_extend, reported, stored, lost, raced

receiver == <<sampled, counter, fifo, w_ptr, r_ptr, empty>>
ps2Vars == <<typed, wire, receiver, ps2_apb_state, state, counter85, prdata_r,
             apb, dev, is_break, is_extend, reported, stored, lost, raced>>

Event == [key : Codes, extend : BOOLEAN, down : BOOLEAN]

(* What the keyboard sends for an event.                                   *)
Frames(e) ==
  (IF e.extend THEN <<E0>> ELSE <<>>) \o (IF e.down THEN <<>> ELSE <<F0>>) \o <<e.key>>

-----------------------------------------------------------------------------
(* The wires of one cycle.                                                 *)

in_psel == apb # "idle"
in_penable == apb = "access"

(* Mutation: the peripheral stays selected while the answer is delayed.    *)
out_psel_ungated == in_psel

out_psel == in_psel /\ state # "delay_t"

ps2_pready == ps2_apb_state = "READ"
ps2_prdata == IF ps2_pready /\ empty THEN fifo[r_ptr] ELSE 0

(* What the crossbar returns of the peripheral that is read; `done': the   *)
(* other one answers.                                                      *)
out_pready(done) == IF dev = "ps2" THEN ps2_pready ELSE done
out_prdata == IF dev = "ps2" THEN ps2_prdata ELSE 0

(* Mutation: the answer is given one cycle after the last of the delay.    *)
in_pready_late == state = "delay_t" /\ counter85 = 0

in_pready == state = "delay_t" /\ counter85 = 1

(* A code is taken.                                                        *)
pop == in_penable /\ ps2_pready /\ empty

takes_last == pop /\ w_ptr = (r_ptr + 1) % DEPTH

-----------------------------------------------------------------------------
(* The registers.  `edge' is the sampling of a bit and `good' the check of *)
(* start bit, stop bit and parity of the frame it ends.                    *)

(* pready follows the select by a cycle; a store would never be answered.  *)
Apb == ps2_apb_state' = IF ps2_apb_state = "IDLE" /\ out_psel /\ dev = "ps2" THEN "READ" ELSE "IDLE"

(* The last assignment to `empty' wins: that of a code taken.              *)
Receiver(edge, good) ==
  LET ends == edge /\ counter = LastBit
      push == ends /\ good
      more == stored + (IF push THEN 1 ELSE 0) - (IF pop THEN 1 ELSE 0)
  IN /\ sampled' = edge
     /\ counter' = IF ends THEN 0 ELSE IF edge THEN counter + 1 ELSE counter
     /\ wire' = IF ends THEN Tail(wire) ELSE wire
     /\ fifo' = IF push THEN [fifo EXCEPT ![w_ptr] = Head(wire)] ELSE fifo
     /\ w_ptr' = IF push THEN (w_ptr + 1) % DEPTH ELSE w_ptr
     /\ r_ptr' = IF pop THEN (r_ptr + 1) % DEPTH ELSE r_ptr
     /\ empty' = (~takes_last /\ (push \/ empty))
     /\ stored' = more
     /\ lost' = (lost \/ (ends /\ ~good) \/ more > DEPTH)
     /\ raced' = IF push THEN takes_last ELSE raced

(* While the peripheral works the counter gains 85 a cycle, which is then  *)
(* divided by 32 and counted down.                                         *)
Delayer(done) ==
  /\ \/ /\ state = "idle_t" /\ in_psel
        /\ state' = "wait_perip_t" /\ counter85' = counter85 + 85
     \/ state = "idle_t" /\ ~in_psel /\ UNCHANGED <<state, counter85>>
     \/ /\ state = "wait_perip_t" /\ out_pready(done)
        /\ state' = "delay_t" /\ counter85' = (counter85 + 85) \div 32
     \/ /\ state = "wait_perip_t" /\ ~out_pready(done)
        /\ counter85' = counter85 + 85 /\ UNCHANGED state
     \/ state = "delay_t" /\ counter85 = 1 /\ state' = "idle_t" /\ counter85' = 0
     \/ state = "delay_t" /\ counter85 # 1 /\ counter85' = counter85 - 1 /\ UNCHANGED state
  /\ prdata_r' = IF out_pready(done) THEN out_prdata ELSE prdata_r

(* __am_input_keybrd with the scan code it has read.                       *)
__am_input_keybrd(scancode) ==
  \/ scancode = E0 /\ is_extend' = TRUE /\ UNCHANGED <<is_break, reported>>
  \/ scancode = F0 /\ is_break' = TRUE /\ UNCHANGED <<is_extend, reported>>
  \/ scancode = 0 /\ UNCHANGED <<is_break, is_extend, reported>>
  \/ /\ scancode \notin {E0, F0, 0}
     /\ reported' = Append(reported, [key |-> scancode, extend |-> is_extend, down |-> ~is_break])
     /\ is_extend' = FALSE /\ is_break' = FALSE

(* The bridge is free: nothing to do, or a read of either peripheral comes.*)
Accept ==
  \/ apb' = "idle" /\ dev' = "ps2"
  \/ apb' = "setup" /\ dev' \in {"ps2", "other"}

(* A read is one setup cycle, then access until it is ready.  The next one *)
(* may be set up in the cycle after the answer.                            *)
Driver ==
  \/ apb = "idle" /\ Accept /\ UNCHANGED <<is_break, is_extend, reported>>
  \/ apb = "setup" /\ apb' = "access" /\ UNCHANGED <<dev, is_break, is_extend, reported>>
  \/ /\ apb = "access" /\ ~in_pready
     /\ UNCHANGED <<apb, dev, is_break, is_extend, reported>>
  \/ /\ apb = "access" /\ in_pready
     /\ Accept
     /\ IF dev = "ps2" THEN __am_input_keybrd(prdata_r)
                       ELSE UNCHANGED <<is_break, is_extend, reported>>

-----------------------------------------------------------------------------
Ps2Init ==
  /\ typed = <<>> /\ wire = <<>> /\ reported = <<>>
  /\ sampled = FALSE /\ counter = 0
  /\ fifo = [i \in 0 .. DEPTH - 1 |-> 0] /\ w_ptr = 0 /\ r_ptr = 0 /\ empty = FALSE
  /\ ps2_apb_state = "IDLE" /\ state = "idle_t" /\ counter85 = 0 /\ prdata_r = 0
  /\ apb = "idle" /\ dev = "ps2" /\ is_break = FALSE /\ is_extend = FALSE
  /\ stored = 0 /\ lost = FALSE /\ raced = FALSE

(* An edge of ps2_clk is seen in one cycle, so never in two in a row.  A   *)
(* peripheral answers in the access phase of a read of it.                 *)
Clock ==
  /\ \E edge, good \in BOOLEAN :
       /\ edge => wire # <<>> /\ ~sampled
       /\ ~good => edge /\ counter = LastBit
       /\ Receiver(edge, good)
  /\ \E done \in BOOLEAN :
       /\ done => dev = "other" /\ in_penable /\ out_psel
       /\ dev = "other" /\ counter85 = 85 * MaxWait => done
       /\ Delayer(done)
  /\ Driver /\ Apb
  /\ UNCHANGED typed

Type(e) ==
  /\ Len(typed) < MaxEvents
  /\ typed' = Append(typed, e) /\ wire' = wire \o Frames(e)
  /\ UNCHANGED <<receiver, ps2_apb_state, state, counter85, prdata_r,
                 apb, dev, is_break, is_extend, reported, stored, lost, raced>>

Ps2Next == Clock \/ \E e \in Event : Type(e)

Ps2Spec == Ps2Init /\ [][Ps2Next]_ps2Vars /\ WF_ps2Vars(Clock)

-----------------------------------------------------------------------------
(* Properties.                                                             *)

(* Pointers, counters and codes have their types; the delay of a read is   *)
(* no more than that of the slowest peripheral.                            *)
Ps2TypeOK ==
  /\ {w_ptr, r_ptr} \subseteq DOMAIN fifo /\ counter \in 0 .. LastBit
  /\ \A i \in DOMAIN fifo : fifo[i] \in Codes \cup {0, E0, F0}
  /\ counter85 \in 0 .. 85 * MaxWait /\ prdata_r \in Codes \cup {0, E0, F0}
  /\ \A i \in DOMAIN reported : reported[i] \in Event

(* The program is told what was typed: whenever the driver polls and bits  *)
(* arrive, its events are the first of those typed, in order and once,     *)
(* with the right direction and set, unless a frame was bad or the fifo,   *)
(* which is not protected, ran over.                                       *)
KeysDecoded == ~lost => IsPrefix(reported, typed)

(* The flag the reads go by tells whether the fifo holds a code, except    *)
(* that a code that arrives as the last one is taken stays hidden until    *)
(* the next arrives.                                                       *)
FlagTellsContents == ~lost => (empty <=> stored > 0 /\ ~raced)

(* Every read is answered, through the delay (apb_delayer.v:94), also one  *)
(* that follows another without an idle cycle.                             *)
ReadAnswered == apb = "setup" ~> in_pready

(* The program is told what was typed, and the flag that decides whether a *)
(* read takes a code is right, whenever the driver polls and bits arrive   *)
(* (ps2_top_apb.v:63, input.c:92).                                         *)
KeyboardFaithful == Ps2TypeOK /\ KeysDecoded /\ FlagTellsContents
=============================================================================
