------------------------------- MODULE MCNemu -------------------------------
(***************************************************************************)
(* The host side of NEMU in one model: the watchpoints, the run loop with  *)
(* its ring buffer, the difftest client, keyboard and screen, the timer    *)
(* and the sound.  Their modules share no variable, so what they do at the *)
(* same time is a shuffle of what each does alone: `part' is the one that  *)
(* acts, the others stay as they began.                                    *)
(***************************************************************************)
EXTENDS WatchpointPool, CpuExec, NemuDut, NemuIo, AmTimer, AmAudio

VARIABLE part

Parts == {"watchpoints", "cpu_exec", "difftest", "io", "timer", "audio"}

vars == <<part, wpVars, cpuVars, dutVars, ioVars, timerVars, audioVars>>

(* A part that does not act begins in one of its states, not in each.      *)
Init ==
  /\ part \in Parts
  /\ WpInit /\ CpuInit /\ DutInit /\ IoInit /\ TimerInit /\ AudioInit
  /\ part # "watchpoints" => env = [x \in Exprs |-> 0]
  /\ part # "difftest" => prog = [i \in 1 .. N |-> "alu"]
  /\ part # "timer" => now = 0

Rest(p) ==
  /\ part = p /\ UNCHANGED part
  /\ p # "watchpoints" => UNCHANGED wpVars
  /\ p # "cpu_exec" => UNCHANGED cpuVars
  /\ p # "difftest" => UNCHANGED dutVars
  /\ p # "io" => UNCHANGED ioVars
  /\ p # "timer" => UNCHANGED timerVars
  /\ p # "audio" => UNCHANGED audioVars

Next ==
  \/ Rest("watchpoints") /\ WpNext
  \/ Rest("cpu_exec") /\ CpuNext
  \/ Rest("difftest") /\ DutNext
  \/ Rest("io") /\ IoNext
  \/ Rest("timer") /\ TimerNext
  \/ Rest("audio") /\ AudioNext

(* The fairness of the parts, for the part that acts.                      *)
Fairness ==
  /\ WF_vars(Rest("cpu_exec") /\ Machine)
  /\ WF_vars(Rest("io") /\ io_device_update)
  /\ WF_vars(Rest("io") /\ GuestStep)
  /\ WF_vars(Rest("audio") /\ Guest)
  /\ WF_vars(Rest("audio") /\ Callback)

Spec == Init /\ [][Next]_vars /\ Fairness

(* Every part keeps the types of its module.                               *)
TypeOK == WpTypeOK /\ CpuTypeOK /\ DutTypeOK /\ IoTypeOK /\ TimerTypeOK /\ AudioTypeOK
=============================================================================
