----------------------------- MODULE MCPlatform -----------------------------
(***************************************************************************)
(* What RT-Thread and the programs on ysyxSoC stand on, in one model: the  *)
(* context switch of the port, the heap, and the keyboard.  Their modules  *)
(* share no variable: `part' is the one that acts, the others stay as they *)
(* began.                                                                  *)
(***************************************************************************)
EXTENDS RtContext, RtMem, SocPs2

VARIABLE part

vars == <<part, ctxVars, memVars, ps2Vars>>

Init == part \in {"context", "heap", "keyboard"} /\ CtxInit /\ MemInit /\ Ps2Init

Rest(p) ==
  /\ part = p /\ UNCHANGED part
  /\ p # "context" => UNCHANGED ctxVars
  /\ p # "heap" => UNCHANGED memVars
  /\ p # "keyboard" => UNCHANGED ps2Vars

Next ==
  \/ Rest("context") /\ CtxNext
  \/ Rest("heap") /\ MemNext
  \/ Rest("keyboard") /\ Ps2Next

Spec == Init /\ [][Next]_vars /\ WF_vars(Rest("keyboard") /\ Clock)
=============================================================================
