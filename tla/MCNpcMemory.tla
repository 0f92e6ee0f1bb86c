---------------------------- MODULE MCNpcMemory -----------------------------
(***************************************************************************)
(* The memory side of the core: the instruction cache with the fetch unit  *)
(* and a memory around it, and the interconnect with its masters and       *)
(* slaves.  Each has its own environment and they share no variable:       *)
(* `part' is the one that is clocked.                                      *)
(***************************************************************************)
EXTENDS ICache, NpcBus

VARIABLE part

vars == <<part, icacheVars, busVars>>

(* The registers of the part that is not clocked begin with one value.     *)
Init ==
  /\ part \in {"icache", "bus"}
  /\ ICacheInit /\ BusInit
  /\ part # "icache" => \A a \in Addr : mem[a] = FENCE
  /\ part # "bus" => bus.sel = CHOOSE v \in Slaves : TRUE

Rest(p) ==
  /\ part = p /\ UNCHANGED part
  /\ p # "icache" => UNCHANGED icacheVars
  /\ p # "bus" => UNCHANGED busVars

Next ==
  \/ Rest("icache") /\ ICacheNext
  \/ Rest("bus") /\ BusNext

(* The fairness of the two specifications.                                 *)
Fairness ==
  /\ WF_vars(Rest("icache") /\ ICacheNext)
  /\ WF_vars(Rest("bus") /\ Cycle(NoStall))

Spec == Init /\ [][Next]_vars /\ Fairness

(* Every fetch and every request on the bus is answered (axi_icache.v:315, *)
(* axi_interconnect.v:555).                                                *)
Answers == FetchAnswered /\ Answered
=============================================================================
