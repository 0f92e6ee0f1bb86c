---------------------------- MODULE MCAlgorithms ----------------------------
(***************************************************************************)
(* The computations of the system, each beside its reference: the core's   *)
(* arithmetic and its byte lanes beside NEMU's, the debugger's evaluator   *)
(* beside the grammar of C.  They share no variable: `part' is the one     *)
(* that steps.                                                             *)
(***************************************************************************)
EXTENDS NpcAlu, LsuLanes, Expr

VARIABLE part

vars == <<part, aluVars, lsuVars, exprVars>>

(* Inputs that do not change begin with one value.                         *)
Init ==
  /\ part \in {"alu", "lanes", "expr"}
  /\ AluInit /\ LsuInit /\ ExprInit
  /\ part # "alu" => i_opt = "ADD"

Rest(p) ==
  /\ part = p /\ UNCHANGED part
  /\ p # "alu" => UNCHANGED aluVars
  /\ p # "lanes" => UNCHANGED lsuVars
  /\ p # "expr" => UNCHANGED exprVars

Next ==
  \/ Rest("alu") /\ AluNext
  \/ Rest("lanes") /\ LsuNext
  \/ Rest("expr") /\ ExprNext

Spec == Init /\ [][Next]_vars
=============================================================================
