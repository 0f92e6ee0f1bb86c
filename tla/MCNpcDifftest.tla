--------------------------- MODULE MCNpcDifftest ----------------------------
(***************************************************************************)
(* Instances of NpcDifftest, on the machine of MCNpcCore.                  *)
(***************************************************************************)
EXTENDS NpcDifftest, MCNpcCore
=============================================================================
