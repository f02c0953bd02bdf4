--------------------------- MODULE MCTbExecOrder ---------------------------
(* Instances of TbExecOrder for TLC. *)
EXTENDS TbExecOrder

TwoBlocks == {16, 32}
SingleOrMany == {1, 3}
=============================================================================
