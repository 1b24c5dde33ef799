--------------------------- MODULE MCSubCodeParser ---------------------------
(* Short streams of sub code for model-checking SubCodeParser and the walks *)
(* over its trees.                                                         *)
EXTENDS TreeVisitors
=============================================================================
