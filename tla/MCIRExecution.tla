---------------------------- MODULE MCIRExecution ----------------------------
(* Small subs for model-checking IRExecution.                              *)
EXTENDS IRExecution
=============================================================================
