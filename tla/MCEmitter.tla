------------------------------ MODULE MCEmitter ------------------------------
(* Small subs for model-checking Emitter.                                  *)
EXTENDS Emitter
=============================================================================
