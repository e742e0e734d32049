----------------------------- MODULE MCProcessor -----------------------------
(* Processor for TLC: the constants get their values in the .cfg files.      *)
EXTENDS Processor
=============================================================================
