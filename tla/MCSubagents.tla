---------------------------- MODULE MCSubagents ------------------------------
(* Small instances of Subagents.  The pool is smaller than the number of     *)
(* subagents started, so that slots are given out again.                     *)
EXTENDS Subagents
=============================================================================
