------------------------------- MODULE MCScreen -------------------------------
(* Screen on a small terminal. *)
EXTENDS Screen

MCWidths == <<1, 2>>
==============================================================================
