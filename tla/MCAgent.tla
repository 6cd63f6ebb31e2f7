------------------------------- MODULE MCAgent -------------------------------
(***************************************************************************)
(* Agent with the weights and tool outputs TLC is given.                   *)
(***************************************************************************)
EXTENDS Agent

\* Tokens: a reference weighs more than the shortest output it may replace.
MCWeight == [small |-> 1, medium |-> 2, ref |-> 3, big |-> 6]

\* Outputs that stay, that grow and that shrink when offloaded, and the two
\* kinds that are passed by.
MCOutputs ==
  {[size |-> "small",  exempt |-> "no"],
   [size |-> "medium", exempt |-> "no"],
   [size |-> "big",    exempt |-> "no"],
   [size |-> "big",    exempt |-> "path"],
   [size |-> "big",    exempt |-> "recovery"]}
==============================================================================
