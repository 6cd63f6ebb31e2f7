----------------------------- MODULE MCExecutor ------------------------------
(* Small instances of Executor: one main agent, or a main agent and a       *)
(* subagent, with one tool of each sort.                                    *)
EXTENDS Executor

CONSTANTS main, sub, read_file, bash, mystery

OneAgent == {main}
TwoAgents == {main, sub}
SubOnly == {sub}
NoAgent == {}
Tools3 == {read_file, bash, mystery}
Tools2 == {read_file, bash}
Readers == {read_file}
=============================================================================
