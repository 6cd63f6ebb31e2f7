------------------------------ MODULE ToolCalls ------------------------------
(***************************************************************************)
(* What one assistant message asks for and what a tool answers, shared by  *)
(* the abstract batch (ToolBatch) and the executor (Executor).             *)
(*                                                                         *)
(* A tool works on the workspace, which is abstracted to the number of     *)
(* writes it has undergone: a read-only tool sees the current version, a   *)
(* writing tool makes and sees the next one, and a name that is not in the *)
(* registry is answered with an error text that looks at nothing.          *)
(***************************************************************************)
EXTENDS Integers, Sequences

CONSTANTS
  Agents,      \* the threads that may call executor_run_tools
  Tool,        \* every tool name the model may utter
  Registered,  \* names tool_find() resolves
  ReadOnly,    \* registered tools whose ToolDef says read_only
  MaxCalls     \* bound: calls in one assistant message

ASSUME ToolAssumption ==
  /\ ReadOnly \subseteq Registered
  /\ Registered \subseteq Tool
  /\ MaxCalls \in Nat \ {0}

\* One tool call: its name, and whether its arguments parsed as JSON.
Request == [tool : Tool, args : BOOLEAN]

Batches == UNION {[1..n -> Request] : n \in 1..MaxCalls}

Calls(b) == DOMAIN b

Writes(r) == r.tool \in Registered \ ReadOnly

\* A batch is refused as a whole when some call's arguments do not serialize.
Refused(b) == \E i \in Calls(b) : ~b[i].args

\* The version of the workspace once a request has run on version s.
Effect(r, s) == IF Writes(r) THEN s + 1 ELSE s

\* What call i of a batch answers when it runs on version s.
Answer(i, r, s) ==
  [call |-> i, saw |-> IF r.tool \in Registered THEN Effect(r, s) ELSE 0]

AnswerSet == [call : 0..MaxCalls, saw : Nat]

\* Two calls of a batch conflict when their order can be observed.
Conflict(r, q) == Writes(r) \/ Writes(q)
=============================================================================
