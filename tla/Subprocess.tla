------------------------------ MODULE Subprocess -----------------------------
(***************************************************************************)
(* The tools that run a program: bash_tool_exec (tools/bash.c),            *)
(* run_curl_fetch (web_fetch.c), run_curl (web_search.c) and run_cmd       *)
(* (install_skill.c).  All four do the same: pipe, fork, close the write   *)
(* end, read, close the read end, waitpid.  They differ in how far they    *)
(* read.                                                                   *)
(*                                                                         *)
(* Calls run on threads of one process, the agent.  No pipe is             *)
(* close-on-exec: a child has every end the agent had open when it was     *)
(* forked.  Output is counted in pieces, a piece being what one read       *)
(* takes.  A piece goes through the pipe of its call.                      *)
(***************************************************************************)
EXTENDS Integers, FiniteSets, FiniteSetsExt

CONSTANTS
  Calls,     \* the calls under way
  Agent,     \* the process they are in
  MaxShort,  \* calls of a function that does not read to the end
  PipeSize,  \* the pieces a pipe holds
  Cap,       \* max_bytes, SEARCH_MAX_HTML
  MaxOut     \* bound: pieces a program writes

Procs == Calls \cup {Agent}  \* the child of a call is known by the call

\* bash_tool_exec, run_curl_fetch, run_curl, run_cmd.
Functions == {"bash", "fetch", "search", "cmd"}
Short     == {"search", "cmd"}

ASSUME SubprocessAssumption ==
  /\ {PipeSize, Cap} \subseteq Nat \ {0} /\ {MaxOut, MaxShort} \subseteq Nat
  /\ Agent \notin Calls

VARIABLES
  func,    \* the function each call is of
  pc,      \* what each call does next
  reads,   \* reads[p]: the pipes whose read end process p has open
  writes,  \* writes[p]: the pipes whose write end it has open
  pipe,    \* pipe[c]: the pieces in the pipe
  child,   \* the child of each call
  out,     \* out[c]: the pieces the program would write
  todo,    \* todo[c]: those it has not written yet
  got,     \* got[c]: the pieces kept for the result
  result   \* result[c]: ok, failed (the program), or error (no program ran)

procVars == <<func, pc, reads, writes, pipe, child, out, todo, got, result>>

Go(c, from, to) == pc[c] = from /\ pc' = [pc EXCEPT ![c] = to]
With(ends, p, c) == [ends EXCEPT ![p] = @ \cup {c}]
Without(ends, p, c) == [ends EXCEPT ![p] = @ \ {c}]

Readers(c) == {p \in Procs : c \in reads[p]}
Writers(c) == {p \in Procs : c \in writes[p]}
ChildRuns(c) == child[c] = "running"
------------------------------------------------------------------------------
(***************************************************************************)
(* Faults, each standing in for the operator named in its comment.         *)
(***************************************************************************)

\* AtEnd, if the end of the child were taken for the end of its output.
AtEndOfChild(c) == ~ChildRuns(c)

\* ParentKeeps, if the parent kept the write end.
ParentKeepsBoth(c) == writes
------------------------------------------------------------------------------
\* What is kept when one more piece has been read.
Keeps(c, n) == IF func[c] = "bash" THEN n + 1 ELSE Min({n + 1, Cap})

\* The loop is left with n pieces kept, whether or not there is more to read.
Stops(c, n) == func[c] = "cmd" \/ (func[c] = "search" /\ n = Cap)

\* read returns 0.
AtEnd(c) == pipe[c] = 0 /\ Writers(c) = {}

ParentKeeps(c) == Without(writes, Agent, c)

ForkFailed(c) ==
  /\ reads' = Without(reads, Agent, c)
  /\ writes' = Without(writes, Agent, c)

ProcInit ==
  /\ func \in [Calls -> Functions]
  /\ Cardinality({c \in Calls : func[c] \in Short}) <= MaxShort
  /\ pc = [c \in Calls |-> "start"]
  /\ reads = [p \in Procs |-> {}] /\ writes = [p \in Procs |-> {}]
  /\ pipe = [c \in Calls |-> 0]
  /\ child = [c \in Calls |-> "none"]
  /\ out = [c \in Calls |-> 0] /\ todo = out /\ got = out
  /\ result = [c \in Calls |-> "none"]

Pipe(c) ==
  /\ Go(c, "start", "fork")
  /\ reads' = With(reads, Agent, c)
  /\ writes' = With(writes, Agent, c)
  /\ UNCHANGED <<func, pipe, child, out, todo, got, result>>

PipeFails(c) ==
  /\ Go(c, "start", "done")
  /\ result' = [result EXCEPT ![c] = "error"]
  /\ UNCHANGED <<func, reads, writes, pipe, child, out, todo, got>>

\* fork, and what the child closes before exec: its read end (its write end it
\* keeps as its output).
Fork(c, n) ==
  /\ Go(c, "fork", "forked")
  /\ reads' = [reads EXCEPT ![c] = reads[Agent] \ {c}]
  /\ writes' = [writes EXCEPT ![c] = writes[Agent]]
  /\ child' = [child EXCEPT ![c] = "running"]
  /\ out' = [out EXCEPT ![c] = n] /\ todo' = [todo EXCEPT ![c] = n]
  /\ UNCHANGED <<func, pipe, got, result>>

ForkFails(c) ==
  /\ Go(c, "fork", "done")
  /\ ForkFailed(c)
  /\ result' = [result EXCEPT ![c] = "error"]
  /\ UNCHANGED <<func, pipe, child, out, todo, got>>

CloseWrite(c) ==
  /\ Go(c, "forked", "reading")
  /\ writes' = ParentKeeps(c)
  /\ UNCHANGED <<func, reads, pipe, child, out, todo, got, result>>

Read(c) ==
  LET n == Keeps(c, got[c])
  IN  /\ pipe[c] > 0
      /\ Go(c, "reading", IF Stops(c, n) THEN "read" ELSE "reading")
      /\ pipe' = [pipe EXCEPT ![c] = @ - 1]
      /\ got' = [got EXCEPT ![c] = n]
      /\ UNCHANGED <<func, reads, writes, child, out, todo, result>>

ReadEnds(c) ==
  /\ AtEnd(c)
  /\ Go(c, "reading", "read")
  /\ UNCHANGED <<func, reads, writes, pipe, child, out, todo, got, result>>

CloseRead(c) ==
  /\ Go(c, "read", "wait")
  /\ reads' = Without(reads, Agent, c)
  /\ UNCHANGED <<func, writes, pipe, child, out, todo, got, result>>

\* waitpid, and the result it makes.
Wait(c) ==
  /\ child[c] \in {"clean", "failed", "broken"}
  /\ Go(c, "wait", "done")
  /\ child' = [child EXCEPT ![c] = "reaped"]
  /\ result' = [result EXCEPT ![c] = IF child[c] = "clean" THEN "ok" ELSE "failed"]
  /\ UNCHANGED <<func, reads, writes, pipe, out, todo, got>>

\* The program.
ChildWrites(c) ==
  /\ ChildRuns(c) /\ todo[c] > 0
  /\ Readers(c) # {} /\ pipe[c] < PipeSize
  /\ pipe' = [pipe EXCEPT ![c] = @ + 1]
  /\ todo' = [todo EXCEPT ![c] = @ - 1]
  /\ UNCHANGED <<func, pc, reads, writes, child, out, got, result>>

ChildEnds(c, how) ==
  /\ child' = [child EXCEPT ![c] = how]
  /\ reads' = [reads EXCEPT ![c] = {}] /\ writes' = [writes EXCEPT ![c] = {}]
  /\ UNCHANGED <<func, pc, pipe, out, todo, got, result>>

ChildExits(c) ==
  /\ ChildRuns(c) /\ todo[c] = 0
  /\ \E how \in {"clean", "failed"} : ChildEnds(c, how)

\* It writes to a pipe nobody reads: SIGPIPE.
ChildBroken(c) ==
  /\ ChildRuns(c) /\ todo[c] > 0
  /\ Readers(c) = {}
  /\ ChildEnds(c, "broken")

Rest == (\A c \in Calls : pc[c] = "done") /\ UNCHANGED procVars

Caller(c) ==
  \/ Pipe(c) \/ PipeFails(c) \/ ForkFails(c)
  \/ \E n \in 0..MaxOut : Fork(c, n)
  \/ CloseWrite(c) \/ Read(c) \/ ReadEnds(c) \/ CloseRead(c) \/ Wait(c)

Program(c) == ChildWrites(c) \/ ChildExits(c) \/ ChildBroken(c)

ProcNext == (\E c \in Calls : Caller(c) \/ Program(c)) \/ Rest

\* A thread runs while it can; a program ends once its output is taken.
ProcSpec ==
  /\ ProcInit /\ [][ProcNext]_procVars
  /\ \A c \in Calls : WF_procVars(Caller(c)) /\ WF_procVars(Program(c))
------------------------------------------------------------------------------
(***************************************************************************)
(* Properties.                                                             *)
(***************************************************************************)
\* The state stays within its types; what is kept fits the buffers of
\* run_curl_fetch and run_curl (web_fetch.c:100, web_search.c:75).
TypeOK ==
  /\ func \in [Calls -> Functions]
  /\ pc \in [Calls -> {"start", "fork", "forked", "reading", "read", "wait", "done"}]
  /\ reads \in [Procs -> SUBSET Calls] /\ writes \in [Procs -> SUBSET Calls]
  /\ pipe \in [Calls -> 0..PipeSize]
  /\ child \in [Calls -> {"none", "running", "clean", "failed", "broken", "reaped"}]
  /\ out \in [Calls -> 0..MaxOut] /\ todo \in [Calls -> 0..MaxOut]
  /\ got \in [Calls -> 0..MaxOut]
  /\ \A c \in Calls : func[c] # "bash" => got[c] <= Cap
  /\ result \in [Calls -> {"none", "ok", "failed", "error"}]

\* A call whose program ended well has all its output, up to the cap, however
\* the children of other calls come and go; what is kept fits its buffer; and bash
\* and web_fetch let their program write to its end: it is never killed by the
\* agent closing the pipe (bash.c:93, web_fetch.c:98-108, web_search.c:75).
OutputWhole ==
  /\ TypeOK
  /\ \A c \in Calls : func[c] \notin Short => child[c] # "broken"
  /\ \A c \in Calls : result[c] = "ok" =>
       got[c] = CASE func[c] = "bash" -> out[c]
                  [] func[c] = "cmd"  -> Min({out[c], 1})
                  [] OTHER            -> Min({out[c], Cap})

\* A call returns, though children hold the pipe ends of other calls, as long
\* as no two calls stop reading early (bash.c:93, web_search.c:81).
CallReturns == \A c \in Calls : pc[c] # "start" ~> pc[c] = "done"
==============================================================================
