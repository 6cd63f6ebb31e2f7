------------------------------ MODULE Executor -------------------------------
(***************************************************************************)
(* executor_run_tools() and what its tasks touch (tools/executor.c, with   *)
(* the hook lock of core/hooks.c, the observation buffer of core/memory.c  *)
(* and the tool slots of ui/ui.c).                                         *)
(*                                                                         *)
(* An agent thread hands in a batch.  A batch of read-only tools (and any  *)
(* batch of one) gets one thread per call, all joined before the call      *)
(* returns; any other batch runs in the agent's own thread, in request     *)
(* order.  Several agents (the main one and its subagents) run batches at  *)
(* the same time and share the hook lock, the observation buffer and the   *)
(* UI slots.                                                               *)
(***************************************************************************)
EXTENDS ToolCalls, FiniteSets

CONSTANTS
  Silent,      \* agents made by agent_create_silent(): the subagents
  Watched,     \* tools memory_observe() records: bash and the file tools
  MaxBatches,  \* bound: batches one agent submits
  MaxObs,      \* MEMORY_OBS_MAX
  MaxSlots,    \* MAX_RENDER_SLOTS
  NoOne        \* the hook lock is free

ASSUME ExecutorAssumption ==
  /\ Silent \subseteq Agents
  /\ Watched \subseteq Tool
  /\ NoOne \notin Agents \X (1..MaxCalls)
  /\ MaxBatches \in Nat
  /\ MaxObs \in Nat \ {0}
  /\ MaxSlots \in Nat

VARIABLES
  batch,     \* batch[a]: the batch being run, <<>> when none
  task,      \* task[a][i]: how far call i has come
  result,    \* result[a][i]: tasks[i].result
  next,      \* next[a]: the first call not yet dispatched
  reply,     \* reply[a]: out_msgs of the last successful return
  rounds,    \* rounds[a]: batches handed in so far
  store,     \* version of the workspace
  hookLock,  \* holder of g_hooks_lock, an agent and a call, or NoOne
  read,      \* read[a][i]: the buffer as the lock holder found it
  obs,       \* obs_buf[0..obs_count): the observed calls, oldest first
  slots      \* the tool slots the render thread draws

agentVars  == <<batch, task, result, next, reply, rounds>>
sharedVars == <<store, hookLock, read, obs, slots>>
vars == <<agentVars, sharedVars>>

\* waiting -> ready -> ran -> locked -> noted -> done
TaskState == {"waiting", "ready", "ran", "locked", "noted", "done"}

NoResult == [call |-> 0, saw |-> 0]
SlotState == {"empty", "running", "done"}

Min2(m, n) == IF m < n THEN m ELSE n

(***************************************************************************)
(* Faults: what a plausible slip in the code would do.  Each one stands in *)
(* for the operator named in its comment, and a property must then fail.   *)
(***************************************************************************)
\* AllReadOnly, if one reader were enough.
SomeReadOnly(b) == \E i \in Calls(b) : b[i].tool \in ReadOnly

\* BeginTools, without the clamp to the slot array.
BeginToolsUnclamped(n) ==
  [i \in 1..(n + MaxSlots) |-> IF i <= n THEN "running" ELSE "empty"]

\* StoreResult, in completion order.
AppendResult(res, i, ans) ==
  LET free == {j \in DOMAIN res : res[j] = NoResult}
  IN  [res EXCEPT ![CHOOSE j \in free : \A k \in free : j <= k] = ans]

\* AllJoined, with the join loop one short.
AllButLastJoined(a) == \A i \in 1..(Len(batch[a]) - 1) : task[a][i] = "done"

\* HooksFree, if hooks_emit took no lock.
HooksUnguarded == TRUE

\* Released, if hooks_emit returned without unlocking.
NeverReleased == hookLock
------------------------------------------------------------------------------
\* The batch runs concurrently: one call, or registered read-only tools only.
AllReadOnly(b) == \A i \in Calls(b) : b[i].tool \in ReadOnly
Concurrent(b) == Len(b) = 1 \/ AllReadOnly(b)

\* A pthread starts with g_agent_silent = false, whoever created it.
SilentThread(a) == a \in Silent /\ ~Concurrent(batch[a])

\* obs_add: append, dropping the oldest observation of a full buffer.
ObsAdd(buf, e) ==
  IF Len(buf) >= MaxObs THEN Append(Tail(buf), e) ELSE Append(buf, e)

\* ui_begin_tools: at most MaxSlots slots, all running.
BeginTools(n) ==
  [i \in 1..MaxSlots |-> IF i <= Min2(n, MaxSlots) THEN "running" ELSE "empty"]

\* ui_tool_done: an index beyond the batch on display is ignored.
ToolDone(ui, i) ==
  IF i <= MaxSlots /\ ui[i] # "empty" THEN [ui EXCEPT ![i] = "done"] ELSE ui

\* Whoever runs call i stores its result at position i.
StoreResult(res, i, ans) == [res EXCEPT ![i] = ans]

\* The loop over the batch may go on to call i.
Reached(a, i) ==
  ~Concurrent(batch[a]) => \A j \in 1..(i-1) : task[a][j] = "done"

\* Every thread has been joined, or the serial loop has ended.
AllJoined(a) == \A i \in Calls(batch[a]) : task[a][i] = "done"

HooksFree == hookLock = NoOne
Released == NoOne
------------------------------------------------------------------------------
Init ==
  /\ batch    = [a \in Agents |-> <<>>]
  /\ task     = [a \in Agents |-> <<>>]
  /\ result   = [a \in Agents |-> <<>>]
  /\ next     = [a \in Agents |-> 1]
  /\ reply    = [a \in Agents |-> <<>>]
  /\ rounds   = [a \in Agents |-> 0]
  /\ store    = 0
  /\ hookLock = NoOne
  /\ read     = [a \in Agents |-> <<>>]
  /\ obs      = <<>>
  /\ slots    = [i \in 1..MaxSlots |-> "empty"]

Idle(a) == batch[a] = <<>> /\ rounds[a] < MaxBatches

\* Some call's arguments do not serialize: -1, and nothing has run.
Refuse(a, b) ==
  /\ Idle(a)
  /\ Refused(b)
  /\ rounds' = [rounds EXCEPT ![a] = @ + 1]
  /\ reply'  = [reply EXCEPT ![a] = <<>>]
  /\ UNCHANGED <<batch, task, result, next, sharedVars>>

Accept(a, b) ==
  /\ Idle(a)
  /\ ~Refused(b)
  /\ rounds' = [rounds EXCEPT ![a] = @ + 1]
  /\ reply'  = [reply EXCEPT ![a] = <<>>]
  /\ batch'  = [batch EXCEPT ![a] = b]
  /\ task'   = [task EXCEPT ![a] = [i \in Calls(b) |-> "waiting"]]
  /\ result' = [result EXCEPT ![a] = [i \in Calls(b) |-> NoResult]]
  /\ next'   = [next EXCEPT ![a] = 1]
  /\ slots'  = IF a \in Silent THEN slots ELSE BeginTools(Len(b))
  /\ read'   = [read EXCEPT ![a] = [i \in Calls(b) |-> <<>>]]
  /\ UNCHANGED <<store, hookLock, obs>>

\* pthread_create for call next[a], or the serial loop arriving at it.
Dispatch(a) ==
  /\ next[a] \in Calls(batch[a])
  /\ Reached(a, next[a])
  /\ task' = [task EXCEPT ![a][next[a]] = "ready"]
  /\ next' = [next EXCEPT ![a] = @ + 1]
  /\ UNCHANGED <<batch, result, reply, rounds, sharedVars>>

\* def->exec(args), or the error text of an unknown tool.
Exec(a, i) ==
  /\ i \in Calls(batch[a])
  /\ task[a][i] = "ready"
  /\ task'   = [task EXCEPT ![a][i] = "ran"]
  /\ result' = [result EXCEPT ![a] =
                  StoreResult(@, i, Answer(i, batch[a][i], store))]
  /\ store'  = Effect(batch[a][i], store)
  /\ UNCHANGED <<batch, next, reply, rounds, hookLock, read, obs, slots>>

\* hooks_emit(HOOK_AFTER_TOOL): take the lock; memory_observe reads the buffer.
LockHooks(a, i) ==
  /\ i \in Calls(batch[a])
  /\ task[a][i] = "ran"
  /\ HooksFree
  /\ task' = [task EXCEPT ![a][i] = "locked"]
  /\ hookLock' = <<a, i>>
  /\ read' = [read EXCEPT ![a][i] = obs]
  /\ UNCHANGED <<batch, result, next, reply, rounds, store, obs, slots>>

\* obs_add writes the buffer back for a watched tool; the lock is released.
Observe(a, i) ==
  /\ i \in Calls(batch[a])
  /\ task[a][i] = "locked"
  /\ task' = [task EXCEPT ![a][i] = "noted"]
  /\ obs' = IF batch[a][i].tool \in Watched
              THEN ObsAdd(read[a][i], <<a, rounds[a], i>>) ELSE obs
  /\ read' = [read EXCEPT ![a][i] = <<>>]
  /\ hookLock' = Released
  /\ UNCHANGED <<batch, result, next, reply, rounds, store, slots>>

\* if (!g_agent_silent) ui_tool_done(index, ...); then the task is over.
Report(a, i) ==
  /\ i \in Calls(batch[a])
  /\ task[a][i] = "noted"
  /\ task'  = [task EXCEPT ![a][i] = "done"]
  /\ slots' = IF SilentThread(a) THEN slots ELSE ToolDone(slots, i)
  /\ UNCHANGED <<batch, result, next, reply, rounds, store, hookLock, read, obs>>

\* Joins over, ui_idle, one tool message per call, the tasks are freed.
Return(a) ==
  /\ batch[a] # <<>>
  /\ next[a] > Len(batch[a])
  /\ AllJoined(a)
  /\ reply'  = [reply EXCEPT ![a] = result[a]]
  /\ batch'  = [batch EXCEPT ![a] = <<>>]
  /\ task'   = [task EXCEPT ![a] = <<>>]
  /\ result' = [result EXCEPT ![a] = <<>>]
  /\ next'   = [next EXCEPT ![a] = 1]
  /\ read'   = [read EXCEPT ![a] = <<>>]
  /\ UNCHANGED <<rounds, store, hookLock, obs, slots>>

TaskStep(a, i) == Exec(a, i) \/ LockHooks(a, i) \/ Observe(a, i) \/ Report(a, i)

\* Every agent has handed in all the batches the bound allows.
Rest ==
  /\ \A a \in Agents : batch[a] = <<>> /\ rounds[a] = MaxBatches
  /\ UNCHANGED vars

Next ==
  \/ \E a \in Agents :
       \/ \E b \in Batches : Refuse(a, b) \/ Accept(a, b)
       \/ Dispatch(a)
       \/ \E i \in 1..MaxCalls : TaskStep(a, i)
       \/ Return(a)
  \/ Rest

Spec == Init /\ [][Next]_vars

\* Every started thread runs on and a tool's exec() returns.  An agent need
\* not submit another batch.
Fairness ==
  \A a \in Agents :
    /\ WF_vars(Dispatch(a))
    /\ WF_vars(Return(a))
    /\ \A i \in 1..MaxCalls : WF_vars(TaskStep(a, i))

FairSpec == Spec /\ Fairness
------------------------------------------------------------------------------
Event == Agents \X (1..MaxBatches) \X (1..MaxCalls)

\* A batch's tasks, results, reads and progress keep their types, and the first
\* three have one element for each of its calls (executor.c:95).
TypeOK ==
  /\ batch  \in [Agents -> Batches \cup {<<>>}]
  /\ task   \in [Agents -> Seq(TaskState)]
  /\ result \in [Agents -> Seq(AnswerSet)]
  /\ read   \in [Agents -> Seq(Seq(Event))]
  /\ reply  \in [Agents -> Seq(AnswerSet)]
  /\ next   \in [Agents -> 1..(MaxCalls + 1)]
  /\ rounds \in [Agents -> 0..MaxBatches]
  /\ \A a \in Agents :
       /\ Calls(task[a])   = Calls(batch[a])
       /\ Calls(result[a]) = Calls(batch[a])
       /\ Calls(read[a])   = Calls(batch[a])
       /\ batch[a] # <<>> => rounds[a] > 0
  /\ store \in Nat
  /\ hookLock \in (Agents \X (1..MaxCalls)) \cup {NoOne}
  /\ obs \in Seq(Event)
  /\ slots \in [1..MaxSlots -> SlotState]

\* A call leaves "waiting" exactly when the dispatch loop has passed it.
DispatchOrder ==
  \A a \in Agents : \A i \in Calls(batch[a]) :
    task[a][i] = "waiting" <=> i >= next[a]

\* In the serial loop everything before a begun call is over.
SerialOrder ==
  \A a \in Agents : ~Concurrent(batch[a]) =>
    \A i, j \in Calls(batch[a]) :
      j < i /\ task[a][i] # "waiting" => task[a][j] = "done"

Begun(a, i) == task[a][i] \notin {"waiting", "ready"}
Active(a, i) == task[a][i] \in TaskState \ {"waiting", "done"}

\* A tool that writes the workspace never overlaps another call of its batch,
\* although tasks of one batch may run on several threads (executor.c:137-157).
WritesRunAlone ==
  \A a \in Agents : \A i, j \in Calls(batch[a]) :
    i # j /\ Writes(batch[a][i]) => ~(Active(a, i) /\ Active(a, j))

\* Each finished call of a watched tool has left exactly one observation, unless the bounded
\* buffer pushed it out: no two after-tool hooks interleave (hooks.c:23-30).
Observed(a, i) == Cardinality({k \in DOMAIN obs : obs[k] = <<a, rounds[a], i>>})
ObservedOnce ==
  \A a \in Agents : \A i \in Calls(batch[a]) :
    IF task[a][i] \in {"noted", "done"} /\ batch[a][i].tool \in Watched
    THEN Observed(a, i) = 1 \/ (Observed(a, i) = 0 /\ Len(obs) = MaxObs)
    ELSE Observed(a, i) = 0

\* Every batch that was accepted is answered, and the agent gets control back.
BatchReturns == \A a \in Agents : batch[a] # <<>> ~> batch[a] = <<>>
------------------------------------------------------------------------------
\* The answers given so far, as the abstract batch counts them.
Given(a) == {i \in Calls(batch[a]) : Begun(a, i)}

Abs == INSTANCE ToolBatch WITH
         answers <- [a \in Agents |-> [i \in Given(a) |-> result[a][i]]]

\* The executor implements the contract of executor.h: refused whole or run
\* once each, conflicting calls in request order, out_msgs[i] from call i.
ImplementsToolBatch == Abs!Spec
=============================================================================
