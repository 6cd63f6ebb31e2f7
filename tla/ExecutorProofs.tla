---------------------------- MODULE ExecutorProofs ---------------------------
(***************************************************************************)
(* Proofs about Executor, for every set of agents and tools and every      *)
(* bound: its types, that a writing tool runs alone in its batch, that     *)
(* each call is observed once, and that it implements ToolBatch.           *)
(***************************************************************************)
EXTENDS Executor, SequenceTheorems, FiniteSetTheorems, TLAPS

\* The inductive invariant: types, and the order the dispatch loop imposes.
IInv == TypeOK /\ DispatchOrder /\ SerialOrder
------------------------------------------------------------------------------
\* Functions on an initial segment are sequences.
LEMMA FunctionIsSeq ==
  ASSUME NEW S, NEW n \in Nat, NEW f \in [1..n -> S]
  PROVE  f \in Seq(S) /\ DOMAIN f = 1..n /\ Len(f) = n
<1>1. f \in Seq(S)
  BY SeqDef
<1>2. QED
  BY <1>1, LenProperties

\* Overwriting one element keeps a sequence a sequence over the same indices.
LEMMA UpdateSeq ==
  ASSUME NEW S, NEW s \in Seq(S), NEW i \in DOMAIN s, NEW v \in S
  PROVE  LET t == [s EXCEPT ![i] = v]
         IN  /\ t \in Seq(S)
             /\ DOMAIN t = DOMAIN s
             /\ t[i] = v
             /\ \A j \in DOMAIN s : j # i => t[j] = s[j]
<1>1. Len(s) \in Nat /\ s \in [1..Len(s) -> S] /\ DOMAIN s = 1..Len(s)
  BY LenProperties
<1>2. [s EXCEPT ![i] = v] \in [1..Len(s) -> S]
  BY <1>1
<1>3. QED
  BY <1>1, <1>2, FunctionIsSeq

\* A batch is a sequence of between 1 and MaxCalls requests.
LEMMA BatchIsSeq ==
  ASSUME NEW b \in Batches \cup {<<>>}
  PROVE  /\ b \in Seq(Request)
         /\ Len(b) \in 0..MaxCalls
         /\ Calls(b) = 1..Len(b)
         /\ Calls(b) \subseteq 1..MaxCalls
         /\ b # <<>> => Len(b) > 0
<1>1. CASE b = <<>>
  <2>1. b \in Seq(Request) /\ Len(b) = 0
    BY <1>1, EmptySeq
  <2>2. Calls(b) = 1..Len(b)
    BY <2>1, LenProperties DEF Calls
  <2>3. QED
    BY <1>1, <2>1, <2>2, ToolAssumption
<1>2. CASE b \in Batches
  <2>1. PICK n \in 1..MaxCalls : b \in [1..n -> Request]
    BY <1>2 DEF Batches
  <2>2. n \in Nat /\ n > 0 /\ n <= MaxCalls
    BY <2>1, ToolAssumption
  <2>3. b \in Seq(Request) /\ DOMAIN b = 1..n /\ Len(b) = n
    BY <2>1, <2>2, FunctionIsSeq
  <2>4. QED
    BY <2>2, <2>3, ToolAssumption DEF Calls
<1>3. QED
  BY <1>1, <1>2

\* What a constant result per call is typed as.
LEMMA FillSeq ==
  ASSUME NEW S, NEW v \in S, NEW b \in Batches \cup {<<>>}
  PROVE  /\ [i \in Calls(b) |-> v] \in Seq(S)
         /\ Calls([i \in Calls(b) |-> v]) = Calls(b)
<1>1. Calls(b) = 1..Len(b) /\ Len(b) \in Nat
  BY BatchIsSeq, ToolAssumption
<1>2. [i \in Calls(b) |-> v] \in [1..Len(b) -> S]
  BY <1>1
<1>3. QED
  BY <1>1, <1>2, FunctionIsSeq DEF Calls

\* What a call answers, and what it does to the workspace.
LEMMA AnswerType ==
  ASSUME NEW i \in 1..MaxCalls, NEW r, NEW s \in Nat
  PROVE  Answer(i, r, s) \in AnswerSet /\ Effect(r, s) \in Nat
<1>1. Effect(r, s) \in Nat
  BY DEF Effect
<1>2. QED
  BY <1>1, ToolAssumption DEF Answer, AnswerSet
------------------------------------------------------------------------------
\* Types hold at the start, and each action keeps them.
LEMMA InitTypes == Init => TypeOK
<1>1. <<>> \in Seq(TaskState) /\ <<>> \in Seq(AnswerSet)
      /\ <<>> \in Seq(Seq(Event)) /\ <<>> \in Seq(Event)
  BY EmptySeq
<1>2. 1 \in 1..(MaxCalls + 1) /\ 0 \in 0..MaxBatches
  BY ToolAssumption, ExecutorAssumption
<1>3. QED
  BY <1>1, <1>2 DEF Init, TypeOK, SlotState, Calls

LEMMA RefuseTypes ==
  ASSUME TypeOK, NEW a \in Agents, NEW b \in Batches, Refuse(a, b)
  PROVE  TypeOK'
<1>1. rounds' \in [Agents -> 0..MaxBatches] /\ rounds'[a] > 0
      /\ \A c \in Agents : c # a => rounds'[c] = rounds[c]
  BY ExecutorAssumption DEF Refuse, Idle, TypeOK
<1>2. reply' \in [Agents -> Seq(AnswerSet)]
  BY EmptySeq DEF Refuse, TypeOK
<1>3. QED
  BY <1>1, <1>2 DEF Refuse, Idle, TypeOK, sharedVars

LEMMA AcceptTypes ==
  ASSUME TypeOK, NEW a \in Agents, NEW b \in Batches, Accept(a, b)
  PROVE  TypeOK'
<1>1. rounds' \in [Agents -> 0..MaxBatches] /\ rounds'[a] > 0
      /\ \A c \in Agents : c # a => rounds'[c] = rounds[c]
  BY ExecutorAssumption DEF Accept, Idle, TypeOK
<1>2. reply' \in [Agents -> Seq(AnswerSet)]
  BY EmptySeq DEF Accept, TypeOK
<1>3. batch' \in [Agents -> Batches \cup {<<>>}] /\ batch'[a] = b
      /\ \A c \in Agents : c # a => batch'[c] = batch[c]
  BY DEF Accept, TypeOK
<1>4. task' \in [Agents -> Seq(TaskState)] /\ Calls(task'[a]) = Calls(b)
      /\ \A c \in Agents : c # a => task'[c] = task[c]
  BY FillSeq DEF Accept, TypeOK, TaskState
<1>5. result' \in [Agents -> Seq(AnswerSet)] /\ Calls(result'[a]) = Calls(b)
      /\ \A c \in Agents : c # a => result'[c] = result[c]
  <2>1. NoResult \in AnswerSet
    BY ToolAssumption DEF NoResult, AnswerSet
  <2>2. QED
    BY <2>1, FillSeq DEF Accept, TypeOK
<1>6. read' \in [Agents -> Seq(Seq(Event))] /\ Calls(read'[a]) = Calls(b)
      /\ \A c \in Agents : c # a => read'[c] = read[c]
  <2>1. <<>> \in Seq(Event)
    BY EmptySeq
  <2>2. QED
    BY <2>1, FillSeq DEF Accept, TypeOK
<1>7. next' \in [Agents -> 1..(MaxCalls + 1)]
  BY ToolAssumption DEF Accept, TypeOK
<1>8. slots' \in [1..MaxSlots -> SlotState]
  BY DEF Accept, TypeOK, BeginTools, SlotState
<1>9. QED
  BY <1>1, <1>2, <1>3, <1>4, <1>5, <1>6, <1>7, <1>8 DEF Accept, TypeOK

LEMMA DispatchTypes ==
  ASSUME TypeOK, NEW a \in Agents, Dispatch(a)
  PROVE  TypeOK'
<1>1. next[a] \in 1..MaxCalls
  BY BatchIsSeq DEF Dispatch, TypeOK
<1>2. next' \in [Agents -> 1..(MaxCalls + 1)]
  BY <1>1, ToolAssumption DEF Dispatch, TypeOK
<1>3. task' \in [Agents -> Seq(TaskState)]
      /\ \A c \in Agents : Calls(task'[c]) = Calls(task[c])
  <2>1. next[a] \in DOMAIN task[a]
    BY DEF Dispatch, TypeOK, Calls
  <2>2. QED
    BY <2>1, UpdateSeq DEF Dispatch, TypeOK, TaskState, Calls
<1>4. QED
  BY <1>2, <1>3 DEF Dispatch, TypeOK, sharedVars

LEMMA ReturnTypes ==
  ASSUME TypeOK, NEW a \in Agents, Return(a)
  PROVE  TypeOK'
<1>1. <<>> \in Seq(TaskState) /\ <<>> \in Seq(AnswerSet) /\ <<>> \in Seq(Seq(Event))
  BY EmptySeq
<1>2. 1 \in 1..(MaxCalls + 1)
  BY ToolAssumption
<1>3. QED
  BY <1>1, <1>2 DEF Return, TypeOK, Calls

LEMMA TaskTypes ==
  ASSUME TypeOK, NEW a \in Agents, NEW i \in 1..MaxCalls, TaskStep(a, i)
  PROVE  TypeOK'
<1> USE DEF TypeOK
<1>1. i \in Calls(batch[a])
  BY DEF TaskStep, Exec, LockHooks, Observe, Report
<1>2. i \in DOMAIN task[a] /\ i \in DOMAIN result[a] /\ i \in DOMAIN read[a]
  BY <1>1 DEF Calls
<1>3. rounds[a] \in 1..MaxBatches
  BY <1>1, BatchIsSeq, ExecutorAssumption DEF Calls
<1>4. task' \in [Agents -> Seq(TaskState)]
      /\ \A c \in Agents : Calls(task'[c]) = Calls(task[c])
  <2>1. PICK t \in TaskState : task' = [task EXCEPT ![a][i] = t]
    BY DEF TaskStep, Exec, LockHooks, Observe, Report, TaskState
  <2>2. QED
    BY <1>2, <2>1, UpdateSeq DEF Calls
<1>5. CASE Exec(a, i)
  <2>1. Answer(i, batch[a][i], store) \in AnswerSet /\ store' \in Nat
    BY <1>5, AnswerType DEF Exec
  <2>2. result' \in [Agents -> Seq(AnswerSet)]
        /\ \A c \in Agents : Calls(result'[c]) = Calls(result[c])
    BY <1>2, <1>5, <2>1, UpdateSeq DEF Exec, StoreResult, Calls
  <2>3. QED
    BY <1>4, <1>5, <2>1, <2>2 DEF Exec
<1>6. CASE LockHooks(a, i)
  <2>1. read' \in [Agents -> Seq(Seq(Event))]
        /\ \A c \in Agents : Calls(read'[c]) = Calls(read[c])
    BY <1>2, <1>6, UpdateSeq DEF LockHooks, Calls
  <2>2. QED
    BY <1>4, <1>6, <2>1 DEF LockHooks
<1>7. CASE Observe(a, i)
  <2>1. read' \in [Agents -> Seq(Seq(Event))]
        /\ \A c \in Agents : Calls(read'[c]) = Calls(read[c])
    BY <1>2, <1>7, UpdateSeq, EmptySeq DEF Observe, Calls
  <2>2. read[a][i] \in Seq(Event)
    BY <1>2, LenProperties, ElementOfSeq
  <2>3. <<a, rounds[a], i>> \in Event
    BY <1>3 DEF Event
  <2>4. ObsAdd(read[a][i], <<a, rounds[a], i>>) \in Seq(Event)
    <3>1. CASE Len(read[a][i]) >= MaxObs
      <4>1. read[a][i] # <<>>
        BY <3>1, EmptySeq, ExecutorAssumption
      <4>2. QED
        BY <2>2, <2>3, <4>1, HeadTailProperties, AppendProperties DEF ObsAdd
    <3>2. CASE ~(Len(read[a][i]) >= MaxObs)
      BY <2>2, <2>3, <3>2, AppendProperties DEF ObsAdd
    <3>3. QED
      BY <3>1, <3>2
  <2>5. obs' \in Seq(Event)
    BY <1>7, <2>4 DEF Observe
  <2>6. QED
    BY <1>4, <1>7, <2>1, <2>5 DEF Observe, Released
<1>8. CASE Report(a, i)
  <2>1. slots' \in [1..MaxSlots -> SlotState]
    BY <1>8 DEF Report, ToolDone, SlotState
  <2>2. QED
    BY <1>4, <1>8, <2>1 DEF Report
<1>9. QED
  BY <1>5, <1>6, <1>7, <1>8 DEF TaskStep

\* Every state is well typed (the types of the C structures, and that the
\* task, result and batch arrays of an agent always have the same length).
THEOREM TypeCorrect == Spec => []TypeOK
<1>1. Init => TypeOK
  BY InitTypes
<1>2. TypeOK /\ [Next]_vars => TypeOK'
  <2> SUFFICES ASSUME TypeOK, [Next]_vars PROVE TypeOK'
    OBVIOUS
  <2>1. CASE UNCHANGED vars
    BY <2>1 DEF TypeOK, vars, agentVars, sharedVars
  <2>2. CASE Next
    BY <2>1, <2>2, RefuseTypes, AcceptTypes, DispatchTypes, ReturnTypes, TaskTypes
    DEF Next, Rest
  <2>3. QED
    BY <2>1, <2>2
<1>3. QED
  BY <1>1, <1>2, PTL DEF Spec
------------------------------------------------------------------------------
\* A task step moves a begun call forward and touches no other.
LEMMA TaskMoves ==
  ASSUME TypeOK, NEW a \in Agents, NEW i \in 1..MaxCalls, TaskStep(a, i)
  PROVE  /\ i \in Calls(batch[a])
         /\ task[a][i] \notin {"waiting", "done"} /\ task'[a][i] # "waiting"
         /\ \A c \in Agents : \A j \in Calls(batch[c]) :
              c # a \/ j # i => task'[c][j] = task[c][j]
         /\ UNCHANGED <<batch, next, reply, rounds>>
<1>1. /\ i \in Calls(batch[a]) /\ task[a][i] \notin {"waiting", "done"}
      /\ UNCHANGED <<batch, next, reply, rounds>>
  BY DEF TaskStep, Exec, LockHooks, Observe, Report
<1>2. PICK t \in TaskState \ {"waiting"} : task' = [task EXCEPT ![a][i] = t]
  BY DEF TaskStep, Exec, LockHooks, Observe, Report, TaskState
<1>3. i \in DOMAIN task[a] /\ task[a] \in Seq(TaskState)
  BY <1>1 DEF TypeOK, Calls
<1>4. task'[a][i] = t
      /\ \A j \in DOMAIN task[a] : j # i => task'[a][j] = task[a][j]
  BY <1>2, <1>3, UpdateSeq DEF TypeOK
<1>5. \A c \in Agents : c # a => task'[c] = task[c]
  BY <1>2 DEF TypeOK
<1>6. QED
  BY <1>1, <1>4, <1>5 DEF TypeOK, Calls

\* The dispatched call is marked ready; the others keep their place.
LEMMA DispatchMoves ==
  ASSUME TypeOK, NEW a \in Agents, Dispatch(a)
  PROVE  /\ next[a] \in Calls(batch[a])
         /\ task'[a][next[a]] = "ready" /\ next'[a] = next[a] + 1
         /\ \A c \in Agents : \A j \in Calls(batch[c]) :
              c # a \/ j # next[a] => task'[c][j] = task[c][j]
         /\ \A c \in Agents : c # a => next'[c] = next[c]
<1>1. next[a] \in DOMAIN task[a] /\ task[a] \in Seq(TaskState)
  BY DEF Dispatch, TypeOK, Calls
<1>2. "ready" \in TaskState
  BY DEF TaskState
<1>3. task'[a] = [task[a] EXCEPT ![next[a]] = "ready"]
      /\ \A c \in Agents : c # a => task'[c] = task[c]
  BY DEF Dispatch, TypeOK
<1>4. task'[a][next[a]] = "ready"
      /\ \A j \in DOMAIN task[a] : j # next[a] => task'[a][j] = task[a][j]
  BY <1>1, <1>2, <1>3, UpdateSeq
<1>5. QED
  BY <1>1, <1>3, <1>4 DEF Dispatch, TypeOK, Calls

LEMMA CallsAreNats ==
  ASSUME TypeOK, NEW a \in Agents
  PROVE  Calls(batch[a]) \subseteq Nat /\ next[a] \in Nat
<1>1. batch[a] \in Batches \cup {<<>>} /\ next[a] \in 1..(MaxCalls + 1)
  BY DEF TypeOK
<1>2. Calls(batch[a]) = 1..Len(batch[a])
  BY <1>1, BatchIsSeq
<1>3. QED
  BY <1>1, <1>2, ToolAssumption

LEMMA OrderStep ==
  ASSUME IInv, [Next]_vars
  PROVE  DispatchOrder' /\ SerialOrder'
<1> USE DEF IInv
<1>1. CASE UNCHANGED vars
  BY <1>1 DEF vars, agentVars, DispatchOrder, SerialOrder, Calls, Concurrent, AllReadOnly
<1>2. ASSUME NEW a \in Agents, NEW b \in Batches, Refuse(a, b)
      PROVE  DispatchOrder' /\ SerialOrder'
  BY <1>2 DEF Refuse, DispatchOrder, SerialOrder, Calls, Concurrent, AllReadOnly
<1>3. ASSUME NEW a \in Agents, NEW b \in Batches, Accept(a, b)
      PROVE  DispatchOrder' /\ SerialOrder'
  <2>1. /\ batch'[a] = b /\ next'[a] = 1
        /\ task'[a] = [i \in Calls(b) |-> "waiting"]
        /\ \A c \in Agents : c # a =>
             batch'[c] = batch[c] /\ next'[c] = next[c] /\ task'[c] = task[c]
    BY <1>3 DEF Accept, TypeOK
  <2>2. \A i \in Calls(b) : i \in Nat /\ i >= 1
    BY BatchIsSeq
  <2>3. QED
    BY <2>1, <2>2 DEF DispatchOrder, SerialOrder, Calls, Concurrent, AllReadOnly
<1>4. ASSUME NEW a \in Agents, Dispatch(a)
      PROVE  DispatchOrder' /\ SerialOrder'
  <2>1. batch' = batch
    BY <1>4 DEF Dispatch
  <2>2. DispatchOrder'
    BY <1>4, <2>1, DispatchMoves, CallsAreNats DEF DispatchOrder, Calls
  <2>3. ASSUME NEW c \in Agents, ~Concurrent(batch[c]),
               NEW i \in Calls(batch[c]), NEW j \in Calls(batch[c]),
               j < i, task'[c][i] # "waiting"
        PROVE  task'[c][j] = "done"
    <3>1. task[c][j] = "done"
      <4>1. CASE c = a /\ i = next[a]
        <5>1. Reached(a, next[a]) /\ ~Concurrent(batch[a])
          BY <1>4, <2>3, <4>1 DEF Dispatch
        <5>2. Calls(batch[a]) = 1..Len(batch[a]) /\ next[a] \in Nat
          BY BatchIsSeq, CallsAreNats DEF TypeOK
        <5>3. j \in 1..(next[a] - 1)
          BY <2>3, <4>1, <5>2
        <5>4. QED
          BY <4>1, <5>1, <5>3 DEF Reached
      <4>2. CASE ~(c = a /\ i = next[a])
        BY <1>4, <2>3, <4>2, DispatchMoves DEF SerialOrder
      <4>3. QED
        BY <4>1, <4>2
    <3>2. ~(c = a /\ j = next[a])
      BY <1>4, <3>1, DispatchMoves, CallsAreNats DEF DispatchOrder
    <3>3. QED
      BY <1>4, <3>1, <3>2, DispatchMoves
  <2>4. SerialOrder'
    BY <2>1, <2>3 DEF SerialOrder, Concurrent, AllReadOnly, Calls
  <2>5. QED
    BY <2>2, <2>4
<1>5. ASSUME NEW a \in Agents, NEW i \in 1..MaxCalls, TaskStep(a, i)
      PROVE  DispatchOrder' /\ SerialOrder'
  <2>1. DispatchOrder'
    BY <1>5, TaskMoves DEF DispatchOrder, Calls
  <2>2. SerialOrder'
    BY <1>5, TaskMoves DEF SerialOrder, Calls, Concurrent, AllReadOnly
  <2>3. QED
    BY <2>1, <2>2
<1>6. ASSUME NEW a \in Agents, Return(a)
      PROVE  DispatchOrder' /\ SerialOrder'
  <2>1. /\ batch'[a] = <<>>
        /\ \A c \in Agents : c # a =>
             batch'[c] = batch[c] /\ next'[c] = next[c] /\ task'[c] = task[c]
    BY <1>6 DEF Return, TypeOK
  <2>2. Calls(<<>>) = {}
    BY DEF Calls
  <2>3. QED
    BY <2>1, <2>2 DEF DispatchOrder, SerialOrder, Calls, Concurrent, AllReadOnly
<1>7. QED
  BY <1>1, <1>2, <1>3, <1>4, <1>5, <1>6 DEF Next, Rest

LEMMA InvInductive == Spec => []IInv
<1>1. Init => IInv
  <2>1. Init => DispatchOrder /\ SerialOrder
    BY DEF Init, DispatchOrder, SerialOrder, Calls
  <2>2. QED
    BY <2>1, InitTypes DEF IInv
<1>2. IInv /\ [Next]_vars => DispatchOrder' /\ SerialOrder'
  BY OrderStep
<1>3. QED
  BY <1>1, <1>2, TypeCorrect, PTL DEF Spec, IInv

\* In a batch with a writing tool no two calls are under way at once, however
\* many threads the executor may start for other batches.
THEOREM WritesAlone == Spec => []WritesRunAlone
<1>1. IInv => WritesRunAlone
  <2> SUFFICES ASSUME IInv, NEW a \in Agents,
                      NEW i \in Calls(batch[a]), NEW j \in Calls(batch[a]),
                      i # j, Writes(batch[a][i])
               PROVE  ~(Active(a, i) /\ Active(a, j))
    BY DEF WritesRunAlone
  <2>1. ~Concurrent(batch[a])
    <3>1. Calls(batch[a]) = 1..Len(batch[a]) /\ Len(batch[a]) \in Nat
      BY BatchIsSeq, ToolAssumption DEF IInv, TypeOK
    <3>2. Len(batch[a]) # 1
      <4>1. \A n \in Nat : i \in 1..n /\ j \in 1..n => n # 1
        OBVIOUS
      <4>2. QED
        BY <3>1, <4>1
    <3>3. ~AllReadOnly(batch[a])
      BY DEF AllReadOnly, Writes
    <3>4. QED
      BY <3>2, <3>3 DEF Concurrent
  <2>2. i < j \/ j < i
    BY CallsAreNats DEF IInv
  <2>3. QED
    BY <2>1, <2>2 DEF IInv, SerialOrder, Active
<1>2. QED
  BY <1>1, InvInductive, PTL
------------------------------------------------------------------------------
(***************************************************************************)
(* The observation buffer.  What makes its read and its write one step is  *)
(* that the call between the two holds the lock and has seen all of it.    *)
(***************************************************************************)
Mark(a, i) == <<a, rounds[a], i>>
Kept(e) == \E k \in DOMAIN obs : obs[k] = e
Noticed(a, i) == task[a][i] \in {"noted", "done"} /\ batch[a][i].tool \in Watched

LockHeld ==
  \A a \in Agents : \A i \in Calls(batch[a]) :
    task[a][i] = "locked" => hookLock = <<a, i>> /\ read[a][i] = obs

Distinct(s) == \A j, k \in DOMAIN s : j # k => s[j] # s[k]

\* No mark is of a batch yet to come; of a batch that runs, only calls whose
\* hook is over are marked; and all these are, unless the buffer is full.
Log ==
  /\ Len(obs) <= MaxObs
  /\ Distinct(obs)
  /\ \A k \in DOMAIN obs : obs[k][2] <= rounds[obs[k][1]]
  /\ \A a \in Agents : \A i \in Calls(batch[a]) :
       /\ Kept(Mark(a, i)) => Noticed(a, i)
       /\ Noticed(a, i) => Kept(Mark(a, i)) \/ Len(obs) = MaxObs

\* obs_add keeps the new observation, and the old ones but for the first of a
\* full buffer.
LEMMA ObsAdded ==
  ASSUME NEW s \in Seq(Event), NEW e \in Event,
         Len(s) <= MaxObs, Distinct(s), \A k \in DOMAIN s : s[k] # e
  PROVE  LET t == ObsAdd(s, e)
         IN  /\ t \in Seq(Event)
             /\ Len(t) <= MaxObs
             /\ Distinct(t)
             /\ \A k \in DOMAIN t : t[k] # e => \E j \in DOMAIN s : s[j] = t[k]
             /\ \E k \in DOMAIN t : t[k] = e
             /\ Len(t) = MaxObs \/ \A j \in DOMAIN s : \E k \in DOMAIN t : t[k] = s[j]
<1>1. Len(s) \in Nat /\ DOMAIN s = 1..Len(s) /\ MaxObs \in Nat /\ MaxObs > 0
  BY LenProperties, ExecutorAssumption
<1>2. CASE Len(s) >= MaxObs
  <2> DEFINE u == Tail(s)
             t == Append(u, e)
  <2>1. s # <<>> /\ Len(s) = MaxObs
    <3>1. \A m, n \in Nat : m <= n /\ m >= n => m = n
      OBVIOUS
    <3>2. Len(s) = MaxObs
      BY <1>1, <1>2, <3>1
    <3>3. QED
      BY <1>1, <3>2, EmptySeq
  <2>2. u \in Seq(Event) /\ Len(u) = Len(s) - 1 /\ \A k \in 1..Len(u) : u[k] = s[k+1]
    BY <2>1, HeadTailProperties
  <2> HIDE DEF u
  <2>3. /\ t \in Seq(Event) /\ Len(t) = Len(u) + 1
        /\ \A k \in 1..Len(u) : t[k] = u[k]
        /\ t[Len(u) + 1] = e
    BY <2>2, AppendProperties
  <2> HIDE DEF t
  <2>4. DOMAIN t = 1..Len(s) /\ Len(t) = Len(s) /\ t[Len(s)] = e
        /\ \A k \in 1..(Len(s) - 1) : k + 1 \in DOMAIN s /\ t[k] = s[k+1]
    BY <1>1, <2>2, <2>3, LenProperties
  <2>5. \A k \in 1..Len(s) : k = Len(s) \/ k \in 1..(Len(s) - 1)
    <3>1. \A n \in Nat : \A k \in 1..n : k = n \/ k \in 1..(n - 1)
      OBVIOUS
    <3>2. QED
      BY <1>1, <3>1
  <2>6. Distinct(t)
    <3> SUFFICES ASSUME NEW j \in 1..Len(s), NEW k \in 1..Len(s), j # k
                 PROVE  t[j] # t[k]
      BY <2>4 DEF Distinct
    <3>1. CASE j = Len(s)
      BY <2>4, <2>5, <3>1
    <3>2. CASE k = Len(s)
      BY <2>4, <2>5, <3>2
    <3>3. CASE j # Len(s) /\ k # Len(s)
      <4>1. j + 1 # k + 1
        BY <1>1
      <4>2. QED
        BY <2>4, <2>5, <3>3, <4>1 DEF Distinct
    <3>4. QED
      BY <3>1, <3>2, <3>3
  <2>7. \A k \in DOMAIN t : t[k] # e => \E j \in DOMAIN s : s[j] = t[k]
    BY <2>4, <2>5
  <2>8. Len(s) \in DOMAIN t
    BY <1>1, <2>1, <2>4
  <2>9. ObsAdd(s, e) = t
    BY <1>2 DEF ObsAdd, t, u
  <2>10. QED
    BY <2>1, <2>3, <2>4, <2>6, <2>7, <2>8, <2>9, <1>1
<1>3. CASE ~(Len(s) >= MaxObs)
  <2> DEFINE t == Append(s, e)
  <2>1. /\ t \in Seq(Event) /\ Len(t) = Len(s) + 1
        /\ \A k \in 1..Len(s) : t[k] = s[k]
        /\ t[Len(s) + 1] = e
    BY AppendProperties
  <2> HIDE DEF t
  <2>2. DOMAIN t = 1..(Len(s) + 1)
    BY <2>1, LenProperties
  <2>3. \A k \in 1..(Len(s) + 1) : k = Len(s) + 1 \/ k \in 1..Len(s)
    BY <1>1
  <2>4. \A k \in 1..Len(s) : k \in 1..(Len(s) + 1)
    BY <1>1
  <2>5. Distinct(t)
    BY <1>1, <2>1, <2>2, <2>3 DEF Distinct
  <2>6. Len(s) + 1 \in DOMAIN t /\ Len(t) <= MaxObs
    BY <1>1, <1>3, <2>1, <2>2
  <2>7. ObsAdd(s, e) = t
    BY <1>3 DEF ObsAdd, t
  <2>8. QED
    BY <1>1, <2>1, <2>2, <2>3, <2>4, <2>5, <2>6, <2>7
<1>4. QED
  BY <1>2, <1>3

\* Where each step of a task takes it.
LEMMA TaskLands ==
  ASSUME TypeOK, NEW a \in Agents, NEW i \in Calls(batch[a])
  PROVE  /\ Exec(a, i) => task[a][i] = "ready" /\ task'[a][i] = "ran"
         /\ LockHooks(a, i) => task[a][i] = "ran" /\ task'[a][i] = "locked"
         /\ Observe(a, i) => task[a][i] = "locked" /\ task'[a][i] = "noted"
         /\ Report(a, i) => task[a][i] = "noted" /\ task'[a][i] = "done"
<1>1. i \in DOMAIN task[a] /\ task[a] \in Seq(TaskState)
      /\ {"ran", "locked", "noted", "done"} \subseteq TaskState
  BY DEF TypeOK, Calls, TaskState
<1>2. ASSUME NEW t \in TaskState, task' = [task EXCEPT ![a][i] = t]
      PROVE  task'[a][i] = t
  BY <1>1, <1>2, UpdateSeq DEF TypeOK
<1>3. QED
  BY <1>1, <1>2 DEF Exec, LockHooks, Observe, Report

\* A call that runs is numbered like a mark of its batch.
LEMMA MarkType ==
  ASSUME TypeOK, NEW a \in Agents, NEW i \in Calls(batch[a])
  PROVE  Mark(a, i) \in Event /\ i \in 1..MaxCalls
<1>1. batch[a] \in Batches \cup {<<>>} /\ batch[a] # <<>>
  BY DEF TypeOK, Calls
<1>2. i \in 1..MaxCalls
  BY <1>1, BatchIsSeq
<1>3. rounds[a] \in 1..MaxBatches
  BY <1>1, ExecutorAssumption DEF TypeOK
<1>4. QED
  BY <1>2, <1>3 DEF Mark, Event

\* Steps that leave the buffer and the batches alone, and finish no hook.
LEMMA LogUntouched ==
  ASSUME Log, UNCHANGED <<obs, batch, rounds>>,
         \A a \in Agents : \A i \in Calls(batch[a]) : Noticed(a, i)' = Noticed(a, i)
  PROVE  Log'
BY DEF Log, Distinct, Kept, Mark, Calls

LEMMA ObserveStep ==
  ASSUME IInv, LockHeld, Log, NEW a \in Agents, NEW i \in 1..MaxCalls, Observe(a, i)
  PROVE  LockHeld' /\ Log'
<1> USE DEF IInv
<1>1. /\ i \in Calls(batch[a]) /\ task[a][i] = "locked" /\ task'[a][i] = "noted"
      /\ hookLock = <<a, i>> /\ read[a][i] = obs /\ UNCHANGED <<batch, rounds>>
  BY TaskLands DEF Observe, LockHeld
<1>2. \A c \in Agents : \A j \in Calls(batch[c]) :
        c # a \/ j # i => task'[c][j] = task[c][j] /\ task[c][j] # "locked"
  BY <1>1, TaskMoves DEF LockHeld, TaskStep
<1>3. LockHeld'
  BY <1>1, <1>2 DEF LockHeld, Calls
<1>4. obs \in Seq(Event) /\ Mark(a, i) \in Event /\ Len(obs) \in Nat /\ MaxObs \in Nat
  BY <1>1, MarkType, LenProperties, ExecutorAssumption DEF TypeOK
<1>5. \A c \in Agents : \A j \in Calls(batch[c]) :
        c # a \/ j # i => Noticed(c, j)' = Noticed(c, j) /\ Mark(c, j) # Mark(a, i)
  BY <1>1, <1>2 DEF Noticed, Mark
<1>6. \A c \in Agents : \A j \in Calls(batch[c]) : Mark(c, j)' = Mark(c, j)
  BY <1>1 DEF Mark
<1>7. ~Noticed(a, i) /\ (Noticed(a, i)' <=> batch[a][i].tool \in Watched)
  BY <1>1 DEF Noticed
<1>8. CASE batch[a][i].tool \in Watched
  <2> DEFINE e == Mark(a, i)
  <2>1. obs' = ObsAdd(obs, e)
    BY <1>1, <1>8 DEF Observe, Mark
  <2>2. \A k \in DOMAIN obs : obs[k] # e
    BY <1>1, <1>7 DEF Log, Kept
  <2>3. e[1] = a /\ e[2] = rounds[a] /\ rounds[a] \in Nat
    BY ExecutorAssumption DEF Mark, TypeOK
  <2> HIDE DEF e
  <2>4. e \in Event
    BY <1>4 DEF e
  <2>5. Len(obs) <= MaxObs /\ Distinct(obs)
    BY DEF Log
  <2>6. /\ Len(obs') <= MaxObs
        /\ Distinct(obs')
        /\ \A k \in DOMAIN obs' : obs'[k] # e => \E j \in DOMAIN obs : obs[j] = obs'[k]
        /\ \E k \in DOMAIN obs' : obs'[k] = e
        /\ Len(obs') = MaxObs \/ \A j \in DOMAIN obs : \E k \in DOMAIN obs' : obs'[k] = obs[j]
    BY <1>4, <2>1, <2>2, <2>4, <2>5, ObsAdded
  <2>7. \A k \in DOMAIN obs' : obs'[k][2] <= rounds'[obs'[k][1]]
    <3> SUFFICES ASSUME NEW k \in DOMAIN obs' PROVE obs'[k][2] <= rounds[obs'[k][1]]
      BY <1>1
    <3>1. CASE obs'[k] = e
      BY <2>3, <3>1
    <3>2. CASE obs'[k] # e
      BY <2>6, <3>2 DEF Log
    <3>3. QED
      BY <3>1, <3>2
  <2>8. ASSUME NEW c \in Agents, NEW j \in Calls(batch[c])
        PROVE  /\ Kept(Mark(c, j))' => Noticed(c, j)'
               /\ Noticed(c, j)' => Kept(Mark(c, j))' \/ Len(obs') = MaxObs
    <3>1. CASE c = a /\ j = i
      BY <1>6, <1>7, <1>8, <2>6, <3>1 DEF Kept, e
    <3>2. CASE ~(c = a /\ j = i)
      <4>1. Noticed(c, j)' = Noticed(c, j) /\ Mark(c, j) # e /\ Mark(c, j)' = Mark(c, j)
        BY <1>5, <1>6, <3>2 DEF e
      <4>2. /\ Kept(Mark(c, j)) => Noticed(c, j)
            /\ Noticed(c, j) => Kept(Mark(c, j)) \/ Len(obs) = MaxObs
        BY DEF Log
      <4>3. Kept(Mark(c, j))' => Kept(Mark(c, j))
        BY <2>6, <4>1 DEF Kept
      <4>4. Len(obs) = MaxObs => Len(obs') = MaxObs
        <5> SUFFICES ASSUME Len(obs) = MaxObs PROVE Len(obs') = MaxObs
          OBVIOUS
        <5>1. obs # <<>> /\ obs' = Append(Tail(obs), e)
          BY <2>1, EmptySeq, ExecutorAssumption, <1>4 DEF ObsAdd
        <5>2. Tail(obs) \in Seq(Event) /\ Len(Tail(obs)) = Len(obs) - 1
          BY <1>4, <5>1, HeadTailProperties
        <5>3. Len(Append(Tail(obs), e)) = Len(Tail(obs)) + 1
          BY <2>4, <5>2, AppendProperties
        <5>4. QED
          BY <1>4, <5>1, <5>2, <5>3
      <4>5. Kept(Mark(c, j)) => Kept(Mark(c, j))' \/ Len(obs') = MaxObs
        BY <2>6, <4>1 DEF Kept
      <4>6. QED
        BY <4>1, <4>2, <4>3, <4>4, <4>5
    <3>3. QED
      BY <3>1, <3>2
  <2>9. QED
    BY <1>1, <1>3, <2>6, <2>7, <2>8 DEF Log, Distinct, Calls
<1>9. CASE batch[a][i].tool \notin Watched
  <2>1. obs' = obs
    BY <1>9 DEF Observe
  <2>2. ASSUME NEW c \in Agents, NEW j \in Calls(batch[c])
        PROVE  Noticed(c, j)' = Noticed(c, j)
    <3>1. CASE c = a /\ j = i
      <4>1. task'[a][i] = "noted" /\ task[a][i] = "locked" /\ batch' = batch
        BY <1>1
      <4>2. QED
        BY <1>9, <3>1, <4>1 DEF Noticed
    <3>2. CASE ~(c = a /\ j = i)
      BY <1>5, <3>2
    <3>3. QED
      BY <3>1, <3>2
  <2>3. QED
    BY <1>1, <1>3, <2>1, <2>2, LogUntouched
<1>10. QED
  BY <1>8, <1>9

LEMMA TaskLogs ==
  ASSUME IInv, LockHeld, Log, NEW a \in Agents, NEW i \in 1..MaxCalls, TaskStep(a, i)
  PROVE  LockHeld' /\ Log'
<1> USE DEF IInv
<1>1. /\ i \in Calls(batch[a]) /\ UNCHANGED <<batch, rounds>>
      /\ \A c \in Agents : \A j \in Calls(batch[c]) :
           c # a \/ j # i => task'[c][j] = task[c][j]
  BY TaskMoves
<1>2. CASE Exec(a, i)
  <2>1. /\ task[a][i] = "ready" /\ task'[a][i] = "ran"
        /\ UNCHANGED <<hookLock, read, obs>>
    BY <1>1, <1>2, TaskLands DEF Exec
  <2>2. LockHeld'
    BY <1>1, <2>1 DEF LockHeld, Calls
  <2>3. \A c \in Agents : \A j \in Calls(batch[c]) : Noticed(c, j)' = Noticed(c, j)
    BY <1>1, <2>1 DEF Noticed
  <2>4. QED
    BY <1>1, <2>1, <2>2, <2>3, LogUntouched
<1>3. CASE LockHooks(a, i)
  <2>1. /\ task[a][i] = "ran" /\ task'[a][i] = "locked" /\ hookLock = NoOne
        /\ hookLock' = <<a, i>> /\ obs' = obs
    BY <1>1, <1>3, TaskLands DEF LockHooks, HooksFree
  <2>2. read'[a][i] = obs
    <3>1. i \in DOMAIN read[a] /\ read[a] \in Seq(Seq(Event)) /\ obs \in Seq(Event)
      BY <1>1 DEF TypeOK, Calls
    <3>2. read'[a] = [read[a] EXCEPT ![i] = obs]
      BY <1>3 DEF LockHooks, TypeOK
    <3>3. QED
      BY <3>1, <3>2, UpdateSeq
  <2>3. \A c \in Agents : \A j \in Calls(batch[c]) : task[c][j] # "locked"
    <3> SUFFICES ASSUME NEW c \in Agents, NEW j \in Calls(batch[c]), task[c][j] = "locked"
                 PROVE  FALSE
      OBVIOUS
    <3>1. hookLock = <<c, j>> /\ j \in 1..MaxCalls
      BY MarkType DEF LockHeld
    <3>2. QED
      BY <2>1, <3>1, ExecutorAssumption
  <2>4. LockHeld'
    BY <1>1, <2>1, <2>2, <2>3 DEF LockHeld, Calls
  <2>5. \A c \in Agents : \A j \in Calls(batch[c]) : Noticed(c, j)' = Noticed(c, j)
    BY <1>1, <2>1 DEF Noticed
  <2>6. QED
    BY <1>1, <2>1, <2>4, <2>5, LogUntouched
<1>4. CASE Observe(a, i)
  BY <1>4, ObserveStep
<1>5. CASE Report(a, i)
  <2>1. /\ task[a][i] = "noted" /\ task'[a][i] = "done"
        /\ UNCHANGED <<hookLock, read, obs>>
    BY <1>1, <1>5, TaskLands DEF Report
  <2>2. LockHeld'
    BY <1>1, <2>1 DEF LockHeld, Calls
  <2>3. \A c \in Agents : \A j \in Calls(batch[c]) : Noticed(c, j)' = Noticed(c, j)
    BY <1>1, <2>1 DEF Noticed
  <2>4. QED
    BY <1>1, <2>1, <2>2, <2>3, LogUntouched
<1>6. QED
  BY <1>2, <1>3, <1>4, <1>5 DEF TaskStep

\* A batch that is handed in has marks of earlier rounds only.
LEMMA AcceptLogs ==
  ASSUME IInv, LockHeld, Log, NEW a \in Agents, NEW b \in Batches, Accept(a, b)
  PROVE  LockHeld' /\ Log'
<1> USE DEF IInv
<1>1. /\ batch'[a] = b /\ task'[a] = [i \in Calls(b) |-> "waiting"]
      /\ rounds' = [rounds EXCEPT ![a] = @ + 1] /\ UNCHANGED <<hookLock, obs>>
      /\ \A c \in Agents : c # a =>
           /\ batch'[c] = batch[c] /\ task'[c] = task[c] /\ read'[c] = read[c]
  BY DEF Accept, TypeOK
<1>2. rounds \in [Agents -> Nat] /\ obs \in Seq(Event)
  BY ExecutorAssumption DEF TypeOK
<1>3. LockHeld'
  BY <1>1 DEF LockHeld, Calls
<1>4. \A k \in DOMAIN obs : obs[k] \in Event
  BY <1>2, LenProperties, ElementOfSeq
<1>5. \A k \in DOMAIN obs : obs[k][1] \in Agents /\ obs[k][2] \in Nat
  BY <1>4, ExecutorAssumption DEF Event
<1>6. \A k \in DOMAIN obs : obs[k][2] <= rounds'[obs[k][1]]
  BY <1>1, <1>2, <1>5 DEF Log
<1>7. ASSUME NEW c \in Agents, NEW i \in Calls(batch'[c])
      PROVE  /\ Kept(Mark(c, i))' => Noticed(c, i)'
             /\ Noticed(c, i)' => Kept(Mark(c, i))' \/ Len(obs') = MaxObs
  <2>1. CASE c = a
    <3>1. ~Noticed(c, i)'
      BY <1>1, <1>7, <2>1 DEF Noticed
    <3>2. \A k \in DOMAIN obs : obs[k] # Mark(c, i)'
      <4>1. Mark(c, i)'[1] = a /\ Mark(c, i)'[2] = rounds[a] + 1
        BY <1>1, <1>2, <2>1 DEF Mark
      <4>2. QED
        BY <1>2, <1>5, <4>1 DEF Log
    <3>3. QED
      BY <1>1, <3>1, <3>2 DEF Kept
  <2>2. CASE c # a
    <3>1. Mark(c, i)' = Mark(c, i) /\ Noticed(c, i)' = Noticed(c, i) /\ i \in Calls(batch[c])
      BY <1>1, <1>2, <1>7, <2>2 DEF Mark, Noticed
    <3>2. QED
      BY <1>1, <3>1 DEF Log, Kept
  <2>3. QED
    BY <2>1, <2>2
<1>8. QED
  BY <1>1, <1>3, <1>6, <1>7 DEF Log, Distinct, Calls

\* A batch that is refused or has been answered leaves no call to speak of.
LEMMA IdleLogs ==
  ASSUME IInv, LockHeld, Log, NEW a \in Agents,
         Return(a) \/ \E b \in Batches : Refuse(a, b)
  PROVE  LockHeld' /\ Log'
<1> USE DEF IInv
<1>1. /\ batch'[a] = <<>> /\ UNCHANGED <<hookLock, obs>>
      /\ rounds' = rounds \/ rounds' = [rounds EXCEPT ![a] = @ + 1]
      /\ \A c \in Agents : c # a =>
           /\ batch'[c] = batch[c] /\ task'[c] = task[c] /\ read'[c] = read[c]
  BY DEF Return, Refuse, Idle, TypeOK, sharedVars
<1>2. rounds \in [Agents -> Nat] /\ obs \in Seq(Event)
  BY ExecutorAssumption DEF TypeOK
<1>3. Calls(<<>>) = {}
  BY DEF Calls
<1>4. LockHeld'
  BY <1>1, <1>3 DEF LockHeld, Calls
<1>5. \A k \in DOMAIN obs : obs[k] \in Event
  BY <1>2, LenProperties, ElementOfSeq
<1>6. \A k \in DOMAIN obs : obs[k][1] \in Agents /\ obs[k][2] \in Nat
  BY <1>5, ExecutorAssumption DEF Event
<1>7. \A k \in DOMAIN obs : obs[k][2] <= rounds'[obs[k][1]]
  BY <1>1, <1>2, <1>6 DEF Log
<1>8. ASSUME NEW c \in Agents, NEW i \in Calls(batch'[c])
      PROVE  /\ Kept(Mark(c, i))' => Noticed(c, i)'
             /\ Noticed(c, i)' => Kept(Mark(c, i))' \/ Len(obs') = MaxObs
  <2>1. c # a
    BY <1>1, <1>3, <1>8
  <2>2. Mark(c, i)' = Mark(c, i) /\ Noticed(c, i)' = Noticed(c, i) /\ i \in Calls(batch[c])
    BY <1>1, <1>2, <1>8, <2>1 DEF Mark, Noticed
  <2>3. QED
    BY <1>1, <2>2 DEF Log, Kept
<1>9. QED
  BY <1>1, <1>4, <1>7, <1>8 DEF Log, Distinct, Calls

LEMMA LogStep ==
  ASSUME IInv, LockHeld, Log, [Next]_vars
  PROVE  LockHeld' /\ Log'
<1>1. CASE UNCHANGED vars
  BY <1>1 DEF vars, agentVars, sharedVars, LockHeld, Log, Distinct, Kept, Mark, Noticed, Calls
<1>2. ASSUME NEW a \in Agents, Dispatch(a)
      PROVE  LockHeld' /\ Log'
  <2>1. UNCHANGED <<batch, rounds, hookLock, read, obs>>
    BY <1>2 DEF Dispatch, sharedVars
  <2>2. task[a][next[a]] = "waiting"
    BY <1>2, DispatchMoves, CallsAreNats DEF DispatchOrder, IInv
  <2>3. LockHeld'
    BY <1>2, <2>1, <2>2, DispatchMoves DEF LockHeld, Calls, IInv
  <2>4. \A c \in Agents : \A j \in Calls(batch[c]) : Noticed(c, j)' = Noticed(c, j)
    BY <1>2, <2>1, <2>2, DispatchMoves DEF Noticed, IInv
  <2>5. QED
    BY <2>1, <2>3, <2>4, LogUntouched
<1>3. QED
  BY <1>1, <1>2, TaskLogs, AcceptLogs, IdleLogs DEF Next, Rest

\* One observation for each finished call of a watched tool, whatever else
\* runs its hooks meanwhile, unless the bounded buffer has pushed it out
\* (hooks.c:23, memory.c:574).
THEOREM HooksLogOnce == Spec => []ObservedOnce
<1>1. Init => LockHeld /\ Log
  <2>1. Init => Len(obs) = 0 /\ DOMAIN obs = {}
    BY EmptySeq DEF Init
  <2>2. QED
    BY <2>1, ExecutorAssumption DEF Init, LockHeld, Log, Distinct, Calls
<1>2. ASSUME TypeOK, Log PROVE ObservedOnce
  <2> SUFFICES ASSUME NEW a \in Agents, NEW i \in Calls(batch[a])
               PROVE  IF Noticed(a, i)
                      THEN Observed(a, i) = 1 \/ (Observed(a, i) = 0 /\ Len(obs) = MaxObs)
                      ELSE Observed(a, i) = 0
    BY DEF ObservedOnce, Noticed
  <2> DEFINE At == {k \in DOMAIN obs : obs[k] = Mark(a, i)}
  <2>1. Observed(a, i) = Cardinality(At)
    BY DEF Observed, Mark
  <2>2. Kept(Mark(a, i)) => Observed(a, i) = 1
    <3> SUFFICES ASSUME NEW k \in DOMAIN obs, obs[k] = Mark(a, i)
                 PROVE  Observed(a, i) = 1
      BY DEF Kept
    <3>1. At = {k}
      BY <1>2 DEF Log, Distinct
    <3>2. QED
      BY <2>1, <3>1, FS_Singleton
  <2>3. ~Kept(Mark(a, i)) => Observed(a, i) = 0
    <3> SUFFICES ASSUME ~Kept(Mark(a, i)) PROVE Observed(a, i) = 0
      OBVIOUS
    <3>1. At = {}
      BY DEF Kept
    <3>2. QED
      BY <2>1, <3>1, FS_EmptySet
  <2>4. QED
    BY <1>2, <2>2, <2>3 DEF Log
<1>3. IInv => TypeOK
  BY DEF IInv
<1>4. QED
  BY <1>1, <1>2, <1>3, LogStep, InvInductive, PTL DEF Spec
------------------------------------------------------------------------------
\* The answers of the abstract batch, as the refinement mapping defines them.
Answers == [a \in Agents |-> [i \in Given(a) |-> result[a][i]]]

\* Steps that begin no call and store no result leave the answers alone.
LEMMA AnswersKept ==
  ASSUME TypeOK, NEW a \in Agents, NEW i \in 1..MaxCalls,
         LockHooks(a, i) \/ Observe(a, i) \/ Report(a, i)
  PROVE  Answers' = Answers /\ UNCHANGED <<batch, reply, store>>
<1>1. TaskStep(a, i)
  BY DEF TaskStep
<1>2. task[a][i] # "ready" /\ task'[a][i] # "ready"
  <2>1. i \in DOMAIN task[a] /\ task[a] \in Seq(TaskState)
    BY <1>1, TaskMoves DEF TypeOK, Calls
  <2>2. PICK t \in TaskState \ {"ready"} : task' = [task EXCEPT ![a][i] = t]
    BY DEF LockHooks, Observe, Report, TaskState
  <2>3. task'[a][i] = t
    BY <2>1, <2>2, UpdateSeq DEF TypeOK
  <2>4. QED
    BY <2>2, <2>3 DEF LockHooks, Observe, Report
<1>3. \A c \in Agents : Given(c)' = Given(c)
  BY <1>1, <1>2, TaskMoves DEF Given, Begun, Calls
<1>4. UNCHANGED <<batch, result, reply, store>>
  BY DEF LockHooks, Observe, Report
<1>5. QED
  BY <1>3, <1>4 DEF Answers

LEMMA DispatchKeepsAnswers ==
  ASSUME IInv, NEW a \in Agents, Dispatch(a)
  PROVE  Answers' = Answers /\ UNCHANGED <<batch, reply, store>>
<1> USE DEF IInv
<1>1. UNCHANGED <<batch, result, reply, store>>
  BY DEF Dispatch, sharedVars
<1>2. task[a][next[a]] = "waiting"
  BY DispatchMoves, CallsAreNats DEF DispatchOrder
<1>3. \A c \in Agents : Given(c)' = Given(c)
  BY <1>1, <1>2, DispatchMoves DEF Given, Begun, Calls
<1>4. QED
  BY <1>1, <1>3 DEF Answers

\* Accepting a batch in the executor accepts it in the abstract batch.
LEMMA AcceptRefines ==
  ASSUME TypeOK, NEW a \in Agents, NEW b \in Batches, Accept(a, b)
  PROVE  Abs!Accept(a, b)
<1>1. batch[a] = <<>> /\ ~Refused(b) /\ store' = store
      /\ batch' = [batch EXCEPT ![a] = b] /\ reply' = [reply EXCEPT ![a] = <<>>]
  BY DEF Accept, Idle
<1>2. Given(a) = {}
  BY <1>1 DEF Given, Calls
<1>3. Given(a)' = {}
  <2>1. batch'[a] = b /\ task'[a] = [i \in Calls(b) |-> "waiting"]
    BY DEF Accept, TypeOK
  <2>2. QED
    BY <2>1 DEF Given, Begun, Calls
<1>4. \A c \in Agents : c # a =>
        Given(c)' = Given(c) /\ result'[c] = result[c]
  BY DEF Accept, TypeOK, Given, Begun, Calls
<1>5. Answers' = Answers
  BY <1>2, <1>3, <1>4 DEF Answers
<1>6. QED
  BY <1>1, <1>5 DEF Abs!Accept, Abs!Refused, Refused, Abs!Calls, Calls, Answers

LEMMA ReturnRefines ==
  ASSUME IInv, NEW a \in Agents, Return(a)
  PROVE  Abs!Reply(a)
<1> USE DEF IInv
<1>1. Given(a) = Calls(batch[a])
  BY DEF Return, AllJoined, Given, Begun
<1>2. result[a] = [i \in Given(a) |-> result[a][i]]
  <2>1. result[a] \in Seq(AnswerSet) /\ DOMAIN result[a] = Calls(batch[a])
    BY DEF TypeOK, Calls
  <2>2. QED
    BY <1>1, <2>1, LenProperties
<1>3. batch[a] # <<>> /\ store' = store
      /\ batch' = [batch EXCEPT ![a] = <<>>]
      /\ reply' = [reply EXCEPT ![a] = result[a]]
  BY DEF Return
<1>4. Given(a)' = {}
  BY <1>3 DEF Given, Calls, TypeOK
<1>5. \A c \in Agents : c # a =>
        Given(c)' = Given(c) /\ result'[c] = result[c]
  BY DEF Return, TypeOK, Given, Begun, Calls
<1>6. Answers' = [Answers EXCEPT ![a] = [i \in {} |-> 0]]
  BY <1>4, <1>5 DEF Answers
<1>7. Answers[a] = result[a] /\ DOMAIN Answers[a] = Calls(batch[a])
  BY <1>1, <1>2 DEF Answers
<1>8. QED
  BY <1>3, <1>6, <1>7 DEF Abs!Reply, Abs!NoAnswers, Abs!Calls, Calls, Answers

\* Running call i in the executor runs it in the abstract batch: whatever it
\* conflicts with before it is over, because a batch with a writer is serial.
LEMMA ExecRefines ==
  ASSUME IInv, NEW a \in Agents, NEW i \in 1..MaxCalls, Exec(a, i)
  PROVE  Abs!Run(a, i)
<1> USE DEF IInv
<1>1. i \in Calls(batch[a]) /\ task[a][i] = "ready"
      /\ UNCHANGED <<batch, reply>> /\ store' = Effect(batch[a][i], store)
  BY DEF Exec
<1>2. i \notin Given(a)
  BY <1>1 DEF Given, Begun
<1>3. ASSUME NEW j \in 1..(i-1), Conflict(batch[a][j], batch[a][i])
      PROVE  j \in Given(a)
  <2>1. Calls(batch[a]) = 1..Len(batch[a]) /\ Len(batch[a]) \in Nat
    BY BatchIsSeq, ToolAssumption DEF TypeOK
  <2>2. j \in Calls(batch[a]) /\ j < i
    BY <1>1, <2>1
  <2>3. ~Concurrent(batch[a])
    <3>1. ~AllReadOnly(batch[a])
      BY <1>1, <1>3, <2>2 DEF Conflict, Writes, AllReadOnly
    <3>2. \A n \in Nat : i \in 1..n /\ j \in 1..(i-1) => n # 1
      OBVIOUS
    <3>3. QED
      BY <1>1, <2>1, <3>1, <3>2 DEF Concurrent
  <2>4. QED
    BY <1>1, <2>2, <2>3 DEF SerialOrder, Given, Begun
<1>4. Given(a)' = Given(a) \cup {i}
      /\ \A c \in Agents : c # a => Given(c)' = Given(c)
  <2>1. TaskStep(a, i)
    BY DEF TaskStep
  <2>2. task'[a][i] = "ran"
    <3>1. i \in DOMAIN task[a] /\ "ran" \in TaskState
      BY <1>1 DEF TypeOK, Calls, TaskState
    <3>2. QED
      BY <3>1, UpdateSeq DEF Exec, TypeOK
  <2>3. QED
    BY <1>1, <2>1, <2>2, TaskMoves DEF Given, Begun, Calls
<1>5. LET ans == Answer(i, batch[a][i], store)
      IN  /\ result'[a][i] = ans
          /\ \A j \in Given(a) : result'[a][j] = result[a][j]
          /\ \A c \in Agents : c # a => result'[c] = result[c]
  <2>1. i \in DOMAIN result[a] /\ Given(a) \subseteq DOMAIN result[a]
    BY <1>1 DEF TypeOK, Calls, Given
  <2>2. Answer(i, batch[a][i], store) \in AnswerSet
    BY AnswerType DEF TypeOK
  <2>3. QED
    BY <1>2, <2>1, <2>2, UpdateSeq DEF Exec, StoreResult, TypeOK
<1>6. Answers' = [Answers EXCEPT ![a] =
        [j \in Given(a) \cup {i} |->
           IF j = i THEN Answer(i, batch[a][i], store) ELSE Answers[a][j]]]
  BY <1>2, <1>4, <1>5 DEF Answers
<1>7. Answers[a] = [j \in Given(a) |-> result[a][j]]
  BY DEF Answers
<1>8. QED
  BY <1>1, <1>2, <1>3, <1>6, <1>7
  DEF Abs!Run, Abs!Calls, Abs!Conflict, Abs!Writes, Abs!Effect, Abs!Answer,
      Calls, Conflict, Writes, Effect, Answer, Answers

\* executor_run_tools keeps the promise of executor.h: a batch is refused
\* whole, or each call runs once with conflicting calls in request order, and
\* the reply has call i's answer at position i.
THEOREM ExecutorRefines == Spec => ImplementsToolBatch
<1>1. Init => Abs!Init
  <2>1. ASSUME Init, NEW a \in Agents PROVE Given(a) = {}
    <3>1. Calls(batch[a]) = {}
      BY <2>1 DEF Init, Calls
    <3>2. QED
      BY <3>1 DEF Given
  <2>2. QED
    BY <2>1 DEF Init, Abs!Init, Abs!NoAnswers
<1>2. IInv /\ [Next]_vars => [Abs!Next]_Abs!vars
  <2> SUFFICES ASSUME IInv, [Next]_vars PROVE [Abs!Next]_Abs!vars
    OBVIOUS
  <2> USE DEF IInv
  <2>1. CASE UNCHANGED vars
    BY <2>1 DEF vars, agentVars, sharedVars, Abs!vars, Given, Begun, Calls
  <2>2. ASSUME NEW a \in Agents, NEW b \in Batches, Refuse(a, b)
        PROVE  Abs!Refuse(a, b)
    BY <2>2 DEF Refuse, Idle, sharedVars, Abs!Refuse, Abs!Refused, Refused,
                Abs!Calls, Calls, Given, Begun
  <2>3. ASSUME NEW a \in Agents, NEW i \in 1..MaxCalls, TaskStep(a, i)
        PROVE  Abs!Run(a, i) \/ UNCHANGED Abs!vars
    BY <2>3, ExecRefines, AnswersKept DEF TaskStep, Abs!vars, Answers
  <2>4. ASSUME NEW a \in Agents, Dispatch(a)
        PROVE  UNCHANGED Abs!vars
    BY <2>4, DispatchKeepsAnswers DEF Abs!vars, Answers
  <2>5. Abs!Batches = Batches
    BY DEF Abs!Batches, Batches, Abs!Request, Request
  <2>6. QED
    BY <2>1, <2>2, <2>3, <2>4, <2>5, AcceptRefines, ReturnRefines
    DEF Next, Rest, Abs!Next
<1>3. QED
  BY <1>1, <1>2, InvInductive, PTL DEF Spec, Abs!Spec, ImplementsToolBatch
=============================================================================
