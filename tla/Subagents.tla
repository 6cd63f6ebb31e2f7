------------------------------ MODULE Subagents ------------------------------
(***************************************************************************)
(* The pool of background agents (tools/subagent.c): subagent_spawn,       *)
(* subagent_wait, the worker threads, and subagent_cleanup on exit.        *)
(*                                                                         *)
(* A subagent is named by its id, which is also the name of its thread.    *)
(* Every part of the code between pthread_mutex_lock(&pool_lock) and the   *)
(* matching unlock is one action.  subagent_status changes nothing and has *)
(* no action.  Subagents are given the whole tool registry, so they may    *)
(* spawn and wait themselves: SubsMayCall says whether the model asks them *)
(* to.                                                                     *)
(***************************************************************************)
EXTENDS Integers, FiniteSets

CONSTANTS
  PoolSize,     \* MAX_SUBAGENTS
  MaxSpawns,    \* bound: subagents ever started
  MaxWaits,     \* bound: subagent_wait calls by one agent
  SubsMayCall   \* subagents use the subagent tools too

ASSUME PoolAssumption ==
  /\ PoolSize \in Nat \ {0}
  /\ MaxSpawns \in Nat
  /\ MaxWaits \in Nat
  /\ SubsMayCall \in BOOLEAN

Slot == 1..PoolSize
Sub  == 1..MaxSpawns     \* subagent ids, in the order of next_id
Main == 0                \* the main agent
Agent == {Main} \cup Sub

VARIABLES
  pool,     \* pool[s]: id, active, state, result
  nextId,   \* next_id
  home,     \* home[t]: the slot whose address the thread was given
  worker,   \* worker[t]: how far the thread of subagent t has come
  call,     \* call[c]: the subagent_wait that agent c is in
  joiners,  \* joiners[t]: how many pthread_join calls were made on t
  answer,   \* answer[c]: what the last subagent_wait of c returned
  waits,    \* waits[c]: how many waits c has made
  exit      \* main's way out: the slot subagent_cleanup is at

vars == <<pool, nextId, home, worker, call, joiners, answer, waits, exit>>

NoOutput == 0            \* slot->result = NULL, "(no output)"
NoCall   == [slot |-> 0, target |-> 0, own |-> FALSE, legal |-> TRUE]
NoAnswer == [asked |-> 0, got |-> 0, over |-> TRUE]
InLoop   == [phase |-> "loop", at |-> 1, target |-> 0]
FreeSlot == [id |-> 0, active |-> FALSE, state |-> "done", result |-> NoOutput]
------------------------------------------------------------------------------
(***************************************************************************)
(* Faults, each standing in for the operator named in its comment.         *)
(***************************************************************************)
\* Usable, if a slot whose subagent is done counted as free.
UsableWhenDone(p, s) == ~p[s].active \/ p[s].state = "done"

\* Joinable, if the wait did not wait for the thread to end.
JoinableEarly(c) == worker[call[c].target] # "none"

\* MustJoin, if the cleanup went by the slot having been used.
MustJoinUsed(s) == pool[s].id # 0

\* LockFree, if a joiner kept pool_lock.
LockHeldOverJoin == (\A c \in Agent : call[c] = NoCall) /\ exit.phase # "join"

------------------------------------------------------------------------------
Usable(p, s) == ~p[s].active

First(S) == CHOOSE s \in S : \A r \in S : s <= r

\* The slots a wait looks at: with an id its slot, without one the running.
Matching(p, t) ==
  IF t # 0 THEN {s \in Slot : p[s].active /\ p[s].id = t}
  ELSE {s \in Slot : p[s].active /\ p[s].state = "running"}

\* free(task); free(result); active = 0.
Cleared(p, s) == [p EXCEPT ![s].active = FALSE, ![s].result = NoOutput]

\* pool_lock is free between actions: a joiner unlocks first (201, 224).
LockFree == TRUE

\* subagent_cleanup joins the threads of the slots that are running.
MustJoin(s) == pool[s].active /\ pool[s].state = "running"

\* What the worker stores under the lock when its chat is over.
Finished(p, s, st, t) == [p EXCEPT ![s].state = st, ![s].result = t]

\* A wait hands the slot's result to c; `over' records whether the subagent
\* it was asked for had ended.
Answered(c, s, t) ==
  answer' = [answer EXCEPT ![c] =
    [asked |-> t, got |-> pool[s].result, over |-> worker[t] # "chat"]]

\* A join POSIX leaves undefined or lets fail: someone has joined or is
\* joining the thread, the thread joins itself, or two threads join each other.
\* Such a join may return at once, the thread still running.
Legal(c, t, own) ==
  /\ joiners[t] = 0
  /\ ~(own /\ t = c)
  /\ ~(own /\ call[t].own /\ call[t].target = c)

Ended(t) == worker[t] = "ended"

Joinable(c) == call[c].legal => Ended(call[c].target)

\* An agent that can issue a tool call now.
MayCall(c) ==
  /\ call[c] = NoCall
  /\ IF c = Main THEN exit.phase = "loop" ELSE SubsMayCall /\ worker[c] = "chat"
------------------------------------------------------------------------------
Init ==
  /\ pool    = [s \in Slot |-> FreeSlot]
  /\ nextId  = 1
  /\ home    = [t \in Sub |-> 0]
  /\ worker  = [t \in Sub |-> "none"]
  /\ call    = [c \in Agent |-> NoCall]
  /\ joiners = [t \in Sub |-> 0]
  /\ answer  = [c \in Agent |-> NoAnswer]
  /\ waits   = [c \in Agent |-> 0]
  /\ exit    = InLoop

\* subagent_spawn: the first inactive slot; "pool full" changes nothing.
Spawn(c) ==
  LET free == {s \in Slot : Usable(pool, s)}
      s    == First(free)
  IN  /\ MayCall(c)
      /\ nextId \in Sub
      /\ free # {}
      /\ pool' = [pool EXCEPT ![s] =
           [id |-> nextId, active |-> TRUE, state |-> "running", result |-> NoOutput]]
      /\ home'   = [home EXCEPT ![nextId] = s]
      /\ worker' = [worker EXCEPT ![nextId] = "chat"]
      /\ nextId' = nextId + 1
      /\ UNCHANGED <<call, joiners, answer, waits, exit>>

\* The chat is over, or the child agent could not be created: the worker
\* writes its verdict to the slot it was given.
Publish(t) ==
  /\ worker[t] = "chat"
  /\ call[t] = NoCall
  /\ LockFree
  /\ \E st \in {"done", "failed"} : pool' = Finished(pool, home[t], st, t)
  /\ worker' = [worker EXCEPT ![t] = "leaving"]
  /\ UNCHANGED <<nextId, home, call, joiners, answer, waits, exit>>

\* agent_free(child), and the thread returns.
End(t) ==
  /\ worker[t] = "leaving"
  /\ worker' = [worker EXCEPT ![t] = "ended"]
  /\ UNCHANGED <<pool, nextId, home, call, joiners, answer, waits, exit>>

\* subagent_wait with the id t, or without one (t = 0).
WaitMiss(c, t) ==
  /\ MayCall(c) /\ waits[c] < MaxWaits
  /\ Matching(pool, t) = {}
  /\ waits' = [waits EXCEPT ![c] = @ + 1]
  /\ answer' = [answer EXCEPT ![c] = NoAnswer]
  /\ UNCHANGED <<pool, nextId, home, worker, call, joiners, exit>>

WaitOver(c, t) ==
  LET s == First(Matching(pool, t)) IN
  /\ MayCall(c) /\ waits[c] < MaxWaits
  /\ Matching(pool, t) # {}
  /\ pool[s].state # "running"
  /\ waits' = [waits EXCEPT ![c] = @ + 1]
  /\ Answered(c, s, pool[s].id)
  /\ pool' = Cleared(pool, s)
  /\ UNCHANGED <<nextId, home, worker, call, joiners, exit>>

\* Still running: the lock is dropped and the thread joined.  A batch of one
\* tool runs in a thread of its own, so the joiner need not be the agent's.
WaitJoin(c, t) ==
  LET s == First(Matching(pool, t)) IN
  /\ MayCall(c) /\ waits[c] < MaxWaits
  /\ Matching(pool, t) # {}
  /\ pool[s].state = "running"
  /\ waits' = [waits EXCEPT ![c] = @ + 1]
  /\ \E own \in BOOLEAN : call' = [call EXCEPT ![c] =
       [slot |-> s, target |-> pool[s].id, own |-> own,
        legal |-> Legal(c, pool[s].id, own)]]
  /\ joiners' = [joiners EXCEPT ![pool[s].id] = @ + 1]
  /\ UNCHANGED <<pool, nextId, home, worker, answer, exit>>

\* The join returned: lock again, take whatever the slot holds, free it.
WaitCollect(c) ==
  /\ call[c] # NoCall
  /\ Joinable(c)
  /\ Answered(c, call[c].slot, call[c].target)
  /\ pool' = Cleared(pool, call[c].slot)
  /\ call' = [call EXCEPT ![c] = NoCall]
  /\ UNCHANGED <<nextId, home, worker, joiners, waits, exit>>

\* The REPL ends: ui_stop, then subagent_cleanup from the first slot.
Quit ==
  /\ MayCall(Main)
  /\ exit' = [exit EXCEPT !.phase = "cleanup"]
  /\ UNCHANGED <<pool, nextId, home, worker, call, joiners, answer, waits>>

NextSlot == IF exit.at = PoolSize
            THEN [exit EXCEPT !.phase = "over"]
            ELSE [exit EXCEPT !.phase = "cleanup", !.at = @ + 1]

CleanupJoin ==
  /\ exit.phase = "cleanup"
  /\ MustJoin(exit.at)
  /\ exit' = [exit EXCEPT !.phase = "join", !.target = pool[exit.at].id]
  /\ joiners' = [joiners EXCEPT ![pool[exit.at].id] = @ + 1]
  /\ UNCHANGED <<pool, nextId, home, worker, call, answer, waits>>

\* Nothing to join, or joined: free what an active slot holds, go on.
CleanupSlot ==
  /\ \/ exit.phase = "cleanup" /\ ~MustJoin(exit.at)
     \/ exit.phase = "join" /\ (joiners[exit.target] = 1 => Ended(exit.target))
  /\ pool' = IF pool[exit.at].active THEN Cleared(pool, exit.at) ELSE pool
  /\ exit' = NextSlot
  /\ UNCHANGED <<nextId, home, worker, call, joiners, answer, waits>>

\* The process is past the cleanup and its threads have come to rest.
Rest ==
  /\ exit.phase = "over"
  /\ \A t \in Sub : worker[t] \in {"none", "ended"}
  /\ UNCHANGED vars

Next ==
  \/ \E c \in Agent :
       \/ Spawn(c)
       \/ \E t \in Sub \cup {0} : WaitMiss(c, t) \/ WaitOver(c, t) \/ WaitJoin(c, t)
       \/ WaitCollect(c)
  \/ \E t \in Sub : Publish(t) \/ End(t)
  \/ Quit \/ CleanupJoin \/ CleanupSlot \/ Rest

Spec == Init /\ [][Next]_vars

\* Threads run on: a child's chat comes to an end, a join that can return
\* returns, the cleanup goes on.  Nobody is obliged to spawn, wait or quit.
Fairness ==
  /\ \A t \in Sub : WF_vars(Publish(t)) /\ WF_vars(End(t))
  /\ \A c \in Agent : WF_vars(WaitCollect(c))
  /\ WF_vars(CleanupJoin) /\ WF_vars(CleanupSlot)

FairSpec == Spec /\ Fairness
------------------------------------------------------------------------------
\* The pool, the threads, the waits and the way out stay within their types; the
\* cleanup stays within the pool (subagent.c:221).
TypeOK ==
  /\ pool \in [Slot -> [id : 0..MaxSpawns, active : BOOLEAN,
                        state : {"running", "done", "failed"}, result : 0..MaxSpawns]]
  /\ nextId \in 1..(MaxSpawns + 1)
  /\ home \in [Sub -> 0..PoolSize]
  /\ worker \in [Sub -> {"none", "chat", "leaving", "ended"}]
  /\ call \in [Agent -> [slot : 0..PoolSize, target : 0..MaxSpawns,
                         own : BOOLEAN, legal : BOOLEAN]]
  /\ joiners \in [Sub -> Nat]
  /\ answer \in [Agent -> [asked : 0..MaxSpawns, got : 0..MaxSpawns, over : BOOLEAN]]
  /\ waits \in [Agent -> 0..MaxWaits]
  /\ exit \in [phase : {"loop", "cleanup", "join", "over"}, at : Slot,
               target : 0..MaxSpawns]

\* A wait that names or finds a subagent hands back that subagent's own
\* result, and only after it has finished (subagent.c:7, 199-214).
WaitReturnsOwn ==
  \A c \in Agent : LET r == answer[c] IN r.asked # 0 => r.got = r.asked /\ r.over

\* No thread is joined twice, by two waits or by a wait and the cleanup, and none
\* is forgotten: no subagent is still working when the session is saved and the
\* memory is shut down.  All stays within its types, the cleanup within the pool
\* (subagent.c:203-231, main.c:73-78).
JoinedOnce ==
  /\ TypeOK
  /\ \A t \in Sub : joiners[t] <= 1
  /\ exit.phase = "over" => \A t \in Sub : worker[t] # "chat"

\* A finished subagent's result stays in its slot until a wait returns it or
\* the process is on its way out: a spawn never takes the slot over.
ResultKept ==
  [][\A s \in Slot :
       pool[s].active /\ pool[s].state # "running" /\ pool'[s] # pool[s] =>
         \/ exit.phase # "loop"
         \/ \E c \in Agent : answer'[c].asked = pool[s].id
                           /\ answer'[c].got = pool[s].result]_vars

\* Every wait comes back, and leaving the program is never held up for good
\* (subagent.c:203, 226).
NobodyWaitsForever ==
  /\ \A c \in Agent : call[c] # NoCall ~> (call[c] = NoCall \/ exit.phase = "over")
  /\ exit.phase # "loop" ~> exit.phase = "over"
=============================================================================
