-------------------------- MODULE SubagentsProofs ----------------------------
(***************************************************************************)
(* Proofs about Subagents, for every size of the pool and every number of  *)
(* spawns and waits, while the main agent alone calls the subagent tools:  *)
(* every thread is joined once and none outlives the cleanup, a wait hands *)
(* back its own subagent's result, and a spawn overwrites no result.       *)
(***************************************************************************)
EXTENDS Subagents, WellFoundedInduction, TLAPS

\* The slot a pending join is for: a wait's, or the cleanup's.
JoinPending(s) ==
  \/ call[Main] # NoCall /\ call[Main].slot = s
  \/ exit.phase = "join" /\ exit.at = s

\* An active slot is its thread's home.  While it is running the thread is at
\* its chat; afterwards it holds the thread's result.  Nobody has joined the
\* thread but the one about to free the slot.
SlotOwned(s) ==
  pool[s].active =>
    /\ pool[s].id \in Sub /\ pool[s].id < nextId
    /\ home[pool[s].id] = s
    /\ IF pool[s].state = "running" THEN worker[pool[s].id] = "chat"
       ELSE worker[pool[s].id] # "chat" /\ pool[s].result = pool[s].id
    /\ joiners[pool[s].id] = 0 \/ JoinPending(s)

\* A thread at its chat has an active slot, marked running, under its own id.
ChatHoused(t) ==
  worker[t] = "chat" =>
    /\ home[t] \in Slot
    /\ pool[home[t]].active /\ pool[home[t]].id = t /\ pool[home[t]].state = "running"

\* Ids not given out yet have no thread, and nobody has joined one.
Unborn(t) == t >= nextId => worker[t] = "none" /\ joiners[t] = 0

\* The main agent is in a wait only in its loop, the only one to wait for
\* that subagent.
WaitRight ==
  /\ \A c \in Sub : call[c] = NoCall
  /\ call[Main] # NoCall =>
       /\ exit.phase = "loop"
       /\ call[Main].slot \in Slot
       /\ pool[call[Main].slot].active
       /\ pool[call[Main].slot].id = call[Main].target
       /\ call[Main].legal
       /\ joiners[call[Main].target] = 1

\* The cleanup starts at the first slot, has freed the slots behind it, and
\* joins the thread of the slot it is at.
CleanupRight ==
  /\ exit.phase = "loop" => exit.at = 1
  /\ exit.phase # "loop" => \A s \in Slot : s < exit.at => ~pool[s].active
  /\ exit.phase = "over" => \A s \in Slot : ~pool[s].active
  /\ exit.phase = "join" =>
       /\ pool[exit.at].active
       /\ pool[exit.at].id = exit.target
       /\ joiners[exit.target] = 1

IInv ==
  /\ TypeOK
  /\ \A s \in Slot : SlotOwned(s)
  /\ \A t \in Sub : ChatHoused(t) /\ Unborn(t) /\ joiners[t] <= 1
  /\ WaitRight
  /\ CleanupRight
  /\ WaitReturnsOwn
------------------------------------------------------------------------------
\* The actions only the main agent takes: no subagent calls the tools.
LEMMA MainOnly ==
  ASSUME ~SubsMayCall, NEW c \in Agent, MayCall(c)
  PROVE  c = Main /\ call[Main] = NoCall /\ exit.phase = "loop"
BY DEF MayCall

\* A set of slots that is not empty has a first one.
LEMMA FirstIsIn ==
  ASSUME NEW S, S \subseteq Slot, S # {}
  PROVE  First(S) \in S
<1> DEFINE R == {ss \in Nat \X Nat : ss[1] < ss[2]}
<1>1. IsWellFoundedOn(R, Nat)
  BY NatLessThanWellFounded DEF OpToRel
<1>2. S \subseteq Nat
  BY PoolAssumption DEF Slot
<1>3. PICK x \in S : \A y \in S : ~ (<<y, x>> \in R)
  <2> HIDE DEF R
  <2> QED BY <1>1, <1>2, WFMin
<1>4. \A y \in S : x <= y
  <2> SUFFICES ASSUME NEW y \in S PROVE x <= y
    OBVIOUS
  <2>1. <<y, x>> \in Nat \X Nat /\ ~ (<<y, x>> \in R)
    BY <1>2, <1>3
  <2>2. x \in Nat /\ y \in Nat /\ ~(y < x)
    BY <1>2, <2>1
  <2>3. QED
    BY <2>2
<1>5. QED
  BY <1>4 DEF First

LEMMA InitHolds == Init => IInv
<1> SUFFICES ASSUME Init PROVE IInv
  OBVIOUS
<1> USE PoolAssumption
<1>1. TypeOK
  BY DEF Init, TypeOK, FreeSlot, NoCall, NoAnswer, InLoop, NoOutput, Slot, Sub, Main, Agent
<1>2. \A s \in Slot : SlotOwned(s)
  BY DEF Init, SlotOwned, FreeSlot
<1>3. \A t \in Sub : ChatHoused(t) /\ Unborn(t) /\ joiners[t] <= 1
  BY DEF Init, ChatHoused, Unborn
<1>4. WaitRight
  BY DEF Init, WaitRight, Agent
<1>5. CleanupRight
  BY DEF Init, CleanupRight, InLoop
<1>6. WaitReturnsOwn
  BY DEF Init, WaitReturnsOwn, NoAnswer
<1>7. QED
  BY <1>1, <1>2, <1>3, <1>4, <1>5, <1>6 DEF IInv
------------------------------------------------------------------------------
LEMMA SpawnStep ==
  ASSUME ~SubsMayCall, IInv, NEW c \in Agent, Spawn(c)
  PROVE  IInv'
<1> USE PoolAssumption
<1> DEFINE free == {r \in Slot : Usable(pool, r)}
           s    == First(free)
           new  == [id |-> nextId, active |-> TRUE, state |-> "running", result |-> NoOutput]
<1>1. /\ call[Main] = NoCall /\ exit.phase = "loop"
      /\ nextId \in Sub /\ free # {}
      /\ pool' = [pool EXCEPT ![s] = new]
      /\ home' = [home EXCEPT ![nextId] = s]
      /\ worker' = [worker EXCEPT ![nextId] = "chat"]
      /\ nextId' = nextId + 1
      /\ UNCHANGED <<call, joiners, answer, waits, exit>>
  BY MainOnly DEF Spawn
<1>2. s \in Slot /\ ~pool[s].active
  <2>1. s \in free
    BY <1>1, FirstIsIn
  <2>2. QED
    BY <2>1 DEF Usable
<1> HIDE DEF s
<1>3. /\ pool'[s] = new
      /\ \A r \in Slot : r # s => pool'[r] = pool[r]
      /\ home'[nextId] = s /\ worker'[nextId] = "chat"
      /\ \A t \in Sub : t # nextId => home'[t] = home[t] /\ worker'[t] = worker[t]
  BY <1>1, <1>2 DEF IInv, TypeOK
<1>4. TypeOK'
  <2>1. new \in [id : 0..MaxSpawns, active : BOOLEAN,
                 state : {"running", "done", "failed"}, result : 0..MaxSpawns]
    BY <1>1 DEF Sub, NoOutput
  <2> HIDE DEF new
  <2>2. pool' \in [Slot -> [id : 0..MaxSpawns, active : BOOLEAN,
                 state : {"running", "done", "failed"}, result : 0..MaxSpawns]]
    BY <1>1, <1>2, <2>1 DEF IInv, TypeOK
  <2>3. nextId' \in 1..(MaxSpawns + 1)
    BY <1>1 DEF Sub
  <2>4. home' \in [Sub -> 0..PoolSize]
    BY <1>1, <1>2 DEF IInv, TypeOK, Slot
  <2>5. worker' \in [Sub -> {"none", "chat", "leaving", "ended"}]
    BY <1>1 DEF IInv, TypeOK
  <2>6. QED
    BY <1>1, <2>2, <2>3, <2>4, <2>5 DEF IInv, TypeOK
<1>fields. /\ pool'[s].id = nextId /\ pool'[s].active /\ pool'[s].state = "running"
      /\ nextId \in Nat /\ nextId' = nextId + 1
      /\ \A t \in Sub : t \in Nat
  BY <1>1, <1>3 DEF Sub
<1>unborn. worker[nextId] = "none" /\ joiners[nextId] = 0
  BY <1>1, <1>fields DEF IInv, Unborn
<1> HIDE DEF new, free
<1>5. \A r \in Slot : SlotOwned(r)'
  <2> SUFFICES ASSUME NEW r \in Slot PROVE SlotOwned(r)'
    OBVIOUS
  <2>1. CASE r = s
    BY <1>1, <1>3, <1>fields, <1>unborn, <2>1 DEF SlotOwned
  <2>2. CASE r # s
    <3> DEFINE t == pool[r].id
    <3> SUFFICES ASSUME pool[r].active PROVE SlotOwned(r)'
      BY <1>3, <2>2 DEF SlotOwned
    <3>1. t \in Sub /\ t < nextId /\ t # nextId
      BY <1>fields DEF IInv, SlotOwned
    <3>2. t < nextId' /\ home'[t] = home[t] /\ worker'[t] = worker[t] /\ joiners'[t] = joiners[t]
      <4> HIDE DEF t
      <4>1. t < nextId'
        BY <1>fields, <3>1
      <4>2. QED
        BY <1>1, <1>3, <3>1, <4>1
    <3>3. JoinPending(r)' = JoinPending(r)
      BY <1>1 DEF JoinPending
    <3>4. pool'[r] = pool[r]
      BY <1>3, <2>2
    <3>5. QED
      BY <3>1, <3>2, <3>3, <3>4 DEF IInv, SlotOwned
  <2>3. QED
    BY <2>1, <2>2
<1>6. \A t \in Sub : (ChatHoused(t) /\ Unborn(t) /\ joiners[t] <= 1)'
  <2> SUFFICES ASSUME NEW t \in Sub PROVE (ChatHoused(t) /\ Unborn(t) /\ joiners[t] <= 1)'
    OBVIOUS
  <2>1. CASE t = nextId
    BY <1>1, <1>2, <1>3, <1>fields, <1>unborn, <2>1 DEF ChatHoused, Unborn
  <2>2. CASE t # nextId
    <3>1. home'[t] = home[t] /\ worker'[t] = worker[t] /\ joiners'[t] = joiners[t]
      BY <1>1, <1>3, <2>2
    <3>2. Unborn(t)' /\ joiners[t]' <= 1
      BY <1>fields, <2>2, <3>1 DEF IInv, Unborn
    <3>3. ChatHoused(t)'
      <4> SUFFICES ASSUME worker[t] = "chat" PROVE ChatHoused(t)'
        BY <3>1 DEF ChatHoused
      <4>1. /\ home[t] \in Slot /\ pool[home[t]].active
            /\ pool[home[t]].id = t /\ pool[home[t]].state = "running"
        BY DEF IInv, ChatHoused
      <4>2. home[t] # s /\ pool'[home[t]] = pool[home[t]]
        BY <1>2, <1>3, <4>1
      <4>3. QED
        BY <3>1, <4>1, <4>2 DEF ChatHoused
    <3>4. QED
      BY <3>2, <3>3
  <2>3. QED
    BY <2>1, <2>2
<1>7. WaitRight'
  BY <1>1 DEF IInv, WaitRight
<1>8. CleanupRight'
  BY <1>1 DEF IInv, CleanupRight
<1>9. WaitReturnsOwn'
  BY <1>1 DEF IInv, WaitReturnsOwn
<1>10. QED
  BY <1>4, <1>5, <1>6, <1>7, <1>8, <1>9 DEF IInv

LEMMA PublishStep ==
  ASSUME IInv, NEW t \in Sub, Publish(t)
  PROVE  IInv'
<1> USE PoolAssumption
<1> DEFINE s == home[t]
<1>1. PICK st \in {"done", "failed"} : pool' = Finished(pool, s, st, t)
  BY DEF Publish
<1>2. /\ worker[t] = "chat"
      /\ worker' = [worker EXCEPT ![t] = "leaving"]
      /\ UNCHANGED <<nextId, home, call, joiners, answer, waits, exit>>
  BY DEF Publish
<1>3. s \in Slot /\ pool[s].active /\ pool[s].id = t
  BY <1>2 DEF IInv, ChatHoused
<1> HIDE DEF s
<1>4. /\ pool'[s] = [pool[s] EXCEPT !.state = st, !.result = t]
      /\ \A r \in Slot : r # s => pool'[r] = pool[r]
      /\ worker'[t] = "leaving"
      /\ \A u \in Sub : u # t => worker'[u] = worker[u]
  BY <1>1, <1>2, <1>3 DEF IInv, TypeOK, Finished
<1>5. /\ pool'[s].id = t /\ pool'[s].active
      /\ pool'[s].state = st /\ pool'[s].result = t
  <2>1. pool[s] \in [id : 0..MaxSpawns, active : BOOLEAN,
                     state : {"running", "done", "failed"}, result : 0..MaxSpawns]
    BY <1>3 DEF IInv, TypeOK
  <2>2. QED
    BY <1>3, <1>4, <2>1
<1>6. TypeOK'
  <2>1. [pool[s] EXCEPT !.state = st, !.result = t] \in
          [id : 0..MaxSpawns, active : BOOLEAN,
           state : {"running", "done", "failed"}, result : 0..MaxSpawns]
    BY <1>3 DEF IInv, TypeOK, Sub
  <2>2. pool' \in [Slot -> [id : 0..MaxSpawns, active : BOOLEAN,
                 state : {"running", "done", "failed"}, result : 0..MaxSpawns]]
    <3>1. pool' = [pool EXCEPT ![s] = [pool[s] EXCEPT !.state = st, !.result = t]]
      BY <1>1, <1>3, <1>4 DEF IInv, TypeOK, Finished
    <3>2. QED
      BY <1>3, <2>1, <3>1 DEF IInv, TypeOK
  <2>3. worker' \in [Sub -> {"none", "chat", "leaving", "ended"}]
    BY <1>2 DEF IInv, TypeOK
  <2>4. QED
    BY <1>2, <2>2, <2>3 DEF IInv, TypeOK
<1>7. \A r \in Slot : SlotOwned(r)'
  <2> SUFFICES ASSUME NEW r \in Slot PROVE SlotOwned(r)'
    OBVIOUS
  <2>1. CASE r = s
    <3>1. JoinPending(r)' = JoinPending(r)
      BY <1>2 DEF JoinPending
    <3>2. SlotOwned(s)
      BY <1>3 DEF IInv
    <3>3. QED
      BY <1>2, <1>3, <1>4, <1>5, <2>1, <3>1, <3>2 DEF SlotOwned
  <2>2. CASE r # s
    <3>1. pool[r].active => pool[r].id \in Sub /\ pool[r].id # t
      BY <1>3, <2>2 DEF IInv, SlotOwned
    <3>2. QED
      BY <1>2, <1>4, <2>2, <3>1 DEF IInv, SlotOwned, JoinPending
  <2>3. QED
    BY <2>1, <2>2
<1>8. \A u \in Sub : (ChatHoused(u) /\ Unborn(u) /\ joiners[u] <= 1)'
  BY <1>2, <1>3, <1>4 DEF IInv, ChatHoused, Unborn
<1>9. WaitRight'
  BY <1>2, <1>4, <1>5, <1>3 DEF IInv, WaitRight
<1>10. CleanupRight'
  <2>1. \A r \in Slot : (pool'[r].active <=> pool[r].active) /\ pool'[r].id = pool[r].id
    BY <1>3, <1>4, <1>5
  <2>2. exit.at \in Slot
    BY DEF IInv, TypeOK
  <2>3. QED
    BY <1>2, <2>1, <2>2 DEF IInv, CleanupRight
<1>11. WaitReturnsOwn'
  BY <1>2 DEF IInv, WaitReturnsOwn
<1>12. QED
  BY <1>6, <1>7, <1>8, <1>9, <1>10, <1>11 DEF IInv

LEMMA EndStep ==
  ASSUME IInv, NEW t \in Sub, End(t)
  PROVE  IInv'
<1> USE DEF End
<1>1. /\ worker[t] = "leaving" /\ worker'[t] = "ended"
      /\ \A u \in Sub : u # t => worker'[u] = worker[u]
  BY DEF IInv, TypeOK
<1>2. TypeOK'
  BY DEF IInv, TypeOK
<1>3. \A s \in Slot : SlotOwned(s)'
  BY <1>1 DEF IInv, SlotOwned, JoinPending
<1>4. \A u \in Sub : (ChatHoused(u) /\ Unborn(u) /\ joiners[u] <= 1)'
  BY <1>1 DEF IInv, ChatHoused, Unborn
<1>5. WaitRight' /\ CleanupRight' /\ WaitReturnsOwn'
  BY DEF IInv, WaitRight, CleanupRight, WaitReturnsOwn
<1>6. QED
  BY <1>2, <1>3, <1>4, <1>5 DEF IInv

LEMMA WaitMissStep ==
  ASSUME ~SubsMayCall, IInv, NEW c \in Agent, NEW t, WaitMiss(c, t)
  PROVE  IInv'
<1> USE DEF WaitMiss
<1>1. TypeOK'
  <2>1. waits[c] + 1 \in 0..MaxWaits
    BY PoolAssumption DEF IInv, TypeOK
  <2>2. waits' \in [Agent -> 0..MaxWaits]
    BY <2>1 DEF IInv, TypeOK
  <2>3. answer' \in [Agent -> [asked : 0..MaxSpawns, got : 0..MaxSpawns, over : BOOLEAN]]
    BY PoolAssumption DEF IInv, TypeOK, NoAnswer
  <2>4. QED
    BY <2>2, <2>3 DEF IInv, TypeOK
<1>2. \A s \in Slot : SlotOwned(s)'
  BY DEF IInv, SlotOwned, JoinPending
<1>3. \A u \in Sub : (ChatHoused(u) /\ Unborn(u) /\ joiners[u] <= 1)'
  BY DEF IInv, ChatHoused, Unborn
<1>4. WaitRight' /\ CleanupRight'
  BY DEF IInv, WaitRight, CleanupRight
<1>5. WaitReturnsOwn'
  BY DEF IInv, TypeOK, WaitReturnsOwn, NoAnswer
<1>6. QED
  BY <1>1, <1>2, <1>3, <1>4, <1>5 DEF IInv

\* A slot whose subagent is done is freed: the others, and what they say of the
\* threads, stay.
LEMMA SlotFreed ==
  ASSUME IInv, NEW s \in Slot, pool[s].state # "running",
         pool' = Cleared(pool, s), UNCHANGED <<nextId, home, worker, joiners>>,
         \A r \in Slot : r # s /\ JoinPending(r) => JoinPending(r)'
  PROVE  /\ pool' \in [Slot -> [id : 0..MaxSpawns, active : BOOLEAN,
                       state : {"running", "done", "failed"}, result : 0..MaxSpawns]]
         /\ ~pool'[s].active
         /\ \A r \in Slot : r # s => pool'[r] = pool[r]
         /\ \A r \in Slot : SlotOwned(r)'
         /\ \A t \in Sub : (ChatHoused(t) /\ Unborn(t) /\ joiners[t] <= 1)'
<1> DEFINE Rec == [id : 0..MaxSpawns, active : BOOLEAN,
                   state : {"running", "done", "failed"}, result : 0..MaxSpawns]
           idle == [pool[s] EXCEPT !.active = FALSE]
           new  == [idle EXCEPT !.result = NoOutput]
<1>1. pool[s] \in Rec
  BY DEF IInv, TypeOK
<1>2. idle \in Rec /\ ~idle.active
  BY <1>1
<1>freed. new \in Rec /\ ~new.active
  <2> HIDE DEF idle
  <2>1. new \in Rec
    BY <1>2, PoolAssumption DEF NoOutput
  <2>2. new.active = idle.active
    BY <1>2
  <2>3. QED
    BY <1>2, <2>1, <2>2
<1>3. pool' = [pool EXCEPT ![s] = new]
  BY DEF IInv, TypeOK, Cleared
<1> HIDE DEF new
<1>4. /\ pool' \in [Slot -> [id : 0..MaxSpawns, active : BOOLEAN,
                    state : {"running", "done", "failed"}, result : 0..MaxSpawns]]
      /\ ~pool'[s].active
      /\ \A r \in Slot : r # s => pool'[r] = pool[r]
  BY <1>freed, <1>3 DEF IInv, TypeOK
<1>5. \A r \in Slot : SlotOwned(r)'
  <2> SUFFICES ASSUME NEW r \in Slot, r # s PROVE SlotOwned(r)'
    BY <1>4 DEF SlotOwned
  <2>1. pool'[r] = pool[r] /\ (JoinPending(r) => JoinPending(r)')
    BY <1>4
  <2>2. QED
    BY <2>1 DEF IInv, SlotOwned
<1>6. \A t \in Sub : (ChatHoused(t) /\ Unborn(t) /\ joiners[t] <= 1)'
  BY <1>4 DEF IInv, ChatHoused, Unborn
<1>7. QED
  BY <1>4, <1>5, <1>6

\* The result a done subagent's slot holds is the subagent's own.
LEMMA OwnResult ==
  ASSUME IInv, NEW s \in Slot, pool[s].active, pool[s].state # "running"
  PROVE  pool[s].result = pool[s].id /\ pool[s].id \in Sub /\ worker[pool[s].id] # "chat"
BY DEF IInv, SlotOwned

\* A wait answered with a done subagent's result leaves the answers right.
LEMMA AnswerRight ==
  ASSUME IInv, NEW c \in Agent, NEW s \in Slot, pool[s].active,
         pool[s].state # "running", Answered(c, s, pool[s].id)
  PROVE  /\ answer' \in [Agent -> [asked : 0..MaxSpawns, got : 0..MaxSpawns, over : BOOLEAN]]
         /\ answer'[c] = [asked |-> pool[s].id, got |-> pool[s].result, over |-> TRUE]
         /\ WaitReturnsOwn'
<1> DEFINE a == [asked |-> pool[s].id, got |-> pool[s].result, over |-> TRUE]
<1>1. pool[s].result = pool[s].id /\ pool[s].id \in Sub /\ worker[pool[s].id] # "chat"
  BY OwnResult
<1>2. (worker[pool[s].id] # "chat") = TRUE
  BY <1>1
<1>3. answer' = [answer EXCEPT ![c] = a]
  BY <1>2 DEF Answered
<1>4. a \in [asked : 0..MaxSpawns, got : 0..MaxSpawns, over : BOOLEAN]
  BY <1>1, PoolAssumption DEF Sub
<1>5. a.got = a.asked /\ a.over
  BY <1>1
<1> HIDE DEF a
<1>6. /\ answer' \in [Agent -> [asked : 0..MaxSpawns, got : 0..MaxSpawns, over : BOOLEAN]]
      /\ answer'[c] = a
      /\ \A d \in Agent : d # c => answer'[d] = answer[d]
  BY <1>3, <1>4 DEF IInv, TypeOK
<1>7. WaitReturnsOwn'
  BY <1>5, <1>6 DEF IInv, WaitReturnsOwn
<1>8. QED
  BY <1>6, <1>7 DEF a

LEMMA WaitOverStep ==
  ASSUME ~SubsMayCall, IInv, NEW c \in Agent, NEW t, WaitOver(c, t)
  PROVE  IInv'
<1> DEFINE s == First(Matching(pool, t))
<1>1. /\ call[Main] = NoCall /\ exit.phase = "loop" /\ waits[c] < MaxWaits
      /\ Matching(pool, t) # {} /\ pool[s].state # "running"
      /\ waits' = [waits EXCEPT ![c] = @ + 1]
      /\ Answered(c, s, pool[s].id) /\ pool' = Cleared(pool, s)
      /\ UNCHANGED <<nextId, home, worker, call, joiners, exit>>
  BY MainOnly DEF WaitOver
<1>2. s \in Slot /\ pool[s].active
  <2>1. Matching(pool, t) \subseteq {r \in Slot : pool[r].active}
    BY DEF Matching
  <2>2. s \in Matching(pool, t)
    BY <1>1, <2>1, FirstIsIn
  <2>3. QED
    BY <2>1, <2>2
<1> HIDE DEF s
<1>3. \A r \in Slot : JoinPending(r) => JoinPending(r)'
  BY <1>1 DEF JoinPending
<1>4. /\ pool' \in [Slot -> [id : 0..MaxSpawns, active : BOOLEAN,
                    state : {"running", "done", "failed"}, result : 0..MaxSpawns]]
      /\ ~pool'[s].active
      /\ \A r \in Slot : r # s => pool'[r] = pool[r]
      /\ \A r \in Slot : SlotOwned(r)'
      /\ \A u \in Sub : (ChatHoused(u) /\ Unborn(u) /\ joiners[u] <= 1)'
  BY <1>1, <1>2, <1>3, SlotFreed
<1>5. TypeOK' /\ WaitReturnsOwn'
  <2>1. waits[c] + 1 \in 0..MaxWaits
    BY <1>1, PoolAssumption DEF IInv, TypeOK
  <2>2. waits' \in [Agent -> 0..MaxWaits]
    BY <1>1, <2>1 DEF IInv, TypeOK
  <2>3. /\ answer' \in [Agent -> [asked : 0..MaxSpawns, got : 0..MaxSpawns, over : BOOLEAN]]
        /\ WaitReturnsOwn'
    BY <1>1, <1>2, AnswerRight
  <2>4. QED
    BY <1>1, <1>4, <2>2, <2>3 DEF IInv, TypeOK
<1>6. WaitRight' /\ CleanupRight'
  BY <1>1 DEF IInv, WaitRight, CleanupRight
<1>7. QED
  BY <1>4, <1>5, <1>6 DEF IInv

LEMMA WaitJoinStep ==
  ASSUME ~SubsMayCall, IInv, NEW c \in Agent, NEW t, WaitJoin(c, t)
  PROVE  IInv'
<1> DEFINE s == First(Matching(pool, t))
           u == pool[s].id
<1>1. /\ c = Main /\ call[Main] = NoCall /\ exit.phase = "loop" /\ waits[c] < MaxWaits
      /\ Matching(pool, t) # {} /\ pool[s].state = "running"
      /\ waits' = [waits EXCEPT ![c] = @ + 1]
      /\ joiners' = [joiners EXCEPT ![u] = @ + 1]
      /\ UNCHANGED <<pool, nextId, home, worker, answer, exit>>
  BY MainOnly DEF WaitJoin
<1>2. PICK own \in BOOLEAN :
        call' = [call EXCEPT ![c] =
                   [slot |-> s, target |-> u, own |-> own, legal |-> Legal(c, u, own)]]
  BY DEF WaitJoin
<1>3. s \in Slot /\ pool[s].active
  <2>1. Matching(pool, t) \subseteq {r \in Slot : pool[r].active}
    BY DEF Matching
  <2>2. s \in Matching(pool, t)
    BY <1>1, <2>1, FirstIsIn
  <2>3. QED
    BY <2>1, <2>2
<1>4. u \in Sub /\ u < nextId /\ home[u] = s /\ joiners[u] = 0
  BY <1>1, <1>3 DEF IInv, SlotOwned, JoinPending
<1>5. Legal(c, u, own) = TRUE
  BY <1>1, <1>4 DEF IInv, WaitRight, Legal, NoCall, Main, Sub
<1> DEFINE new == [slot |-> s, target |-> u, own |-> own, legal |-> TRUE]
<1>6. /\ new \in [slot : 0..PoolSize, target : 0..MaxSpawns, own : BOOLEAN, legal : BOOLEAN]
      /\ new.slot = s /\ new.target = u /\ new.legal /\ new # NoCall
  BY <1>3, <1>4, PoolAssumption DEF Slot, Sub, NoCall
<1>7. call' = [call EXCEPT ![c] = new]
  BY <1>2, <1>5
<1> HIDE DEF s, u, new
<1>8. /\ call' \in [Agent -> [slot : 0..PoolSize, target : 0..MaxSpawns,
                              own : BOOLEAN, legal : BOOLEAN]]
      /\ call'[Main] = new
      /\ \A d \in Sub : call'[d] = call[d]
  <2>1. Main \in Agent /\ \A d \in Sub : d \in Agent /\ d # Main
    BY DEF Agent, Main, Sub
  <2>2. QED
    BY <1>1, <1>6, <1>7, <2>1 DEF IInv, TypeOK
<1>9. /\ joiners' \in [Sub -> Nat] /\ joiners'[u] = 1
      /\ \A v \in Sub : v # u => joiners'[v] = joiners[v]
  BY <1>1, <1>4 DEF IInv, TypeOK
<1>10. TypeOK'
  <2>1. waits[c] + 1 \in 0..MaxWaits
    BY <1>1, PoolAssumption DEF IInv, TypeOK
  <2>2. waits' \in [Agent -> 0..MaxWaits]
    BY <1>1, <2>1 DEF IInv, TypeOK
  <2>3. QED
    BY <1>1, <1>8, <1>9, <2>2 DEF IInv, TypeOK
<1>11. \A r \in Slot : SlotOwned(r)'
  <2> SUFFICES ASSUME NEW r \in Slot, pool[r].active PROVE SlotOwned(r)'
    BY <1>1 DEF SlotOwned
  <2>1. CASE r = s
    <3>1. call'[Main] # NoCall /\ call'[Main].slot = r
      BY <1>6, <1>8, <2>1
    <3>2. JoinPending(r)'
      BY <3>1 DEF JoinPending
    <3>3. SlotOwned(r)
      BY DEF IInv
    <3>4. QED
      BY <1>1, <3>2, <3>3 DEF SlotOwned
  <2>2. CASE r # s
    <3>1. SlotOwned(r)
      BY DEF IInv
    <3>2. pool[r].id \in Sub /\ pool[r].id # u
      BY <1>4, <2>2, <3>1 DEF SlotOwned
    <3>3. ~JoinPending(r)
      BY <1>1 DEF JoinPending
    <3>4. joiners'[pool[r].id] = 0 /\ joiners[pool[r].id] = 0
      BY <1>9, <3>1, <3>2, <3>3 DEF SlotOwned
    <3>5. QED
      BY <1>1, <3>1, <3>4 DEF SlotOwned
  <2>3. QED
    BY <2>1, <2>2
<1>12. \A v \in Sub : (ChatHoused(v) /\ Unborn(v) /\ joiners[v] <= 1)'
  <2> SUFFICES ASSUME NEW v \in Sub PROVE (ChatHoused(v) /\ Unborn(v) /\ joiners[v] <= 1)'
    OBVIOUS
  <2>1. CASE v = u
    <3>1. ~(v >= nextId)
      BY <1>4, <2>1 DEF IInv, TypeOK, Sub
    <3>2. QED
      BY <1>1, <1>9, <2>1, <3>1 DEF IInv, ChatHoused, Unborn
  <2>2. CASE v # u
    BY <1>1, <1>9, <2>2 DEF IInv, ChatHoused, Unborn
  <2>3. QED
    BY <2>1, <2>2
<1>13. WaitRight'
  <2>1. u = pool[s].id
    BY DEF u
  <2>2. QED
    BY <1>1, <1>3, <1>6, <1>8, <1>9, <2>1 DEF IInv, WaitRight
<1>14. CleanupRight' /\ WaitReturnsOwn'
  BY <1>1 DEF IInv, CleanupRight, WaitReturnsOwn
<1>15. QED
  BY <1>10, <1>11, <1>12, <1>13, <1>14 DEF IInv

LEMMA WaitCollectStep ==
  ASSUME IInv, NEW c \in Agent, WaitCollect(c)
  PROVE  IInv'
<1> DEFINE s == call[c].slot
<1>1. c = Main
  BY DEF WaitCollect, IInv, WaitRight, Agent
<1>2. /\ exit.phase = "loop" /\ s \in Slot /\ pool[s].active
      /\ call[c].target = pool[s].id /\ Ended(pool[s].id)
  BY <1>1 DEF WaitCollect, IInv, WaitRight, Joinable
<1>3. /\ Answered(c, s, pool[s].id)
      /\ pool' = Cleared(pool, s)
      /\ call' = [call EXCEPT ![c] = NoCall]
      /\ UNCHANGED <<nextId, home, worker, joiners, waits, exit>>
  BY <1>2 DEF WaitCollect
<1> HIDE DEF s
<1>4. pool[s].state # "running"
  BY <1>2 DEF IInv, SlotOwned, Ended
<1>5. \A r \in Slot : r # s /\ JoinPending(r) => JoinPending(r)'
  BY <1>1, <1>2 DEF JoinPending, s
<1>6. /\ pool' \in [Slot -> [id : 0..MaxSpawns, active : BOOLEAN,
                    state : {"running", "done", "failed"}, result : 0..MaxSpawns]]
      /\ \A r \in Slot : SlotOwned(r)'
      /\ \A u \in Sub : (ChatHoused(u) /\ Unborn(u) /\ joiners[u] <= 1)'
  BY <1>2, <1>3, <1>4, <1>5, SlotFreed
<1>7. /\ call' \in [Agent -> [slot : 0..PoolSize, target : 0..MaxSpawns,
                              own : BOOLEAN, legal : BOOLEAN]]
      /\ \A d \in Agent : call'[d] = NoCall
  <2>1. NoCall \in [slot : 0..PoolSize, target : 0..MaxSpawns, own : BOOLEAN, legal : BOOLEAN]
    BY PoolAssumption DEF NoCall
  <2>2. \A d \in Agent : d # c => call[d] = NoCall
    BY <1>1 DEF IInv, WaitRight, Agent
  <2>3. QED
    BY <1>3, <2>1, <2>2 DEF IInv, TypeOK
<1>8. /\ answer' \in [Agent -> [asked : 0..MaxSpawns, got : 0..MaxSpawns, over : BOOLEAN]]
      /\ WaitReturnsOwn'
  BY <1>2, <1>3, <1>4, AnswerRight
<1>9. TypeOK'
  BY <1>3, <1>6, <1>7, <1>8 DEF IInv, TypeOK
<1>10. WaitRight'
  BY <1>7 DEF WaitRight, Agent
<1>11. CleanupRight'
  BY <1>2, <1>3 DEF IInv, CleanupRight
<1>12. QED
  BY <1>6, <1>8, <1>9, <1>10, <1>11 DEF IInv

LEMMA QuitStep ==
  ASSUME ~SubsMayCall, IInv, Quit
  PROVE  IInv'
<1>1. /\ call[Main] = NoCall /\ exit.phase = "loop"
      /\ exit' = [exit EXCEPT !.phase = "cleanup"]
      /\ UNCHANGED <<pool, nextId, home, worker, call, joiners, answer, waits>>
  BY DEF Quit, MayCall
<1>2. TypeOK'
  BY <1>1 DEF IInv, TypeOK
<1>3. exit'.phase = "cleanup" /\ exit'.at = exit.at
  BY <1>1 DEF IInv, TypeOK
<1>4. \A s \in Slot : SlotOwned(s)'
  BY <1>1 DEF IInv, SlotOwned, JoinPending
<1>5. \A t \in Sub : (ChatHoused(t) /\ Unborn(t) /\ joiners[t] <= 1)'
  BY <1>1 DEF IInv, ChatHoused, Unborn
<1>6. WaitRight' /\ WaitReturnsOwn'
  BY <1>1 DEF IInv, WaitRight, WaitReturnsOwn
<1>7. CleanupRight'
  <2>1. \A s \in Slot : ~(s < 1)
    BY PoolAssumption DEF Slot
  <2>2. QED
    BY <1>1, <1>3, <2>1 DEF IInv, CleanupRight
<1>8. QED
  BY <1>2, <1>4, <1>5, <1>6, <1>7 DEF IInv

LEMMA CleanupJoinStep ==
  ASSUME IInv, CleanupJoin
  PROVE  IInv'
<1> DEFINE s == exit.at
           u == pool[s].id
<1>1. /\ exit.phase = "cleanup" /\ MustJoin(s)
      /\ exit' = [exit EXCEPT !.phase = "join", !.target = u]
      /\ joiners' = [joiners EXCEPT ![u] = @ + 1]
      /\ UNCHANGED <<pool, nextId, home, worker, call, answer, waits>>
  BY DEF CleanupJoin
<1>2. s \in Slot /\ pool[s].active /\ call[Main] = NoCall
  BY <1>1 DEF IInv, TypeOK, MustJoin, WaitRight
<1>3. u \in Sub /\ u < nextId /\ home[u] = s /\ joiners[u] = 0
  BY <1>1, <1>2 DEF IInv, SlotOwned, JoinPending
<1>4. /\ exit' \in [phase : {"loop", "cleanup", "join", "over"}, at : Slot,
                    target : 0..MaxSpawns]
      /\ exit'.phase = "join" /\ exit'.at = s /\ exit'.target = u
  <2>1. exit \in [phase : {"loop", "cleanup", "join", "over"}, at : Slot,
                  target : 0..MaxSpawns]
    BY DEF IInv, TypeOK
  <2>2. u \in 0..MaxSpawns
    BY <1>3, PoolAssumption DEF Sub
  <2> HIDE DEF u
  <2>3. QED
    BY <1>1, <2>1, <2>2
<1> HIDE DEF s, u
<1>5. /\ joiners' \in [Sub -> Nat] /\ joiners'[u] = 1
      /\ \A v \in Sub : v # u => joiners'[v] = joiners[v]
  BY <1>1, <1>3 DEF IInv, TypeOK
<1>6. TypeOK'
  BY <1>1, <1>4, <1>5 DEF IInv, TypeOK
<1>7. \A r \in Slot : SlotOwned(r)'
  <2> SUFFICES ASSUME NEW r \in Slot, pool[r].active PROVE SlotOwned(r)'
    BY <1>1 DEF SlotOwned
  <2>1. SlotOwned(r)
    BY DEF IInv
  <2>2. CASE r = s
    <3>1. JoinPending(r)'
      BY <1>4, <2>2 DEF JoinPending
    <3>2. QED
      BY <1>1, <2>1, <3>1 DEF SlotOwned
  <2>3. CASE r # s
    <3>1. ~JoinPending(r)
      BY <1>1, <1>2 DEF JoinPending
    <3>2. pool[r].id \in Sub /\ pool[r].id # u
      BY <1>3, <2>1, <2>3 DEF SlotOwned
    <3>3. joiners'[pool[r].id] = 0
      BY <1>5, <2>1, <3>1, <3>2 DEF SlotOwned
    <3>4. QED
      BY <1>1, <2>1, <3>3 DEF SlotOwned
  <2>4. QED
    BY <2>2, <2>3
<1>8. \A v \in Sub : (ChatHoused(v) /\ Unborn(v) /\ joiners[v] <= 1)'
  <2> SUFFICES ASSUME NEW v \in Sub PROVE (ChatHoused(v) /\ Unborn(v) /\ joiners[v] <= 1)'
    OBVIOUS
  <2>1. CASE v = u
    <3>1. ~(v >= nextId)
      BY <1>3, <2>1 DEF IInv, TypeOK, Sub
    <3>2. QED
      BY <1>1, <1>5, <2>1, <3>1 DEF IInv, ChatHoused, Unborn
  <2>2. CASE v # u
    BY <1>1, <1>5, <2>2 DEF IInv, ChatHoused, Unborn
  <2>3. QED
    BY <2>1, <2>2
<1>9. CleanupRight'
  <2>1. u = pool[s].id /\ s = exit.at
    BY DEF u, s
  <2>2. QED
    BY <1>1, <1>2, <1>4, <1>5, <2>1 DEF IInv, CleanupRight
<1>10. WaitRight' /\ WaitReturnsOwn'
  BY <1>1, <1>2 DEF IInv, WaitRight, WaitReturnsOwn
<1>11. QED
  BY <1>6, <1>7, <1>8, <1>9, <1>10 DEF IInv

LEMMA CleanupSlotStep ==
  ASSUME IInv, CleanupSlot
  PROVE  IInv'
<1> DEFINE s == exit.at
<1>1. /\ exit.phase \in {"cleanup", "join"} /\ call[Main] = NoCall /\ s \in Slot
      /\ pool' = IF pool[s].active THEN Cleared(pool, s) ELSE pool
      /\ exit' = NextSlot
      /\ UNCHANGED <<nextId, home, worker, call, joiners, answer, waits>>
  BY DEF CleanupSlot, IInv, TypeOK, WaitRight
<1>2. pool[s].active => pool[s].state # "running"
  <2>1. CASE exit.phase = "cleanup"
    BY <2>1 DEF CleanupSlot, MustJoin
  <2>2. CASE exit.phase = "join"
    <3>1. pool[s].active /\ pool[s].id = exit.target /\ Ended(pool[s].id)
      BY <2>2 DEF IInv, CleanupRight, CleanupSlot
    <3>2. SlotOwned(s)
      BY <1>1 DEF IInv
    <3>3. QED
      BY <3>1, <3>2 DEF SlotOwned, Ended
  <2>3. QED
    BY <1>1, <2>1, <2>2
<1>3. /\ exit' \in [phase : {"loop", "cleanup", "join", "over"}, at : Slot,
                    target : 0..MaxSpawns]
      /\ \/ exit'.phase = "over" /\ s = PoolSize
         \/ exit'.phase = "cleanup" /\ exit'.at = s + 1
  <2>1. exit \in [phase : {"loop", "cleanup", "join", "over"}, at : Slot,
                  target : 0..MaxSpawns]
    BY DEF IInv, TypeOK
  <2>2. CASE s = PoolSize
    BY <1>1, <2>1, <2>2 DEF NextSlot
  <2>3. CASE s # PoolSize
    <3>1. s + 1 \in Slot
      BY <1>1, <2>3, PoolAssumption DEF Slot
    <3>2. exit' = [exit EXCEPT !.phase = "cleanup", !.at = s + 1]
      BY <1>1, <2>3 DEF NextSlot
    <3> DEFINE next == s + 1
    <3> HIDE DEF next
    <3>3. exit' = [exit EXCEPT !.phase = "cleanup", !.at = next] /\ next \in Slot
      BY <3>1, <3>2 DEF next
    <3>4. /\ exit' \in [phase : {"loop", "cleanup", "join", "over"}, at : Slot,
                        target : 0..MaxSpawns]
          /\ exit'.phase = "cleanup" /\ exit'.at = next
      BY <2>1, <3>3
    <3>5. QED
      BY <3>4 DEF next
  <2>4. QED
    BY <2>2, <2>3
<1> HIDE DEF s
<1>4. \A r \in Slot : r # s /\ JoinPending(r) => JoinPending(r)'
  BY <1>1 DEF JoinPending, s
<1>5. /\ pool' \in [Slot -> [id : 0..MaxSpawns, active : BOOLEAN,
                    state : {"running", "done", "failed"}, result : 0..MaxSpawns]]
      /\ ~pool'[s].active
      /\ \A r \in Slot : r # s => pool'[r] = pool[r]
      /\ \A r \in Slot : SlotOwned(r)'
      /\ \A t \in Sub : (ChatHoused(t) /\ Unborn(t) /\ joiners[t] <= 1)'
  <2>1. CASE pool[s].active
    BY <1>1, <1>2, <1>4, <2>1, SlotFreed
  <2>2. CASE ~pool[s].active
    <3>1. pool' = pool
      BY <1>1, <2>2
    <3>2. \A r \in Slot : SlotOwned(r)'
      BY <1>1, <1>4, <2>2, <3>1 DEF IInv, SlotOwned
    <3>3. \A t \in Sub : (ChatHoused(t) /\ Unborn(t) /\ joiners[t] <= 1)'
      BY <1>1, <3>1 DEF IInv, ChatHoused, Unborn
    <3>4. QED
      BY <2>2, <3>1, <3>2, <3>3 DEF IInv, TypeOK
  <2>3. QED
    BY <2>1, <2>2
<1>6. TypeOK'
  BY <1>1, <1>3, <1>5 DEF IInv, TypeOK
<1>7. CleanupRight'
  <2>1. \A r \in Slot : r <= s => ~pool'[r].active
    <3> SUFFICES ASSUME NEW r \in Slot, r <= s, r # s PROVE ~pool'[r].active
      BY <1>5
    <3>1. r < exit.at
      BY <1>1 DEF Slot, s
    <3>2. QED
      BY <1>1, <1>5, <3>1 DEF IInv, CleanupRight
  <2>2. CASE exit'.phase = "over" /\ s = PoolSize
    <3>1. \A r \in Slot : ~pool'[r].active
      BY <2>1, <2>2, PoolAssumption DEF Slot
    <3>2. QED
      BY <2>2, <3>1 DEF CleanupRight
  <2>3. CASE exit'.phase = "cleanup" /\ exit'.at = s + 1
    <3>1. \A r \in Slot : r < exit'.at => r <= s
      BY <1>1, <2>3, PoolAssumption DEF Slot
    <3>2. QED
      BY <2>1, <2>3, <3>1 DEF CleanupRight
  <2>4. QED
    BY <1>3, <2>2, <2>3
<1>8. WaitRight' /\ WaitReturnsOwn'
  BY <1>1 DEF IInv, WaitRight, WaitReturnsOwn
<1>9. QED
  BY <1>5, <1>6, <1>7, <1>8 DEF IInv

LEMMA NothingChanged == ASSUME IInv, UNCHANGED vars PROVE IInv'
<1> USE DEF vars
<1>1. TypeOK' /\ WaitReturnsOwn' /\ WaitRight' /\ CleanupRight'
  BY DEF IInv, TypeOK, WaitReturnsOwn, WaitRight, CleanupRight
<1>2. \A s \in Slot : SlotOwned(s)'
  BY DEF IInv, SlotOwned, JoinPending
<1>3. \A t \in Sub : (ChatHoused(t) /\ Unborn(t) /\ joiners[t] <= 1)'
  BY DEF IInv, ChatHoused, Unborn
<1>4. QED
  BY <1>1, <1>2, <1>3 DEF IInv

LEMMA NextHolds ==
  ASSUME ~SubsMayCall
  PROVE  IInv /\ [Next]_vars => IInv'
<1> SUFFICES ASSUME IInv, [Next]_vars PROVE IInv'
  OBVIOUS
<1>1. CASE \E c \in Agent : Spawn(c)
  BY <1>1, SpawnStep
<1>2. CASE \E c \in Agent, t \in Sub \cup {0} :
             WaitMiss(c, t) \/ WaitOver(c, t) \/ WaitJoin(c, t)
  BY <1>2, WaitMissStep, WaitOverStep, WaitJoinStep
<1>3. CASE \E c \in Agent : WaitCollect(c)
  BY <1>3, WaitCollectStep
<1>4. CASE \E t \in Sub : Publish(t) \/ End(t)
  BY <1>4, PublishStep, EndStep
<1>5. CASE Quit \/ CleanupJoin \/ CleanupSlot
  BY <1>5, QuitStep, CleanupJoinStep, CleanupSlotStep
<1>6. CASE Rest \/ UNCHANGED vars
  BY <1>6, NothingChanged DEF Rest
<1>7. QED
  BY <1>1, <1>2, <1>3, <1>4, <1>5, <1>6 DEF Next

LEMMA Invariance == ASSUME ~SubsMayCall PROVE Spec => []IInv
BY InitHolds, NextHolds, PTL DEF Spec
------------------------------------------------------------------------------
\* No thread is joined twice, by two waits or by a wait and the cleanup, and no
\* subagent is still at its chat once subagent_cleanup is done; the pool, the
\* threads and the way out keep their types (subagent.c:203-231).
THEOREM ThreadsJoinedOnce ==
  ASSUME ~SubsMayCall
  PROVE  Spec => []JoinedOnce
<1>1. IInv => JoinedOnce
  BY DEF IInv, JoinedOnce, ChatHoused, CleanupRight
<1>2. QED
  BY <1>1, Invariance, PTL

\* subagent_wait returns the result of the subagent it was asked for, or found,
\* and only once that one has finished (subagent.c:199-214).
THEOREM WaitIsAnswered ==
  ASSUME ~SubsMayCall
  PROVE  Spec => []WaitReturnsOwn
<1>1. IInv => WaitReturnsOwn
  BY DEF IInv
<1>2. QED
  BY <1>1, Invariance, PTL

\* subagent_spawn takes no slot that still holds a result: such a slot changes
\* only when a wait hands out its result, or once the program is on its way
\* out (subagent.c:131-133, 214).
THEOREM ResultsAreKept ==
  ASSUME ~SubsMayCall
  PROVE  Spec => ResultKept
<1> DEFINE Kept == \A s \in Slot :
              pool[s].active /\ pool[s].state # "running" /\ pool'[s] # pool[s] =>
                \/ exit.phase # "loop"
                \/ \E c \in Agent : answer'[c].asked = pool[s].id
                                  /\ answer'[c].got = pool[s].result
<1>1. IInv /\ [Next]_vars => Kept
  <2> SUFFICES ASSUME IInv, [Next]_vars, exit.phase = "loop",
                      NEW s \in Slot, pool[s].active, pool[s].state # "running",
                      pool'[s] # pool[s]
               PROVE  \E c \in Agent : answer'[c].asked = pool[s].id
                                     /\ answer'[c].got = pool[s].result
    OBVIOUS
  <2>1. CASE \E c \in Agent : Spawn(c)
    <3>1. PICK c \in Agent : Spawn(c)
      BY <2>1
    <3> DEFINE free == {r \in Slot : Usable(pool, r)}
               new  == [id |-> nextId, active |-> TRUE, state |-> "running",
                        result |-> NoOutput]
    <3>2. free # {} /\ pool' = [pool EXCEPT ![First(free)] = new]
      BY <3>1 DEF Spawn
    <3>3. First(free) \in free
      BY <3>2, FirstIsIn
    <3>4. First(free) # s
      BY <3>3 DEF Usable
    <3> HIDE DEF free, new
    <3>5. QED
      BY <3>2, <3>4 DEF IInv, TypeOK
  <2>2. CASE \E c \in Agent, t \in Sub \cup {0} : WaitOver(c, t)
    <3>1. PICK c \in Agent, t \in Sub \cup {0} : WaitOver(c, t)
      BY <2>2
    <3> DEFINE r == First(Matching(pool, t))
    <3>2. /\ Matching(pool, t) # {} /\ pool[r].state # "running"
          /\ Answered(c, r, pool[r].id) /\ pool' = Cleared(pool, r)
      BY <3>1 DEF WaitOver
    <3>3. r = s
      <4> HIDE DEF r
      <4>1. r # s => pool'[s] = pool[s]
        BY <3>2 DEF IInv, TypeOK, Cleared
      <4>2. QED
        BY <4>1
    <3> HIDE DEF r
    <3>4. answer'[c] = [asked |-> pool[s].id, got |-> pool[s].result, over |-> TRUE]
      BY <3>2, <3>3, AnswerRight
    <3>5. QED
      BY <3>4
  <2>3. CASE \E c \in Agent : WaitCollect(c)
    <3>1. PICK c \in Agent : WaitCollect(c)
      BY <2>3
    <3> DEFINE r == call[c].slot
    <3>2. c = Main /\ r \in Slot /\ call[c].target = pool[r].id
      BY <3>1 DEF WaitCollect, IInv, WaitRight, Agent
    <3>3. Answered(c, r, pool[r].id) /\ pool' = Cleared(pool, r)
      BY <3>1, <3>2 DEF WaitCollect
    <3> HIDE DEF r
    <3>4. r = s
      <4>1. r # s => pool'[s] = pool[s]
        BY <3>3 DEF IInv, TypeOK, Cleared
      <4>2. QED
        BY <4>1
    <3>5. answer'[c] = [asked |-> pool[s].id, got |-> pool[s].result, over |-> TRUE]
      BY <3>3, <3>4, AnswerRight
    <3>6. QED
      BY <3>5
  <2>4. CASE \E t \in Sub : Publish(t)
    <3>1. PICK t \in Sub : Publish(t)
      BY <2>4
    <3>2. home[t] # s
      BY <3>1 DEF Publish, IInv, ChatHoused
    <3>3. PICK st \in {"done", "failed"} : pool' = Finished(pool, home[t], st, t)
      BY <3>1 DEF Publish
    <3>4. pool'[s] = pool[s]
      BY <3>2, <3>3 DEF IInv, TypeOK, Finished
    <3>5. QED
      BY <3>4
  <2>5. CASE CleanupSlot
    BY <2>5 DEF CleanupSlot
  <2>6. CASE UNCHANGED pool
    BY <2>6
  <2>7. QED
    BY <2>1, <2>2, <2>3, <2>4, <2>5, <2>6
    DEF Next, vars, WaitMiss, WaitJoin, End, Quit, CleanupJoin, Rest
<1>2. IInv /\ [Next]_vars => [Kept]_vars
  BY <1>1
<1>3. QED
  BY <1>2, Invariance, PTL DEF Spec, ResultKept
==============================================================================
