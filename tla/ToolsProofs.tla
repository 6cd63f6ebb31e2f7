------------------------------ MODULE ToolsProofs ------------------------------
(***************************************************************************)
(* Proofs about the tools that run programs (Subprocess), for any number   *)
(* of calls and pipes of any size, and about the one of them that installs *)
(* skills (Skills), for any number of agents and any skills: a call that   *)
(* had the directories to itself and succeeds has put the whole package in *)
(* place, a whole skill is only touched by a forced call that names it,    *)
(* and every listed skill is the one that is loaded.                       *)
(***************************************************************************)
EXTENDS Subprocess, Skills, TLAPS

\* The pieces of its program's output that a call has read.
Taken(c) == out[c] - todo[c] - pipe[c]

\* Nothing more will come through the pipe of a call.
Drained(c) == pipe[c] = 0 /\ ~ChildRuns(c)

\* The ends of its pipe that the agent has open, and the child that holds another.
EndsOpen(c) ==
  /\ c \in reads[Agent] <=> pc[c] \in {"fork", "forked", "reading", "read"}
  /\ pc[c] \in {"fork", "forked"} => c \in writes[Agent]
  /\ ChildRuns(c) => c \in writes[c]

\* A child is there from the fork to waitpid; one that ends of itself has written
\* all, and only what a short function reads is cut off.
ChildStage(c) ==
  /\ pc[c] \in {"start", "fork"} => child[c] = "none" /\ result[c] = "none"
  /\ pc[c] = "done" => child[c] \in {"none", "reaped"}
  /\ pc[c] \in {"forked", "reading", "read", "wait"} => result[c] = "none"
  /\ child[c] = "none" => todo[c] = 0 /\ pipe[c] = 0 /\ out[c] = 0 /\ got[c] = 0
  /\ child[c] \in {"clean", "failed"} => todo[c] = 0
  /\ child[c] = "broken" => func[c] \in Short
  /\ result[c] = "ok" => pc[c] = "done" /\ child[c] = "reaped" /\ todo[c] = 0

\* What is kept is what was read, up to the cap; and the loop is left where there is
\* nothing to come, or the function wants no more.
Account(c) ==
  /\ Taken(c) >= 0
  /\ got[c] = IF func[c] = "bash" THEN Taken(c) ELSE Min({Taken(c), Cap})
  /\ func[c] = "cmd" => Taken(c) <= 1
  /\ func[c] = "cmd" /\ pc[c] \in {"forked", "reading"} => Taken(c) = 0
  /\ pc[c] \in {"read", "wait"} \/ result[c] = "ok" =>
       \/ Drained(c)
       \/ func[c] = "search" /\ got[c] = Cap
       \/ func[c] = "cmd" /\ Taken(c) = 1

CallOK(c) == EndsOpen(c) /\ ChildStage(c) /\ Account(c)

CallsOK == TypeOK /\ \A c \in Calls : CallOK(c)
------------------------------------------------------------------------------
\* The smaller of two numbers.
LEMMA MinOfTwo ==
  ASSUME NEW a \in Int, NEW b \in Int
  PROVE  Min({a, b}) = IF a <= b THEN a ELSE b
<1>1. \E x \in {a, b} : \A y \in {a, b} : x <= y
  OBVIOUS
<1> QED BY <1>1 DEF Min

\* One more piece read makes one more kept, up to the cap.
LEMMA KeepsOne ==
  ASSUME SubprocessAssumption, NEW c, NEW n \in Nat
  PROVE  Keeps(c, IF func[c] = "bash" THEN n ELSE Min({n, Cap}))
           = IF func[c] = "bash" THEN n + 1 ELSE Min({n + 1, Cap})
<1>1. Cap \in Nat
  BY DEF SubprocessAssumption
<1>2. Min({n, Cap}) = (IF n <= Cap THEN n ELSE Cap) /\ Min({n, Cap}) \in Int
  BY <1>1, MinOfTwo
<1>3. Min({n + 1, Cap}) = IF n + 1 <= Cap THEN n + 1 ELSE Cap
  BY <1>1, MinOfTwo
<1>4. Min({Min({n, Cap}) + 1, Cap})
        = IF Min({n, Cap}) + 1 <= Cap THEN Min({n, Cap}) + 1 ELSE Cap
  BY <1>1, <1>2, MinOfTwo
<1> QED BY <1>1, <1>2, <1>3, <1>4 DEF Keeps

\* What CallOK says of a call depends on that call alone.
LEMMA SameOK ==
  ASSUME NEW c, CallOK(c),
         /\ func'[c] = func[c] /\ pc'[c] = pc[c] /\ pipe'[c] = pipe[c]
         /\ child'[c] = child[c] /\ out'[c] = out[c] /\ todo'[c] = todo[c]
         /\ got'[c] = got[c] /\ result'[c] = result[c],
         c \in reads'[Agent] <=> c \in reads[Agent],
         c \in writes[Agent] => c \in writes'[Agent],
         c \in writes[c] => c \in writes'[c]
  PROVE  CallOK(c)'
  BY DEF CallOK, EndsOpen, ChildStage, Account, Taken, Drained, ChildRuns
------------------------------------------------------------------------------
\* It holds at first, and each step of a call or of a program keeps it.
LEMMA ProcInitHolds == ProcInit => CallsOK
<1> SUFFICES ASSUME ProcInit PROVE CallsOK
  OBVIOUS
<1>0. PipeSize \in Nat /\ Cap \in Nat /\ MaxOut \in Nat
  BY SubprocessAssumption DEF SubprocessAssumption
<1>1. TypeOK
  BY <1>0 DEF ProcInit, TypeOK, Procs
<1>2. ASSUME NEW c \in Calls PROVE CallOK(c)
  <2>1. Min({0, Cap}) = 0
    BY <1>0, MinOfTwo
  <2>2. /\ pc[c] = "start" /\ child[c] = "none" /\ result[c] = "none"
        /\ out[c] = 0 /\ todo[c] = 0 /\ pipe[c] = 0 /\ got[c] = 0
        /\ reads[Agent] = {} /\ writes[Agent] = {}
    BY DEF ProcInit, Procs
  <2> QED BY <2>1, <2>2 DEF CallOK, EndsOpen, ChildStage, Account, Taken, ChildRuns
<1> QED BY <1>1, <1>2 DEF CallsOK

LEMMA PipeStep ==
  ASSUME CallsOK, NEW c \in Calls, Pipe(c)
  PROVE  CallsOK'
<1>1. TypeOK'
  BY DEF CallsOK, TypeOK, Pipe, Go, With, Without, Procs
<1>2. ASSUME NEW d \in Calls, d # c
      PROVE  CallOK(d)'
  <2>1. CallOK(d)
    BY DEF CallsOK
  <2> QED BY <1>2, <2>1, SameOK, SubprocessAssumption
          DEF CallsOK, TypeOK, Pipe, Go, With, Without, Procs, SubprocessAssumption
<1>3. CallOK(c)'
  BY SubprocessAssumption
  DEF CallsOK, TypeOK, CallOK, EndsOpen, ChildStage, Account, Taken, Drained, ChildRuns,
      Pipe, Go, With, Without, Procs, SubprocessAssumption
<1> QED BY <1>1, <1>2, <1>3 DEF CallsOK

LEMMA PipeFailsStep ==
  ASSUME CallsOK, NEW c \in Calls, PipeFails(c)
  PROVE  CallsOK'
<1>1. TypeOK'
  BY DEF CallsOK, TypeOK, PipeFails, Go, With, Without, Procs
<1>2. ASSUME NEW d \in Calls, d # c
      PROVE  CallOK(d)'
  <2>1. CallOK(d)
    BY DEF CallsOK
  <2> QED BY <1>2, <2>1, SameOK, SubprocessAssumption
          DEF CallsOK, TypeOK, PipeFails, Go, With, Without, Procs, SubprocessAssumption
<1>3. CallOK(c)'
  BY SubprocessAssumption
  DEF CallsOK, TypeOK, CallOK, EndsOpen, ChildStage, Account, Taken, Drained, ChildRuns,
      PipeFails, Go, With, Without, Procs, SubprocessAssumption
<1> QED BY <1>1, <1>2, <1>3 DEF CallsOK

LEMMA ForkStep ==
  ASSUME CallsOK, NEW c \in Calls, NEW n \in 0..MaxOut, Fork(c, n)
  PROVE  CallsOK'
<1>1. TypeOK'
  BY DEF CallsOK, TypeOK, Fork, Go, With, Without, Procs
<1>2. ASSUME NEW d \in Calls, d # c
      PROVE  CallOK(d)'
  <2>1. CallOK(d)
    BY DEF CallsOK
  <2> QED BY <1>2, <2>1, SameOK, SubprocessAssumption
          DEF CallsOK, TypeOK, Fork, Go, With, Without, Procs, SubprocessAssumption
<1>3. CallOK(c)'
  <2>1. CallOK(c) /\ pc[c] = "fork" /\ pc'[c] = "forked"
    BY DEF CallsOK, TypeOK, Fork, Go
  <2>2. /\ func'[c] = func[c] /\ pipe'[c] = 0 /\ got'[c] = 0 /\ result'[c] = "none"
        /\ out'[c] = n /\ todo'[c] = n /\ child'[c] = "running"
        /\ got[c] = IF func[c] = "bash" THEN 0 ELSE Min({0, Cap})
    BY <2>1 DEF CallsOK, TypeOK, Fork, CallOK, ChildStage, Account, Taken
  <2>3. /\ reads'[Agent] = reads[Agent] /\ writes'[Agent] = writes[Agent]
        /\ writes'[c] = writes[Agent]
    BY SubprocessAssumption DEF CallsOK, TypeOK, Fork, Procs, SubprocessAssumption
  <2>4. Taken(c)' = 0 /\ got'[c] = got[c] /\ n \in Int
    BY <2>2 DEF Taken, CallsOK, TypeOK, Fork
  <2>5. Account(c)'
    BY <2>1, <2>2, <2>4 DEF Account
  <2> QED BY <2>1, <2>2, <2>3, <2>5 DEF CallOK, EndsOpen, ChildStage, ChildRuns
<1> QED BY <1>1, <1>2, <1>3 DEF CallsOK

LEMMA ForkFailsStep ==
  ASSUME CallsOK, NEW c \in Calls, ForkFails(c)
  PROVE  CallsOK'
<1>1. TypeOK'
  BY DEF CallsOK, TypeOK, ForkFails, ForkFailed, Go, With, Without, Procs
<1>2. ASSUME NEW d \in Calls, d # c
      PROVE  CallOK(d)'
  <2>1. CallOK(d)
    BY DEF CallsOK
  <2> QED BY <1>2, <2>1, SameOK, SubprocessAssumption
          DEF CallsOK, TypeOK, ForkFails, ForkFailed, Go, With, Without, Procs, SubprocessAssumption
<1>3. CallOK(c)'
  BY SubprocessAssumption
  DEF CallsOK, TypeOK, CallOK, EndsOpen, ChildStage, Account, Taken, Drained, ChildRuns,
      ForkFails, ForkFailed, Go, With, Without, Procs, SubprocessAssumption
<1> QED BY <1>1, <1>2, <1>3 DEF CallsOK

LEMMA CloseWriteStep ==
  ASSUME CallsOK, NEW c \in Calls, CloseWrite(c)
  PROVE  CallsOK'
<1>1. TypeOK'
  BY DEF CallsOK, TypeOK, CloseWrite, ParentKeeps, Go, With, Without, Procs
<1>2. ASSUME NEW d \in Calls, d # c
      PROVE  CallOK(d)'
  <2>1. CallOK(d)
    BY DEF CallsOK
  <2> QED BY <1>2, <2>1, SameOK, SubprocessAssumption
          DEF CallsOK, TypeOK, CloseWrite, ParentKeeps, Go, With, Without, Procs, SubprocessAssumption
<1>3. CallOK(c)'
  BY SubprocessAssumption
  DEF CallsOK, TypeOK, CallOK, EndsOpen, ChildStage, Account, Taken, Drained, ChildRuns,
      CloseWrite, ParentKeeps, Go, With, Without, Procs, SubprocessAssumption
<1> QED BY <1>1, <1>2, <1>3 DEF CallsOK

LEMMA ReadStep ==
  ASSUME CallsOK, NEW c \in Calls, Read(c)
  PROVE  CallsOK'
<1>0. /\ Cap \in Nat \ {0} /\ PipeSize \in Nat /\ MaxOut \in Nat
      /\ pipe[c] \in 1..PipeSize /\ out[c] \in 0..MaxOut /\ todo[c] \in 0..MaxOut
      /\ pc[c] = "reading"
  BY SubprocessAssumption DEF CallsOK, TypeOK, Read, Go, SubprocessAssumption
<1>a. CallOK(c) /\ Taken(c) \in Nat
  BY <1>0 DEF CallsOK, CallOK, Account, Taken
<1>b. Taken(c)' = Taken(c) + 1 /\ Taken(c) + 1 <= MaxOut
  BY <1>0 DEF CallsOK, TypeOK, Read, Taken
<1>c. got'[c] = IF func[c] = "bash" THEN Taken(c) + 1 ELSE Min({Taken(c) + 1, Cap})
  <2>1. got'[c] = Keeps(c, got[c])
    BY DEF CallsOK, TypeOK, Read
  <2>2. got[c] = IF func[c] = "bash" THEN Taken(c) ELSE Min({Taken(c), Cap})
    BY <1>a DEF CallOK, Account
  <2> QED BY <1>a, <2>1, <2>2, KeepsOne, SubprocessAssumption
<1>d. Min({Taken(c) + 1, Cap}) = IF Taken(c) + 1 <= Cap THEN Taken(c) + 1 ELSE Cap
  <2> QED BY <1>0, <1>a, MinOfTwo
<1>1. TypeOK'
  <2>1. /\ got'[c] \in 0..MaxOut
        /\ func[c] # "bash" => got'[c] <= Cap
    BY <1>0, <1>a, <1>b, <1>c, <1>d
  <2>2. got' = [got EXCEPT ![c] = got'[c]]
    BY DEF CallsOK, TypeOK, Read
  <2>3. got' \in [Calls -> 0..MaxOut]
    BY <2>1, <2>2 DEF CallsOK, TypeOK
  <2>4. \A d \in Calls : func'[d] # "bash" => got'[d] <= Cap
    BY <2>1, <2>2 DEF CallsOK, TypeOK, Read
  <2>5. pipe' \in [Calls -> 0..PipeSize]
    BY <1>0 DEF CallsOK, TypeOK, Read
  <2>6. pc' \in [Calls -> {"start", "fork", "forked", "reading", "read", "wait", "done"}]
    BY DEF CallsOK, TypeOK, Read, Go
  <2> QED BY <2>3, <2>4, <2>5, <2>6 DEF CallsOK, TypeOK, Read
<1>2. ASSUME NEW d \in Calls, d # c
      PROVE  CallOK(d)'
  <2>1. CallOK(d)
    BY DEF CallsOK
  <2> QED BY <1>2, <2>1, SameOK, SubprocessAssumption
          DEF CallsOK, TypeOK, Read, Go, With, Without, Procs, SubprocessAssumption
<1>3. CallOK(c)'
  <2>1. /\ func' = func /\ reads' = reads /\ writes' = writes /\ child' = child
        /\ todo' = todo /\ out' = out /\ result' = result
        /\ pc'[c] = IF Stops(c, got'[c]) THEN "read" ELSE "reading"
    BY DEF CallsOK, TypeOK, Read, Go
  <2>2. (EndsOpen(c) /\ ChildStage(c))'
    BY <1>0, <1>a, <2>1 DEF CallOK, EndsOpen, ChildStage, ChildRuns
  <2>3. result[c] = "none" /\ (func[c] = "cmd" => Taken(c) = 0)
    BY <1>0, <1>a DEF CallOK, ChildStage, Account
  <2>4. Account(c)'
    <3>1. /\ Taken(c)' >= 0
          /\ func'[c] = "cmd" => Taken(c)' = 1
      BY <1>a, <1>b, <2>1, <2>3
    <3>2. got'[c] = IF func'[c] = "bash" THEN Taken(c)' ELSE Min({Taken(c)', Cap})
      BY <1>b, <1>c, <2>1
    <3>3. CASE pc'[c] = "read"
      <4>1. func[c] = "cmd" \/ (func[c] = "search" /\ got'[c] = Cap)
        <5>1. Stops(c, got'[c])
          BY <2>1, <3>3
        <5> QED BY <5>1 DEF Stops
      <4> QED BY <2>1, <3>1, <3>2, <3>3, <4>1 DEF Account
    <3>4. CASE pc'[c] = "reading"
      <4>1. func[c] # "cmd"
        BY <2>1, <3>4 DEF Stops
      <4> QED BY <2>1, <2>3, <3>1, <3>2, <3>4, <4>1 DEF Account
    <3> QED BY <2>1, <3>3, <3>4
  <2> QED BY <2>2, <2>4 DEF CallOK
<1> QED BY <1>1, <1>2, <1>3 DEF CallsOK

LEMMA ReadEndsStep ==
  ASSUME CallsOK, NEW c \in Calls, ReadEnds(c)
  PROVE  CallsOK'
<1>1. TypeOK'
  BY DEF CallsOK, TypeOK, ReadEnds, Go, With, Without, Procs
<1>2. ASSUME NEW d \in Calls, d # c
      PROVE  CallOK(d)'
  <2>1. CallOK(d)
    BY DEF CallsOK
  <2> QED BY <1>2, <2>1, SameOK, SubprocessAssumption
          DEF CallsOK, TypeOK, ReadEnds, Go, With, Without, Procs, SubprocessAssumption
<1>3. CallOK(c)'
  <2>1. CallOK(c) /\ AtEnd(c) /\ pc[c] = "reading" /\ pc'[c] = "read"
    BY DEF CallsOK, TypeOK, ReadEnds, Go
  <2>2. Drained(c)
    BY <2>1 DEF AtEnd, Writers, Procs, CallOK, EndsOpen, Drained
  <2>3. UNCHANGED <<func, reads, writes, pipe, child, out, todo, got, result>>
    BY DEF ReadEnds
  <2> QED BY <2>1, <2>2, <2>3
          DEF CallOK, EndsOpen, ChildStage, Account, Taken, Drained, ChildRuns
<1> QED BY <1>1, <1>2, <1>3 DEF CallsOK

LEMMA CloseReadStep ==
  ASSUME CallsOK, NEW c \in Calls, CloseRead(c)
  PROVE  CallsOK'
<1>1. TypeOK'
  BY DEF CallsOK, TypeOK, CloseRead, Go, With, Without, Procs
<1>2. ASSUME NEW d \in Calls, d # c
      PROVE  CallOK(d)'
  <2>1. CallOK(d)
    BY DEF CallsOK
  <2> QED BY <1>2, <2>1, SameOK, SubprocessAssumption
          DEF CallsOK, TypeOK, CloseRead, Go, With, Without, Procs, SubprocessAssumption
<1>3. CallOK(c)'
  BY SubprocessAssumption
  DEF CallsOK, TypeOK, CallOK, EndsOpen, ChildStage, Account, Taken, Drained, ChildRuns,
      CloseRead, Go, With, Without, Procs, SubprocessAssumption
<1> QED BY <1>1, <1>2, <1>3 DEF CallsOK

LEMMA WaitStep ==
  ASSUME CallsOK, NEW c \in Calls, Wait(c)
  PROVE  CallsOK'
<1>1. TypeOK'
  BY DEF CallsOK, TypeOK, Wait, Go, With, Without, Procs
<1>2. ASSUME NEW d \in Calls, d # c
      PROVE  CallOK(d)'
  <2>1. CallOK(d)
    BY DEF CallsOK
  <2> QED BY <1>2, <2>1, SameOK, SubprocessAssumption
          DEF CallsOK, TypeOK, Wait, Go, With, Without, Procs, SubprocessAssumption
<1>3. CallOK(c)'
  BY SubprocessAssumption
  DEF CallsOK, TypeOK, CallOK, EndsOpen, ChildStage, Account, Taken, Drained, ChildRuns,
      Wait, Go, With, Without, Procs, SubprocessAssumption
<1> QED BY <1>1, <1>2, <1>3 DEF CallsOK

LEMMA ChildWritesStep ==
  ASSUME CallsOK, NEW c \in Calls, ChildWrites(c)
  PROVE  CallsOK'
<1>1. TypeOK'
  BY SubprocessAssumption DEF CallsOK, TypeOK, ChildWrites, SubprocessAssumption
<1>2. ASSUME NEW d \in Calls, d # c
      PROVE  CallOK(d)'
  <2>1. CallOK(d)
    BY DEF CallsOK
  <2> QED BY <1>2, <2>1, SameOK, SubprocessAssumption
          DEF CallsOK, TypeOK, ChildWrites, Go, With, Without, Procs, SubprocessAssumption
<1>3. CallOK(c)'
  <2>1. CallOK(c) /\ ChildRuns(c)
    BY DEF CallsOK, ChildWrites
  <2>2. /\ func'[c] = func[c] /\ pc'[c] = pc[c] /\ child'[c] = child[c]
        /\ out'[c] = out[c] /\ got'[c] = got[c] /\ result'[c] = result[c]
        /\ reads' = reads /\ writes' = writes
    BY DEF ChildWrites
  <2>3. Taken(c)' = Taken(c)
    BY DEF CallsOK, TypeOK, ChildWrites, Taken
  <2> QED BY <2>1, <2>2, <2>3 DEF CallOK, EndsOpen, ChildStage, Account, Drained, ChildRuns
<1> QED BY <1>1, <1>2, <1>3 DEF CallsOK

LEMMA ChildExitsStep ==
  ASSUME CallsOK, NEW c \in Calls, ChildExits(c)
  PROVE  CallsOK'
<1>1. TypeOK'
  BY DEF CallsOK, TypeOK, ChildExits, ChildEnds, Go, With, Without, Procs
<1>2. ASSUME NEW d \in Calls, d # c
      PROVE  CallOK(d)'
  <2>1. CallOK(d)
    BY DEF CallsOK
  <2> QED BY <1>2, <2>1, SameOK, SubprocessAssumption
          DEF CallsOK, TypeOK, ChildExits, ChildEnds, Go, With, Without, Procs, SubprocessAssumption
<1>3. CallOK(c)'
  <2>1. CallOK(c) /\ ChildRuns(c) /\ todo[c] = 0
    BY DEF CallsOK, ChildExits
  <2>2. /\ func'[c] = func[c] /\ pc'[c] = pc[c] /\ child'[c] \in {"clean", "failed"}
        /\ pipe'[c] = pipe[c] /\ out'[c] = out[c] /\ todo'[c] = todo[c]
        /\ got'[c] = got[c] /\ result'[c] = result[c]
        /\ reads'[Agent] = reads[Agent] /\ writes'[Agent] = writes[Agent]
    BY SubprocessAssumption
    DEF CallsOK, TypeOK, ChildExits, ChildEnds, Procs, SubprocessAssumption
  <2> QED BY <2>1, <2>2 DEF CallOK, EndsOpen, ChildStage, Account, Taken, Drained, ChildRuns
<1> QED BY <1>1, <1>2, <1>3 DEF CallsOK

LEMMA ChildBrokenStep ==
  ASSUME CallsOK, NEW c \in Calls, ChildBroken(c)
  PROVE  CallsOK'
<1>1. TypeOK'
  BY DEF CallsOK, TypeOK, ChildBroken, ChildEnds, Go, With, Without, Procs
<1>2. ASSUME NEW d \in Calls, d # c
      PROVE  CallOK(d)'
  <2>1. CallOK(d)
    BY DEF CallsOK
  <2> QED BY <1>2, <2>1, SameOK, SubprocessAssumption
          DEF CallsOK, TypeOK, ChildBroken, ChildEnds, Go, With, Without, Procs, SubprocessAssumption
<1>3. CallOK(c)'
  <2>1. CallOK(c) /\ ChildRuns(c) /\ Readers(c) = {}
    BY DEF CallsOK, ChildBroken
  <2>2. /\ func'[c] = func[c] /\ pc'[c] = pc[c] /\ child'[c] = "broken"
        /\ pipe'[c] = pipe[c] /\ out'[c] = out[c] /\ todo'[c] = todo[c]
        /\ got'[c] = got[c] /\ result'[c] = result[c]
        /\ reads'[Agent] = reads[Agent] /\ writes'[Agent] = writes[Agent]
    BY SubprocessAssumption
    DEF CallsOK, TypeOK, ChildBroken, ChildEnds, Procs, SubprocessAssumption
  <2>3. pc[c] = "wait"
    <3>1. c \notin reads[Agent]
      BY <2>1 DEF Readers, Procs
    <3> QED BY <2>1, <3>1 DEF CallOK, EndsOpen, ChildStage, ChildRuns, CallsOK, TypeOK
  <2>4. func[c] \in Short
    BY <2>1, <2>3 DEF CallOK, Account, Drained, Short
  <2> QED BY <2>1, <2>2, <2>4
          DEF CallOK, EndsOpen, ChildStage, Account, Taken, Drained, ChildRuns
<1> QED BY <1>1, <1>2, <1>3 DEF CallsOK
------------------------------------------------------------------------------
\* So every step keeps it.
LEMMA ProcNextHolds == CallsOK /\ [ProcNext]_procVars => CallsOK'
<1> SUFFICES ASSUME CallsOK, [ProcNext]_procVars
             PROVE  CallsOK'
  OBVIOUS
<1>1. ASSUME NEW c \in Calls, Caller(c)
      PROVE  CallsOK'
  BY <1>1, PipeStep, PipeFailsStep, ForkStep, ForkFailsStep, CloseWriteStep, ReadStep,
     ReadEndsStep, CloseReadStep, WaitStep DEF Caller
<1>2. ASSUME NEW c \in Calls, Program(c)
      PROVE  CallsOK'
  BY <1>2, ChildWritesStep, ChildExitsStep, ChildBrokenStep DEF Program
<1>3. CASE UNCHANGED procVars
  BY <1>3 DEF procVars, CallsOK, TypeOK, CallOK, EndsOpen, ChildStage, Account, Taken, Drained,
              ChildRuns
<1> QED BY <1>1, <1>2, <1>3 DEF ProcNext, Rest

\* A call that has its result has all it should.
LEMMA InvIsWhole == CallsOK => OutputWhole
<1> SUFFICES ASSUME CallsOK PROVE OutputWhole
  OBVIOUS
<1>1. Cap \in Nat \ {0} /\ MaxOut \in Nat
  BY SubprocessAssumption DEF SubprocessAssumption
<1>2. ASSUME NEW c \in Calls, result[c] = "ok"
      PROVE  got[c] = CASE func[c] = "bash" -> out[c]
                        [] func[c] = "cmd"  -> Min({out[c], 1})
                        [] OTHER            -> Min({out[c], Cap})
  <2>1. CallOK(c) /\ todo[c] = 0 /\ child[c] = "reaped"
    BY <1>2 DEF CallsOK, CallOK, ChildStage
  <2>2. out[c] \in Nat /\ pipe[c] \in Nat /\ func[c] \in Functions
    BY <1>1, SubprocessAssumption DEF CallsOK, TypeOK, SubprocessAssumption
  <2>3. Taken(c) = out[c] - pipe[c]
    BY <2>1, <2>2 DEF Taken
  <2>4. /\ Taken(c) \in Nat
        /\ got[c] = IF func[c] = "bash" THEN Taken(c) ELSE Min({Taken(c), Cap})
        /\ func[c] = "cmd" => Taken(c) <= 1
        /\ \/ pipe[c] = 0
           \/ func[c] = "search" /\ got[c] = Cap
           \/ func[c] = "cmd" /\ Taken(c) = 1
    BY <1>2, <2>1, <2>2, <2>3 DEF CallOK, Account, Drained
  <2>5. /\ Min({Taken(c), Cap}) = IF Taken(c) <= Cap THEN Taken(c) ELSE Cap
        /\ Min({out[c], Cap}) = IF out[c] <= Cap THEN out[c] ELSE Cap
        /\ Min({out[c], 1}) = IF out[c] <= 1 THEN out[c] ELSE 1
    BY <1>1, <2>2, <2>4, MinOfTwo
  <2>6. CASE func[c] = "bash"
    BY <2>2, <2>3, <2>4, <2>6
  <2>7. CASE func[c] = "cmd"
    BY <1>1, <2>2, <2>3, <2>4, <2>5, <2>7
  <2>8. CASE func[c] \in {"fetch", "search"}
    BY <1>1, <2>2, <2>3, <2>4, <2>5, <2>8
  <2> QED BY <2>2, <2>6, <2>7, <2>8 DEF Functions
<1>3. \A c \in Calls : func[c] \notin Short => child[c] # "broken"
  BY DEF CallsOK, CallOK, ChildStage
<1> QED BY <1>2, <1>3 DEF CallsOK, OutputWhole

\* A call whose program ended well has all its output, up to the cap, and bash and
\* web_fetch never kill theirs by closing the pipe, for any number of calls whose
\* children hold each other's pipe ends, in pipes of any size (bash.c:93,
\* web_fetch.c:98-108, web_search.c:75).
THEOREM ReadsWhole == ProcSpec => []OutputWhole
<1>1. ProcInit => CallsOK
  BY ProcInitHolds
<1>2. CallsOK /\ [ProcNext]_procVars => CallsOK'
  BY ProcNextHolds
<1>3. CallsOK => OutputWhole
  BY InvIsWhole
<1> QED BY <1>1, <1>2, <1>3, PTL DEF ProcSpec
------------------------------------------------------------------------------
(***************************************************************************)
(* The skills.                                                             *)
(***************************************************************************)
Steps == {"fetch", "check", "target", "remove", "copy", "cleanup"}

Idle == [pc |-> "idle"]

\* A call of install_skill under way.
Installs ==
  [pc : Steps, source : Sources, scope : Scopes, override : Overrides,
   force : BOOLEAN, second : 0..MaxTime, name : Names \cup {NoName},
   ok : BOOLEAN, alone : BOOLEAN, asked : Packages]

SkillTypes ==
  /\ root \in [Scopes -> [Names -> Packages]]
  /\ tmp \in [0..MaxTime -> Packages]
  /\ call \in [Agents -> Installs \cup {Idle}]
  /\ now \in 0..MaxTime

\* What a call knows of itself: past the check it has a name, it removes only if
\* forced, it has succeeded only at its end, and a package from outside the
\* skills is the one it asked for.
Settled(c) ==
  /\ c.pc \in {"target", "remove", "copy"} \/ c.ok => c.name \in Names
  /\ c.pc = "remove" => c.force
  /\ c.ok => c.pc = "cleanup"
  /\ c.source.at # "installed" => c.asked = c.source.package

\* What a call that is the only one may rely on: the source still holds what it
\* held, until the target is removed, which the source may be; the target is not
\* there when it copies; and it is what was asked for in the end.
Undisturbed(c) ==
  /\ c.pc = "fetch" /\ c.source.at # "repo" => Held(c) = c.asked
  /\ c.pc \in {"check", "target", "remove"} => Held(c) = c.asked
  /\ c.pc = "copy" => Target(c) = Absent /\ Held(c) \in {c.asked, Absent}
  /\ c.ok => Target(c) = c.asked

Right(a) ==
  call[a] \in Installs =>
    /\ Settled(call[a])
    /\ call[a].alone =>
         /\ \A b \in Agents : call[b] \in Installs => b = a
         /\ Undisturbed(call[a])

InstallsOK == SkillTypes /\ \A a \in Agents : Right(a)
------------------------------------------------------------------------------
\* A source lies in a directory, in a repository, or among the skills.
LEMMA SourceKinds ==
  ASSUME NEW source \in Sources
  PROVE  \/ source.at \in {"local", "repo"} /\ source.package \in Packages /\ source.package.whole
         \/ source.at = "installed" /\ source.scope \in Scopes /\ source.name \in Names
BY SkillsAssumption

LEMMA NothingThere ==
  /\ Absent \in Packages /\ Empty \in Packages
  /\ ~Absent.whole /\ ~Absent.md /\ ~Empty.whole
<1>1. Absent \in Packages /\ ~Absent.whole /\ ~Absent.md
  BY DEF Absent, Packages
<1>2. Empty \in Packages /\ ~Empty.whole
  BY <1>1 DEF Empty, Packages
<1>3. QED
  BY <1>1, <1>2

\* What the source of a call holds is a package, or nothing.
LEMMA HeldType ==
  ASSUME SkillTypes, NEW a \in Agents, call[a] \in Installs
  PROVE  Held(call[a]) \in Packages
<1> DEFINE c == call[a]
<1>1. c.source \in Sources /\ c.second \in 0..MaxTime
  BY DEF Installs
<1>2. CASE c.source.at = "local"
  BY <1>1, <1>2, SourceKinds DEF Held
<1>3. CASE c.source.at = "repo"
  BY <1>1, <1>3, NothingThere DEF Held, SkillTypes
<1>4. CASE c.source.at = "installed"
  BY <1>1, <1>4, SourceKinds DEF Held, SkillTypes
<1>5. QED
  BY <1>1, <1>2, <1>3, <1>4, SourceKinds

\* A call is under way, or its agent is idle.
LEMMA UnderWay ==
  ASSUME SkillTypes, NEW a \in Agents
  PROVE  /\ call[a] \in Installs \/ call[a] = Idle
         /\ Idle \notin Installs /\ Idle.pc = "idle"
         /\ call[a] \in Installs <=> call[a].pc # "idle"
         /\ call[a] \in Installs => call[a].pc \in Steps
BY DEF SkillTypes, Installs, Steps, Idle

\* A step of a call, and what it leaves of the calls.
LEMMA Went ==
  ASSUME SkillTypes, NEW a \in Agents, call[a] \in Installs, NEW st \in Steps, Goto(a, st)
  PROVE  /\ call' \in [Agents -> Installs \cup {Idle}] /\ call'[a] \in Installs
         /\ \A b \in Agents : b # a => call'[b] = call[b]
         /\ call'[a].pc = st
         /\ call'[a].source = call[a].source /\ call'[a].scope = call[a].scope
         /\ call'[a].second = call[a].second /\ call'[a].name = call[a].name
         /\ call'[a].force = call[a].force /\ call'[a].ok = call[a].ok
         /\ call'[a].alone = call[a].alone /\ call'[a].asked = call[a].asked
<1> DEFINE c == call[a]
           d == [c EXCEPT !.pc = st]
<1>1. d \in Installs
  BY DEF Installs
<1>2. call' = [call EXCEPT ![a] = d]
  BY DEF Goto, SkillTypes
<1>3. /\ d.pc = st /\ d.source = c.source /\ d.scope = c.scope
      /\ d.second = c.second /\ d.name = c.name
      /\ d.force = c.force /\ d.ok = c.ok
      /\ d.alone = c.alone /\ d.asked = c.asked
  BY DEF Installs
<1> HIDE DEF d
<1>4. QED
  BY <1>1, <1>2, <1>3 DEF SkillTypes

\* A step of one call, as the others see it: who was alone is the one that steps.
LEMMA OneMoves ==
  ASSUME InstallsOK, SkillTypes', NEW a \in Agents, call[a] \in Installs, call'[a] \in Installs,
         \A b \in Agents : b # a => call'[b] = call[b],
         call'[a].alone = call[a].alone,
         Settled(call'[a]),
         call[a].alone => Undisturbed(call[a])'
  PROVE  InstallsOK'
<1> SUFFICES ASSUME NEW p \in Agents PROVE Right(p)'
  BY DEF InstallsOK
<1>1. CASE p = a
  BY <1>1 DEF InstallsOK, Right
<1>2. CASE p # a
  BY <1>2 DEF InstallsOK, Right, Settled
<1>3. QED
  BY <1>1, <1>2

\* Where the source is does not change while the directories do not.
LEMMA HeldSame ==
  ASSUME UNCHANGED <<root, tmp>>, NEW a \in Agents,
         call'[a].source = call[a].source, call'[a].scope = call[a].scope,
         call'[a].second = call[a].second, call'[a].name = call[a].name
  PROVE  Held(call[a])' = Held(call[a]) /\ Target(call[a])' = Target(call[a])
BY DEF Held, Target
------------------------------------------------------------------------------
LEMMA InitHolds == Init => InstallsOK
<1> SUFFICES ASSUME Init PROVE InstallsOK
  OBVIOUS
<1>1. SkillTypes
  BY SkillsAssumption, NothingThere DEF Init, SkillTypes, Idle
<1>2. \A a \in Agents : call[a] = Idle
  BY DEF Init, Idle
<1>3. \A a \in Agents : call[a] \notin Installs
  BY <1>1, <1>2, UnderWay
<1>4. QED
  BY <1>1, <1>3 DEF InstallsOK, Right

\* A step of a call that changes no directory.
LEMMA QuietStep ==
  ASSUME InstallsOK, NEW a \in Agents, call[a] \in Installs, NEW st \in Steps, Goto(a, st),
         UNCHANGED <<root, tmp, now>>,
         ~call[a].ok,
         st \in {"target", "remove", "copy"} => call[a].name \in Names,
         st = "remove" => call[a].force,
         call[a].alone =>
           /\ st \in {"check", "target", "remove"} => Held(call[a]) = call[a].asked
           /\ st = "copy" => Target(call[a]) = Absent /\ Held(call[a]) = call[a].asked,
         st # "fetch"
  PROVE  InstallsOK'
<1>1. SkillTypes
  BY DEF InstallsOK
<1>2. /\ call' \in [Agents -> Installs \cup {Idle}] /\ call'[a] \in Installs
      /\ \A b \in Agents : b # a => call'[b] = call[b]
      /\ call'[a].pc = st
      /\ call'[a].source = call[a].source /\ call'[a].scope = call[a].scope
      /\ call'[a].second = call[a].second /\ call'[a].name = call[a].name
      /\ call'[a].force = call[a].force /\ call'[a].ok = call[a].ok
      /\ call'[a].alone = call[a].alone /\ call'[a].asked = call[a].asked
  BY <1>1, Went
<1>3. SkillTypes'
  BY <1>1, <1>2 DEF SkillTypes
<1>4. Settled(call'[a])
  BY <1>2 DEF InstallsOK, Right, Settled
<1>5. Held(call[a])' = Held(call[a]) /\ Target(call[a])' = Target(call[a])
  BY <1>2, HeldSame
<1>6. call[a].alone => Undisturbed(call[a])'
  BY <1>2, <1>5 DEF Undisturbed
<1>7. QED
  BY <1>2, <1>3, <1>4, <1>6, OneMoves

LEMMA FetchLocalStep ==
  ASSUME InstallsOK, NEW a \in Agents, FetchLocal(a)
  PROVE  InstallsOK'
<1>1. call[a] \in Installs /\ Right(a) /\ call[a].pc = "fetch"
  BY UnderWay DEF InstallsOK, FetchLocal
<1>2. ~call[a].ok
  BY <1>1 DEF Right, Settled
<1>3. PICK st \in {"check", "cleanup"} : Goto(a, st)
  BY DEF FetchLocal
<1>4. call[a].alone => Held(call[a]) = call[a].asked
  BY <1>1 DEF Right, Undisturbed, FetchLocal
<1>5. QED
  BY <1>1, <1>2, <1>3, <1>4, QuietStep DEF FetchLocal, Steps

\* The ways out that change nothing but where the call is.
LEMMA GivingUpStep ==
  ASSUME InstallsOK, NEW a \in Agents, CloneFails(a) \/ RootFails(a)
  PROVE  InstallsOK'
<1>1. call[a] \in Installs /\ Right(a) /\ call[a].pc \in {"fetch", "target"}
  BY UnderWay DEF InstallsOK, CloneFails, RootFails
<1>2. ~call[a].ok
  BY <1>1 DEF Right, Settled
<1>3. Goto(a, "cleanup") /\ UNCHANGED <<root, tmp, now>>
  BY DEF CloneFails, RootFails
<1>4. QED
  BY <1>1, <1>2, <1>3, QuietStep DEF Steps

LEMMA LookAtTargetStep ==
  ASSUME InstallsOK, NEW a \in Agents, LookAtTarget(a)
  PROVE  InstallsOK'
<1>1. call[a] \in Installs /\ Right(a) /\ call[a].pc = "target"
  BY UnderWay DEF InstallsOK, LookAtTarget
<1>2. ~call[a].ok /\ call[a].name \in Names
  BY <1>1 DEF Right, Settled
<1>3. call[a].alone => Held(call[a]) = call[a].asked
  BY <1>1 DEF Right, Undisturbed
<1> DEFINE st == AfterTarget(Exists(Target(call[a])), Overwrites(call[a]))
<1>4. Goto(a, st) /\ UNCHANGED <<root, tmp, now>>
  BY DEF LookAtTarget
<1>5. /\ st \in {"copy", "remove", "cleanup"}
      /\ st = "copy" => Target(call[a]) = Absent
      /\ st = "remove" => call[a].force
  <2>1. CASE ~Exists(Target(call[a]))
    BY <2>1 DEF AfterTarget, Exists
  <2>2. CASE Exists(Target(call[a])) /\ call[a].force
    BY <2>2 DEF AfterTarget, Overwrites
  <2>3. CASE Exists(Target(call[a])) /\ ~call[a].force
    BY <2>3 DEF AfterTarget, Overwrites
  <2>4. QED
    BY <2>1, <2>2, <2>3
<1> HIDE DEF st
<1>6. QED
  BY <1>1, <1>2, <1>3, <1>4, <1>5, QuietStep DEF Steps

LEMMA CheckStep ==
  ASSUME InstallsOK, NEW a \in Agents, Check(a)
  PROVE  InstallsOK'
<1> DEFINE c    == call[a]
           name == InstallName(c, Held(c))
           good == Held(c).md /\ name # NoName /\ (c.scope = "user" => HasHome)
           d    == [c EXCEPT !.pc = IF good THEN "target" ELSE "cleanup",
                             !.name = IF good THEN name ELSE NoName]
<1>1. c \in Installs /\ Right(a) /\ c.pc = "check"
  BY UnderWay DEF InstallsOK, Check
<1>2. ~c.ok
  BY <1>1 DEF Right, Settled
<1>3. c.alone => Held(c) = c.asked
  BY <1>1 DEF Right, Undisturbed
<1>4. Held(c) \in Packages
  BY <1>1, HeldType DEF InstallsOK
<1>5. name \in Names \cup {NoName}
  <2>1. c.override \in Names \cup {NoName}
    BY <1>1, SkillsAssumption DEF Installs
  <2>2. Held(c).named \in Names \cup {NoName}
    BY <1>4 DEF Packages
  <2>3. QED
    BY <2>1, <2>2 DEF InstallName
<1> DEFINE st == IF good THEN "target" ELSE "cleanup"
           nm == IF good THEN name ELSE NoName
<1>6. /\ st \in {"target", "cleanup"} /\ nm \in Names \cup {NoName}
      /\ st = "target" => nm \in Names
  BY <1>5
<1>7. call' = [call EXCEPT ![a] = [c EXCEPT !.pc = st, !.name = nm]]
  BY DEF Check, InstallsOK, SkillTypes
<1> HIDE DEF st, nm, name, good
<1>8. [c EXCEPT !.pc = st, !.name = nm] \in Installs
  BY <1>1, <1>6 DEF Installs, Steps
<1>9. /\ call' \in [Agents -> Installs \cup {Idle}] /\ call'[a] \in Installs
      /\ \A b \in Agents : b # a => call'[b] = call[b]
      /\ call'[a].pc = st /\ call'[a].name = nm
      /\ call'[a].source = c.source /\ call'[a].second = c.second
      /\ call'[a].ok = c.ok
      /\ call'[a].alone = c.alone /\ call'[a].asked = c.asked
  BY <1>1, <1>7, <1>8 DEF InstallsOK, SkillTypes, Installs
<1>10. UNCHANGED <<root, tmp, now>>
  BY DEF Check
<1>11. SkillTypes'
  BY <1>9, <1>10 DEF InstallsOK, SkillTypes
<1>12. Settled(call'[a])
  BY <1>1, <1>2, <1>6, <1>9 DEF Right, Settled
<1>13. Held(call[a])' = Held(call[a])
  BY <1>9, <1>10 DEF Held
<1>14. c.alone => Undisturbed(call[a])'
  BY <1>2, <1>3, <1>6, <1>9, <1>13 DEF Undisturbed
<1>15. QED
  BY <1>1, <1>9, <1>11, <1>12, <1>14, OneMoves

LEMMA CloneStep ==
  ASSUME InstallsOK, NEW a \in Agents, Clone(a)
  PROVE  InstallsOK'
<1> DEFINE c == call[a]
<1>1. c \in Installs /\ Right(a) /\ c.pc = "fetch" /\ c.source.at = "repo"
  BY UnderWay DEF InstallsOK, Clone
<1>2. ~c.ok
  BY <1>1 DEF Right, Settled
<1>3. /\ Goto(a, "check") /\ UNCHANGED <<root, now>>
      /\ tmp' = [tmp EXCEPT ![c.second] = c.source.package]
  BY DEF Clone
<1>4. c.second \in 0..MaxTime /\ c.source.package \in Packages /\ c.source.package # Empty
  <2>1. c.source \in Sources /\ c.second \in 0..MaxTime
    BY <1>1 DEF Installs
  <2>2. c.source.package \in Packages /\ c.source.package.whole
    BY <1>1, <2>1, SourceKinds
  <2>3. QED
    BY <2>1, <2>2, NothingThere
<1>5. /\ call' \in [Agents -> Installs \cup {Idle}] /\ call'[a] \in Installs
      /\ \A b \in Agents : b # a => call'[b] = call[b]
      /\ call'[a].pc = "check"
      /\ call'[a].source = call[a].source /\ call'[a].scope = call[a].scope
      /\ call'[a].second = call[a].second /\ call'[a].name = call[a].name
      /\ call'[a].force = call[a].force /\ call'[a].ok = call[a].ok
      /\ call'[a].alone = call[a].alone /\ call'[a].asked = call[a].asked
  BY <1>1, <1>3, Went DEF InstallsOK, Steps
<1>6. SkillTypes'
  BY <1>3, <1>4, <1>5 DEF InstallsOK, SkillTypes
<1>7. Settled(call'[a])
  BY <1>1, <1>2, <1>5 DEF Right, Settled
<1>8. Held(call[a])' = c.asked
  <2>1. tmp'[c.second] = c.source.package
    BY <1>3, <1>4 DEF InstallsOK, SkillTypes
  <2>2. c.asked = c.source.package
    BY <1>1 DEF Right, Settled
  <2>3. QED
    BY <1>1, <1>4, <1>5, <2>1, <2>2 DEF Held
<1>9. Undisturbed(call[a])'
  BY <1>2, <1>5, <1>8 DEF Undisturbed
<1>10. QED
  BY <1>1, <1>5, <1>6, <1>7, <1>9, OneMoves

\* What a call puts in its target, and what stays as it was.
LEMMA PutThere ==
  ASSUME SkillTypes, NEW a \in Agents, call[a] \in Installs, call[a].name \in Names,
         NEW d \in Packages, Put(a, d)
  PROVE  /\ root' \in [Scopes -> [Names -> Packages]]
         /\ root'[call[a].scope][call[a].name] = d
         /\ \A s \in Scopes, n \in Names :
              s # call[a].scope \/ n # call[a].name => root'[s][n] = root[s][n]
<1>1. call[a].scope \in Scopes
  BY DEF Installs
<1>2. QED
  BY <1>1 DEF Put, SkillTypes

\* What is left of a package is not whole.
LEMMA TornPackages ==
  ASSUME NEW d \in Packages, NEW e \in Torn(d)
  PROVE  e \in Packages /\ ~e.whole
<1>1. PICK b \in {FALSE, d.md}, i \in {FALSE, d.inside} :
        e = [d EXCEPT !.md = b, !.whole = FALSE, !.inside = i]
  BY DEF Torn
<1>2. b \in BOOLEAN /\ i \in BOOLEAN
  BY DEF Packages
<1>3. QED
  BY <1>1, <1>2 DEF Packages

\* A package that another has been put inside is the same but for that.
LEMMA NestedPackage ==
  ASSUME NEW d \in Packages
  PROVE  /\ [d EXCEPT !.inside = TRUE] \in Packages
         /\ Own([d EXCEPT !.inside = TRUE]) = Own(d)
         /\ Own(d).md = d.md
BY DEF Packages, Own

LEMMA RemoveStep ==
  ASSUME InstallsOK, NEW a \in Agents, Remove(a)
  PROVE  InstallsOK'
<1> DEFINE c == call[a]
<1>1. c \in Installs /\ Right(a) /\ c.pc = "remove"
  BY UnderWay DEF InstallsOK, Remove
<1>2. ~c.ok /\ c.name \in Names
  BY <1>1 DEF Right, Settled
<1>3. Put(a, Absent) /\ Goto(a, "copy") /\ UNCHANGED <<tmp, now>>
  BY DEF Remove
<1>4. /\ call' \in [Agents -> Installs \cup {Idle}] /\ call'[a] \in Installs
      /\ \A b \in Agents : b # a => call'[b] = call[b]
      /\ call'[a].pc = "copy"
      /\ call'[a].source = call[a].source /\ call'[a].scope = call[a].scope
      /\ call'[a].second = call[a].second /\ call'[a].name = call[a].name
      /\ call'[a].force = call[a].force /\ call'[a].ok = call[a].ok
      /\ call'[a].alone = call[a].alone /\ call'[a].asked = call[a].asked
  BY <1>1, <1>3, Went DEF InstallsOK, Steps
<1>5. /\ root' \in [Scopes -> [Names -> Packages]]
      /\ root'[c.scope][c.name] = Absent
      /\ \A s \in Scopes, n \in Names :
           s # c.scope \/ n # c.name => root'[s][n] = root[s][n]
  BY <1>1, <1>2, <1>3, PutThere, NothingThere DEF InstallsOK
<1>6. SkillTypes'
  BY <1>3, <1>4, <1>5 DEF InstallsOK, SkillTypes
<1>7. Settled(call'[a])
  BY <1>1, <1>2, <1>4 DEF Right, Settled
<1>8. Target(call[a])' = Absent
  BY <1>4, <1>5 DEF Target
<1>9. Held(call[a])' \in {Held(c), Absent}
  <2>1. c.source \in Sources
    BY <1>1 DEF Installs
  <2>2. CASE c.source.at \in {"local", "repo"}
    BY <1>3, <1>4, <2>2 DEF Held
  <2>3. CASE c.source.at = "installed"
    <3>1. /\ Held(c) = root[c.source.scope][c.source.name]
          /\ Held(call[a])' = root'[c.source.scope][c.source.name]
      BY <1>4, <2>3 DEF Held
    <3>2. c.source.scope \in Scopes /\ c.source.name \in Names
      BY <2>1, <2>3, SourceKinds
    <3>3. QED
      BY <1>5, <3>1, <3>2
  <2>4. QED
    BY <2>1, <2>2, <2>3, SourceKinds
<1>10. c.alone => Undisturbed(call[a])'
  <2>1. c.alone => Held(c) = c.asked
    BY <1>1 DEF Right, Undisturbed
  <2>2. QED
    BY <1>2, <1>4, <1>8, <1>9, <2>1 DEF Undisturbed
<1>11. QED
  BY <1>1, <1>4, <1>6, <1>7, <1>10, OneMoves

\* A removal or a copying that fails: whatever is in the target, the call has
\* not succeeded.
LEMMA FailingStep ==
  ASSUME InstallsOK, NEW a \in Agents, RemoveFails(a) \/ CopyFails(a)
  PROVE  InstallsOK'
<1> DEFINE c == call[a]
<1>1. c \in Installs /\ Right(a) /\ c.pc \in {"remove", "copy"}
  BY UnderWay DEF InstallsOK, RemoveFails, CopyFails
<1>2. ~c.ok /\ c.name \in Names
  BY <1>1 DEF Right, Settled
<1>3. Goto(a, "cleanup") /\ UNCHANGED <<tmp, now>>
  BY DEF RemoveFails, CopyFails
<1>4. /\ call' \in [Agents -> Installs \cup {Idle}] /\ call'[a] \in Installs
      /\ \A b \in Agents : b # a => call'[b] = call[b]
      /\ call'[a].pc = "cleanup"
      /\ call'[a].source = call[a].source /\ call'[a].scope = call[a].scope
      /\ call'[a].second = call[a].second /\ call'[a].name = call[a].name
      /\ call'[a].force = call[a].force /\ call'[a].ok = call[a].ok
      /\ call'[a].alone = call[a].alone /\ call'[a].asked = call[a].asked
  BY <1>1, <1>3, Went DEF InstallsOK, Steps
<1>5. UNCHANGED root \/ \E d \in Packages : Put(a, d)
  <2>1. Target(c) \in Packages
    BY <1>1, <1>2 DEF Target, InstallsOK, SkillTypes, Installs
  <2>2. Held(c) \in Packages
    BY <1>1, HeldType DEF InstallsOK
  <2>3. QED
    BY <2>1, <2>2, TornPackages, NestedPackage DEF RemoveFails, CopyFails
<1>6. root' \in [Scopes -> [Names -> Packages]]
  BY <1>1, <1>2, <1>5, PutThere DEF InstallsOK, SkillTypes
<1>7. SkillTypes'
  BY <1>3, <1>4, <1>6 DEF InstallsOK, SkillTypes
<1>8. Settled(call'[a])
  BY <1>1, <1>2, <1>4 DEF Right, Settled
<1>9. Undisturbed(call[a])'
  BY <1>2, <1>4 DEF Undisturbed
<1>10. QED
  BY <1>1, <1>4, <1>7, <1>8, <1>9, OneMoves

LEMMA CopyStep ==
  ASSUME InstallsOK, NEW a \in Agents, Copy(a)
  PROVE  InstallsOK'
<1> DEFINE c == call[a]
           d == [c EXCEPT !.pc = "cleanup", !.ok = TRUE]
<1>1. c \in Installs /\ Right(a) /\ c.pc = "copy" /\ Exists(Held(c))
  BY UnderWay DEF InstallsOK, Copy
<1>2. c.name \in Names
  BY <1>1 DEF Right, Settled
<1> DEFINE new == IF Exists(Target(c)) THEN [Target(c) EXCEPT !.inside = TRUE] ELSE Held(c)
<1>3. Put(a, new) /\ UNCHANGED <<tmp, now>>
  BY DEF Copy
<1>4. d \in Installs
  BY <1>1 DEF Installs, Steps
<1>5. call' = [call EXCEPT ![a] = d]
  BY DEF Copy, InstallsOK, SkillTypes
<1>6. /\ call' \in [Agents -> Installs \cup {Idle}] /\ call'[a] \in Installs
      /\ \A b \in Agents : b # a => call'[b] = call[b]
      /\ call'[a] = d
  <2> HIDE DEF d
  <2> QED
    BY <1>4, <1>5 DEF InstallsOK, SkillTypes
<1>7. /\ d.pc = "cleanup" /\ d.ok
      /\ d.source = c.source /\ d.scope = c.scope /\ d.name = c.name
      /\ d.alone = c.alone /\ d.asked = c.asked
  BY <1>1 DEF Installs
<1> HIDE DEF d
<1>8. new \in Packages /\ (~Exists(Target(c)) => new = Held(c))
  <2>1. Held(c) \in Packages
    BY <1>1, HeldType DEF InstallsOK
  <2>2. Target(c) \in Packages
    BY <1>1, <1>2 DEF Target, InstallsOK, SkillTypes, Installs
  <2>3. QED
    BY <2>1, <2>2, NestedPackage
<1> HIDE DEF new
<1>9. /\ root' \in [Scopes -> [Names -> Packages]]
      /\ ~Exists(Target(c)) => root'[c.scope][c.name] = Held(c)
  BY <1>1, <1>2, <1>3, <1>8, PutThere DEF InstallsOK
<1>10. SkillTypes'
  BY <1>3, <1>6, <1>9 DEF InstallsOK, SkillTypes
<1>11. Settled(call'[a])
  BY <1>1, <1>2, <1>6, <1>7 DEF Right, Settled
<1>12. c.alone => Undisturbed(call[a])'
  <2> SUFFICES ASSUME c.alone PROVE Undisturbed(call[a])'
    OBVIOUS
  <2>1. Target(c) = Absent /\ Held(c) = c.asked
    BY <1>1 DEF Right, Undisturbed, Exists
  <2>2. Target(call[a])' = c.asked
    BY <1>6, <1>7, <1>9, <2>1 DEF Target, Exists
  <2>3. QED
    BY <1>6, <1>7, <2>2 DEF Undisturbed
<1>13. QED
  BY <1>1, <1>6, <1>7, <1>10, <1>11, <1>12, OneMoves

LEMMA CleanupStep ==
  ASSUME InstallsOK, NEW a \in Agents, Cleanup(a)
  PROVE  InstallsOK'
<1>1. /\ call[a] \in Installs
      /\ tmp' = [tmp EXCEPT ![call[a].second] = Absent] \/ UNCHANGED tmp
      /\ call' = [call EXCEPT ![a] = Idle]
      /\ UNCHANGED <<root, now>>
  BY UnderWay DEF InstallsOK, Cleanup, Idle
<1>2. SkillTypes'
  BY <1>1, NothingThere DEF InstallsOK, SkillTypes
<1>3. call'[a] = Idle /\ \A b \in Agents : b # a => call'[b] = call[b]
  BY <1>1 DEF InstallsOK, SkillTypes
<1>4. Idle \notin Installs
  BY UnderWay DEF InstallsOK
<1>5. \A p \in Agents : Right(p)'
  <2> SUFFICES ASSUME NEW p \in Agents, p # a PROVE Right(p)'
    BY <1>3, <1>4 DEF Right
  <2>1. call'[p] \in Installs => call'[p] = call[p] /\ ~call[p].alone /\ Settled(call[p])
    BY <1>1, <1>3 DEF InstallsOK, Right
  <2>2. QED
    BY <2>1 DEF Right, Settled
<1>6. QED
  BY <1>2, <1>5 DEF InstallsOK

LEMMA BeginStep ==
  ASSUME InstallsOK, NEW a \in Agents, NEW source \in Sources, NEW scope \in Scopes,
         NEW override \in Overrides, NEW force \in BOOLEAN,
         Begin(a, source, scope, override, force)
  PROVE  InstallsOK'
<1> DEFINE held == IF source.at = "installed" THEN root[source.scope][source.name]
                                              ELSE source.package
           new  == [pc |-> "fetch", source |-> source, scope |-> scope,
                    override |-> override, force |-> force, second |-> now,
                    name |-> NoName, ok |-> FALSE, alone |-> Running = {},
                    asked |-> held]
<1>1. /\ call[a].pc = "idle"
      /\ call' = [b \in Agents |->
           CASE b = a -> new
             [] b \in Running -> [call[b] EXCEPT !.alone = FALSE]
             [] OTHER -> call[b]]
      /\ tmp' = [tmp EXCEPT ![now] = IF Exists(@) THEN @ ELSE Empty]
      /\ UNCHANGED <<root, now>>
  BY DEF Begin
<1>2. held \in Packages
  BY SourceKinds DEF InstallsOK, SkillTypes
<1>3. new \in Installs
  <2> DEFINE first == (Running = {})
  <2>1. first \in BOOLEAN
    OBVIOUS
  <2>2. now \in 0..MaxTime
    BY DEF InstallsOK, SkillTypes
  <2> HIDE DEF held, first
  <2>3. [pc |-> "fetch", source |-> source, scope |-> scope,
         override |-> override, force |-> force, second |-> now,
         name |-> NoName, ok |-> FALSE, alone |-> first,
         asked |-> held] \in Installs
    BY <1>2, <2>1, <2>2 DEF Installs, Steps
  <2>4. QED
    BY <2>3 DEF first
<1>4. /\ new.pc = "fetch" /\ ~new.ok /\ new.source = source /\ new.asked = held
      /\ new.alone => Running = {}
  OBVIOUS
<1> HIDE DEF new
<1>5. \A b \in Agents : b \in Running <=> call[b] \in Installs
  BY UnderWay DEF InstallsOK, Running
<1>6. ASSUME NEW b \in Agents, b # a, b \in Running
      PROVE  /\ call'[b] \in Installs /\ ~call'[b].alone
             /\ call'[b].pc = call[b].pc /\ call'[b].name = call[b].name
             /\ call'[b].force = call[b].force /\ call'[b].ok = call[b].ok
             /\ call'[b].source = call[b].source /\ call'[b].asked = call[b].asked
  <2>1. call[b] \in Installs
    BY <1>5, <1>6
  <2>2. call'[b] = [call[b] EXCEPT !.alone = FALSE]
    BY <1>1, <1>6
  <2>3. QED
    BY <2>1, <2>2 DEF Installs
<1>7. call'[a] = new
  <2>1. a \notin Running
    BY <1>1 DEF Running
  <2>2. QED
    BY <1>1, <2>1
<1>8. ASSUME NEW b \in Agents, b # a, b \notin Running
      PROVE  call'[b] = Idle /\ call'[b] \notin Installs
  <2>1. call'[b] = call[b]
    BY <1>1, <1>8
  <2>2. QED
    BY <1>5, <1>8, <2>1, UnderWay DEF InstallsOK
<1>9. SkillTypes'
  <2>1. tmp' \in [0..MaxTime -> Packages]
    BY <1>1, NothingThere DEF InstallsOK, SkillTypes
  <2>2. call' \in [Agents -> Installs \cup {Idle}]
    <3>1. \A b \in Agents : call'[b] \in Installs \cup {Idle}
      BY <1>3, <1>6, <1>7, <1>8
    <3>2. DOMAIN call' = Agents /\ call' = [b \in Agents |-> call'[b]]
      BY <1>1
    <3>3. QED
      BY <3>1, <3>2
  <2>3. QED
    BY <1>1, <2>1, <2>2 DEF InstallsOK, SkillTypes
<1>10. Right(a)'
  <2>1. Settled(new)
    BY <1>4 DEF Settled
  <2>2. new.alone => \A b \in Agents : call'[b] \in Installs => b = a
    BY <1>4, <1>8
  <2>3. Undisturbed(call[a])'
    <3>1. source.at # "repo" => Held(call[a])' = held
      <4>1. CASE source.at = "local"
        BY <1>4, <1>7, <4>1 DEF Held
      <4>2. CASE source.at = "installed"
        BY <1>1, <1>4, <1>7, <4>2 DEF Held
      <4>3. QED
        BY <4>1, <4>2, SourceKinds
    <3>2. QED
      BY <1>4, <1>7, <3>1 DEF Undisturbed
  <2>4. QED
    BY <1>7, <2>1, <2>2, <2>3 DEF Right
<1>11. ASSUME NEW b \in Agents, b # a PROVE Right(b)'
  <2>1. CASE b \in Running
    <3>1. Settled(call[b])
      BY <1>5, <2>1 DEF InstallsOK, Right
    <3>2. Settled(call'[b])
      BY <1>6, <1>11, <2>1, <3>1 DEF Settled
    <3>3. ~call'[b].alone
      BY <1>6, <1>11, <2>1
    <3>4. QED
      BY <3>2, <3>3 DEF Right, Settled
  <2>2. CASE b \notin Running
    BY <1>8, <1>11, <2>2 DEF Right
  <2>3. QED
    BY <2>1, <2>2
<1>12. QED
  BY <1>9, <1>10, <1>11 DEF InstallsOK

\* Nothing the invariant speaks of changes but the clock.
LEMMA ClockStep ==
  ASSUME InstallsOK, UNCHANGED <<root, tmp, call>>, now' \in 0..MaxTime
  PROVE  InstallsOK'
<1>1. SkillTypes'
  BY DEF InstallsOK, SkillTypes
<1>2. ASSUME NEW p \in Agents PROVE Right(p)'
  <2>1. Held(call[p])' = Held(call[p]) /\ Target(call[p])' = Target(call[p])
    BY DEF Held, Target
  <2>2. QED
    BY <2>1 DEF InstallsOK, Right, Settled, Undisturbed
<1>3. QED
  BY <1>1, <1>2 DEF InstallsOK

LEMMA NextHolds == InstallsOK /\ [Next]_vars => InstallsOK'
<1> SUFFICES ASSUME InstallsOK, [Next]_vars PROVE InstallsOK'
  OBVIOUS
<1>1. now \in 0..MaxTime
  BY DEF InstallsOK, SkillTypes
<1>2. CASE Tick
  BY <1>1, <1>2, SkillsAssumption, ClockStep DEF Tick
<1>3. CASE \E a \in Agents, source \in Sources, scope \in Scopes,
              override \in Overrides, force \in BOOLEAN :
             Begin(a, source, scope, override, force)
  BY <1>3, BeginStep
<1>4. CASE \E a \in Agents : Refuse(a)
  BY <1>1, <1>4, ClockStep DEF Refuse
<1>5. CASE \E a \in Agents : Install(a)
  BY <1>5, FetchLocalStep, CloneStep, GivingUpStep, CheckStep, LookAtTargetStep,
     RemoveStep, FailingStep, CopyStep, CleanupStep DEF Install
<1>6. CASE \E a \in Agents : NewAgent(a)
  BY <1>1, <1>6, ClockStep DEF NewAgent
<1>7. CASE UNCHANGED vars
  BY <1>1, <1>7, ClockStep DEF vars
<1>8. QED
  BY <1>2, <1>3, <1>4, <1>5, <1>6, <1>7 DEF Next

LEMMA Invariance == Spec => []InstallsOK
BY InitHolds, NextHolds, PTL DEF Spec
------------------------------------------------------------------------------
\* A call that had the directories to itself and reports "Installed" has the
\* whole package it was given in place (install_skill.c:243-267).
THEOREM PackageIsWhole == Spec => []InstalledWhole
<1>1. InstallsOK => InstalledWhole
  <2> SUFFICES ASSUME InstallsOK, NEW a \in Running, call[a].ok, call[a].alone
               PROVE  Target(call[a]) = call[a].asked
    BY DEF InstalledWhole
  <2>1. a \in Agents /\ call[a] \in Installs
    BY UnderWay DEF InstallsOK, Running
  <2>2. QED
    BY <2>1 DEF InstallsOK, Right, Undisturbed
<1>2. QED
  BY <1>1, Invariance, PTL

\* What changes the directory of a skill: its removal by a forced call that names
\* it, or a copy to where nothing is or, beside another call, inside what is there.
LEMMA RootStep ==
  ASSUME InstallsOK, [Next]_vars, NEW s \in Scopes, NEW n \in Names,
         root'[s][n] # root[s][n]
  PROVE  \E a \in Running :
           /\ call[a].scope = s /\ call[a].name = n
           /\ \/ call[a].pc = "remove" /\ call[a].force
              \/ call[a].pc = "copy" /\ root[s][n] = Absent
              \/ /\ call[a].pc = "copy" /\ ~call[a].alone
                 /\ Own(root'[s][n]) = Own(root[s][n])
<1>1. PICK a \in Agents : Remove(a) \/ RemoveFails(a) \/ Copy(a) \/ CopyFails(a)
  BY DEF Next, Install, vars, Tick, Begin, Refuse, NewAgent, FetchLocal, Clone, CloneFails,
         Check, RootFails, LookAtTarget, Cleanup
<1>2. /\ a \in Running /\ call[a] \in Installs /\ Right(a)
      /\ call[a].pc \in {"remove", "copy"}
  BY <1>1, UnderWay DEF InstallsOK, Remove, RemoveFails, Copy, CopyFails, Running
<1>3. call[a].name \in Names /\ (call[a].pc = "remove" => call[a].force)
  BY <1>2 DEF Right, Settled
<1>4. Held(call[a]) \in Packages /\ Target(call[a]) \in Packages
  BY <1>2, <1>3, HeldType DEF InstallsOK, SkillTypes, Target, Installs
<1> DEFINE nested == [Target(call[a]) EXCEPT !.inside = TRUE]
<1>5. nested \in Packages /\ Own(nested) = Own(Target(call[a]))
  BY <1>4, NestedPackage
<1>6. /\ \E d \in Packages : Put(a, d)
      /\ call[a].pc = "copy" /\ Exists(Target(call[a])) => Put(a, nested)
  BY <1>1, <1>4, <1>5, NothingThere, TornPackages DEF Remove, RemoveFails, Copy, CopyFails
<1>7. call[a].scope = s /\ call[a].name = n
  BY <1>2, <1>3, <1>6, PutThere DEF InstallsOK
<1> HIDE DEF nested
<1>8. CASE call[a].pc = "remove"
  BY <1>2, <1>3, <1>7, <1>8
<1>9. CASE call[a].pc = "copy" /\ ~Exists(Target(call[a]))
  BY <1>2, <1>7, <1>9 DEF Exists, Target
<1>10. CASE call[a].pc = "copy" /\ Exists(Target(call[a]))
  <2>1. ~call[a].alone
    BY <1>2, <1>10 DEF Right, Undisturbed, Exists
  <2>2. root'[s][n] = nested
    BY <1>2, <1>3, <1>5, <1>6, <1>7, <1>10, PutThere DEF InstallsOK
  <2>3. QED
    BY <1>2, <1>5, <1>7, <1>10, <2>1, <2>2 DEF Target
<1>11. QED
  BY <1>2, <1>8, <1>9, <1>10

\* The files of a whole skill go only by the removal of a call that is forced and
\* names it, however many calls run side by side: a copy can only leave another
\* package inside it (install_skill.c:244-260).
THEOREM WholeSkillsAreKept == Spec => KeptUnlessForced
<1> DEFINE Kept == \A s \in Scopes, n \in Names :
              root[s][n].whole /\ root'[s][n] # root[s][n] =>
                \E a \in Running :
                  /\ call[a].scope = s /\ call[a].name = n
                  /\ \/ call[a].pc = "remove" /\ call[a].force
                     \/ /\ call[a].pc = "copy" /\ ~call[a].alone
                        /\ Own(root'[s][n]) = Own(root[s][n])
<1>1. InstallsOK /\ [Next]_vars => Kept
  <2> SUFFICES ASSUME InstallsOK, [Next]_vars, NEW s \in Scopes, NEW n \in Names,
                      root[s][n].whole, root'[s][n] # root[s][n]
               PROVE  \E a \in Running :
                        /\ call[a].scope = s /\ call[a].name = n
                        /\ \/ call[a].pc = "remove" /\ call[a].force
                           \/ /\ call[a].pc = "copy" /\ ~call[a].alone
                              /\ Own(root'[s][n]) = Own(root[s][n])
    OBVIOUS
  <2>1. root[s][n] # Absent
    BY NothingThere
  <2>2. QED
    BY <2>1, RootStep
<1>2. QED
  BY <1>1, Invariance, PTL DEF Spec, KeptUnlessForced
------------------------------------------------------------------------------
\* What a manifest lists.
Entries ==
  {e \in [name : Names, scope : Scopes, dir : Names, skill : Packages] : e.skill.md}

ManifestsOK == manifest \in [Agents -> SUBSET Entries]

\* The skills listed, and where they are as the manifest is made.
LEMMA ListedEntries ==
  ASSUME SkillTypes
  PROVE  \A e \in Listed(root) : e \in Entries /\ e.skill = root[e.scope][e.dir]
<1> SUFFICES ASSUME NEW e \in Listed(root)
             PROVE  e \in Entries /\ e.skill = root[e.scope][e.dir]
  OBVIOUS
<1>1. PICK s \in Scopes, n \in Names :
        /\ n \in Collected(root, s)
        /\ e = [name |-> MetaName(root[s][n], n), scope |-> s, dir |-> n, skill |-> root[s][n]]
  BY DEF Listed
<1>2. root[s][n] \in Packages /\ root[s][n].md
  BY <1>1 DEF Collected, SkillTypes
<1>3. MetaName(root[s][n], n) \in Names
  BY <1>2 DEF MetaName, Packages
<1>4. QED
  BY <1>1, <1>2, <1>3 DEF Entries

LEMMA ManifestsHold == Spec => []ManifestsOK
<1>1. Init => ManifestsOK
  <2> SUFFICES ASSUME Init PROVE ManifestsOK
    OBVIOUS
  <2>1. SkillTypes
    BY InitHolds DEF InstallsOK
  <2>2. Listed(root) \in SUBSET Entries
    BY <2>1, ListedEntries
  <2>3. QED
    BY <2>2 DEF Init, ManifestsOK
<1>2. InstallsOK /\ ManifestsOK /\ [Next]_vars => ManifestsOK'
  <2> SUFFICES ASSUME InstallsOK, ManifestsOK, [Next]_vars PROVE ManifestsOK'
    OBVIOUS
  <2>1. Listed(root) \in SUBSET Entries
    BY ListedEntries DEF InstallsOK
  <2>2. UNCHANGED manifest \/ \E a \in Agents : manifest' = [manifest EXCEPT ![a] = Listed(root)]
    BY DEF Next, Install, vars, Tick, Begin, Refuse, NewAgent, FetchLocal, Clone, CloneFails,
           Check, RootFails, LookAtTarget, Remove, RemoveFails, Copy, CopyFails, Cleanup
  <2>3. QED
    BY <2>1, <2>2 DEF ManifestsOK
<1>3. QED
  BY <1>1, <1>2, Invariance, PTL DEF Spec

\* A skill that is where the manifest says, under the name it lists, is loaded,
\* or the project's of its name for one of the user's.
LEMMA LoadsInPlace ==
  ASSUME NEW r \in [Scopes -> [Names -> Packages]], NEW e \in Entries,
         e.name = e.dir, InPlace(r, e)
  PROVE  Loads(r, e)
<1>1. e.scope \in Scopes /\ e.dir \in Names /\ e.skill \in Packages /\ e.skill.md
  BY DEF Entries
<1>2. r[e.scope][e.dir] \in Packages
  BY <1>1
<1>3. r[e.scope][e.dir].md
  <2>1. Own(r[e.scope][e.dir]).md = r[e.scope][e.dir].md /\ Own(e.skill).md = e.skill.md
    BY <1>1, <1>2, NestedPackage
  <2>2. Own(r[e.scope][e.dir]) = Own(e.skill)
    BY DEF InPlace
  <2>3. QED
    BY <1>1, <2>1, <2>2
<1>4. CASE e.scope = "project"
  BY <1>3, <1>4 DEF Loads, Load
<1>5. CASE e.scope = "user"
  BY <1>3, <1>5 DEF Loads, Load
<1>6. QED
  BY <1>1, <1>4, <1>5 DEF Scopes

\* What the manifest of an agent's prompt lists, under the name of its directory,
\* load_skill finds in every state from the agent's creation on, the project's
\* before the user's, until a forced call removes it (skills.c:186-199, 265-266,
\* 308-320; agent.c:44).
THEOREM ListedAreLoaded == Spec => ListedLoads
<1> DEFINE Kept == \A a \in Agents : \A e \in manifest'[a] :
              /\ e.name = e.dir
              /\ e \in manifest[a] => InPlace(root, e) /\ ~Removing(e)
              => InPlace(root', e) /\ Loads(root', e)
<1>1. InstallsOK /\ ManifestsOK /\ ManifestsOK' /\ [Next]_vars => Kept
  <2> SUFFICES ASSUME InstallsOK, ManifestsOK, ManifestsOK', [Next]_vars,
                      NEW a \in Agents, NEW e \in manifest'[a], e.name = e.dir,
                      e \in manifest[a] => InPlace(root, e) /\ ~Removing(e)
               PROVE  InPlace(root', e) /\ Loads(root', e)
    OBVIOUS
  <2>1. root' \in [Scopes -> [Names -> Packages]]
    BY NextHolds DEF InstallsOK, SkillTypes
  <2>2. e \in Entries
    BY DEF ManifestsOK
  <2>3. e.scope \in Scopes /\ e.dir \in Names /\ e.skill \in Packages /\ e.skill.md
    BY <2>2 DEF Entries
  <2>4. InPlace(root', e)
    <3>1. CASE e \notin manifest[a]
      <4>1. manifest'[a] = Listed(root) /\ root' = root
        BY <3>1 DEF Next, Install, vars, Tick, Begin, Refuse, NewAgent, FetchLocal, Clone,
           CloneFails, Check, RootFails, LookAtTarget, Remove, RemoveFails, Copy, CopyFails,
           Cleanup, ManifestsOK
      <4>2. e.skill = root[e.scope][e.dir]
        BY <4>1, ListedEntries DEF InstallsOK
      <4>3. QED
        BY <4>1, <4>2 DEF InPlace
    <3>2. CASE e \in manifest[a] /\ root'[e.scope][e.dir] # root[e.scope][e.dir]
      <4>1. InPlace(root, e) /\ ~Removing(e)
        BY <3>2
      <4>2. root[e.scope][e.dir] \in Packages
        BY <2>3 DEF InstallsOK, SkillTypes
      <4>3. root[e.scope][e.dir] # Absent
        BY <2>3, <4>1, <4>2, NestedPackage, NothingThere DEF InPlace
      <4>4. Own(root'[e.scope][e.dir]) = Own(root[e.scope][e.dir])
        BY <2>3, <3>2, <4>1, <4>3, RootStep DEF Removing
      <4>5. QED
        BY <4>1, <4>4 DEF InPlace
    <3>3. CASE e \in manifest[a] /\ root'[e.scope][e.dir] = root[e.scope][e.dir]
      BY <3>3 DEF InPlace
    <3>4. QED
      BY <3>1, <3>2, <3>3
  <2>5. Loads(root', e)
    BY <2>1, <2>2, <2>4, LoadsInPlace
  <2>6. QED
    BY <2>4, <2>5
<1>2. QED
  BY <1>1, Invariance, ManifestsHold, PTL DEF Spec, ListedLoads
==============================================================================
