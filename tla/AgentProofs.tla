----------------------------- MODULE AgentProofs -----------------------------
(***************************************************************************)
(* Proofs about Agent, for every size of the window, every bound on the    *)
(* turns and every way the model, the tools and the disk behave: turns are *)
(* bounded, only a summary tears a call from its answer and none takes an  *)
(* output that offload could have kept, and references to offloaded output *)
(* stay and lead to what they stand for.                                   *)
(***************************************************************************)
EXTENDS Agent, FiniteSetTheorems, SequenceTheorems, TLAPS

\* The requests of a chat, as its turns allow them.
Budget ==
  /\ pc \in {"offload", "summary", "check", "tools"} => asked = turns /\ turns <= MaxTurns
  /\ pc = "ask" => asked = turns + 1 /\ turns <= MaxTurns

\* Between a tool message and the call it answers stand tool messages alone; if a
\* summary has swallowed the call, they stand right behind the summary.
InRow(h, i) ==
  \/ Answers(h, i) /\ \A j \in DOMAIN h : h[i].n > i - j /\ j <= i => h[j].kind = "tool"
  \/ h[1].kind = "summary" /\ \A j \in DOMAIN h : 1 < j /\ j <= i => h[j].kind = "tool"

Ordered(h) == \A i \in DOMAIN h : h[i].kind = "tool" => InRow(h, i)

\* The calls without all of their answers, but for that about to run.
Open(h) == {i \in DOMAIN h : h[i].kind = "calls" /\ ~Answered(h, i)}

OpenCalls ==
  Cardinality(IF pc = "tools" THEN Open(history) \ {Len(history)} ELSE Open(history))
    <= refused

\* A message with a file is a reference, marked as one, and its file, one of those
\* below next_offload_id, was last given the message's output and is no other's.
Leads(m) ==
  /\ m.size = "ref" \/ m.file # NoFile => m.exempt = "path"
  /\ m.file < nextId
  /\ m.file # NoFile => files[m.file].text = m.text

References ==
  /\ \A i \in DOMAIN history : Leads(history[i])
  /\ \A i, j \in DOMAIN history :
       i # j /\ history[i].file # NoFile => history[i].file # history[j].file

\* The files given out so far are those below next_offload_id; if one is not whole,
\* the disk has been full.
FilesKnown ==
  /\ nextId \in Nat /\ full \in BOOLEAN
  /\ DOMAIN files = {id \in Nat : id < nextId}
  /\ \A id \in DOMAIN files : files[id] \in [text : Nat, whole : BOOLEAN]
  /\ ~full => \A id \in DOMAIN files : files[id].whole

\* No output is left that the offload policy would take.
Taken(h) ==
  \A i \in DOMAIN h : h[i].kind = "tool" => h[i].size = "small" \/ h[i].exempt # "no"

OffloadFirst ==
  OffloadAt = SummaryAt /\ pc = "summary" /\ SummaryDue => Taken(history)

IInv ==
  /\ TypeOK
  /\ Budget
  /\ OffloadFirst
  /\ Ordered(history)
  /\ OpenCalls
  /\ References
  /\ FilesKnown
------------------------------------------------------------------------------
(***************************************************************************)
(* The messages, and what an operator on the history keeps of their order. *)
(***************************************************************************)
LEMMA Messages ==
  /\ \A k \in Kind, n \in Nat, s \in Size, x \in Exempt :
       /\ Msg(k, n, s, x) \in Message
       /\ Msg(k, n, s, x).kind = k /\ Msg(k, n, s, x).n = n /\ Msg(k, n, s, x).size = s
       /\ Msg(k, n, s, x).exempt = x /\ Msg(k, n, s, x).file = NoFile
  /\ \A m \in Message : m.n \in Nat /\ m.file \in Nat \cup {NoFile} /\ m.text \in Nat
BY DEF Msg, Message

\* The places of a history.
LEMMA Places ==
  ASSUME NEW h \in Seq(Message)
  PROVE  /\ Len(h) \in Nat /\ DOMAIN h = 1..Len(h)
         /\ \A i \in DOMAIN h : h[i] \in Message /\ h[i].n \in Nat
BY LenProperties, ElementOfSeq, Messages

\* A history that goes on as another: what was in order stays so, what was
\* answered stays answered.
LEMMA GoesOn ==
  ASSUME NEW h \in Seq(Message), NEW g \in Seq(Message), Len(h) <= Len(g),
         \A i \in 1..Len(h) : g[i] = h[i]
  PROVE  \A i \in 1..Len(h) : /\ Answers(g, i) <=> Answers(h, i)
                              /\ InRow(h, i) => InRow(g, i)
                              /\ Answered(h, i) => Answered(g, i)
<1> USE Places
<1> SUFFICES ASSUME NEW i \in 1..Len(h)
             PROVE  /\ Answers(g, i) <=> Answers(h, i)
                    /\ InRow(h, i) => InRow(g, i)
                    /\ Answered(h, i) => Answered(g, i)
  OBVIOUS
<1>1. i \in DOMAIN h /\ i \in DOMAIN g /\ g[i] = h[i] /\ h[i].n \in Nat
  OBVIOUS
<1>2. Answers(g, i) <=> Answers(h, i)
  <2>1. i > h[i].n => i - h[i].n \in 1..Len(h)
    BY <1>1
  <2>2. QED
    BY <1>1, <2>1 DEF Answers
<1>3. \A j \in DOMAIN g : j <= i => j \in DOMAIN h /\ g[j] = h[j]
  BY <1>1
<1>4. InRow(h, i) => InRow(g, i)
  <2>1. 1 \in DOMAIN h /\ g[1] = h[1]
    BY <1>1
  <2>2. QED
    BY <1>1, <1>2, <1>3, <2>1 DEF InRow
<1>5. Answered(h, i) => Answered(g, i)
  <2> SUFFICES ASSUME Answered(h, i), NEW k \in 1..g[i].n
               PROVE  i + k \in DOMAIN g /\ g[i + k].kind = "tool" /\ g[i + k].n = k
    BY DEF Answered
  <2>1. i + k \in DOMAIN h /\ h[i + k].kind = "tool" /\ h[i + k].n = k
    BY <1>1 DEF Answered
  <2>2. i + k \in 1..Len(h) /\ i + k \in DOMAIN g
    BY <1>1, <2>1
  <2>3. QED
    BY <2>1, <2>2
<1>6. QED
  BY <1>2, <1>4, <1>5

LEMMA MessagePushed ==
  ASSUME NEW h \in Seq(Message), NEW m \in Message, m.kind # "tool", Ordered(h)
  PROVE  /\ Append(h, m) \in Seq(Message)
         /\ Len(Append(h, m)) = Len(h) + 1 /\ Append(h, m)[Len(h) + 1] = m
         /\ \A i \in DOMAIN h : Append(h, m)[i] = h[i]
         /\ DOMAIN Append(h, m) = DOMAIN h \cup {Len(h) + 1}
         /\ Ordered(Append(h, m))
         /\ Open(Append(h, m)) \subseteq
              Open(h) \cup (IF m.kind = "calls" THEN {Len(h) + 1} ELSE {})
<1> DEFINE g == Append(h, m)
<1>1. /\ g \in Seq(Message) /\ Len(h) \in Nat /\ Len(g) = Len(h) + 1
      /\ \A i \in 1..Len(h) : g[i] = h[i]
      /\ g[Len(h) + 1] = m
      /\ DOMAIN h = 1..Len(h) /\ DOMAIN g = 1..Len(g)
  BY AppendProperties, Places
<1> HIDE DEF g
<1>2. DOMAIN g = DOMAIN h \cup {Len(h) + 1} /\ Len(h) <= Len(g)
  BY <1>1
<1>3. \A i \in 1..Len(h) : (InRow(h, i) => InRow(g, i)) /\ (Answered(h, i) => Answered(g, i))
  BY <1>1, <1>2, GoesOn
<1>4. Ordered(g)
  BY <1>1, <1>2, <1>3 DEF Ordered
<1>5. Open(g) \subseteq Open(h) \cup (IF m.kind = "calls" THEN {Len(h) + 1} ELSE {})
  BY <1>1, <1>2, <1>3 DEF Open
<1>6. QED
  BY <1>1, <1>2, <1>4, <1>5 DEF g

LEMMA Joined ==
  ASSUME NEW h \in Seq(Message), NEW r \in Seq(Message)
  PROVE  /\ h \o r \in Seq(Message)
         /\ Len(h) \in Nat /\ Len(r) \in Nat
         /\ DOMAIN (h \o r) = 1..(Len(h) + Len(r))
         /\ \A i \in 1..Len(h) : (h \o r)[i] = h[i]
         /\ \A i \in (Len(h) + 1)..(Len(h) + Len(r)) : (h \o r)[i] = r[i - Len(h)]
<1>1. Len(h) \in Nat /\ Len(r) \in Nat
  BY LenProperties
<1>2. h \o r \in Seq(Message) /\ Len(h \o r) = Len(h) + Len(r)
  BY ConcatProperties
<1>3. \A i \in 1..(Len(h) + Len(r)) : (h \o r)[i] = IF i <= Len(h) THEN h[i] ELSE r[i - Len(h)]
  BY ConcatProperties
<1>4. DOMAIN (h \o r) = 1..(Len(h) + Len(r))
  BY <1>2, LenProperties
<1> DEFINE g == h \o r
<1>5. \A i \in 1..(Len(h) + Len(r)) : g[i] = IF i <= Len(h) THEN h[i] ELSE r[i - Len(h)]
  BY <1>3
<1> HIDE DEF g
<1>6. /\ \A i \in 1..Len(h) : g[i] = h[i]
      /\ \A i \in (Len(h) + 1)..(Len(h) + Len(r)) : g[i] = r[i - Len(h)]
  BY <1>1, <1>5
<1>7. QED
  BY <1>1, <1>2, <1>4, <1>6 DEF g

\* The answers of a batch behind its calls.
LEMMA BatchAnswered ==
  ASSUME NEW h \in Seq(Message), h # <<>>, h[Len(h)].kind = "calls", Ordered(h),
         NEW outs \in [1..h[Len(h)].n -> Outputs]
  PROVE  /\ h \o Results(outs) \in Seq(Message)
         /\ Ordered(h \o Results(outs))
         /\ Open(h \o Results(outs)) \subseteq Open(h) \ {Len(h)}
         /\ \A i \in DOMAIN (h \o Results(outs)) :
              IF i \in DOMAIN h THEN (h \o Results(outs))[i] = h[i]
              ELSE /\ (h \o Results(outs))[i].file = NoFile
                   /\ (h \o Results(outs))[i].size # "ref"
<1> DEFINE r == Results(outs)
           g == h \o r
           last == Len(h)
           n == h[last].n
<1>1. last \in Nat /\ last >= 1 /\ DOMAIN h = 1..last /\ n \in Nat
  BY Places, EmptySeq
<1>2. /\ r \in Seq(Message) /\ Len(r) = n
      /\ \A k \in 1..n : /\ r[k].kind = "tool" /\ r[k].n = k
                         /\ r[k].file = NoFile /\ r[k].size # "ref"
  <2>1. \A k \in 1..n : outs[k] \in [size : {"small", "medium", "big"}, exempt : Exempt]
    BY AgentAssumption
  <2>2. \A k \in 1..n : outs[k].size \in Size \ {"ref"} /\ outs[k].exempt \in Exempt
    BY <2>1 DEF Size
  <2>3. \A k \in 1..n : /\ ToolMsg(k, outs[k]) \in Message
                        /\ ToolMsg(k, outs[k]).kind = "tool" /\ ToolMsg(k, outs[k]).n = k
                        /\ ToolMsg(k, outs[k]).file = NoFile
                        /\ ToolMsg(k, outs[k]).size # "ref"
    BY <1>1, <2>2, Messages DEF ToolMsg, Kind
  <2>4. r = [k \in 1..n |-> ToolMsg(k, outs[k])]
    BY DEF Results
  <2> HIDE DEF r
  <2>5. r \in Seq(Message)
    BY <1>1, <2>3, <2>4, IsASeq
  <2>6. Len(r) = n
    BY <1>1, <2>4, <2>5, LenProperties
  <2>7. QED
    BY <2>3, <2>4, <2>5, <2>6
<1> HIDE DEF r, n
<1>3. /\ g \in Seq(Message) /\ DOMAIN g = 1..(last + n)
      /\ \A i \in 1..last : g[i] = h[i]
      /\ \A i \in (last + 1)..(last + n) : g[i] = r[i - last]
  <2>1. last = Len(h) /\ Len(r) = n
    BY <1>2
  <2>2. /\ g \in Seq(Message) /\ DOMAIN g = 1..(Len(h) + Len(r))
        /\ \A i \in 1..Len(h) : g[i] = h[i]
        /\ \A i \in (Len(h) + 1)..(Len(h) + Len(r)) : g[i] = r[i - Len(h)]
    BY <1>2, Joined
  <2> HIDE DEF g
  <2>3. QED
    BY <2>1, <2>2
<1> HIDE DEF g
<1>4. \A i \in DOMAIN g : i \notin DOMAIN h =>
        /\ i > last /\ i - last \in 1..n
        /\ g[i].kind = "tool" /\ g[i].n = i - last
        /\ g[i].file = NoFile /\ g[i].size # "ref"
  BY <1>1, <1>2, <1>3
<1>5. \A i \in 1..last : (InRow(h, i) => InRow(g, i)) /\ (Answered(h, i) => Answered(g, i))
  BY <1>1, <1>3, GoesOn
<1>6. Ordered(g)
  <2> SUFFICES ASSUME NEW i \in DOMAIN g, g[i].kind = "tool" PROVE InRow(g, i)
    BY DEF Ordered
  <2>1. CASE i \in DOMAIN h
    BY <1>1, <1>3, <1>5, <2>1 DEF Ordered
  <2>2. CASE i \notin DOMAIN h
    <3>1. Answers(g, i)
      BY <1>1, <1>3, <1>4, <2>2 DEF Answers
    <3>2. \A j \in DOMAIN g : g[i].n > i - j => j \notin DOMAIN h
      BY <1>1, <1>3, <1>4, <2>2
    <3>3. QED
      BY <1>4, <3>1, <3>2 DEF InRow
  <2>3. QED
    BY <2>1, <2>2
<1>7. Open(g) \subseteq Open(h) \ {last}
  <2>1. Answered(g, last)
    <3> SUFFICES ASSUME NEW k \in 1..g[last].n
                 PROVE  last + k \in DOMAIN g /\ g[last + k].kind = "tool" /\ g[last + k].n = k
      BY DEF Answered
    <3>1. g[last].n = n
      BY <1>1, <1>3 DEF n
    <3>2. last + k \in (last + 1)..(last + n) /\ (last + k) - last = k
      BY <1>1, <3>1
    <3>3. last + k \in DOMAIN g
      BY <1>1, <1>3, <3>2
    <3>4. g[last + k] = r[k]
      BY <1>3, <3>2
    <3>5. r[k].kind = "tool" /\ r[k].n = k
      BY <1>2, <3>1
    <3>6. QED
      BY <3>3, <3>4, <3>5
  <2>2. QED
    BY <1>1, <1>3, <1>4, <1>5, <2>1 DEF Open
<1>8. QED
  BY <1>1, <1>3, <1>4, <1>6, <1>7 DEF g, r

\* Messages that change in neither kind nor number stand as before.
LEMMA Repainted ==
  ASSUME NEW h \in Seq(Message), NEW g \in Seq(Message), Ordered(h), DOMAIN g = DOMAIN h,
         \A i \in DOMAIN h : g[i].kind = h[i].kind /\ g[i].n = h[i].n
  PROVE  Ordered(g) /\ Open(g) = Open(h)
<1> USE Places
<1>1. \A i \in DOMAIN h : Answers(g, i) <=> Answers(h, i)
  <2> SUFFICES ASSUME NEW i \in DOMAIN h PROVE Answers(g, i) <=> Answers(h, i)
    OBVIOUS
  <2>1. i > h[i].n => i - h[i].n \in DOMAIN h
    OBVIOUS
  <2>2. QED
    BY <2>1 DEF Answers
<1>2. \A i \in DOMAIN h : InRow(h, i) => InRow(g, i)
  <2> SUFFICES ASSUME NEW i \in DOMAIN h, InRow(h, i) PROVE InRow(g, i)
    OBVIOUS
  <2>1. 1 \in DOMAIN h
    OBVIOUS
  <2>2. QED
    BY <1>1, <2>1 DEF InRow
<1>3. Ordered(g)
  BY <1>2 DEF Ordered
<1>4. \A i \in DOMAIN h : Answered(g, i) <=> Answered(h, i)
  BY DEF Answered
<1>5. Open(g) = Open(h)
  BY <1>4 DEF Open
<1>6. QED
  BY <1>3, <1>5

LEMMA OpenFinite ==
  ASSUME NEW h \in Seq(Message)
  PROVE  IsFiniteSet(Open(h)) /\ Cardinality(Open(h)) \in Nat
<1>1. IsFiniteSet(1..Len(h))
  BY FS_Interval, Places
<1>2. Open(h) \in SUBSET (1..Len(h))
  BY Places DEF Open
<1>3. QED
  BY <1>1, <1>2, FS_Subset, FS_CardinalityType

\* A history cut short behind a summary: no answer loses its place, and no call
\* that had its answers loses them.
LEMMA CutShort ==
  ASSUME NEW h \in Seq(Message), NEW g \in Seq(Message), NEW d \in Nat,
         Len(g) + d = Len(h), Len(g) > 0, g[1].kind = "summary",
         \A j \in 2..Len(g) : g[j] = h[j + d],
         Ordered(h)
  PROVE  /\ Ordered(g)
         /\ Cardinality(Open(g)) <= Cardinality(Open(h))
<1> USE Places
<1>1. /\ 1 \in DOMAIN g
      /\ \A j \in DOMAIN g : j > 1 => g[j] = h[j + d] /\ j + d \in DOMAIN h
  <2>1. DOMAIN g = 1..Len(g) /\ DOMAIN h = 1..Len(h) /\ Len(g) \in Nat /\ Len(h) \in Nat
    OBVIOUS
  <2>2. \A j \in 1..Len(g) : j > 1 => j \in 2..Len(g) /\ j + d \in 1..Len(h)
    BY <2>1
  <2>3. QED
    BY <2>1, <2>2
<1>2. Ordered(g)
  <2> SUFFICES ASSUME NEW i \in DOMAIN g, g[i].kind = "tool" PROVE InRow(g, i)
    BY DEF Ordered
  <2>1. i > 1 /\ i \in Nat /\ g[i].n \in Nat
    OBVIOUS
  <2>2. InRow(h, i + d)
    BY <1>1, <2>1 DEF Ordered
  <2>3. CASE /\ Answers(h, i + d)
             /\ \A j \in DOMAIN h : h[i + d].n > (i + d) - j /\ j <= i + d => h[j].kind = "tool"
    <3>1. \A j \in DOMAIN g : j > 1 /\ g[i].n > i - j /\ j <= i => g[j].kind = "tool"
      <4> SUFFICES ASSUME NEW j \in DOMAIN g, j > 1, g[i].n > i - j, j <= i
                   PROVE  g[j].kind = "tool"
        OBVIOUS
      <4>1. j + d \in DOMAIN h /\ g[j] = h[j + d] /\ (i + d) - (j + d) = i - j
            /\ g[i] = h[i + d] /\ j + d <= i + d
        BY <1>1, <2>1
      <4>2. QED
        BY <2>3, <4>1
    <3>2. CASE i > g[i].n + 1
      <4>1. i - g[i].n \in DOMAIN g /\ i - g[i].n > 1
        BY <2>1, <3>2
      <4>2. (i + d) - h[i + d].n = (i - g[i].n) + d
        BY <1>1, <2>1
      <4>3. Answers(g, i)
        BY <1>1, <2>1, <2>3, <4>1, <4>2 DEF Answers
      <4>4. ~ (g[i].n > i - 1)
        BY <2>1, <3>2
      <4>5. \A j \in DOMAIN g : g[i].n > i - j /\ j <= i => g[j].kind = "tool"
        BY <2>1, <3>1, <4>4
      <4>6. QED
        BY <4>3, <4>5 DEF InRow
    <3>3. CASE ~ (i > g[i].n + 1)
      <4>1. \A j \in DOMAIN g : j > 1 => g[i].n > i - j
        BY <2>1, <3>3
      <4>2. QED
        BY <3>1, <4>1 DEF InRow
    <3>4. QED
      BY <3>2, <3>3
  <2>4. CASE h[1].kind = "summary" /\ \A j \in DOMAIN h : 1 < j /\ j <= i + d => h[j].kind = "tool"
    <3>1. \A j \in DOMAIN g : 1 < j /\ j <= i => 1 < j + d /\ j + d <= i + d
      BY <2>1
    <3>2. \A j \in DOMAIN g : 1 < j /\ j <= i => g[j].kind = "tool"
      BY <1>1, <2>4, <3>1
    <3>3. QED
      BY <3>2 DEF InRow
  <2>5. QED
    BY <2>2, <2>3, <2>4 DEF InRow
<1>3. \A i \in Open(g) : i \in Nat /\ i + d \in Open(h)
  <2> SUFFICES ASSUME NEW i \in Open(g) PROVE i \in Nat /\ i + d \in Open(h)
    OBVIOUS
  <2>1. i \in DOMAIN g /\ g[i].kind = "calls" /\ ~Answered(g, i) /\ i > 1
    BY DEF Open
  <2>2. g[i] = h[i + d] /\ i + d \in DOMAIN h
    BY <1>1, <2>1
  <2>3. ASSUME Answered(h, i + d) PROVE Answered(g, i)
    <3> SUFFICES ASSUME NEW k \in 1..g[i].n
                 PROVE  i + k \in DOMAIN g /\ g[i + k].kind = "tool" /\ g[i + k].n = k
      BY DEF Answered
    <3>1. (i + d) + k \in DOMAIN h /\ h[(i + d) + k].kind = "tool" /\ h[(i + d) + k].n = k
      BY <2>2, <2>3 DEF Answered
    <3>2. (i + d) + k = (i + k) + d /\ i + k \in DOMAIN g /\ i + k > 1
      BY <2>1, <3>1
    <3>3. QED
      BY <1>1, <3>1, <3>2
  <2>4. QED
    BY <2>1, <2>2, <2>3 DEF Open
<1>4. IsFiniteSet(Open(h))
  BY OpenFinite
<1>5. [i \in Open(g) |-> i + d] \in Injection(Open(g), Open(h))
  BY <1>3 DEF Injection, IsInjective
<1>6. QED
  BY <1>2, <1>4, <1>5, FS_Injection
------------------------------------------------------------------------------
(***************************************************************************)
(* The offload policy.                                                     *)
(***************************************************************************)
\* The eligible messages before a place, counted: one more behind each of them.
LEMMA EligibleCounted ==
  ASSUME NEW h \in Seq(Message), NEW i \in Nat
  PROVE  /\ Cardinality(EligibleIn(h, i)) \in Nat
         /\ \A j \in Nat : i > 0 /\ i < j /\ Eligible(h, i) =>
              Cardinality(EligibleIn(h, i)) < Cardinality(EligibleIn(h, j))
<1> DEFINE E(j) == EligibleIn(h, j)
<1>1. \A j \in Nat : E(j) \in SUBSET (1..j) /\ IsFiniteSet(1..j)
  BY FS_Interval DEF EligibleIn
<1>2. \A j \in Nat : IsFiniteSet(E(j)) /\ Cardinality(E(j)) \in Nat
  BY <1>1, FS_Subset, FS_CardinalityType
<1>3. ASSUME NEW j \in Nat, i > 0, i < j, Eligible(h, i)
      PROVE  Cardinality(E(i)) < Cardinality(E(j))
  <2>1. ~ (i \in E(i)) /\ E(i) \cup {i} \in SUBSET E(j)
    BY <1>3 DEF EligibleIn
  <2>2. Cardinality(E(i) \cup {i}) = Cardinality(E(i)) + 1
    BY <1>2, <2>1, FS_AddElement
  <2>3. Cardinality(E(i) \cup {i}) <= Cardinality(E(j))
    BY <1>2, <2>1, FS_Subset
  <2> HIDE DEF E
  <2>4. QED
    BY <1>2, <2>2, <2>3
<1>4. QED
  BY <1>2, <1>3

Reference(m, file, text) ==
  [m EXCEPT !.size = "ref", !.exempt = "path", !.file = file, !.text = text]

\* What a reference keeps of its message, and what it says.
IsReference(r, m, file, text) ==
  /\ r \in Message
  /\ r.kind = m.kind /\ r.n = m.n
  /\ r.exempt = "path" /\ r.file = file /\ r.text = text

LEMMA MessageOffloaded ==
  ASSUME NEW m \in Message, NEW file \in Nat, NEW text \in Nat
  PROVE  IsReference(Reference(m, file, text), m, file, text)
<1> DEFINE r == Reference(m, file, text)
<1>1. /\ r = [m EXCEPT !.size = "ref", !.exempt = "path", !.file = file, !.text = text]
      /\ r.kind = m.kind /\ r.n = m.n /\ r.exempt = "path" /\ r.file = file /\ r.text = text
  BY DEF Message, Reference
<1>2. r \in Message
  BY DEF Message, Size, Exempt, Reference
<1>3. QED
  BY <1>1, <1>2 DEF IsReference

\* What the writes of a pass leave in the directory.
LEMMA WrittenHow ==
  ASSUME FilesKnown, NEW n \in Nat, NEW torn \in BOOLEAN,
         Write(n, torn), nextId' = NextIdAfter(n, torn)
  PROVE  /\ FilesKnown'
         /\ \A id \in Nat : Texts(id) \in Nat
         /\ \A id \in Nat : id < nextId => files'[id] = files[id]
         /\ \A k \in Nat : k < n => files'[nextId + k].text = Texts(nextId + k) + 1
<1> DEFINE last == nextId + n - IF torn THEN 0 ELSE 1
           ids == nextId..last
<1>1. PICK cut \in nextId..(nextId + n + 1) :
        /\ files' = Written(n, torn, cut)
        /\ full' = (full \/ \E id \in DOMAIN files' : ~files'[id].whole)
  BY DEF Write
<1>2. /\ nextId \in Nat /\ nextId' \in Nat /\ last \in Int /\ nextId' = last + 1
      /\ nextId' >= nextId + n
  BY DEF FilesKnown, NextIdAfter
<1>3. files' = [id \in DOMAIN files \cup ids |->
                  IF id \in ids THEN [text |-> Texts(id) + 1, whole |-> id < cut]
                                 ELSE files[id]]
  BY <1>1 DEF Written
<1> HIDE DEF last
<1>4. \A id \in Nat : Texts(id) \in Nat
  <2>1. \A id \in DOMAIN files : files[id].text \in Nat
    BY DEF FilesKnown
  <2>2. QED
    BY <2>1 DEF Texts
<1>5. DOMAIN files' = {id \in Nat : id < nextId'}
  BY <1>2, <1>3 DEF FilesKnown
<1>6. \A id \in Nat : id < nextId => id \in DOMAIN files /\ ~ (id \in ids)
  BY <1>2 DEF FilesKnown
<1>7. \A id \in Nat : id < nextId => files'[id] = files[id]
  BY <1>3, <1>6
<1>8. \A id \in ids : id \in Nat /\ files'[id] = [text |-> Texts(id) + 1, whole |-> id < cut]
  BY <1>2, <1>3
<1>9. \A id \in DOMAIN files' : files'[id] \in [text : Nat, whole : BOOLEAN]
  <2>1. \A t \in Nat, b \in BOOLEAN : [text |-> t, whole |-> b] \in [text : Nat, whole : BOOLEAN]
    OBVIOUS
  <2>2. ASSUME NEW id \in ids PROVE files'[id] \in [text : Nat, whole : BOOLEAN]
    <3> DEFINE b == id < cut
    <3>1. b \in BOOLEAN
      OBVIOUS
    <3>2. Texts(id) + 1 \in Nat /\ files'[id] = [text |-> Texts(id) + 1, whole |-> b]
      BY <1>4, <1>8, <2>2
    <3> HIDE DEF b
    <3>3. QED
      BY <2>1, <3>1, <3>2
  <2>3. \A id \in DOMAIN files' : id \in ids \/ (id \in DOMAIN files /\ id \in Nat /\ id < nextId)
    BY <1>2, <1>3 DEF FilesKnown
  <2>4. QED
    BY <1>7, <2>2, <2>3 DEF FilesKnown
<1>10. full' \in BOOLEAN /\ (~full' => \A id \in DOMAIN files' : files'[id].whole)
  BY <1>1 DEF FilesKnown
<1>11. FilesKnown'
  BY <1>2, <1>5, <1>9, <1>10 DEF FilesKnown
<1>12. ASSUME NEW k \in Nat, k < n PROVE files'[nextId + k].text = Texts(nextId + k) + 1
  <2>1. nextId + k \in ids
    BY <1>2, <1>12
  <2>2. files'[nextId + k] = [text |-> Texts(nextId + k) + 1, whole |-> nextId + k < cut]
    BY <1>8, <2>1
  <2>3. QED
    BY <2>2
<1>13. QED
  BY <1>4, <1>7, <1>11, <1>12

\* What offloading leaves and what it replaces.
LEMMA OffloadedHow ==
  ASSUME NEW e \in Nat, history \in Seq(Message), FilesKnown
  PROVE  /\ Offloaded(history, e) \in Seq(Message)
         /\ DOMAIN Offloaded(history, e) = DOMAIN history
         /\ \A i \in DOMAIN history :
              /\ ~ (i < e /\ Eligible(history, i)) => Offloaded(history, e)[i] = history[i]
              /\ i < e /\ Eligible(history, i) =>
                   IsReference(Offloaded(history, e)[i], history[i],
                               nextId + Cardinality(EligibleIn(history, i)),
                               Texts(nextId + Cardinality(EligibleIn(history, i))) + 1)
<1> DEFINE g == Offloaded(history, e)
           place(i) == nextId + Cardinality(EligibleIn(history, i))
<1> USE Places
<1>1. \A i \in DOMAIN history : place(i) \in Nat /\ Texts(place(i)) + 1 \in Nat
  <2>1. \A i \in DOMAIN history : Cardinality(EligibleIn(history, i)) \in Nat
    BY EligibleCounted
  <2>2. \A id \in Nat : Texts(id) \in Nat
    BY DEF Texts, FilesKnown
  <2>3. \A i \in DOMAIN history : place(i) \in Nat
    BY <2>1 DEF FilesKnown
  <2> HIDE DEF place
  <2>4. QED
    BY <2>2, <2>3
<1>2. g = [i \in DOMAIN history |->
             IF i < e /\ Eligible(history, i)
               THEN Reference(history[i], place(i), Texts(place(i)) + 1) ELSE history[i]]
  BY DEF Offloaded, Reference
<1> HIDE DEF g, place
<1>3. \A i \in DOMAIN history :
        i < e /\ Eligible(history, i) =>
          IsReference(g[i], history[i], place(i), Texts(place(i)) + 1)
  <2> SUFFICES ASSUME NEW i \in DOMAIN history, i < e, Eligible(history, i)
               PROVE  IsReference(g[i], history[i], place(i), Texts(place(i)) + 1)
    OBVIOUS
  <2>1. g[i] = Reference(history[i], place(i), Texts(place(i)) + 1)
    BY <1>2
  <2>2. history[i] \in Message /\ place(i) \in Nat /\ Texts(place(i)) + 1 \in Nat
    BY <1>1
  <2>3. QED
    BY <2>1, <2>2, MessageOffloaded
<1>4. \A i \in DOMAIN history : ~ (i < e /\ Eligible(history, i)) => g[i] = history[i]
  BY <1>2
<1>5. DOMAIN g = DOMAIN history
  BY <1>2
<1>6. g \in Seq(Message)
  <2>1. g = [i \in 1..Len(history) |-> g[i]] /\ \A i \in 1..Len(history) : g[i] \in Message
    BY <1>2, <1>3, <1>4 DEF IsReference
  <2>2. QED
    BY <2>1, IsASeq
<1>7. QED
  BY <1>3, <1>4, <1>5, <1>6 DEF g, place

\* However far the offload gets, torn at its end or not.
LEMMA OffloadedKeeps ==
  ASSUME NEW e \in Nat, NEW torn \in BOOLEAN,
         history \in Seq(Message), FilesKnown, References, Ordered(history),
         history' = Offloaded(history, e),
         nextId' = NextIdAfter(Cardinality(EligibleIn(history, e)), torn),
         Write(Cardinality(EligibleIn(history, e)), torn)
  PROVE  /\ history' \in Seq(Message) /\ FilesKnown'
         /\ DOMAIN history' = DOMAIN history
         /\ Ordered(history')
         /\ Open(history') = Open(history)
         /\ References'
<1> USE Places
<1> DEFINE count(i) == Cardinality(EligibleIn(history, i))
           out(i) == i < e /\ Eligible(history, i)
<1>1. /\ history' \in Seq(Message)
      /\ DOMAIN history' = DOMAIN history
      /\ \A i \in DOMAIN history :
           /\ ~out(i) => history'[i] = history[i]
           /\ out(i) => IsReference(history'[i], history[i], nextId + count(i),
                                    Texts(nextId + count(i)) + 1)
  BY OffloadedHow
<1>2. Ordered(history') /\ Open(history') = Open(history)
  <2>1. \A i \in DOMAIN history :
          history'[i].kind = history[i].kind /\ history'[i].n = history[i].n
    BY <1>1 DEF IsReference
  <2>2. QED
    BY <1>1, <2>1, Repainted
<1>3. count(e) \in Nat /\ \A i \in DOMAIN history : count(i) \in Nat
  BY EligibleCounted
<1>4. \A i \in DOMAIN history : out(i) => count(i) < count(e)
  BY EligibleCounted
<1>5. \A i, j \in DOMAIN history : out(i) /\ i < j => count(i) < count(j)
  BY EligibleCounted
<1>6. /\ FilesKnown'
      /\ \A id \in Nat : id < nextId => files'[id] = files[id]
      /\ \A k \in Nat : k < count(e) => files'[nextId + k].text = Texts(nextId + k) + 1
  BY <1>3, WrittenHow
<1> HIDE DEF count
<1>7. nextId' \in Nat /\ nextId' >= nextId + count(e) /\ nextId \in Nat
  BY <1>3 DEF NextIdAfter, count, FilesKnown
<1> HIDE DEF out
<1>8. ASSUME NEW i \in DOMAIN history PROVE Leads(history[i])'
  <2>1. CASE out(i)
    <3>1. /\ history'[i].exempt = "path" /\ history'[i].file = nextId + count(i)
          /\ history'[i].text = Texts(nextId + count(i)) + 1
      BY <1>1, <1>8, <2>1 DEF IsReference
    <3>2. /\ count(i) \in Nat /\ count(i) < count(e) /\ nextId + count(i) < nextId'
          /\ files'[nextId + count(i)].text = Texts(nextId + count(i)) + 1
      BY <1>3, <1>4, <1>6, <1>7, <1>8, <2>1
    <3>3. QED
      BY <3>1, <3>2 DEF Leads
  <2>2. CASE ~out(i)
    <3>1. /\ history'[i] = history[i] /\ history[i].file \in Nat \cup {NoFile}
          /\ Leads(history[i])
      BY <1>1, <1>8, <2>2, Messages DEF References
    <3>2. history[i].file < nextId /\ nextId <= nextId'
      BY <1>3, <1>7, <3>1 DEF Leads
    <3>3. history'[i].file < nextId'
      BY <1>7, <3>1, <3>2 DEF NoFile
    <3>4. history'[i].file # NoFile => files'[history'[i].file].text = history'[i].text
      BY <1>6, <3>1, <3>2 DEF Leads
    <3>5. QED
      BY <3>1, <3>3, <3>4 DEF Leads
  <2>3. QED
    BY <2>1, <2>2
<1>9. ASSUME NEW i \in DOMAIN history, NEW j \in DOMAIN history, i # j,
             history'[i].file # NoFile
      PROVE  history'[i].file # history'[j].file
  <2>0. /\ history[i].file \in Nat \cup {NoFile} /\ history[j].file \in Nat \cup {NoFile}
        /\ history[i].file < nextId /\ history[j].file < nextId
        /\ history[i].file # NoFile => history[i].file # history[j].file
    BY <1>9, Messages DEF References, Leads
  <2>1. \A k \in DOMAIN history : /\ out(k) => history'[k].file = nextId + count(k)
                                  /\ ~out(k) => history'[k].file = history[k].file
    BY <1>1 DEF IsReference
  <2>2. CASE out(i) /\ out(j)
    <3>1. i < j \/ j < i
      BY <1>9
    <3>2. count(i) # count(j)
      BY <1>3, <1>5, <2>2, <3>1
    <3>3. QED
      BY <1>3, <1>7, <2>1, <2>2, <3>2
  <2>3. CASE ~out(i) \/ ~out(j)
    BY <1>3, <1>7, <1>9, <2>0, <2>1, <2>3 DEF NoFile
  <2>4. QED
    BY <2>2, <2>3
<1>10. References'
  BY <1>1, <1>8, <1>9 DEF References
<1>11. QED
  BY <1>1, <1>2, <1>6, <1>10
------------------------------------------------------------------------------
(***************************************************************************)
(* The other steps that touch the history.                                 *)
(***************************************************************************)
\* With the files as they are, a message leads where it did, and one without a
\* file leads nowhere.
LEMMA LeadsStill ==
  ASSUME FilesKnown, UNCHANGED <<nextId, files>>, NEW i
  PROVE  /\ \A j : history'[i] = history[j] /\ Leads(history[j]) => Leads(history[i])'
         /\ history'[i].size # "ref" /\ history'[i].file = NoFile => Leads(history[i])'
<1>1. NoFile < nextId
  BY DEF NoFile, FilesKnown
<1>2. QED
  BY <1>1 DEF Leads

\* A message is pushed.
LEMMA PushKeeps ==
  ASSUME IInv, NEW m \in Message, m.kind # "tool", m.size # "ref", m.file = NoFile,
         history' = Append(history, m), UNCHANGED <<nextId, files>>
  PROVE  /\ history' \in Seq(Message)
         /\ history' # <<>> /\ history'[Len(history')] = m
         /\ Ordered(history')
         /\ Open(history') \subseteq
              Open(history) \cup (IF m.kind = "calls" THEN {Len(history')} ELSE {})
         /\ References'
<1>0. history \in Seq(Message) /\ FilesKnown /\ Ordered(history) /\ References
  BY DEF IInv, TypeOK
<1>1. /\ history' \in Seq(Message)
      /\ Len(history') = Len(history) + 1 /\ history'[Len(history) + 1] = m
      /\ \A i \in DOMAIN history : history'[i] = history[i]
      /\ DOMAIN history' = DOMAIN history \cup {Len(history) + 1}
      /\ Ordered(history')
      /\ Open(history') \subseteq
           Open(history) \cup (IF m.kind = "calls" THEN {Len(history) + 1} ELSE {})
  BY <1>0, MessagePushed
<1>2. Len(history) \in Nat /\ history' # <<>>
  BY <1>0, <1>1, Places, EmptySeq
<1>3. References'
  <2>1. ASSUME NEW i \in DOMAIN history' PROVE Leads(history[i])'
    BY <1>0, <1>1, LeadsStill DEF References
  <2>2. \A i, j \in DOMAIN history' :
          i # j /\ history'[i].file # NoFile => history'[i].file # history'[j].file
    BY <1>0, <1>1 DEF References
  <2>3. QED
    BY <2>1, <2>2 DEF References
<1>4. QED
  BY <1>0, <1>1, <1>2, <1>3

\* A batch is answered.
LEMMA BatchKeeps ==
  ASSUME IInv, Ran
  PROVE  /\ history' \in Seq(Message)
         /\ Ordered(history')
         /\ Open(history') \subseteq Open(history) \ {Len(history)}
         /\ References'
<1>0. /\ history \in Seq(Message) /\ FilesKnown /\ Ordered(history) /\ References
      /\ history # <<>> /\ history[Len(history)].kind = "calls"
      /\ UNCHANGED <<nextId, files>>
  BY DEF IInv, TypeOK, Ran, Last
<1>1. PICK outs \in [1..history[Len(history)].n -> Outputs] :
        history' = history \o Results(outs)
  BY DEF Ran, Last
<1>2. /\ history' \in Seq(Message) /\ Ordered(history')
      /\ Open(history') \subseteq Open(history) \ {Len(history)}
      /\ \A i \in DOMAIN history' :
           IF i \in DOMAIN history THEN history'[i] = history[i]
           ELSE history'[i].file = NoFile /\ history'[i].size # "ref"
  BY <1>0, <1>1, BatchAnswered
<1>3. References'
  <2>1. ASSUME NEW i \in DOMAIN history' PROVE Leads(history[i])'
    BY <1>0, <1>2, LeadsStill DEF References
  <2>2. \A i, j \in DOMAIN history' :
          i # j /\ history'[i].file # NoFile => history'[i].file # history'[j].file
    BY <1>0, <1>2 DEF References
  <2>3. QED
    BY <2>1, <2>2 DEF References
<1>4. QED
  BY <1>0, <1>2, <1>3

\* A summary takes the place of all but the last messages.
LEMMA SummaryKeeps ==
  ASSUME IInv, NEW s \in {"small", "big"}, Prefix(history) > 0,
         history' = Summarised(history, s), UNCHANGED <<nextId, files>>
  PROVE  /\ history' \in Seq(Message)
         /\ Ordered(history')
         /\ Cardinality(Open(history')) <= Cardinality(Open(history))
         /\ References'
<1> DEFINE m == Msg("summary", 0, s, "no")
           d == Prefix(history) - 1
           kept == SubSeq(history, Prefix(history) + 1, Len(history))
<1>0. history \in Seq(Message) /\ FilesKnown /\ Ordered(history) /\ References
  BY DEF IInv, TypeOK
<1>1. m \in Message /\ m.kind = "summary" /\ m.size # "ref" /\ m.file = NoFile
  BY Messages DEF Kind, Size, Exempt
<1>2. /\ d \in Nat /\ KeepRecent \in Nat /\ KeepRecent > 0
      /\ Len(history) \in Nat /\ Len(history) = d + KeepRecent + 1
      /\ Prefix(history) + 1 = d + 2
  BY <1>0, Places, AgentAssumption DEF Prefix
<1>3. history' = <<m>> \o kept /\ kept = SubSeq(history, d + 2, Len(history))
  BY <1>2 DEF Summarised
<1> HIDE DEF m, d
<1>4. /\ kept \in Seq(Message) /\ Len(kept) = KeepRecent
      /\ \A i \in 1..KeepRecent : kept[i] = history[i + d + 1]
  <2>1. \A i \in (d + 2)..Len(history) : history[i] \in Message
    BY <1>0, <1>2, Places
  <2>2. /\ kept \in Seq(Message)
        /\ Len(kept) = IF d + 2 <= Len(history) THEN Len(history) - (d + 2) + 1 ELSE 0
        /\ \A i \in 1..(Len(history) - (d + 2) + 1) : kept[i] = history[(d + 2) + i - 1]
    BY <1>2, <1>3, <2>1, SubSeqProperties
  <2> HIDE DEF kept
  <2>3. Len(history) - (d + 2) + 1 = KeepRecent /\ d + 2 <= Len(history)
    BY <1>2
  <2>4. \A i \in 1..KeepRecent : (d + 2) + i - 1 = i + d + 1
    BY <1>2
  <2>5. QED
    BY <2>2, <2>3, <2>4
<1> HIDE DEF kept
<1>5. <<m>> \in Seq(Message) /\ Len(<<m>>) = 1 /\ <<m>>[1] = m
  BY <1>1
<1>6. /\ history' \in Seq(Message) /\ Len(history') = KeepRecent + 1
      /\ DOMAIN history' = 1..(KeepRecent + 1)
      /\ history'[1] = m
      /\ \A j \in 2..(KeepRecent + 1) : history'[j] = history[j + d]
  <2>1. /\ history' \in Seq(Message)
        /\ DOMAIN history' = 1..(1 + KeepRecent)
        /\ \A i \in 1..1 : history'[i] = <<m>>[i]
        /\ \A i \in (1 + 1)..(1 + KeepRecent) : history'[i] = kept[i - 1]
    BY <1>3, <1>4, <1>5, Joined
  <2>2. \A j \in 2..(KeepRecent + 1) : j - 1 \in 1..KeepRecent /\ (j - 1) + d + 1 = j + d
    BY <1>2
  <2>3. history'[1] = m
    BY <1>5, <2>1
  <2>4. \A j \in 2..(KeepRecent + 1) : history'[j] = history[j + d]
    BY <1>2, <1>4, <2>1, <2>2
  <2>5. Len(history') = KeepRecent + 1
    BY <1>2, <2>1, Places
  <2>6. QED
    BY <1>2, <2>1, <2>3, <2>4, <2>5
<1>7. Ordered(history') /\ Cardinality(Open(history')) <= Cardinality(Open(history))
  BY <1>0, <1>1, <1>2, <1>6, CutShort
<1>8. References'
  <2>1. \A j \in DOMAIN history' : j = 1 \/ (j \in 2..(KeepRecent + 1) /\ j + d \in DOMAIN history)
    BY <1>0, <1>2, <1>6, Places
  <2>2. ASSUME NEW i \in DOMAIN history' PROVE Leads(history[i])'
    <3>1. CASE i = 1
      BY <1>0, <1>1, <1>6, <3>1, LeadsStill
    <3>2. CASE i # 1
      <4>1. history'[i] = history[i + d] /\ Leads(history[i + d])
        BY <1>0, <1>6, <2>1, <3>2 DEF References
      <4>2. QED
        BY <1>0, <4>1, LeadsStill
    <3>3. QED
      BY <3>1, <3>2
  <2>3. ASSUME NEW i \in DOMAIN history', NEW j \in DOMAIN history',
               i # j, history'[i].file # NoFile
        PROVE  history'[i].file # history'[j].file
    <3>1. i # 1 /\ i + d \in DOMAIN history /\ history'[i] = history[i + d]
      BY <1>1, <1>6, <2>1, <2>3
    <3>2. CASE j = 1
      BY <1>1, <1>6, <2>3, <3>2
    <3>3. CASE j # 1
      <4>1. j + d \in DOMAIN history /\ history'[j] = history[j + d] /\ i + d # j + d
        BY <1>2, <1>6, <2>1, <2>3, <3>1, <3>3
      <4>2. QED
        BY <1>0, <2>3, <3>1, <4>1 DEF References
    <3>4. QED
      BY <3>2, <3>3
  <2>4. QED
    BY <2>2, <2>3 DEF References
<1>9. QED
  BY <1>0, <1>6, <1>7, <1>8
------------------------------------------------------------------------------
(***************************************************************************)
(* The steps.                                                              *)
(***************************************************************************)
\* The counters' part of a step: everything of IInv that looks past the history.
Counters ==
  /\ pc \in {"idle", "offload", "summary", "check", "ask", "tools"}
  /\ turns \in 0..(MaxTurns + 1) /\ asked \in 0..(MaxTurns + 1)
  /\ reply \in {"none", "answer", "maxturns"}
  /\ refused \in Nat /\ chats \in 0..MaxChats
  /\ Budget

LEMMA Parts ==
  IInv <=> /\ Counters
           /\ history \in Seq(Message)
           /\ pc = "tools" => history # <<>> /\ Last(history).kind = "calls"
           /\ OffloadFirst
           /\ Ordered(history)
           /\ OpenCalls
           /\ References
           /\ FilesKnown
BY DEF IInv, TypeOK, Counters, FilesKnown

LEMMA FilesStay ==
  ASSUME FilesKnown, UNCHANGED <<nextId, files, full>>
  PROVE  FilesKnown'
BY DEF FilesKnown

\* A step that leaves the history alone.
LEMMA QuietKeeps ==
  ASSUME IInv, Counters', UNCHANGED <<history, nextId, files, full, refused>>,
         pc' # "tools", pc # "tools", OffloadFirst'
  PROVE  IInv'
<1>1. history' = history /\ nextId' = nextId /\ files' = files /\ refused' = refused
  OBVIOUS
<1>2. history' \in Seq(Message) /\ Ordered(history')
  BY <1>1, Parts
<1>3. FilesKnown'
  BY Parts, FilesStay
<1>4. OpenCalls'
  BY <1>1, Parts DEF OpenCalls
<1>5. References'
  BY <1>1, Parts DEF References, Leads
<1>6. QED
  BY <1>2, <1>3, <1>4, <1>5 DEF IInv, TypeOK, Counters, FilesKnown

\* A step of the chat that changes the history, between batches.
LEMMA LoudKeeps ==
  ASSUME IInv, Counters', refused' = refused,
         history' \in Seq(Message), FilesKnown', Ordered(history'), References',
         pc' # "tools", pc # "tools", OffloadFirst',
         Cardinality(Open(history')) <= Cardinality(Open(history))
  PROVE  IInv'
<1>1. /\ refused \in Nat /\ Cardinality(Open(history)) <= refused
  BY Parts DEF OpenCalls, Counters
<1>2. Cardinality(Open(history')) \in Nat /\ Cardinality(Open(history)) \in Nat
  BY OpenFinite, Parts
<1>3. Cardinality(Open(history')) <= refused'
  BY <1>1, <1>2
<1>4. OpenCalls'
  BY <1>3 DEF OpenCalls
<1>5. QED
  BY <1>4 DEF IInv, TypeOK, Counters, FilesKnown

LEMMA Begins == Init => IInv
<1> SUFFICES ASSUME Init PROVE IInv
  OBVIOUS
<1>1. history = <<>> /\ history \in Seq(Message) /\ Len(history) = 0 /\ DOMAIN history = {}
  BY EmptySeq DEF Init
<1>2. Counters
  BY AgentAssumption DEF Init, Counters, Budget
<1>3. Ordered(history)
  BY <1>1 DEF Ordered
<1>4. OpenCalls
  <2>1. Open(history) = {}
    BY <1>1 DEF Open
  <2>2. QED
    BY <2>1, FS_EmptySet DEF OpenCalls, Init
<1>5. References
  BY <1>1 DEF References
<1>6. FilesKnown /\ OffloadFirst
  <2>1. nextId = 0 /\ DOMAIN files = {} /\ full = FALSE /\ pc = "idle"
    BY DEF Init
  <2>2. {id \in Nat : id < 0} = {}
    OBVIOUS
  <2>3. QED
    BY <2>1, <2>2 DEF FilesKnown, OffloadFirst
<1>7. QED
  BY <1>1, <1>2, <1>3, <1>4, <1>5, <1>6 DEF IInv, TypeOK, Counters, FilesKnown, Init

LEMMA ChatKeeps ==
  ASSUME IInv, NEW s \in {"small", "big"}, Chat(s)
  PROVE  IInv'
<1> DEFINE m == Msg("user", 0, s, "no")
<1>1. m \in Message /\ m.kind = "user" /\ m.size # "ref" /\ m.file = NoFile
  BY Messages DEF Kind, Size, Exempt
<1>2. history' = Append(history, m) /\ UNCHANGED <<nextId, files, full>>
  BY DEF Chat
<1> HIDE DEF m
<1>3. /\ history' \in Seq(Message) /\ FilesKnown' /\ Ordered(history') /\ References'
      /\ Open(history') \subseteq Open(history)
  BY <1>1, <1>2, PushKeeps, FilesStay, Parts
<1>4. Cardinality(Open(history')) <= Cardinality(Open(history))
  BY <1>3, OpenFinite, FS_Subset, Parts
<1>5. Counters'
  BY AgentAssumption, Parts DEF Chat, Counters, Budget
<1>6. OffloadFirst'
  BY DEF Chat, OffloadFirst
<1>7. QED
  BY <1>3, <1>4, <1>5, <1>6, LoudKeeps DEF Chat

LEMMA ClearKeeps ==
  ASSUME IInv, Clear
  PROVE  IInv'
<1>1. history' \in Seq(Message) /\ DOMAIN history' = {}
  BY EmptySeq DEF Clear
<1>2. Counters'
  BY Parts DEF Clear, Counters, Budget
<1>3. Ordered(history') /\ References'
  BY <1>1 DEF Ordered, References
<1>4. OpenCalls'
  <2>1. Open(history') = {}
    BY <1>1 DEF Open
  <2>2. QED
    BY <2>1, FS_EmptySet DEF OpenCalls, Clear
<1>5. FilesKnown' /\ OffloadFirst'
  <2>1. nextId' = 0 /\ DOMAIN files' = {} /\ full' = FALSE /\ pc' = "idle"
    BY DEF Clear
  <2>2. {id \in Nat : id < 0} = {}
    OBVIOUS
  <2>3. QED
    BY <2>1, <2>2 DEF FilesKnown, OffloadFirst
<1>6. QED
  BY <1>1, <1>2, <1>3, <1>4, <1>5 DEF Clear, IInv, TypeOK, Counters, FilesKnown

LEMMA OffloadPolicyKeeps ==
  ASSUME IInv, OffloadPolicy
  PROVE  IInv'
<1> DEFINE e == Len(history) + 1
<1>0. e \in Nat /\ history \in Seq(Message) /\ FilesKnown /\ References /\ Ordered(history)
  BY Places, Parts
<1>1. /\ history' = Offloaded(history, e)
      /\ nextId' = NextIdAfter(Cardinality(EligibleIn(history, e)), FALSE)
      /\ Write(Cardinality(EligibleIn(history, e)), FALSE)
      /\ pc = "offload" /\ pc' \in {"check", "summary"}
  BY DEF OffloadPolicy, AfterOffload
<1>2. \A i \in DOMAIN history : i < e
  BY <1>0, Places
<1> HIDE DEF e
<1>3. /\ history' \in Seq(Message) /\ FilesKnown' /\ Ordered(history') /\ References'
      /\ Open(history') = Open(history)
  BY <1>0, <1>1, OffloadedKeeps
<1>4. Counters'
  BY <1>1, Parts DEF OffloadPolicy, Counters, Budget
<1>5. Cardinality(Open(history')) <= Cardinality(Open(history))
  BY <1>0, <1>3, OpenFinite
<1>6. refused' = refused /\ pc # "tools" /\ pc' # "tools"
  BY <1>1 DEF OffloadPolicy
<1>7. Taken(history')
  <2>1. DOMAIN history' = DOMAIN history
    BY <1>0, <1>1, OffloadedHow
  <2> SUFFICES ASSUME NEW i \in DOMAIN history, history'[i].kind = "tool"
               PROVE  history'[i].size = "small" \/ history'[i].exempt # "no"
    BY <2>1 DEF Taken
  <2>2. CASE Eligible(history, i)
    BY <1>0, <1>1, <1>2, <2>2, OffloadedHow DEF IsReference
  <2>3. CASE ~Eligible(history, i)
    <3>1. history'[i] = history[i]
      BY <1>0, <1>1, <2>3, OffloadedHow
    <3>2. QED
      BY <2>3, <3>1 DEF Eligible
  <2>4. QED
    BY <2>2, <2>3
<1>8. OffloadFirst'
  BY <1>7 DEF OffloadFirst
<1>9. QED
  BY <1>3, <1>4, <1>5, <1>6, <1>8, LoudKeeps

LEMMA OffloadFailsKeeps ==
  ASSUME IInv, OffloadFails
  PROVE  IInv'
<1>0. history \in Seq(Message) /\ FilesKnown /\ References /\ Ordered(history)
  BY Parts
<1>1. PICK e \in DOMAIN history, torn \in BOOLEAN :
        /\ history' = Offloaded(history, e)
        /\ nextId' = NextIdAfter(Cardinality(EligibleIn(history, e)), torn)
        /\ Write(Cardinality(EligibleIn(history, e)), torn)
  BY DEF OffloadFails
<1>2. e \in Nat
  BY <1>0, Places
<1>3. /\ history' \in Seq(Message) /\ FilesKnown' /\ Ordered(history') /\ References'
      /\ Open(history') = Open(history)
  BY <1>0, <1>1, <1>2, OffloadedKeeps
<1>4. Counters'
  BY Parts DEF OffloadFails, Return, Counters, Budget
<1>5. Cardinality(Open(history')) <= Cardinality(Open(history))
  BY <1>0, <1>3, OpenFinite
<1>6. refused' = refused /\ pc = "offload" /\ pc' = "idle" /\ OffloadFirst'
  BY DEF OffloadFails, Return, OffloadFirst
<1>7. QED
  BY <1>3, <1>4, <1>5, <1>6, LoudKeeps

LEMMA SummaryPolicyKeeps ==
  ASSUME IInv, NEW s \in {"small", "big"}, SummaryPolicy(s)
  PROVE  IInv'
<1>1. /\ Prefix(history) > 0 /\ history' = Summarised(history, s)
      /\ UNCHANGED <<nextId, files, full>>
      /\ refused' = refused /\ pc = "summary" /\ pc' = "check" /\ OffloadFirst'
  BY DEF SummaryPolicy, SummaryDue, OffloadFirst
<1>2. /\ history' \in Seq(Message) /\ FilesKnown' /\ Ordered(history') /\ References'
      /\ Cardinality(Open(history')) <= Cardinality(Open(history))
  BY <1>1, SummaryKeeps, FilesStay, Parts
<1>3. Counters'
  BY Parts DEF SummaryPolicy, Counters, Budget
<1>4. QED
  BY <1>1, <1>2, <1>3, LoudKeeps

LEMMA FinalKeeps ==
  ASSUME IInv, Final
  PROVE  IInv'
<1> DEFINE m == Msg("final", 0, "small", "no")
<1>1. m \in Message /\ m.kind = "final" /\ m.size # "ref" /\ m.file = NoFile
  BY Messages DEF Kind, Size, Exempt
<1>2. history' = Append(history, m) /\ UNCHANGED <<nextId, files, full>>
  BY DEF Final, Ended
<1> HIDE DEF m
<1>3. /\ history' \in Seq(Message) /\ FilesKnown' /\ Ordered(history') /\ References'
      /\ Open(history') \subseteq Open(history)
  BY <1>1, <1>2, PushKeeps, FilesStay, Parts
<1>4. Cardinality(Open(history')) <= Cardinality(Open(history))
  BY <1>3, OpenFinite, FS_Subset, Parts
<1>5. Counters'
  BY Parts DEF Final, Return, Counters, Budget
<1>6. refused' = refused /\ pc = "ask" /\ pc' = "idle" /\ OffloadFirst'
  BY DEF Final, Return, OffloadFirst
<1>7. QED
  BY <1>3, <1>4, <1>5, <1>6, LoudKeeps

LEMMA CallKeeps ==
  ASSUME IInv, NEW n \in 1..MaxCalls, Call(n)
  PROVE  IInv'
<1> DEFINE m == Msg("calls", n, "small", "no")
<1>0. n \in Nat
  BY AgentAssumption
<1>1. m \in Message /\ m.kind = "calls" /\ m.size # "ref" /\ m.file = NoFile
  BY <1>0, Messages DEF Kind, Size, Exempt
<1>2. /\ history' = Append(history, m) /\ UNCHANGED <<nextId, files, full>>
      /\ refused' = refused /\ pc = "ask" /\ pc' = "tools" /\ OffloadFirst'
  BY DEF Call, OffloadFirst
<1> HIDE DEF m
<1>3. /\ history' \in Seq(Message) /\ FilesKnown' /\ Ordered(history') /\ References'
      /\ history' # <<>> /\ history'[Len(history')] = m
      /\ Open(history') \subseteq Open(history) \cup {Len(history')}
  BY <1>1, <1>2, PushKeeps, FilesStay, Parts
<1>4. OpenCalls'
  <2>1. Open(history') \ {Len(history')} \in SUBSET Open(history)
    BY <1>3
  <2>2. Cardinality(Open(history') \ {Len(history')}) <= Cardinality(Open(history))
    BY <2>1, OpenFinite, FS_Subset, Parts
  <2>3. Cardinality(Open(history)) <= refused
    BY <1>2, Parts DEF OpenCalls
  <2>4. /\ Cardinality(Open(history)) \in Nat /\ refused \in Nat
        /\ Cardinality(Open(history') \ {Len(history')}) \in Nat
    BY <2>1, OpenFinite, FS_Subset, FS_CardinalityType, Parts DEF Counters
  <2>5. Cardinality(Open(history') \ {Len(history')}) <= refused'
    BY <1>2, <2>2, <2>3, <2>4
  <2>6. QED
    BY <1>2, <2>5 DEF OpenCalls
<1>5. Counters'
  BY AgentAssumption, Parts DEF Call, TurnsLeft, Counters, Budget
<1>6. Last(history').kind = "calls"
  BY <1>1, <1>3 DEF Last
<1>7. QED
  BY <1>2, <1>3, <1>4, <1>5, <1>6 DEF IInv, TypeOK, Counters, FilesKnown

LEMMA RanKeeps ==
  ASSUME IInv, Ran
  PROVE  IInv'
<1>1. /\ history' \in Seq(Message) /\ Ordered(history') /\ References'
      /\ Open(history') \in SUBSET (Open(history) \ {Len(history)})
  BY BatchKeeps
<1>2. pc = "tools" /\ pc' = "offload" /\ refused' = refused /\ OffloadFirst'
  BY DEF Ran, OffloadFirst
<1>3. OpenCalls'
  <2>1. IsFiniteSet(Open(history) \ {Len(history)})
    BY OpenFinite, FS_Subset, Parts
  <2>2. /\ Cardinality(Open(history')) <= Cardinality(Open(history) \ {Len(history)})
        /\ Cardinality(Open(history) \ {Len(history)}) \in Nat
        /\ Cardinality(Open(history')) \in Nat
    BY <1>1, <2>1, FS_Subset, FS_CardinalityType
  <2>3. Cardinality(Open(history) \ {Len(history)}) <= refused /\ refused \in Nat
    BY <1>2, Parts DEF OpenCalls, Counters
  <2>4. Cardinality(Open(history')) <= refused'
    BY <1>2, <2>2, <2>3
  <2>5. QED
    BY <1>2, <2>4 DEF OpenCalls
<1>4. Counters'
  BY Parts DEF Ran, Counters, Budget
<1>5. FilesKnown'
  BY Parts, FilesStay DEF Ran
<1>6. QED
  BY <1>1, <1>2, <1>3, <1>4, <1>5 DEF IInv, TypeOK, Counters, FilesKnown

\* The calls that a failed batch leaves open are one assistant message's.
LEMMA BatchFailsKeeps ==
  ASSUME IInv, BatchFails
  PROVE  IInv'
<1>1. /\ pc = "tools" /\ pc' = "idle" /\ refused' = refused + 1
      /\ history' = history /\ UNCHANGED <<nextId, files, full>> /\ OffloadFirst'
  BY DEF BatchFails, Return, OffloadFirst
<1>2. Counters'
  BY Parts DEF BatchFails, Return, Counters, Budget
<1>3. OpenCalls'
  <2>1. /\ IsFiniteSet(Open(history)) /\ Cardinality(Open(history)) \in Nat
        /\ refused \in Nat
    BY OpenFinite, Parts DEF Counters
  <2>2. /\ Cardinality(Open(history) \ {Len(history)}) =
             IF Len(history) \in Open(history) THEN Cardinality(Open(history)) - 1
                                               ELSE Cardinality(Open(history))
    BY <2>1, FS_RemoveElement
  <2>3. Cardinality(Open(history) \ {Len(history)}) <= refused
    BY <1>1, Parts DEF OpenCalls
  <2>4. Cardinality(Open(history)) <= refused + 1
    BY <2>1, <2>2, <2>3
  <2>5. QED
    BY <1>1, <2>4 DEF OpenCalls
<1>4. Ordered(history') /\ References' /\ history' \in Seq(Message) /\ FilesKnown'
  BY <1>1, Parts, FilesStay DEF References, Leads
<1>5. QED
  BY <1>1, <1>2, <1>3, <1>4 DEF IInv, TypeOK, Counters, FilesKnown

\* The steps that leave the history alone.
LEMMA QuietSteps ==
  ASSUME IInv,
         NoOffload \/ NoSummary \/ SummaryFails \/ Check \/ AskFails \/ MaxTurnsExceeded
  PROVE  IInv'
<1>1. /\ UNCHANGED <<history, nextId, files, full, refused>> /\ pc # "tools" /\ pc' # "tools"
      /\ pc' = "summary" => NoOffload
  BY DEF NoOffload, NoSummary, SummaryFails, Check, AskFails, MaxTurnsExceeded, Return
<1>2. Counters /\ MaxTurns \in Nat
  BY AgentAssumption, Parts
<1>3. Counters'
  <2>1. CASE NoOffload \/ NoSummary
    BY <1>2, <2>1 DEF NoOffload, NoSummary, Counters, Budget
  <2>2. CASE SummaryFails \/ AskFails
    BY <1>2, <2>2 DEF SummaryFails, AskFails, Return, Counters, Budget
  <2>3. CASE Check
    BY <1>2, <2>3 DEF Check, Return, Counters, Budget
  <2>4. CASE MaxTurnsExceeded
    BY <1>2, <2>4 DEF MaxTurnsExceeded, Return, Counters, Budget
  <2>5. QED
    BY <2>1, <2>2, <2>3, <2>4
<1>4. OffloadFirst'
  <2>1. CASE NoOffload
    <3>1. OffloadAt = SummaryAt => ~SummaryDue'
      BY <1>1, <2>1 DEF NoOffload, OffloadDue, SummaryDue
    <3>2. QED
      BY <3>1 DEF OffloadFirst
  <2>2. CASE ~NoOffload
    BY <1>1, <2>2 DEF OffloadFirst
  <2>3. QED
    BY <2>1, <2>2
<1>5. QED
  BY <1>1, <1>3, <1>4, QuietKeeps

LEMMA NextHolds == IInv /\ [Next]_vars => IInv'
<1> SUFFICES ASSUME IInv, [Next]_vars PROVE IInv'
  OBVIOUS
<1>1. CASE \E s \in {"small", "big"} : Chat(s)
  BY <1>1, ChatKeeps
<1>2. CASE Clear
  BY <1>2, ClearKeeps
<1>3. CASE NoOffload \/ NoSummary \/ SummaryFails \/ Check \/ AskFails \/ MaxTurnsExceeded
  BY <1>3, QuietSteps
<1>4. CASE OffloadPolicy
  BY <1>4, OffloadPolicyKeeps
<1>5. CASE OffloadFails
  BY <1>5, OffloadFailsKeeps
<1>6. CASE \E s \in {"small", "big"} : SummaryPolicy(s)
  BY <1>6, SummaryPolicyKeeps
<1>7. CASE Final
  BY <1>7, FinalKeeps
<1>8. CASE \E n \in 1..MaxCalls : Call(n)
  BY <1>8, CallKeeps
<1>9. CASE Ran
  BY <1>9, RanKeeps
<1>10. CASE BatchFails
  BY <1>10, BatchFailsKeeps
<1>11. CASE Rest \/ UNCHANGED vars
  <2>1. UNCHANGED vars
    BY <1>11 DEF Rest
  <2>2. QED
    BY <2>1 DEF vars, IInv, TypeOK, Budget, OpenCalls, References, Leads, FilesKnown,
                OffloadFirst, SummaryDue
<1>12. QED
  BY <1>1, <1>2, <1>3, <1>4, <1>5, <1>6, <1>7, <1>8, <1>9, <1>10, <1>11 DEF Next, InChat

LEMMA Invariance == Spec => []IInv
<1>1. QED
  BY Begins, NextHolds, PTL DEF Spec
------------------------------------------------------------------------------
(***************************************************************************)
(* The theorems.                                                           *)
(***************************************************************************)
\* With the thresholds as they are shipped, both the same, no output goes into a
\* summary that the offload could have kept (config.c:47-49, context.c:82-100).
\* With it, the bound on a chat's requests (agent.c:95).
THEOREM SummaryTakesNoOutput ==
  ASSUME OffloadAt = SummaryAt
  PROVE  Spec => []SummaryTakesReferences
<1>1. IInv => SummaryTakesReferences
  <2> SUFFICES ASSUME IInv, pc = "summary", SummaryDue, NEW i \in 1..Prefix(history),
                      history[i].kind = "tool"
               PROVE  history[i].size = "small" \/ history[i].exempt # "no"
    BY DEF SummaryTakesReferences, IInv
  <2>1. Taken(history) /\ history \in Seq(Message)
    BY DEF IInv, TypeOK, OffloadFirst
  <2>2. i \in DOMAIN history
    BY <2>1, Places, AgentAssumption DEF Prefix
  <2>3. QED
    BY <2>1, <2>2 DEF Taken
<1>2. QED
  BY <1>1, Invariance, PTL

\* A tool message has its call in its place in front of it, or it stands with
\* nothing but its like between it and a summary; and when the model is next asked,
\* only the batches that failed have left calls without their answers
\* (agent.c:105-113, policy_summary.c:93).
THEOREM CallsAreAnswered == Spec => []RepliesFollow
<1>1. IInv => RepliesFollow
  <2> SUFFICES ASSUME IInv PROVE RepliesFollow
    OBVIOUS
  <2>1. history \in Seq(Message) /\ Ordered(history)
    BY DEF IInv, TypeOK
  <2>2. ASSUME NEW i \in DOMAIN history, history[i].kind = "tool"
        PROVE  \/ Answers(history, i)
               \/ /\ history[1].kind = "summary"
                  /\ \A j \in 2..i : history[j].kind = "tool"
    <3>1. InRow(history, i)
      BY <2>1, <2>2 DEF Ordered
    <3>2. \A j \in 2..i : j \in DOMAIN history /\ 1 < j /\ j <= i
      BY <2>1, <2>2, Places
    <3>3. QED
      BY <3>1, <3>2 DEF InRow
  <2>3. pc # "tools" => Cardinality(Open(history)) <= refused
    BY DEF IInv, OpenCalls
  <2>4. QED
    BY <2>2, <2>3 DEF RepliesFollow, Open
<1>2. QED
  BY <1>1, Invariance, PTL

\* While a context lives the file that a reference names was last given the output
\* the reference stands for, all of it unless the disk took some write in part, and
\* is no other's (policy_offload.c:207-234).
THEOREM FilesAreOwn == Spec => []ReferencesReadBack
<1>1. IInv => ReferencesReadBack
  <2> SUFFICES ASSUME IInv, NEW i \in DOMAIN history, history[i].file # NoFile
               PROVE  /\ history[i].file \in DOMAIN files
                      /\ files[history[i].file].text = history[i].text
                      /\ ~full => files[history[i].file].whole
                      /\ \A j \in DOMAIN history : i # j => history[i].file # history[j].file
    BY DEF ReferencesReadBack
  <2>1. history \in Seq(Message) /\ FilesKnown /\ References
    BY DEF IInv, TypeOK
  <2>2. /\ history[i].file \in Nat /\ history[i].file < nextId
        /\ files[history[i].file].text = history[i].text
    BY <2>1, Places, Messages DEF References, Leads
  <2>3. QED
    BY <2>1, <2>2 DEF References, FilesKnown
<1>2. QED
  BY <1>1, Invariance, PTL

\* The offload policy never takes up a reference again (policy_offload.c:196).
THEOREM OffloadedOnce == Spec => ReferencesStay
<1>1. IInv /\ [Next]_vars =>
        [pc = "offload" => \A i \in DOMAIN history :
           history[i].size = "ref" => history'[i] = history[i] /\ ~Eligible(history, i)]_vars
  <2> SUFFICES ASSUME IInv, Next, pc = "offload",
                      NEW i \in DOMAIN history, history[i].size = "ref"
               PROVE  history'[i] = history[i] /\ ~Eligible(history, i)
    OBVIOUS
  <2>1. ~Eligible(history, i)
    BY DEF IInv, References, Leads, Eligible
  <2>2. history \in Seq(Message) /\ FilesKnown
    BY DEF IInv, TypeOK
  <2>3. CASE \E e \in Nat : history' = Offloaded(history, e)
    BY <2>1, <2>2, <2>3, OffloadedHow
  <2>4. CASE history' = history
    BY <2>1, <2>4
  <2>5. (\E e \in Nat : history' = Offloaded(history, e)) \/ history' = history
    <3>1. CASE NoOffload
      BY <3>1 DEF NoOffload
    <3>2. CASE OffloadPolicy
      <4>1. Len(history) + 1 \in Nat
        BY <2>2, Places
      <4>2. QED
        BY <3>2, <4>1 DEF OffloadPolicy
    <3>3. CASE OffloadFails
      <4>1. DOMAIN history \subseteq Nat
        BY <2>2, Places
      <4>2. QED
        BY <3>3, <4>1 DEF OffloadFails
    <3>4. QED
      BY <3>1, <3>2, <3>3
         DEF Next, InChat, Chat, Clear, Rest, NoSummary, SummaryPolicy, SummaryFails, Check,
             AskFails, Final, Call, MaxTurnsExceeded, Ran, BatchFails
  <2>6. QED
    BY <2>3, <2>4, <2>5
<1>2. QED
  BY <1>1, Invariance, PTL DEF Spec, ReferencesStay
==============================================================================
