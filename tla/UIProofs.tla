------------------------------- MODULE UIProofs -------------------------------
(***************************************************************************)
(* Proofs about what the terminal shows.                                   *)
(*                                                                         *)
(* About UI, for rings, batches and runs of any length: the render thread  *)
(* does not sleep on events, and the last frame of a batch is left in the  *)
(* scrollback.  The ring drops its oldest event when it is full, so both   *)
(* need the ring to have room for what can be posted between two of the    *)
(* render thread's turns; how much room is a hypothesis of each.           *)
(*                                                                         *)
(* About Screen, for replies of any length and nesting: the items of lists *)
(* are counted as they stand in the reply.                                 *)
(***************************************************************************)
EXTENDS UI, Screen, SequenceTheorems, FiniteSetTheorems, WellFoundedInduction, TLAPS

(***************************************************************************)
(* What is posted to the ring.                                             *)
(***************************************************************************)
\* The events before and after a place in the ring.
Before(q, p, S) == \A k \in DOMAIN q : k < p => q[k] \in S
After(q, p, S) == \A k \in DOMAIN q : k > p => q[k] \in S

\* How many events push_event_locked drops.
Drop(q) == IF Len(q) = QueueSize - 1 THEN 1 ELSE 0

LEMMA PushedHow ==
  ASSUME NEW q \in Seq(Event), Len(q) < QueueSize, NEW e \in Event
  PROVE  /\ Pushed(q, e) \in Seq(Event)
         /\ Len(Pushed(q, e)) = Len(q) + 1 - Drop(q)
         /\ Len(Pushed(q, e)) \in Nat \ {0} /\ Len(Pushed(q, e)) < QueueSize
         /\ Pushed(q, e)[Len(Pushed(q, e))] = e
         /\ \A k \in 1..(Len(q) - Drop(q)) : Pushed(q, e)[k] = q[k + Drop(q)]
<1>1. CASE Len(q) = QueueSize - 1
  <2>1. q # <<>> /\ Drop(q) = 1
    BY <1>1, UIAssumption DEF Drop
  <2> DEFINE t == Tail(q)
  <2>2. t \in Seq(Event) /\ Len(t) = Len(q) - 1 /\ \A k \in 1..Len(t) : t[k] = q[k + 1]
    BY <2>1
  <2>3. Pushed(q, e) = Append(t, e)
    BY <1>1 DEF Pushed
  <2> HIDE DEF t
  <2>4. QED
    BY <1>1, <2>1, <2>2, <2>3, UIAssumption
<1>2. CASE Len(q) # QueueSize - 1
  <2>1. Drop(q) = 0 /\ Pushed(q, e) = Append(q, e)
    BY <1>2 DEF Drop, Pushed
  <2>2. QED
    BY <1>2, <2>1, UIAssumption
<1>3. QED
  BY <1>1, <1>2

\* Of the new event: it is the last.
LEMMA PushedLast ==
  ASSUME NEW q \in Seq(Event), Len(q) < QueueSize, NEW e \in Event
  PROVE  \E w \in DOMAIN Pushed(q, e) :
           /\ w = Len(Pushed(q, e)) /\ Pushed(q, e)[w] = e
           /\ \A S : After(Pushed(q, e), w, S)
           /\ \A S : (\A k \in DOMAIN q : q[k] \in S) => Before(Pushed(q, e), w, S)
<1> DEFINE u == Pushed(q, e)
<1>1. /\ u \in Seq(Event) /\ Len(u) = Len(q) + 1 - Drop(q)
      /\ Len(u) \in Nat \ {0} /\ u[Len(u)] = e
      /\ \A k \in 1..(Len(q) - Drop(q)) : u[k] = q[k + Drop(q)]
  BY PushedHow
<1> HIDE DEF u
<1>2. DOMAIN u = 1..Len(u) /\ DOMAIN q = 1..Len(q) /\ Len(q) \in Nat /\ Drop(q) \in {0, 1}
  BY <1>1 DEF Drop
<1>3. Len(u) \in DOMAIN u
  BY <1>1, <1>2
<1>4. ASSUME NEW S PROVE After(u, Len(u), S)
  BY <1>1, <1>2 DEF After
<1>5. ASSUME NEW S, \A k \in DOMAIN q : q[k] \in S
      PROVE  Before(u, Len(u), S)
  <2> SUFFICES ASSUME NEW k \in 1..Len(u), k < Len(u) PROVE u[k] \in S
    BY <1>2 DEF Before
  <2>1. k \in 1..(Len(q) - Drop(q)) /\ k + Drop(q) \in 1..Len(q)
    BY <1>1, <1>2
  <2>2. QED
    BY <1>1, <1>2, <1>5, <2>1
<1>6. QED
  BY <1>1, <1>3, <1>4, <1>5 DEF u

\* Of an event in the ring: it stays if the ring has not wrapped round to it, and
\* so does the order of those around it.
LEMMA PushedKeeps ==
  ASSUME NEW q \in Seq(Event), Len(q) < QueueSize, NEW e \in Event,
         NEW p \in DOMAIN q, Len(q) - p < QueueSize - 2
  PROVE  \E w \in DOMAIN Pushed(q, e) :
           /\ Pushed(q, e)[w] = q[p] /\ Len(Pushed(q, e)) - w = Len(q) - p + 1
           /\ \A S : After(q, p, S) /\ e \in S => After(Pushed(q, e), w, S)
           /\ \A S : Before(q, p, S) => Before(Pushed(q, e), w, S)
<1> DEFINE u == Pushed(q, e)
           w == p - Drop(q)
<1>1. /\ u \in Seq(Event) /\ Len(u) = Len(q) + 1 - Drop(q)
      /\ Len(u) \in Nat \ {0} /\ u[Len(u)] = e
      /\ \A k \in 1..(Len(q) - Drop(q)) : u[k] = q[k + Drop(q)]
  BY PushedHow
<1> HIDE DEF u
<1>2. DOMAIN u = 1..Len(u) /\ DOMAIN q = 1..Len(q) /\ Len(q) \in Nat /\ Drop(q) \in {0, 1}
  BY <1>1 DEF Drop
<1>3. w \in 1..(Len(q) - Drop(q)) /\ w + Drop(q) = p
  BY <1>2, UIAssumption DEF Drop
<1>4. w \in DOMAIN u /\ u[w] = q[p] /\ Len(u) - w = Len(q) - p + 1
  BY <1>1, <1>2, <1>3
<1> HIDE DEF w
<1>5. ASSUME NEW S, After(q, p, S), e \in S PROVE After(u, w, S)
  <2> SUFFICES ASSUME NEW k \in 1..Len(u), k > w PROVE u[k] \in S
    BY <1>2 DEF After
  <2>1. CASE k = Len(u)
    BY <1>1, <1>5, <2>1
  <2>2. CASE k # Len(u)
    <3>1. k \in 1..(Len(q) - Drop(q)) /\ k + Drop(q) \in 1..Len(q) /\ k + Drop(q) > p
      BY <1>1, <1>2, <1>3, <2>2
    <3>2. QED
      BY <1>1, <1>2, <1>5, <3>1 DEF After
  <2>3. QED
    BY <2>1, <2>2
<1>6. ASSUME NEW S, Before(q, p, S) PROVE Before(u, w, S)
  <2> SUFFICES ASSUME NEW k \in 1..Len(u), k < w PROVE u[k] \in S
    BY <1>2 DEF Before
  <2>1. k \in 1..(Len(q) - Drop(q)) /\ k + Drop(q) \in 1..Len(q) /\ k + Drop(q) < p
    BY <1>1, <1>2, <1>3
  <2>2. QED
    BY <1>1, <1>2, <1>6, <2>1 DEF Before
<1>7. QED
  BY <1>4, <1>5, <1>6 DEF u
------------------------------------------------------------------------------
(***************************************************************************)
(* What the render thread makes of the events it drains.  FoldLeft is      *)
(* defined over sets of places; FoldedHow turns it into the views after    *)
(* each event, and Carried says what holds to the last of them.            *)
(***************************************************************************)
LEMMA LeastOf ==
  ASSUME NEW S \in SUBSET Nat, S # {}
  PROVE  \E n \in S : \A m \in S : n <= m
<1> DEFINE R == {ss \in Nat \X Nat : ss[1] < ss[2]}
<1>1. IsWellFoundedOn(R, Nat)
  BY NatLessThanWellFounded DEF OpToRel
<1>2. PICK n \in S : \A m \in S : ~ (<<m, n>> \in R)
  <2> HIDE DEF R
  <2> QED BY <1>1, WFMin
<1>3. \A m \in S : n <= m
  <2> SUFFICES ASSUME NEW m \in S PROVE n <= m
    OBVIOUS
  <2>1. <<m, n>> \in Nat \X Nat /\ ~ (<<m, n>> \in R)
    BY <1>2
  <2>2. QED
    BY <2>1
<1>4. QED
  BY <1>3

\* What holds of one view and is passed on by each event holds in the end.
LEMMA Carried ==
  ASSUME NEW f, NEW P, NEW j \in Nat, NEW n \in Nat, j <= n, f[j] \in P,
         \A k \in j..n : k # n /\ f[k] \in P => f[k + 1] \in P
  PROVE  f[n] \in P
<1> DEFINE Bad == {k \in Nat : k \in j..n /\ ~ (f[k] \in P)}
<1> SUFFICES ASSUME n \in Bad PROVE FALSE
  OBVIOUS
<1>1. PICK k \in Bad : \A m \in Bad : k <= m
  BY LeastOf
<1>2. k \in j..n /\ ~ (f[k] \in P) /\ k # j
  OBVIOUS
<1>3. k - 1 \in j..n /\ k - 1 # n /\ k - 1 \in Nat /\ ~ (k <= k - 1) /\ (k - 1) + 1 = k
  BY <1>2
<1>4. f[k - 1] \in P
  BY <1>1, <1>3
<1>5. QED
  BY <1>2, <1>3, <1>4

\* The iterates of the fold, for the places up to n.
Iterates(g, v, q, n) ==
  g = [s \in SUBSET (1..n) |->
         IF s = {} THEN v ELSE Taken(g[s \ {Max(s)}], q[Max(s)])]

LEMMA TopOf ==
  ASSUME NEW n \in Nat, n # 0, NEW s \in SUBSET (1..n), n \in s
  PROVE  Max(s) = n
<1>1. \A x \in s : n >= x
  OBVIOUS
<1>2. \A y \in s : (\A x \in s : y >= x) => y = n
  OBVIOUS
<1>3. QED
  BY <1>1, <1>2 DEF Max

LEMMA IteratesExist ==
  ASSUME NEW v, NEW q
  PROVE  \A n \in Nat : \E g : Iterates(g, v, q, n)
<1> DEFINE Bad == {n \in Nat : ~ \E g : Iterates(g, v, q, n)}
<1> SUFFICES ASSUME Bad # {} PROVE FALSE
  OBVIOUS
<1>1. PICK n \in Bad : \A m \in Bad : n <= m
  BY LeastOf
<1>2. n \in Nat /\ ~ \E g : Iterates(g, v, q, n)
  OBVIOUS
<1>3. CASE n = 0
  <2> DEFINE g == [s \in SUBSET (1..n) |-> v]
  <2>1. \A s \in SUBSET (1..n) : s = {}
    BY <1>3
  <2>2. g = [s \in SUBSET (1..n) |->
               IF s = {} THEN v ELSE Taken(g[s \ {Max(s)}], q[Max(s)])]
    BY <2>1
  <2>3. Iterates(g, v, q, n)
    BY <2>2 DEF Iterates
  <2>4. QED
    BY <1>2, <2>3
<1>4. CASE n # 0
  <2>1. n - 1 \in Nat /\ ~ (n <= n - 1)
    BY <1>2, <1>4
  <2>2. PICK f : Iterates(f, v, q, n - 1)
    BY <1>1, <2>1
  <2> DEFINE g == [s \in SUBSET (1..n) |->
                     IF n \in s THEN Taken(f[s \ {n}], q[n]) ELSE f[s]]
  <2>3. ASSUME NEW s \in SUBSET (1..n)
        PROVE  g[s] = IF s = {} THEN v ELSE Taken(g[s \ {Max(s)}], q[Max(s)])
    <3>1. CASE n \in s
      <4>1. Max(s) = n
        BY <1>2, <1>4, <3>1, TopOf
      <4>2. s \ {n} \in SUBSET (1..n) /\ ~ (n \in s \ {n}) /\ s # {}
        BY <3>1
      <4>3. g[s \ {n}] = f[s \ {n}]
        BY <4>2
      <4>4. g[s] = Taken(f[s \ {n}], q[n])
        BY <3>1
      <4>5. QED
        BY <4>1, <4>2, <4>3, <4>4
    <3>2. CASE ~ (n \in s)
      <4>1. s \in SUBSET (1..(n - 1))
        BY <1>2, <3>2
      <4>2. f[s] = IF s = {} THEN v ELSE Taken(f[s \ {Max(s)}], q[Max(s)])
        BY <2>2, <4>1 DEF Iterates
      <4>3. g[s] = f[s]
        BY <3>2
      <4> DEFINE t == s \ {Max(s)}
      <4>4. t \in SUBSET (1..n) /\ ~ (n \in t)
        BY <3>2
      <4>5. g[t] = f[t]
        <5> HIDE DEF t
        <5> QED BY <4>4
      <4>6. QED
        BY <4>2, <4>3, <4>5
    <3>3. QED
      BY <3>1, <3>2
  <2>4. Iterates(g, v, q, n)
    BY <2>3 DEF Iterates
  <2>5. QED
    BY <1>2, <2>4
<1>5. QED
  BY <1>3, <1>4

\* The views f[0], f[1], ... after each event of a sequence.
Views(f, v, q) == f[0] = v /\ \A k \in 1..Len(q) : f[k] = Taken(f[k - 1], q[k])

LEMMA FoldedHow ==
  ASSUME NEW v, NEW q \in Seq(Event)
  PROVE  \E f : Views(f, v, q) /\ FoldLeft(Taken, v, q) = f[Len(q)]
<1> DEFINE n == Len(q)
           g == CHOOSE iter : iter = [s \in SUBSET DOMAIN q |->
                  IF s = {} THEN v ELSE Taken(iter[s \ {Max(s)}], q[Max(s)])]
           f == [k \in 0..n |-> g[1..k]]
<1>1. n \in Nat /\ DOMAIN q = 1..n
  OBVIOUS
<1>2. FoldLeft(Taken, v, q) = g[DOMAIN q]
  BY DEF FoldLeft, MapThenFoldSet
<1>3. g = CHOOSE iter : Iterates(iter, v, q, n)
  BY <1>1 DEF Iterates
<1> HIDE DEF g, n
<1>4. Iterates(g, v, q, n)
  BY <1>1, <1>3, IteratesExist
<1>5. f[0] = v
  <2>1. g[{}] = v
    BY <1>4 DEF Iterates
  <2>2. 1..0 = {} /\ 0 \in 0..n
    BY <1>1
  <2>3. QED
    BY <2>1, <2>2
<1>6. ASSUME NEW k \in 1..n PROVE f[k] = Taken(f[k - 1], q[k])
  <2>1. /\ k \in Nat /\ k # 0 /\ k \in 0..n /\ k - 1 \in 0..n
        /\ 1..k \in SUBSET (1..n) /\ 1..k \in SUBSET (1..k) /\ k \in 1..k
        /\ (1..k) \ {k} = 1..(k - 1) /\ 1..k # {}
    <3>1. \A i : i \in (1..k) \ {k} <=> i \in 1..(k - 1)
      BY <1>1
    <3>2. (1..k) \ {k} = 1..(k - 1)
      BY <3>1
    <3>3. /\ k \in Nat /\ k # 0 /\ k \in 0..n /\ k - 1 \in 0..n
          /\ k \in 1..k
      BY <1>1
    <3>4. \A i \in 1..k : i \in 1..n
      BY <1>1
    <3>5. QED
      BY <3>2, <3>3, <3>4
  <2>2. Max(1..k) = k
    BY <2>1, TopOf
  <2>3. g[1..k] = Taken(g[(1..k) \ {k}], q[k])
    BY <1>4, <2>1, <2>2 DEF Iterates
  <2>4. QED
    BY <2>1, <2>3
<1>7. f[n] = g[DOMAIN q]
  BY <1>1
<1> HIDE DEF f
<1>8. QED
  BY <1>2, <1>5, <1>6, <1>7 DEF Views, n
------------------------------------------------------------------------------
\* One event: what was shown stays so, and what the idle event does.
LEMMA TakenHow ==
  ASSUME NEW v \in View, NEW e \in Event
  PROVE  /\ Taken(v, e) \in View
         /\ v.kept => Taken(v, e).kept
         /\ v.ack \/ e = "idle" => Taken(v, e).ack
         /\ e # "shutdown" /\ ~v.stop => ~Taken(v, e).stop
         /\ e = "done" => Taken(v, e) = v
         /\ e = "tools" => Taken(v, e).phase = "tools"
         /\ e = "idle" /\ v.phase = "tools" /\ AllDone => Taken(v, e).kept
<1>1. CASE e = "thinking"
  BY <1>1 DEF Taken, View
<1>2. CASE e = "tools"
  BY <1>2 DEF Taken, View
<1>3. CASE e = "done"
  BY <1>3 DEF Taken, View
<1>4. CASE e = "idle"
  BY <1>4 DEF Taken, OnIdle, Rested, Tools, View, AllDone
<1>5. CASE e = "shutdown"
  BY <1>5 DEF Taken, View
<1>6. QED
  BY <1>1, <1>2, <1>3, <1>4, <1>5 DEF Event

\* The frame after the events.
LEMMA FramedHow ==
  ASSUME NEW v \in View
  PROVE  /\ Framed(v) \in View
         /\ v.kept => Framed(v).kept
         /\ v.ack => Framed(v).ack
         /\ Framed(v).stop = v.stop
         /\ ~v.stop /\ v.phase = "tools" /\ AllDone => Framed(v).kept
         /\ ~v.stop /\ v.phase = "tools" /\ ~AllDone => Framed(v).phase = "tools"
<1>1. CASE v.stop
  BY <1>1 DEF Framed, View
<1>2. CASE ~v.stop /\ v.phase = "idle"
  BY <1>2 DEF Framed, View
<1>3. CASE ~v.stop /\ v.phase = "thinking"
  BY <1>3 DEF Framed, View
<1>4. CASE ~v.stop /\ v.phase = "tools"
  <2>1. Framed(v) = IF AllDone THEN Rested(Tools(v)) ELSE Tools(v)
    BY <1>4 DEF Framed
  <2>2. QED
    BY <1>4, <2>1 DEF Rested, Tools, View, AllDone
<1>5. QED
  BY <1>1, <1>2, <1>3, <1>4 DEF View

\* A turn of the render thread, given what was drained with a batch in view.
Drained == Framed(FoldLeft(Taken, screen, queue))

\* The events leave the phase at "tools", or commit the frame on the way.
Showing ==
  \/ screen.phase = "tools" /\ \A k \in DOMAIN queue : queue[k] = "done"
  \/ \E p \in DOMAIN queue : queue[p] = "tools" /\ After(queue, p, {"done"})

LEMMA DrainedHow ==
  ASSUME screen \in View, queue \in Seq(Event)
  PROVE  /\ Drained \in View
         /\ screen.kept => Drained.kept
         /\ screen.ack \/ (\E p \in DOMAIN queue : queue[p] = "idle") => Drained.ack
         /\ ~screen.stop /\ (\A k \in DOMAIN queue : queue[k] # "shutdown") => ~Drained.stop
         /\ Showing /\ ~AllDone /\ ~Drained.stop => Drained.phase = "tools"
         /\ Showing /\ AllDone /\ ~Drained.stop => Drained.kept
         /\ AllDone /\ ~Drained.stop /\ (\E p \in DOMAIN queue :
              queue[p] = "tools" /\ After(queue, p, {"done", "idle"})) => Drained.kept
         /\ AllDone /\ screen.phase = "tools" /\ (\E p \in DOMAIN queue :
              queue[p] = "idle" /\ Before(queue, p, {"done"})) => Drained.kept
<1> DEFINE n == Len(queue)
<1>1. PICK f : Views(f, screen, queue) /\ FoldLeft(Taken, screen, queue) = f[n]
  BY FoldedHow
<1>2. n \in Nat /\ DOMAIN queue = 1..n /\ \A k \in 1..n : queue[k] \in Event
  OBVIOUS
<1>3. f[0] = screen /\ \A k \in 1..n : f[k] = Taken(f[k - 1], queue[k])
  BY <1>1 DEF Views
<1>4. Drained = Framed(f[n])
  BY <1>1 DEF Drained
<1> HIDE DEF n
<1>5. \A k \in 0..n : k # n => k + 1 \in 1..n /\ f[k + 1] = Taken(f[k], queue[k + 1])
  BY <1>2, <1>3
<1>each. ASSUME NEW k \in 0..n, k # n, f[k] \in View
      PROVE  /\ f[k + 1] \in View
             /\ f[k].kept => f[k + 1].kept
             /\ f[k].ack \/ queue[k + 1] = "idle" => f[k + 1].ack
             /\ queue[k + 1] # "shutdown" /\ ~f[k].stop => ~f[k + 1].stop
             /\ queue[k + 1] = "done" => f[k + 1] = f[k]
             /\ queue[k + 1] = "tools" => f[k + 1].phase = "tools"
             /\ queue[k + 1] = "idle" /\ f[k].phase = "tools" /\ AllDone => f[k + 1].kept
  <2>1. queue[k + 1] \in Event /\ f[k + 1] = Taken(f[k], queue[k + 1])
    BY <1>2, <1>5, <1>each
  <2> DEFINE e == queue[k + 1]
             v == f[k]
  <2>2. v \in View /\ e \in Event
    BY <1>each, <2>1
  <2> HIDE DEF e, v
  <2>3. /\ Taken(v, e) \in View
        /\ v.kept => Taken(v, e).kept
        /\ v.ack \/ e = "idle" => Taken(v, e).ack
        /\ e # "shutdown" /\ ~v.stop => ~Taken(v, e).stop
        /\ e = "done" => Taken(v, e) = v
        /\ e = "tools" => Taken(v, e).phase = "tools"
        /\ e = "idle" /\ v.phase = "tools" /\ AllDone => Taken(v, e).kept
    BY <2>2, TakenHow
  <2>4. QED
    BY <2>1, <2>3 DEF e, v
<1>6. ASSUME NEW m \in 0..n PROVE f[m] \in View
  <2>1. \A k \in 0..m : k # m /\ f[k] \in View => f[k + 1] \in View
    BY <1>2, <1>each
  <2>2. QED
    BY <1>3, <2>1, Carried
<1>7. /\ Drained \in View
      /\ f[n].kept => Drained.kept
      /\ f[n].ack => Drained.ack
      /\ Drained.stop = f[n].stop
      /\ ~f[n].stop /\ f[n].phase = "tools" /\ AllDone => Drained.kept
      /\ ~f[n].stop /\ f[n].phase = "tools" /\ ~AllDone => Drained.phase = "tools"
  <2>1. f[n] \in View
    BY <1>2, <1>6
  <2>2. QED
    BY <1>4, <2>1, FramedHow
<1>13. ASSUME NEW m \in 1..n
       PROVE  /\ m - 1 \in 0..n /\ m \in 0..n /\ f[m] \in View
              /\ queue[m] = "idle" => f[m].ack
              /\ queue[m] = "tools" => f[m].phase = "tools"
              /\ queue[m] = "idle" /\ f[m - 1].phase = "tools" /\ AllDone => f[m].kept
  <2>1. m - 1 \in 0..n /\ m - 1 # n /\ (m - 1) + 1 = m /\ m \in 0..n
    BY <1>2
  <2>2. QED
    BY <1>each, <1>6, <2>1
\* Once kept, or acknowledged, it stays so.
<1>8. ASSUME NEW m \in 0..n, f[m].kept PROVE f[n].kept
  <2> DEFINE P == {v \in View : v.kept}
  <2>1. f[m] \in P
    BY <1>6, <1>8
  <2>2. \A k \in m..n : k # n /\ f[k] \in P => f[k + 1] \in P
    <3>1. \A k \in m..n : k \in 0..n
      BY <1>2
    <3>2. QED
      BY <1>each, <3>1
  <2>3. m \in Nat /\ m <= n
    BY <1>2
  <2> HIDE DEF P
  <2>4. f[n] \in P
    BY <1>2, <2>1, <2>2, <2>3, Carried
  <2>5. QED
    BY <2>4 DEF P
<1>9. ASSUME NEW m \in 0..n, f[m].ack PROVE f[n].ack
  <2> DEFINE P == {v \in View : v.ack}
  <2>1. f[m] \in P
    BY <1>6, <1>9
  <2>2. \A k \in m..n : k # n /\ f[k] \in P => f[k + 1] \in P
    <3>1. \A k \in m..n : k \in 0..n
      BY <1>2
    <3>2. QED
      BY <1>each, <3>1
  <2>3. m \in Nat /\ m <= n
    BY <1>2
  <2> HIDE DEF P
  <2>4. f[n] \in P
    BY <1>2, <2>1, <2>2, <2>3, Carried
  <2>5. QED
    BY <2>4 DEF P
<1>10. ASSUME ~screen.stop, \A k \in 1..n : queue[k] # "shutdown" PROVE ~f[n].stop
  <2> DEFINE P == {v \in View : ~v.stop}
  <2>1. f[0] \in P
    BY <1>3, <1>10
  <2>2. \A k \in 0..n : k # n /\ f[k] \in P => f[k + 1] \in P
    BY <1>2, <1>each, <1>10
  <2> HIDE DEF P
  <2>3. f[n] \in P
    BY <1>2, <2>1, <2>2, Carried
  <2>4. QED
    BY <2>3 DEF P
\* From a view of the tools on, finished tools change nothing, and an idle event
\* commits the frame of a batch that is all done.
<1>11. ASSUME NEW m \in 0..n, NEW l \in m..n, f[m].phase = "tools",
              \A k \in 1..n : k > m /\ k <= l => queue[k] = "done"
       PROVE  f[l].phase = "tools"
  <2> DEFINE P == {v \in View : v.phase = "tools"}
  <2>1. f[m] \in P
    BY <1>6, <1>11
  <2>2. ASSUME NEW k \in m..l, k # l, f[k] \in P PROVE f[k + 1] \in P
    <3>1. k \in 0..n /\ k # n /\ k + 1 \in 1..n /\ k + 1 > m /\ k + 1 <= l
      BY <1>2, <2>2
    <3>2. queue[k + 1] = "done"
      BY <1>11, <3>1
    <3>3. QED
      BY <1>each, <2>2, <3>1, <3>2
  <2>3. m \in Nat /\ l \in Nat /\ m <= l
    BY <1>2
  <2> HIDE DEF P
  <2>4. f[l] \in P
    BY <2>1, <2>2, <2>3, Carried
  <2>5. QED
    BY <2>4 DEF P
<1>12. ASSUME AllDone, NEW m \in 1..n, queue[m] = "tools", After(queue, m, {"done", "idle"})
       PROVE  f[n].kept \/ f[n].phase = "tools"
  <2> DEFINE P == {v \in View : v.kept \/ v.phase = "tools"}
  <2>1. f[m] \in P
    BY <1>12, <1>13
  <2>2. ASSUME NEW k \in m..n, k # n, f[k] \in P PROVE f[k + 1] \in P
    <3>1. k \in 0..n /\ k + 1 \in 1..n /\ k + 1 > m
      BY <1>2, <2>2
    <3>2. queue[k + 1] \in {"done", "idle"}
      BY <1>2, <1>12, <3>1 DEF After
    <3>3. QED
      BY <1>each, <1>12, <2>2, <3>1, <3>2
  <2>3. m \in Nat /\ m <= n
    BY <1>2
  <2> HIDE DEF P
  <2>4. f[n] \in P
    BY <1>2, <2>1, <2>2, <2>3, Carried
  <2>5. QED
    BY <2>4 DEF P
<1>14. (screen.kept => Drained.kept) /\ (screen.ack => Drained.ack)
  BY <1>2, <1>3, <1>7, <1>8, <1>9
<1>15. ASSUME NEW p \in 1..n, queue[p] = "idle" PROVE Drained.ack
  BY <1>7, <1>9, <1>13, <1>15
<1>16. Showing => f[n].phase = "tools"
  <2>1. CASE screen.phase = "tools" /\ \A k \in DOMAIN queue : queue[k] = "done"
    <3>1. 0 \in 0..n /\ n \in 0..n
      BY <1>2
    <3>2. \A k \in 1..n : k > 0 /\ k <= n => queue[k] = "done"
      BY <1>2, <2>1
    <3>3. QED
      BY <1>3, <1>11, <2>1, <3>1, <3>2
  <2>2. ASSUME NEW p \in 1..n, queue[p] = "tools", After(queue, p, {"done"})
        PROVE  f[n].phase = "tools"
    <3>1. f[p].phase = "tools"
      BY <1>13, <2>2
    <3>2. \A k \in 1..n : k > p /\ k <= n => queue[k] = "done"
      BY <1>2, <2>2 DEF After
    <3>3. n \in p..n /\ p \in 0..n
      BY <1>2
    <3>4. QED
      BY <1>11, <3>1, <3>2, <3>3
  <2>3. QED
    BY <1>2, <2>1, <2>2 DEF Showing
<1>17. ASSUME AllDone, screen.phase = "tools", NEW p \in 1..n, queue[p] = "idle",
              Before(queue, p, {"done"})
       PROVE  Drained.kept
  <2>1. \A k \in 1..n : k > 0 /\ k <= p - 1 => queue[k] = "done"
    BY <1>2, <1>17 DEF Before
  <2>2. f[p - 1].phase = "tools"
    <3>1. 0 \in 0..n /\ p - 1 \in 0..n
      BY <1>2
    <3>2. QED
      BY <1>3, <1>11, <1>17, <2>1, <3>1
  <2>3. f[p].kept
    BY <1>13, <1>17, <2>2
  <2>4. QED
    BY <1>7, <1>8, <1>13, <2>3
<1>18. QED
  BY <1>2, <1>7, <1>10, <1>12, <1>14, <1>15, <1>16, <1>17
------------------------------------------------------------------------------
(***************************************************************************)
(* The invariant.                                                          *)
(***************************************************************************)
\* main is in the loop of ui_idle that waits for the acknowledgement.
Held == main.at \in {"wait", "asleep"}

\* Calls are awaited only by executor_run_tools, among them all that still run.
Awaited ==
  /\ todo # {} => main.at = "tools"
  /\ \A i \in DOMAIN slots : slots[i] = "running" => i \in todo
  /\ main.at \in {"idle", "wait", "asleep"} => main.to \in {"reclaim", "print"}

\* As long as main waits for it the idle event is in the ring, with nothing but
\* the events of guests behind it; so the ring is not empty then, and a signal
\* that goes to main instead of the render thread does no harm.
Noticed ==
  /\ main.at = "asleep" => ~screen.ack
  /\ Held /\ ~screen.ack =>
       \E p \in DOMAIN queue : queue[p] = "idle" /\ Len(queue) - p <= guests
  /\ render = "asleep" /\ screen.phase = "idle" => queue = <<>>

IInv == TypeOK /\ Awaited /\ Noticed

\* How many slots have been reported.
Reported == Cardinality(DOMAIN slots \ todo)

\* Where the last frame of a batch is, that has not been kept.  The event of the
\* batch may not have been drained,
Fresh ==
  /\ main.at \in {"tools", "idle"} \/ Held
  /\ ~screen.ack
  /\ \E p \in DOMAIN queue :
       /\ queue[p] = "tools"
       /\ After(queue, p, IF Held THEN {"done", "idle"} ELSE {"done"})
       /\ Len(queue) - p <= guests + Reported + IF Held THEN 1 ELSE 0

\* or it is on the screen,
Shown ==
  /\ main.at \in {"tools", "idle"}
  /\ screen.phase = "tools"
  /\ \A k \in DOMAIN queue : queue[k] = "done"

\* or it is, and the idle event that will commit it comes before all others: an
\* acknowledgement that was there before may have let main go on.
Behind ==
  /\ main.at \notin {"tools", "over"} /\ screen.phase = "tools"
  /\ main.at \in {"ask", "idle"} => ~screen.ack
  /\ \E p \in DOMAIN queue :
       /\ queue[p] = "idle" /\ Before(queue, p, {"done"})
       /\ Len(queue) - p <= guests + turn
            + IF main.at = "join" \/ (Held /\ ~screen.ack) THEN 1 ELSE 0

Keeping == ~screen.kept => Fresh \/ Shown \/ Behind

\* The render thread ends when told, and not before ui_stop.
Stopping ==
  /\ screen.stop \/ (\E k \in DOMAIN queue : queue[k] = "shutdown") => main.at \in {"join", "over"}
  /\ render = "gone" => main.at \in {"join", "over"} /\ screen.kept
  /\ main.at = "over" => render = "gone"
------------------------------------------------------------------------------
\* The actions one by one, for the proofs by cases.
LEMMA StepCases ==
  ASSUME [Next]_vars, NEW P,
         BeginThinking => P, \A n \in 1..MaxBatch : BeginTools(n) => P,
         \A i \in 1..MaxBatch : ToolDone(i) => P, ToolsJoined => P, Answered => P,
         ChatFails => P, PrintReply => P, PostIdle => P, Wait => P, Joined => P,
         Stop => P, \A i \in 1..MaxBatch : GuestDone(i) => P,
         RenderWait => P, RenderTimeout => P, RenderDrain => P, UNCHANGED vars => P
  PROVE  P
BY DEF Next, Chatting, Rendering, Rest

\* Who reports: an index beyond the slots changes nothing.
LEMMA DoneHow ==
  ASSUME NEW i, Done(i)
  PROVE  \/ UNCHANGED <<slots, queue, render, main>>
         \/ /\ i \in DOMAIN slots
            /\ slots' = [slots EXCEPT ![i] = "done"]
            /\ queue' = Pushed(queue, "done")
            /\ \/ render' = Woken(render) /\ main' = main
               \/ main.at = "asleep" /\ main' = [main EXCEPT !.at = "wait"] /\ render' = render
BY DEF Done, Signal, WokenMain

LEMMA TypeStep ==
  ASSUME TypeOK, [Next]_vars
  PROVE  TypeOK'
<1> USE DEF TypeOK
<1>1. ASSUME NEW e \in Event
      PROVE  Pushed(queue, e) \in Seq(Event) /\ Len(Pushed(queue, e)) < QueueSize
  BY <1>1, PushedHow
<1>2. Woken(render) \in {"awake", "asleep", "woken", "gone"}
  BY DEF Woken
<1>3. {"thinking", "tools", "done", "idle", "shutdown"} = Event
  BY DEF Event
<1>4. \A p \in MainAt : [at |-> p, to |-> "prompt"] \in [at : MainAt, to : MainAt]
  BY DEF MainAt
<1>5. \A p \in {"wait", "asleep"} : [main EXCEPT !.at = p] \in [at : MainAt, to : MainAt]
  BY DEF MainAt
<1>6. ASSUME NEW i, Done(i)
      PROVE  /\ queue' \in Seq(Event) /\ Len(queue') < QueueSize
             /\ slots' \in Seq({"running", "done"}) /\ Len(slots') <= MaxSlots
             /\ render' \in {"awake", "asleep", "woken", "gone"}
             /\ main' \in [at : MainAt, to : MainAt]
  <2>1. CASE UNCHANGED <<slots, queue, render, main>>
    BY <2>1
  <2>2. CASE /\ i \in DOMAIN slots
             /\ slots' = [slots EXCEPT ![i] = "done"]
             /\ queue' = Pushed(queue, "done")
             /\ \/ render' = Woken(render) /\ main' = main
                \/ main.at = "asleep" /\ main' = [main EXCEPT !.at = "wait"] /\ render' = render
    <3>1. queue' \in Seq(Event) /\ Len(queue') < QueueSize
      BY <1>1, <1>3, <2>2
    <3>2. slots' \in Seq({"running", "done"}) /\ Len(slots') <= MaxSlots
      BY <2>2
    <3>3. render' \in {"awake", "asleep", "woken", "gone"}
      BY <1>2, <2>2
    <3>4. main' \in [at : MainAt, to : MainAt]
      BY <1>5, <2>2
    <3>5. QED
      BY <3>1, <3>2, <3>3, <3>4
  <2>3. QED
    BY <1>6, <2>1, <2>2, DoneHow
<1>7. BeginThinking => TypeOK'
  <2> SUFFICES ASSUME BeginThinking PROVE TypeOK'
    OBVIOUS
  <2>1. screen' \in View
    BY DEF BeginThinking, View
  <2>2. turn' \in 0..MaxTurns
    BY UIAssumption DEF BeginThinking
  <2>3. QED
    BY <1>1, <1>2, <1>3, <1>4, <2>1, <2>2 DEF BeginThinking, Post, SignalRender, Go, MainAt
<1>8. ASSUME NEW n \in 1..MaxBatch, BeginTools(n) PROVE TypeOK'
  <2>1. screen' \in View
    BY <1>8 DEF BeginTools, View
  <2>2. Min2(n, MaxSlots) \in Nat /\ Min2(n, MaxSlots) <= MaxSlots
    BY UIAssumption DEF Min2
  <2>3. slots' \in Seq({"running", "done"}) /\ Len(slots') <= MaxSlots
    <3> DEFINE m == Min2(n, MaxSlots)
               t == [j \in 1..m |-> "running"]
    <3> HIDE DEF m
    <3>1. m \in Nat /\ m <= MaxSlots
      BY <2>2 DEF m
    <3>2. t \in Seq({"running", "done"}) /\ Len(t) = m
      BY <3>1
    <3>3. slots' = t
      BY <1>8 DEF BeginTools, m
    <3> HIDE DEF t
    <3>4. QED
      BY <3>1, <3>2, <3>3
  <2>4. todo' \subseteq 1..MaxBatch
    <3>1. todo' = 1..n /\ MaxBatch \in Nat
      BY <1>8, UIAssumption DEF BeginTools
    <3>2. QED
      BY <3>1
  <2>5. QED
    BY <1>1, <1>2, <1>3, <1>4, <1>8, <2>1, <2>3, <2>4
    DEF BeginTools, Post, SignalRender, Go, MainAt
<1>9. ASSUME NEW i \in 1..MaxBatch, ToolDone(i) PROVE TypeOK'
  BY <1>6, <1>9 DEF ToolDone
<1>10. ASSUME NEW i \in 1..MaxBatch, GuestDone(i) PROVE TypeOK'
  <2>1. guests' \in 0..MaxGuests
    BY <1>10, UIAssumption DEF GuestDone
  <2>2. QED
    BY <1>6, <1>10, <2>1 DEF GuestDone
<1>11. ToolsJoined => TypeOK'
  BY DEF ToolsJoined, GoIdle, MainAt
<1>12. Answered => TypeOK'
  BY DEF Answered, GoIdle, MainAt
<1>13. ChatFails => TypeOK'
  BY <1>4 DEF ChatFails, Go, MainAt
<1>14. PrintReply => TypeOK'
  BY <1>4 DEF PrintReply, Go, MainAt
<1>15. PostIdle => TypeOK'
  <2>1. PostIdle => main' \in [at : MainAt, to : MainAt]
    BY <1>5 DEF PostIdle
  <2>2. QED
    BY <1>1, <1>2, <1>3, <2>1 DEF PostIdle, Post, SignalRender
<1>16. Wait => TypeOK'
  <2>1. Wait => main' \in [at : MainAt, to : MainAt]
    <3>1. main.to \in MainAt
      OBVIOUS
    <3>2. QED
      BY <1>4, <1>5, <3>1 DEF Wait, Go
  <2>2. QED
    BY <2>1 DEF Wait
<1>17. Joined => TypeOK'
  <2>1. <<>> \in Seq({"running", "done"}) /\ Len(<<>>) <= MaxSlots
    BY UIAssumption
  <2>2. QED
    BY <1>4, <2>1 DEF Joined, Go, MainAt
<1>18. Stop => TypeOK'
  BY <1>1, <1>2, <1>3, <1>4 DEF Stop, Post, SignalRender, Go, MainAt
<1>19. RenderWait => TypeOK'
  BY DEF RenderWait
<1>20. RenderTimeout => TypeOK'
  BY DEF RenderTimeout
<1>21. RenderDrain => TypeOK'
  <2> SUFFICES ASSUME RenderDrain PROVE TypeOK'
    OBVIOUS
  <2>1. screen' \in View
    BY DrainedHow DEF RenderDrain, Drained
  <2>2. main' \in [at : MainAt, to : MainAt]
    <3>1. main' = main \/ main' = [main EXCEPT !.at = "wait"]
      BY DEF RenderDrain, WokenAll, WokenMain
    <3>2. QED
      BY <1>5, <3>1
  <2>3. /\ queue' \in Seq(Event) /\ Len(queue') < QueueSize
        /\ turn' \in 0..MaxTurns /\ guests' \in 0..MaxGuests
        /\ render' \in {"awake", "asleep", "woken", "gone"}
    BY UIAssumption DEF RenderDrain
  <2>4. QED
    BY <2>1, <2>2, <2>3 DEF RenderDrain
<1>22. UNCHANGED vars => TypeOK'
  BY DEF vars
<1>23. QED
  BY <1>7, <1>8, <1>9, <1>10, <1>11, <1>12, <1>13, <1>14, <1>15, <1>16, <1>17, <1>18,
     <1>19, <1>20, <1>21, <1>22, StepCases

LEMMA AwaitedStep ==
  ASSUME TypeOK, Awaited, [Next]_vars
  PROVE  Awaited'
<1> USE DEF Awaited
<1>1. todo \subseteq 1..MaxBatch /\ slots \in Seq({"running", "done"})
      /\ main \in [at : MainAt, to : MainAt]
  BY DEF TypeOK
<1>2. BeginThinking => Awaited'
  BY DEF BeginThinking, Go
<1>3. ASSUME NEW n \in 1..MaxBatch, BeginTools(n) PROVE Awaited'
  <2>1. Min2(n, MaxSlots) \in Nat /\ Min2(n, MaxSlots) <= n
    BY UIAssumption DEF Min2
  <2>2. DOMAIN slots' = 1..Min2(n, MaxSlots) /\ todo' = 1..n
    BY <1>3 DEF BeginTools
  <2>3. QED
    BY <1>3, <2>1, <2>2 DEF BeginTools, Go
<1>4. ASSUME NEW i \in 1..MaxBatch, ToolDone(i) PROVE Awaited'
  <2>1. main.at = "tools" /\ i \in todo /\ todo' = todo \ {i} /\ Done(i)
    BY <1>4 DEF ToolDone
  <2>2. main' = main
    BY <2>1, DoneHow
  <2>3. ASSUME NEW j \in DOMAIN slots', slots'[j] = "running" PROVE j \in todo'
    BY <1>1, <2>1, <2>3 DEF Done
  <2>4. QED
    BY <2>1, <2>2, <2>3
<1>5. ASSUME NEW i \in 1..MaxBatch, GuestDone(i) PROVE Awaited'
  <2>1. Done(i) /\ todo' = todo
    BY <1>5 DEF GuestDone
  <2>2. main' = main \/ (main.at = "asleep" /\ main'.at = "wait" /\ main'.to = main.to)
    BY <1>1, <2>1, DoneHow
  <2>3. ASSUME NEW j \in DOMAIN slots', slots'[j] = "running" PROVE j \in todo'
    BY <1>1, <2>1, <2>3 DEF Done
  <2>4. QED
    BY <2>1, <2>2, <2>3
<1>6. ToolsJoined => Awaited'
  BY DEF ToolsJoined, GoIdle
<1>7. Answered => Awaited'
  BY DEF Answered, GoIdle
<1>8. ChatFails => Awaited'
  BY DEF ChatFails, Go
<1>9. PrintReply => Awaited'
  BY DEF PrintReply, Go
<1>10. PostIdle => Awaited'
  BY <1>1 DEF PostIdle
<1>11. Wait => Awaited'
  BY <1>1 DEF Wait, Go
<1>12. Joined => Awaited'
  BY DEF Joined, Go
<1>13. Stop => Awaited'
  BY DEF Stop, Go
<1>14. RenderWait => Awaited'
  BY DEF RenderWait
<1>15. RenderTimeout => Awaited'
  BY DEF RenderTimeout
<1>16. RenderDrain => Awaited'
  BY <1>1 DEF RenderDrain, WokenAll, WokenMain
<1>17. UNCHANGED vars => Awaited'
  BY DEF vars
<1>18. QED
  BY <1>2, <1>3, <1>4, <1>5, <1>6, <1>7, <1>8, <1>9, <1>10, <1>11, <1>12, <1>13, <1>14,
     <1>15, <1>16, <1>17, StepCases

\* A signal that went to main would leave the render thread asleep only if the
\* ring had been empty, and then main would not have been asleep.
LEMMA NoticedStep ==
  ASSUME TypeOK, Awaited, Noticed, [Next]_vars, MaxGuests < QueueSize - 1
  PROVE  Noticed'
<1>1. /\ queue \in Seq(Event) /\ Len(queue) < QueueSize /\ Len(queue) \in Nat
      /\ screen \in View /\ main \in [at : MainAt, to : MainAt]
      /\ guests \in 0..MaxGuests /\ QueueSize \in Nat /\ MaxGuests \in Nat
      /\ todo \subseteq 1..MaxBatch
  BY UIAssumption DEF TypeOK
<1>2. /\ todo # {} => main.at = "tools"
      /\ main.at \in {"idle", "wait", "asleep"} => main.to \in {"reclaim", "print"}
  BY DEF Awaited
<1>3. /\ main.at = "asleep" => ~screen.ack
      /\ Held /\ ~screen.ack =>
           \E p \in DOMAIN queue : queue[p] = "idle" /\ Len(queue) - p <= guests
      /\ render = "asleep" /\ screen.phase = "idle" => queue = <<>>
  BY DEF Noticed
<1>4. Woken(render) # "asleep"
  BY DEF Woken
<1>5. \A p \in {"wait", "asleep"} : [main EXCEPT !.at = p].at = p
  BY <1>1
\* main posts, or is not in ui_idle
<1>6. BeginThinking => Noticed'
  BY <1>4 DEF BeginThinking, Post, SignalRender, Go, Noticed, Held
<1>7. ASSUME NEW n \in 1..MaxBatch, BeginTools(n) PROVE Noticed'
  BY <1>4, <1>7 DEF BeginTools, Post, SignalRender, Go, Noticed, Held
<1>8. Stop => Noticed'
  BY <1>4 DEF Stop, Post, SignalRender, Go, Noticed, Held
<1>9. PostIdle => Noticed'
  <2> SUFFICES ASSUME PostIdle PROVE Noticed'
    OBVIOUS
  <2>1. queue' = Pushed(queue, "idle") /\ render' # "asleep" /\ guests' = guests /\ main'.at = "wait"
    BY <1>4, <1>5 DEF PostIdle, Post, SignalRender
  <2>2. PICK w \in DOMAIN queue' : w = Len(queue') /\ queue'[w] = "idle"
    BY <1>1, <2>1, PushedLast DEF Event
  <2>3. Len(queue') - w <= guests'
    BY <1>1, <2>1, <2>2
  <2>4. QED
    BY <2>1, <2>2, <2>3 DEF Noticed
\* a tool reports
<1>10. ASSUME NEW i \in 1..MaxBatch, ToolDone(i) PROVE Noticed'
  <2>1. main.at = "tools" /\ screen' = screen /\ Done(i)
    BY <1>2, <1>10 DEF ToolDone
  <2>2. main' = main /\ (render' # "asleep" \/ (render' = render /\ queue' = queue))
    BY <1>4, <2>1, DoneHow
  <2>3. QED
    BY <1>3, <2>1, <2>2 DEF Noticed, Held
<1>11. ASSUME NEW i \in 1..MaxBatch, GuestDone(i) PROVE Noticed'
  <2>1. /\ Done(i) /\ screen' = screen
        /\ guests' = guests + 1 /\ guests < MaxGuests
    BY <1>11 DEF GuestDone
  <2>2. CASE UNCHANGED <<slots, queue, render, main>>
    <3>1. \A p \in DOMAIN queue : Len(queue) - p <= guests => Len(queue) - p <= guests + 1
      BY <1>1
    <3>2. QED
      BY <1>3, <2>1, <2>2, <3>1 DEF Noticed, Held
  <2>3. CASE /\ queue' = Pushed(queue, "done")
             /\ \/ render' = Woken(render) /\ main' = main
                \/ main.at = "asleep" /\ main' = [main EXCEPT !.at = "wait"] /\ render' = render
    <3>1. ASSUME Held, ~screen.ack
          PROVE  \E p \in DOMAIN queue' : queue'[p] = "idle" /\ Len(queue') - p <= guests'
      <4>1. PICK p \in DOMAIN queue : queue[p] = "idle" /\ Len(queue) - p <= guests
        BY <1>3, <3>1
      <4>2. Len(queue) - p < QueueSize - 2
        BY <1>1, <2>1, <4>1
      <4>3. PICK w \in DOMAIN queue' : queue'[w] = "idle" /\ Len(queue') - w = Len(queue) - p + 1
        BY <1>1, <2>3, <4>1, <4>2, PushedKeeps DEF Event
      <4>4. Len(queue) - p + 1 <= guests'
        BY <1>1, <2>1, <4>1
      <4>5. QED
        BY <4>3, <4>4
    <3>2. main' = main \/ (main.at = "asleep" /\ main'.at = "wait")
      BY <1>5, <2>3
    <3>3. render' = "asleep" => screen.phase # "idle"
      <4>1. CASE render' = Woken(render)
        BY <1>4, <4>1
      <4>2. CASE main.at = "asleep" /\ render' = render
        <5>1. PICK p \in DOMAIN queue : queue[p] = "idle"
          BY <1>3, <4>2 DEF Held
        <5>2. queue # <<>>
          BY <5>1
        <5>3. QED
          BY <1>3, <4>2, <5>2
      <4>3. QED
        BY <2>3, <4>1, <4>2
    <3>4. QED
      BY <1>3, <2>1, <3>1, <3>2, <3>3 DEF Noticed, Held
  <2>4. QED
    BY <2>1, <2>2, <2>3, DoneHow
\* main is not in ui_idle, or enters the wait
<1>12. ToolsJoined => Noticed'
  BY <1>3 DEF ToolsJoined, GoIdle, Noticed, Held
<1>13. Answered => Noticed'
  BY <1>3 DEF Answered, GoIdle, Noticed, Held
<1>14. ChatFails => Noticed'
  BY <1>3 DEF ChatFails, Go, Noticed, Held
<1>15. PrintReply => Noticed'
  BY <1>3 DEF PrintReply, Go, Noticed, Held
<1>16. Joined => Noticed'
  BY <1>3 DEF Joined, Go, Noticed, Held
<1>17. Wait => Noticed'
  <2> SUFFICES ASSUME Wait PROVE Noticed'
    OBVIOUS
  <2>1. CASE screen.ack
    BY <1>2, <1>3, <2>1 DEF Wait, Go, Noticed, Held
  <2>2. CASE ~screen.ack
    BY <1>3, <1>5, <2>2 DEF Wait, Noticed, Held
  <2>3. QED
    BY <2>1, <2>2
\* the render thread
<1>18. RenderWait => Noticed'
  BY <1>3 DEF RenderWait, Noticed, Held
<1>19. RenderTimeout => Noticed'
  BY <1>3 DEF RenderTimeout, Noticed, Held
<1>20. RenderDrain => Noticed'
  <2> SUFFICES ASSUME RenderDrain PROVE Noticed'
    OBVIOUS
  <2>1. /\ screen' = Drained /\ render' # "asleep"
        /\ main' = IF Drained.ack THEN WokenMain(main) ELSE main
    BY DEF RenderDrain, Drained, WokenAll
  <2>2. screen.ack \/ (\E p \in DOMAIN queue : queue[p] = "idle") => Drained.ack
    BY <1>1, DrainedHow
  <2>3. CASE Held
    <3>1. Drained.ack
      BY <1>3, <2>2, <2>3
    <3>2. main'.at # "asleep"
      BY <1>5, <2>1, <3>1 DEF WokenMain
    <3>3. QED
      BY <2>1, <3>1, <3>2 DEF Noticed
  <2>4. CASE ~Held
    <3>1. main' = main
      BY <2>1, <2>4 DEF WokenMain, Held
    <3>2. QED
      BY <2>1, <2>4, <3>1 DEF Noticed, Held
  <2>5. QED
    BY <2>3, <2>4
<1>21. UNCHANGED vars => Noticed'
  BY <1>3 DEF vars, Noticed, Held
<1>22. QED
  BY <1>6, <1>7, <1>8, <1>9, <1>10, <1>11, <1>12, <1>13, <1>14, <1>15, <1>16, <1>17, <1>18,
     <1>19, <1>20, <1>21, StepCases

LEMMA Begins == Init => IInv
<1> SUFFICES ASSUME Init PROVE IInv
  OBVIOUS
<1>1. TypeOK
  <2>1. <<>> \in Seq(Event) /\ <<>> \in Seq({"running", "done"}) /\ Len(<<>>) = 0
    OBVIOUS
  <2>2. QED
    BY <2>1, UIAssumption DEF Init, TypeOK, View, MainAt
<1>2. Awaited
  BY DEF Init, Awaited
<1>3. Noticed
  BY DEF Init, Noticed, Held
<1>4. QED
  BY <1>1, <1>2, <1>3 DEF IInv

LEMMA Invariance ==
  ASSUME MaxGuests < QueueSize - 1
  PROVE  Spec => []IInv
<1>1. IInv /\ [Next]_vars => IInv'
  BY TypeStep, AwaitedStep, NoticedStep DEF IInv
<1>2. QED
  BY <1>1, Begins, PTL DEF Spec
------------------------------------------------------------------------------
(***************************************************************************)
(* The last frame.                                                         *)
(***************************************************************************)
LEMMA PushedAll ==
  ASSUME NEW q \in Seq(Event), Len(q) < QueueSize, NEW e \in Event,
         NEW S, \A k \in DOMAIN q : q[k] \in S, e \in S
  PROVE  \A k \in DOMAIN Pushed(q, e) : Pushed(q, e)[k] \in S
<1> DEFINE u == Pushed(q, e)
<1>1. PICK w \in DOMAIN u : /\ w = Len(u) /\ u[w] = e
                            /\ \A T : (\A k \in DOMAIN q : q[k] \in T) => Before(u, w, T)
  BY PushedLast
<1>2. u \in Seq(Event) /\ DOMAIN u = 1..Len(u)
  BY PushedHow
<1>3. Before(u, w, S)
  BY <1>1
<1> HIDE DEF u
<1>4. \A k \in DOMAIN u : k < w \/ k = w
  <2>1. w = Len(u) /\ Len(u) \in Nat
    BY <1>1, <1>2
  <2>2. QED
    BY <1>2, <2>1
<1>5. \A k \in DOMAIN u : u[k] \in S
  BY <1>1, <1>3, <1>4 DEF Before
<1>6. QED
  BY <1>5 DEF u

\* Where nothing is awaited, all slots are done.
LEMMA AwaitedDone ==
  ASSUME TypeOK, Awaited, main.at # "tools"
  PROVE  todo = {} /\ AllDone
<1>1. todo = {}
  BY DEF Awaited
<1>2. ASSUME NEW i \in DOMAIN slots PROVE slots[i] = "done"
  <2>1. slots[i] \in {"running", "done"}
    BY DEF TypeOK
  <2>2. QED
    BY <1>1, <2>1 DEF Awaited
<1>3. QED
  BY <1>1, <1>2 DEF AllDone

LEMMA ReportedHow ==
  ASSUME TypeOK
  PROVE  Reported \in 0..MaxSlots
<1>1. Len(slots) \in Nat /\ DOMAIN slots = 1..Len(slots) /\ Len(slots) <= MaxSlots /\ MaxSlots \in Nat
  BY UIAssumption DEF TypeOK
<1>2. IsFiniteSet(1..Len(slots)) /\ Cardinality(1..Len(slots)) = Len(slots)
  <2>1. \A n \in Nat : IsFiniteSet(1..n) /\ Cardinality(1..n) = n
    <3> SUFFICES ASSUME NEW n \in Nat PROVE IsFiniteSet(1..n) /\ Cardinality(1..n) = n
      OBVIOUS
    <3>1. Cardinality(1..n) = IF 1 > n THEN 0 ELSE n - 1 + 1
      BY FS_Interval
    <3>2. IsFiniteSet(1..n)
      BY FS_Interval
    <3>3. QED
      BY <3>1, <3>2
  <2>2. QED
    BY <1>1, <2>1
<1> DEFINE A == DOMAIN slots
           B == DOMAIN slots \ todo
<1>3. B \in SUBSET A /\ IsFiniteSet(A) /\ Cardinality(A) = Len(slots)
  BY <1>1, <1>2
<1>4. Reported = Cardinality(B)
  BY DEF Reported
<1> HIDE DEF A, B
<1>5. IsFiniteSet(B) /\ Cardinality(B) <= Cardinality(A)
  BY <1>3, FS_Subset
<1>6. Cardinality(B) \in Nat
  BY <1>5, FS_CardinalityType
<1>7. QED
  BY <1>1, <1>3, <1>4, <1>5, <1>6

LEMMA ReportedStep ==
  ASSUME TypeOK, NEW i \in todo, DOMAIN slots' = DOMAIN slots, todo' = todo \ {i}
  PROVE  /\ i \in DOMAIN slots => Reported' = Reported + 1
         /\ ~ (i \in DOMAIN slots) => Reported' = Reported
<1>1. CASE i \in DOMAIN slots
  <2> DEFINE B == DOMAIN slots \ todo
  <2>1. IsFiniteSet(DOMAIN slots)
    <3>1. Len(slots) \in Nat /\ DOMAIN slots = 1..Len(slots)
      BY DEF TypeOK
    <3>2. QED
      BY <3>1, FS_Interval
  <2>2. IsFiniteSet(B)
    BY <2>1, FS_Difference
  <2>3. DOMAIN slots' \ todo' = B \cup {i} /\ ~ (i \in B)
    BY <1>1
  <2>4. Reported = Cardinality(B) /\ Reported' = Cardinality(B \cup {i})
    BY <2>3 DEF Reported
  <2> HIDE DEF B
  <2>5. Cardinality(B \cup {i}) = Cardinality(B) + 1
    BY <2>2, <2>3, FS_AddElement
  <2>6. QED
    BY <1>1, <2>4, <2>5
<1>2. CASE ~ (i \in DOMAIN slots)
  <2>1. DOMAIN slots' \ todo' = DOMAIN slots \ todo
    BY <1>2
  <2>2. QED
    BY <1>2, <2>1 DEF Reported
<1>3. QED
  BY <1>1, <1>2

\* The ring holds what can be posted, from one drain of it to the next, behind the
\* event of a batch (its tools' reports, the guests' and the idle event) and
\* behind the idle event (the requests of chats that fail, the guests' reports,
\* and one more idle event or that of ui_stop).
Room == MaxSlots + MaxGuests + 3 <= QueueSize /\ MaxTurns + MaxGuests + 3 <= QueueSize

LEMMA KeepingStep ==
  ASSUME TypeOK, Awaited, Stopping, Keeping, [Next]_vars, Room
  PROVE  Keeping'
<1> SUFFICES ASSUME ~screen'.kept PROVE Fresh' \/ Shown' \/ Behind'
  BY DEF Keeping
<1>1. /\ queue \in Seq(Event) /\ Len(queue) < QueueSize /\ Len(queue) \in Nat
      /\ DOMAIN queue = 1..Len(queue)
      /\ screen \in View /\ main \in [at : MainAt, to : MainAt]
      /\ guests \in 0..MaxGuests /\ turn \in 0..MaxTurns
      /\ QueueSize \in Nat /\ MaxGuests \in Nat /\ MaxSlots \in Nat /\ MaxTurns \in Nat
      /\ Reported \in 0..MaxSlots
  BY UIAssumption, ReportedHow DEF TypeOK
<1>2. {"thinking", "tools", "done", "idle", "shutdown"} = Event
  BY DEF Event
<1>3. \A p \in {"wait", "asleep"} : [main EXCEPT !.at = p].at = p
  BY <1>1
<1>4. ~screen.kept => Fresh \/ Shown \/ Behind
  BY DEF Keeping
<1>5. MaxSlots + MaxGuests + 3 <= QueueSize /\ MaxTurns + MaxGuests + 3 <= QueueSize
  BY DEF Room
<1>before. ASSUME NEW e \in Event, NEW p \in DOMAIN queue, Len(queue) - p < QueueSize - 2,
                  Before(queue, p, {"done"})
           PROVE  \E w \in DOMAIN Pushed(queue, e) :
                    /\ Pushed(queue, e)[w] = queue[p]
                    /\ Len(Pushed(queue, e)) - w = Len(queue) - p + 1
                    /\ Before(Pushed(queue, e), w, {"done"})
  BY <1>1, <1>before, PushedKeeps
<1>after. ASSUME NEW e \in Event, NEW p \in DOMAIN queue, Len(queue) - p < QueueSize - 2,
                 NEW S, After(queue, p, S), e \in S
          PROVE  \E w \in DOMAIN Pushed(queue, e) :
                   /\ Pushed(queue, e)[w] = queue[p]
                   /\ Len(Pushed(queue, e)) - w = Len(queue) - p + 1
                   /\ After(Pushed(queue, e), w, S)
  BY <1>1, <1>after, PushedKeeps
<1>6. BeginThinking => Behind'
  <2> SUFFICES ASSUME BeginThinking PROVE Behind'
    OBVIOUS
  <2>1. /\ main.at \in {"prompt", "reclaim"} /\ turn < MaxTurns
        /\ queue' = Pushed(queue, "thinking") /\ main'.at = "ask"
        /\ turn' = turn + 1 /\ guests' = guests
    BY DEF BeginThinking, Post, Go
  <2>2. ~screen'.ack /\ screen'.phase = screen.phase /\ screen'.kept = screen.kept
    BY <1>1 DEF BeginThinking, View
  <2>3. Behind
    BY <1>4, <2>1, <2>2 DEF Fresh, Shown, Held
  <2>4. PICK p \in DOMAIN queue : /\ queue[p] = "idle" /\ Before(queue, p, {"done"})
                                  /\ Len(queue) - p <= guests + turn
    BY <1>1, <2>1, <2>3 DEF Behind, Held
  <2>5. Len(queue) - p < QueueSize - 2 /\ Len(queue) - p + 1 <= guests' + turn'
    BY <1>1, <1>5, <2>1, <2>4
  <2>6. PICK w \in DOMAIN queue' :
          /\ queue'[w] = "idle" /\ Len(queue') - w = Len(queue) - p + 1
          /\ Before(queue', w, {"done"})
    BY <1>before, <1>1, <1>2, <2>1, <2>4, <2>5
  <2>7. Len(queue') - w <= guests' + turn' + 0
    BY <1>1, <2>1, <2>5, <2>6
  <2>8. QED
    BY <2>1, <2>2, <2>3, <2>6, <2>7 DEF Behind, Held
<1>7. ASSUME NEW n \in 1..MaxBatch, BeginTools(n) PROVE Fresh'
  <2>1. queue' = Pushed(queue, "tools") /\ main'.at = "tools" /\ guests' = guests
    BY <1>7 DEF BeginTools, Post, Go
  <2>2. ~screen'.ack
    BY <1>1, <1>7 DEF BeginTools, View
  <2>3. PICK w \in DOMAIN queue' : /\ w = Len(queue') /\ queue'[w] = "tools"
                                   /\ \A S : After(queue', w, S)
    BY <1>1, <1>2, <2>1, PushedLast
  <2>4. DOMAIN slots' = 1..Min2(n, MaxSlots) /\ todo' = 1..n /\ Min2(n, MaxSlots) <= n
        /\ Min2(n, MaxSlots) \in Nat
    BY <1>1, <1>7 DEF BeginTools, Min2
  <2>5. Reported' = 0
    <3>1. DOMAIN slots' \ todo' = {}
      BY <2>4
    <3>2. QED
      BY <3>1, FS_EmptySet DEF Reported
  <2>6. Len(queue') - w <= guests' + Reported' + 0
    BY <1>1, <2>1, <2>3, <2>5
  <2>7. QED
    BY <2>1, <2>2, <2>3, <2>6 DEF Fresh, Held
<1>8. ASSUME NEW i \in 1..MaxBatch, ToolDone(i) PROVE Fresh' \/ Shown'
  <2>1. main.at = "tools" /\ i \in todo /\ todo' = todo \ {i} /\ Done(i)
        /\ screen' = screen /\ guests' = guests
    BY <1>8 DEF ToolDone, Awaited
  <2>2. main' = main
    BY <2>1, DoneHow
  <2>3. DOMAIN slots' = DOMAIN slots
    BY <2>1, DoneHow
  <2>4. CASE Fresh
    <3>1. PICK p \in DOMAIN queue :
            /\ queue[p] = "tools" /\ After(queue, p, {"done"})
            /\ Len(queue) - p <= guests + Reported
      BY <1>1, <2>1, <2>4 DEF Fresh, Held
    <3>2. CASE queue' = Pushed(queue, "done") /\ i \in DOMAIN slots
      <4>1. Reported' = Reported + 1
        BY <2>1, <2>3, <3>2, ReportedStep
      <4>2. Len(queue) - p < QueueSize - 2 /\ Len(queue) - p + 1 <= guests' + Reported'
        BY <1>1, <1>5, <2>1, <3>1, <4>1
      <4>3. PICK w \in DOMAIN queue' :
              /\ queue'[w] = "tools" /\ Len(queue') - w = Len(queue) - p + 1
              /\ After(queue', w, {"done"})
        BY <1>after, <1>1, <1>2, <3>1, <3>2, <4>2
      <4>4. Len(queue') - w <= guests' + Reported' + 0
        BY <1>1, <2>1, <4>1, <4>2, <4>3
      <4>5. QED
        BY <2>1, <2>2, <2>4, <4>3, <4>4 DEF Fresh, Held
    <3>3. CASE queue' = queue /\ ~ (i \in DOMAIN slots)
      <4>1. Reported' = Reported
        BY <2>1, <2>3, <3>3, ReportedStep
      <4>2. QED
        BY <2>1, <2>2, <2>4, <3>3, <4>1 DEF Fresh, Held
    <3>4. QED
      BY <2>1, <3>2, <3>3 DEF Done
  <2>5. CASE Shown
    <3>1. \A k \in DOMAIN queue' : queue'[k] = "done"
      <4>1. CASE queue' = queue
        BY <2>5, <4>1 DEF Shown
      <4>2. CASE queue' = Pushed(queue, "done")
        <5>1. \A k \in DOMAIN queue : queue[k] \in {"done"}
          BY <2>5 DEF Shown
        <5>2. \A k \in DOMAIN queue' : queue'[k] \in {"done"}
          BY <1>1, <1>2, <4>2, <5>1, PushedAll
        <5>3. QED
          BY <5>2
      <4>3. QED
        BY <2>1, <4>1, <4>2 DEF Done
    <3>2. QED
      BY <2>1, <2>2, <2>5, <3>1 DEF Shown
  <2>6. QED
    BY <1>4, <2>1, <2>4, <2>5 DEF Behind
<1>9. ASSUME NEW i \in 1..MaxBatch, GuestDone(i) PROVE Fresh' \/ Shown' \/ Behind'
  <2>1. /\ Done(i) /\ screen' = screen /\ guests' = guests + 1 /\ guests < MaxGuests
        /\ todo' = todo /\ turn' = turn
    BY <1>9 DEF GuestDone
  <2>2. main' = main \/ (main.at = "asleep" /\ main'.at = "wait")
    BY <1>3, <2>1, DoneHow
  <2>3. /\ Held' <=> Held
        /\ main'.at \in {"tools", "idle"} <=> main.at \in {"tools", "idle"}
        /\ main'.at \in {"tools", "over"} <=> main.at \in {"tools", "over"}
        /\ main'.at \in {"ask", "idle"} <=> main.at \in {"ask", "idle"}
        /\ main'.at = "join" <=> main.at = "join"
    BY <2>1, <2>2 DEF Held
  <2>4. DOMAIN slots' = DOMAIN slots
    BY <2>1, DoneHow
  <2>5. Reported' = Reported
    BY <2>1, <2>4 DEF Reported
  <2>6. queue' = queue \/ queue' = Pushed(queue, "done")
    BY <2>1 DEF Done
  <2>7. CASE Fresh
    <3> DEFINE S == IF Held THEN {"done", "idle"} ELSE {"done"}
               h == IF Held THEN 1 ELSE 0
    <3>1. PICK p \in DOMAIN queue : /\ queue[p] = "tools" /\ After(queue, p, S)
                                    /\ Len(queue) - p <= guests + Reported + h
      BY <2>7 DEF Fresh
    <3>2. "done" \in S /\ h \in {0, 1}
      OBVIOUS
    <3> HIDE DEF S, h
    <3>3. /\ Len(queue) - p < QueueSize - 2
          /\ Len(queue) - p + 1 <= guests' + Reported' + h
          /\ Len(queue) - p <= guests' + Reported' + h
      BY <1>1, <1>5, <2>1, <2>5, <3>1, <3>2
    <3>4. \E w \in DOMAIN queue' : /\ queue'[w] = "tools" /\ After(queue', w, S)
                                   /\ Len(queue') - w <= guests' + Reported' + h
      <4>1. CASE queue' = queue
        BY <3>1, <3>3, <4>1
      <4>2. CASE queue' = Pushed(queue, "done")
        <5>1. PICK w \in DOMAIN queue' :
                /\ queue'[w] = "tools" /\ Len(queue') - w = Len(queue) - p + 1
                /\ After(queue', w, S)
          BY <1>after, <1>1, <1>2, <3>1, <3>2, <3>3, <4>2
        <5>2. QED
          BY <3>3, <5>1
      <4>3. QED
        BY <2>6, <4>1, <4>2
    <3>5. QED
      BY <2>1, <2>3, <2>7, <3>4 DEF Fresh, S, h
  <2>8. CASE Shown
    <3>1. \A k \in DOMAIN queue : queue[k] \in {"done"}
      BY <2>8 DEF Shown
    <3>2. \A k \in DOMAIN queue' : queue'[k] \in {"done"}
      BY <1>1, <1>2, <2>6, <3>1, PushedAll
    <3>3. QED
      BY <2>1, <2>3, <2>8, <3>2 DEF Shown
  <2>9. CASE Behind
    <3> DEFINE h == IF main.at = "join" \/ (Held /\ ~screen.ack) THEN 1 ELSE 0
    <3>1. PICK p \in DOMAIN queue : /\ queue[p] = "idle" /\ Before(queue, p, {"done"})
                                    /\ Len(queue) - p <= guests + turn + h
      BY <2>9 DEF Behind
    <3>2. h \in {0, 1} /\ h = IF main'.at = "join" \/ (Held' /\ ~screen'.ack) THEN 1 ELSE 0
      BY <2>1, <2>3
    <3> HIDE DEF h
    <3>3. /\ Len(queue) - p < QueueSize - 2
          /\ Len(queue) - p + 1 <= guests' + turn' + h
          /\ Len(queue) - p <= guests' + turn' + h
      BY <1>1, <1>5, <2>1, <3>1, <3>2
    <3>4. \E w \in DOMAIN queue' : /\ queue'[w] = "idle" /\ Before(queue', w, {"done"})
                                   /\ Len(queue') - w <= guests' + turn' + h
      <4>1. CASE queue' = queue
        BY <3>1, <3>3, <4>1
      <4>2. CASE queue' = Pushed(queue, "done")
        <5>1. PICK w \in DOMAIN queue' :
                /\ queue'[w] = "idle" /\ Len(queue') - w = Len(queue) - p + 1
                /\ Before(queue', w, {"done"})
          BY <1>before, <1>1, <1>2, <3>1, <3>3, <4>2
        <5>2. QED
          BY <3>3, <5>1
      <4>3. QED
        BY <2>6, <4>1, <4>2
    <3>5. QED
      BY <2>1, <2>3, <2>9, <3>2, <3>4 DEF Behind
  <2>10. QED
    BY <1>4, <2>1, <2>7, <2>8, <2>9
<1>10. ToolsJoined => Fresh' \/ Shown' \/ Behind'
  <2> SUFFICES ASSUME ToolsJoined PROVE Fresh' \/ Shown'
    OBVIOUS
  <2>1. /\ main.at = "tools" /\ main'.at = "idle" /\ screen' = screen /\ queue' = queue
        /\ guests' = guests /\ slots' = slots /\ todo' = todo
    BY DEF ToolsJoined, GoIdle
  <2>2. Fresh => Fresh'
    BY <2>1 DEF Fresh, Held, Reported
  <2>3. QED
    BY <1>4, <2>1, <2>2 DEF Shown, Behind
<1>11. Answered => Behind'
  BY <1>4 DEF Answered, GoIdle, Fresh, Shown, Behind, Held
<1>12. ChatFails => Behind'
  BY <1>4 DEF ChatFails, Go, Fresh, Shown, Behind, Held
<1>13. PrintReply => Behind'
  BY <1>4 DEF PrintReply, Go, Fresh, Shown, Behind, Held
<1>14. PostIdle => Fresh' \/ Behind'
  <2> SUFFICES ASSUME PostIdle PROVE Fresh' \/ Behind'
    OBVIOUS
  <2>1. /\ main.at = "idle" /\ main'.at = "wait" /\ queue' = Pushed(queue, "idle")
        /\ screen' = screen /\ guests' = guests /\ turn' = turn
        /\ slots' = slots /\ todo' = todo
    BY <1>3 DEF PostIdle, Post
  <2>2. CASE Fresh
    <3>1. PICK p \in DOMAIN queue : /\ queue[p] = "tools" /\ After(queue, p, {"done"})
                                    /\ Len(queue) - p <= guests + Reported
      BY <1>1, <2>1, <2>2 DEF Fresh, Held
    <3>2. After(queue, p, {"done", "idle"})
      BY <3>1 DEF After
    <3>3. Len(queue) - p < QueueSize - 2 /\ Len(queue) - p + 1 <= guests + Reported + 1
      BY <1>1, <1>5, <3>1
    <3>4. PICK w \in DOMAIN queue' :
            /\ queue'[w] = "tools" /\ Len(queue') - w = Len(queue) - p + 1
            /\ After(queue', w, {"done", "idle"})
      BY <1>after, <1>1, <1>2, <2>1, <3>1, <3>2, <3>3
    <3>5. Reported' = Reported
      BY <2>1 DEF Reported
    <3>6. Len(queue') - w <= guests' + Reported' + 1
      BY <2>1, <3>3, <3>4, <3>5
    <3>7. QED
      BY <2>1, <2>2, <3>4, <3>6 DEF Fresh, Held
  <2>3. CASE Shown
    <3>1. \A k \in DOMAIN queue : queue[k] \in {"done"}
      BY <2>3 DEF Shown
    <3>2. PICK w \in DOMAIN queue' : /\ w = Len(queue') /\ queue'[w] = "idle"
                                     /\ Before(queue', w, {"done"})
      BY <1>1, <1>2, <2>1, <3>1, PushedLast
    <3>3. Len(queue') - w <= guests' + turn' + 0 /\ Len(queue') - w <= guests' + turn' + 1
      BY <1>1, <2>1, <3>2
    <3>4. QED
      BY <2>1, <2>3, <3>2, <3>3 DEF Shown, Behind, Held
  <2>4. CASE Behind
    <3>1. ~screen.ack
      BY <2>1, <2>4 DEF Behind
    <3>2. PICK p \in DOMAIN queue : /\ queue[p] = "idle" /\ Before(queue, p, {"done"})
                                    /\ Len(queue) - p <= guests + turn
      BY <1>1, <2>1, <2>4 DEF Behind, Held
    <3>3. Len(queue) - p < QueueSize - 2
      BY <1>1, <1>5, <3>2
    <3>4. PICK w \in DOMAIN queue' :
            /\ queue'[w] = "idle" /\ Len(queue') - w = Len(queue) - p + 1
            /\ Before(queue', w, {"done"})
      BY <1>before, <1>1, <1>2, <2>1, <3>2, <3>3
    <3>5. Len(queue') - w <= guests' + turn' + 1
      BY <1>1, <2>1, <3>2, <3>4
    <3>6. QED
      BY <2>1, <2>4, <3>1, <3>4, <3>5 DEF Behind, Held
  <2>5. QED
    BY <1>4, <2>1, <2>2, <2>3, <2>4
<1>15. Wait => Fresh' \/ Behind'
  <2> SUFFICES ASSUME Wait PROVE Fresh' \/ Behind'
    OBVIOUS
  <2>1. /\ main.at = "wait" /\ screen' = screen /\ queue' = queue /\ guests' = guests
        /\ turn' = turn /\ slots' = slots /\ todo' = todo
        /\ screen.ack => main'.at \in {"reclaim", "print"}
        /\ ~screen.ack => main'.at = "asleep"
    <3>1. main.at = "wait" => main.to \in {"reclaim", "print"}
      BY DEF Awaited
    <3>2. CASE screen.ack
      BY <3>1, <3>2 DEF Wait, Go
    <3>3. CASE ~screen.ack
      BY <1>3, <3>3 DEF Wait
    <3>4. QED
      BY <3>2, <3>3
  <2>2. CASE Fresh
    BY <2>1, <2>2 DEF Fresh, Held, Reported
  <2>3. CASE Behind /\ screen.ack
    BY <2>1, <2>3 DEF Behind, Held
  <2>4. CASE Behind /\ ~screen.ack
    BY <2>1, <2>4 DEF Behind, Held
  <2>5. QED
    BY <1>4, <2>1, <2>2, <2>3, <2>4 DEF Shown
<1>16. ~Joined
  BY <1>4 DEF Joined, Stopping
<1>17. Stop => Behind'
  <2> SUFFICES ASSUME Stop PROVE Behind'
    OBVIOUS
  <2>1. /\ main.at = "prompt" /\ main'.at = "join" /\ queue' = Pushed(queue, "shutdown")
        /\ screen' = screen /\ guests' = guests /\ turn' = turn
    BY DEF Stop, Post, Go
  <2>2. Behind
    BY <1>4, <2>1 DEF Fresh, Shown, Held
  <2>3. PICK p \in DOMAIN queue : /\ queue[p] = "idle" /\ Before(queue, p, {"done"})
                                  /\ Len(queue) - p <= guests + turn
    BY <1>1, <2>1, <2>2 DEF Behind, Held
  <2>4. Len(queue) - p < QueueSize - 2
    BY <1>1, <1>5, <2>3
  <2>5. PICK w \in DOMAIN queue' :
          /\ queue'[w] = "idle" /\ Len(queue') - w = Len(queue) - p + 1
          /\ Before(queue', w, {"done"})
    BY <1>before, <1>1, <1>2, <2>1, <2>3, <2>4
  <2>6. Len(queue') - w <= guests' + turn' + 1
    BY <1>1, <2>1, <2>3, <2>5
  <2>7. QED
    BY <2>1, <2>2, <2>5, <2>6 DEF Behind, Held
<1>18. RenderWait => Fresh' \/ Shown' \/ Behind'
  BY <1>4 DEF RenderWait, Fresh, Shown, Behind, Held, Reported
<1>19. RenderTimeout => Fresh' \/ Shown' \/ Behind'
  BY <1>4 DEF RenderTimeout, Fresh, Shown, Behind, Held, Reported
<1>20. RenderDrain => Shown'
  <2> SUFFICES ASSUME RenderDrain PROVE Shown'
    OBVIOUS
  <2>1. /\ screen' = Drained /\ queue' = <<>>
        /\ main' = IF Drained.ack THEN WokenMain(main) ELSE main
    BY DEF RenderDrain, Drained, WokenAll
  <2> HIDE DEF Drained
  <2>2. ~screen.kept /\ ~Drained.kept
    BY <1>1, <2>1, DrainedHow
  <2>3. ~Behind
    <3> SUFFICES ASSUME Behind PROVE FALSE
      OBVIOUS
    <3>1. AllDone
      BY AwaitedDone DEF Behind
    <3>2. QED
      BY <1>1, <2>2, <3>1, DrainedHow DEF Behind
  <2>4. ~Drained.stop
    <3>1. ~ (main.at \in {"join", "over"})
      BY <1>4, <2>2, <2>3 DEF Fresh, Shown, Held
    <3>2. ~screen.stop /\ \A k \in DOMAIN queue : queue[k] # "shutdown"
      BY <3>1 DEF Stopping
    <3>3. QED
      BY <1>1, <3>2, DrainedHow
  <2>5. ~AllDone
    <3> SUFFICES ASSUME AllDone PROVE FALSE
      OBVIOUS
    <3>1. CASE Fresh
      <4>1. PICK p \in DOMAIN queue : queue[p] = "tools" /\ After(queue, p, {"done", "idle"})
        BY <3>1 DEF Fresh, After
      <4>2. QED
        BY <1>1, <2>2, <2>4, <4>1, DrainedHow
    <3>2. CASE Shown
      <4>1. Showing
        BY <3>2 DEF Shown, Showing
      <4>2. QED
        BY <1>1, <2>2, <2>4, <4>1, DrainedHow
    <3>3. QED
      BY <1>4, <2>2, <2>3, <3>1, <3>2
  <2>6. main.at = "tools"
    BY <2>5, AwaitedDone
  <2>7. Showing
    BY <1>4, <2>2, <2>3, <2>6 DEF Fresh, Shown, Showing, Held
  <2>8. Drained.phase = "tools"
    BY <1>1, <2>4, <2>5, <2>7, DrainedHow
  <2>9. main' = main
    BY <2>1, <2>6 DEF WokenMain
  <2>10. QED
    BY <2>1, <2>6, <2>8, <2>9 DEF Shown
<1>21. UNCHANGED vars => Fresh' \/ Shown' \/ Behind'
  BY <1>4 DEF vars, Fresh, Shown, Behind, Held, Reported
<1>22. QED
  BY <1>6, <1>7, <1>8, <1>9, <1>10, <1>11, <1>12, <1>13, <1>14, <1>15, <1>16, <1>17, <1>18,
     <1>19, <1>20, <1>21, StepCases

LEMMA StoppingStep ==
  ASSUME TypeOK, Awaited, Stopping, Keeping, [Next]_vars
  PROVE  Stopping'
<1>1. /\ queue \in Seq(Event) /\ Len(queue) < QueueSize /\ screen \in View
      /\ main \in [at : MainAt, to : MainAt]
  BY DEF TypeOK
<1>2. {"thinking", "tools", "done", "idle", "shutdown"} = Event
  BY DEF Event
<1>3. /\ screen.stop \/ (\E k \in DOMAIN queue : queue[k] = "shutdown") => main.at \in {"join", "over"}
      /\ render = "gone" => main.at \in {"join", "over"} /\ screen.kept
      /\ main.at = "over" => render = "gone"
  BY DEF Stopping
<1>4. Woken(render) = "gone" => render = "gone"
  BY DEF Woken
<1>5. \A p \in {"wait", "asleep"} : [main EXCEPT !.at = p].at = p
  BY <1>1
<1>6. ASSUME ~ (main.at \in {"join", "over"}), NEW e \in Event, e # "shutdown",
             queue' = Pushed(queue, e)
      PROVE  \A k \in DOMAIN queue' : queue'[k] # "shutdown"
  <2>1. \A k \in DOMAIN queue : queue[k] \in Event \ {"shutdown"}
    BY <1>1, <1>3, <1>6
  <2>2. e \in Event \ {"shutdown"}
    BY <1>6
  <2>3. \A k \in DOMAIN queue' : queue'[k] \in Event \ {"shutdown"}
    BY <1>1, <1>6, <2>1, <2>2, PushedAll
  <2>4. QED
    BY <2>3
<1>7. BeginThinking => Stopping'
  <2> SUFFICES ASSUME BeginThinking PROVE Stopping'
    OBVIOUS
  <2>1. /\ main.at \in {"prompt", "reclaim"} /\ main'.at = "ask"
        /\ queue' = Pushed(queue, "thinking") /\ render' = Woken(render)
    BY DEF BeginThinking, Post, SignalRender, Go
  <2>2. screen'.stop = screen.stop
    BY <1>1 DEF BeginThinking, View
  <2>3. QED
    BY <1>2, <1>3, <1>4, <1>6, <2>1, <2>2 DEF Stopping
<1>8. ASSUME NEW n \in 1..MaxBatch, BeginTools(n) PROVE Stopping'
  <2>1. /\ main.at = "ask" /\ main'.at = "tools"
        /\ queue' = Pushed(queue, "tools") /\ render' = Woken(render)
    BY <1>8 DEF BeginTools, Post, SignalRender, Go
  <2>2. screen'.stop = screen.stop
    BY <1>1, <1>8 DEF BeginTools, View
  <2>3. QED
    BY <1>2, <1>3, <1>4, <1>6, <2>1, <2>2 DEF Stopping
<1>9. ASSUME NEW i, Done(i), main.at # "over", screen' = screen
      PROVE  Stopping'
  <2>1. CASE UNCHANGED <<slots, queue, render, main>>
    BY <1>3, <1>9, <2>1 DEF Stopping
  <2>2. CASE /\ queue' = Pushed(queue, "done")
             /\ \/ render' = Woken(render) /\ main' = main
                \/ main.at = "asleep" /\ main' = [main EXCEPT !.at = "wait"] /\ render' = render
    <3>1. CASE main.at = "join"
      <4>1. main'.at = "join" /\ (render' = "gone" => render = "gone")
        BY <1>4, <2>2, <3>1
      <4>2. QED
        BY <1>3, <1>9, <4>1 DEF Stopping
    <3>2. CASE main.at # "join"
      <4>1. \A k \in DOMAIN queue' : queue'[k] # "shutdown"
        BY <1>2, <1>6, <1>9, <2>2, <3>2
      <4>2. render' # "gone" /\ main'.at # "over"
        BY <1>3, <1>4, <1>5, <1>9, <2>2, <3>2
      <4>3. QED
        BY <1>3, <1>9, <3>2, <4>1, <4>2 DEF Stopping
    <3>3. QED
      BY <3>1, <3>2
  <2>3. QED
    BY <1>9, <2>1, <2>2, DoneHow
<1>10. ASSUME NEW i \in 1..MaxBatch, ToolDone(i) PROVE Stopping'
  <2>1. i \in todo /\ Done(i) /\ screen' = screen
    BY <1>10 DEF ToolDone
  <2>2. main.at = "tools"
    BY <2>1 DEF Awaited
  <2>3. QED
    BY <1>9, <2>1, <2>2
<1>11. ASSUME NEW i \in 1..MaxBatch, GuestDone(i) PROVE Stopping'
  BY <1>9, <1>11 DEF GuestDone
<1>12. ToolsJoined => Stopping'
  BY <1>3 DEF ToolsJoined, GoIdle, Stopping
<1>13. Answered => Stopping'
  BY <1>3 DEF Answered, GoIdle, Stopping
<1>14. ChatFails => Stopping'
  BY <1>3 DEF ChatFails, Go, Stopping
<1>15. PrintReply => Stopping'
  BY <1>3 DEF PrintReply, Go, Stopping
<1>16. PostIdle => Stopping'
  <2> SUFFICES ASSUME PostIdle PROVE Stopping'
    OBVIOUS
  <2>1. /\ main.at = "idle" /\ main'.at = "wait" /\ screen' = screen
        /\ queue' = Pushed(queue, "idle") /\ render' = Woken(render)
    BY <1>5 DEF PostIdle, Post, SignalRender
  <2>2. QED
    BY <1>2, <1>3, <1>4, <1>6, <2>1 DEF Stopping
<1>17. Wait => Stopping'
  <2> SUFFICES ASSUME Wait PROVE Stopping'
    OBVIOUS
  <2>1. /\ main.at = "wait" /\ screen' = screen /\ queue' = queue /\ render' = render
        /\ main'.at # "over"
    <3>1. main.at = "wait" => main.to \in {"reclaim", "print"}
      BY DEF Awaited
    <3>2. CASE screen.ack
      BY <3>1, <3>2 DEF Wait, Go
    <3>3. CASE ~screen.ack
      BY <1>5, <3>3 DEF Wait
    <3>4. QED
      BY <3>2, <3>3
  <2>2. QED
    BY <1>3, <2>1 DEF Stopping
<1>18. Joined => Stopping'
  BY <1>3 DEF Joined, Go, Stopping
<1>19. Stop => Stopping'
  BY <1>3, <1>4 DEF Stop, Post, SignalRender, Go, Stopping
<1>20. RenderWait => Stopping'
  BY <1>3 DEF RenderWait, Stopping
<1>21. RenderTimeout => Stopping'
  BY <1>3 DEF RenderTimeout, Stopping
<1>22. RenderDrain => Stopping'
  <2> SUFFICES ASSUME RenderDrain PROVE Stopping'
    OBVIOUS
  <2>1. /\ render = "woken" /\ screen' = Drained /\ queue' = <<>>
        /\ main' = IF Drained.ack THEN WokenMain(main) ELSE main
        /\ render' = IF Drained.stop THEN "gone" ELSE "awake"
    BY DEF RenderDrain, Drained, WokenAll
  <2> HIDE DEF Drained
  <2>2. main.at # "over"
    BY <1>3, <2>1
  <2>3. CASE Drained.stop
    <3>1. main.at = "join"
      BY <1>1, <1>3, <2>2, <2>3, DrainedHow
    <3>2. main' = main
      BY <2>1, <3>1 DEF WokenMain
    <3>3. Drained.kept
      <4>1. CASE screen.kept
        BY <1>1, <4>1, DrainedHow
      <4>2. CASE ~screen.kept
        <5>1. Behind
          BY <3>1, <4>2 DEF Keeping, Fresh, Shown, Held
        <5>2. AllDone
          BY <3>1, AwaitedDone
        <5>3. QED
          BY <1>1, <5>1, <5>2, DrainedHow DEF Behind
      <4>3. QED
        BY <4>1, <4>2
    <3>4. QED
      BY <2>1, <2>3, <3>1, <3>2, <3>3 DEF Stopping
  <2>4. CASE ~Drained.stop
    <3>1. main'.at # "over"
      BY <1>5, <2>1, <2>2 DEF WokenMain
    <3>2. QED
      BY <2>1, <2>4, <3>1 DEF Stopping
  <2>5. QED
    BY <2>3, <2>4
<1>23. UNCHANGED vars => Stopping'
  BY <1>3 DEF vars, Stopping
<1>24. QED
  BY <1>7, <1>8, <1>10, <1>11, <1>12, <1>13, <1>14, <1>15, <1>16, <1>17, <1>18, <1>19,
     <1>20, <1>21, <1>22, <1>23, StepCases
------------------------------------------------------------------------------
(***************************************************************************)
(* The theorems about the ring.                                            *)
(***************************************************************************)
\* As long as guests post fewer events than the ring holds between two turns of
\* the render thread, it is never asleep without a time limit on events it has
\* not seen, and the ring never overruns (ui.c:63, 76, render.c:270).  With one
\* guest more the idle event is dropped and main waits for it: a hypothesis that
\* TLC shows to be the weakest.
THEOREM SleepsOnNothing ==
  ASSUME MaxGuests < QueueSize - 1
  PROVE  Spec => []NeverOversleeps
<1>1. IInv => NeverOversleeps
  BY DEF IInv, Noticed, NeverOversleeps
<1>2. QED
  BY <1>1, Invariance, PTL

\* If the ring holds a batch's reports, and the requests of the chats that fail,
\* from one turn of the render thread to the next, the last frame of the tools
\* is in the scrollback when the program has ended (render.c:302).
THEOREM LastFrameStays ==
  ASSUME Room
  PROVE  Spec => []FrameKept
<1>1. Init => TypeOK /\ Awaited /\ Stopping /\ Keeping
  <2> SUFFICES ASSUME Init PROVE TypeOK /\ Awaited /\ Stopping /\ Keeping
    OBVIOUS
  <2>1. Stopping
    BY DEF Init, Stopping
  <2>2. Keeping
    BY DEF Init, Keeping
  <2>3. QED
    BY <2>1, <2>2, Begins DEF IInv
<1>2. TypeOK /\ Awaited /\ Stopping /\ Keeping /\ [Next]_vars
        => (TypeOK /\ Awaited /\ Stopping /\ Keeping)'
  BY TypeStep, AwaitedStep, StoppingStep, KeepingStep
<1>3. Stopping => FrameKept
  BY DEF Stopping, FrameKept
<1>4. QED
  BY <1>1, <1>2, <1>3, PTL DEF Spec
------------------------------------------------------------------------------
(***************************************************************************)
(* The markers of list items.  An item gets its marker with the first line *)
(* that starts in it, which may be long after it was entered, or when a    *)
(* list in it has been left; the renderer then gives the number at the     *)
(* depth it counts.  The invariant ties that depth to the lists that are   *)
(* open, and its count to the markers printed.                             *)
(***************************************************************************)
\* A block or span that is open, and a marker that has been printed.
Kinds == {"DOC", "LI", "THEAD", "TBODY", "TR"} \cup Blocks \cup Cells \cup Spans
Nodes == [type : Kinds, tight : BOOLEAN, start : Nat, nth : Nat, rows : Nat]
Notes == [list : Nat, item : Nat, start : Nat, number : Nat]

\* The renderer, as far as markers depend on it.
Counting(m) ==
  /\ DOMAIN m = DOMAIN FreshRender
  /\ m.listDepth \in Nat
  /\ m.ordered \in [1..MaxLists -> BOOLEAN] /\ m.item \in [1..MaxLists -> Nat]
  /\ m.pending \in BOOLEAN

\* What is open was entered in the order it nests in, and an item within a list.
Nested(op, n) ==
  /\ n \in Nat /\ op \in Seq(Nodes)
  /\ \A i \in 1..Len(op) : op[i].nth < n
  /\ \A i, j \in 1..Len(op) : i < j => op[i].nth < op[j].nth
  /\ \A i \in 1..Len(op) : op[i].type = "LI" => \E j \in 1..(i - 1) : op[j].type \in Lists

\* at[d] is where the d-th of the open lists is.
Depths(op, m, at) ==
  /\ at \in [1..m.listDepth -> 1..Len(op)]
  /\ \A d \in 1..m.listDepth : op[at[d]].type \in Lists
  /\ \A i \in 1..Len(op) : op[i].type \in Lists => \E d \in 1..m.listDepth : at[d] = i
  /\ \A d, e \in 1..m.listDepth : d < e => at[d] < at[e]

\* The markers of the items of a list.
Of(mk, list) == {j \in DOMAIN mk : mk[j].list = list}

\* An ordered list that is open goes on with the number after its last one.
GoesOn(op, m, mk, at) ==
  \A d \in 1..m.listDepth : d <= MaxLists /\ m.ordered[d] =>
    m.item[d] = AtLeast(op[at[d]].start, 1) + Cardinality(Of(mk, op[at[d]].nth))

\* An item that is to get a marker has none yet.
Unmarked(op, m, mk) ==
  m.pending => \E i \in 1..Len(op) :
                 /\ op[i].type = "LI" /\ \A j \in 1..Len(op) : j > i => op[j].type # "LI"
                 /\ \A k \in DOMAIN mk : mk[k].item # op[i].nth

\* The markers so far are of what has been entered, and right.
Noted(mk, n) ==
  /\ mk \in Seq(Notes)
  /\ \A k \in DOMAIN mk : mk[k].list < n /\ mk[k].item < n
  /\ \A i \in DOMAIN mk :
       LET same == {j \in DOMAIN mk : j < i /\ mk[j].list = mk[i].list}
       IN  /\ \A j \in same : mk[j].item # mk[i].item
           /\ mk[i].number # 0 => mk[i].number = AtLeast(mk[i].start, 1) + Cardinality(same)

ReplyOK(op, n, m, mk) ==
  /\ Counting(m) /\ Nested(op, n) /\ Noted(mk, n) /\ Unmarked(op, m, mk)
  /\ \E at \in [1..m.listDepth -> 1..Len(op)] : Depths(op, m, at) /\ GoesOn(op, m, mk, at)

\* A code block has nothing in it, and while it is open text goes there.
InBlock(op, m) ==
  \A i \in 1..Len(op) : op[i].type = "CODE" => i = Len(op) /\ m.inCode = TRUE

ReplyInv == ReplyOK(open, entered, r, marks) /\ InBlock(open, r)
------------------------------------------------------------------------------
(***************************************************************************)
(* What a call does to the renderer, as far as markers depend on it.       *)
(***************************************************************************)
\* Nothing, but that an item may be left without its marker.
Like(m, w) ==
  /\ DOMAIN w = DOMAIN m
  /\ w.listDepth = m.listDepth /\ w.ordered = m.ordered /\ w.item = m.item
  /\ w.pending \in BOOLEAN /\ (w.pending => m.pending)

\* The marker is given out.
Gave(m, w) ==
  /\ DOMAIN w = DOMAIN m
  /\ w.listDepth = m.listDepth /\ w.ordered = m.ordered
  /\ w.item = IF Numbered(m) THEN [m.item EXCEPT ![m.listDepth] = @ + 1] ELSE m.item
  /\ w.pending = FALSE

\* Where the renderer has the fields that the lemmas are about.
LEMMA Fields ==
  ASSUME NEW m, Counting(m)
  PROVE  /\ {"quoteDepth", "listDepth", "ordered", "item", "pending", "gap", "atStart",
             "inCode", "code", "inTable", "inHead", "inCell", "rowIsHeader", "row", "cell",
             "cols", "cells", "mode", "alt"} = DOMAIN m
         /\ m.pending \in BOOLEAN
  BY DEF Counting, FreshRender

LEMMA LikeLike ==
  ASSUME NEW m, NEW w, NEW x, Like(m, w), Like(w, x)
  PROVE  Like(m, x)
  BY DEF Like

LEMMA LikeGave ==
  ASSUME NEW m, NEW w, NEW x, Gave(m, w), Like(w, x)
  PROVE  Gave(m, x)
  BY DEF Like, Gave

LEMMA RenderingLike ==
  ASSUME NEW m, NEW w, Counting(m), Like(m, w)
  PROVE  Counting(w)
  BY DEF Like, Counting

\* Lines.
LEMMA LinesLike ==
  ASSUME NEW m, Counting(m)
  PROVE  Like(m, m) /\ Like(m, Newline(m)) /\ Like(m, EnsureLineStart(m)) /\ Like(m, MaybeBlockGap(m))
  BY Fields DEF Like, Newline, EnsureLineStart, MaybeBlockGap

LEMMA StartLineHow ==
  ASSUME NEW m, Counting(m)
  PROVE  IF Marks(m) THEN Gave(m, StartLine(m)) ELSE Like(m, StartLine(m))
<1>1. CASE Marks(m) /\ Numbered(m)
  BY <1>1, Fields DEF Marks, StartLine, Gave
<1>2. CASE Marks(m) /\ ~Numbered(m)
  BY <1>2, Fields DEF Marks, StartLine, Gave
<1>3. CASE ~Marks(m)
  BY <1>3, Fields DEF Marks, StartLine, Like
<1> QED BY <1>1, <1>2, <1>3

LEMMA TableLike ==
  ASSUME NEW m, Counting(m), NEW s
  PROVE  Like(m, TableAppend(m, s))
  BY Fields DEF TableAppend, Like

\* Text.
LEMMA PrintTextHow ==
  ASSUME NEW m, Counting(m), NEW p
  PROVE  IF Gathered(m) = "line" /\ Marks(m) THEN Gave(m, PrintText(m, p))
                                             ELSE Like(m, PrintText(m, p))
<1>1. Gathered(m) \in {"alt", "code", "cell", "line"}
  BY DEF Gathered
<1>2. CASE Gathered(m) = "alt"
  BY <1>2, Fields DEF PrintText, Like
<1>3. CASE Gathered(m) = "code"
  BY <1>3, Fields DEF PrintText, Like
<1>4. CASE Gathered(m) = "cell"
  BY <1>4, TableLike DEF PrintText
<1>5. CASE Gathered(m) = "line"
  BY <1>5, StartLineHow DEF PrintText
<1> QED BY <1>1, <1>2, <1>3, <1>4, <1>5

LEMMA PrintTextInCode ==
  ASSUME NEW m, Counting(m), NEW p, m.inCode = TRUE
  PROVE  PrintText(m, p).inCode = TRUE
<1>1. Gathered(m) \in {"alt", "code"}
  BY DEF Gathered
<1>2. CASE Gathered(m) = "alt"
  BY <1>2, Fields DEF PrintText
<1>3. CASE Gathered(m) = "code"
  BY <1>3, Fields DEF PrintText
<1> QED BY <1>1, <1>2, <1>3

\* Spans.
LEMMA SpanEnteredLike ==
  ASSUME NEW m, Counting(m), NEW type
  PROVE  Like(m, SpanEntered(m, type))
<1>1. Like(m, m) /\ Like(m, TableAppend(m, <<Filler>>))
  BY LinesLike, TableLike
<1>2. Like(m, [m EXCEPT !.mode = "link"]) /\ Like(m, [m EXCEPT !.mode = "alt", !.alt = <<>>])
  BY Fields DEF Like
<1> QED BY <1>1, <1>2 DEF SpanEntered

LEMMA SpanLeftHow ==
  ASSUME NEW m, Counting(m), NEW type
  PROVE  IF type = "IMG" /\ ~(m.inTable /\ m.inCell) /\ Marks(m)
           THEN Gave(m, SpanLeft(m, type)) ELSE Like(m, SpanLeft(m, type))
<1>1. ASSUME NEW w, Counting(w)
      PROVE  /\ Like(w, [w EXCEPT !.mode = "none"])
             /\ Like(w, [w EXCEPT !.mode = "none", !.alt = <<>>])
  BY <1>1, Fields DEF Like
<1>2. ASSUME NEW s
      PROVE  /\ Like(m, [TableAppend(m, s) EXCEPT !.mode = "none"])
             /\ Like(m, [TableAppend(m, s) EXCEPT !.mode = "none", !.alt = <<>>])
             /\ Like(m, TableAppend(m, s))
  <2>1. Like(m, TableAppend(m, s)) /\ Counting(TableAppend(m, s))
    BY TableLike, RenderingLike
  <2> QED BY <1>1, <2>1, LikeLike
<1>3. IF Marks(m) THEN Gave(m, [StartLine(m) EXCEPT !.mode = "none", !.alt = <<>>])
                  ELSE Like(m, [StartLine(m) EXCEPT !.mode = "none", !.alt = <<>>])
  <2> DEFINE w == StartLine(m)
  <2>1. DOMAIN w = DOMAIN m
    BY StartLineHow DEF Gave, Like
  <2>2. IF Marks(m) THEN Gave(m, w) ELSE Like(m, w)
    BY StartLineHow
  <2> HIDE DEF w
  <2>3. w.pending \in BOOLEAN
    BY <2>2 DEF Gave, Like
  <2>4. Like(w, [w EXCEPT !.mode = "none", !.alt = <<>>])
    BY <2>1, <2>3, Fields DEF Like
  <2>5. IF Marks(m) THEN Gave(m, [w EXCEPT !.mode = "none", !.alt = <<>>])
                    ELSE Like(m, [w EXCEPT !.mode = "none", !.alt = <<>>])
    BY <2>2, <2>4, LikeLike, LikeGave
  <2> QED BY <2>5 DEF w
<1>4. CASE type = "A"
  BY <1>1, <1>2, <1>4 DEF SpanLeft
<1>5. CASE type = "IMG" /\ m.inTable /\ m.inCell
  BY <1>2, <1>5 DEF SpanLeft
<1>6. CASE type = "IMG" /\ ~(m.inTable /\ m.inCell)
  BY <1>3, <1>6 DEF SpanLeft
<1>7. CASE type \notin {"A", "IMG"}
  BY <1>2, <1>7, LinesLike DEF SpanLeft
<1> QED BY <1>4, <1>5, <1>6, <1>7

\* Blocks.
LEMMA BlockEnteredLike ==
  ASSUME NEW m, Counting(m), NEW type, type \notin Lists \cup {"LI"}, NEW start
  PROVE  Like(m, BlockEntered(m, type, start))
<1> DEFINE g == MaybeBlockGap(m)
<1>1. Like(m, g) /\ Counting(g)
  BY LinesLike, RenderingLike
<1>2. ASSUME NEW w, Counting(w)
      PROVE  /\ Like(w, [w EXCEPT !.quoteDepth = @ + 1]) /\ Like(w, [w EXCEPT !.atStart = FALSE])
             /\ Like(w, [Newline(w) EXCEPT !.gap = TRUE])
             /\ Like(w, [w EXCEPT !.inCode = TRUE, !.code = <<>>])
             /\ Like(w, [w EXCEPT !.cells = NoCells, !.inTable = TRUE, !.row = 0,
                                  !.cell = 0, !.cols = 0])
             /\ Like(w, [w EXCEPT !.inHead = TRUE]) /\ Like(w, RowEntered(w))
             /\ Like(w, [w EXCEPT !.inCell = TRUE]) /\ Like(w, w)
  BY <1>2, Fields DEF Like, Newline, RowEntered
<1> HIDE DEF g
<1>3. ASSUME NEW w, Like(g, w)
      PROVE  Like(m, w)
  BY <1>1, <1>3, LikeLike
<1>4. CASE type \in {"QUOTE", "H", "HR", "CODE", "TABLE", "P"}
  <2>1. /\ Like(m, [g EXCEPT !.quoteDepth = @ + 1]) /\ Like(m, [g EXCEPT !.atStart = FALSE])
        /\ Like(m, [Newline(g) EXCEPT !.gap = TRUE])
        /\ Like(m, [g EXCEPT !.inCode = TRUE, !.code = <<>>])
        /\ Like(m, [g EXCEPT !.cells = NoCells, !.inTable = TRUE, !.row = 0,
                             !.cell = 0, !.cols = 0])
        /\ Like(m, g)
    BY <1>1, <1>2, <1>3
  <2> QED BY <1>4, <2>1 DEF BlockEntered, g, Lists, Cells
<1>5. CASE type \notin {"QUOTE", "H", "HR", "CODE", "TABLE", "P"}
  BY <1>2, <1>5 DEF BlockEntered, Lists, Cells
<1> QED BY <1>4, <1>5

LEMMA ItemEntered ==
  ASSUME NEW m, Counting(m), NEW start
  PROVE  LET w == BlockEntered(m, "LI", start)
         IN  /\ DOMAIN w = DOMAIN m /\ w.listDepth = m.listDepth
             /\ w.ordered = m.ordered /\ w.item = m.item /\ w.pending = TRUE
  BY Fields DEF BlockEntered, EnsureLineStart, Newline, Lists, Cells

LEMMA ListEnteredHow ==
  ASSUME NEW m, Counting(m), NEW type \in Lists, NEW start \in Nat
  PROVE  LET w == BlockEntered(m, type, start)
             d == m.listDepth + 1
         IN  /\ DOMAIN w = DOMAIN m /\ w.listDepth = d /\ w.pending = m.pending
             /\ w.ordered \in [1..MaxLists -> BOOLEAN] /\ w.item \in [1..MaxLists -> Nat]
             /\ \A e \in 1..MaxLists : e <= m.listDepth =>
                  w.ordered[e] = m.ordered[e] /\ w.item[e] = m.item[e]
             /\ d <= MaxLists => w.item[d] = AtLeast(start, 1)
<1> DEFINE g == MaybeBlockGap(m)
<1>1. Like(m, g) /\ Counting(g) /\ g.pending = m.pending
  BY LinesLike, RenderingLike, Fields DEF MaybeBlockGap, Newline
<1>2. BlockEntered(m, type, start) = ListEntered(g, type = "OL", start)
  BY DEF BlockEntered, Lists, Cells
<1> HIDE DEF g
<1>3. AtLeast(start, 1) \in Nat
  BY DEF AtLeast
<1>4. MaxLists \in Nat /\ m.listDepth \in Nat
  BY MarkdownAssumption DEF MarkdownAssumption, Counting
<1>5. /\ g.listDepth = m.listDepth /\ g.ordered = m.ordered /\ g.item = m.item
      /\ g.ordered \in [1..MaxLists -> BOOLEAN] /\ g.item \in [1..MaxLists -> Nat]
      /\ DOMAIN g = DOMAIN m
  BY <1>1 DEF Like, Counting
<1>6. (type = "OL") \in BOOLEAN
  OBVIOUS
<1>7. CASE m.listDepth < MaxLists
  <2> DEFINE w == ListEntered(g, type = "OL", start)
  <2>1. /\ DOMAIN w = DOMAIN g /\ w.listDepth = g.listDepth + 1 /\ w.pending = g.pending
        /\ w.ordered = [g.ordered EXCEPT ![g.listDepth + 1] = (type = "OL")]
        /\ w.item = [g.item EXCEPT ![g.listDepth + 1] = AtLeast(start, 1)]
    BY <1>1, <1>5, <1>7, Fields DEF ListEntered
  <2>2. m.listDepth + 1 \in 1..MaxLists
    BY <1>4, <1>7
  <2> HIDE DEF w
  <2>3. /\ w.ordered \in [1..MaxLists -> BOOLEAN] /\ w.item \in [1..MaxLists -> Nat]
        /\ w.item[m.listDepth + 1] = AtLeast(start, 1)
    BY <1>3, <1>5, <2>1, <2>2
  <2>4. ASSUME NEW e \in 1..MaxLists, e <= m.listDepth
        PROVE  w.ordered[e] = m.ordered[e] /\ w.item[e] = m.item[e]
    <3>1. e # m.listDepth + 1
      BY <1>4, <2>4
    <3> QED BY <1>5, <2>1, <3>1
  <2> QED BY <1>1, <1>2, <1>5, <2>1, <2>3, <2>4 DEF w
<1>8. CASE ~(m.listDepth < MaxLists)
  <2> DEFINE w == ListEntered(g, type = "OL", start)
  <2>1. /\ DOMAIN w = DOMAIN g /\ w.listDepth = g.listDepth + 1 /\ w.pending = g.pending
        /\ w.ordered = g.ordered /\ w.item = g.item
    BY <1>1, <1>5, <1>8, Fields DEF ListEntered
  <2> HIDE DEF w
  <2> QED BY <1>1, <1>2, <1>4, <1>5, <1>8, <2>1 DEF w
<1> QED BY <1>7, <1>8

\* A block is drawn, and then it is left.
LEMMA DrawnHow ==
  ASSUME NEW m, Counting(m), NEW type
  PROVE  IF Drawn(m, type) # m /\ Marks(m) THEN Gave(m, Drawn(m, type))
                                           ELSE Like(m, Drawn(m, type))
<1>1. CASE Drawn(m, type) = m
  BY <1>1, LinesLike
<1>2. CASE Drawn(m, type) # m
  <2> DEFINE w == StartLine(m)
  <2>1. Drawn(m, type) = Newline(w)
    BY <1>2 DEF Drawn
  <2>2. IF Marks(m) THEN Gave(m, w) ELSE Like(m, w)
    BY StartLineHow
  <2> HIDE DEF w
  <2>3. DOMAIN w = DOMAIN m /\ w.pending \in BOOLEAN
    BY <2>2 DEF Gave, Like
  <2>4. Like(w, Newline(w))
    BY <2>3, Fields DEF Like, Newline
  <2> QED BY <1>2, <2>1, <2>2, <2>4, LikeLike, LikeGave
<1> QED BY <1>1, <1>2

LEMMA BlockLeftLike ==
  ASSUME NEW m, Counting(m), NEW type, type \notin Lists
  PROVE  /\ Like(Drawn(m, type), BlockLeft(m, type))
         /\ type = "LI" => BlockLeft(m, type).pending = FALSE
<1> DEFINE w == Drawn(m, type)
<1>1. DOMAIN w = DOMAIN m /\ w.pending \in BOOLEAN
  BY DrawnHow DEF Gave, Like
<1>2. type \notin {"CODE", "TABLE"} => w = m
  BY DEF Drawn
<1> HIDE DEF w
<1>3. ASSUME NEW x, DOMAIN x = DOMAIN m, x.pending \in BOOLEAN
      PROVE  /\ Like(x, EnsureLineStart(x)) /\ Like(x, [x EXCEPT !.quoteDepth = @ - 1, !.gap = TRUE])
             /\ Like(x, [EnsureLineStart(x) EXCEPT !.pending = FALSE])
             /\ [EnsureLineStart(x) EXCEPT !.pending = FALSE].pending = FALSE
             /\ Like(x, [Newline(x) EXCEPT !.gap = TRUE])
             /\ Like(x, [x EXCEPT !.code = <<>>, !.inCode = FALSE, !.gap = TRUE])
             /\ Like(x, [EnsureLineStart(x) EXCEPT !.gap = x.listDepth = 0 /\ x.quoteDepth = 0])
             /\ Like(x, [x EXCEPT !.inTable = FALSE, !.inHead = FALSE, !.inCell = FALSE, !.gap = TRUE])
             /\ Like(x, [x EXCEPT !.cols = AtLeast(@, x.cell), !.row = @ + 1])
             /\ Like(x, [x EXCEPT !.inCell = FALSE, !.cell = AtMost(@ + 1, MaxCols)])
             /\ Like(x, [x EXCEPT !.inHead = FALSE]) /\ Like(x, x)
  BY <1>3, Fields DEF Like, EnsureLineStart, Newline
<1>4. CASE type \in {"CODE", "TABLE"}
  BY <1>1, <1>3, <1>4 DEF BlockLeft, w, Lists, Cells
<1>5. CASE type \notin {"CODE", "TABLE"}
  <2>1. w = m
    BY <1>2, <1>5
  <2>0. DOMAIN m = DOMAIN m /\ m.pending \in BOOLEAN
    BY <1>1, <2>1
  <2> SUFFICES Like(m, BlockLeft(m, type)) /\ (type = "LI" => BlockLeft(m, type).pending = FALSE)
    BY <2>1 DEF w
  <2>2. CASE type = "DOC"
    BY <1>3, <2>0, <2>2 DEF BlockLeft, Lists, Cells
  <2>3. CASE type = "LI"
    BY <1>3, <2>0, <2>3 DEF BlockLeft, Lists, Cells
  <2>4. CASE type = "P"
    BY <1>3, <2>0, <2>4 DEF BlockLeft, Lists, Cells
  <2>5. CASE type \in {"QUOTE", "H", "THEAD"}
    BY <1>3, <2>0, <2>5 DEF BlockLeft, Lists, Cells
  <2>6. CASE type = "TR"
    BY <1>3, <2>0, <2>6 DEF BlockLeft, Lists, Cells
  <2>7. CASE type \in Cells
    BY <1>3, <2>0, <2>7 DEF BlockLeft, Lists, Cells
  <2>8. CASE type \notin {"DOC", "LI", "P", "QUOTE", "H", "THEAD", "TR"} \cup Cells
    BY <1>3, <1>5, <2>0, <2>8 DEF BlockLeft, Lists, Cells
  <2> QED BY <2>2, <2>3, <2>4, <2>5, <2>6, <2>7, <2>8
<1> QED BY <1>4, <1>5 DEF w

LEMMA ListLeft ==
  ASSUME NEW m, Counting(m), NEW type \in Lists
  PROVE  LET w == BlockLeft(m, type)
         IN  /\ Drawn(m, type) = m
             /\ DOMAIN w = DOMAIN m /\ w.listDepth = m.listDepth - 1
             /\ w.ordered = m.ordered /\ w.item = m.item /\ w.pending = m.pending
  BY Fields DEF BlockLeft, Drawn, Lists, Cells
------------------------------------------------------------------------------
(***************************************************************************)
(* What a call does to what is open and to the markers.                    *)
(***************************************************************************)
\* A block or span of this type is entered, whatever is counted in the others.
Grown(op, n, type, start, ex) ==
  /\ ex \in Seq(Nodes) /\ Len(ex) = Len(op) + 1
  /\ \A i \in 1..Len(op) : ex[i].type = op[i].type /\ ex[i].start = op[i].start
                           /\ ex[i].nth = op[i].nth
  /\ ex[Len(ex)].type = type /\ ex[Len(ex)].start = start /\ ex[Len(ex)].nth = n

\* The innermost is left.
Shrunk(op, ex) ==
  /\ ex \in Seq(Nodes) /\ op # <<>> /\ Len(ex) = Len(op) - 1
  /\ \A i \in 1..Len(ex) : ex[i] = op[i]

LEMMA NestedGrown ==
  ASSUME NEW op, NEW n, Nested(op, n), NEW type, NEW start, NEW ex, Grown(op, n, type, start, ex),
         type = "LI" => \E j \in 1..Len(op) : op[j].type \in Lists
  PROVE  Nested(ex, n + 1)
<1>1. n \in Nat /\ Len(op) \in Nat /\ Len(ex) = Len(op) + 1
  BY LenProperties DEF Nested, Grown
<1>2. ASSUME NEW i \in 1..Len(ex), i # Len(ex)
      PROVE  i \in 1..Len(op) /\ ex[i].nth = op[i].nth /\ ex[i].type = op[i].type
  BY <1>1, <1>2 DEF Grown
<1>3. ASSUME NEW i \in 1..Len(op) PROVE op[i].nth \in Nat /\ op[i].nth < n
  <2>1. op[i] \in Nodes
    BY DEF Nested
  <2> QED BY <2>1 DEF Nested, Nodes
<1>4. \A i \in 1..Len(ex) : ex[i].nth < n + 1
  BY <1>1, <1>2, <1>3 DEF Grown
<1>5. ASSUME NEW i \in 1..Len(ex), NEW j \in 1..Len(ex), i < j
      PROVE  ex[i].nth < ex[j].nth
  <2>1. i # Len(ex)
    BY <1>1, <1>5
  <2>2. CASE j = Len(ex)
    BY <1>2, <1>3, <2>1, <2>2 DEF Grown
  <2>3. CASE j # Len(ex)
    BY <1>2, <1>5, <2>1, <2>3 DEF Nested
  <2> QED BY <2>2, <2>3
<1>6. ASSUME NEW i \in 1..Len(ex), ex[i].type = "LI"
      PROVE  \E j \in 1..(i - 1) : ex[j].type \in Lists
  <2>1. CASE i = Len(ex)
    <3>1. PICK j \in 1..Len(op) : op[j].type \in Lists
      BY <1>6, <2>1 DEF Grown
    <3>2. ex[j].type \in Lists /\ j \in 1..(i - 1)
      BY <1>1, <2>1, <3>1 DEF Grown
    <3> QED BY <3>2
  <2>2. CASE i # Len(ex)
    <3>1. i \in 1..Len(op) /\ op[i].type = "LI"
      BY <1>2, <1>6, <2>2
    <3>2. PICK j \in 1..(i - 1) : op[j].type \in Lists
      BY <3>1 DEF Nested
    <3>3. j \in 1..Len(op)
      BY <1>1, <3>1
    <3> QED BY <3>2, <3>3 DEF Grown
  <2> QED BY <2>1, <2>2
<1> QED BY <1>1, <1>4, <1>5, <1>6 DEF Nested, Grown

LEMMA NestedShrunk ==
  ASSUME NEW op, NEW n, Nested(op, n), NEW ex, Shrunk(op, ex)
  PROVE  Nested(ex, n)
<1>1. Len(op) \in Nat /\ Len(ex) \in Nat /\ Len(ex) = Len(op) - 1
  BY LenProperties DEF Nested, Shrunk
<1>2. \A i \in 1..Len(ex) : i \in 1..Len(op) /\ ex[i] = op[i]
  BY <1>1 DEF Shrunk
<1>3. ASSUME NEW i \in 1..Len(ex), ex[i].type = "LI"
      PROVE  \E j \in 1..(i - 1) : ex[j].type \in Lists
  <2>1. PICK j \in 1..(i - 1) : op[j].type \in Lists
    BY <1>2, <1>3 DEF Nested
  <2>2. j \in 1..Len(ex)
    BY <1>1
  <2> QED BY <1>2, <2>1, <2>2
<1> QED BY <1>2, <1>3 DEF Nested, Shrunk

\* Another block or span leaves the lists where they are.
LEMMA DepthsGrown ==
  ASSUME NEW op, NEW n, Nested(op, n), NEW type, type \notin Lists, NEW start,
         NEW ex, Grown(op, n, type, start, ex),
         NEW m, Counting(m), NEW mk, NEW at, Depths(op, m, at), GoesOn(op, m, mk, at)
  PROVE  Depths(ex, m, at) /\ GoesOn(ex, m, mk, at)
<1>1. Len(op) \in Nat /\ Len(ex) = Len(op) + 1
  BY LenProperties DEF Nested, Grown
<1>2. \A d \in 1..m.listDepth : at[d] \in 1..Len(op) /\ at[d] \in 1..Len(ex)
  BY <1>1 DEF Depths
<1>3. at \in [1..m.listDepth -> 1..Len(ex)]
  BY <1>2 DEF Depths
<1>4. ASSUME NEW i \in 1..Len(ex), ex[i].type \in Lists
      PROVE  \E d \in 1..m.listDepth : at[d] = i
  <2>1. i \in 1..Len(op)
    BY <1>1, <1>4 DEF Grown
  <2> QED BY <1>4, <2>1 DEF Grown, Depths
<1>5. \A d \in 1..m.listDepth : ex[at[d]].type \in Lists
  BY <1>2 DEF Grown, Depths
<1>6. GoesOn(ex, m, mk, at)
  <2>1. \A d \in 1..m.listDepth : ex[at[d]].start = op[at[d]].start /\ ex[at[d]].nth = op[at[d]].nth
    BY <1>2 DEF Grown
  <2> QED BY <2>1 DEF GoesOn
<1> QED BY <1>3, <1>4, <1>5, <1>6 DEF Depths

LEMMA DepthsShrunk ==
  ASSUME NEW op, NEW n, Nested(op, n), NEW ex, Shrunk(op, ex), op[Len(op)].type \notin Lists,
         NEW m, Counting(m), NEW mk, NEW at, Depths(op, m, at), GoesOn(op, m, mk, at)
  PROVE  Depths(ex, m, at) /\ GoesOn(ex, m, mk, at)
<1>1. Len(op) \in Nat /\ Len(ex) \in Nat /\ Len(ex) = Len(op) - 1
  BY LenProperties DEF Nested, Shrunk
<1>2. \A d \in 1..m.listDepth : at[d] \in 1..Len(ex)
  BY <1>1 DEF Depths
<1>3. at \in [1..m.listDepth -> 1..Len(ex)]
  BY <1>2 DEF Depths
<1>4. \A i \in 1..Len(ex) : i \in 1..Len(op) /\ ex[i] = op[i]
  BY <1>1 DEF Shrunk
<1>5. GoesOn(ex, m, mk, at)
  BY <1>2, <1>4 DEF GoesOn
<1> QED BY <1>2, <1>3, <1>4, <1>5 DEF Depths

\* The innermost list.
LEMMA InnermostList ==
  ASSUME NEW n, Nested(open, n), NEW m, Counting(m), NEW at, Depths(open, m, at),
         m.listDepth > 0
  PROVE  /\ Innermost(Lists) = open[at[m.listDepth]]
         /\ at[m.listDepth] \in 1..Len(open)
         /\ \A d \in 1..m.listDepth : d # m.listDepth => at[d] < at[m.listDepth]
<1> DEFINE k == at[m.listDepth]
           P(i) == /\ open[i].type \in Lists
                   /\ \A j \in DOMAIN open : j > i => open[j].type \notin Lists
<1>1. m.listDepth \in 1..m.listDepth /\ DOMAIN open = 1..Len(open) /\ Len(open) \in Nat
  BY LenProperties DEF Counting, Nested
<1>2. k \in 1..Len(open) /\ open[k].type \in Lists
  BY <1>1 DEF Depths
<1>3. \A d \in 1..m.listDepth : d # m.listDepth => at[d] < k
  BY <1>1 DEF Depths
<1>4. \A d \in 1..m.listDepth : at[d] \in 1..Len(open) /\ at[d] <= k
  BY <1>2, <1>3 DEF Depths
<1>5. P(k)
  BY <1>1, <1>2, <1>4 DEF Depths
<1>6. \A i \in DOMAIN open : P(i) => i = k
  BY <1>1, <1>2, <1>5
<1> HIDE DEF P
<1>7. (CHOOSE i \in DOMAIN open : P(i)) = k
  BY <1>1, <1>2, <1>5, <1>6
<1> QED BY <1>2, <1>3, <1>7 DEF Innermost, P

\* One more marker.
LEMMA OneMore ==
  ASSUME NEW mk \in Seq(Notes), NEW x \in Notes, NEW list
  PROVE  Cardinality(Of(Append(mk, x), list))
           = Cardinality(Of(mk, list)) + (IF x.list = list THEN 1 ELSE 0)
<1> DEFINE mx == Append(mk, x)
<1>1. /\ mx \in Seq(Notes) /\ Len(mx) = Len(mk) + 1 /\ mx[Len(mk) + 1] = x
      /\ \A j \in 1..Len(mk) : mx[j] = mk[j]
      /\ DOMAIN mk = 1..Len(mk) /\ DOMAIN mx = 1..Len(mx) /\ Len(mk) \in Nat
  BY AppendProperties, LenProperties
<1> HIDE DEF mx
<1>2. IsFiniteSet(Of(mk, list)) /\ Cardinality(Of(mk, list)) \in Nat
  <2>1. IsFiniteSet(1..Len(mk))
    <3>1. Len(mk) \in Int /\ 1 \in Int
      BY <1>1
    <3> QED BY <3>1, FS_Interval
  <2>2. Of(mk, list) \in SUBSET (1..Len(mk))
    BY <1>1 DEF Of
  <2> QED BY <2>1, <2>2, FS_Subset, FS_CardinalityType
<1>3. CASE x.list = list
  <2>1. Of(mx, list) = Of(mk, list) \cup {Len(mk) + 1} /\ Len(mk) + 1 \notin Of(mk, list)
    BY <1>1, <1>3 DEF Of
  <2> QED BY <1>2, <1>3, <2>1, FS_AddElement DEF mx
<1>4. CASE x.list # list
  <2>1. Of(mx, list) = Of(mk, list)
    BY <1>1, <1>4 DEF Of
  <2> QED BY <1>2, <1>4, <2>1 DEF mx
<1> QED BY <1>3, <1>4

LEMMA NotedMore ==
  ASSUME NEW n \in Nat, NEW mk, Noted(mk, n), NEW x \in Notes, x.list < n, x.item < n,
         \A j \in DOMAIN mk : mk[j].item # x.item,
         x.number # 0 => x.number = AtLeast(x.start, 1) + Cardinality(Of(mk, x.list))
  PROVE  Noted(Append(mk, x), n)
<1> DEFINE mx == Append(mk, x)
<1>1. /\ mx \in Seq(Notes) /\ Len(mx) = Len(mk) + 1 /\ mx[Len(mk) + 1] = x
      /\ \A j \in 1..Len(mk) : mx[j] = mk[j]
      /\ DOMAIN mk = 1..Len(mk) /\ DOMAIN mx = 1..Len(mx) /\ Len(mk) \in Nat
  BY AppendProperties, LenProperties DEF Noted
<1> HIDE DEF mx
<1>2. \A k \in DOMAIN mx : mx[k].list < n /\ mx[k].item < n
  BY <1>1 DEF Noted
<1>3. ASSUME NEW i \in DOMAIN mx
      PROVE  LET same == {j \in DOMAIN mx : j < i /\ mx[j].list = mx[i].list}
             IN  /\ \A j \in same : mx[j].item # mx[i].item
                 /\ mx[i].number # 0 =>
                      mx[i].number = AtLeast(mx[i].start, 1) + Cardinality(same)
  <2>1. CASE i = Len(mk) + 1
    <3>1. {j \in DOMAIN mx : j < i /\ mx[j].list = mx[i].list} = Of(mk, x.list)
      BY <1>1, <2>1 DEF Of
    <3>2. \A j \in Of(mk, x.list) : j \in DOMAIN mk /\ mx[j] = mk[j]
      BY <1>1 DEF Of
    <3> QED BY <1>1, <2>1, <3>1, <3>2
  <2>2. CASE i # Len(mk) + 1
    <3>1. i \in 1..Len(mk) /\ mx[i] = mk[i]
      BY <1>1, <2>2
    <3>2. {j \in DOMAIN mx : j < i /\ mx[j].list = mx[i].list}
            = {j \in DOMAIN mk : j < i /\ mk[j].list = mk[i].list}
      BY <1>1, <3>1
    <3>3. \A j \in DOMAIN mk : mx[j] = mk[j]
      BY <1>1
    <3> QED BY <1>1, <3>1, <3>2, <3>3 DEF Noted
  <2> QED BY <2>1, <2>2
<1> QED BY <1>1, <1>2, <1>3 DEF Noted, mx

LEMMA NotedLater ==
  ASSUME NEW n \in Nat, NEW mk, Noted(mk, n)
  PROVE  Noted(mk, n + 1)
<1>1. \A k \in DOMAIN mk : mk[k] \in Notes /\ mk[k].list < n /\ mk[k].item < n
  BY DEF Noted
<1>2. \A k \in DOMAIN mk : mk[k].list < n + 1 /\ mk[k].item < n + 1
  BY <1>1 DEF Notes
<1> QED BY <1>2 DEF Noted

\* The innermost item stays the innermost one.
LEMMA UnmarkedGrown ==
  ASSUME NEW op, NEW n, NEW type, type # "LI", NEW start, NEW ex, Grown(op, n, type, start, ex),
         NEW m, NEW w, w.pending => m.pending, NEW mk, Unmarked(op, m, mk), Len(op) \in Nat
  PROVE  Unmarked(ex, w, mk)
<1> SUFFICES ASSUME w.pending PROVE Unmarked(ex, w, mk)
  BY DEF Unmarked
<1>1. PICK i \in 1..Len(op) :
        /\ op[i].type = "LI" /\ \A j \in 1..Len(op) : j > i => op[j].type # "LI"
        /\ \A k \in DOMAIN mk : mk[k].item # op[i].nth
  BY DEF Unmarked
<1>2. i \in 1..Len(ex) /\ ex[i].type = "LI" /\ ex[i].nth = op[i].nth
  BY <1>1 DEF Grown
<1>3. \A j \in 1..Len(ex) : j > i => ex[j].type # "LI"
  BY <1>1 DEF Grown
<1> QED BY <1>1, <1>2, <1>3 DEF Unmarked

LEMMA UnmarkedShrunk ==
  ASSUME NEW op, NEW n, Nested(op, n), NEW ex, Shrunk(op, ex), op[Len(op)].type # "LI",
         NEW m, NEW mk, Unmarked(op, m, mk)
  PROVE  Unmarked(ex, m, mk)
<1> SUFFICES ASSUME m.pending PROVE Unmarked(ex, m, mk)
  BY DEF Unmarked
<1>1. PICK i \in 1..Len(op) :
        /\ op[i].type = "LI" /\ \A j \in 1..Len(op) : j > i => op[j].type # "LI"
        /\ \A k \in DOMAIN mk : mk[k].item # op[i].nth
  BY DEF Unmarked
<1>2. Len(op) \in Nat /\ Len(ex) = Len(op) - 1 /\ \A j \in 1..Len(ex) : ex[j] = op[j]
  BY LenProperties DEF Nested, Shrunk
<1>3. i \in 1..Len(ex) /\ \A j \in 1..Len(ex) : j \in 1..Len(op)
  BY <1>1, <1>2
<1> QED BY <1>1, <1>2, <1>3 DEF Unmarked
------------------------------------------------------------------------------
\* The invariant goes on: no marker is printed,
LEMMA NoMark ==
  ASSUME NEW op, NEW n, NEW m, NEW mk, ReplyOK(op, n, m, mk), NEW w, Like(m, w)
  PROVE  ReplyOK(op, n, w, mk)
<1>1. Counting(w) /\ Nested(op, n) /\ Noted(mk, n)
  BY RenderingLike DEF ReplyOK
<1>2. w.listDepth = m.listDepth /\ w.ordered = m.ordered /\ w.item = m.item
      /\ (w.pending => m.pending)
  BY DEF Like
<1>3. Unmarked(op, w, mk)
  BY <1>2 DEF ReplyOK, Unmarked
<1>4. PICK at \in [1..m.listDepth -> 1..Len(op)] : Depths(op, m, at) /\ GoesOn(op, m, mk, at)
  BY DEF ReplyOK
<1>5. Depths(op, w, at) /\ GoesOn(op, w, mk, at)
  BY <1>2, <1>4 DEF Depths, GoesOn
<1> QED BY <1>1, <1>2, <1>3, <1>5 DEF ReplyOK

\* or that of the item that md4c is in.
LEMMA Mark ==
  ASSUME NEW n, NEW m, NEW mk, ReplyOK(open, n, m, mk), Marks(m), NEW w, Gave(m, w)
  PROVE  ReplyOK(open, n, w, mk \o MarkOf(m))
<1> DEFINE D == m.listDepth
           x == [list |-> Innermost(Lists).nth, item |-> Innermost({"LI"}).nth,
                 start |-> Innermost(Lists).start,
                 number |-> IF Numbered(m) THEN m.item[D] ELSE 0]
           mx == Append(mk, x)
<1>1. Counting(m) /\ Nested(open, n) /\ Noted(mk, n) /\ mk \in Seq(Notes) /\ n \in Nat
  BY DEF ReplyOK, Noted, Nested
<1>2. PICK at \in [1..D -> 1..Len(open)] : Depths(open, m, at) /\ GoesOn(open, m, mk, at)
  BY DEF ReplyOK
<1>3. Len(open) \in Nat /\ DOMAIN open = 1..Len(open) /\ D \in Nat /\ MaxLists \in Nat
  BY <1>1, LenProperties, MarkdownAssumption DEF Nested, Counting, MarkdownAssumption
<1>4. \A i \in 1..Len(open) : open[i] \in Nodes /\ open[i].nth \in Nat /\ open[i].start \in Nat
                              /\ open[i].nth < n
  <2>1. \A i \in 1..Len(open) : open[i] \in Nodes
    BY <1>1 DEF Nested
  <2> QED BY <1>1, <2>1 DEF Nested, Nodes
<1>5. PICK li \in 1..Len(open) :
        /\ open[li].type = "LI" /\ \A j \in 1..Len(open) : j > li => open[j].type # "LI"
        /\ \A k \in DOMAIN mk : mk[k].item # open[li].nth
  BY DEF ReplyOK, Unmarked, Marks
<1>6. Innermost({"LI"}) = open[li]
  <2> DEFINE P(i) == /\ open[i].type \in {"LI"}
                     /\ \A j \in DOMAIN open : j > i => open[j].type \notin {"LI"}
  <2>1. P(li)
    BY <1>3, <1>5
  <2>2. \A i \in DOMAIN open : P(i) => i = li
    BY <1>3, <1>5
  <2> HIDE DEF P
  <2>3. (CHOOSE i \in DOMAIN open : P(i)) = li
    BY <1>3, <2>1, <2>2
  <2> QED BY <2>3 DEF Innermost, P
<1>7. D > 0
  <2>1. PICK j \in 1..(li - 1) : open[j].type \in Lists
    BY <1>1, <1>5 DEF Nested
  <2>2. j \in 1..Len(open)
    BY <1>3
  <2>3. PICK d \in 1..D : at[d] = j
    BY <1>2, <2>1, <2>2 DEF Depths
  <2> QED BY <1>3, <2>3
<1> DEFINE k == at[D]
<1>8. /\ Innermost(Lists) = open[k] /\ k \in 1..Len(open)
      /\ \A d \in 1..D : d # D => at[d] < k
  BY <1>1, <1>2, <1>7, InnermostList
<1>9. D \in 1..D
  BY <1>3, <1>7
<1>10. Numbered(m) <=> D <= MaxLists /\ m.ordered[D]
  BY DEF Numbered
<1>11. Numbered(m) => /\ m.item[D] \in Nat
                      /\ m.item[D] = AtLeast(open[k].start, 1) + Cardinality(Of(mk, open[k].nth))
  BY <1>1, <1>2, <1>3, <1>9, <1>10 DEF Counting, GoesOn
<1>12. /\ x.list = open[k].nth /\ x.item = open[li].nth /\ x.start = open[k].start
       /\ x.number = IF Numbered(m) THEN m.item[D] ELSE 0
  BY <1>6, <1>8
<1>13. x \in Notes
  BY <1>4, <1>5, <1>6, <1>8, <1>11 DEF Notes
<1>14. mk \o MarkOf(m) = mx
  <2>1. MarkOf(m) = <<x>>
    BY DEF MarkOf
  <2> QED BY <1>1, <1>13, <2>1, AppendIsConcat
<1> HIDE DEF x, mx, k
<1>15. Noted(mx, n)
  BY <1>1, <1>4, <1>5, <1>8, <1>11, <1>12, <1>13, NotedMore DEF mx
<1>16. Counting(w)
  <2>1. w.item \in [1..MaxLists -> Nat]
    <3>1. CASE Numbered(m)
      <4>1. w.item = [m.item EXCEPT ![D] = m.item[D] + 1] /\ m.item[D] + 1 \in Nat
        BY <1>11, <3>1 DEF Gave
      <4> QED BY <1>1, <4>1 DEF Counting
    <3>2. CASE ~Numbered(m)
      BY <1>1, <3>2 DEF Counting, Gave
    <3> QED BY <3>1, <3>2
  <2> QED BY <1>1, <2>1 DEF Counting, Gave
<1>17. Unmarked(open, w, mx)
  BY DEF Unmarked, Gave
<1>18. Depths(open, w, at) /\ w.listDepth = D
  BY <1>2 DEF Depths, Gave
<1>19. GoesOn(open, w, mx, at)
  <2> SUFFICES ASSUME NEW d \in 1..D, d <= MaxLists, m.ordered[d]
               PROVE  w.item[d] = AtLeast(open[at[d]].start, 1) + Cardinality(Of(mx, open[at[d]].nth))
    BY DEF GoesOn, Gave
  <2>1. m.item[d] = AtLeast(open[at[d]].start, 1) + Cardinality(Of(mk, open[at[d]].nth))
    BY <1>2 DEF GoesOn
  <2>2. at[d] \in 1..Len(open)
    BY <1>2
  <2>3. Cardinality(Of(mx, open[at[d]].nth))
          = Cardinality(Of(mk, open[at[d]].nth)) + (IF x.list = open[at[d]].nth THEN 1 ELSE 0)
    BY <1>1, <1>13, OneMore DEF mx
  <2>4. AtLeast(open[at[d]].start, 1) \in Nat
    BY <1>4, <2>2 DEF AtLeast
  <2>5. Cardinality(Of(mk, open[at[d]].nth)) \in Nat
    <3>1. IsFiniteSet(1..Len(mk)) /\ Of(mk, open[at[d]].nth) \in SUBSET (1..Len(mk))
      <4>1. Len(mk) \in Nat /\ DOMAIN mk = 1..Len(mk)
        BY <1>1, LenProperties
      <4>2. IsFiniteSet(1..Len(mk))
        BY <4>1, FS_Interval
      <4> QED BY <4>1, <4>2 DEF Of
    <3> QED BY <3>1, FS_Subset, FS_CardinalityType
  <2>6. CASE d = D
    <3>1. Numbered(m) /\ d \in 1..MaxLists
      BY <1>3, <1>10, <2>6
    <3>2. w.item[d] = m.item[d] + 1
      BY <1>1, <2>6, <3>1 DEF Gave, Counting
    <3>3. x.list = open[at[d]].nth
      BY <1>12, <2>6 DEF k
    <3> QED BY <2>1, <2>3, <2>4, <2>5, <3>2, <3>3
  <2>7. CASE d # D
    <3>1. w.item[d] = m.item[d]
      BY <1>1, <1>3, <2>7 DEF Gave, Counting
    <3>2. open[at[d]].nth < open[k].nth
      BY <1>1, <1>8, <2>2, <2>7 DEF Nested
    <3>3. x.list # open[at[d]].nth
      BY <1>4, <1>8, <1>12, <2>2, <3>2
    <3> QED BY <2>1, <2>3, <2>4, <2>5, <3>1, <3>3
  <2> QED BY <2>6, <2>7
<1> QED BY <1>1, <1>14, <1>15, <1>16, <1>17, <1>18, <1>19 DEF ReplyOK

\* A block or a span is entered: an item,
LEMMA EntersItem ==
  ASSUME NEW op, NEW n, NEW m, NEW mk, ReplyOK(op, n, m, mk),
         NEW start, NEW ex, Grown(op, n, "LI", start, ex),
         op # <<>>, op[Len(op)].type \in Lists,
         NEW w, DOMAIN w = DOMAIN m, w.listDepth = m.listDepth, w.ordered = m.ordered,
         w.item = m.item, w.pending = TRUE
  PROVE  ReplyOK(ex, n + 1, w, mk)
<1>1. Counting(m) /\ Nested(op, n) /\ Noted(mk, n) /\ n \in Nat
  BY DEF ReplyOK, Nested
<1>2. PICK at \in [1..m.listDepth -> 1..Len(op)] : Depths(op, m, at) /\ GoesOn(op, m, mk, at)
  BY DEF ReplyOK
<1>3. Len(op) \in Nat /\ Len(op) # 0 /\ Len(ex) = Len(op) + 1
  BY <1>1, LenProperties, EmptySeq DEF Nested, Grown
<1>4. Len(op) \in 1..Len(op)
  BY <1>3
<1>5. Nested(ex, n + 1)
  BY <1>1, <1>4, NestedGrown
<1>6. "LI" \notin Lists
  BY DEF Lists
<1>7. Depths(ex, m, at) /\ GoesOn(ex, m, mk, at)
  BY <1>1, <1>2, <1>6, DepthsGrown
<1>8. Depths(ex, w, at) /\ GoesOn(ex, w, mk, at) /\ at \in [1..w.listDepth -> 1..Len(ex)]
  BY <1>7 DEF Depths, GoesOn
<1>9. Unmarked(ex, w, mk)
  <2>1. \A k \in DOMAIN mk : mk[k] \in Notes /\ mk[k].item < n
    BY <1>1 DEF Noted
  <2>2. \A k \in DOMAIN mk : mk[k].item # n
    BY <1>1, <2>1 DEF Notes
  <2>3. Len(ex) \in 1..Len(ex) /\ \A j \in 1..Len(ex) : ~ (j > Len(ex))
    BY <1>3
  <2> QED BY <2>2, <2>3 DEF Unmarked, Grown
<1>10. Noted(mk, n + 1)
  BY <1>1, NotedLater
<1>11. Counting(w)
  BY <1>1 DEF Counting
<1> QED BY <1>5, <1>8, <1>9, <1>10, <1>11 DEF ReplyOK

\* a list,
LEMMA EntersList ==
  ASSUME NEW op, NEW n, NEW m, NEW mk, ReplyOK(op, n, m, mk),
         NEW type \in Lists, NEW start \in Nat, NEW ex, Grown(op, n, type, start, ex),
         NEW w, DOMAIN w = DOMAIN m, w.listDepth = m.listDepth + 1, w.pending = m.pending,
         w.ordered \in [1..MaxLists -> BOOLEAN], w.item \in [1..MaxLists -> Nat],
         \A e \in 1..MaxLists : e <= m.listDepth => w.ordered[e] = m.ordered[e] /\ w.item[e] = m.item[e],
         w.listDepth <= MaxLists => w.item[w.listDepth] = AtLeast(start, 1)
  PROVE  ReplyOK(ex, n + 1, w, mk)
<1>1. Counting(m) /\ Nested(op, n) /\ Noted(mk, n) /\ n \in Nat
  BY DEF ReplyOK, Nested
<1>2. PICK at \in [1..m.listDepth -> 1..Len(op)] : Depths(op, m, at) /\ GoesOn(op, m, mk, at)
  BY DEF ReplyOK
<1>3. /\ Len(op) \in Nat /\ Len(ex) = Len(op) + 1 /\ m.listDepth \in Nat
      /\ w.listDepth \in Nat /\ MaxLists \in Nat /\ w.listDepth = m.listDepth + 1
  <2>1. Len(op) \in Nat /\ Len(ex) = Len(op) + 1
    BY <1>1, LenProperties DEF Nested, Grown
  <2>2. m.listDepth \in Nat
    BY <1>1 DEF Counting
  <2>3. MaxLists \in Nat
    BY MarkdownAssumption DEF MarkdownAssumption
  <2> QED BY <2>1, <2>2, <2>3
<1>4. Counting(w)
  BY <1>1, <1>3 DEF Counting
<1>5. type # "LI" /\ \A j \in 1..Len(ex) : ex[j].type = "LI" => ex[j].type \notin Lists
  BY DEF Lists
<1>6. Nested(ex, n + 1)
  BY <1>1, <1>5, NestedGrown
<1>7. Unmarked(ex, w, mk)
  BY <1>3, <1>5, UnmarkedGrown DEF ReplyOK, Counting
<1>8. Noted(mk, n + 1)
  BY <1>1, NotedLater
<1> DEFINE au == [d \in 1..w.listDepth |-> IF d = w.listDepth THEN Len(ex) ELSE at[d]]
<1>9. \A d \in 1..w.listDepth :
        /\ d # w.listDepth => /\ d \in 1..m.listDepth /\ au[d] = at[d]
                              /\ au[d] \in 1..Len(op) /\ ex[au[d]].type = op[au[d]].type
                              /\ ex[au[d]].start = op[au[d]].start /\ ex[au[d]].nth = op[au[d]].nth
        /\ d = w.listDepth => au[d] = Len(ex)
  <2>1. ASSUME NEW d \in 1..w.listDepth, d # w.listDepth
        PROVE  d \in 1..m.listDepth /\ au[d] = at[d] /\ au[d] \in 1..Len(op)
    <3>1. d \in 1..m.listDepth
      BY <1>3, <2>1
    <3>2. au[d] = at[d] /\ at[d] \in 1..Len(op)
      BY <1>2, <2>1, <3>1
    <3> QED BY <3>1, <3>2
  <2>2. \A d \in 1..w.listDepth : d = w.listDepth => au[d] = Len(ex)
    OBVIOUS
  <2> HIDE DEF au
  <2> QED BY <2>1, <2>2 DEF Grown
<1>10. au \in [1..w.listDepth -> 1..Len(ex)]
  BY <1>3, <1>9
<1> HIDE DEF au
<1>11. Depths(ex, w, au)
  <2>1. \A d \in 1..w.listDepth : ex[au[d]].type \in Lists
    BY <1>2, <1>9 DEF Depths, Grown
  <2>2. ASSUME NEW i \in 1..Len(ex), ex[i].type \in Lists
        PROVE  \E d \in 1..w.listDepth : au[d] = i
    <3>1. CASE i = Len(ex)
      <4>1. w.listDepth \in 1..w.listDepth
        BY <1>3
      <4> QED BY <1>9, <3>1, <4>1
    <3>2. CASE i # Len(ex)
      <4>1. i \in 1..Len(op) /\ op[i].type \in Lists
        BY <1>3, <2>2, <3>2 DEF Grown
      <4>2. PICK d \in 1..m.listDepth : at[d] = i
        BY <1>2, <4>1 DEF Depths
      <4>3. d \in 1..w.listDepth /\ d # w.listDepth
        BY <1>3
      <4> QED BY <1>9, <4>2, <4>3
    <3> QED BY <3>1, <3>2
  <2>3. ASSUME NEW d \in 1..w.listDepth, NEW e \in 1..w.listDepth, d < e
        PROVE  au[d] < au[e]
    <3>1. d # w.listDepth
      BY <1>3, <2>3
    <3>2. CASE e = w.listDepth
      BY <1>3, <1>9, <3>1, <3>2
    <3>3. CASE e # w.listDepth
      BY <1>2, <1>9, <2>3, <3>1, <3>3 DEF Depths
    <3> QED BY <3>2, <3>3
  <2> QED BY <1>10, <2>1, <2>2, <2>3 DEF Depths
<1>12. GoesOn(ex, w, mk, au)
  <2> SUFFICES ASSUME NEW d \in 1..w.listDepth, d <= MaxLists, w.ordered[d]
               PROVE  w.item[d] = AtLeast(ex[au[d]].start, 1) + Cardinality(Of(mk, ex[au[d]].nth))
    BY DEF GoesOn
  <2>1. CASE d = w.listDepth
    <3>1. ex[au[d]].start = start /\ ex[au[d]].nth = n
      BY <1>9, <2>1 DEF Grown
    <3>2. Of(mk, n) = {}
      <4>1. \A k \in DOMAIN mk : mk[k] \in Notes /\ mk[k].list < n
        BY <1>1 DEF Noted
      <4> QED BY <1>1, <4>1 DEF Of, Notes
    <3>3. AtLeast(start, 1) \in Nat /\ Cardinality({}) = 0
      BY FS_EmptySet DEF AtLeast
    <3> QED BY <2>1, <3>1, <3>2, <3>3
  <2>2. CASE d # w.listDepth
    <3>1. d \in 1..m.listDepth /\ d \in 1..MaxLists /\ d <= m.listDepth
      BY <1>3, <2>2
    <3>2. w.item[d] = m.item[d] /\ m.ordered[d]
      BY <3>1
    <3> QED BY <1>2, <1>9, <2>2, <3>1, <3>2 DEF GoesOn
  <2> QED BY <2>1, <2>2
<1> QED BY <1>4, <1>6, <1>7, <1>8, <1>10, <1>11, <1>12 DEF ReplyOK

\* or anything else.
LEMMA EntersOther ==
  ASSUME NEW op, NEW n, NEW m, NEW mk, ReplyOK(op, n, m, mk),
         NEW type, type \notin Lists \cup {"LI"}, NEW start, NEW ex, Grown(op, n, type, start, ex)
  PROVE  ReplyOK(ex, n + 1, m, mk)
<1>1. Counting(m) /\ Nested(op, n) /\ Noted(mk, n) /\ n \in Nat
  BY DEF ReplyOK, Nested
<1>2. PICK at \in [1..m.listDepth -> 1..Len(op)] : Depths(op, m, at) /\ GoesOn(op, m, mk, at)
  BY DEF ReplyOK
<1>3. Nested(ex, n + 1)
  BY <1>1, NestedGrown
<1>4. Depths(ex, m, at) /\ GoesOn(ex, m, mk, at)
  BY <1>1, <1>2, DepthsGrown
<1>5. Unmarked(ex, m, mk)
  BY UnmarkedGrown DEF ReplyOK
<1> QED BY <1>1, <1>3, <1>4, <1>5, NotedLater DEF ReplyOK, Depths

\* The innermost is left: an item,
LEMMA LeavesItem ==
  ASSUME NEW op, NEW n, NEW m, NEW mk, ReplyOK(op, n, m, mk), m.pending = FALSE,
         NEW ex, Shrunk(op, ex), op[Len(op)].type \notin Lists
  PROVE  ReplyOK(ex, n, m, mk)
<1>1. Counting(m) /\ Nested(op, n) /\ Noted(mk, n)
  BY DEF ReplyOK
<1>2. PICK at \in [1..m.listDepth -> 1..Len(op)] : Depths(op, m, at) /\ GoesOn(op, m, mk, at)
  BY DEF ReplyOK
<1>3. Nested(ex, n) /\ Depths(ex, m, at) /\ GoesOn(ex, m, mk, at)
  BY <1>1, <1>2, NestedShrunk, DepthsShrunk
<1>4. Unmarked(ex, m, mk)
  BY DEF Unmarked
<1> QED BY <1>1, <1>3, <1>4 DEF ReplyOK, Depths

\* a list,
LEMMA LeavesList ==
  ASSUME NEW op, NEW n, NEW m, NEW mk, ReplyOK(op, n, m, mk),
         NEW ex, Shrunk(op, ex), op[Len(op)].type \in Lists,
         NEW w, DOMAIN w = DOMAIN m, w.listDepth = m.listDepth - 1,
         w.ordered = m.ordered, w.item = m.item, w.pending = m.pending
  PROVE  ReplyOK(ex, n, w, mk)
<1>1. Counting(m) /\ Nested(op, n) /\ Noted(mk, n)
  BY DEF ReplyOK
<1>2. PICK at \in [1..m.listDepth -> 1..Len(op)] : Depths(op, m, at) /\ GoesOn(op, m, mk, at)
  BY DEF ReplyOK
<1>3. Len(op) \in Nat /\ Len(op) # 0 /\ Len(ex) = Len(op) - 1 /\ m.listDepth \in Nat
  BY <1>1, LenProperties, EmptySeq DEF Nested, Shrunk, Counting
<1>4. PICK dep \in 1..m.listDepth : at[dep] = Len(op)
  <2>1. Len(op) \in 1..Len(op)
    BY <1>3
  <2> QED BY <1>2, <2>1 DEF Depths
<1>5. dep = m.listDepth
  <2>1. m.listDepth \in 1..m.listDepth /\ at[m.listDepth] \in 1..Len(op)
    BY <1>2, <1>3, <1>4
  <2>2. ~ (dep < m.listDepth)
    BY <1>2, <1>3, <1>4, <2>1 DEF Depths
  <2> QED BY <1>3, <1>4, <2>2
<1>6. w.listDepth \in Nat /\ w.listDepth = m.listDepth - 1
  BY <1>3, <1>4
<1>7. Counting(w)
  BY <1>1, <1>6 DEF Counting
<1>8. Nested(ex, n)
  BY <1>1, NestedShrunk
<1> DEFINE au == [d \in 1..w.listDepth |-> at[d]]
<1>9. ASSUME NEW d \in 1..w.listDepth
      PROVE  /\ d \in 1..m.listDepth /\ au[d] = at[d] /\ au[d] \in 1..Len(ex)
             /\ ex[au[d]] = op[at[d]]
  <2>1. d \in 1..m.listDepth /\ d < dep
    BY <1>5, <1>6
  <2>2. at[d] \in 1..Len(op) /\ at[d] < Len(op)
    BY <1>2, <1>4, <2>1 DEF Depths
  <2>3. at[d] \in 1..Len(ex)
    BY <1>3, <2>2
  <2> QED BY <2>1, <2>3 DEF Shrunk
<1>10. au \in [1..w.listDepth -> 1..Len(ex)]
  BY <1>9
<1> HIDE DEF au
<1>11. Depths(ex, w, au)
  <2>1. ASSUME NEW i \in 1..Len(ex), ex[i].type \in Lists
        PROVE  \E d \in 1..w.listDepth : au[d] = i
    <3>1. i \in 1..Len(op) /\ i # Len(op) /\ op[i].type \in Lists
      BY <1>3, <2>1 DEF Shrunk
    <3>2. PICK d \in 1..m.listDepth : at[d] = i
      BY <1>2, <3>1 DEF Depths
    <3>3. d \in 1..w.listDepth
      BY <1>4, <1>5, <1>6, <3>1, <3>2
    <3> QED BY <1>9, <3>2, <3>3
  <2>2. \A d \in 1..w.listDepth : ex[au[d]].type \in Lists
    BY <1>2, <1>9 DEF Depths
  <2>3. \A d, e \in 1..w.listDepth : d < e => au[d] < au[e]
    BY <1>2, <1>9 DEF Depths
  <2> QED BY <1>10, <2>1, <2>2, <2>3 DEF Depths
<1>12. GoesOn(ex, w, mk, au)
  BY <1>2, <1>9 DEF GoesOn
<1>13. Unmarked(ex, w, mk)
  <2>1. op[Len(op)].type # "LI"
    BY DEF Lists
  <2>2. Unmarked(ex, m, mk)
    BY <1>1, <2>1, UnmarkedShrunk DEF ReplyOK
  <2> QED BY <2>2 DEF Unmarked
<1> QED BY <1>1, <1>7, <1>8, <1>10, <1>11, <1>12, <1>13 DEF ReplyOK

\* or anything else.
LEMMA LeavesOther ==
  ASSUME NEW op, NEW n, NEW m, NEW mk, ReplyOK(op, n, m, mk),
         NEW ex, Shrunk(op, ex), op[Len(op)].type \notin Lists \cup {"LI"}
  PROVE  ReplyOK(ex, n, m, mk)
<1>1. Counting(m) /\ Nested(op, n) /\ Noted(mk, n)
  BY DEF ReplyOK
<1>2. PICK at \in [1..m.listDepth -> 1..Len(op)] : Depths(op, m, at) /\ GoesOn(op, m, mk, at)
  BY DEF ReplyOK
<1>3. Nested(ex, n) /\ Depths(ex, m, at) /\ GoesOn(ex, m, mk, at)
  BY <1>1, <1>2, NestedShrunk, DepthsShrunk
<1>4. Unmarked(ex, m, mk)
  BY <1>1, UnmarkedShrunk DEF ReplyOK
<1> QED BY <1>1, <1>3, <1>4 DEF ReplyOK, Depths
------------------------------------------------------------------------------
\* The types of what is open, as md4c makes its calls.
LEMMA Opened ==
  ASSUME ReplyInv
  PROVE  /\ entered \in Nat /\ open \in Seq(Nodes) /\ Len(open) \in Nat
         /\ DOMAIN open = 1..Len(open) /\ Counting(r) /\ marks \in Seq(Notes)
         /\ ~Idle => Len(open) \in 1..Len(open) /\ Top = open[Len(open)] /\ Top.type \in Kinds
<1>1. entered \in Nat /\ open \in Seq(Nodes) /\ Counting(r) /\ marks \in Seq(Notes)
  BY DEF ReplyInv, ReplyOK, Nested, Noted
<1>2. Len(open) \in Nat /\ DOMAIN open = 1..Len(open)
  BY <1>1, LenProperties
<1>3. ASSUME ~Idle
      PROVE  Len(open) \in 1..Len(open) /\ Top = open[Len(open)] /\ Top.type \in Kinds
  <2>1. Len(open) # 0
    BY <1>1, <1>3, EmptySeq DEF Idle
  <2>2. Len(open) \in 1..Len(open)
    BY <1>2, <2>1
  <2>3. open[Len(open)] \in Nodes
    BY <1>1, <2>2
  <2> QED BY <2>2, <2>3 DEF Top, Last, Nodes
<1> QED BY <1>1, <1>2, <1>3

LEMMA CountedSame ==
  ASSUME ReplyInv, ~Idle, NEW type
  PROVE  /\ Counted(type) \in Seq(Nodes) /\ Len(Counted(type)) = Len(open)
         /\ \A i \in 1..Len(open) :
              /\ Counted(type)[i].type = open[i].type /\ Counted(type)[i].start = open[i].start
              /\ Counted(type)[i].nth = open[i].nth
<1>1. open \in Seq(Nodes) /\ Len(open) \in Nat /\ DOMAIN open = 1..Len(open)
      /\ Len(open) \in 1..Len(open)
  BY Opened
<1>2. ASSUME NEW x \in Nodes
      PROVE  LET y == [x EXCEPT !.rows = @ + 1]
             IN  y \in Nodes /\ y.type = x.type /\ y.start = x.start /\ y.nth = x.nth
  BY DEF Nodes
<1>3. \A i \in 1..Len(open) : open[i] \in Nodes
  BY <1>1
<1>4. CASE type = "TR"
  <2> DEFINE f == [i \in DOMAIN open |-> IF open[i].type = "TABLE"
                                           THEN [open[i] EXCEPT !.rows = @ + 1] ELSE open[i]]
  <2>1. \A i \in 1..Len(open) :
          f[i] = IF open[i].type = "TABLE" THEN [open[i] EXCEPT !.rows = @ + 1] ELSE open[i]
    BY <1>1
  <2>2. DOMAIN f = 1..Len(open)
    BY <1>1
  <2>3. Counted(type) = f
    BY <1>4 DEF Counted, Cells
  <2>4. f = [i \in 1..Len(open) |-> f[i]]
    BY <2>2
  <2> HIDE DEF f
  <2>5. \A i \in 1..Len(open) : /\ f[i] \in Nodes /\ f[i].type = open[i].type
                                /\ f[i].start = open[i].start /\ f[i].nth = open[i].nth
    BY <1>2, <1>3, <2>1
  <2>6. f \in [1..Len(open) -> Nodes]
    BY <2>4, <2>5
  <2>7. f \in Seq(Nodes) /\ Len(f) = Len(open)
    BY <1>1, <2>2, <2>6, SeqDef, LenProperties
  <2> QED BY <2>3, <2>5, <2>7
<1>5. CASE type \in Cells
  <2> DEFINE f == [open EXCEPT ![Len(open)].rows = @ + 1]
  <2>1. Counted(type) = f
    BY <1>5 DEF Counted, Cells
  <2>2. \A i \in 1..Len(open) :
          f[i] = IF i = Len(open) THEN [open[i] EXCEPT !.rows = @ + 1] ELSE open[i]
    BY <1>1
  <2>3. DOMAIN f = 1..Len(open) /\ f = [i \in 1..Len(open) |-> f[i]]
    BY <1>1
  <2> HIDE DEF f
  <2>4. \A i \in 1..Len(open) : /\ f[i] \in Nodes /\ f[i].type = open[i].type
                                /\ f[i].start = open[i].start /\ f[i].nth = open[i].nth
    BY <1>2, <1>3, <2>2
  <2>5. f \in [1..Len(open) -> Nodes]
    BY <2>3, <2>4
  <2>6. f \in Seq(Nodes) /\ Len(f) = Len(open)
    BY <1>1, <2>3, <2>5, SeqDef, LenProperties
  <2> QED BY <2>1, <2>4, <2>6
<1>6. CASE type \notin Cells \cup {"TR"}
  <2>1. Counted(type) = open
    BY <1>6 DEF Counted
  <2> QED BY <1>1, <2>1
<1> QED BY <1>4, <1>5, <1>6

LEMMA Grows ==
  ASSUME ReplyInv, NEW op \in Seq(Nodes), Len(op) = Len(open),
         \A i \in 1..Len(open) : /\ op[i].type = open[i].type /\ op[i].start = open[i].start
                                 /\ op[i].nth = open[i].nth,
         NEW type \in Kinds, NEW tight \in BOOLEAN, NEW start \in Nat
  PROVE  Grown(open, entered, type, start, Append(op, Node(type, tight, start)))
<1> DEFINE node == Node(type, tight, start)
           ex == Append(op, node)
<1>1. node \in Nodes /\ node.type = type /\ node.start = start /\ node.nth = entered
  BY Opened DEF Node, Nodes
<1> HIDE DEF node
<1>2. /\ ex \in Seq(Nodes) /\ Len(ex) = Len(op) + 1 /\ ex[Len(op) + 1] = node
      /\ \A i \in 1..Len(op) : ex[i] = op[i]
  BY <1>1, AppendProperties
<1> HIDE DEF ex
<1> QED BY <1>1, <1>2 DEF Grown, ex, node

LEMMA HeadOf ==
  ASSUME NEW s \in Seq(Nodes), NEW k \in 0..Len(s)
  PROVE  /\ SubSeq(s, 1, k) \in Seq(Nodes) /\ Len(SubSeq(s, 1, k)) = k
         /\ \A i \in 1..k : SubSeq(s, 1, k)[i] = s[i]
<1>1. Len(s) \in Nat /\ \A i \in 1..Len(s) : s[i] \in Nodes
  BY LenProperties
<1>2. k \in Int /\ 1 \in Int /\ k >= 0 /\ \A i \in 1..k : s[i] \in Nodes
  BY <1>1
<1>3. /\ SubSeq(s, 1, k) \in Seq(Nodes)
      /\ Len(SubSeq(s, 1, k)) = IF 1 <= k THEN k - 1 + 1 ELSE 0
      /\ \A i \in 1..(k - 1 + 1) : SubSeq(s, 1, k)[i] = s[1 + i - 1]
  BY <1>2, SubSeqProperties
<1>4. \A i \in 1..k : s[1 + i - 1] = s[i]
  BY <1>2
<1>5. k - 1 + 1 = k
  BY <1>2
<1> QED BY <1>2, <1>3, <1>4, <1>5

LEMMA Shrinks ==
  ASSUME ReplyInv, ~Idle
  PROVE  Shrunk(open, Front(open))
<1>1. open \in Seq(Nodes) /\ Len(open) \in Nat /\ Len(open) \in 1..Len(open)
  BY Opened
<1>2. /\ SubSeq(open, 1, Len(open) - 1) \in Seq(Nodes)
      /\ Len(SubSeq(open, 1, Len(open) - 1)) = Len(open) - 1
      /\ \A i \in 1..(Len(open) - 1) : SubSeq(open, 1, Len(open) - 1)[i] = open[i]
  <2>1. Len(open) - 1 \in Nat /\ Len(open) - 1 <= Len(open)
    BY <1>1
  <2> DEFINE n == Len(open) - 1
  <2> HIDE DEF n
  <2>2. n \in Nat /\ n <= Len(open) /\ n = Len(open) - 1
    BY <2>1 DEF n
  <2>3. \A k \in 1..n : k \in 1..Len(open)
    BY <1>1, <2>2
  <2>4. /\ SubSeq(open, 1, n) \in Seq(Nodes) /\ Len(SubSeq(open, 1, n)) = n
        /\ \A k \in 1..n : SubSeq(open, 1, n)[k] = open[k]
    <3>1. n \in 0..Len(open)
      BY <1>1, <2>2
    <3> QED BY <1>1, <3>1, HeadOf
  <2> QED BY <2>2, <2>4
<1> QED BY <1>1, <1>2 DEF Shrunk, Front, Idle

\* Nothing is entered in a code block.
LEMMA NotInCode ==
  ASSUME ReplyInv, ~Idle, Top.type # "CODE"
  PROVE  \A i \in 1..Len(open) : open[i].type # "CODE"
  BY Opened DEF ReplyInv, InBlock

LEMMA InBlockGrown ==
  ASSUME ReplyInv, \A i \in 1..Len(open) : open[i].type # "CODE",
         NEW type, NEW start, NEW ex, Grown(open, entered, type, start, ex), NEW w,
         type = "CODE" => w.inCode = TRUE
  PROVE  InBlock(ex, w)
<1>1. Len(open) \in Nat
  BY Opened
<1>2. ASSUME NEW i \in 1..Len(ex), ex[i].type = "CODE"
      PROVE  i = Len(ex)
  BY <1>1, <1>2 DEF Grown
<1> QED BY <1>1, <1>2 DEF InBlock, Grown

LEMMA InBlockShrunk ==
  ASSUME ReplyInv, ~Idle, NEW w
  PROVE  InBlock(Front(open), w)
<1>1. Shrunk(open, Front(open)) /\ Len(open) \in Nat
  BY Shrinks, Opened
<1>2. \A i \in 1..Len(Front(open)) : i \in 1..Len(open) /\ i # Len(open)
  BY <1>1 DEF Shrunk
<1> QED BY <1>1, <1>2 DEF ReplyInv, InBlock, Shrunk
------------------------------------------------------------------------------
\* The invariant holds when no reply is shown, and each call of md4c keeps it.
LEMMA NoReply ==
  ReplyOK(<<>>, 0, FreshRender, <<>>) /\ \A m : InBlock(<<>>, m)
<1>1. MaxLists \in Nat
  BY MarkdownAssumption DEF MarkdownAssumption
<1>2. Counting(FreshRender) /\ FreshRender.listDepth = 0 /\ FreshRender.pending = FALSE
  BY <1>1 DEF Counting, FreshRender
<1>3. <<>> \in Seq(Nodes) /\ <<>> \in Seq(Notes) /\ Len(<<>>) = 0 /\ DOMAIN <<>> = {}
  BY EmptySeq
<1>4. Nested(<<>>, 0) /\ Noted(<<>>, 0)
  BY <1>3 DEF Nested, Noted
<1>5. Unmarked(<<>>, FreshRender, <<>>)
  BY <1>2 DEF Unmarked
<1>6. \A d : d \notin 1..0
  OBVIOUS
<1>7. [d \in 1..0 |-> 0] \in [1..0 -> 1..0]
  BY <1>6
<1>8. Depths(<<>>, FreshRender, [d \in 1..0 |-> 0]) /\ GoesOn(<<>>, FreshRender, <<>>, [d \in 1..0 |-> 0])
  BY <1>2, <1>3, <1>6, <1>7 DEF Depths, GoesOn
<1>9. \E at \in [1..FreshRender.listDepth -> 1..Len(<<>>)] :
        Depths(<<>>, FreshRender, at) /\ GoesOn(<<>>, FreshRender, <<>>, at)
  BY <1>2, <1>3, <1>7, <1>8
<1>10. \A m : InBlock(<<>>, m)
  BY <1>3, <1>6 DEF InBlock
<1> QED BY <1>2, <1>4, <1>5, <1>9, <1>10 DEF ReplyOK

LEMMA BeginStep ==
  ASSUME ReplyInv, Begin
  PROVE  ReplyInv'
<1>1. open = <<>> /\ Len(open) = 0 /\ open \in Seq(Nodes)
  BY EmptySeq, Opened DEF Begin, Idle
<1>2. "DOC" \in Kinds /\ "DOC" \notin Lists \cup {"LI"} /\ 0 \in Nat
  BY DEF Kinds, Lists
<1>3. Append(open, Node("DOC", FALSE, 0)) = open'
  BY <1>1 DEF Begin
<1>4. Grown(open, entered, "DOC", 0, open')
  BY <1>1, <1>2, <1>3, Grows
<1>5. entered + 1 = entered' /\ r' = r /\ marks' = marks
  BY DEF Begin
<1>6. ReplyOK(open', entered + 1, r, marks)
  BY <1>2, <1>4, EntersOther DEF ReplyInv
<1>7. InBlock(open', r)
  <2>1. \A i \in 1..Len(open) : open[i].type # "CODE"
    BY <1>1
  <2>2. "DOC" # "CODE"
    OBVIOUS
  <2> QED BY <1>4, <2>1, <2>2, InBlockGrown
<1> QED BY <1>5, <1>6, <1>7 DEF ReplyInv

LEMMA EnterBlockStep ==
  ASSUME ReplyInv, NEW type \in Kinds \ Spans, NEW tight \in BOOLEAN, NEW start \in Nat,
         EnterBlock(type, tight, start)
  PROVE  ReplyInv'
<1>1. /\ ~Idle /\ type \in Inside(Top.type) /\ entered' = entered + 1 /\ marks' = marks
      /\ r' = BlockEntered(r, type, start)
      /\ open' = Append(Counted(type), Node(type, tight, start))
  BY DEF EnterBlock
<1>2. Counting(r) /\ Top = open[Len(open)] /\ Top.type \in Kinds /\ open # <<>>
  BY <1>1, Opened DEF Idle
<1>3. Grown(open, entered, type, start, open')
  BY <1>1, CountedSame, Grows
<1>4. Top.type # "CODE" /\ (type = "LI" => Top.type \in Lists)
  BY <1>1, <1>2 DEF Inside, Kinds, Blocks, Lists, Cells, Spans
<1>5. ReplyOK(open, entered, r, marks)
  BY DEF ReplyInv
<1>6. CASE type = "LI"
  <2>1. /\ DOMAIN r' = DOMAIN r /\ r'.listDepth = r.listDepth
        /\ r'.ordered = r.ordered /\ r'.item = r.item /\ r'.pending = TRUE
    BY <1>1, <1>2, <1>6, ItemEntered
  <2>2. ReplyOK(open', entered + 1, r', marks)
    BY <1>2, <1>3, <1>4, <1>5, <1>6, <2>1, EntersItem
  <2>3. type # "CODE"
    BY <1>6
  <2>4. InBlock(open', r')
    BY <1>1, <1>3, <1>4, <2>3, NotInCode, InBlockGrown
  <2> QED BY <1>1, <2>2, <2>4 DEF ReplyInv
<1>7. CASE type \in Lists
  <2>1. /\ DOMAIN r' = DOMAIN r /\ r'.listDepth = r.listDepth + 1 /\ r'.pending = r.pending
        /\ r'.ordered \in [1..MaxLists -> BOOLEAN] /\ r'.item \in [1..MaxLists -> Nat]
        /\ \A e \in 1..MaxLists : e <= r.listDepth =>
             r'.ordered[e] = r.ordered[e] /\ r'.item[e] = r.item[e]
        /\ r'.listDepth <= MaxLists => r'.item[r'.listDepth] = AtLeast(start, 1)
    BY <1>1, <1>2, <1>7, ListEnteredHow
  <2>2. ReplyOK(open', entered + 1, r', marks)
    BY <1>3, <1>5, <1>7, <2>1, EntersList
  <2>3. type # "CODE"
    BY <1>7 DEF Lists
  <2>4. InBlock(open', r')
    BY <1>1, <1>3, <1>4, <2>3, NotInCode, InBlockGrown
  <2> QED BY <1>1, <2>2, <2>4 DEF ReplyInv
<1>8. CASE type \notin Lists \cup {"LI"}
  <2>1. Like(r, r')
    BY <1>1, <1>2, <1>8, BlockEnteredLike
  <2>2. ReplyOK(open', entered + 1, r, marks)
    BY <1>3, <1>5, <1>8, EntersOther
  <2>3. ReplyOK(open', entered + 1, r', marks)
    BY <2>1, <2>2, NoMark
  <2>4. type = "CODE" => r'.inCode = TRUE
    BY <1>1, <1>2, Fields DEF BlockEntered, MaybeBlockGap, Newline, Lists, Cells
  <2>5. InBlock(open', r')
    BY <1>1, <1>3, <1>4, <2>4, NotInCode, InBlockGrown
  <2> QED BY <1>1, <2>3, <2>5 DEF ReplyInv
<1> QED BY <1>6, <1>7, <1>8

\* A marker is printed, or none.
LEMMA MarkOrNot ==
  ASSUME ReplyInv, NEW w, NEW c \in BOOLEAN,
         IF c /\ Marks(r) THEN Gave(r, w) ELSE Like(r, w)
  PROVE  ReplyOK(open, entered, w, marks \o (IF c THEN MarkOf(r) ELSE <<>>))
<1>1. ReplyOK(open, entered, r, marks) /\ marks \in Seq(Notes)
  BY Opened DEF ReplyInv
<1>2. CASE c /\ Marks(r)
  BY <1>1, <1>2, Mark
<1>3. CASE ~(c /\ Marks(r))
  <2>1. (IF c THEN MarkOf(r) ELSE <<>>) = <<>>
    BY <1>3 DEF MarkOf
  <2>2. marks \o <<>> = marks
    BY <1>1, ConcatEmptySeq
  <2> QED BY <1>1, <1>3, <2>1, <2>2, NoMark
<1> QED BY <1>2, <1>3

LEMMA LeaveBlockStep ==
  ASSUME ReplyInv, NEW art, LeaveBlock(art)
  PROVE  ReplyInv'
<1> DEFINE type == Top.type
           w == Drawn(r, type)
<1>1. /\ ~Idle /\ entered' = entered /\ r' = BlockLeft(r, type) /\ open' = Front(open)
      /\ marks' = marks \o (IF w # r THEN MarkOf(r) ELSE <<>>)
  BY DEF LeaveBlock
<1>2. Counting(r) /\ type = open[Len(open)].type
  BY <1>1, Opened
<1> HIDE DEF w, type
<1>3. IF w # r /\ Marks(r) THEN Gave(r, w) ELSE Like(r, w)
  BY <1>2, DrawnHow DEF w
<1>4. ReplyOK(open, entered, w, marks')
  BY <1>1, <1>3, MarkOrNot
<1>5. Shrunk(open, open') /\ InBlock(open', r')
  BY <1>1, Shrinks, InBlockShrunk
<1>6. CASE type \in Lists
  <2>1. /\ w = r /\ DOMAIN r' = DOMAIN r /\ r'.listDepth = r.listDepth - 1
        /\ r'.ordered = r.ordered /\ r'.item = r.item /\ r'.pending = r.pending
    BY <1>1, <1>2, <1>6, ListLeft DEF w
  <2>2. ReplyOK(open', entered, r', marks')
    BY <1>2, <1>4, <1>5, <1>6, <2>1, LeavesList
  <2> QED BY <1>1, <1>5, <2>2 DEF ReplyInv
<1>7. CASE type \notin Lists
  <2>1. Like(w, r') /\ (type = "LI" => r'.pending = FALSE)
    BY <1>1, <1>2, <1>7, BlockLeftLike DEF w
  <2>2. ReplyOK(open, entered, r', marks')
    BY <1>4, <2>1, NoMark
  <2>3. ReplyOK(open', entered, r', marks')
    BY <1>2, <1>5, <1>7, <2>1, <2>2, LeavesItem, LeavesOther
  <2> QED BY <1>1, <1>5, <2>3 DEF ReplyInv
<1> QED BY <1>6, <1>7

LEMMA EnterSpanStep ==
  ASSUME ReplyInv, NEW type \in Spans, EnterSpan(type)
  PROVE  ReplyInv'
<1>1. /\ ~Idle /\ HoldsText /\ entered' = entered + 1 /\ r' = SpanEntered(r, type)
      /\ open' = Append(open, Node(type, FALSE, 0)) /\ marks' = marks
  BY DEF EnterSpan
<1>2. Counting(r) /\ open \in Seq(Nodes)
  BY Opened
<1>3. type \in Kinds /\ type \notin Lists \cup {"LI"} /\ type # "CODE" /\ 0 \in Nat
  BY DEF Kinds, Lists, Spans
<1>4. Grown(open, entered, type, 0, open')
  BY <1>1, <1>2, <1>3, Grows
<1>5. Top.type # "CODE"
  BY <1>1 DEF HoldsText, Inside, Lists, Cells, Spans
<1>6. Like(r, r')
  BY <1>1, <1>2, SpanEnteredLike
<1>7. ReplyOK(open', entered + 1, r, marks)
  BY <1>3, <1>4, EntersOther DEF ReplyInv
<1>8. ReplyOK(open', entered', r', marks')
  BY <1>1, <1>6, <1>7, NoMark
<1>9. InBlock(open', r')
  BY <1>1, <1>3, <1>4, <1>5, NotInCode, InBlockGrown
<1> QED BY <1>8, <1>9 DEF ReplyInv

LEMMA LeaveSpanStep ==
  ASSUME ReplyInv, LeaveSpan
  PROVE  ReplyInv'
<1> DEFINE image == Top.type = "IMG" /\ ~(r.inTable /\ r.inCell)
<1>1. /\ ~Idle /\ Top.type \in Spans /\ entered' = entered /\ r' = SpanLeft(r, Top.type)
      /\ open' = Front(open) /\ marks' = marks \o (IF image THEN MarkOf(r) ELSE <<>>)
  BY DEF LeaveSpan
<1>2. Counting(r) /\ Top.type = open[Len(open)].type
  BY <1>1, Opened
<1>3. IF image /\ Marks(r) THEN Gave(r, r') ELSE Like(r, r')
  BY <1>1, <1>2, SpanLeftHow
<1> HIDE DEF image
<1>4. ReplyOK(open, entered, r', marks')
  <2>1. image \in BOOLEAN
    BY DEF image
  <2> QED BY <1>1, <1>3, <2>1, MarkOrNot
<1>5. Shrunk(open, open') /\ InBlock(open', r')
  BY <1>1, Shrinks, InBlockShrunk
<1>6. open[Len(open)].type \notin Lists \cup {"LI"}
  BY <1>1, <1>2 DEF Lists, Spans
<1>7. ReplyOK(open', entered, r', marks')
  BY <1>4, <1>5, <1>6, LeavesOther
<1> QED BY <1>1, <1>5, <1>7 DEF ReplyInv

LEMMA TextStep ==
  ASSUME ReplyInv, Text
  PROVE  ReplyInv'
<1>1. /\ ~Idle /\ entered' = entered /\ open' = open /\ r' = PrintText(r, fed')
      /\ marks' = marks \o (IF Gathered(r) = "line" THEN MarkOf(r) ELSE <<>>)
  BY DEF Text
<1>2. Counting(r)
  BY Opened
<1>3. IF Gathered(r) = "line" /\ Marks(r) THEN Gave(r, r') ELSE Like(r, r')
  BY <1>1, <1>2, PrintTextHow
<1>4. ReplyOK(open, entered, r', marks')
  BY <1>1, <1>3, MarkOrNot
<1>5. r.inCode = TRUE => r'.inCode = TRUE
  BY <1>1, <1>2, PrintTextInCode
<1>6. InBlock(open', r')
  BY <1>1, <1>5 DEF ReplyInv, InBlock
<1> QED BY <1>1, <1>4, <1>6 DEF ReplyInv

LEMMA BreakStep ==
  ASSUME ReplyInv, Break
  PROVE  ReplyInv'
<1>1. /\ ~Idle /\ entered' = entered /\ open' = open /\ marks' = marks
      /\ r' = IF Top.type = "CODE" THEN PrintText(r, Filler)
              ELSE IF r.inTable /\ r.inCell THEN TableAppend(r, <<Filler>>)
              ELSE Newline(r)
  BY DEF Break
<1>2. Counting(r)
  BY Opened
<1>3. CASE Top.type = "CODE"
  <2>1. r.inCode = TRUE
    BY <1>1, <1>3, Opened DEF ReplyInv, InBlock
  <2>2. Gathered(r) # "line"
    BY <2>1 DEF Gathered
  <2>3. Like(r, r') /\ r'.inCode = TRUE
    BY <1>1, <1>2, <1>3, <2>1, <2>2, PrintTextHow, PrintTextInCode
  <2> QED BY <1>1, <2>3, NoMark DEF ReplyInv, InBlock
<1>4. CASE Top.type # "CODE"
  <2>1. Like(r, r')
    BY <1>1, <1>2, <1>4, LinesLike, TableLike
  <2>2. InBlock(open', r')
    BY <1>1, <1>4, NotInCode DEF InBlock
  <2> QED BY <1>1, <2>1, <2>2, NoMark DEF ReplyInv
<1> QED BY <1>3, <1>4

LEMMA ReplyNextHolds ==
  ASSUME ReplyInv, ReplyNext
  PROVE  ReplyInv'
<1>1. ASSUME NEW type \in Blocks \cup {"LI", "THEAD", "TBODY", "TR", "TH", "TD"},
             NEW tight \in BOOLEAN, NEW start \in {0, 4}, EnterBlock(type, tight, start)
      PROVE  ReplyInv'
  <2>1. type \in Kinds \ Spans /\ start \in Nat
    BY DEF Kinds, Blocks, Cells, Spans
  <2> QED BY <1>1, <2>1, EnterBlockStep
<1> QED BY <1>1, BeginStep, LeaveBlockStep, EnterSpanStep, LeaveSpanStep, TextStep, BreakStep
        DEF ReplyNext

\* However lists are nested in a reply of any length and whatever else stands between
\* their items, an item has at most one marker, and those of an ordered list count up
\* from its start (markdown.c:489-510, 549-570, 651-661).
THEOREM CountsItems == ScreenSpec => []ItemsCounted
<1>1. ScreenInit => ReplyInv
  BY NoReply DEF ScreenInit, ReplyInit, ReplyInv
<1>2. ReplyInv /\ [ScreenNext]_<<replyVars, menuVars>> => ReplyInv'
  <2> SUFFICES ASSUME ReplyInv, [ScreenNext]_<<replyVars, menuVars>>
               PROVE  ReplyInv'
    OBVIOUS
  <2>1. CASE Return
    BY <2>1, NoReply DEF Return, ReplyInv
  <2>2. CASE ShowReply
    BY <2>2, ReplyNextHolds DEF ShowReply
  <2>3. CASE InMenu \/ UNCHANGED <<replyVars, menuVars>>
    BY <2>3 DEF InMenu, replyVars, ReplyInv
  <2> QED BY <2>1, <2>2, <2>3 DEF ScreenNext
<1>3. ReplyInv => ItemsCounted
  BY DEF ReplyInv, ReplyOK, Noted, ItemsCounted
<1> QED BY <1>1, <1>2, <1>3, PTL DEF ScreenSpec

\* A piece of text in a sequence; its pieces are in the order of the reply.
Holds(s, p) == p # Filler /\ \E k \in DOMAIN s : s[k] = p
Rising(s) == \A j, k \in DOMAIN s : j < k /\ s[j] # Filler /\ s[k] # Filler => s[j] < s[k]

\* All pieces of one sequence come before those of another, or before a number.
Ahead(s, t) == \A p, q : Holds(s, p) /\ Holds(t, q) => p < q
UpTo(s, n) == \A p : Holds(s, p) => p <= n

------------------------------------------------------------------------------
\* Up to n, by steps of one.
LEMMA Upwards ==
  ASSUME NEW n \in Nat, NEW T, 0 \in T, \A i \in 1..n : i - 1 \in T => i \in T
  PROVE  \A i \in 0..n : i \in T
<1> DEFINE Bad == (0..n) \ T
<1> SUFFICES ASSUME Bad # {} PROVE FALSE
  OBVIOUS
<1>1. PICK i \in Bad : \A j \in Bad : i <= j
  <2>1. Bad \in SUBSET Nat
    OBVIOUS
  <2> HIDE DEF Bad
  <2> QED BY <2>1, LeastOf
<1>2. i \in 1..n /\ i - 1 \in 0..n /\ ~ (i <= i - 1)
  <2>1. i \in 0..n /\ i # 0
    OBVIOUS
  <2> QED BY <2>1
<1>3. i - 1 \in T
  BY <1>1, <1>2
<1> QED BY <1>2, <1>3

\* What the recursion of a loop gives, for a loop of any length.
Loops(g, S, v, n, step) ==
  /\ g \in [0..n -> S]
  /\ \A i \in 0..n : g[i] = IF i = 0 THEN v ELSE step[i][g[i - 1]]

LEMMA Recursion ==
  ASSUME NEW S, NEW v \in S, NEW n \in Nat, NEW step \in [1..n -> [S -> S]]
  PROVE  \E g : Loops(g, S, v, n, step)
<1> DEFINE G(g, k) == \A i \in 0..k : g[i] = IF i = 0 THEN v ELSE step[i][g[i - 1]]
           T == {k \in 0..n : \E g \in [0..k -> S] : G(g, k)}
<1>1. 0 \in T
  <2> DEFINE g == [i \in 0..0 |-> v]
  <2>1. g \in [0..0 -> S] /\ \A i \in 0..0 : g[i] = IF i = 0 THEN v ELSE step[i][g[i - 1]]
    OBVIOUS
  <2> HIDE DEF g
  <2>2. \E h \in [0..0 -> S] : G(h, 0)
    BY <2>1
  <2> QED BY <2>2
<1>2. ASSUME NEW k \in 1..n, k - 1 \in T PROVE k \in T
  <2>1. PICK h \in [0..(k - 1) -> S] : G(h, k - 1)
    BY <1>2
  <2> DEFINE g == [i \in 0..k |-> IF i < k THEN h[i] ELSE step[k][h[k - 1]]]
  <2>2. h[k - 1] \in S /\ step[k] \in [S -> S]
    OBVIOUS
  <2>3. \A i \in 0..k : g[i] \in S
    <3> SUFFICES ASSUME NEW i \in 0..k PROVE g[i] \in S
      OBVIOUS
    <3>1. i < k => i \in 0..(k - 1)
      OBVIOUS
    <3> QED BY <2>2, <3>1
  <2>4. g \in [0..k -> S]
    BY <2>3
  <2>5. ASSUME NEW i \in 0..k PROVE g[i] = IF i = 0 THEN v ELSE step[i][g[i - 1]]
    <3>1. CASE i < k
      <4>1. i \in 0..(k - 1) /\ g[i] = h[i] /\ (i # 0 => i - 1 \in 0..k /\ i - 1 < k)
        BY <3>1
      <4>2. i # 0 => g[i - 1] = h[i - 1]
        BY <4>1
      <4>3. h[i] = IF i = 0 THEN v ELSE step[i][h[i - 1]]
        BY <2>1, <4>1
      <4> HIDE DEF g
      <4> QED BY <4>1, <4>2, <4>3
    <3>2. CASE ~ (i < k)
      <4>1. i = k /\ i # 0 /\ i - 1 \in 0..k /\ i - 1 < k
        BY <3>2
      <4>2. g[i - 1] = h[i - 1]
        BY <4>1
      <4>3. g[i] = step[k][h[k - 1]]
        BY <3>2
      <4> HIDE DEF g
      <4> QED BY <4>1, <4>2, <4>3
    <3> QED BY <3>1, <3>2
  <2> HIDE DEF g
  <2> QED BY <2>4, <2>5
<1> HIDE DEF T
<1>3. \A k \in 0..n : k \in T
  BY <1>1, <1>2, Upwards
<1>4. n \in T
  BY <1>3
<1> QED BY <1>4 DEF T, Loops

------------------------------------------------------------------------------
(***************************************************************************)
(* Pieces of text in sequences.                                            *)
(***************************************************************************)
LEMMA ConcatHow ==
  ASSUME NEW s \in Seq(Nat), NEW t \in Seq(Nat)
  PROVE  /\ s \o t \in Seq(Nat) /\ Len(s \o t) = Len(s) + Len(t)
         /\ \A p : Holds(s \o t, p) <=> Holds(s, p) \/ Holds(t, p)
         /\ Rising(s) /\ Rising(t) /\ Ahead(s, t) => Rising(s \o t)
<1> DEFINE c == s \o t
<1>1. /\ c \in Seq(Nat) /\ Len(c) = Len(s) + Len(t)
      /\ \A i \in 1..Len(s) : c[i] = s[i]
      /\ \A i \in 1..Len(t) : c[Len(s) + i] = t[i]
  BY ConcatProperties
<1>2. /\ DOMAIN s = 1..Len(s) /\ DOMAIN t = 1..Len(t) /\ DOMAIN c = 1..Len(c)
      /\ Len(s) \in Nat /\ Len(t) \in Nat
  BY <1>1, LenProperties
<1> HIDE DEF c
<1>3. ASSUME NEW i \in 1..Len(c)
      PROVE  \/ i \in 1..Len(s) /\ c[i] = s[i]
             \/ i - Len(s) \in 1..Len(t) /\ c[i] = t[i - Len(s)]
  <2>1. CASE i <= Len(s)
    BY <1>1, <1>2, <2>1
  <2>2. CASE ~ (i <= Len(s))
    <3>1. i - Len(s) \in 1..Len(t) /\ Len(s) + (i - Len(s)) = i
      BY <1>1, <1>2, <2>2
    <3> QED BY <1>1, <3>1
  <2> QED BY <2>1, <2>2
<1>4. ASSUME NEW p PROVE Holds(c, p) <=> Holds(s, p) \/ Holds(t, p)
  <2>1. Holds(c, p) => Holds(s, p) \/ Holds(t, p)
    BY <1>2, <1>3 DEF Holds
  <2>2. Holds(s, p) => Holds(c, p)
    <3>1. \A k \in 1..Len(s) : k \in 1..Len(c)
      BY <1>1, <1>2
    <3> QED BY <1>1, <1>2, <3>1 DEF Holds
  <2>3. Holds(t, p) => Holds(c, p)
    <3>1. \A k \in 1..Len(t) : Len(s) + k \in 1..Len(c)
      BY <1>1, <1>2
    <3> QED BY <1>1, <1>2, <3>1 DEF Holds
  <2> QED BY <2>1, <2>2, <2>3
<1>5. ASSUME Rising(s), Rising(t), Ahead(s, t) PROVE Rising(c)
  <2> SUFFICES ASSUME NEW j \in 1..Len(c), NEW k \in 1..Len(c), j < k, c[j] # Filler, c[k] # Filler
               PROVE  c[j] < c[k]
    BY <1>2 DEF Rising
  <2>1. CASE k <= Len(s)
    <3>1. j \in 1..Len(s) /\ k \in 1..Len(s)
      BY <1>2, <2>1
    <3> QED BY <1>1, <1>2, <1>5, <3>1 DEF Rising
  <2>2. CASE j > Len(s)
    <3>1. /\ j - Len(s) \in 1..Len(t) /\ k - Len(s) \in 1..Len(t) /\ j - Len(s) < k - Len(s)
          /\ c[j] = t[j - Len(s)] /\ c[k] = t[k - Len(s)]
      BY <1>1, <1>2, <1>3, <2>2
    <3> QED BY <1>2, <1>5, <3>1 DEF Rising
  <2>3. CASE j <= Len(s) /\ ~ (k <= Len(s))
    <3>1. /\ j \in 1..Len(s) /\ c[j] = s[j]
          /\ k - Len(s) \in 1..Len(t) /\ c[k] = t[k - Len(s)]
      BY <1>1, <1>2, <1>3, <2>3
    <3>2. Holds(s, c[j]) /\ Holds(t, c[k])
      BY <1>2, <3>1 DEF Holds
    <3> QED BY <1>5, <3>2 DEF Ahead
  <2> QED BY <1>2, <2>1, <2>2, <2>3
<1> QED BY <1>1, <1>4, <1>5 DEF c

LEMMA AppendHow ==
  ASSUME NEW s \in Seq(Nat), NEW x \in Nat
  PROVE  /\ Append(s, x) \in Seq(Nat) /\ Len(Append(s, x)) = Len(s) + 1
         /\ \A p : Holds(Append(s, x), p) <=> Holds(s, p) \/ (p = x /\ p # Filler)
         /\ Rising(s) /\ (\A p : Holds(s, p) => p < x) => Rising(Append(s, x))
<1> DEFINE t == <<x>>
<1>1. t \in Seq(Nat) /\ Len(t) = 1 /\ t[1] = x /\ DOMAIN t = 1..1
  OBVIOUS
<1>2. Append(s, x) = s \o t
  OBVIOUS
<1> HIDE DEF t
<1>3. Rising(t)
  BY <1>1 DEF Rising
<1>4. \A p : Holds(t, p) <=> p = x /\ p # Filler
  BY <1>1 DEF Holds
<1>5. (\A p : Holds(s, p) => p < x) => Ahead(s, t)
  BY <1>4 DEF Ahead
<1> QED BY <1>1, <1>2, <1>3, <1>4, <1>5, ConcatHow

LEMMA LesserOf ==
  ASSUME NEW a \in Int, NEW b \in Int
  PROVE  AtMost(a, b) \in Int /\ AtMost(a, b) <= a /\ AtMost(a, b) <= b /\ (b <= a => AtMost(a, b) = b)
  BY DEF AtMost

LEMMA PrefixHow ==
  ASSUME NEW s \in Seq(Nat), NEW n \in Int, n <= Len(s)
  PROVE  LET c == SubSeq(s, 1, n)
         IN  /\ c \in Seq(Nat) /\ Len(c) = (IF 1 <= n THEN n ELSE 0)
             /\ \A p : Holds(c, p) => Holds(s, p)
             /\ Rising(s) => Rising(c)
             /\ n = Len(s) => c = s
<1> DEFINE c == SubSeq(s, 1, n)
<1>1. Len(s) \in Nat /\ DOMAIN s = 1..Len(s)
  BY LenProperties
<1>2. \A i \in 1..n : i \in 1..Len(s) /\ s[i] \in Nat
  BY <1>1
<1>3. /\ c \in Seq(Nat)
      /\ Len(c) = IF 1 <= n THEN n - 1 + 1 ELSE 0
      /\ \A i \in 1..(n - 1 + 1) : c[i] = s[1 + i - 1]
  <2>1. 1 \in Int /\ \A i \in 1..n : s[i] \in Nat
    BY <1>2
  <2> QED BY <2>1, SubSeqProperties
<1> HIDE DEF c
<1>4. n - 1 + 1 = n /\ \A i \in 1..n : 1 + i - 1 = i
  OBVIOUS
<1>5. Len(c) = (IF 1 <= n THEN n ELSE 0) /\ \A i \in 1..n : c[i] = s[i]
  BY <1>3, <1>4
<1>6. DOMAIN c = 1..Len(c) /\ Len(c) \in Nat
  BY <1>3, LenProperties
<1>7. \A i \in 1..Len(c) : i \in 1..Len(s) /\ c[i] = s[i]
  <2>1. \A i \in 1..Len(c) : i \in 1..n
    BY <1>5
  <2> QED BY <1>2, <1>5, <2>1
<1>8. \A p : Holds(c, p) => Holds(s, p)
  BY <1>1, <1>6, <1>7 DEF Holds
<1>9. Rising(s) => Rising(c)
  BY <1>1, <1>6, <1>7 DEF Rising
<1>10. n = Len(s) => c = s
  <2> SUFFICES ASSUME n = Len(s) PROVE c = s
    OBVIOUS
  <2>1. Len(c) = Len(s)
    BY <1>1, <1>5
  <2> QED BY <1>3, <1>7, <2>1, SeqEqual
<1> QED BY <1>3, <1>5, <1>8, <1>9, <1>10 DEF c

LEMMA CutHow ==
  ASSUME NEW s \in Seq(Nat), NEW w \in Int
  PROVE  LET c == SubSeq(s, 1, AtMost(w, Len(s)))
         IN  /\ c \in Seq(Nat) /\ Len(c) <= Len(s) /\ (w >= 0 => Len(c) <= w)
             /\ \A p : Holds(c, p) => Holds(s, p)
             /\ Rising(s) => Rising(c)
             /\ Len(s) <= w => c = s
<1>1. Len(s) \in Nat /\ Len(s) \in Int
  BY LenProperties
<1>2. PICK n : n = AtMost(w, Len(s))
  OBVIOUS
<1>3. n \in Int /\ n <= Len(s) /\ n <= w /\ (Len(s) <= w => n = Len(s))
  BY <1>1, <1>2, LesserOf
<1>4. PICK c : c = SubSeq(s, 1, n)
  OBVIOUS
<1>5. /\ c \in Seq(Nat) /\ Len(c) = (IF 1 <= n THEN n ELSE 0)
      /\ \A p : Holds(c, p) => Holds(s, p)
      /\ Rising(s) => Rising(c)
      /\ n = Len(s) => c = s
  BY <1>3, <1>4, PrefixHow
<1>6. Len(c) <= Len(s) /\ (w >= 0 => Len(c) <= w)
  BY <1>1, <1>3, <1>5
<1> QED BY <1>2, <1>3, <1>4, <1>5, <1>6

------------------------------------------------------------------------------
\* What is left of a sequence when the fillers are taken out of it.
LEMMA PiecesHow ==
  ASSUME NEW s \in Seq(Nat)
  PROVE  /\ Pieces(s) \in Seq(Nat) /\ \A k \in DOMAIN Pieces(s) : Pieces(s)[k] # Filler
         /\ \A p : Holds(Pieces(s), p) <=> Holds(s, p)
         /\ Rising(s) => Rising(Pieces(s))
<1> DEFINE n == Len(s)
           Loop(f) == f = [i \in 0..n |-> IF i = 0 THEN <<>>
                                          ELSE IF s[i] = Filler THEN f[i - 1] ELSE Append(f[i - 1], s[i])]
           kept == CHOOSE f : Loop(f)
<1>1. n \in Nat /\ DOMAIN s = 1..n /\ \A i \in 1..n : s[i] \in Nat
  BY LenProperties
<1>2. Pieces(s) = kept[n]
  BY DEF Pieces
<1> HIDE DEF n
<1>3. \E g : Loop(g)
  <2> DEFINE S == Seq(Nat)
             step == [i \in 1..n |-> [x \in S |-> IF s[i] = Filler THEN x ELSE Append(x, s[i])]]
  <2>1. <<>> \in S
    BY EmptySeq
  <2>2. \A i \in 1..n, x \in S : (IF s[i] = Filler THEN x ELSE Append(x, s[i])) \in S
    BY <1>1, AppendProperties
  <2>3. step \in [1..n -> [S -> S]]
    BY <2>2
  <2>4. \A i \in 1..n, x \in S : step[i][x] = IF s[i] = Filler THEN x ELSE Append(x, s[i])
    OBVIOUS
  <2> HIDE DEF S, step
  <2>5. PICK g \in [0..n -> S] : \A i \in 0..n : g[i] = IF i = 0 THEN <<>> ELSE step[i][g[i - 1]]
    <3>1. n \in Nat
      BY <1>1
    <3>2. \E g : Loops(g, S, <<>>, n, step)
      BY <2>1, <2>3, <3>1, Recursion
    <3> QED BY <3>2 DEF Loops
  <2>6. ASSUME NEW i \in 0..n
        PROVE  g[i] = IF i = 0 THEN <<>>
                      ELSE IF s[i] = Filler THEN g[i - 1] ELSE Append(g[i - 1], s[i])
    <3>1. i # 0 => i \in 1..n /\ i - 1 \in 0..n
      BY <1>1
    <3>2. i # 0 => g[i - 1] \in S
      BY <3>1
    <3> QED BY <2>4, <2>5, <3>1, <3>2
  <2>7. g = [i \in 0..n |-> g[i]]
    OBVIOUS
  <2>8. Loop(g)
    BY <2>6, <2>7
  <2> QED BY <2>8
<1>4. Loop(kept)
  BY <1>3
<1> HIDE DEF kept
<1>5. \A i \in 0..n : kept[i] = IF i = 0 THEN <<>>
                                ELSE IF s[i] = Filler THEN kept[i - 1] ELSE Append(kept[i - 1], s[i])
  BY <1>4
<1> DEFINE Right(i) ==
      /\ kept[i] \in Seq(Nat) /\ \A k \in DOMAIN kept[i] : kept[i][k] # Filler
      /\ \A p : Holds(kept[i], p) <=> p # Filler /\ \E k \in 1..i : s[k] = p
      /\ Rising(s) => Rising(kept[i])
    T == {i \in 0..n : Right(i)}
<1>6. 0 \in T
  <2>1. 0 \in 0..n /\ kept[0] = <<>> /\ DOMAIN <<>> = {} /\ <<>> \in Seq(Nat)
    BY <1>1, <1>5, EmptySeq
  <2>2. Right(0)
    BY <2>1 DEF Holds, Rising
  <2> QED BY <2>1, <2>2
<1>7. ASSUME NEW i \in 1..n, i - 1 \in T PROVE i \in T
  <2> DEFINE x == kept[i - 1]
  <2>1. Right(i - 1) /\ i \in 0..n /\ i # 0 /\ s[i] \in Nat
    BY <1>1, <1>7
  <2>2. kept[i] = IF s[i] = Filler THEN x ELSE Append(x, s[i])
    BY <1>5, <2>1
  <2>3. \A k : k \in 1..i <=> k \in 1..(i - 1) \/ k = i
    OBVIOUS
  <2>4. x \in Seq(Nat) /\ \A k \in DOMAIN x : x[k] # Filler
    BY <2>1
  <2>5. \A p : Holds(x, p) <=> p # Filler /\ \E k \in 1..(i - 1) : s[k] = p
    BY <2>1
  <2>6. Rising(s) => Rising(x)
    BY <2>1
  <2> HIDE DEF x
  <2>7. CASE s[i] = Filler
    <3>1. kept[i] = x
      BY <2>2, <2>7
    <3>2. \A p : (p # Filler /\ \E k \in 1..i : s[k] = p) <=> (p # Filler /\ \E k \in 1..(i - 1) : s[k] = p)
      BY <2>3, <2>7
    <3>3. Right(i)
      BY <2>4, <2>5, <2>6, <3>1, <3>2
    <3> QED BY <2>1, <3>3
  <2>8. CASE s[i] # Filler
    <3>1. kept[i] = Append(x, s[i])
      BY <2>2, <2>8
    <3> DEFINE y == Append(x, s[i])
    <3>2. /\ y \in Seq(Nat) /\ Len(y) = Len(x) + 1
          /\ \A p : Holds(y, p) <=> Holds(x, p) \/ (p = s[i] /\ p # Filler)
          /\ Rising(x) /\ (\A p : Holds(x, p) => p < s[i]) => Rising(y)
      BY <2>1, <2>4, AppendHow
    <3>3. \A k \in DOMAIN y : y[k] # Filler
      BY <2>4, <2>8
    <3> HIDE DEF y
    <3>4. ASSUME Rising(s), NEW p, Holds(x, p) PROVE p < s[i]
      <4>1. PICK k \in 1..(i - 1) : s[k] = p /\ p # Filler
        BY <2>5, <3>4
      <4>2. k \in DOMAIN s /\ i \in DOMAIN s /\ k < i
        BY <1>1
      <4> QED BY <2>8, <3>4, <4>1, <4>2 DEF Rising
    <3>5. \A p : Holds(y, p) <=> p # Filler /\ \E k \in 1..i : s[k] = p
      BY <2>3, <2>5, <3>2
    <3>6. kept[i] = y
      BY <3>1 DEF y
    <3>7. Rising(s) => Rising(y)
      BY <2>6, <3>2, <3>4
    <3>8. Right(i)
      BY <3>2, <3>3, <3>5, <3>6, <3>7
    <3> QED BY <2>1, <3>8
  <2> QED BY <2>7, <2>8
<1>8. Right(n)
  <2> HIDE DEF T
  <2>1. \A i \in 0..n : i \in T
    BY <1>1, <1>6, <1>7, Upwards
  <2>2. n \in T
    BY <1>1, <2>1
  <2> QED BY <2>2 DEF T
<1>9. \A p : Holds(s, p) <=> p # Filler /\ \E k \in 1..n : s[k] = p
  BY <1>1 DEF Holds
<1> QED BY <1>2, <1>8, <1>9

\* Sequences of pieces, one after the other, each behind those before.
LEMMA FlatHow ==
  ASSUME NEW ss \in Seq(Seq(Nat)),
         \A i \in DOMAIN ss : Rising(ss[i]),
         \A i, j \in DOMAIN ss : i < j => Ahead(ss[i], ss[j])
  PROVE  /\ FlattenSeq(ss) \in Seq(Nat) /\ Rising(FlattenSeq(ss))
         /\ \A p : Holds(FlattenSeq(ss), p) => \E i \in DOMAIN ss : Holds(ss[i], p)
<1> DEFINE n == Len(ss)
           Loop(f) == f = [i \in 1..n |-> IF i = 1 THEN ss[i] ELSE f[i - 1] \o ss[i]]
           flat == CHOOSE f : Loop(f)
<1>1. n \in Nat /\ DOMAIN ss = 1..n /\ \A i \in 1..n : ss[i] \in Seq(Nat)
  BY LenProperties
<1>2. CASE n = 0
  <2>1. ss = <<>>
    BY <1>2, EmptySeq
  <2>2. FlattenSeq(ss) = ss
    BY <1>2 DEF FlattenSeq
  <2>3. DOMAIN <<>> = {} /\ <<>> \in Seq(Nat)
    BY EmptySeq
  <2> HIDE DEF n
  <2> QED BY <2>1, <2>2, <2>3 DEF Rising, Holds
<1>3. CASE n # 0
  <2>1. FlattenSeq(ss) = flat[n]
    BY <1>3 DEF FlattenSeq
  <2> HIDE DEF n
  <2>2. \E g : Loop(g)
    <3> DEFINE S == Seq(Nat)
               step == [i \in 1..n |-> [x \in S |-> x \o ss[i]]]
    <3>1. <<>> \in S
      BY EmptySeq
    <3>2. \A i \in 1..n, x \in S : x \o ss[i] \in S
      BY <1>1, ConcatProperties
    <3>3. step \in [1..n -> [S -> S]]
      BY <3>2
    <3>4. \A i \in 1..n, x \in S : step[i][x] = x \o ss[i]
      OBVIOUS
    <3>5. \A i \in 1..n : <<>> \o ss[i] = ss[i]
      BY <1>1, ConcatEmptySeq
    <3> HIDE DEF S, step
    <3>6. PICK h \in [0..n -> S] : \A i \in 0..n : h[i] = IF i = 0 THEN <<>> ELSE step[i][h[i - 1]]
      <4>1. n \in Nat
        BY <1>1
      <4>2. \E g : Loops(g, S, <<>>, n, step)
        BY <3>1, <3>3, <4>1, Recursion
      <4> QED BY <4>2 DEF Loops
    <3>7. ASSUME NEW i \in 1..n
          PROVE  h[i] = IF i = 1 THEN ss[i] ELSE h[i - 1] \o ss[i]
      <4>1. i \in 0..n /\ i # 0 /\ i - 1 \in 0..n
        BY <1>1
      <4>2. h[i - 1] \in S /\ h[i] = step[i][h[i - 1]]
        BY <3>6, <4>1
      <4>3. h[i] = h[i - 1] \o ss[i]
        BY <3>4, <4>2
      <4>4. i = 1 => h[i - 1] = <<>>
        BY <1>1, <3>6, <4>1
      <4> QED BY <3>5, <4>3, <4>4
    <3> DEFINE g == [i \in 1..n |-> h[i]]
    <3>8. ASSUME NEW i \in 1..n
          PROVE  g[i] = IF i = 1 THEN ss[i] ELSE g[i - 1] \o ss[i]
      <4>1. i # 1 => i - 1 \in 1..n
        BY <1>1
      <4> QED BY <3>7, <4>1
    <3>9. g = [i \in 1..n |-> g[i]]
      OBVIOUS
    <3> HIDE DEF g
    <3>10. Loop(g)
      BY <3>8, <3>9
    <3> QED BY <3>10
  <2>3. Loop(flat)
    BY <2>2
  <2> HIDE DEF flat
  <2>4. \A i \in 1..n : flat[i] = IF i = 1 THEN ss[i] ELSE flat[i - 1] \o ss[i]
    BY <2>3
  <2> DEFINE Right(i) ==
        /\ flat[i] \in Seq(Nat) /\ Rising(flat[i])
        /\ \A p : Holds(flat[i], p) => \E k \in 1..i : Holds(ss[k], p)
      T == {i \in 0..n : i # 0 => Right(i)}
  <2>5. 0 \in T
    <3> HIDE DEF Right
    <3> QED BY <1>1
  <2>6. ASSUME NEW i \in 1..n, i - 1 \in T PROVE i \in T
    <3>1. i \in 0..n /\ i # 0 /\ i \in 1..i /\ ss[i] \in Seq(Nat) /\ i \in DOMAIN ss
      BY <1>1
    <3>2. Rising(ss[i])
      BY <3>1, Zenon
    <3>3. CASE i = 1
      <4>1. flat[i] = ss[i]
        BY <2>4, <3>3
      <4>2. Right(i)
        BY <3>1, <3>2, <4>1
      <4> QED BY <3>1, <4>2
    <3>4. CASE i # 1
      <4> DEFINE x == flat[i - 1]
      <4>1. flat[i] = x \o ss[i]
        BY <2>4, <3>4
      <4>2. Right(i - 1)
        BY <2>6, <3>4
      <4>3. x \in Seq(Nat) /\ Rising(x) /\ \A p : Holds(x, p) => \E k \in 1..(i - 1) : Holds(ss[k], p)
        BY <4>2
      <4> HIDE DEF x
      <4>4. Ahead(x, ss[i])
        <5> SUFFICES ASSUME NEW p, NEW q, Holds(x, p), Holds(ss[i], q) PROVE p < q
          BY DEF Ahead
        <5>1. PICK k \in 1..(i - 1) : Holds(ss[k], p)
          BY <4>3
        <5>2. k \in DOMAIN ss /\ i \in DOMAIN ss /\ k < i
          BY <1>1
        <5>3. Ahead(ss[k], ss[i])
          BY <5>2
        <5> QED BY <5>1, <5>3 DEF Ahead
      <4>5. /\ x \o ss[i] \in Seq(Nat) /\ Rising(x \o ss[i])
            /\ \A p : Holds(x \o ss[i], p) <=> Holds(x, p) \/ Holds(ss[i], p)
        BY <3>1, <3>2, <4>3, <4>4, ConcatHow
      <4>6. \A k \in 1..(i - 1) : k \in 1..i
        OBVIOUS
      <4>7. Right(i)
        BY <3>1, <4>1, <4>3, <4>5, <4>6
      <4> QED BY <3>1, <4>7
    <3> QED BY <3>3, <3>4
  <2>7. Right(n)
    <3> HIDE DEF T
    <3>1. \A i \in 0..n : i \in T
      BY <1>1, <2>5, <2>6, Upwards
    <3>2. n \in T
      BY <1>1, <3>1
    <3> QED BY <1>3, <3>2 DEF T
  <2> QED BY <1>1, <2>1, <2>7
<1> QED BY <1>2, <1>3

------------------------------------------------------------------------------
\* What a code box and a table show.
Tables == [1..MaxRows -> [1..MaxCols -> Seq(Nat)]]

LEMMA Listed ==
  ASSUME NEW S, NEW n \in Nat, NEW s \in [1..n -> S] PROVE s \in Seq(S)
BY SeqDef

LEMMA InBoxHow ==
  ASSUME NEW m, m.code \in Seq(Nat), Rising(m.code)
  PROVE  /\ InBox(m) \in Seq(Nat) /\ Rising(InBox(m))
         /\ \A k \in DOMAIN InBox(m) : InBox(m)[k] # Filler
         /\ \A p : Holds(InBox(m), p) => Holds(m.code, p)
<1>1. \E kept : InBox(m) = Pieces([i \in DOMAIN m.code |-> IF i \in kept THEN m.code[i] ELSE Filler])
  BY DEF InBox
<1>2. PICK kept : InBox(m) = Pieces([i \in DOMAIN m.code |-> IF i \in kept THEN m.code[i] ELSE Filler])
  BY <1>1
<1> DEFINE b == [i \in DOMAIN m.code |-> IF i \in kept THEN m.code[i] ELSE Filler]
<1>3. DOMAIN m.code = 1..Len(m.code) /\ Len(m.code) \in Nat /\ \A i \in 1..Len(m.code) : m.code[i] \in Nat
  BY LenProperties
<1>4. \A i \in DOMAIN m.code : b[i] \in Nat
  BY <1>3 DEF Filler
<1>5. DOMAIN b = DOMAIN m.code /\ b \in [1..Len(m.code) -> Nat]
  BY <1>3, <1>4
<1>6. b \in Seq(Nat)
  BY <1>3, <1>5, SeqDef
<1>7. \A i \in DOMAIN b : b[i] # Filler => b[i] = m.code[i]
  OBVIOUS
<1>8. InBox(m) = Pieces(b)
  BY <1>2
<1> HIDE DEF b
<1>9. Rising(b)
  BY <1>3, <1>5, <1>7 DEF Rising
<1>10. \A p : Holds(b, p) => Holds(m.code, p)
  BY <1>5, <1>7 DEF Holds
<1> QED BY <1>6, <1>8, <1>9, <1>10, PiecesHow

LEMMA LongestHow ==
  ASSUME NEW m, m.row \in Nat, m.row <= MaxRows, m.cells \in Tables, NEW c \in 1..MaxCols
  PROVE  (LET longest[row \in 0..m.row] ==
                IF row = 0 THEN ColLeast ELSE AtLeast(longest[row - 1], Len(m.cells[row][c]))
          IN  longest[m.row]) \in Nat
<1> DEFINE n == m.row
           Loop(f) == f = [row \in 0..n |-> IF row = 0 THEN ColLeast
                                            ELSE AtLeast(f[row - 1], Len(m.cells[row][c]))]
           longest == CHOOSE f : Loop(f)
           step == [row \in 1..n |-> [x \in Nat |-> AtLeast(x, Len(m.cells[row][c]))]]
<1>1. n \in Nat /\ ColLeast \in Nat
  BY MarkdownAssumption DEF MarkdownAssumption
<1>2. ASSUME NEW row \in 1..n PROVE Len(m.cells[row][c]) \in Nat
  <2>1. row \in 1..MaxRows /\ MaxRows \in Nat
    BY MarkdownAssumption DEF MarkdownAssumption
  <2>2. m.cells[row][c] \in Seq(Nat)
    BY <2>1 DEF Tables
  <2> QED BY <2>2, LenProperties
<1>3. \A row \in 1..n, x \in Nat : AtLeast(x, Len(m.cells[row][c])) \in Nat
  BY <1>2 DEF AtLeast
<1>4. step \in [1..n -> [Nat -> Nat]]
  BY <1>3
<1>5. \A row \in 1..n, x \in Nat : step[row][x] = AtLeast(x, Len(m.cells[row][c]))
  OBVIOUS
<1> HIDE DEF step
<1>6. PICK g : Loops(g, Nat, ColLeast, n, step)
  BY <1>1, <1>4, Recursion
<1>7. ASSUME NEW row \in 0..n
      PROVE  g[row] = IF row = 0 THEN ColLeast ELSE AtLeast(g[row - 1], Len(m.cells[row][c]))
  <2>1. row # 0 => row \in 1..n /\ row - 1 \in 0..n
    BY <1>1
  <2>2. row # 0 => g[row - 1] \in Nat
    BY <1>6, <2>1 DEF Loops
  <2> QED BY <1>5, <1>6, <2>1, <2>2 DEF Loops
<1>8. g = [row \in 0..n |-> g[row]]
  BY <1>6 DEF Loops
<1>9. Loop(g)
  BY <1>7, <1>8
<1>10. Loop(longest)
  BY <1>9
<1> HIDE DEF longest
<1>11. \A row \in 0..n : longest[row] = IF row = 0 THEN ColLeast
                                        ELSE AtLeast(longest[row - 1], Len(m.cells[row][c]))
  BY <1>10
<1> DEFINE T == {row \in 0..n : longest[row] \in Nat}
<1>12. 0 \in T
  BY <1>1, <1>11
<1>13. ASSUME NEW row \in 1..n, row - 1 \in T PROVE row \in T
  <2>1. longest[row - 1] \in Nat /\ row \in 0..n /\ row # 0
    BY <1>13
  <2> QED BY <1>3, <1>11, <2>1
<1> HIDE DEF T
<1>14. \A row \in 0..n : row \in T
  BY <1>1, <1>12, <1>13, Upwards
<1>15. n \in T
  BY <1>1, <1>14
<1> QED BY <1>15 DEF T, longest

LEMMA WidthsHow ==
  ASSUME NEW m, m.row \in Nat, m.row <= MaxRows, m.cells \in Tables, m.cols \in 0..MaxCols
  PROVE  \A c \in 1..m.cols : Widths(m)[c] \in Int
<1> DEFINE S == [1..m.cols -> Int]
           Longest(c) == LET longest[row \in 0..m.row] ==
                               IF row = 0 THEN ColLeast
                               ELSE AtLeast(longest[row - 1], Len(m.cells[row][c]))
                         IN  longest[m.row]
           need == [c \in 1..m.cols |-> Longest(c)]
           total(w) == 1 + FoldFunction(LAMBDA a, b : a + 3 + b, 0, w)
           limit == AtLeast(Columns - Indent(m), TableLeast)
           widest(w) == CHOOSE c \in 1..m.cols :
                          /\ \A d \in 1..m.cols : w[d] <= w[c]
                          /\ \A d \in 1..(c - 1) : w[d] < w[c]
           Next1(w) == IF total(w) > limit /\ w[widest(w)] > ColFloor
                         THEN [w EXCEPT ![widest(w)] = @ - 1] ELSE w
           n == MaxCols * CellMax
           Loop(f) == f = [i \in 0..n |-> IF i = 0 THEN need ELSE Next1(f[i - 1])]
           shrink == CHOOSE f : Loop(f)
<1>1. Widths(m) = shrink[n]
  BY DEF Widths
<1>2. n \in Nat
  <2>1. MaxCols \in Nat /\ CellMax \in Nat
    BY MarkdownAssumption DEF MarkdownAssumption
  <2>2. \A a, b \in Nat : a * b \in Nat
    OBVIOUS
  <2> QED BY <2>1, <2>2
<1>3. need \in S
  <2>1. \A c \in 1..m.cols : c \in 1..MaxCols
    BY MarkdownAssumption DEF MarkdownAssumption
  <2>2. \A c \in 1..m.cols : Longest(c) \in Nat
    BY <2>1, LongestHow
  <2> HIDE DEF Longest
  <2> QED BY <2>2
<1>4. \A w \in S : Next1(w) \in S
  <2> SUFFICES ASSUME NEW w \in S PROVE Next1(w) \in S
    OBVIOUS
  <2>1. ASSUME NEW x PROVE [w EXCEPT ![x] = @ - 1] \in S
    <3> DEFINE e == [w EXCEPT ![x] = @ - 1]
    <3>1. \A c \in 1..m.cols : e[c] = IF c = x THEN w[c] - 1 ELSE w[c]
      OBVIOUS
    <3>2. DOMAIN e = 1..m.cols /\ e = [c \in DOMAIN e |-> e[c]]
      OBVIOUS
    <3> HIDE DEF e
    <3>3. \A c \in 1..m.cols : e[c] \in Int
      BY <3>1
    <3>4. e \in S
      BY <3>2, <3>3
    <3> QED BY <3>4 DEF e
  <2> HIDE DEF S, total, limit, widest
  <2> QED BY <2>1
<1> HIDE DEF S, need, Next1, n
<1> DEFINE step == [i \in 1..n |-> [w \in S |-> Next1(w)]]
<1>5. step \in [1..n -> [S -> S]]
  BY <1>4
<1>6. \A i \in 1..n, w \in S : step[i][w] = Next1(w)
  OBVIOUS
<1> HIDE DEF step
<1>7. PICK g : Loops(g, S, need, n, step)
  BY <1>2, <1>3, <1>5, Recursion
<1>8. ASSUME NEW i \in 0..n
      PROVE  g[i] = IF i = 0 THEN need ELSE Next1(g[i - 1])
  <2>1. i # 0 => i \in 1..n /\ i - 1 \in 0..n
    BY <1>2
  <2>2. i # 0 => g[i - 1] \in S
    BY <1>7, <2>1 DEF Loops
  <2> QED BY <1>6, <1>7, <2>1, <2>2 DEF Loops
<1>9. g = [i \in 0..n |-> g[i]]
  BY <1>7 DEF Loops
<1>10. Loop(g)
  BY <1>8, <1>9
<1>11. Loop(shrink)
  BY <1>10
<1> HIDE DEF shrink
<1>12. \A i \in 0..n : shrink[i] = IF i = 0 THEN need ELSE Next1(shrink[i - 1])
  BY <1>11
<1> DEFINE T == {i \in 0..n : shrink[i] \in S}
<1>13. 0 \in T
  BY <1>2, <1>3, <1>12
<1>14. ASSUME NEW i \in 1..n, i - 1 \in T PROVE i \in T
  <2>1. shrink[i - 1] \in S /\ i \in 0..n /\ i # 0
    BY <1>14
  <2> QED BY <1>4, <1>12, <2>1
<1> HIDE DEF T
<1>15. \A i \in 0..n : i \in T
  BY <1>2, <1>13, <1>14, Upwards
<1>16. n \in T
  BY <1>2, <1>15
<1>17. shrink[n] \in S
  BY <1>16 DEF T
<1> QED BY <1>1, <1>17 DEF S

\* Row by row, and cell by cell in a row.
Sorted(m) ==
  \A i \in 1..MaxRows, c \in 1..MaxCols :
    /\ Rising(m.cells[i][c])
    /\ \A j \in 1..MaxRows, d \in 1..MaxCols :
         i < j \/ (i = j /\ c < d) => Ahead(m.cells[i][c], m.cells[j][d])

LEMMA InTableHow ==
  ASSUME NEW m, m.row \in Nat, m.row <= MaxRows, m.cells \in Tables, m.cols \in 0..MaxCols,
         Sorted(m)
  PROVE  /\ InTable(m) \in Seq(Nat) /\ Rising(InTable(m))
         /\ \A k \in DOMAIN InTable(m) : InTable(m)[k] # Filler
         /\ \A p : Holds(InTable(m), p) =>
              \E i \in 1..MaxRows, c \in 1..MaxCols : Holds(m.cells[i][c], p)
<1> DEFINE w == Widths(m)
           cut(i, c) == SubSeq(m.cells[i][c], 1, AtMost(w[c], Len(m.cells[i][c])))
           shown(i) == FlattenSeq([c \in 1..m.cols |-> cut(i, c)])
           all == FlattenSeq([i \in 1..m.row |-> shown(i)])
<1>1. CASE m.row = 0 \/ m.cols = 0
  <2>1. InTable(m) = <<>> /\ <<>> \in Seq(Nat) /\ DOMAIN <<>> = {}
    BY <1>1, EmptySeq DEF InTable
  <2> QED BY <2>1 DEF Rising, Holds
<1>2. CASE ~ (m.row = 0 \/ m.cols = 0)
  <2>1. InTable(m) = Pieces(all)
    BY <1>2 DEF InTable
  <2>2. MaxRows \in Nat /\ MaxCols \in Nat /\ m.cols \in Nat
    BY MarkdownAssumption DEF MarkdownAssumption
  <2>3. (\A i \in 1..m.row : i \in 1..MaxRows) /\ (\A c \in 1..m.cols : c \in 1..MaxCols)
    BY <2>2
  <2>4. ASSUME NEW i \in 1..m.row, NEW c \in 1..m.cols
        PROVE  /\ cut(i, c) \in Seq(Nat) /\ Rising(cut(i, c))
               /\ \A p : Holds(cut(i, c), p) => Holds(m.cells[i][c], p)
    <3>1. m.cells[i][c] \in Seq(Nat) /\ Rising(m.cells[i][c])
      BY <2>3 DEF Tables, Sorted
    <3>2. w[c] \in Int
      BY WidthsHow
    <3> HIDE DEF w
    <3> QED BY <3>1, <3>2, CutHow
  <2> HIDE DEF cut
  <2>5. ASSUME NEW i \in 1..m.row
        PROVE  /\ shown(i) \in Seq(Nat) /\ Rising(shown(i))
               /\ \A p : Holds(shown(i), p) => \E c \in 1..MaxCols : Holds(m.cells[i][c], p)
    <3> DEFINE ss == [c \in 1..m.cols |-> cut(i, c)]
    <3>1. DOMAIN ss = 1..m.cols /\ \A c \in 1..m.cols : ss[c] = cut(i, c)
      OBVIOUS
    <3>2. ss \in [1..m.cols -> Seq(Nat)]
      BY <2>4
    <3>3. ss \in Seq(Seq(Nat))
      BY <2>2, <3>2, Listed
    <3>4. shown(i) = FlattenSeq(ss)
      OBVIOUS
    <3> HIDE DEF ss
    <3>5. \A c \in DOMAIN ss : Rising(ss[c])
      BY <2>4, <3>1
    <3>6. \A c, d \in DOMAIN ss : c < d => Ahead(ss[c], ss[d])
      <4> SUFFICES ASSUME NEW c \in 1..m.cols, NEW d \in 1..m.cols, c < d
                   PROVE  Ahead(cut(i, c), cut(i, d))
        BY <3>1
      <4>1. Ahead(m.cells[i][c], m.cells[i][d])
        BY <2>3 DEF Sorted
      <4> QED BY <2>4, <4>1 DEF Ahead
    <3>7. /\ FlattenSeq(ss) \in Seq(Nat) /\ Rising(FlattenSeq(ss))
          /\ \A p : Holds(FlattenSeq(ss), p) => \E c \in DOMAIN ss : Holds(ss[c], p)
      BY <3>3, <3>5, <3>6, FlatHow
    <3> HIDE DEF shown
    <3> QED BY <2>3, <2>4, <3>1, <3>4, <3>7
  <2> HIDE DEF shown
  <2> DEFINE tt == [i \in 1..m.row |-> shown(i)]
  <2>6. DOMAIN tt = 1..m.row /\ \A i \in 1..m.row : tt[i] = shown(i)
    OBVIOUS
  <2>7. tt \in [1..m.row -> Seq(Nat)]
    BY <2>5
  <2>8. tt \in Seq(Seq(Nat))
    BY <2>7, Listed
  <2>9. all = FlattenSeq(tt)
    OBVIOUS
  <2> HIDE DEF tt, all
  <2>10. \A i \in DOMAIN tt : Rising(tt[i])
    BY <2>5, <2>6
  <2>11. \A i, j \in DOMAIN tt : i < j => Ahead(tt[i], tt[j])
    <3> SUFFICES ASSUME NEW i \in 1..m.row, NEW j \in 1..m.row, i < j
                 PROVE  Ahead(shown(i), shown(j))
      BY <2>6
    <3>1. \A c, d \in 1..MaxCols : Ahead(m.cells[i][c], m.cells[j][d])
      BY <2>3 DEF Sorted
    <3> QED BY <2>5, <3>1 DEF Ahead
  <2>12. /\ FlattenSeq(tt) \in Seq(Nat) /\ Rising(FlattenSeq(tt))
         /\ \A p : Holds(FlattenSeq(tt), p) => \E i \in DOMAIN tt : Holds(tt[i], p)
    BY <2>8, <2>10, <2>11, FlatHow
  <2>13. \A p : Holds(all, p) => \E i \in 1..MaxRows, c \in 1..MaxCols : Holds(m.cells[i][c], p)
    BY <2>3, <2>5, <2>6, <2>9, <2>12
  <2>14. /\ Pieces(all) \in Seq(Nat) /\ \A k \in DOMAIN Pieces(all) : Pieces(all)[k] # Filler
         /\ \A p : Holds(Pieces(all), p) <=> Holds(all, p)
         /\ Rising(all) => Rising(Pieces(all))
    BY <2>9, <2>12, PiecesHow
  <2> QED BY <2>1, <2>9, <2>12, <2>13, <2>14
<1> QED BY <1>1, <1>2

------------------------------------------------------------------------------
(***************************************************************************)
(* Where the pieces are: printed, or gathered and behind what is printed.  *)
(***************************************************************************)
\* Pieces alone, and pieces and fillers that may be gathered so far.
Solid(s) == \A k \in DOMAIN s : s[k] # Filler
Fine(s, n) == s \in Seq(Nat) /\ Rising(s) /\ UpTo(s, n)

InCells(m, p) == \E i \in 1..MaxRows, c \in 1..MaxCols : Holds(m.cells[i][c], p)

InOrder(m, o, n) ==
  /\ n \in Nat
  /\ Solid(o) /\ Fine(o, n)
  /\ Solid(m.alt) /\ Fine(m.alt, n) /\ Ahead(o, m.alt)
  /\ Fine(m.code, n) /\ Ahead(o, m.code)
  /\ m.mode # "alt" => m.alt = <<>>
  /\ m.inCode \/ m.code = <<>>
  /\ m.inTable =>
       /\ m.cells \in Tables /\ Sorted(m)
       /\ \A i \in 1..MaxRows, c \in 1..MaxCols :
            LET s == m.cells[i][c]
            IN  Len(s) <= CellMax /\ UpTo(s, n) /\ Ahead(o, s) /\ Ahead(s, m.alt)

\* No piece is lost but those that are excused.
Kept(m, o, xs, n) ==
  /\ xs \subseteq 1..n
  /\ \A p \in 1..n : \/ p \in xs \/ Holds(o, p) \/ Holds(m.alt, p) \/ Holds(m.code, p)
                     \/ m.inTable /\ InCells(m, p)

LEMMA EmptyHow ==
  /\ <<>> \in Seq(Nat) /\ Len(<<>>) = 0 /\ DOMAIN <<>> = {} /\ Solid(<<>>) /\ Rising(<<>>)
  /\ \A p : ~Holds(<<>>, p)
  /\ \A n : Fine(<<>>, n)
  /\ \A s : Ahead(s, <<>>) /\ Ahead(<<>>, s)
<1>1. <<>> \in Seq(Nat) /\ Len(<<>>) = 0 /\ DOMAIN <<>> = {}
  BY EmptySeq
<1> QED BY <1>1 DEF Solid, Rising, Holds, Fine, UpTo, Ahead

LEMMA SingleHow ==
  ASSUME NEW x \in Nat
  PROVE  /\ <<x>> \in Seq(Nat) /\ Len(<<x>>) = 1 /\ Rising(<<x>>)
         /\ \A p : Holds(<<x>>, p) <=> p = x /\ p # Filler
<1> DEFINE t == <<x>>
<1>1. t \in Seq(Nat) /\ Len(t) = 1 /\ t[1] = x /\ DOMAIN t = 1..1
  OBVIOUS
<1> HIDE DEF t
<1>2. Rising(t)
  BY <1>1 DEF Rising
<1>3. \A p : Holds(t, p) <=> p = x /\ p # Filler
  BY <1>1 DEF Holds
<1> QED BY <1>1, <1>2, <1>3 DEF t

\* What is held is a number.
LEMMA HeldNat ==
  ASSUME NEW s \in Seq(Nat), NEW p, Holds(s, p)
  PROVE  p \in Nat /\ p > 0
<1>1. DOMAIN s = 1..Len(s) /\ \A k \in 1..Len(s) : s[k] \in Nat
  BY LenProperties
<1> QED BY <1>1 DEF Holds, Filler

LEMMA SolidHow ==
  ASSUME NEW s \in Seq(Nat), NEW t \in Seq(Nat), Solid(s), Solid(t)
  PROVE  Solid(s \o t)
<1>1. /\ Len(s \o t) = Len(s) + Len(t) /\ s \o t \in Seq(Nat)
      /\ \A i \in 1..Len(s) : (s \o t)[i] = s[i]
      /\ \A i \in 1..Len(t) : (s \o t)[Len(s) + i] = t[i]
  BY ConcatProperties
<1>2. /\ DOMAIN s = 1..Len(s) /\ DOMAIN t = 1..Len(t) /\ DOMAIN (s \o t) = 1..Len(s \o t)
      /\ Len(s) \in Nat /\ Len(t) \in Nat
  BY <1>1, LenProperties
<1> SUFFICES ASSUME NEW k \in 1..Len(s \o t) PROVE (s \o t)[k] # Filler
  BY <1>2 DEF Solid
<1>3. CASE k <= Len(s)
  BY <1>1, <1>2, <1>3 DEF Solid
<1>4. CASE ~(k <= Len(s))
  <2>1. k - Len(s) \in 1..Len(t) /\ Len(s) + (k - Len(s)) = k
    BY <1>1, <1>2, <1>4
  <2> QED BY <1>1, <1>2, <2>1 DEF Solid
<1> QED BY <1>3, <1>4

\* What was behind is behind more, and a piece put behind.
LEMMA FineMore ==
  ASSUME NEW s, NEW n \in Nat, Fine(s, n)
  PROVE  Fine(s, n + 1)
<1> SUFFICES ASSUME NEW p, Holds(s, p) PROVE p <= n + 1
  BY DEF Fine, UpTo
<1>1. p \in Nat /\ p <= n
  BY HeldNat DEF Fine, UpTo
<1> QED BY <1>1

LEMMA FineConcat ==
  ASSUME NEW s, NEW t, NEW n, Fine(s, n), Fine(t, n), Ahead(s, t)
  PROVE  Fine(s \o t, n)
<1>1. /\ s \o t \in Seq(Nat) /\ Rising(s \o t)
      /\ \A p : Holds(s \o t, p) <=> Holds(s, p) \/ Holds(t, p)
  BY ConcatHow DEF Fine
<1> QED BY <1>1 DEF Fine, UpTo

LEMMA FineAppend ==
  ASSUME NEW s, NEW n \in Nat, Fine(s, n)
  PROVE  /\ Fine(Append(s, n + 1), n + 1) /\ (Solid(s) => Solid(Append(s, n + 1)))
         /\ \A p : Holds(Append(s, n + 1), p) <=> Holds(s, p) \/ p = n + 1
         /\ Fine(Append(s, Filler), n) /\ \A p : Holds(Append(s, Filler), p) <=> Holds(s, p)
<1>1. s \in Seq(Nat) /\ Rising(s) /\ UpTo(s, n)
  BY DEF Fine
<1>2. n + 1 \in Nat /\ n + 1 # Filler /\ Filler \in Nat
  BY DEF Filler
<1>3. \A p : Holds(s, p) => p < n + 1 /\ p <= n + 1
  <2> SUFFICES ASSUME NEW p, Holds(s, p) PROVE p < n + 1 /\ p <= n + 1
    OBVIOUS
  <2>1. p \in Nat /\ p <= n
    BY <1>1, HeldNat DEF UpTo
  <2> QED BY <2>1
<1>4. /\ Append(s, n + 1) \in Seq(Nat) /\ Rising(Append(s, n + 1))
      /\ \A p : Holds(Append(s, n + 1), p) <=> Holds(s, p) \/ (p = n + 1 /\ p # Filler)
  BY <1>1, <1>2, <1>3, AppendHow
<1>5. UpTo(Append(s, n + 1), n + 1)
  BY <1>2, <1>3, <1>4 DEF UpTo
<1>6. Solid(s) => Solid(Append(s, n + 1))
  <2>1. Append(s, n + 1) = s \o <<n + 1>>
    BY <1>1, <1>2
  <2>2. <<n + 1>> \in Seq(Nat) /\ Solid(<<n + 1>>)
    <3> DEFINE t == <<n + 1>>
    <3>1. t \in Seq(Nat) /\ t[1] = n + 1 /\ DOMAIN t = 1..1
      BY <1>2
    <3> HIDE DEF t
    <3>2. Solid(t)
      BY <1>2, <3>1 DEF Solid
    <3> QED BY <3>1, <3>2 DEF t
  <2> QED BY <1>1, <2>1, <2>2, SolidHow
<1>7. /\ Append(s, Filler) \in Seq(Nat)
      /\ \A p : Holds(Append(s, Filler), p) <=> Holds(s, p) \/ (p = Filler /\ p # Filler)
  BY <1>1, <1>2, AppendHow
<1>8. Rising(Append(s, Filler))
  <2> DEFINE c == Append(s, Filler)
  <2>1. Len(c) = Len(s) + 1 /\ c[Len(s) + 1] = Filler /\ \A i \in 1..Len(s) : c[i] = s[i]
    BY <1>1, <1>2, AppendProperties
  <2>2. DOMAIN c = 1..Len(c) /\ DOMAIN s = 1..Len(s) /\ Len(s) \in Nat
    BY <1>1, <1>7, LenProperties
  <2> HIDE DEF c
  <2>3. \A k \in DOMAIN c : c[k] # Filler => k \in DOMAIN s /\ c[k] = s[k]
    BY <2>1, <2>2
  <2>4. \A j, k \in DOMAIN c : j < k /\ c[j] # Filler /\ c[k] # Filler => c[j] < c[k]
    BY <1>1, <2>3 DEF Rising
  <2> QED BY <2>4 DEF Rising, c
<1>9. UpTo(Append(s, Filler), n)
  BY <1>1, <1>7 DEF UpTo
<1> QED BY <1>2, <1>4, <1>5, <1>6, <1>7, <1>8, <1>9 DEF Fine

\* What a cell holds once more has been put to it: all it held, and of the rest
\* what there is room for.
LEMMA CellHow ==
  ASSUME NEW s \in Seq(Nat), NEW t \in Seq(Nat), Len(s) <= CellMax
  PROVE  LET c == SubSeq(s \o t, 1, AtMost(CellMax, Len(s) + Len(t)))
         IN  /\ c \in Seq(Nat) /\ Len(c) <= CellMax
             /\ \A p : Holds(c, p) => Holds(s, p) \/ Holds(t, p)
             /\ \A p : Holds(s, p) => Holds(c, p)
             /\ Rising(s) /\ Rising(t) /\ Ahead(s, t) => Rising(c)
             /\ Len(s) + Len(t) <= CellMax => c = s \o t
<1>1. /\ s \o t \in Seq(Nat) /\ Len(s \o t) = Len(s) + Len(t)
      /\ \A p : Holds(s \o t, p) <=> Holds(s, p) \/ Holds(t, p)
      /\ Rising(s) /\ Rising(t) /\ Ahead(s, t) => Rising(s \o t)
  BY ConcatHow
<1>2. \A i \in 1..Len(s) : (s \o t)[i] = s[i]
  BY ConcatProperties
<1>3. Len(s) \in Nat /\ Len(t) \in Nat /\ CellMax \in Nat
  BY LenProperties, MarkdownAssumption DEF MarkdownAssumption
<1>4. PICK a : a = s \o t
  OBVIOUS
<1>5. PICK c : c = SubSeq(a, 1, AtMost(CellMax, Len(a)))
  OBVIOUS
<1>6. /\ c \in Seq(Nat) /\ Len(c) <= CellMax
      /\ \A p : Holds(c, p) => Holds(a, p)
      /\ Rising(a) => Rising(c)
      /\ Len(a) <= CellMax => c = a
  <2>1. a \in Seq(Nat) /\ CellMax \in Int /\ CellMax >= 0
    BY <1>1, <1>3, <1>4
  <2>2. LET d == SubSeq(a, 1, AtMost(CellMax, Len(a)))
        IN  /\ d \in Seq(Nat) /\ Len(d) <= Len(a) /\ (CellMax >= 0 => Len(d) <= CellMax)
            /\ \A p : Holds(d, p) => Holds(a, p)
            /\ Rising(a) => Rising(d)
            /\ Len(a) <= CellMax => d = a
    BY <2>1, CutHow
  <2> QED BY <1>5, <2>1, <2>2
<1>7. \A p : Holds(s, p) => Holds(c, p)
  <2>1. PICK k : k = AtMost(CellMax, Len(a))
    OBVIOUS
  <2>2. k \in Int /\ k >= Len(s) /\ k <= Len(a)
    BY <1>1, <1>3, <1>4, <2>1 DEF AtMost
  <2>3. Len(a) \in Nat /\ \A i \in 1..Len(a) : a[i] \in Nat
    BY <1>1, <1>4, LenProperties
  <2>4. /\ Len(c) = IF 1 <= k THEN k - 1 + 1 ELSE 0
        /\ \A i \in 1..(k - 1 + 1) : c[i] = a[1 + i - 1]
    <3>1. 1 \in Int /\ \A i \in 1..k : a[i] \in Nat
      BY <2>2, <2>3
    <3> QED BY <1>5, <2>1, <2>2, <3>1, SubSeqProperties
  <2>5. k - 1 + 1 = k /\ \A i \in 1..k : 1 + i - 1 = i
    BY <2>2
  <2>6. \A i \in 1..Len(s) : i \in 1..Len(c) /\ c[i] = a[i]
    <3>1. \A i \in 1..Len(s) : i \in 1..k /\ 1 <= k
      BY <1>3, <2>2
    <3> QED BY <2>4, <2>5, <3>1
  <2>7. DOMAIN s = 1..Len(s) /\ DOMAIN c = 1..Len(c)
    BY <1>6, LenProperties
  <2> QED BY <1>2, <1>4, <2>6, <2>7 DEF Holds
<1> QED BY <1>1, <1>4, <1>5, <1>6, <1>7

------------------------------------------------------------------------------
(***************************************************************************)
(* What a call does to the renderer, as far as text depends on it.         *)
(***************************************************************************)
Alike(m, w) ==
  /\ w.mode = m.mode /\ w.alt = m.alt /\ w.inCode = m.inCode /\ w.code = m.code
  /\ w.inTable = m.inTable /\ w.inCell = m.inCell /\ w.cells = m.cells
  /\ w.row = m.row /\ w.cell = m.cell /\ w.cols = m.cols

\* More is put to the cell the renderer is at.
Put(m, w, s) ==
  /\ w.inCode = m.inCode /\ w.code = m.code /\ w.inTable = m.inTable /\ w.inCell = m.inCell
  /\ w.row = m.row /\ w.cell = m.cell /\ w.cols = m.cols
  /\ w.cells = IF CellTaken(m)
                 THEN [m.cells EXCEPT ![m.row + 1][m.cell + 1] =
                         SubSeq(@ \o s, 1, AtMost(CellMax, Len(@) + Len(s)))]
                 ELSE m.cells

LEMMA LinesAlike ==
  ASSUME NEW m, Counting(m)
  PROVE  /\ Alike(m, Newline(m)) /\ Alike(m, EnsureLineStart(m)) /\ Alike(m, MaybeBlockGap(m))
         /\ Alike(m, StartLine(m)) /\ \A type : Alike(m, Drawn(m, type))
<1>1. ASSUME NEW w, Counting(w)
      PROVE  Alike(w, Newline(w)) /\ Alike(w, EnsureLineStart(w)) /\ Alike(w, MaybeBlockGap(w))
  BY <1>1, Fields DEF Alike, Newline, EnsureLineStart, MaybeBlockGap
<1>2. Alike(m, StartLine(m)) /\ DOMAIN StartLine(m) = DOMAIN m
  BY Fields DEF Alike, StartLine
<1>3. Alike(m, m)
  BY DEF Alike
<1>4. Alike(m, Newline(StartLine(m)))
  <2> DEFINE w == StartLine(m)
  <2>1. Alike(m, w) /\ DOMAIN w = DOMAIN m
    BY <1>2
  <2> HIDE DEF w
  <2>2. Alike(w, Newline(w))
    BY <2>1, Fields DEF Alike, Newline
  <2> QED BY <2>1, <2>2 DEF Alike, w
<1> QED BY <1>1, <1>2, <1>3, <1>4 DEF Drawn

LEMMA TablePut ==
  ASSUME NEW m, Counting(m), NEW s
  PROVE  LET w == TableAppend(m, s)
         IN  /\ Put(m, w, s) /\ w.mode = m.mode /\ w.alt = m.alt
             /\ LET x == [w EXCEPT !.mode = "none"]
                IN  Put(m, x, s) /\ x.mode = "none" /\ x.alt = m.alt
             /\ LET x == [w EXCEPT !.mode = "none", !.alt = <<>>]
                IN  Put(m, x, s) /\ x.mode = "none" /\ x.alt = <<>>
<1> DEFINE w == TableAppend(m, s)
<1>1. DOMAIN w = DOMAIN m /\ Put(m, w, s) /\ w.mode = m.mode /\ w.alt = m.alt
  BY Fields DEF TableAppend, Put
<1> HIDE DEF w
<1>2. LET x == [w EXCEPT !.mode = "none"]
      IN  Put(m, x, s) /\ x.mode = "none" /\ x.alt = m.alt
  BY <1>1, Fields DEF Put
<1>3. LET x == [w EXCEPT !.mode = "none", !.alt = <<>>]
      IN  Put(m, x, s) /\ x.mode = "none" /\ x.alt = <<>>
  BY <1>1, Fields DEF Put
<1> QED BY <1>1, <1>2, <1>3 DEF w

\* A block is entered, or left.
BlockTextEntered(m, w, type) ==
  /\ w.mode = m.mode /\ w.alt = m.alt
  /\ type = "CODE" => w.inCode = TRUE /\ w.code = <<>>
  /\ type # "CODE" => w.inCode = m.inCode /\ w.code = m.code
  /\ type \in Cells => w.inCell = TRUE
  /\ type \notin Cells => w.inCell = m.inCell
  /\ type = "TABLE" => w.inTable = TRUE /\ w.cells = NoCells /\ w.row = 0 /\ w.cols = 0
  /\ type # "TABLE" =>
       w.inTable = m.inTable /\ w.cells = m.cells /\ w.row = m.row /\ w.cols = m.cols
  /\ type \in {"TABLE", "TR"} => w.cell = 0
  /\ type \notin {"TABLE", "TR"} => w.cell = m.cell

BlockTextLeft(m, w, type) ==
  /\ w.mode = m.mode /\ w.alt = m.alt /\ w.cells = m.cells
  /\ type = "CODE" => w.inCode = FALSE /\ w.code = <<>>
  /\ type # "CODE" => w.inCode = m.inCode /\ w.code = m.code
  /\ type = "TABLE" => w.inTable = FALSE
  /\ type # "TABLE" => w.inTable = m.inTable
  /\ type \in Cells \cup {"TABLE"} => w.inCell = FALSE
  /\ type \notin Cells \cup {"TABLE"} => w.inCell = m.inCell
  /\ type \in Cells => w.cell = AtMost(m.cell + 1, MaxCols)
  /\ type \notin Cells => w.cell = m.cell
  /\ type = "TR" /\ m.row < MaxRows => w.row = m.row + 1 /\ w.cols = AtLeast(m.cols, m.cell)
  /\ ~(type = "TR" /\ m.row < MaxRows) => w.row = m.row /\ w.cols = m.cols

LEMMA BlockEnteredText ==
  ASSUME NEW m, Counting(m), NEW type, NEW start
  PROVE  BlockTextEntered(m, BlockEntered(m, type, start), type)
<1> DEFINE g == MaybeBlockGap(m)
           w == BlockEntered(m, type, start)
<1>1. Alike(m, g) /\ DOMAIN g = DOMAIN m
  BY LinesAlike, LinesLike DEF Like
<1>2. CASE type \in {"QUOTE", "H", "CODE", "TABLE", "P", "HR"}
  <2>1. /\ type = "QUOTE" => w = [g EXCEPT !.quoteDepth = @ + 1]
        /\ type = "H" => w = [g EXCEPT !.atStart = FALSE]
        /\ type = "HR" => w = [Newline(g) EXCEPT !.gap = TRUE]
        /\ type = "CODE" => w = [g EXCEPT !.inCode = TRUE, !.code = <<>>]
        /\ type = "TABLE" => w = [g EXCEPT !.cells = NoCells, !.inTable = TRUE, !.row = 0,
                                          !.cell = 0, !.cols = 0]
        /\ type = "P" => w = g
    BY DEF BlockEntered, Lists, Cells
  <2> HIDE DEF w, g
  <2>2. CASE type \in {"QUOTE", "H", "P"}
    <3>1. Alike(g, w)
      BY <1>1, <2>1, <2>2, Fields DEF Alike
    <3> QED BY <1>1, <2>2, <3>1 DEF Alike, Cells, w, BlockTextEntered
  <2>3. CASE type = "HR"
    <3>1. Alike(g, w)
      <4>1. w = [Newline(g) EXCEPT !.gap = TRUE]
        BY <2>1, <2>3
      <4> QED BY <1>1, <4>1, Fields DEF Alike, Newline
    <3> QED BY <1>1, <2>3, <3>1 DEF Alike, Cells, w, BlockTextEntered
  <2>4. CASE type = "CODE"
    <3>1. /\ w.mode = g.mode /\ w.alt = g.alt /\ w.inCode = TRUE /\ w.code = <<>>
          /\ w.inTable = g.inTable /\ w.inCell = g.inCell /\ w.cells = g.cells
          /\ w.row = g.row /\ w.cell = g.cell /\ w.cols = g.cols
      <4>1. w = [g EXCEPT !.inCode = TRUE, !.code = <<>>]
        BY <2>1, <2>4
      <4> QED BY <1>1, <4>1, Fields
    <3> QED BY <1>1, <2>4, <3>1 DEF Alike, Cells, w, BlockTextEntered
  <2>5. CASE type = "TABLE"
    <3>1. w = [g EXCEPT !.cells = NoCells, !.inTable = TRUE, !.row = 0, !.cell = 0, !.cols = 0]
      BY <2>1, <2>5
    <3>2. /\ w.mode = g.mode /\ w.alt = g.alt /\ w.inCode = g.inCode /\ w.code = g.code
          /\ w.inTable = TRUE /\ w.inCell = g.inCell /\ w.cells = NoCells
          /\ w.row = 0 /\ w.cell = 0 /\ w.cols = 0
      BY <1>1, <3>1, Fields
    <3> QED BY <1>1, <2>5, <3>2 DEF Alike, Cells, w, BlockTextEntered
  <2> QED BY <1>2, <2>2, <2>3, <2>4, <2>5
<1>3. CASE type \in Lists
  <2>1. w = ListEntered(g, type = "OL", start)
    BY <1>3 DEF BlockEntered, Lists, Cells
  <2> HIDE DEF w, g
  <2>2. Alike(g, w)
    BY <1>1, <2>1, Fields DEF ListEntered, Alike
  <2> QED BY <1>1, <1>3, <2>2 DEF Alike, Lists, Cells, w, BlockTextEntered
<1>4. CASE type \notin Lists \cup {"QUOTE", "H", "CODE", "TABLE", "P", "HR"}
  BY <1>4, Fields DEF BlockEntered, Lists, Cells, EnsureLineStart, Newline, RowEntered, BlockTextEntered
<1> QED BY <1>2, <1>3, <1>4

LEMMA BlockLeftText ==
  ASSUME NEW m, Counting(m), NEW type
  PROVE  BlockTextLeft(m, BlockLeft(m, type), type)
<1> DEFINE w == BlockLeft(m, type)
           d == Drawn(m, type)
<1>1. CASE type \in {"CODE", "TABLE"}
  <2>1. w = IF type = "CODE" THEN [d EXCEPT !.code = <<>>, !.inCode = FALSE, !.gap = TRUE]
            ELSE [d EXCEPT !.inTable = FALSE, !.inHead = FALSE, !.inCell = FALSE, !.gap = TRUE]
    BY <1>1 DEF BlockLeft, Lists, Cells
  <2>2. Alike(m, d) /\ DOMAIN d = DOMAIN m
    BY LinesAlike, DrawnHow DEF Like, Gave
  <2> HIDE DEF w, d
  <2> QED BY <1>1, <2>1, <2>2, Fields DEF Alike, Cells, w, BlockTextLeft
<1>2. CASE type = "TR"
  BY <1>2, Fields DEF BlockLeft, Lists, Cells, BlockTextLeft
<1>3. CASE type \in Cells
  BY <1>3, Fields DEF BlockLeft, Lists, Cells, BlockTextLeft
<1>4. CASE type \notin {"CODE", "TABLE", "TR"} \cup Cells
  BY <1>4, Fields DEF BlockLeft, Lists, Cells, EnsureLineStart, Newline, BlockTextLeft
<1> QED BY <1>1, <1>2, <1>3, <1>4

\* All but the mode and the alternative text is as it was.
Beside(m, w) ==
  /\ w.inCode = m.inCode /\ w.code = m.code /\ w.inTable = m.inTable /\ w.inCell = m.inCell
  /\ w.cells = m.cells /\ w.row = m.row /\ w.cell = m.cell /\ w.cols = m.cols

LEMMA SpanEnteredText ==
  ASSUME NEW m, Counting(m), NEW type
  PROVE  LET w == SpanEntered(m, type)
         IN  /\ type = "A" => Beside(m, w) /\ w.mode = "link" /\ w.alt = m.alt
             /\ type = "IMG" => Beside(m, w) /\ w.mode = "alt" /\ w.alt = <<>>
             /\ type \notin {"A", "IMG"} =>
                  /\ w.mode = m.mode /\ w.alt = m.alt
                  /\ Beside(m, w) \/ (m.inTable /\ m.inCell /\ Put(m, w, <<Filler>>))
<1> DEFINE w == SpanEntered(m, type)
<1>1. CASE type = "A"
  <2>1. w = [m EXCEPT !.mode = "link"]
    BY <1>1 DEF SpanEntered
  <2> HIDE DEF w
  <2> QED BY <1>1, <2>1, Fields DEF Beside, w
<1>2. CASE type = "IMG"
  <2>1. w = [m EXCEPT !.mode = "alt", !.alt = <<>>]
    BY <1>2 DEF SpanEntered
  <2> HIDE DEF w
  <2>2. Beside(m, w) /\ w.mode = "alt" /\ w.alt = <<>>
    BY <2>1, Fields DEF Beside
  <2> QED BY <1>2, <2>2 DEF w
<1>3. CASE type = "CODESPAN" /\ m.inTable /\ m.inCell
  <2>1. w = TableAppend(m, <<Filler>>)
    BY <1>3 DEF SpanEntered
  <2> HIDE DEF w
  <2>2. Put(m, w, <<Filler>>) /\ w.mode = m.mode /\ w.alt = m.alt
    BY <2>1, TablePut
  <2> QED BY <1>3, <2>2 DEF w
<1>4. CASE type \notin {"A", "IMG"} /\ ~(type = "CODESPAN" /\ m.inTable /\ m.inCell)
  <2>1. w = m
    BY <1>4 DEF SpanEntered
  <2> QED BY <1>4, <2>1 DEF Beside
<1> QED BY <1>1, <1>2, <1>3, <1>4

LEMMA SpanLeftText ==
  ASSUME NEW m, Counting(m), NEW type
  PROVE  LET w == SpanLeft(m, type)
             inCell == m.inTable /\ m.inCell
         IN  /\ type = "A" => w.mode = "none" /\ w.alt = m.alt
             /\ type = "IMG" => w.mode = "none" /\ w.alt = <<>>
             /\ type \notin {"A", "IMG"} => w.mode = m.mode /\ w.alt = m.alt
             /\ ~inCell => Beside(m, w)
             /\ inCell => IF type = "IMG" THEN Put(m, w, <<Filler>> \o m.alt)
                          ELSE Beside(m, w) \/ Put(m, w, <<Filler>>)
<1> DEFINE w == SpanLeft(m, type)
           inCell == m.inTable /\ m.inCell
<1>1. CASE type = "A" /\ inCell
  <2>1. w = [TableAppend(m, <<Filler>>) EXCEPT !.mode = "none"]
    BY <1>1 DEF SpanLeft
  <2> HIDE DEF w
  <2>2. Put(m, w, <<Filler>>) /\ w.mode = "none" /\ w.alt = m.alt
    BY <2>1, TablePut
  <2> QED BY <1>1, <2>2 DEF w
<1>2. CASE type = "IMG" /\ inCell
  <2>1. PICK s : s = <<Filler>> \o m.alt
    OBVIOUS
  <2>2. w = [TableAppend(m, s) EXCEPT !.mode = "none", !.alt = <<>>]
    BY <1>2, <2>1 DEF SpanLeft
  <2> HIDE DEF w
  <2>3. Put(m, w, s) /\ w.mode = "none" /\ w.alt = <<>>
    BY <2>2, TablePut
  <2> QED BY <1>2, <2>1, <2>3 DEF w
<1>3. CASE type = "CODESPAN" /\ inCell
  <2>1. w = TableAppend(m, <<Filler>>)
    BY <1>3 DEF SpanLeft
  <2> HIDE DEF w
  <2>2. Put(m, w, <<Filler>>) /\ w.mode = m.mode /\ w.alt = m.alt
    BY <2>1, TablePut
  <2> QED BY <1>3, <2>2 DEF w
<1>4. CASE type = "A" /\ ~inCell
  <2>1. w = [m EXCEPT !.mode = "none"]
    BY <1>4 DEF SpanLeft
  <2> HIDE DEF w
  <2>2. Beside(m, w) /\ w.mode = "none" /\ w.alt = m.alt
    BY <2>1, Fields DEF Beside
  <2> QED BY <1>4, <2>2 DEF w
<1>5. CASE type = "IMG" /\ ~inCell
  <2> DEFINE g == StartLine(m)
  <2>1. w = [g EXCEPT !.mode = "none", !.alt = <<>>]
    BY <1>5 DEF SpanLeft
  <2>2. Alike(m, g) /\ DOMAIN g = DOMAIN m
    BY LinesAlike, StartLineHow DEF Like, Gave
  <2> HIDE DEF w, g
  <2>3. Beside(m, w) /\ w.mode = "none" /\ w.alt = <<>>
    BY <2>1, <2>2, Fields DEF Beside, Alike
  <2> QED BY <1>5, <2>3 DEF w
<1>6. CASE type \notin {"A", "IMG"} /\ ~(type = "CODESPAN" /\ inCell)
  <2>1. w = m
    BY <1>6 DEF SpanLeft
  <2> QED BY <1>6, <2>1 DEF Beside
<1> QED BY <1>1, <1>2, <1>3, <1>4, <1>5, <1>6

LEMMA PrintTextText ==
  ASSUME NEW m, Counting(m), NEW p
  PROVE  LET w == PrintText(m, p)
         IN  /\ w.mode = m.mode
             /\ w.alt = (IF Gathered(m) = "alt" /\ Len(m.alt) < AltMax THEN Append(m.alt, p) ELSE m.alt)
             /\ w.code = (IF Gathered(m) = "code" /\ Len(m.code) < CodeMax
                            THEN Append(m.code, p) ELSE m.code)
             /\ Gathered(m) = "cell" => Put(m, w, <<p>>)
             /\ Gathered(m) # "cell" => w.cells = m.cells
             /\ w.inCode = m.inCode /\ w.inTable = m.inTable /\ w.inCell = m.inCell
             /\ w.row = m.row /\ w.cell = m.cell /\ w.cols = m.cols
<1> DEFINE w == PrintText(m, p)
<1>1. Gathered(m) \in {"alt", "code", "cell", "line"}
  BY DEF Gathered
<1>2. CASE Gathered(m) = "alt"
  <2>1. w = IF Len(m.alt) < AltMax THEN [m EXCEPT !.alt = Append(@, p)] ELSE m
    BY <1>2 DEF PrintText
  <2> HIDE DEF w
  <2>2. /\ w.mode = m.mode /\ w.alt = IF Len(m.alt) < AltMax THEN Append(m.alt, p) ELSE m.alt
        /\ w.code = m.code /\ w.cells = m.cells
        /\ w.inCode = m.inCode /\ w.inTable = m.inTable /\ w.inCell = m.inCell
        /\ w.row = m.row /\ w.cell = m.cell /\ w.cols = m.cols
    BY <2>1, Fields
  <2> QED BY <1>2, <2>2 DEF w
<1>3. CASE Gathered(m) = "code"
  <2>1. w = IF Len(m.code) < CodeMax THEN [m EXCEPT !.code = Append(@, p)] ELSE m
    BY <1>3 DEF PrintText
  <2> HIDE DEF w
  <2>2. /\ w.mode = m.mode /\ w.code = IF Len(m.code) < CodeMax THEN Append(m.code, p) ELSE m.code
        /\ w.alt = m.alt /\ w.cells = m.cells
        /\ w.inCode = m.inCode /\ w.inTable = m.inTable /\ w.inCell = m.inCell
        /\ w.row = m.row /\ w.cell = m.cell /\ w.cols = m.cols
    BY <2>1, Fields
  <2> QED BY <1>3, <2>2 DEF w
<1>4. CASE Gathered(m) = "cell"
  <2>1. w = TableAppend(m, <<p>>)
    BY <1>4 DEF PrintText
  <2> HIDE DEF w
  <2>2. Put(m, w, <<p>>) /\ w.mode = m.mode /\ w.alt = m.alt
    BY <2>1, TablePut
  <2>3. /\ w.inCode = m.inCode /\ w.code = m.code /\ w.inTable = m.inTable /\ w.inCell = m.inCell
        /\ w.row = m.row /\ w.cell = m.cell /\ w.cols = m.cols
    BY <2>2 DEF Put
  <2> QED BY <1>4, <2>2, <2>3 DEF w
<1>5. CASE Gathered(m) = "line"
  <2>1. w = StartLine(m)
    BY <1>5 DEF PrintText
  <2> HIDE DEF w
  <2>2. Alike(m, w)
    BY <2>1, LinesAlike
  <2> QED BY <1>5, <2>2 DEF w, Alike
<1> QED BY <1>1, <1>2, <1>3, <1>4, <1>5

------------------------------------------------------------------------------
(***************************************************************************)
(* What a call does to the pieces that are gathered.                       *)
(***************************************************************************)
Has(op, types) == \E i \in 1..Len(op) : op[i].type \in types

\* A cell holds something only where the table has been filled so far.
Filled(op, m) ==
  /\ m.row \in 0..MaxRows /\ m.cell \in 0..MaxCols /\ m.cols \in 0..MaxCols
  /\ m.inTable => \A i \in 1..MaxRows, c \in 1..MaxCols : \A p : Holds(m.cells[i][c], p) =>
       /\ \/ i <= m.row
          \/ /\ Has(op, {"TR"}) /\ i = m.row + 1
             /\ c <= m.cell \/ (Has(op, Cells) /\ c = m.cell + 1)
       /\ i <= m.row => c <= m.cols

LEMMA OrderSame ==
  ASSUME NEW m, NEW w, NEW o, NEW n, InOrder(m, o, n),
         w.alt = m.alt, w.code = m.code, w.mode = "alt" \/ w.alt = <<>>,
         w.inCode \/ w.code = <<>>, w.inTable => m.inTable /\ w.cells = m.cells
  PROVE  InOrder(w, o, n)
  BY DEF InOrder, Sorted

LEMMA KeptSame ==
  ASSUME NEW m, NEW w, NEW o, NEW xs, NEW n, Kept(m, o, xs, n),
         w.alt = m.alt, w.code = m.code, m.inTable => w.inTable /\ w.cells = m.cells
  PROVE  Kept(w, o, xs, n)
  BY DEF Kept, InCells

\* Where more is put, and what is there then.
LEMMA PutHow ==
  ASSUME NEW m, NEW w, NEW s \in Seq(Nat), Put(m, w, s),
         m.cells \in Tables, m.row \in 0..MaxRows, m.cell \in 0..MaxCols,
         \A i \in 1..MaxRows, c \in 1..MaxCols : Len(m.cells[i][c]) <= CellMax
  PROVE  /\ w.cells \in Tables
         /\ \A i \in 1..MaxRows, c \in 1..MaxCols :
              LET old == m.cells[i][c]
                  new == w.cells[i][c]
              IN  /\ Len(new) <= CellMax
                  /\ \A p : Holds(new, p) =>
                       Holds(old, p) \/ (Holds(s, p) /\ i = m.row + 1 /\ c = m.cell + 1)
                  /\ \A p : Holds(old, p) => Holds(new, p)
                  /\ Rising(old) /\ Rising(s) /\ Ahead(old, s) => Rising(new)
         /\ CellTaken(m) /\ Len(m.cells[m.row + 1][m.cell + 1]) + Len(s) <= CellMax =>
              \A p : Holds(s, p) => Holds(w.cells[m.row + 1][m.cell + 1], p)
<1>1. MaxRows \in Nat /\ MaxCols \in Nat
  BY MarkdownAssumption DEF MarkdownAssumption
<1>2. CASE ~CellTaken(m)
  <2>1. w.cells = m.cells
    BY <1>2 DEF Put
  <2> QED BY <1>2, <2>1
<1>3. CASE CellTaken(m)
  <2>1. PICK j : j = m.row + 1
    OBVIOUS
  <2>2. PICK d : d = m.cell + 1
    OBVIOUS
  <2>3. j \in 1..MaxRows /\ d \in 1..MaxCols
    BY <1>1, <1>3, <2>1, <2>2 DEF CellTaken
  <2>4. PICK old : old = m.cells[j][d]
    OBVIOUS
  <2>5. old \in Seq(Nat) /\ Len(old) <= CellMax
    BY <2>3, <2>4 DEF Tables
  <2>6. PICK new : new = SubSeq(old \o s, 1, AtMost(CellMax, Len(old) + Len(s)))
    OBVIOUS
  <2>7. /\ new \in Seq(Nat) /\ Len(new) <= CellMax
        /\ \A p : Holds(new, p) => Holds(old, p) \/ Holds(s, p)
        /\ \A p : Holds(old, p) => Holds(new, p)
        /\ Rising(old) /\ Rising(s) /\ Ahead(old, s) => Rising(new)
        /\ Len(old) + Len(s) <= CellMax => new = old \o s
    BY <2>5, <2>6, CellHow
  <2>8. w.cells = [m.cells EXCEPT ![j][d] = new]
    BY <1>3, <2>1, <2>2, <2>4, <2>6 DEF Put
  <2>9. \A i \in 1..MaxRows, c \in 1..MaxCols :
          w.cells[i][c] = IF i = j /\ c = d THEN new ELSE m.cells[i][c]
    BY <2>3, <2>8 DEF Tables
  <2>10. w.cells \in Tables
    <3>1. m.cells[j] \in [1..MaxCols -> Seq(Nat)]
      BY <2>3 DEF Tables
    <3>2. [m.cells[j] EXCEPT ![d] = new] \in [1..MaxCols -> Seq(Nat)]
      BY <2>7, <3>1
    <3>3. w.cells = [m.cells EXCEPT ![j] = [m.cells[j] EXCEPT ![d] = new]]
      BY <2>3, <2>8 DEF Tables
    <3> QED BY <3>2, <3>3 DEF Tables
  <2>11. ASSUME NEW i \in 1..MaxRows, NEW c \in 1..MaxCols
         PROVE  /\ Len(w.cells[i][c]) <= CellMax
                /\ \A p : Holds(w.cells[i][c], p) =>
                     Holds(m.cells[i][c], p) \/ (Holds(s, p) /\ i = m.row + 1 /\ c = m.cell + 1)
                /\ \A p : Holds(m.cells[i][c], p) => Holds(w.cells[i][c], p)
                /\ Rising(m.cells[i][c]) /\ Rising(s) /\ Ahead(m.cells[i][c], s)
                     => Rising(w.cells[i][c])
    <3>1. CASE i = j /\ c = d
      <4>1. w.cells[i][c] = new /\ m.cells[i][c] = old
        BY <2>4, <2>9, <3>1
      <4> QED BY <2>1, <2>2, <2>7, <3>1, <4>1
    <3>2. CASE ~(i = j /\ c = d)
      <4>1. w.cells[i][c] = m.cells[i][c]
        BY <2>9, <3>2
      <4> QED BY <4>1
    <3> QED BY <3>1, <3>2
  <2>12. Len(old) + Len(s) <= CellMax => \A p : Holds(s, p) => Holds(w.cells[j][d], p)
    <3> SUFFICES ASSUME Len(old) + Len(s) <= CellMax, NEW p, Holds(s, p)
                 PROVE  Holds(w.cells[j][d], p)
      OBVIOUS
    <3>1. w.cells[j][d] = old \o s
      BY <2>3, <2>7, <2>9
    <3> QED BY <2>5, <3>1, ConcatHow
  <2> QED BY <2>1, <2>2, <2>4, <2>10, <2>11, <2>12
<1> QED BY <1>2, <1>3

\* What is put to a cell stays behind what is before it.
LEMMA PutOrder ==
  ASSUME NEW op, NEW m, NEW w, NEW o, NEW n, NEW s \in Seq(Nat),
         InOrder(m, o, n), Filled(op, m), m.inTable, Has(op, {"TR"}), Has(op, Cells), Put(m, w, s),
         Rising(s), UpTo(s, n), Ahead(o, s),
         \A i \in 1..MaxRows, c \in 1..MaxCols : Ahead(m.cells[i][c], s),
         w.alt \in {m.alt, <<>>}, Ahead(s, w.alt), w.mode = "alt" \/ w.alt = <<>>
  PROVE  /\ InOrder(w, o, n) /\ Filled(op, w) /\ \A p : InCells(m, p) => InCells(w, p)
         /\ CellTaken(m) /\ Len(m.cells[m.row + 1][m.cell + 1]) + Len(s) <= CellMax =>
              \A p : Holds(s, p) => InCells(w, p)
<1>1. /\ m.cells \in Tables /\ Sorted(m)
      /\ \A i \in 1..MaxRows, c \in 1..MaxCols :
           /\ Len(m.cells[i][c]) <= CellMax /\ UpTo(m.cells[i][c], n) /\ Ahead(o, m.cells[i][c])
           /\ Ahead(m.cells[i][c], m.alt)
  BY DEF InOrder
<1>2. m.row \in 0..MaxRows /\ m.cell \in 0..MaxCols /\ m.cols \in 0..MaxCols
  BY DEF Filled
<1>3. MaxRows \in Nat /\ MaxCols \in Nat
  BY MarkdownAssumption DEF MarkdownAssumption
<1> DEFINE At(i, c) == i = m.row + 1 /\ c = m.cell + 1
<1>4. /\ w.cells \in Tables
      /\ \A i \in 1..MaxRows, c \in 1..MaxCols :
           /\ Len(w.cells[i][c]) <= CellMax
           /\ \A p : Holds(w.cells[i][c], p) => Holds(m.cells[i][c], p) \/ (Holds(s, p) /\ At(i, c))
           /\ \A p : Holds(m.cells[i][c], p) => Holds(w.cells[i][c], p)
           /\ Rising(m.cells[i][c]) /\ Rising(s) /\ Ahead(m.cells[i][c], s)
                => Rising(w.cells[i][c])
      /\ CellTaken(m) /\ Len(m.cells[m.row + 1][m.cell + 1]) + Len(s) <= CellMax =>
           \A p : Holds(s, p) => Holds(w.cells[m.row + 1][m.cell + 1], p)
  BY <1>1, <1>2, PutHow
<1>5. /\ w.inCode = m.inCode /\ w.code = m.code /\ w.inTable = m.inTable
      /\ w.row = m.row /\ w.cell = m.cell /\ w.cols = m.cols
  BY DEF Put
<1>6. ASSUME NEW i \in 1..MaxRows, NEW c \in 1..MaxCols, NEW j \in 1..MaxRows, NEW d \in 1..MaxCols,
             At(i, c), i < j \/ (i = j /\ c < d), NEW p
      PROVE  ~Holds(m.cells[j][d], p)
  <2> SUFFICES ASSUME Holds(m.cells[j][d], p) PROVE FALSE
    OBVIOUS
  <2>1. j <= m.row \/ (j = m.row + 1 /\ (d <= m.cell \/ d = m.cell + 1))
    BY DEF Filled
  <2> QED BY <1>2, <1>3, <1>6, <2>1
<1>7. ASSUME NEW i \in 1..MaxRows, NEW c \in 1..MaxCols, NEW j \in 1..MaxRows, NEW d \in 1..MaxCols,
             i < j \/ (i = j /\ c < d)
      PROVE  Ahead(w.cells[i][c], w.cells[j][d])
  <2> SUFFICES ASSUME NEW p, NEW q, Holds(w.cells[i][c], p), Holds(w.cells[j][d], q)
               PROVE  p < q
    BY DEF Ahead
  <2>1. Holds(m.cells[i][c], p) \/ (Holds(s, p) /\ At(i, c))
    BY <1>4
  <2>2. Holds(m.cells[j][d], q) \/ (Holds(s, q) /\ At(j, d))
    BY <1>4
  <2>3. CASE At(i, c)
    <3>1. ~Holds(m.cells[j][d], q)
      BY <1>6, <1>7, <2>3
    <3>2. At(j, d)
      BY <2>2, <3>1
    <3> QED BY <1>2, <1>7, <2>3, <3>2
  <2>4. CASE ~At(i, c)
    <3>1. Holds(m.cells[i][c], p)
      BY <2>1, <2>4
    <3>2. Ahead(m.cells[i][c], m.cells[j][d])
      BY <1>1, <1>7 DEF Sorted
    <3>3. Ahead(m.cells[i][c], s)
      OBVIOUS
    <3> HIDE DEF At
    <3> QED BY <2>2, <3>1, <3>2, <3>3 DEF Ahead
  <2> QED BY <2>3, <2>4
<1> HIDE DEF At
<1>8. Sorted(w)
  <2>1. \A i \in 1..MaxRows, c \in 1..MaxCols : Rising(w.cells[i][c])
    BY <1>1, <1>4 DEF Sorted
  <2> QED BY <1>7, <2>1 DEF Sorted
<1>9. ASSUME NEW i \in 1..MaxRows, NEW c \in 1..MaxCols
      PROVE  UpTo(w.cells[i][c], n) /\ Ahead(o, w.cells[i][c]) /\ Ahead(w.cells[i][c], w.alt)
  <2>1. \A p : Holds(w.cells[i][c], p) => Holds(m.cells[i][c], p) \/ Holds(s, p)
    BY <1>4
  <2>2. UpTo(m.cells[i][c], n) /\ Ahead(o, m.cells[i][c]) /\ Ahead(m.cells[i][c], w.alt)
    BY <1>1, EmptyHow
  <2> QED BY <2>1, <2>2 DEF UpTo, Ahead
<1>10. InOrder(w, o, n)
  BY <1>4, <1>5, <1>8, <1>9, EmptyHow DEF InOrder
<1>11. Filled(op, w)
  <2> SUFFICES ASSUME NEW i \in 1..MaxRows, NEW c \in 1..MaxCols, NEW p, Holds(w.cells[i][c], p)
               PROVE  /\ \/ i <= m.row
                         \/ i = m.row + 1 /\ (c <= m.cell \/ c = m.cell + 1)
                      /\ i <= m.row => c <= m.cols
    BY <1>2, <1>5 DEF Filled
  <2>1. Holds(m.cells[i][c], p) \/ (i = m.row + 1 /\ c = m.cell + 1)
    BY <1>4 DEF At
  <2>2. CASE Holds(m.cells[i][c], p)
    BY <2>2 DEF Filled
  <2>3. CASE i = m.row + 1 /\ c = m.cell + 1
    BY <1>2, <2>3
  <2> QED BY <2>1, <2>2, <2>3
<1>12. \A p : InCells(m, p) => InCells(w, p)
  BY <1>4 DEF InCells
<1>13. ASSUME CellTaken(m), Len(m.cells[m.row + 1][m.cell + 1]) + Len(s) <= CellMax,
              NEW p, Holds(s, p)
       PROVE  InCells(w, p)
  <2>1. m.row + 1 \in 1..MaxRows /\ m.cell + 1 \in 1..MaxCols
    BY <1>2, <1>3, <1>13 DEF CellTaken
  <2>2. Holds(w.cells[m.row + 1][m.cell + 1], p)
    BY <1>4, <1>13
  <2> QED BY <2>1, <2>2 DEF InCells
<1> QED BY <1>10, <1>11, <1>12, <1>13

------------------------------------------------------------------------------
(***************************************************************************)
(* Where the renderer gathers text, by what is open.                       *)
(***************************************************************************)
\* What may be open within it, however deep.
Under(t) ==
  CASE t = "TABLE"                      -> {"THEAD", "TBODY", "TR"} \cup Cells \cup Spans
    [] t \in {"THEAD", "TBODY"}         -> {"TR"} \cup Cells \cup Spans
    [] t = "TR"                         -> Cells \cup Spans
    [] t \in Cells \cup Spans \cup {"P", "H"} -> Spans
    [] t \in {"CODE", "HR"}             -> {}
    [] OTHER                            -> Kinds

\* An image holds no link or image, as long as nothing is tangled.
Stacked(op) ==
  /\ \A i, j \in 1..Len(op) : i < j => op[j].type \in Under(op[i].type)
  /\ \A i, j \in 1..Len(op) : i < j /\ op[i].type = "IMG" => op[j].type \notin {"IMG", "A"}
  /\ Has(op, {"TABLE"}) /\ Has(op, Spans) => Has(op, Cells)
  /\ Has(op, Cells) => Has(op, {"TR"})
  /\ Has(op, {"TR"}) => Has(op, {"THEAD", "TBODY"})
  /\ Has(op, {"THEAD", "TBODY"}) => Has(op, {"TABLE"})

Flagged(op, m) ==
  /\ m.inCode = TRUE <=> Has(op, {"CODE"})
  /\ m.inTable = TRUE <=> Has(op, {"TABLE"})
  /\ m.inCell = TRUE <=> Has(op, Cells)
  /\ m.mode = "alt" <=> Has(op, {"IMG"})
  /\ {m.inCode, m.inTable, m.inCell} \subseteq BOOLEAN

\* The renderer counts no more rows and cells than there are.
Seen(op, m) ==
  \A i \in 1..Len(op) :
    /\ op[i].type = "TABLE" => m.row + (IF Has(op, {"TR"}) THEN 1 ELSE 0) <= op[i].rows
    /\ op[i].type = "TR" => m.cell + (IF Has(op, Cells) THEN 1 ELSE 0) <= op[i].rows

TextOK(op, m, o, xs, n) ==
  /\ Stacked(op) /\ Flagged(op, m) /\ Seen(op, m)
  /\ InOrder(m, o, n) /\ Filled(op, m) /\ Kept(m, o, xs, n)

TextInv == tangled \/ TextOK(open, r, out, excused, fed)

LEMMA HasGrown ==
  ASSUME NEW op \in Seq(Nodes), NEW n, NEW type, NEW start, NEW ex, Grown(op, n, type, start, ex)
  PROVE  \A types : Has(ex, types) <=> Has(op, types) \/ type \in types
<1>1. Len(op) \in Nat /\ Len(ex) = Len(op) + 1
  BY LenProperties DEF Grown
<1>2. \A i \in 1..Len(op) : i \in 1..Len(ex) /\ ex[i].type = op[i].type
  BY <1>1 DEF Grown
<1>3. Len(ex) \in 1..Len(ex) /\ ex[Len(ex)].type = type
  BY <1>1 DEF Grown
<1>4. \A i \in 1..Len(ex) : i \in 1..Len(op) \/ i = Len(ex)
  BY <1>1
<1> QED BY <1>2, <1>3, <1>4 DEF Has

LEMMA HasShrunk ==
  ASSUME NEW op \in Seq(Nodes), NEW ex, Shrunk(op, ex)
  PROVE  \A types : Has(op, types) <=> Has(ex, types) \/ op[Len(op)].type \in types
<1>1. Len(op) \in Nat /\ Len(ex) = Len(op) - 1 /\ Len(op) # 0
  BY LenProperties, EmptySeq DEF Shrunk
<1>2. \A i \in 1..Len(ex) : i \in 1..Len(op) /\ ex[i] = op[i]
  BY <1>1 DEF Shrunk
<1>3. Len(op) \in 1..Len(op) /\ \A i \in 1..Len(op) : i \in 1..Len(ex) \/ i = Len(op)
  BY <1>1
<1> QED BY <1>2, <1>3 DEF Has

\* What may be entered in something may be within whatever that is in.
LEMMA UnderInside ==
  ASSUME NEW t \in Kinds, NEW u \in Kinds, t \in Under(u) \/ t = u, NEW type \in Kinds,
         type \in Inside(t) \/ (t = "LI" /\ type \in Spans)
  PROVE  type \in Under(u)
<1>1. Under(t) \subseteq Under(u)
  BY DEF Under, Kinds, Blocks, Lists, Cells, Spans
<1>2. type \in Under(t)
  BY DEF Under, Inside, Kinds, Blocks, Lists, Cells, Spans
<1> QED BY <1>1, <1>2

LEMMA StackedGrown ==
  ASSUME NEW op \in Seq(Nodes), op # <<>>, Stacked(op), NEW n, NEW type \in Kinds, NEW start,
         NEW ex, Grown(op, n, type, start, ex), NEW t, t = op[Len(op)].type,
         type \in Inside(t) \/ (t = "LI" /\ type \in Spans),
         type \in {"A", "IMG"} => ~Has(op, {"IMG"})
  PROVE  Stacked(ex)
<1>1. Len(op) \in Nat /\ Len(ex) = Len(op) + 1 /\ Len(op) \in 1..Len(op)
  BY LenProperties, EmptySeq DEF Grown
<1>2. \A i \in 1..Len(op) : ex[i].type = op[i].type /\ op[i].type \in Kinds
  <2>1. \A i \in 1..Len(op) : op[i] \in Nodes
    OBVIOUS
  <2> QED BY <2>1 DEF Grown, Nodes
<1>3. ex[Len(ex)].type = type
  BY DEF Grown
<1>4. \A i \in 1..Len(ex) : i \in 1..Len(op) \/ i = Len(ex)
  BY <1>1
<1>5. \A types : Has(ex, types) <=> Has(op, types) \/ type \in types
  BY HasGrown
<1>6. ASSUME NEW i \in 1..Len(op) PROVE type \in Under(op[i].type)
  <2>1. t \in Kinds /\ op[i].type \in Kinds
    BY <1>1, <1>2
  <2>2. t \in Under(op[i].type) \/ t = op[i].type
    <3>1. i < Len(op) \/ i = Len(op)
      BY <1>1
    <3> QED BY <1>1, <3>1 DEF Stacked
  <2> QED BY <2>1, <2>2, UnderInside
<1>7. \A i, j \in 1..Len(ex) : i < j => ex[j].type \in Under(ex[i].type)
  <2> SUFFICES ASSUME NEW i \in 1..Len(ex), NEW j \in 1..Len(ex), i < j
               PROVE  ex[j].type \in Under(ex[i].type)
    OBVIOUS
  <2>1. i \in 1..Len(op) /\ (j \in 1..Len(op) \/ j = Len(ex))
    BY <1>1
  <2> QED BY <1>2, <1>3, <1>6, <2>1 DEF Stacked
<1>8. \A i, j \in 1..Len(ex) : i < j /\ ex[i].type = "IMG" => ex[j].type \notin {"IMG", "A"}
  <2> SUFFICES ASSUME NEW i \in 1..Len(ex), NEW j \in 1..Len(ex), i < j, ex[i].type = "IMG"
               PROVE  ex[j].type \notin {"IMG", "A"}
    OBVIOUS
  <2>1. i \in 1..Len(op) /\ (j \in 1..Len(op) \/ j = Len(ex)) /\ op[i].type = "IMG"
    BY <1>1, <1>2
  <2>2. Has(op, {"IMG"})
    BY <2>1 DEF Has
  <2> QED BY <1>2, <1>3, <2>1, <2>2 DEF Stacked
<1>9. Has(op, {t})
  BY <1>1 DEF Has
<1>10. Has(op, {"TABLE"}) =>
         t \in {"TABLE", "THEAD", "TBODY", "TR"} \cup Cells \cup Spans
  <2> SUFFICES ASSUME NEW i \in 1..Len(op), op[i].type = "TABLE"
               PROVE  t \in {"TABLE", "THEAD", "TBODY", "TR"} \cup Cells \cup Spans
    BY DEF Has
  <2>1. i < Len(op) \/ i = Len(op)
    BY <1>1
  <2>2. t \in Under("TABLE") \/ t = "TABLE"
    BY <1>1, <2>1 DEF Stacked
  <2> QED BY <2>2 DEF Under
<1>11. \A types : t \in types => Has(op, types)
  BY <1>9 DEF Has
<1>12. CASE type \in Spans
  <2>1. type \notin Cells \cup {"TABLE", "TR", "THEAD", "TBODY"}
    BY <1>12 DEF Spans, Cells
  <2>2. t \in {"P", "H", "LI"} \cup Cells \cup Spans
    BY <1>12 DEF Inside, Spans, Cells, Lists, Blocks
  <2>3. Has(op, {"TABLE"}) => t \in Cells \cup Spans
    BY <1>10, <2>2 DEF Spans, Cells
  <2>4. Has(op, {"TABLE"}) => Has(op, Cells)
    BY <1>11, <2>3 DEF Stacked
  <2>5. /\ Has(ex, {"TABLE"}) <=> Has(op, {"TABLE"})
        /\ Has(ex, Cells) <=> Has(op, Cells)
        /\ Has(ex, {"TR"}) <=> Has(op, {"TR"})
        /\ Has(ex, {"THEAD", "TBODY"}) <=> Has(op, {"THEAD", "TBODY"})
    <3>1. type \notin {"TABLE"} /\ type \notin Cells /\ type \notin {"TR"} /\ type \notin {"THEAD", "TBODY"}
      BY <2>1
    <3> QED BY <1>5, <3>1
  <2> QED BY <1>7, <1>8, <2>4, <2>5 DEF Stacked
<1>13. CASE type \notin Spans
  <2>1. /\ type = "TABLE" => ~Has(op, Spans)
        /\ type \in Cells => Has(op, {"TR"})
        /\ type = "TR" => Has(op, {"THEAD", "TBODY"})
        /\ type \in {"THEAD", "TBODY"} => Has(op, {"TABLE"})
    <3>1. type \in Inside(t)
      BY <1>13
    <3>2. type = "TABLE" => \A i \in 1..Len(op) : op[i].type \notin Spans
      <4> SUFFICES ASSUME type = "TABLE", NEW i \in 1..Len(op), op[i].type \in Spans
                   PROVE  FALSE
        OBVIOUS
      <4>1. "TABLE" \in Under(op[i].type)
        BY <1>6
      <4> QED BY <4>1 DEF Under, Spans, Cells
    <3>3. type \in Cells => t = "TR"
      BY <1>1, <1>2, <3>1 DEF Inside, Spans, Cells, Lists, Blocks, Kinds
    <3>4. type = "TR" => t \in {"THEAD", "TBODY"}
      BY <1>1, <1>2, <3>1 DEF Inside, Spans, Cells, Lists, Blocks, Kinds
    <3>5. type \in {"THEAD", "TBODY"} => t = "TABLE"
      BY <1>1, <1>2, <3>1 DEF Inside, Spans, Cells, Lists, Blocks, Kinds
    <3> QED BY <1>11, <3>2, <3>3, <3>4, <3>5 DEF Has
  <2>2. /\ Has(ex, {"TABLE"}) <=> Has(op, {"TABLE"}) \/ type = "TABLE"
        /\ Has(ex, Cells) <=> Has(op, Cells) \/ type \in Cells
        /\ Has(ex, {"TR"}) <=> Has(op, {"TR"}) \/ type = "TR"
        /\ Has(ex, {"THEAD", "TBODY"}) <=> Has(op, {"THEAD", "TBODY"}) \/ type \in {"THEAD", "TBODY"}
        /\ Has(ex, Spans) <=> Has(op, Spans)
    BY <1>5, <1>13
  <2>3. Has(ex, {"TABLE"}) /\ Has(ex, Spans) => Has(ex, Cells)
    BY <2>1, <2>2 DEF Stacked
  <2> QED BY <1>7, <1>8, <2>1, <2>2, <2>3 DEF Stacked
<1> QED BY <1>12, <1>13

\* What is left is in nothing that cannot hold it.
LEMMA LastIn ==
  ASSUME NEW op \in Seq(Nodes), Stacked(op), NEW ex, Shrunk(op, ex), NEW t, t = op[Len(op)].type
  PROVE  /\ \A types : (\A u \in types : t \notin Under(u)) => ~Has(ex, types)
         /\ t \in {"IMG", "A"} => ~Has(ex, {"IMG"})
<1>1. Len(op) \in Nat /\ Len(ex) = Len(op) - 1 /\ Len(op) # 0
  BY LenProperties, EmptySeq DEF Shrunk
<1>2. \A i \in 1..Len(ex) : i \in 1..Len(op) /\ ex[i] = op[i] /\ i < Len(op) /\ Len(op) \in 1..Len(op)
  BY <1>1 DEF Shrunk
<1>3. \A i \in 1..Len(ex) : t \in Under(ex[i].type)
  BY <1>2 DEF Stacked
<1>4. t \in {"IMG", "A"} => \A i \in 1..Len(ex) : ex[i].type # "IMG"
  BY <1>2 DEF Stacked
<1> QED BY <1>3, <1>4 DEF Has

LEMMA StackedShrunk ==
  ASSUME NEW op \in Seq(Nodes), Stacked(op), NEW ex, Shrunk(op, ex)
  PROVE  Stacked(ex)
<1> DEFINE t == op[Len(op)].type
<1>1. Len(op) \in Nat /\ Len(ex) = Len(op) - 1 /\ Len(op) # 0
  BY LenProperties, EmptySeq DEF Shrunk
<1>2. \A i \in 1..Len(ex) : i \in 1..Len(op) /\ ex[i] = op[i]
  BY <1>1 DEF Shrunk
<1>3. \A types : Has(op, types) <=> Has(ex, types) \/ t \in types
  BY HasShrunk
<1>4. \A types : (\A u \in types : t \notin Under(u)) => ~Has(ex, types)
  BY LastIn
<1> HIDE DEF t
<1>5. /\ t = "TABLE" => ~Has(ex, {"THEAD", "TBODY"})
      /\ t \in {"THEAD", "TBODY"} => ~Has(ex, {"TR"})
      /\ t = "TR" => ~Has(ex, Cells)
      /\ t \in Cells => ~Has(ex, Spans)
  <2>1. t = "TABLE" => \A u \in {"THEAD", "TBODY"} : t \notin Under(u)
    BY DEF Under, Cells, Spans
  <2>2. t \in {"THEAD", "TBODY"} => \A u \in {"TR"} : t \notin Under(u)
    BY DEF Under, Cells, Spans
  <2>3. t = "TR" => \A u \in Cells : t \notin Under(u)
    BY DEF Under, Cells, Spans
  <2>4. t \in Cells => \A u \in Spans : t \notin Under(u)
    BY DEF Under, Cells, Spans
  <2> QED BY <1>4, <2>1, <2>2, <2>3, <2>4
<1>6. /\ Has(op, {"TABLE"}) <=> Has(ex, {"TABLE"}) \/ t = "TABLE"
      /\ Has(op, Cells) <=> Has(ex, Cells) \/ t \in Cells
      /\ Has(op, Spans) <=> Has(ex, Spans) \/ t \in Spans
      /\ Has(op, {"TR"}) <=> Has(ex, {"TR"}) \/ t = "TR"
      /\ Has(op, {"THEAD", "TBODY"}) <=> Has(ex, {"THEAD", "TBODY"}) \/ t \in {"THEAD", "TBODY"}
  BY <1>3
<1>7. /\ Has(ex, {"TABLE"}) /\ Has(ex, Spans) => Has(ex, Cells)
      /\ Has(ex, Cells) => Has(ex, {"TR"})
      /\ Has(ex, {"TR"}) => Has(ex, {"THEAD", "TBODY"})
      /\ Has(ex, {"THEAD", "TBODY"}) => Has(ex, {"TABLE"})
  BY <1>5, <1>6 DEF Stacked
<1>8. /\ \A i, j \in 1..Len(ex) : i < j => ex[j].type \in Under(ex[i].type)
      /\ \A i, j \in 1..Len(ex) : i < j /\ ex[i].type = "IMG" => ex[j].type \notin {"IMG", "A"}
  BY <1>2 DEF Stacked
<1> QED BY <1>7, <1>8 DEF Stacked

------------------------------------------------------------------------------
(***************************************************************************)
(* Pieces are printed, and others are put behind them.                     *)
(***************************************************************************)
LEMMA InToSet ==
  ASSUME NEW s \in Seq(Nat), NEW p, p # Filler
  PROVE  p \in ToSet(s) <=> Holds(s, p)
  BY DEF ToSet, Holds

LEMMA PrintOut ==
  ASSUME NEW m, NEW w, NEW o, NEW n, NEW x, InOrder(m, o, n), Fine(x, n), Solid(x), Ahead(o, x),
         w.alt = <<>>, w.code = <<>>, w.inTable = FALSE
  PROVE  InOrder(w, o \o x, n) /\ \A p : Holds(o \o x, p) <=> Holds(o, p) \/ Holds(x, p)
<1>1. Fine(o \o x, n)
  BY FineConcat DEF InOrder
<1>2. Solid(o \o x) /\ \A p : Holds(o \o x, p) <=> Holds(o, p) \/ Holds(x, p)
  BY SolidHow, ConcatHow DEF InOrder, Fine
<1> QED BY <1>1, <1>2, EmptyHow DEF InOrder

LEMMA KeptPut ==
  ASSUME NEW m, NEW w, NEW o, NEW xs, NEW n, Kept(m, o, xs, n),
         w.alt = m.alt, w.code = m.code, w.inTable = m.inTable,
         \A p : InCells(m, p) => InCells(w, p)
  PROVE  Kept(w, o, xs, n)
  BY DEF Kept

\* A filler is put to a cell.
LEMMA FillerPut ==
  ASSUME NEW op, NEW m, NEW w, NEW o, NEW n, NEW xs, InOrder(m, o, n), Filled(op, m),
         Kept(m, o, xs, n), m.inTable, Has(op, {"TR"}), Has(op, Cells), Put(m, w, <<Filler>>),
         w.alt = m.alt, w.mode = "alt" \/ w.alt = <<>>
  PROVE  InOrder(w, o, n) /\ Filled(op, w) /\ Kept(w, o, xs, n)
<1>1. PICK s : s = <<Filler>>
  OBVIOUS
<1>2. s \in Seq(Nat) /\ Rising(s) /\ \A p : ~Holds(s, p)
  BY <1>1, SingleHow DEF Filler
<1>3. UpTo(s, n) /\ (\A x : Ahead(x, s) /\ Ahead(s, x))
  BY <1>2 DEF UpTo, Ahead
<1>4. Put(m, w, s) /\ w.alt \in {m.alt, <<>>}
  BY <1>1
<1>5. InOrder(w, o, n) /\ Filled(op, w) /\ \A p : InCells(m, p) => InCells(w, p)
  BY <1>2, <1>3, <1>4, PutOrder
<1>6. w.code = m.code /\ w.inTable = m.inTable
  BY DEF Put
<1> QED BY <1>5, <1>6, KeptPut

LEMMA BesideHolds ==
  ASSUME NEW op, NEW m, NEW w, NEW o, NEW n, NEW xs, InOrder(m, o, n), Filled(op, m),
         Kept(m, o, xs, n), Beside(m, w), w.alt = m.alt, w.mode = "alt" \/ w.alt = <<>>
  PROVE  InOrder(w, o, n) /\ Filled(op, w) /\ Kept(w, o, xs, n)
<1>1. w.code = m.code /\ (w.inCode \/ w.code = <<>>) /\ w.inTable = m.inTable /\ w.cells = m.cells
  BY DEF Beside, InOrder
<1>2. InOrder(w, o, n) /\ Kept(w, o, xs, n)
  BY <1>1, OrderSame, KeptSame
<1>3. Filled(op, w)
  BY DEF Filled, Beside
<1> QED BY <1>2, <1>3

\* What is filled depends on what is open only by the row and the cell.
LEMMA FilledWith ==
  ASSUME NEW op, NEW ex, NEW m, Filled(op, m),
         Has(op, {"TR"}) => Has(ex, {"TR"}), Has(op, Cells) => Has(ex, Cells)
  PROVE  Filled(ex, m)
  BY DEF Filled

LEMMA SeenWith ==
  ASSUME NEW op, NEW ex, NEW m, NEW w, Seen(op, m), w.row = m.row, w.cell = m.cell,
         m.row \in Nat, m.cell \in Nat, \A i \in 1..Len(ex) : ex[i].rows \in Nat,
         Has(ex, {"TR"}) => Has(op, {"TR"}), Has(ex, Cells) => Has(op, Cells),
         \A i \in 1..Len(ex) : ex[i].type \in {"TABLE", "TR"} =>
           i \in 1..Len(op) /\ ex[i].type = op[i].type /\ ex[i].rows = op[i].rows
  PROVE  Seen(ex, w)
  BY DEF Seen
------------------------------------------------------------------------------
\* What is open, as it is counted.
TextOpened(op, ex, type) ==
  /\ ex \in Seq(Nodes) /\ Len(ex) = Len(op) + 1
  /\ \A i \in 1..Len(op) :
       /\ ex[i].type = op[i].type
       /\ (type = "TR" /\ op[i].type = "TABLE") \/ (type \in Cells /\ i = Len(op))
            => ex[i].rows = op[i].rows + 1
       /\ ~((type = "TR" /\ op[i].type = "TABLE") \/ (type \in Cells /\ i = Len(op)))
            => ex[i].rows = op[i].rows
  /\ ex[Len(ex)].type = type /\ ex[Len(ex)].rows = 0

LEMMA CountedRows ==
  ASSUME ReplyInv, ~Idle, NEW type \in Kinds, NEW tight \in BOOLEAN, NEW start \in Nat
  PROVE  TextOpened(open, Append(Counted(type), Node(type, tight, start)), type)
<1> DEFINE node == Node(type, tight, start)
           op == Counted(type)
<1>1. node \in Nodes /\ node.type = type /\ node.rows = 0
  BY Opened DEF Node, Nodes
<1>2. op \in Seq(Nodes) /\ Len(op) = Len(open) /\ \A i \in 1..Len(open) : op[i].type = open[i].type
  BY CountedSame
<1>3. DOMAIN open = 1..Len(open) /\ Len(open) \in Nat /\ \A i \in 1..Len(open) : open[i] \in Nodes
  BY Opened
<1>4. \A i \in 1..Len(open) :
        op[i].rows = IF (type = "TR" /\ open[i].type = "TABLE") \/ (type \in Cells /\ i = Len(open))
                       THEN open[i].rows + 1 ELSE open[i].rows
  <2>1. \A y \in Nodes : [y EXCEPT !.rows = @ + 1].rows = y.rows + 1
    BY DEF Nodes
  <2>2. CASE type = "TR"
    <3>1. op = [i \in DOMAIN open |-> IF open[i].type = "TABLE"
                                        THEN [open[i] EXCEPT !.rows = @ + 1] ELSE open[i]]
      BY <2>2 DEF Counted, Cells
    <3> HIDE DEF op
    <3> QED BY <1>3, <2>1, <2>2, <3>1 DEF Cells
  <2>3. CASE type \in Cells
    <3>1. op = [open EXCEPT ![Len(open)].rows = @ + 1]
      BY <2>3 DEF Counted, Cells
    <3>2. \A i \in 1..Len(open) : op[i] = IF i = Len(open) THEN [open[i] EXCEPT !.rows = @ + 1] ELSE open[i]
      BY <1>3, <3>1
    <3> HIDE DEF op
    <3> QED BY <1>3, <2>1, <2>3, <3>2 DEF Cells
  <2>4. CASE type \notin Cells \cup {"TR"}
    <3>1. op = open
      BY <2>4 DEF Counted
    <3> HIDE DEF op
    <3> QED BY <2>4, <3>1
  <2> QED BY <2>2, <2>3, <2>4
<1> HIDE DEF node, op
<1>5. /\ Append(op, node) \in Seq(Nodes) /\ Len(Append(op, node)) = Len(op) + 1
      /\ Append(op, node)[Len(op) + 1] = node /\ \A i \in 1..Len(op) : Append(op, node)[i] = op[i]
  BY <1>1, <1>2, AppendProperties
<1>6. TextOpened(open, Append(op, node), type)
  BY <1>1, <1>2, <1>4, <1>5 DEF TextOpened
<1> QED BY <1>6 DEF op, node

\* A call that enters a block.
LEMMA EnterBlockSeen ==
  ASSUME ReplyInv, NEW type \in Kinds \ Spans, NEW tight \in BOOLEAN, NEW start \in Nat,
         EnterBlock(type, tight, start), Stacked(open), Seen(open, r), Filled(open, r)
  PROVE  Seen(open', r')
<1>1. ~Idle /\ type \in Inside(Top.type) /\ r' = BlockEntered(r, type, start)
      /\ open' = Append(Counted(type), Node(type, tight, start))
  BY DEF EnterBlock
<1>2. PICK ex : ex = open'
  OBVIOUS
<1>3. /\ ex \in Seq(Nodes) /\ Len(ex) = Len(open) + 1
      /\ \A i \in 1..Len(open) :
           /\ ex[i].type = open[i].type
           /\ (type = "TR" /\ open[i].type = "TABLE") \/ (type \in Cells /\ i = Len(open))
                => ex[i].rows = open[i].rows + 1
           /\ ~((type = "TR" /\ open[i].type = "TABLE") \/ (type \in Cells /\ i = Len(open)))
                => ex[i].rows = open[i].rows
      /\ ex[Len(ex)].type = type /\ ex[Len(ex)].rows = 0
  <2>1. TextOpened(open, ex, type)
    BY <1>1, <1>2, CountedRows
  <2> QED BY <2>1 DEF TextOpened
<1>4. /\ open \in Seq(Nodes) /\ Len(open) \in Nat /\ Counting(r) /\ Len(open) \in 1..Len(open)
      /\ Top = open[Len(open)] /\ Top.type \in Kinds /\ open # <<>>
  BY <1>1, Opened DEF Idle
<1>5. PICK w : w = r'
  OBVIOUS
<1>6. /\ type = "TABLE" => w.row = 0
      /\ type # "TABLE" => w.row = r.row
      /\ type \in {"TABLE", "TR"} => w.cell = 0
      /\ type \notin {"TABLE", "TR"} => w.cell = r.cell
  <2>1. BlockTextEntered(r, w, type)
    BY <1>1, <1>4, <1>5, BlockEnteredText
  <2> QED BY <2>1 DEF BlockTextEntered
<1>7. \A types : Has(ex, types) <=> Has(open, types) \/ type \in types
  BY <1>1, <1>2, <1>4, CountedSame, Grows, HasGrown
<1>8. r.row \in Nat /\ r.cell \in Nat
  BY MarkdownAssumption DEF Filled, MarkdownAssumption
<1>9. \A i \in 1..Len(ex) : i \in 1..Len(open) \/ i = Len(ex)
  BY <1>3, <1>4
<1>10. (\A i \in 1..Len(open) : open[i] \in Nodes) /\ (\A i \in 1..Len(ex) : ex[i] \in Nodes)
  BY <1>3, <1>4
<1>11. (\A i \in 1..Len(open) : open[i].rows \in Nat) /\ (\A i \in 1..Len(ex) : ex[i].rows \in Nat)
  BY <1>10 DEF Nodes
<1>12. ASSUME NEW i \in 1..Len(open)
       PROVE  /\ type \in Under(open[i].type)
              /\ Top.type \in Under(open[i].type) \/ i = Len(open)
  <2>1. Top.type \in Under(open[i].type) \/ i = Len(open)
    <3>1. i < Len(open) \/ i = Len(open)
      BY <1>4
    <3> QED BY <1>4, <3>1 DEF Stacked
  <2>2. open[i].type \in Kinds
    BY <1>10 DEF Nodes
  <2> QED BY <1>1, <1>4, <2>1, <2>2, UnderInside
<1> SUFFICES Seen(ex, w)
  BY <1>2, <1>5
<1>13. CASE type = "TABLE"
  <2>1. \A i \in 1..Len(open) : open[i].type \notin {"TABLE", "TR"}
    BY <1>12, <1>13 DEF Under, Cells, Spans
  <2>2. ~Has(ex, {"TR"})
    BY <1>7, <1>13, <2>1 DEF Has
  <2> QED BY <1>3, <1>6, <1>9, <1>13, <2>1, <2>2 DEF Seen
<1>14. CASE type = "TR"
  <2>1. \A i \in 1..Len(open) : open[i].type \notin Cells \cup {"TR"}
    BY <1>12, <1>14 DEF Under, Cells, Spans
  <2>2. ~Has(open, {"TR"}) /\ ~Has(ex, Cells)
    <3>1. "TR" \notin Cells
      BY DEF Cells
    <3> QED BY <1>7, <1>14, <2>1, <3>1 DEF Has
  <2>3. ASSUME NEW i \in 1..Len(ex), ex[i].type = "TABLE"
        PROVE  w.row + 1 <= ex[i].rows
    <3>1. i \in 1..Len(open) /\ open[i].type = "TABLE" /\ ex[i].rows = open[i].rows + 1
      BY <1>3, <1>9, <1>14, <2>3
    <3>2. r.row + 0 <= open[i].rows
      BY <2>2, <3>1 DEF Seen
    <3> QED BY <1>6, <1>8, <1>11, <1>14, <3>1, <3>2
  <2>4. ASSUME NEW i \in 1..Len(ex), ex[i].type = "TR"
        PROVE  w.cell + 0 <= ex[i].rows
    BY <1>3, <1>6, <1>9, <1>14, <2>1, <2>4
  <2>5. w.row \in Nat /\ w.row <= w.row + 1
    BY <1>6, <1>8
  <2> QED BY <1>8, <1>11, <2>2, <2>3, <2>4, <2>5, <1>6 DEF Seen
<1>15. CASE type \in Cells
  <2>1. Top.type = "TR"
    BY <1>1, <1>4, <1>15 DEF Inside, Spans, Cells, Lists, Blocks, Kinds
  <2>2. \A i \in 1..Len(open) : open[i].type = "TR" => i = Len(open)
    BY <1>12, <2>1 DEF Under, Cells, Spans
  <2>3. ~Has(open, Cells)
    <3>1. \A i \in 1..Len(open) : open[i].type \notin Cells
      BY <1>12, <1>15 DEF Under, Cells, Spans
    <3> QED BY <3>1 DEF Has
  <2>4. type \notin {"TABLE", "TR"}
    BY <1>15 DEF Cells
  <2>5. Has(ex, {"TR"}) <=> Has(open, {"TR"})
    BY <1>7, <2>4
  <2>6. ASSUME NEW i \in 1..Len(ex), ex[i].type = "TABLE"
        PROVE  w.row + (IF Has(ex, {"TR"}) THEN 1 ELSE 0) <= ex[i].rows
    <3>1. i \in 1..Len(open) /\ open[i].type = "TABLE"
      BY <1>3, <1>9, <2>4, <2>6
    <3>2. ex[i].rows = open[i].rows
      BY <1>3, <1>4, <2>1, <2>4, <3>1
    <3> QED BY <1>6, <2>4, <2>5, <3>1, <3>2 DEF Seen
  <2>7. ASSUME NEW i \in 1..Len(ex), ex[i].type = "TR"
        PROVE  w.cell + 1 <= ex[i].rows
    <3>1. i \in 1..Len(open) /\ open[i].type = "TR" /\ i = Len(open)
      BY <1>3, <1>9, <2>2, <2>4, <2>7
    <3>2. ex[i].rows = open[i].rows + 1 /\ r.cell + 0 <= open[i].rows
      BY <1>3, <1>15, <2>3, <3>1 DEF Seen
    <3> QED BY <1>6, <1>8, <1>11, <2>4, <3>1, <3>2
  <2>8. w.cell \in Nat
    BY <1>6, <1>8
  <2> QED BY <1>11, <2>6, <2>7, <2>8 DEF Seen
<1>16. CASE type \notin Cells \cup {"TABLE", "TR"}
  <2>1. /\ Has(ex, {"TR"}) => Has(open, {"TR"})
        /\ Has(ex, Cells) => Has(open, Cells)
    BY <1>7, <1>16
  <2>2. \A i \in 1..Len(ex) : ex[i].type \in {"TABLE", "TR"} =>
          i \in 1..Len(open) /\ ex[i].type = open[i].type /\ ex[i].rows = open[i].rows
    BY <1>3, <1>9, <1>16
  <2>3. w.row = r.row /\ w.cell = r.cell
    BY <1>6, <1>16
  <2> QED BY <1>8, <1>11, <2>1, <2>2, <2>3, SeenWith
<1> QED BY <1>13, <1>14, <1>15, <1>16

LEMMA NoCellsHow ==
  /\ NoCells \in Tables
  /\ \A i \in 1..MaxRows, c \in 1..MaxCols : NoCells[i][c] = <<>>
BY EmptyHow DEF NoCells, Tables

LEMMA EnterBlockText ==
  ASSUME ReplyInv, NEW type \in Kinds \ Spans, NEW tight \in BOOLEAN, NEW start \in Nat,
         EnterBlock(type, tight, start), TextInv
  PROVE  TextInv'
<1> SUFFICES ASSUME ~tangled PROVE TextOK(open, r, out, excused, fed)'
  BY DEF EnterBlock, TextInv
<1>1. /\ ~Idle /\ type \in Inside(Top.type) /\ r' = BlockEntered(r, type, start)
      /\ open' = Append(Counted(type), Node(type, tight, start))
      /\ out' = out /\ excused' = excused /\ fed' = fed
  BY DEF EnterBlock
<1>2. /\ Stacked(open) /\ Flagged(open, r) /\ Seen(open, r) /\ InOrder(r, out, fed)
      /\ Filled(open, r) /\ Kept(r, out, excused, fed)
  BY DEF TextInv, TextOK
<1>3. PICK ex : ex = open'
  OBVIOUS
<1>4. PICK w : w = r'
  OBVIOUS
<1>5. /\ open \in Seq(Nodes) /\ Len(open) \in Nat /\ Counting(r) /\ Len(open) \in 1..Len(open)
      /\ Top = open[Len(open)] /\ Top.type \in Kinds /\ open # <<>>
  BY <1>1, Opened DEF Idle
<1>6. Grown(open, entered, type, start, ex)
  BY <1>1, <1>3, CountedSame, Grows
<1>7. \A types : Has(ex, types) <=> Has(open, types) \/ type \in types
  BY <1>5, <1>6, HasGrown
<1>8. type \notin {"A", "IMG"}
  BY DEF Spans
<1>9. Stacked(ex)
  BY <1>1, <1>2, <1>5, <1>6, <1>8, StackedGrown
<1>10. BlockTextEntered(r, w, type)
  BY <1>1, <1>4, <1>5, BlockEnteredText
<1>11. Seen(ex, w)
  BY <1>2, <1>3, <1>4, EnterBlockSeen
<1>12. Flagged(ex, w)
  <2>1. /\ Has(ex, {"CODE"}) <=> Has(open, {"CODE"}) \/ type = "CODE"
        /\ Has(ex, {"TABLE"}) <=> Has(open, {"TABLE"}) \/ type = "TABLE"
        /\ Has(ex, Cells) <=> Has(open, Cells) \/ type \in Cells
        /\ Has(ex, {"IMG"}) <=> Has(open, {"IMG"})
    BY <1>7, <1>8
  <2> QED BY <1>2, <1>10, <2>1 DEF Flagged, BlockTextEntered
<1>13. r.inCode = FALSE
  <2>1. Top.type # "CODE"
    BY <1>1, <1>5 DEF Inside, Kinds, Blocks, Lists, Cells, Spans
  <2>2. ~Has(open, {"CODE"})
    BY <1>1, <2>1, NotInCode DEF Has
  <2> QED BY <1>2, <2>2 DEF Flagged
<1>14. type = "TABLE" => r.inTable = FALSE
  <2>1. type = "TABLE" => \A i \in 1..Len(open) : open[i].type # "TABLE"
    <3> SUFFICES ASSUME type = "TABLE", NEW i \in 1..Len(open), open[i].type = "TABLE" PROVE FALSE
      OBVIOUS
    <3>1. i \in 1..Len(ex) /\ Len(ex) \in 1..Len(ex) /\ i < Len(ex) /\ ex[i].type = "TABLE"
          /\ ex[Len(ex)].type = "TABLE"
      BY <1>5, <1>6 DEF Grown
    <3>2. "TABLE" \in Under("TABLE")
      BY <1>9, <3>1 DEF Stacked
    <3> QED BY <3>2 DEF Under, Cells, Spans
  <2> QED BY <1>2, <2>1 DEF Flagged, Has
<1>15. r.alt = <<>> \/ r.mode = "alt"
  BY <1>2 DEF InOrder
<1>16. r.code = <<>>
  BY <1>2, <1>13 DEF InOrder
<1>17. w.alt = r.alt /\ w.code = r.code /\ w.mode = r.mode
  BY <1>10, <1>16 DEF BlockTextEntered
<1>18. Kept(w, out, excused, fed)
  <2>1. r.inTable => w.inTable /\ w.cells = r.cells
    BY <1>10, <1>14 DEF BlockTextEntered
  <2> QED BY <1>2, <1>17, <2>1, KeptSame
<1>19. InOrder(w, out, fed)
  <2>1. CASE type = "TABLE"
    <3>1. w.cells = NoCells
      BY <1>10, <2>1 DEF BlockTextEntered
    <3>2. \A i \in 1..MaxRows, c \in 1..MaxCols : w.cells[i][c] = <<>>
      BY <3>1, NoCellsHow
    <3>3. w.cells \in Tables
      BY <3>1, NoCellsHow
    <3>4. Sorted(w)
      BY <3>2, EmptyHow DEF Sorted
    <3>5. \A i \in 1..MaxRows, c \in 1..MaxCols :
            /\ Len(w.cells[i][c]) <= CellMax /\ UpTo(w.cells[i][c], fed)
            /\ Ahead(out, w.cells[i][c]) /\ Ahead(w.cells[i][c], w.alt)
      <4>1. 0 <= CellMax
        BY MarkdownAssumption DEF MarkdownAssumption
      <4> QED BY <3>2, <4>1, EmptyHow DEF UpTo
    <3> QED BY <1>2, <1>15, <1>16, <1>17, <3>3, <3>4, <3>5 DEF InOrder
  <2>2. CASE type # "TABLE"
    <3>1. w.inTable = r.inTable /\ w.cells = r.cells
      BY <1>10, <2>2 DEF BlockTextEntered
    <3>2. w.mode = "alt" \/ w.alt = <<>>
      BY <1>15, <1>17
    <3>3. w.inCode \/ w.code = <<>>
      BY <1>16, <1>17
    <3> QED BY <1>2, <1>17, <3>1, <3>2, <3>3, OrderSame
  <2> QED BY <2>1, <2>2
<1>20. Filled(ex, w)
  <2>1. (Has(open, {"TR"}) => Has(ex, {"TR"})) /\ (Has(open, Cells) => Has(ex, Cells))
    BY <1>7
  <2>2. r.row \in 0..MaxRows /\ r.cell \in 0..MaxCols /\ r.cols \in 0..MaxCols
    BY <1>2 DEF Filled
  <2>3. MaxRows \in Nat /\ MaxCols \in Nat
    BY MarkdownAssumption DEF MarkdownAssumption
  <2>4. CASE type = "TABLE"
    <3>1. /\ w.row = 0 /\ w.cell = 0 /\ w.cols = 0
          /\ \A i \in 1..MaxRows, c \in 1..MaxCols : w.cells[i][c] = <<>>
      BY <1>10, <2>4, NoCellsHow DEF BlockTextEntered
    <3> QED BY <2>3, <3>1, EmptyHow DEF Filled
  <2>5. CASE type = "TR"
    <3>1. ~Has(open, {"TR"})
      <4> SUFFICES ASSUME NEW i \in 1..Len(open), open[i].type = "TR" PROVE FALSE
        BY DEF Has
      <4>1. i \in 1..Len(ex) /\ Len(ex) \in 1..Len(ex) /\ i < Len(ex) /\ ex[i].type = "TR"
            /\ ex[Len(ex)].type = "TR"
        BY <1>5, <1>6, <2>5 DEF Grown
      <4>2. "TR" \in Under("TR")
        BY <1>9, <4>1 DEF Stacked
      <4> QED BY <4>2 DEF Under, Cells, Spans
    <3>2. /\ w.row = r.row /\ w.cell = 0 /\ w.cols = r.cols /\ w.cells = r.cells
          /\ w.inTable = r.inTable
      BY <1>10, <2>5 DEF BlockTextEntered
    <3>3. r.inTable => \A i \in 1..MaxRows, c \in 1..MaxCols : \A p : Holds(r.cells[i][c], p) =>
                         i <= r.row /\ c <= r.cols
      BY <1>2, <3>1 DEF Filled
    <3>4. 0 \in 0..MaxCols
      BY <2>3
    <3> QED BY <2>2, <3>2, <3>3, <3>4 DEF Filled
  <2>6. CASE type \notin {"TABLE", "TR"}
    <3>1. Filled(open, w)
      BY <1>2, <1>10, <2>6 DEF Filled, BlockTextEntered
    <3> QED BY <2>1, <3>1, FilledWith
  <2> QED BY <2>4, <2>5, <2>6
<1>21. TextOK(ex, w, out, excused, fed)
  BY <1>9, <1>11, <1>12, <1>18, <1>19, <1>20 DEF TextOK
<1> QED BY <1>1, <1>3, <1>4, <1>21 DEF TextOK

\* The stack when the innermost is left.
LEMMA LeavesSeen ==
  ASSUME NEW op \in Seq(Nodes), NEW ex, Shrunk(op, ex), NEW m, NEW w, NEW t, t = op[Len(op)].type,
         Stacked(op), Seen(op, m), m.row \in 0..MaxRows, m.cell \in 0..MaxCols,
         t = "TR" => w.row <= m.row + 1 /\ w.row \in Nat,
         t # "TR" => w.row = m.row,
         t \in Cells => w.cell <= m.cell + 1 /\ w.cell \in Nat,
         t \notin Cells => w.cell = m.cell
  PROVE  Seen(ex, w)
<1>1. Len(op) \in Nat /\ Len(ex) = Len(op) - 1 /\ Len(op) # 0
  BY LenProperties, EmptySeq DEF Shrunk
<1>2. \A i \in 1..Len(ex) : i \in 1..Len(op) /\ ex[i] = op[i]
  BY <1>1 DEF Shrunk
<1>3. \A types : Has(op, types) <=> Has(ex, types) \/ t \in types
  BY HasShrunk
<1>4. \A types : (\A u \in types : t \notin Under(u)) => ~Has(ex, types)
  BY LastIn
<1>5. m.row \in Nat /\ m.cell \in Nat
  BY MarkdownAssumption DEF MarkdownAssumption
<1>6. \A i \in 1..Len(op) : op[i].rows \in Nat
  <2>1. \A i \in 1..Len(op) : op[i] \in Nodes
    OBVIOUS
  <2> QED BY <2>1 DEF Nodes
<1>7. CASE t = "TR"
  <2>1. ~Has(ex, {"TR"}) /\ Has(op, {"TR"})
    <3>1. \A u \in {"TR"} : t \notin Under(u)
      BY <1>7 DEF Under, Cells, Spans
    <3> QED BY <1>3, <1>4, <1>7, <3>1
  <2>2. \A i \in 1..Len(ex) : ex[i].type # "TR"
    BY <2>1 DEF Has
  <2>3. ASSUME NEW i \in 1..Len(ex), ex[i].type = "TABLE"
        PROVE  w.row + 0 <= ex[i].rows
    <3>1. i \in 1..Len(op) /\ ex[i] = op[i] /\ op[i].type = "TABLE"
      BY <1>2, <2>3
    <3>2. m.row + 1 <= op[i].rows /\ op[i].rows \in Nat
      BY <1>6, <2>1, <3>1 DEF Seen
    <3> QED BY <1>5, <1>7, <3>1, <3>2
  <2> QED BY <2>1, <2>2, <2>3 DEF Seen
<1>8. CASE t \in Cells
  <2>1. ~Has(ex, Cells) /\ Has(op, Cells)
    <3>1. \A u \in Cells : t \notin Under(u)
      BY <1>8 DEF Under, Cells, Spans
    <3> QED BY <1>3, <1>4, <1>8, <3>1
  <2>2. w.row = m.row /\ w.cell <= m.cell + 1 /\ w.cell \in Nat
    BY <1>8 DEF Cells
  <2>3. Has(ex, {"TR"}) => Has(op, {"TR"})
    BY <1>3
  <2>4. ASSUME NEW i \in 1..Len(ex), ex[i].type = "TABLE"
        PROVE  w.row + (IF Has(ex, {"TR"}) THEN 1 ELSE 0) <= ex[i].rows
    <3>1. i \in 1..Len(op) /\ ex[i] = op[i] /\ op[i].type = "TABLE"
      BY <1>2, <2>4
    <3>2. m.row + (IF Has(op, {"TR"}) THEN 1 ELSE 0) <= op[i].rows /\ op[i].rows \in Nat
      BY <1>6, <3>1 DEF Seen
    <3> QED BY <1>5, <2>2, <2>3, <3>1, <3>2
  <2>5. ASSUME NEW i \in 1..Len(ex), ex[i].type = "TR"
        PROVE  w.cell + 0 <= ex[i].rows
    <3>1. i \in 1..Len(op) /\ ex[i] = op[i] /\ op[i].type = "TR"
      BY <1>2, <2>5
    <3>2. m.cell + 1 <= op[i].rows /\ op[i].rows \in Nat
      BY <1>6, <2>1, <3>1 DEF Seen
    <3> QED BY <1>5, <2>2, <3>1, <3>2
  <2> QED BY <2>1, <2>4, <2>5 DEF Seen
<1>9. CASE t \notin Cells \cup {"TR"}
  <2>1. w.row = m.row /\ w.cell = m.cell
    BY <1>9
  <2>2. (Has(ex, {"TR"}) => Has(op, {"TR"})) /\ (Has(ex, Cells) => Has(op, Cells))
    BY <1>3
  <2>3. \A i \in 1..Len(ex) : ex[i].rows \in Nat
    BY <1>2, <1>6
  <2>4. \A i \in 1..Len(ex) : ex[i].type \in {"TABLE", "TR"} =>
          i \in 1..Len(op) /\ ex[i].type = op[i].type /\ ex[i].rows = op[i].rows
    BY <1>2
  <2> QED BY <1>5, <2>1, <2>2, <2>3, <2>4, SeenWith
<1> QED BY <1>7, <1>8, <1>9

LEMMA LeavesFilled ==
  ASSUME NEW op \in Seq(Nodes), NEW ex, Shrunk(op, ex), NEW m, NEW w, NEW t, t = op[Len(op)].type,
         Stacked(op), Filled(op, m), BlockTextLeft(m, w, t)
  PROVE  Filled(ex, w)
<1>1. \A types : Has(op, types) <=> Has(ex, types) \/ t \in types
  BY HasShrunk
<1>2. \A types : (\A u \in types : t \notin Under(u)) => ~Has(ex, types)
  BY LastIn
<1>3. m.row \in 0..MaxRows /\ m.cell \in 0..MaxCols /\ m.cols \in 0..MaxCols
  BY DEF Filled
<1>4. MaxRows \in Nat /\ MaxCols \in Nat
  BY MarkdownAssumption DEF MarkdownAssumption
<1>5. CASE t = "TABLE"
  <2>1. w.inTable = FALSE /\ w.row = m.row /\ w.cell = m.cell /\ w.cols = m.cols
    BY <1>5 DEF BlockTextLeft, Cells
  <2> QED BY <1>3, <2>1 DEF Filled
<1>6. CASE t = "TR"
  <2>1. ~Has(op, Cells)
    <3>1. \A u \in Cells : t \notin Under(u)
      BY <1>6 DEF Under, Cells, Spans
    <3>2. t \notin Cells
      BY <1>6 DEF Cells
    <3> QED BY <1>1, <1>2, <3>1, <3>2
  <2>2. w.inTable = m.inTable /\ w.cells = m.cells /\ w.cell = m.cell
    BY <1>6 DEF BlockTextLeft, Cells
  <2>3. m.inTable => \A i \in 1..MaxRows, c \in 1..MaxCols : \A p : Holds(m.cells[i][c], p) =>
                       /\ i <= m.row \/ (i = m.row + 1 /\ c <= m.cell)
                       /\ i <= m.row => c <= m.cols
    BY <2>1 DEF Filled
  <2>4. CASE m.row < MaxRows
    <3>1. w.row = m.row + 1 /\ w.cols = AtLeast(m.cols, m.cell)
      BY <1>6, <2>4 DEF BlockTextLeft
    <3>2. /\ w.row \in 0..MaxRows /\ w.cols \in 0..MaxCols
          /\ w.cols >= m.cols /\ w.cols >= m.cell
      BY <1>3, <1>4, <2>4, <3>1 DEF AtLeast
    <3>3. ASSUME m.inTable, NEW i \in 1..MaxRows, NEW c \in 1..MaxCols, NEW p, Holds(m.cells[i][c], p)
          PROVE  i <= w.row /\ c <= w.cols
      <4>1. /\ i <= m.row \/ (i = m.row + 1 /\ c <= m.cell)
            /\ i <= m.row => c <= m.cols
        BY <2>3, <3>3
      <4> QED BY <1>3, <1>4, <3>1, <3>2, <4>1
    <3> QED BY <1>3, <2>2, <3>2, <3>3 DEF Filled
  <2>5. CASE ~(m.row < MaxRows)
    <3>1. w.row = m.row /\ w.cols = m.cols
      BY <2>5 DEF BlockTextLeft
    <3>2. \A i \in 1..MaxRows : i <= m.row
      BY <1>3, <1>4, <2>5
    <3> QED BY <1>3, <2>2, <2>3, <3>1, <3>2 DEF Filled
  <2> QED BY <2>4, <2>5
<1>7. CASE t \in Cells
  <2>1. /\ w.inTable = m.inTable /\ w.cells = m.cells /\ w.row = m.row /\ w.cols = m.cols
        /\ w.cell = AtMost(m.cell + 1, MaxCols)
    BY <1>7 DEF BlockTextLeft, Cells
  <2>2. w.cell \in 0..MaxCols /\ \A c \in 1..MaxCols : c <= m.cell + 1 => c <= w.cell
    BY <1>3, <1>4, <2>1 DEF AtMost
  <2>3. Has(ex, {"TR"}) <=> Has(op, {"TR"})
    <3>1. t \notin {"TR"}
      BY <1>7 DEF Cells
    <3> QED BY <1>1, <3>1
  <2>4. ASSUME m.inTable, NEW i \in 1..MaxRows, NEW c \in 1..MaxCols, NEW p, Holds(m.cells[i][c], p)
        PROVE  /\ i <= m.row \/ (Has(ex, {"TR"}) /\ i = m.row + 1 /\ c <= w.cell)
               /\ i <= m.row => c <= m.cols
    <3>1. /\ i <= m.row \/ (Has(op, {"TR"}) /\ i = m.row + 1 /\ (c <= m.cell \/ c = m.cell + 1))
          /\ i <= m.row => c <= m.cols
      BY <2>4 DEF Filled
    <3>2. c <= m.cell \/ c = m.cell + 1 => c <= w.cell
      BY <1>3, <1>4, <2>2
    <3> QED BY <2>3, <3>1, <3>2
  <2> QED BY <1>3, <2>1, <2>2, <2>4 DEF Filled
<1>8. CASE t \notin Cells \cup {"TABLE", "TR"}
  <2>1. /\ w.inTable = m.inTable /\ w.cells = m.cells /\ w.row = m.row /\ w.cols = m.cols
        /\ w.cell = m.cell
    BY <1>8 DEF BlockTextLeft
  <2>2. Filled(op, w)
    BY <2>1 DEF Filled
  <2>3. (Has(op, {"TR"}) => Has(ex, {"TR"})) /\ (Has(op, Cells) => Has(ex, Cells))
    BY <1>1, <1>8
  <2> QED BY <2>2, <2>3, FilledWith
<1> QED BY <1>5, <1>6, <1>7, <1>8

\* A code block and a table, as they are drawn.
LEMMA CodeDrawn ==
  ASSUME NEW m, NEW w, NEW o, NEW n, NEW xs, NEW art, InOrder(m, o, n), Kept(m, o, xs, n),
         m.alt = <<>>, m.inTable = FALSE, w.alt = <<>>, w.code = <<>>, w.inTable = FALSE,
         NEW x, x = IF art THEN Pieces(m.code) ELSE InBox(m),
         NEW ys, ys = IF art THEN xs ELSE xs \cup (ToSet(Pieces(m.code)) \ ToSet(InBox(m)))
  PROVE  InOrder(w, o \o x, n) /\ Kept(w, o \o x, ys, n)
<1>1. m.code \in Seq(Nat) /\ Rising(m.code) /\ UpTo(m.code, n) /\ Ahead(o, m.code) /\ n \in Nat
  BY DEF InOrder, Fine
<1>2. /\ Pieces(m.code) \in Seq(Nat) /\ Solid(Pieces(m.code))
      /\ \A p : Holds(Pieces(m.code), p) <=> Holds(m.code, p)
      /\ Rising(Pieces(m.code))
  BY <1>1, PiecesHow DEF Solid
<1>3. /\ InBox(m) \in Seq(Nat) /\ Rising(InBox(m)) /\ Solid(InBox(m))
      /\ \A p : Holds(InBox(m), p) => Holds(m.code, p)
  BY <1>1, InBoxHow DEF Solid
<1>4. x \in Seq(Nat) /\ Rising(x) /\ Solid(x) /\ \A p : Holds(x, p) => Holds(m.code, p)
  BY <1>2, <1>3
<1>5. Fine(x, n) /\ Ahead(o, x)
  BY <1>1, <1>4 DEF Fine, UpTo, Ahead
<1>6. InOrder(w, o \o x, n) /\ \A p : Holds(o \o x, p) <=> Holds(o, p) \/ Holds(x, p)
  BY <1>4, <1>5, PrintOut
<1>7. ys \subseteq 1..n
  <2> SUFFICES ASSUME NEW p \in ToSet(Pieces(m.code)) PROVE p \in 1..n
    BY DEF Kept
  <2>1. Holds(Pieces(m.code), p)
    BY <1>2 DEF ToSet, Holds, Solid
  <2>2. p \in Nat /\ p > 0 /\ p <= n
    BY <1>1, <1>2, <2>1, HeldNat DEF UpTo
  <2> QED BY <1>1, <2>2
<1>8. ASSUME NEW p \in 1..n PROVE p \in ys \/ Holds(o \o x, p)
  <2>1. p \in xs \/ Holds(o, p) \/ Holds(m.code, p)
    BY EmptyHow DEF Kept
  <2>2. CASE Holds(m.code, p)
    <3>1. Holds(Pieces(m.code), p)
      BY <1>2, <2>2
    <3>2. p # Filler
      BY <2>2 DEF Holds
    <3>3. p \in ToSet(Pieces(m.code)) /\ (p \in ToSet(InBox(m)) => Holds(InBox(m), p))
      BY <1>2, <1>3, <3>1, <3>2, InToSet
    <3> QED BY <1>6, <3>1, <3>3
  <2>3. CASE p \in xs \/ Holds(o, p)
    BY <1>6, <2>3
  <2> QED BY <2>1, <2>2, <2>3
<1> QED BY <1>6, <1>7, <1>8 DEF Kept

LEMMA InTableText ==
  ASSUME NEW m, NEW p
  PROVE  p \in TableText(m) <=> \E i \in 1..m.row, c \in 1..m.cols : p \in ToSet(Pieces(m.cells[i][c]))
BY SMT DEF TableText

LEMMA TableDrawn ==
  ASSUME NEW op, NEW m, NEW w, NEW o, NEW n, NEW xs, InOrder(m, o, n), Kept(m, o, xs, n),
         Filled(op, m), ~Has(op, {"TR"}),
         m.alt = <<>>, m.code = <<>>, m.inTable = TRUE, w.alt = <<>>, w.code = <<>>, w.inTable = FALSE,
         NEW ys, ys = xs \cup (TableText(m) \ ToSet(InTable(m)))
  PROVE  InOrder(w, o \o InTable(m), n) /\ Kept(w, o \o InTable(m), ys, n)
<1>1. m.row \in 0..MaxRows /\ m.cols \in 0..MaxCols /\ MaxRows \in Nat /\ MaxCols \in Nat
  BY MarkdownAssumption DEF Filled, MarkdownAssumption
<1>2. /\ m.cells \in Tables /\ Sorted(m) /\ n \in Nat
      /\ \A i \in 1..MaxRows, c \in 1..MaxCols :
           UpTo(m.cells[i][c], n) /\ Ahead(o, m.cells[i][c]) /\ m.cells[i][c] \in Seq(Nat)
  BY DEF InOrder, Tables
<1>3. PICK x : x = InTable(m)
  OBVIOUS
<1>4. /\ x \in Seq(Nat) /\ Rising(x) /\ Solid(x)
      /\ \A p : Holds(x, p) => \E i \in 1..MaxRows, c \in 1..MaxCols : Holds(m.cells[i][c], p)
  <2>1. m.row \in Nat /\ m.row <= MaxRows
    BY <1>1
  <2>2. /\ InTable(m) \in Seq(Nat) /\ Rising(InTable(m))
        /\ \A k \in DOMAIN InTable(m) : InTable(m)[k] # Filler
        /\ \A p : Holds(InTable(m), p) =>
             \E i \in 1..MaxRows, c \in 1..MaxCols : Holds(m.cells[i][c], p)
    BY <1>1, <1>2, <2>1, InTableHow
  <2> QED BY <1>3, <2>2 DEF Solid
<1>5. Fine(x, n) /\ Ahead(o, x)
  BY <1>2, <1>4 DEF Fine, UpTo, Ahead
<1>6. InOrder(w, o \o x, n) /\ \A p : Holds(o \o x, p) <=> Holds(o, p) \/ Holds(x, p)
  BY <1>4, <1>5, PrintOut
<1>7. ASSUME NEW i \in 1..MaxRows, NEW c \in 1..MaxCols
      PROVE  /\ Pieces(m.cells[i][c]) \in Seq(Nat) /\ Solid(Pieces(m.cells[i][c]))
             /\ \A p : Holds(Pieces(m.cells[i][c]), p) <=> Holds(m.cells[i][c], p)
  BY <1>2, PiecesHow DEF Solid
<1>8. (\A i \in 1..m.row : i \in 1..MaxRows) /\ (\A c \in 1..m.cols : c \in 1..MaxCols)
  BY <1>1
<1>9. ys \subseteq 1..n
  <2> SUFFICES ASSUME NEW p \in TableText(m) PROVE p \in 1..n
    BY DEF Kept
  <2>0. PICK i \in 1..m.row, c \in 1..m.cols : p \in ToSet(Pieces(m.cells[i][c]))
    BY InTableText
  <2>1. Holds(Pieces(m.cells[i][c]), p)
    BY <1>7, <1>8, <2>0 DEF ToSet, Holds, Solid
  <2>2. Holds(m.cells[i][c], p)
    BY <1>7, <1>8, <2>1
  <2>3. p \in Nat /\ p > 0 /\ p <= n
    BY <1>2, <1>8, <2>2, HeldNat DEF UpTo
  <2> QED BY <1>2, <2>3
<1>10. ASSUME NEW p \in 1..n PROVE p \in ys \/ Holds(o \o x, p)
  <2>1. p \in xs \/ Holds(o, p) \/ InCells(m, p)
    BY EmptyHow DEF Kept
  <2>2. CASE InCells(m, p)
    <3>1. PICK i \in 1..MaxRows, c \in 1..MaxCols : Holds(m.cells[i][c], p)
      BY <2>2 DEF InCells
    <3>2. i <= m.row /\ c <= m.cols
      BY <3>1 DEF Filled
    <3>3. i \in 1..m.row /\ c \in 1..m.cols
      BY <1>1, <3>2
    <3>4. p # Filler /\ Holds(Pieces(m.cells[i][c]), p)
      <4>1. p # Filler
        BY <3>1 DEF Holds
      <4> QED BY <1>7, <3>1, <4>1
    <3>5. p \in ToSet(Pieces(m.cells[i][c])) /\ (p \in ToSet(x) => Holds(x, p))
      BY <1>4, <1>7, <3>4, InToSet
    <3>6. p \in TableText(m)
      BY <3>3, <3>5, InTableText
    <3> QED BY <1>3, <1>6, <3>5, <3>6
  <2>3. CASE p \in xs \/ Holds(o, p)
    BY <1>6, <2>3
  <2> QED BY <2>1, <2>2, <2>3
<1> QED BY <1>3, <1>6, <1>9, <1>10 DEF Kept

LEMMA LeaveBlockText ==
  ASSUME ReplyInv, NEW art \in BOOLEAN, LeaveBlock(art), TextInv
  PROVE  TextInv'
<1> SUFFICES ASSUME ~tangled PROVE TextOK(open, r, out, excused, fed)'
  BY DEF LeaveBlock, TextInv
<1>1. PICK t : t = Top.type
  OBVIOUS
<1>2. /\ ~Idle /\ t \notin Spans /\ r' = BlockLeft(r, t) /\ open' = Front(open) /\ fed' = fed
      /\ t = "CODE" =>
           /\ out' = out \o (IF art THEN Pieces(r.code) ELSE InBox(r))
           /\ excused' = IF art THEN excused
                         ELSE excused \cup (ToSet(Pieces(r.code)) \ ToSet(InBox(r)))
      /\ t = "TABLE" =>
           /\ out' = out \o InTable(r)
           /\ excused' = excused \cup (TableText(r) \ ToSet(InTable(r)))
      /\ t \notin {"CODE", "TABLE"} => out' = out \o <<>> /\ excused' = excused
  <2>1. /\ ~Idle /\ t \notin Spans /\ r' = BlockLeft(r, t) /\ open' = Front(open) /\ fed' = fed
    BY <1>1 DEF LeaveBlock
  <2>2. CASE t = "CODE"
    <3>1. CASE art
      BY <1>1, <2>1, <2>2, <3>1 DEF LeaveBlock
    <3>2. CASE ~art
      BY <1>1, <2>1, <2>2, <3>2 DEF LeaveBlock
    <3> QED BY <3>1, <3>2
  <2>3. CASE t = "TABLE"
    <3>1. out' = out \o InTable(r)
      BY <1>1, <2>3 DEF LeaveBlock
    <3>2. excused' = excused \cup (TableText(r) \ ToSet(InTable(r)))
      BY <1>1, <2>3 DEF LeaveBlock
    <3> QED BY <2>1, <2>3, <3>1, <3>2
  <2>4. CASE t \notin {"CODE", "TABLE"}
    <3>1. out' = out \o <<>>
      BY <1>1, <2>4 DEF LeaveBlock
    <3>2. excused' = excused \cup {}
      BY <1>1, <2>4 DEF LeaveBlock
    <3>3. excused' = excused
      BY <3>2
    <3> QED BY <2>1, <2>4, <3>1, <3>3
  <2> QED BY <2>2, <2>3, <2>4
<1>3. /\ Stacked(open) /\ Flagged(open, r) /\ Seen(open, r) /\ InOrder(r, out, fed)
      /\ Filled(open, r) /\ Kept(r, out, excused, fed)
  BY DEF TextInv, TextOK
<1>4. PICK ex : ex = open'
  OBVIOUS
<1>5. PICK w : w = r'
  OBVIOUS
<1>6. open \in Seq(Nodes) /\ Counting(r) /\ t = open[Len(open)].type /\ Shrunk(open, ex)
  BY <1>1, <1>2, <1>4, Opened, Shrinks
<1>7. \A types : Has(open, types) <=> Has(ex, types) \/ t \in types
  BY <1>6, HasShrunk
<1>8. \A types : (\A u \in types : t \notin Under(u)) => ~Has(ex, types)
  BY <1>3, <1>6, LastIn
<1>9. Stacked(ex)
  BY <1>3, <1>6, StackedShrunk
<1>10. BlockTextLeft(r, w, t)
  BY <1>2, <1>5, <1>6, BlockLeftText
<1>11. Filled(ex, w)
  BY <1>3, <1>6, <1>10, LeavesFilled
<1>12. r.row \in 0..MaxRows /\ r.cell \in 0..MaxCols /\ MaxRows \in Nat /\ MaxCols \in Nat
  BY <1>3, MarkdownAssumption DEF Filled, MarkdownAssumption
<1>13. Seen(ex, w)
  <2>1. t = "TR" => w.row <= r.row + 1 /\ w.row \in Nat
    BY <1>10, <1>12 DEF BlockTextLeft
  <2>2. t # "TR" => w.row = r.row
    BY <1>10 DEF BlockTextLeft
  <2>3. t \in Cells => w.cell <= r.cell + 1 /\ w.cell \in Nat
    <3>1. t \in Cells => w.cell = AtMost(r.cell + 1, MaxCols)
      BY <1>10 DEF BlockTextLeft
    <3> QED BY <1>12, <3>1 DEF AtMost
  <2>4. t \notin Cells => w.cell = r.cell
    BY <1>10 DEF BlockTextLeft
  <2> QED BY <1>3, <1>6, <1>12, <2>1, <2>2, <2>3, <2>4, LeavesSeen
<1>14. /\ t = "CODE" => ~Has(ex, {"CODE"}) /\ ~Has(open, {"TABLE"}) /\ ~Has(open, {"IMG"})
       /\ t = "TABLE" => /\ ~Has(ex, {"TABLE"}) /\ ~Has(ex, Cells) /\ ~Has(open, {"TR"})
                         /\ ~Has(open, {"IMG"}) /\ ~Has(open, {"CODE"})
       /\ t \in Cells => ~Has(ex, Cells)
  <2>1. t = "CODE" => \A u \in {"CODE", "TABLE", "IMG"} : t \notin Under(u)
    BY DEF Under, Cells, Spans
  <2>2. t = "TABLE" => \A u \in {"TABLE", "TR", "CODE", "IMG"} \cup Cells : t \notin Under(u)
    BY DEF Under, Cells, Spans
  <2>3. t \in Cells => \A u \in Cells : t \notin Under(u)
    BY DEF Under, Cells, Spans
  <2>4. CASE t = "CODE"
    <3>1. ~Has(ex, {"CODE"}) /\ ~Has(ex, {"TABLE"}) /\ ~Has(ex, {"IMG"})
      BY <1>8, <2>1, <2>4
    <3> QED BY <1>7, <2>4, <3>1 DEF Cells
  <2>5. CASE t = "TABLE"
    <3>1. /\ ~Has(ex, {"TABLE"}) /\ ~Has(ex, Cells) /\ ~Has(ex, {"TR"}) /\ ~Has(ex, {"IMG"})
          /\ ~Has(ex, {"CODE"})
      BY <1>8, <2>2, <2>5
    <3> QED BY <1>7, <2>5, <3>1 DEF Cells
  <2>6. CASE t \notin {"CODE", "TABLE"}
    BY <1>8, <2>3, <2>6
  <2> QED BY <2>4, <2>5, <2>6
<1>15. Flagged(ex, w)
  <2>1. /\ Has(open, {"CODE"}) <=> Has(ex, {"CODE"}) \/ t = "CODE"
        /\ Has(open, {"TABLE"}) <=> Has(ex, {"TABLE"}) \/ t = "TABLE"
        /\ Has(open, Cells) <=> Has(ex, Cells) \/ t \in Cells
        /\ Has(open, {"IMG"}) <=> Has(ex, {"IMG"})
    <3>1. t \notin {"IMG"}
      BY <1>2 DEF Spans
    <3> QED BY <1>7, <3>1
  <2> QED BY <1>3, <1>10, <1>14, <2>1 DEF Flagged, BlockTextLeft
<1>16. r.alt = <<>> \/ r.mode = "alt"
  BY <1>3 DEF InOrder
<1>17. InOrder(w, out', fed) /\ Kept(w, out', excused', fed)
  <2>1. CASE t = "CODE"
    <3>1. r.alt = <<>> /\ r.inTable = FALSE
      BY <1>3, <1>14, <1>16, <2>1 DEF Flagged
    <3>2. w.alt = <<>> /\ w.code = <<>> /\ w.inTable = FALSE
      BY <1>10, <2>1, <3>1 DEF BlockTextLeft
    <3>3. PICK x : x = IF art THEN Pieces(r.code) ELSE InBox(r)
      OBVIOUS
    <3>4. PICK ys : ys = IF art THEN excused ELSE excused \cup (ToSet(Pieces(r.code)) \ ToSet(InBox(r)))
      OBVIOUS
    <3>5. InOrder(w, out \o x, fed) /\ Kept(w, out \o x, ys, fed)
      BY <1>3, <3>1, <3>2, <3>3, <3>4, CodeDrawn
    <3>6. out' = out \o x /\ excused' = ys
      BY <1>2, <2>1, <3>3, <3>4
    <3> QED BY <3>5, <3>6
  <2>2. CASE t = "TABLE"
    <3>1. r.alt = <<>> /\ r.inTable = TRUE /\ r.inCode = FALSE
      <4>1. Has(open, {"TABLE"})
        BY <1>7, <2>2
      <4> QED BY <1>3, <1>14, <1>16, <2>2, <4>1 DEF Flagged
    <3>2. r.code = <<>>
      BY <1>3, <3>1 DEF InOrder
    <3>3. w.alt = <<>> /\ w.code = <<>> /\ w.inTable = FALSE
      BY <1>10, <2>2, <3>1, <3>2 DEF BlockTextLeft
    <3>4. PICK ys : ys = excused \cup (TableText(r) \ ToSet(InTable(r)))
      OBVIOUS
    <3>5. InOrder(w, out \o InTable(r), fed) /\ Kept(w, out \o InTable(r), ys, fed)
      BY <1>3, <1>14, <2>2, <3>1, <3>2, <3>3, <3>4, TableDrawn
    <3>6. out' = out \o InTable(r) /\ excused' = ys
      BY <1>2, <2>2, <3>4
    <3> QED BY <3>5, <3>6
  <2>3. CASE t \notin {"CODE", "TABLE"}
    <3>1. out \in Seq(Nat)
      BY <1>3 DEF InOrder, Fine
    <3>2. out' = out /\ excused' = excused
      BY <1>2, <2>3, <3>1, ConcatEmptySeq
    <3>3. /\ w.alt = r.alt /\ w.code = r.code /\ w.mode = r.mode /\ w.inCode = r.inCode
          /\ w.inTable = r.inTable /\ w.cells = r.cells
      BY <1>10, <2>3 DEF BlockTextLeft
    <3>4. w.inCode \/ w.code = <<>>
      BY <1>3, <3>3 DEF InOrder
    <3>5. w.mode = "alt" \/ w.alt = <<>>
      BY <1>16, <3>3
    <3>6. InOrder(w, out, fed) /\ Kept(w, out, excused, fed)
      BY <1>3, <3>3, <3>4, <3>5, OrderSame, KeptSame
    <3> QED BY <3>2, <3>6
  <2> QED BY <2>1, <2>2, <2>3
<1> QED BY <1>2, <1>4, <1>5, <1>9, <1>11, <1>13, <1>15, <1>17 DEF TextOK

LEMMA NothingText ==
  TextOK(<<>>, FreshRender, <<>>, {}, 0)
<1>1. Len(<<>>) = 0 /\ \A i : i \notin 1..0
  BY EmptyHow
<1>2. \A types : ~Has(<<>>, types)
  BY <1>1 DEF Has
<1>3. Stacked(<<>>) /\ \A m : Seen(<<>>, m)
  BY <1>1, <1>2 DEF Stacked, Seen
<1>4. /\ FreshRender.alt = <<>> /\ FreshRender.code = <<>> /\ FreshRender.inTable = FALSE
      /\ FreshRender.inCode = FALSE /\ FreshRender.inCell = FALSE /\ FreshRender.mode = "none"
      /\ FreshRender.row = 0 /\ FreshRender.cell = 0 /\ FreshRender.cols = 0
  BY DEF FreshRender
<1>5. Flagged(<<>>, FreshRender)
  BY <1>2, <1>4 DEF Flagged
<1>6. InOrder(FreshRender, <<>>, 0)
  BY <1>4, EmptyHow DEF InOrder
<1>7. Filled(<<>>, FreshRender)
  BY <1>4, MarkdownAssumption DEF Filled, MarkdownAssumption
<1>8. Kept(FreshRender, <<>>, {}, 0)
  BY <1>1 DEF Kept
<1> QED BY <1>3, <1>5, <1>6, <1>7, <1>8 DEF TextOK

LEMMA BeginText ==
  ASSUME ReplyInv, Begin, TextInv
  PROVE  TextInv'
<1> SUFFICES ASSUME ~tangled PROVE TextOK(open, r, out, excused, fed)'
  BY DEF Begin, TextInv
<1>1. open = <<>> /\ Len(open) = 0 /\ open \in Seq(Nodes)
  BY EmptySeq, Opened DEF Begin, Idle
<1>2. "DOC" \in Kinds /\ 0 \in Nat /\ "DOC" \notin Cells /\ "DOC" \notin Spans
  BY DEF Kinds, Cells, Spans
<1>3. Append(open, Node("DOC", FALSE, 0)) = open'
  BY <1>1 DEF Begin
<1>4. PICK ex : ex = open'
  OBVIOUS
<1>5. Grown(open, entered, "DOC", 0, ex)
  BY <1>1, <1>2, <1>3, <1>4, Grows
<1>6. \A types : Has(ex, types) <=> Has(open, types) \/ "DOC" \in types
  BY <1>1, <1>5, HasGrown
<1>7. /\ Stacked(open) /\ Flagged(open, r) /\ Seen(open, r) /\ InOrder(r, out, fed)
      /\ Filled(open, r) /\ Kept(r, out, excused, fed)
  BY DEF TextInv, TextOK
<1>8. /\ Has(ex, {"CODE"}) <=> Has(open, {"CODE"})
      /\ Has(ex, {"TABLE"}) <=> Has(open, {"TABLE"})
      /\ Has(ex, {"TR"}) <=> Has(open, {"TR"})
      /\ Has(ex, {"IMG"}) <=> Has(open, {"IMG"})
      /\ Has(ex, {"THEAD", "TBODY"}) <=> Has(open, {"THEAD", "TBODY"})
      /\ Has(ex, Cells) <=> Has(open, Cells)
      /\ Has(ex, Spans) <=> Has(open, Spans)
  BY <1>2, <1>6
<1>9. Len(ex) = 1 /\ ex[1].type = "DOC" /\ \A i \in 1..1 : i = 1
  BY <1>1, <1>5 DEF Grown
<1>10. Stacked(ex)
  <2>1. \A i, j \in 1..Len(ex) : ~(i < j)
    BY <1>9
  <2> QED BY <1>7, <1>8, <2>1 DEF Stacked
<1>11. Seen(ex, r)
  BY <1>9 DEF Seen
<1>12. Flagged(ex, r) /\ Filled(ex, r)
  BY <1>7, <1>8, FilledWith DEF Flagged
<1>13. TextOK(ex, r, out, excused, fed)
  BY <1>7, <1>10, <1>11, <1>12 DEF TextOK
<1> QED BY <1>4, <1>13 DEF Begin, TextOK

\* Text is in a cell, if it is in a table, and in no code block but one that is innermost.
LEMMA TextPlace ==
  ASSUME ReplyInv, ~Idle, Stacked(open),
         HoldsText \/ Top.type \in {"CODE", "CODESPAN"} \/ Top.type \in Spans
  PROVE  /\ Has(open, {"TABLE"}) => Has(open, Cells)
         /\ Has(open, {"IMG"}) /\ Has(open, {"CODE"}) => FALSE
         /\ Top.type # "CODE" => ~Has(open, {"CODE"})
         /\ Top.type = "CODE" => ~Has(open, {"IMG"}) /\ ~Has(open, {"TABLE"})
<1>1. /\ open \in Seq(Nodes) /\ Len(open) \in Nat /\ Len(open) \in 1..Len(open)
      /\ Top = open[Len(open)] /\ Top.type \in Kinds
  BY Opened
<1>2. \A i \in 1..Len(open) : Top.type \in Under(open[i].type) \/ i = Len(open)
  <2> SUFFICES ASSUME NEW i \in 1..Len(open) PROVE Top.type \in Under(open[i].type) \/ i = Len(open)
    OBVIOUS
  <2>1. i < Len(open) \/ i = Len(open)
    BY <1>1
  <2> QED BY <1>1, <2>1 DEF Stacked
<1>3. \A types : Top.type \in types => Has(open, types)
  BY <1>1 DEF Has
<1>4. Has(open, {"TABLE"}) => Has(open, Cells)
  <2> SUFFICES ASSUME NEW i \in 1..Len(open), open[i].type = "TABLE" PROVE Has(open, Cells)
    BY DEF Has
  <2>1. Top.type \in Under("TABLE") \/ Top.type = "TABLE"
    BY <1>1, <1>2
  <2>2. Top.type \in Cells \cup Spans
    BY <2>1 DEF Under, HoldsText, Inside, Cells, Spans, Lists, Blocks
  <2>3. Has(open, {"TABLE"})
    BY DEF Has
  <2> QED BY <1>3, <2>2, <2>3 DEF Stacked
<1>5. Top.type # "CODE" => ~Has(open, {"CODE"})
  BY NotInCode DEF Has
<1>6. Top.type = "CODE" => ~Has(open, {"IMG"}) /\ ~Has(open, {"TABLE"})
  <2> SUFFICES ASSUME Top.type = "CODE", NEW i \in 1..Len(open), open[i].type \in {"IMG", "TABLE"}
               PROVE  FALSE
    BY DEF Has
  <2>1. "CODE" \in Under(open[i].type)
    BY <1>1, <1>2
  <2> QED BY <2>1 DEF Under, Cells, Spans
<1> QED BY <1>4, <1>5, <1>6

LEMMA EnterSpanText ==
  ASSUME ReplyInv, NEW type \in Spans, EnterSpan(type), TextInv
  PROVE  TextInv'
<1> SUFFICES ASSUME ~tangled' PROVE TextOK(open, r, out, excused, fed)'
  BY DEF TextInv
<1>1. /\ ~Idle /\ HoldsText /\ r' = SpanEntered(r, type)
      /\ open' = Append(open, Node(type, FALSE, 0))
      /\ out' = out /\ excused' = excused /\ fed' = fed
      /\ ~tangled /\ (type \in {"A", "IMG"} => ~In({"IMG"}))
  BY DEF EnterSpan
<1>2. /\ Stacked(open) /\ Flagged(open, r) /\ Seen(open, r) /\ InOrder(r, out, fed)
      /\ Filled(open, r) /\ Kept(r, out, excused, fed)
  BY <1>1 DEF TextInv, TextOK
<1>3. PICK ex : ex = open'
  OBVIOUS
<1>4. PICK w : w = r'
  OBVIOUS
<1>5. /\ open \in Seq(Nodes) /\ Len(open) \in Nat /\ Counting(r) /\ DOMAIN open = 1..Len(open)
      /\ Top = open[Len(open)] /\ Top.type \in Kinds /\ open # <<>>
  BY <1>1, Opened DEF Idle
<1>6. type \in {"A", "IMG"} => ~Has(open, {"IMG"})
  BY <1>1, <1>5 DEF In, Has
<1>7. type \in Kinds /\ type \notin Cells \cup {"TABLE", "TR", "CODE"} /\ 0 \in Nat
  BY DEF Kinds, Spans, Cells
<1>8. Append(open, Node(type, FALSE, 0)) = ex /\ Grown(open, entered, type, 0, ex)
  BY <1>1, <1>3, <1>5, <1>7, Grows
<1>9. \A types : Has(ex, types) <=> Has(open, types) \/ type \in types
  BY <1>5, <1>8, HasGrown
<1>10. type \in Inside(Top.type) \/ (Top.type = "LI" /\ type \in Spans)
  BY <1>1 DEF HoldsText
<1>11. Stacked(ex)
  BY <1>2, <1>5, <1>6, <1>7, <1>8, <1>10, StackedGrown
<1>12. LET x == SpanEntered(r, type)
       IN  /\ type = "A" => Beside(r, x) /\ x.mode = "link" /\ x.alt = r.alt
           /\ type = "IMG" => Beside(r, x) /\ x.mode = "alt" /\ x.alt = <<>>
           /\ type \notin {"A", "IMG"} =>
                /\ x.mode = r.mode /\ x.alt = r.alt
                /\ Beside(r, x) \/ (r.inTable /\ r.inCell /\ Put(r, x, <<Filler>>))
  BY <1>5, SpanEnteredText
<1>13. /\ type = "A" => Beside(r, w) /\ w.mode = "link" /\ w.alt = r.alt
       /\ type = "IMG" => Beside(r, w) /\ w.mode = "alt" /\ w.alt = <<>>
       /\ type \notin {"A", "IMG"} =>
            /\ w.mode = r.mode /\ w.alt = r.alt
            /\ Beside(r, w) \/ (r.inTable /\ r.inCell /\ Put(r, w, <<Filler>>))
  BY <1>1, <1>4, <1>12
<1>14. /\ w.inCode = r.inCode /\ w.inTable = r.inTable /\ w.inCell = r.inCell
       /\ w.row = r.row /\ w.cell = r.cell
  BY <1>13 DEF Beside, Put
<1>15. /\ Has(ex, {"CODE"}) <=> Has(open, {"CODE"})
       /\ Has(ex, {"TABLE"}) <=> Has(open, {"TABLE"})
       /\ Has(ex, {"TR"}) <=> Has(open, {"TR"})
       /\ Has(ex, Cells) <=> Has(open, Cells)
       /\ Has(ex, {"IMG"}) <=> Has(open, {"IMG"}) \/ type = "IMG"
  BY <1>7, <1>9
<1>16. Flagged(ex, w)
  BY <1>2, <1>6, <1>13, <1>14, <1>15 DEF Flagged
<1>17. Seen(ex, w)
  <2>1. /\ ex \in Seq(Nodes) /\ Len(ex) = Len(open) + 1 /\ ex[Len(ex)].type = type
        /\ \A i \in 1..Len(open) : ex[i] = open[i]
    <3>1. PICK node : node = Node(type, FALSE, 0)
      OBVIOUS
    <3>2. node \in Nodes /\ node.type = type
      BY <1>7, <3>1, Opened DEF Node, Nodes
    <3>3. /\ Append(open, node) \in Seq(Nodes) /\ Len(Append(open, node)) = Len(open) + 1
          /\ Append(open, node)[Len(open) + 1] = node
          /\ \A i \in 1..Len(open) : Append(open, node)[i] = open[i]
      BY <1>5, <3>2, AppendProperties
    <3>4. ex = Append(open, node)
      BY <1>8, <3>1
    <3>5. Len(ex) = Len(open) + 1 /\ ex[Len(open) + 1] = node
      BY <3>3, <3>4
    <3> QED BY <3>2, <3>3, <3>4, <3>5
  <2>2. \A i \in 1..Len(ex) : i \in 1..Len(open) \/ i = Len(ex)
    BY <1>5, <2>1
  <2>3. \A i \in 1..Len(ex) : ex[i].type \in {"TABLE", "TR"} =>
          i \in 1..Len(open) /\ ex[i].type = open[i].type /\ ex[i].rows = open[i].rows
    BY <1>7, <2>1, <2>2
  <2>4. \A i \in 1..Len(ex) : ex[i].rows \in Nat
    <3>1. \A i \in 1..Len(ex) : ex[i] \in Nodes
      BY <2>1
    <3> QED BY <3>1 DEF Nodes
  <2>5. r.row \in Nat /\ r.cell \in Nat
    BY <1>2, MarkdownAssumption DEF Filled, MarkdownAssumption
  <2> QED BY <1>2, <1>14, <1>15, <2>3, <2>4, <2>5, SeenWith
<1>18. InOrder(w, out, fed) /\ Filled(open, w) /\ Kept(w, out, excused, fed)
  <2>1. r.alt = <<>> \/ r.mode = "alt"
    BY <1>2 DEF InOrder
  <2>2. type \in {"A", "IMG"} => r.alt = <<>>
    BY <1>2, <1>6, <2>1 DEF Flagged
  <2>3. w.alt = r.alt /\ (w.mode = "alt" \/ w.alt = <<>>)
    BY <1>13, <2>1, <2>2
  <2>4. CASE Beside(r, w)
    BY <1>2, <2>3, <2>4, BesideHolds
  <2>5. CASE r.inTable /\ r.inCell /\ Put(r, w, <<Filler>>)
    <3>1. Has(open, Cells) /\ Has(open, {"TR"})
      BY <1>2, <2>5 DEF Flagged, Stacked
    <3> QED BY <1>2, <2>3, <2>5, <3>1, FillerPut
  <2> QED BY <1>13, <2>4, <2>5
<1>19. Filled(ex, w)
  BY <1>15, <1>18, FilledWith
<1> QED BY <1>1, <1>3, <1>4, <1>11, <1>16, <1>17, <1>18, <1>19 DEF TextOK

LEMMA InCellText ==
  ASSUME NEW m, NEW p
  PROVE  p \in CellText(m) <=> \E i \in 1..MaxRows, c \in 1..MaxCols : p \in ToSet(m.cells[i][c])
BY SMT DEF CellText

\* An image's text is put to the cell the image is in.
LEMMA AltPut ==
  ASSUME NEW op, NEW m, NEW w, NEW o, NEW n, NEW xs, InOrder(m, o, n), Filled(op, m),
         Kept(m, o, xs, n), m.inTable, Has(op, {"TR"}), Has(op, Cells), m.code = <<>>,
         Put(m, w, <<Filler>> \o m.alt), w.alt = <<>>,
         NEW ys, ys = xs \cup (ToSet(m.alt) \ CellText(w))
  PROVE  InOrder(w, o, n) /\ Filled(op, w) /\ Kept(w, o, ys, n)
<1>1. /\ m.alt \in Seq(Nat) /\ Rising(m.alt) /\ UpTo(m.alt, n) /\ Solid(m.alt) /\ Ahead(o, m.alt)
      /\ n \in Nat
      /\ \A i \in 1..MaxRows, c \in 1..MaxCols : Ahead(m.cells[i][c], m.alt)
  BY DEF InOrder, Fine
<1>2. PICK f : f = <<Filler>>
  OBVIOUS
<1>3. f \in Seq(Nat) /\ Rising(f) /\ \A p : ~Holds(f, p)
  BY <1>2, SingleHow DEF Filler
<1>4. PICK s : s = f \o m.alt
  OBVIOUS
<1>5. /\ s \in Seq(Nat) /\ Rising(s) /\ \A p : Holds(s, p) <=> Holds(m.alt, p)
  <2>1. Ahead(f, m.alt)
    BY <1>3 DEF Ahead
  <2> QED BY <1>1, <1>3, <1>4, <2>1, ConcatHow
<1>6. UpTo(s, n) /\ Ahead(o, s) /\ \A i \in 1..MaxRows, c \in 1..MaxCols : Ahead(m.cells[i][c], s)
  BY <1>1, <1>5 DEF UpTo, Ahead
<1>7. Put(m, w, s)
  BY <1>2, <1>4
<1>8. Ahead(s, w.alt)
  BY EmptyHow
<1>9. InOrder(w, o, n) /\ Filled(op, w) /\ \A p : InCells(m, p) => InCells(w, p)
  BY <1>5, <1>6, <1>7, <1>8, PutOrder
<1>10. w.inTable /\ w.cells \in Tables
  BY <1>7, <1>9 DEF Put, InOrder
<1>11. ys \subseteq 1..n
  <2> SUFFICES ASSUME NEW p \in ToSet(m.alt) PROVE p \in 1..n
    BY DEF Kept
  <2>1. Holds(m.alt, p)
    BY <1>1 DEF ToSet, Holds, Solid
  <2>2. p \in Nat /\ p > 0 /\ p <= n
    BY <1>1, <2>1, HeldNat DEF UpTo
  <2> QED BY <1>1, <2>2
<1>12. ASSUME NEW p \in 1..n PROVE p \in ys \/ Holds(o, p) \/ InCells(w, p)
  <2>1. p \in xs \/ Holds(o, p) \/ Holds(m.alt, p) \/ InCells(m, p)
    BY EmptyHow DEF Kept
  <2>2. CASE Holds(m.alt, p)
    <3>1. p # Filler
      BY <2>2 DEF Holds
    <3>2. p \in ToSet(m.alt)
      BY <1>1, <2>2, <3>1, InToSet
    <3>3. p \in CellText(w) => InCells(w, p)
      <4> SUFFICES ASSUME p \in CellText(w) PROVE InCells(w, p)
        OBVIOUS
      <4>1. PICK i \in 1..MaxRows, c \in 1..MaxCols : p \in ToSet(w.cells[i][c])
        BY InCellText
      <4>2. w.cells[i][c] \in Seq(Nat)
        BY <1>10 DEF Tables
      <4>3. Holds(w.cells[i][c], p)
        BY <3>1, <4>1, <4>2, InToSet
      <4> QED BY <4>3 DEF InCells
    <3> QED BY <3>2, <3>3
  <2> QED BY <1>9, <2>1, <2>2
<1> QED BY <1>9, <1>10, <1>11, <1>12 DEF Kept

\* An image's text is printed.
LEMMA AltOut ==
  ASSUME NEW op, NEW m, NEW w, NEW o, NEW n, NEW xs, InOrder(m, o, n), Filled(op, m),
         Kept(m, o, xs, n), m.inTable = FALSE, m.code = <<>>, Beside(m, w), w.alt = <<>>
  PROVE  InOrder(w, o \o m.alt, n) /\ Filled(op, w) /\ Kept(w, o \o m.alt, xs, n)
<1>1. w.code = <<>> /\ w.inTable = FALSE
  BY DEF Beside
<1>2. PICK x : x = m.alt
  OBVIOUS
<1>3. Fine(x, n) /\ Solid(x) /\ Ahead(o, x)
  BY <1>2 DEF InOrder
<1>4. InOrder(w, o \o x, n) /\ \A p : Holds(o \o x, p) <=> Holds(o, p) \/ Holds(x, p)
  BY <1>1, <1>3, PrintOut
<1>5. Kept(w, o \o x, xs, n)
  BY <1>2, <1>4, EmptyHow DEF Kept
<1>6. Filled(op, w)
  BY DEF Filled, Beside
<1> QED BY <1>2, <1>4, <1>5, <1>6

LEMMA LeaveSpanText ==
  ASSUME ReplyInv, LeaveSpan, TextInv
  PROVE  TextInv'
<1> SUFFICES ASSUME ~tangled PROVE TextOK(open, r, out, excused, fed)'
  BY DEF LeaveSpan, TextInv
<1>1. PICK t : t = Top.type
  OBVIOUS
<1>2. /\ ~Idle /\ t \in Spans /\ r' = SpanLeft(r, t) /\ open' = Front(open) /\ fed' = fed
      /\ t = "IMG" /\ ~(r.inTable /\ r.inCell) => out' = out \o r.alt /\ excused' = excused
      /\ t = "IMG" /\ (r.inTable /\ r.inCell) =>
           out' = out \o <<>> /\ excused' = excused \cup (ToSet(r.alt) \ CellText(r'))
      /\ t # "IMG" => out' = out \o <<>> /\ excused' = excused
  <2>1. /\ ~Idle /\ t \in Spans /\ r' = SpanLeft(r, t) /\ open' = Front(open) /\ fed' = fed
    BY <1>1 DEF LeaveSpan
  <2> DEFINE image == t = "IMG" /\ ~(r.inTable /\ r.inCell)
  <2>2. /\ out' = out \o IF image THEN r.alt ELSE <<>>
        /\ excused' = excused \cup IF t = "IMG" /\ ~image THEN ToSet(r.alt) \ CellText(r') ELSE {}
    BY <1>1 DEF LeaveSpan
  <2>3. CASE image
    BY <2>1, <2>2, <2>3
  <2>4. CASE t = "IMG" /\ ~image
    BY <2>1, <2>2, <2>4
  <2>5. CASE t # "IMG"
    BY <2>1, <2>2, <2>5
  <2> QED BY <2>3, <2>4, <2>5
<1>3. /\ Stacked(open) /\ Flagged(open, r) /\ Seen(open, r) /\ InOrder(r, out, fed)
      /\ Filled(open, r) /\ Kept(r, out, excused, fed)
  BY DEF TextInv, TextOK
<1>4. PICK ex : ex = open'
  OBVIOUS
<1>5. PICK w : w = r'
  OBVIOUS
<1>6. open \in Seq(Nodes) /\ Counting(r) /\ t = open[Len(open)].type /\ Shrunk(open, ex)
  BY <1>1, <1>2, <1>4, Opened, Shrinks
<1>7. \A types : Has(open, types) <=> Has(ex, types) \/ t \in types
  BY <1>6, HasShrunk
<1>8. t \in {"IMG", "A"} => ~Has(ex, {"IMG"})
  BY <1>3, <1>6, LastIn
<1>9. Stacked(ex)
  BY <1>3, <1>6, StackedShrunk
<1>10. LET x == SpanLeft(r, t)
           inCell == r.inTable /\ r.inCell
       IN  /\ t = "A" => x.mode = "none" /\ x.alt = r.alt
           /\ t = "IMG" => x.mode = "none" /\ x.alt = <<>>
           /\ t \notin {"A", "IMG"} => x.mode = r.mode /\ x.alt = r.alt
           /\ ~inCell => Beside(r, x)
           /\ inCell => IF t = "IMG" THEN Put(r, x, <<Filler>> \o r.alt)
                        ELSE Beside(r, x) \/ Put(r, x, <<Filler>>)
  BY <1>6, SpanLeftText
<1>11. /\ t = "A" => w.mode = "none" /\ w.alt = r.alt
       /\ t = "IMG" => w.mode = "none" /\ w.alt = <<>>
       /\ t \notin {"A", "IMG"} => w.mode = r.mode /\ w.alt = r.alt
       /\ ~(r.inTable /\ r.inCell) => Beside(r, w)
       /\ r.inTable /\ r.inCell /\ t = "IMG" => Put(r, w, <<Filler>> \o r.alt)
       /\ r.inTable /\ r.inCell /\ t # "IMG" => Beside(r, w) \/ Put(r, w, <<Filler>>)
  BY <1>2, <1>5, <1>10
<1>12. /\ w.inCode = r.inCode /\ w.inTable = r.inTable /\ w.inCell = r.inCell
       /\ w.row = r.row /\ w.cell = r.cell
  BY <1>11 DEF Beside, Put
<1>13. t \notin Cells \cup {"TABLE", "TR", "CODE"}
  BY <1>2 DEF Spans, Cells
<1>14. /\ Has(ex, {"CODE"}) <=> Has(open, {"CODE"})
       /\ Has(ex, {"TABLE"}) <=> Has(open, {"TABLE"})
       /\ Has(ex, {"TR"}) <=> Has(open, {"TR"})
       /\ Has(ex, Cells) <=> Has(open, Cells)
       /\ Has(open, {"IMG"}) <=> Has(ex, {"IMG"}) \/ t = "IMG"
  BY <1>7, <1>13
<1>15. Flagged(ex, w)
  BY <1>3, <1>8, <1>11, <1>12, <1>14 DEF Flagged
<1>16. Seen(ex, w)
  <2>1. r.row \in 0..MaxRows /\ r.cell \in 0..MaxCols
    BY <1>3 DEF Filled
  <2> QED BY <1>3, <1>6, <1>12, <1>13, <2>1, LeavesSeen
<1>17. /\ Has(open, {"TABLE"}) => Has(open, Cells)
       /\ ~Has(open, {"CODE"})
  <2>1. t # "CODE"
    BY <1>13
  <2> QED BY <1>1, <1>2, <1>3, <2>1, TextPlace
<1>18. r.code = <<>> /\ (r.alt = <<>> \/ r.mode = "alt")
  BY <1>3, <1>17 DEF InOrder, Flagged
<1>19. out' = out \o <<>> => out' = out
  BY <1>3, ConcatEmptySeq DEF InOrder, Fine
<1>20. r.inTable /\ r.inCell => Has(open, {"TR"}) /\ Has(open, Cells)
  BY <1>3 DEF Flagged, Stacked
<1>21. InOrder(w, out', fed) /\ Filled(open, w) /\ Kept(w, out', excused', fed)
  <2>1. CASE t = "IMG" /\ ~(r.inTable /\ r.inCell)
    <3>1. r.inTable = FALSE
      BY <1>3, <1>17, <2>1 DEF Flagged
    <3>2. Beside(r, w) /\ w.alt = <<>> /\ out' = out \o r.alt /\ excused' = excused
      BY <1>2, <1>11, <2>1
    <3>3. InOrder(w, out \o r.alt, fed) /\ Filled(open, w) /\ Kept(w, out \o r.alt, excused, fed)
      BY <1>3, <1>18, <3>1, <3>2, AltOut
    <3> QED BY <3>2, <3>3
  <2>2. CASE t = "IMG" /\ r.inTable /\ r.inCell
    <3>1. w.alt = <<>> /\ Put(r, w, <<Filler>> \o r.alt) /\ out' = out
          /\ excused' = excused \cup (ToSet(r.alt) \ CellText(w))
      BY <1>2, <1>5, <1>11, <1>19, <2>2
    <3>2. PICK ys : ys = excused \cup (ToSet(r.alt) \ CellText(w))
      OBVIOUS
    <3>3. InOrder(w, out, fed) /\ Filled(open, w) /\ Kept(w, out, ys, fed)
      BY <1>3, <1>18, <1>20, <2>2, <3>1, <3>2, AltPut
    <3> QED BY <3>1, <3>2, <3>3
  <2>3. CASE t # "IMG"
    <3>1. out' = out /\ excused' = excused
      BY <1>2, <1>19, <2>3
    <3>2. w.alt = r.alt
      BY <1>11, <2>3
    <3>3. t = "A" => r.alt = <<>>
      <4> SUFFICES ASSUME t = "A" PROVE r.alt = <<>>
        OBVIOUS
      <4>1. ~Has(open, {"IMG"})
        BY <1>8, <1>14
      <4> QED BY <1>3, <1>18, <4>1 DEF Flagged
    <3>4. w.mode = "alt" \/ w.alt = <<>>
      BY <1>11, <1>18, <2>3, <3>2, <3>3
    <3>5. CASE Beside(r, w)
      BY <1>3, <3>1, <3>2, <3>4, <3>5, BesideHolds
    <3>6. CASE r.inTable /\ r.inCell /\ Put(r, w, <<Filler>>)
      BY <1>3, <1>20, <3>1, <3>2, <3>4, <3>6, FillerPut
    <3> QED BY <1>11, <2>3, <3>5, <3>6
  <2> QED BY <2>1, <2>2, <2>3
<1>22. Filled(ex, w)
  BY <1>14, <1>21, FilledWith
<1> QED BY <1>2, <1>4, <1>5, <1>9, <1>15, <1>16, <1>21, <1>22 DEF TextOK

\* One more piece of text.
LEMMA OrderMore ==
  ASSUME NEW m, NEW o, NEW n, InOrder(m, o, n)
  PROVE  InOrder(m, o, n + 1)
<1>1. n \in Nat /\ n + 1 \in Nat
  BY DEF InOrder
<1>2. Fine(o, n + 1) /\ Fine(m.alt, n + 1) /\ Fine(m.code, n + 1)
  BY <1>1, FineMore DEF InOrder
<1>3. m.inTable => \A i \in 1..MaxRows, c \in 1..MaxCols : UpTo(m.cells[i][c], n + 1)
  <2> SUFFICES ASSUME m.inTable, NEW i \in 1..MaxRows, NEW c \in 1..MaxCols,
                      NEW p, Holds(m.cells[i][c], p)
               PROVE  p <= n + 1
    BY DEF UpTo
  <2>1. m.cells[i][c] \in Seq(Nat) /\ p <= n
    BY DEF InOrder, Tables, UpTo
  <2>2. p \in Nat
    BY <2>1, HeldNat
  <2> QED BY <1>1, <2>1, <2>2
<1> QED BY <1>1, <1>2, <1>3 DEF InOrder

LEMMA NextBehind ==
  ASSUME NEW n \in Nat, NEW s, s \in Seq(Nat), UpTo(s, n)
  PROVE  \A p : Holds(s, p) => p < n + 1
<1> SUFFICES ASSUME NEW p, Holds(s, p) PROVE p < n + 1
  OBVIOUS
<1>1. p \in Nat /\ p <= n
  BY HeldNat DEF UpTo
<1> QED BY <1>1

LEMMA KeptMore ==
  ASSUME NEW m, NEW o, NEW xs, NEW n \in Nat, Kept(m, o, xs, n), NEW w, NEW b, NEW ys,
         xs \subseteq ys, ys \subseteq xs \cup {n + 1},
         \A p : Holds(o, p) => Holds(b, p),
         \A p : Holds(m.alt, p) => Holds(w.alt, p),
         \A p : Holds(m.code, p) => Holds(w.code, p),
         m.inTable => w.inTable /\ \A p : InCells(m, p) => InCells(w, p),
         \/ n + 1 \in ys \/ Holds(b, n + 1) \/ Holds(w.alt, n + 1) \/ Holds(w.code, n + 1)
         \/ w.inTable /\ InCells(w, n + 1)
  PROVE  Kept(w, b, ys, n + 1)
<1>1. \A p \in 1..(n + 1) : p \in 1..n \/ p = n + 1
  OBVIOUS
<1>2. ys \subseteq 1..(n + 1)
  BY DEF Kept
<1>3. ASSUME NEW p \in 1..n
      PROVE  \/ p \in ys \/ Holds(b, p) \/ Holds(w.alt, p) \/ Holds(w.code, p)
             \/ w.inTable /\ InCells(w, p)
  BY DEF Kept
<1> QED BY <1>1, <1>2, <1>3 DEF Kept

\* It is put to an image's text, to a code block, to a cell, or printed.
LEMMA TextToAlt ==
  ASSUME NEW m, NEW w, NEW o, NEW n, NEW xs, InOrder(m, o, n), Kept(m, o, xs, n),
         m.mode = "alt", w.mode = "alt", w.code = m.code, w.cells = m.cells,
         w.inCode = m.inCode, w.inTable = m.inTable, NEW ys,
         \/ w.alt = Append(m.alt, n + 1) /\ ys = xs
         \/ w.alt = m.alt /\ ys = xs \cup {n + 1}
  PROVE  InOrder(w, o, n + 1) /\ Kept(w, o, ys, n + 1)
<1>0. InOrder(m, o, n + 1)
  BY OrderMore
<1>1. InOrder(m, o, n + 1) /\ n \in Nat
  BY <1>0 DEF InOrder
<1>2. m.inTable => w.inTable /\ \A p : InCells(m, p) => InCells(w, p)
  BY DEF InCells
<1>3. CASE w.alt = m.alt /\ ys = xs \cup {n + 1}
  <2>1. (w.inCode \/ w.code = <<>>) /\ (w.mode = "alt" \/ w.alt = <<>>)
    BY DEF InOrder
  <2>2. InOrder(w, o, n + 1)
    BY <1>1, <1>3, <2>1, OrderSame
  <2>3. Kept(w, o, ys, n + 1)
    BY <1>1, <1>2, <1>3, KeptMore
  <2> QED BY <2>2, <2>3
<1>4. CASE w.alt = Append(m.alt, n + 1) /\ ys = xs
  <2>1. Fine(m.alt, n) /\ Solid(m.alt) /\ Ahead(o, m.alt) /\ Fine(o, n)
    BY DEF InOrder
  <2>2. /\ Fine(w.alt, n + 1) /\ Solid(w.alt)
        /\ \A p : Holds(w.alt, p) <=> Holds(m.alt, p) \/ p = n + 1
    <3>1. PICK s : s = m.alt
      OBVIOUS
    <3>2. /\ Fine(Append(s, n + 1), n + 1) /\ Solid(Append(s, n + 1))
          /\ \A p : Holds(Append(s, n + 1), p) <=> Holds(s, p) \/ p = n + 1
      BY <1>1, <2>1, <3>1, FineAppend
    <3>3. w.alt = Append(s, n + 1)
      BY <1>4, <3>1
    <3> QED BY <3>1, <3>2, <3>3
  <2>3. Ahead(o, w.alt)
    <3>1. \A p : Holds(o, p) => p < n + 1
      BY <1>1, <2>1, NextBehind DEF Fine
    <3> QED BY <2>1, <2>2, <3>1 DEF Ahead
  <2>4. m.inTable => \A i \in 1..MaxRows, c \in 1..MaxCols : Ahead(m.cells[i][c], w.alt)
    <3> SUFFICES ASSUME m.inTable, NEW i \in 1..MaxRows, NEW c \in 1..MaxCols
                 PROVE  Ahead(m.cells[i][c], w.alt)
      OBVIOUS
    <3>1. m.cells[i][c] \in Seq(Nat) /\ UpTo(m.cells[i][c], n) /\ Ahead(m.cells[i][c], m.alt)
      BY DEF InOrder, Tables
    <3>2. \A p : Holds(m.cells[i][c], p) => p < n + 1
      BY <1>1, <3>1, NextBehind
    <3> QED BY <2>2, <3>1, <3>2 DEF Ahead
  <2>5. m.inTable => Sorted(w)
    BY DEF InOrder, Sorted
  <2>6. InOrder(w, o, n + 1)
    BY <1>1, <2>2, <2>3, <2>4, <2>5 DEF InOrder
  <2>7. Kept(w, o, ys, n + 1)
    BY <1>1, <1>2, <1>4, <2>2, KeptMore
  <2> QED BY <2>6, <2>7
<1> QED BY <1>3, <1>4

LEMMA TextToCode ==
  ASSUME NEW m, NEW w, NEW o, NEW n, NEW xs, InOrder(m, o, n), Kept(m, o, xs, n),
         m.inCode = TRUE, w.mode = m.mode, w.alt = m.alt, w.cells = m.cells,
         w.inCode = m.inCode, w.inTable = m.inTable, NEW ys,
         \/ w.code = Append(m.code, n + 1) /\ ys = xs
         \/ w.code = m.code /\ ys = xs \cup {n + 1}
  PROVE  InOrder(w, o, n + 1) /\ Kept(w, o, ys, n + 1)
<1>0. InOrder(m, o, n + 1)
  BY OrderMore
<1>1. InOrder(m, o, n + 1) /\ n \in Nat
  BY <1>0 DEF InOrder
<1>2. m.inTable => w.inTable /\ \A p : InCells(m, p) => InCells(w, p)
  BY DEF InCells
<1>3. CASE w.code = m.code /\ ys = xs \cup {n + 1}
  <2>1. w.mode = "alt" \/ w.alt = <<>>
    BY DEF InOrder
  <2>2. InOrder(w, o, n + 1)
    BY <1>1, <1>3, <2>1, OrderSame
  <2>3. Kept(w, o, ys, n + 1)
    BY <1>1, <1>2, <1>3, KeptMore
  <2> QED BY <2>2, <2>3
<1>4. CASE w.code = Append(m.code, n + 1) /\ ys = xs
  <2>1. Fine(m.code, n) /\ Ahead(o, m.code) /\ Fine(o, n)
    BY DEF InOrder
  <2>2. /\ Fine(w.code, n + 1)
        /\ \A p : Holds(w.code, p) <=> Holds(m.code, p) \/ p = n + 1
    <3>1. PICK s : s = m.code
      OBVIOUS
    <3>2. /\ Fine(Append(s, n + 1), n + 1)
          /\ \A p : Holds(Append(s, n + 1), p) <=> Holds(s, p) \/ p = n + 1
      BY <1>1, <2>1, <3>1, FineAppend
    <3>3. w.code = Append(s, n + 1)
      BY <1>4, <3>1
    <3> QED BY <3>1, <3>2, <3>3
  <2>3. Ahead(o, w.code)
    <3>1. \A p : Holds(o, p) => p < n + 1
      BY <1>1, <2>1, NextBehind DEF Fine
    <3> QED BY <2>1, <2>2, <3>1 DEF Ahead
  <2>4. m.inTable => Sorted(w)
    BY DEF InOrder, Sorted
  <2>5. InOrder(w, o, n + 1)
    BY <1>1, <2>2, <2>3, <2>4 DEF InOrder
  <2>6. Kept(w, o, ys, n + 1)
    BY <1>1, <1>2, <1>4, <2>2, KeptMore
  <2> QED BY <2>5, <2>6
<1> QED BY <1>3, <1>4

LEMMA TextToCell ==
  ASSUME NEW op, NEW m, NEW w, NEW o, NEW n, NEW xs, InOrder(m, o, n), Kept(m, o, xs, n),
         Filled(op, m), m.inTable, Has(op, {"TR"}), Has(op, Cells), m.alt = <<>>, w.alt = <<>>,
         Put(m, w, <<n + 1>>), NEW ys,
         \/ ys = xs \cup {n + 1}
         \/ ys = xs /\ CellTaken(m) /\ ~(Len(m.cells[m.row + 1][m.cell + 1]) >= CellMax)
  PROVE  InOrder(w, o, n + 1) /\ Filled(op, w) /\ Kept(w, o, ys, n + 1)
<1>0. n \in Nat
  BY DEF InOrder
<1>1. InOrder(m, o, n + 1) /\ n \in Nat /\ n + 1 \in Nat /\ n + 1 # Filler
  BY <1>0, OrderMore DEF Filler
<1>2. PICK s : s = <<n + 1>>
  OBVIOUS
<1>3. /\ s \in Seq(Nat) /\ Len(s) = 1 /\ Rising(s)
      /\ \A p : Holds(s, p) <=> p = n + 1
  BY <1>1, <1>2, SingleHow
<1>4. UpTo(s, n + 1)
  BY <1>1, <1>3 DEF UpTo
<1>5. Ahead(o, s)
  <2>1. \A p : Holds(o, p) => p < n + 1
    BY <1>1, NextBehind DEF InOrder, Fine
  <2> QED BY <1>3, <2>1 DEF Ahead
<1>6. \A i \in 1..MaxRows, c \in 1..MaxCols : m.cells[i][c] \in Seq(Nat)
  BY DEF InOrder, Tables
<1>7. \A i \in 1..MaxRows, c \in 1..MaxCols : Ahead(m.cells[i][c], s)
  <2> SUFFICES ASSUME NEW i \in 1..MaxRows, NEW c \in 1..MaxCols PROVE Ahead(m.cells[i][c], s)
    OBVIOUS
  <2>1. UpTo(m.cells[i][c], n)
    BY DEF InOrder
  <2>2. \A p : Holds(m.cells[i][c], p) => p < n + 1
    BY <1>1, <1>6, <2>1, NextBehind
  <2> QED BY <1>3, <2>2 DEF Ahead
<1>8. Put(m, w, s) /\ Ahead(s, w.alt)
  BY <1>2, EmptyHow
<1>9. /\ InOrder(w, o, n + 1) /\ Filled(op, w) /\ \A p : InCells(m, p) => InCells(w, p)
      /\ CellTaken(m) /\ Len(m.cells[m.row + 1][m.cell + 1]) + Len(s) <= CellMax =>
           \A p : Holds(s, p) => InCells(w, p)
  BY <1>1, <1>3, <1>4, <1>5, <1>7, <1>8, PutOrder
<1>10. n + 1 \in ys \/ InCells(w, n + 1)
  <2> SUFFICES ASSUME CellTaken(m), ~(Len(m.cells[m.row + 1][m.cell + 1]) >= CellMax)
               PROVE  InCells(w, n + 1)
    OBVIOUS
  <2>1. m.row + 1 \in 1..MaxRows /\ m.cell + 1 \in 1..MaxCols
    <3>1. m.row \in 0..MaxRows /\ m.cell \in 0..MaxCols /\ MaxRows \in Nat /\ MaxCols \in Nat
      BY MarkdownAssumption DEF Filled, MarkdownAssumption
    <3>2. m.row < MaxRows /\ m.cell < MaxCols
      BY DEF CellTaken
    <3> QED BY <3>1, <3>2
  <2>2. PICK k : k = Len(m.cells[m.row + 1][m.cell + 1])
    OBVIOUS
  <2>3. k \in Nat /\ CellMax \in Nat /\ ~(k >= CellMax)
    BY <1>6, <2>1, <2>2, LenProperties, MarkdownAssumption DEF MarkdownAssumption
  <2>4. k + Len(s) <= CellMax
    BY <1>3, <2>3
  <2>5. Len(m.cells[m.row + 1][m.cell + 1]) + Len(s) <= CellMax
    BY <2>2, <2>4
  <2> QED BY <1>3, <1>9, <2>5
<1>11. w.code = m.code /\ w.inTable = m.inTable
  BY DEF Put
<1>12. Kept(w, o, ys, n + 1)
  <2>1. xs \subseteq ys /\ ys \subseteq xs \cup {n + 1}
    OBVIOUS
  <2> QED BY <1>1, <1>9, <1>10, <1>11, <2>1, KeptMore
<1> QED BY <1>9, <1>12

LEMMA TextToLine ==
  ASSUME NEW m, NEW w, NEW o, NEW n, NEW xs, InOrder(m, o, n), Kept(m, o, xs, n),
         m.alt = <<>>, m.code = <<>>, m.inTable = FALSE, w.alt = <<>>, w.code = <<>>,
         w.inTable = FALSE
  PROVE  InOrder(w, Append(o, n + 1), n + 1) /\ Kept(w, Append(o, n + 1), xs, n + 1)
<1>1. n \in Nat /\ n + 1 \in Nat /\ Fine(o, n) /\ Solid(o)
  BY DEF InOrder
<1>2. PICK b : b = Append(o, n + 1)
  OBVIOUS
<1>3. Fine(b, n + 1) /\ Solid(b) /\ \A p : Holds(b, p) <=> Holds(o, p) \/ p = n + 1
  BY <1>1, <1>2, FineAppend
<1>4. InOrder(w, b, n + 1)
  BY <1>1, <1>3, EmptyHow DEF InOrder
<1>5. Kept(w, b, xs, n + 1)
  BY <1>1, <1>3, KeptMore
<1> QED BY <1>2, <1>4, <1>5

\* Tables and rows are not within others.
LEMMA InnermostRow ==
  ASSUME ReplyInv, Stacked(open), NEW u \in {"TABLE", "TR"}, Has(open, {u})
  PROVE  \E k \in 1..Len(open) : Innermost({u}) = open[k] /\ open[k].type = u
<1>1. DOMAIN open = 1..Len(open) /\ Len(open) \in Nat
  BY Opened
<1> DEFINE P(i) == open[i].type \in {u} /\ \A j \in DOMAIN open : j > i => open[j].type \notin {u}
           k == CHOOSE i \in DOMAIN open : P(i)
<1>2. \E i \in DOMAIN open : P(i)
  <2>1. PICK i \in 1..Len(open) : open[i].type = u
    BY DEF Has
  <2>2. ASSUME NEW j \in 1..Len(open), j > i, open[j].type = u PROVE FALSE
    <3>1. u \in Under(u)
      BY <1>1, <2>1, <2>2 DEF Stacked
    <3> QED BY <3>1 DEF Under, Cells, Spans
  <2> QED BY <1>1, <2>1, <2>2
<1>3. k \in DOMAIN open /\ P(k)
  BY <1>2
<1>4. Innermost({u}) = open[k]
  BY DEF Innermost
<1> HIDE DEF k
<1> QED BY <1>1, <1>3, <1>4

LEMMA TextText ==
  ASSUME ReplyInv, Text, TextInv
  PROVE  TextInv'
<1> SUFFICES ASSUME ~tangled PROVE TextOK(open, r, out, excused, fed)'
  BY DEF Text, TextInv
<1>1. PICK n : n = fed
  OBVIOUS
<1>2. /\ ~Idle /\ (HoldsText \/ Top.type \in {"CODE", "CODESPAN"})
      /\ fed' = n + 1 /\ r' = PrintText(r, n + 1) /\ open' = open
      /\ Gathered(r) = "line" => out' = Append(out, n + 1)
      /\ Gathered(r) # "line" => out' = out
      /\ excused' = IF NoRoom THEN excused \cup {n + 1} ELSE excused
  BY <1>1 DEF Text
<1>3. /\ Stacked(open) /\ Flagged(open, r) /\ Seen(open, r) /\ InOrder(r, out, n)
      /\ Filled(open, r) /\ Kept(r, out, excused, n)
  BY <1>1 DEF TextInv, TextOK
<1>4. PICK w : w = r'
  OBVIOUS
<1>5. PICK ys : ys = excused'
  OBVIOUS
<1>6. Counting(r) /\ open \in Seq(Nodes)
  BY Opened
<1>7. LET x == PrintText(r, n + 1)
      IN  /\ x.mode = r.mode
          /\ x.alt = (IF Gathered(r) = "alt" /\ Len(r.alt) < AltMax THEN Append(r.alt, n + 1) ELSE r.alt)
          /\ x.code = (IF Gathered(r) = "code" /\ Len(r.code) < CodeMax
                         THEN Append(r.code, n + 1) ELSE r.code)
          /\ Gathered(r) = "cell" => Put(r, x, <<n + 1>>)
          /\ Gathered(r) # "cell" => x.cells = r.cells
          /\ x.inCode = r.inCode /\ x.inTable = r.inTable /\ x.inCell = r.inCell
          /\ x.row = r.row /\ x.cell = r.cell /\ x.cols = r.cols
  BY <1>6, PrintTextText
<1>8. w = PrintText(r, n + 1)
  BY <1>2, <1>4
<1>9. /\ w.mode = r.mode
      /\ w.alt = (IF Gathered(r) = "alt" /\ Len(r.alt) < AltMax THEN Append(r.alt, n + 1) ELSE r.alt)
      /\ w.code = (IF Gathered(r) = "code" /\ Len(r.code) < CodeMax
                     THEN Append(r.code, n + 1) ELSE r.code)
      /\ Gathered(r) = "cell" => Put(r, w, <<n + 1>>)
      /\ Gathered(r) # "cell" => w.cells = r.cells
      /\ w.inCode = r.inCode /\ w.inTable = r.inTable /\ w.inCell = r.inCell
      /\ w.row = r.row /\ w.cell = r.cell /\ w.cols = r.cols
  BY <1>7, <1>8
<1>10. ys = IF NoRoom THEN excused \cup {n + 1} ELSE excused
  BY <1>2, <1>5
<1>11. Has(open, {"TABLE"}) => Has(open, Cells)
  BY <1>2, <1>3, TextPlace
<1>12. r.inTable = TRUE => r.inCell = TRUE /\ Has(open, Cells) /\ Has(open, {"TR"}) /\ Has(open, {"TABLE"})
  BY <1>3, <1>11 DEF Flagged, Stacked
<1>13. (r.alt = <<>> \/ r.mode = "alt") /\ (r.inCode = TRUE \/ r.code = <<>>)
       /\ r.inCode \in BOOLEAN /\ r.inTable \in BOOLEAN
  BY <1>3 DEF InOrder, Flagged
<1>14. Flagged(open, w) /\ Seen(open, w)
  BY <1>3, <1>9 DEF Flagged, Seen
<1>15. Gathered(r) # "cell" => Filled(open, w)
  BY <1>3, <1>9 DEF Filled
<1>16. AltMax \in Nat /\ CodeMax \in Nat
  BY MarkdownAssumption DEF MarkdownAssumption
<1>17. InOrder(w, out', n + 1) /\ Filled(open, w) /\ Kept(w, out', ys, n + 1)
  <2>1. CASE Gathered(r) = "alt"
    <3>1. r.mode = "alt" /\ out' = out /\ w.code = r.code /\ w.cells = r.cells /\ w.mode = "alt"
      <4>1. r.mode = "alt"
        BY <2>1 DEF Gathered
      <4> QED BY <1>2, <1>9, <2>1, <4>1
    <3>2. NoRoom <=> Len(r.alt) >= AltMax
      BY <2>1 DEF NoRoom
    <3>3. Len(r.alt) >= AltMax <=> ~(Len(r.alt) < AltMax)
      <4>1. PICK k : k = Len(r.alt)
        OBVIOUS
      <4>2. k \in Nat
        BY <1>3, <4>1, LenProperties DEF InOrder, Fine
      <4>3. k >= AltMax <=> ~(k < AltMax)
        BY <1>16, <4>2
      <4> QED BY <4>1, <4>3
    <3>4. \/ w.alt = Append(r.alt, n + 1) /\ ys = excused
          \/ w.alt = r.alt /\ ys = excused \cup {n + 1}
      BY <1>9, <1>10, <2>1, <3>2, <3>3
    <3>5. InOrder(w, out, n + 1) /\ Kept(w, out, ys, n + 1)
      BY <1>3, <1>9, <3>1, <3>4, TextToAlt
    <3> QED BY <1>15, <2>1, <3>1, <3>5
  <2>2. CASE Gathered(r) = "code"
    <3>1. r.inCode = TRUE /\ out' = out /\ w.alt = r.alt /\ w.cells = r.cells
      <4>1. r.inCode = TRUE
        BY <1>13, <2>2 DEF Gathered
      <4> QED BY <1>2, <1>9, <2>2, <4>1
    <3>2. NoRoom <=> Len(r.code) >= CodeMax
      BY <2>2 DEF NoRoom
    <3>3. Len(r.code) >= CodeMax <=> ~(Len(r.code) < CodeMax)
      <4>1. PICK k : k = Len(r.code)
        OBVIOUS
      <4>2. k \in Nat
        BY <1>3, <4>1, LenProperties DEF InOrder, Fine
      <4>3. k >= CodeMax <=> ~(k < CodeMax)
        BY <1>16, <4>2
      <4> QED BY <4>1, <4>3
    <3>4. \/ w.code = Append(r.code, n + 1) /\ ys = excused
          \/ w.code = r.code /\ ys = excused \cup {n + 1}
      BY <1>9, <1>10, <2>2, <3>2, <3>3
    <3>5. InOrder(w, out, n + 1) /\ Kept(w, out, ys, n + 1)
      BY <1>3, <1>9, <3>1, <3>4, TextToCode
    <3> QED BY <1>15, <2>2, <3>1, <3>5
  <2>3. CASE Gathered(r) = "cell"
    <3>1. r.inTable = TRUE /\ r.mode # "alt" /\ out' = out
      <4>1. r.inTable = TRUE /\ r.mode # "alt"
        BY <1>13, <2>3 DEF Gathered
      <4> QED BY <1>2, <2>3, <4>1
    <3>2. w.alt = <<>> /\ r.alt = <<>> /\ Put(r, w, <<n + 1>>)
      BY <1>9, <1>13, <2>3, <3>1
    <3>3. Has(open, {"TR"}) /\ Has(open, Cells) /\ Has(open, {"TABLE"})
      BY <1>12, <3>1
    <3>4. \/ ys = excused \cup {n + 1}
          \/ ys = excused /\ CellTaken(r) /\ ~(Len(r.cells[r.row + 1][r.cell + 1]) >= CellMax)
      <4> SUFFICES ASSUME ~NoRoom
                   PROVE  CellTaken(r) /\ ~(Len(r.cells[r.row + 1][r.cell + 1]) >= CellMax)
        BY <1>10
      <4>1. /\ ~(Innermost({"TABLE"}).rows > MaxRows) /\ ~(Innermost({"TR"}).rows > MaxCols)
            /\ ~(CellTaken(r) /\ Len(r.cells[r.row + 1][r.cell + 1]) >= CellMax)
        BY <2>3 DEF NoRoom
      <4>2. PICK k \in 1..Len(open) : Innermost({"TABLE"}) = open[k] /\ open[k].type = "TABLE"
        BY <1>3, <3>3, InnermostRow
      <4>3. PICK j \in 1..Len(open) : Innermost({"TR"}) = open[j] /\ open[j].type = "TR"
        BY <1>3, <3>3, InnermostRow
      <4>4. r.row + 1 <= open[k].rows /\ r.cell + 1 <= open[j].rows
        BY <1>3, <3>3, <4>2, <4>3 DEF Seen
      <4>5. open[k].rows \in Nat /\ open[j].rows \in Nat
        <5>1. open[k] \in Nodes /\ open[j] \in Nodes
          BY <1>6
        <5> QED BY <5>1 DEF Nodes
      <4>6. r.row \in Nat /\ r.cell \in Nat /\ MaxRows \in Nat /\ MaxCols \in Nat
        BY <1>3, MarkdownAssumption DEF Filled, MarkdownAssumption
      <4>7. ~(open[k].rows > MaxRows) /\ ~(open[j].rows > MaxCols)
        BY <4>1, <4>2, <4>3
      <4>8. CellTaken(r)
        BY <4>4, <4>5, <4>6, <4>7 DEF CellTaken
      <4> QED BY <4>1, <4>8
    <3>5. InOrder(w, out, n + 1) /\ Filled(open, w) /\ Kept(w, out, ys, n + 1)
      BY <1>3, <3>1, <3>2, <3>3, <3>4, TextToCell
    <3> QED BY <3>1, <3>5
  <2>4. CASE Gathered(r) = "line"
    <3>1. r.mode # "alt" /\ r.inCode = FALSE /\ ~(r.inTable /\ r.inCell)
      BY <1>13, <2>4 DEF Gathered
    <3>2. r.alt = <<>> /\ r.code = <<>> /\ r.inTable = FALSE
      BY <1>12, <1>13, <3>1
    <3>3. w.alt = <<>> /\ w.code = <<>> /\ w.inTable = FALSE
      BY <1>9, <2>4, <3>2
    <3>4. ~NoRoom
      BY <2>4 DEF NoRoom
    <3>5. out' = Append(out, n + 1) /\ ys = excused
      BY <1>2, <1>10, <2>4, <3>4
    <3>6. InOrder(w, Append(out, n + 1), n + 1) /\ Kept(w, Append(out, n + 1), excused, n + 1)
      BY <1>3, <3>2, <3>3, TextToLine
    <3> QED BY <1>15, <2>4, <3>5, <3>6
  <2>5. Gathered(r) \in {"alt", "code", "cell", "line"}
    BY DEF Gathered
  <2> QED BY <2>1, <2>2, <2>3, <2>4, <2>5
<1> QED BY <1>2, <1>3, <1>4, <1>5, <1>14, <1>17 DEF TextOK

LEMMA BreakText ==
  ASSUME ReplyInv, Break, TextInv
  PROVE  TextInv'
<1> SUFFICES ASSUME ~tangled PROVE TextOK(open, r, out, excused, fed)'
  BY DEF Break, TextInv
<1>1. /\ ~Idle /\ (HoldsText \/ Top.type = "CODE") /\ open' = open /\ out' = out
      /\ excused' = excused /\ fed' = fed
      /\ Top.type = "CODE" => r' = PrintText(r, Filler)
      /\ Top.type # "CODE" /\ r.inTable /\ r.inCell => r' = TableAppend(r, <<Filler>>)
      /\ Top.type # "CODE" /\ ~(r.inTable /\ r.inCell) => r' = Newline(r)
  BY DEF Break
<1>2. /\ Stacked(open) /\ Flagged(open, r) /\ Seen(open, r) /\ InOrder(r, out, fed)
      /\ Filled(open, r) /\ Kept(r, out, excused, fed)
  BY DEF TextInv, TextOK
<1>3. PICK w : w = r'
  OBVIOUS
<1>4. Counting(r)
  BY Opened
<1>5. (r.alt = <<>> \/ r.mode = "alt") /\ (r.inCode \/ r.code = <<>>)
  BY <1>2 DEF InOrder
<1> SUFFICES TextOK(open, w, out, excused, fed)
  BY <1>1, <1>3 DEF TextOK
<1>6. CASE Top.type = "CODE"
  <2>1. ~Has(open, {"IMG"}) /\ Has(open, {"CODE"})
    <3>1. ~Has(open, {"IMG"})
      BY <1>1, <1>2, <1>6, TextPlace
    <3>2. Has(open, {"CODE"})
      BY <1>1, <1>6, Opened DEF Has
    <3> QED BY <3>1, <3>2
  <2>2. r.mode # "alt" /\ r.inCode = TRUE
    BY <1>2, <2>1 DEF Flagged
  <2>3. Gathered(r) = "code"
    BY <2>2 DEF Gathered
  <2>4. LET x == PrintText(r, Filler)
        IN  /\ x.mode = r.mode
            /\ x.alt = (IF Gathered(r) = "alt" /\ Len(r.alt) < AltMax THEN Append(r.alt, Filler) ELSE r.alt)
            /\ x.code = (IF Gathered(r) = "code" /\ Len(r.code) < CodeMax
                           THEN Append(r.code, Filler) ELSE r.code)
            /\ Gathered(r) = "cell" => Put(r, x, <<Filler>>)
            /\ Gathered(r) # "cell" => x.cells = r.cells
            /\ x.inCode = r.inCode /\ x.inTable = r.inTable /\ x.inCell = r.inCell
            /\ x.row = r.row /\ x.cell = r.cell /\ x.cols = r.cols
    BY <1>4, PrintTextText
  <2>5. w = PrintText(r, Filler)
    BY <1>1, <1>3, <1>6
  <2>6. /\ w.mode = r.mode /\ w.alt = r.alt /\ w.cells = r.cells
        /\ w.code = Append(r.code, Filler) \/ w.code = r.code
        /\ w.inCode = r.inCode /\ w.inTable = r.inTable /\ w.inCell = r.inCell
        /\ w.row = r.row /\ w.cell = r.cell /\ w.cols = r.cols
    BY <2>3, <2>4, <2>5
  <2>7. Flagged(open, w) /\ Seen(open, w) /\ Filled(open, w)
    BY <1>2, <2>6 DEF Flagged, Seen, Filled
  <2>8. Fine(w.code, fed) /\ \A p : Holds(w.code, p) <=> Holds(r.code, p)
    <3>1. PICK s : s = r.code
      OBVIOUS
    <3>2. Fine(s, fed) /\ fed \in Nat
      BY <1>2, <3>1 DEF InOrder
    <3>3. Fine(Append(s, Filler), fed) /\ \A p : Holds(Append(s, Filler), p) <=> Holds(s, p)
      BY <3>2, FineAppend
    <3> QED BY <2>6, <3>1, <3>2, <3>3
  <2>9. Ahead(out, w.code)
    BY <1>2, <2>8 DEF InOrder, Ahead
  <2>10. r.inTable => Sorted(w)
    BY <1>2, <2>6 DEF InOrder, Sorted
  <2>11. InOrder(w, out, fed)
    BY <1>2, <2>2, <2>6, <2>8, <2>9, <2>10 DEF InOrder
  <2>12. Kept(w, out, excused, fed)
    BY <1>2, <2>6, <2>8 DEF Kept, InCells
  <2> QED BY <1>2, <2>7, <2>11, <2>12 DEF TextOK
<1>7. CASE Top.type # "CODE" /\ r.inTable /\ r.inCell
  <2>1. w = TableAppend(r, <<Filler>>)
    BY <1>1, <1>3, <1>7
  <2>2. Put(r, w, <<Filler>>) /\ w.mode = r.mode /\ w.alt = r.alt
    BY <1>4, <2>1, TablePut
  <2>3. /\ w.inCode = r.inCode /\ w.inTable = r.inTable /\ w.inCell = r.inCell
        /\ w.row = r.row /\ w.cell = r.cell
    BY <2>2 DEF Put
  <2>4. Flagged(open, w) /\ Seen(open, w)
    BY <1>2, <2>2, <2>3 DEF Flagged, Seen
  <2>5. Has(open, {"TR"}) /\ Has(open, Cells)
    BY <1>2, <1>7 DEF Flagged, Stacked
  <2>6. w.mode = "alt" \/ w.alt = <<>>
    BY <1>5, <2>2
  <2>7. InOrder(w, out, fed) /\ Filled(open, w) /\ Kept(w, out, excused, fed)
    BY <1>2, <1>7, <2>2, <2>5, <2>6, FillerPut
  <2> QED BY <1>2, <2>4, <2>7 DEF TextOK
<1>8. CASE Top.type # "CODE" /\ ~(r.inTable /\ r.inCell)
  <2>1. w = Newline(r)
    BY <1>1, <1>3, <1>8
  <2>2. Alike(r, w)
    BY <1>4, <2>1, LinesAlike
  <2>3. Flagged(open, w) /\ Seen(open, w)
    BY <1>2, <2>2 DEF Flagged, Seen, Alike
  <2>4. Beside(r, w) /\ w.alt = r.alt /\ w.mode = r.mode
    BY <2>2 DEF Alike, Beside
  <2>5. w.mode = "alt" \/ w.alt = <<>>
    BY <1>5, <2>4
  <2>6. InOrder(w, out, fed) /\ Filled(open, w) /\ Kept(w, out, excused, fed)
    BY <1>2, <2>4, <2>5, BesideHolds
  <2> QED BY <1>2, <2>3, <2>6 DEF TextOK
<1> QED BY <1>6, <1>7, <1>8

LEMMA ReplyNextText ==
  ASSUME ReplyInv, ReplyNext, TextInv
  PROVE  TextInv'
<1>1. ASSUME NEW type \in Blocks \cup {"LI", "THEAD", "TBODY", "TR", "TH", "TD"},
             NEW tight \in BOOLEAN, NEW start \in {0, 4}, EnterBlock(type, tight, start)
      PROVE  TextInv'
  <2>1. type \in Kinds \ Spans /\ start \in Nat
    BY DEF Kinds, Blocks, Cells, Spans
  <2> QED BY <1>1, <2>1, EnterBlockText
<1> QED BY <1>1, BeginText, LeaveBlockText, EnterSpanText, LeaveSpanText, TextText, BreakText
        DEF ReplyNext

\* When nothing is open, nothing is gathered: what is not excused has been printed.
LEMMA AllShown ==
  ASSUME ReplyInv, TextInv
  PROVE  NothingLost
<1> SUFFICES ASSUME ReplyShown, ~tangled
             PROVE  /\ \A i, j \in DOMAIN out : i < j => out[i] < out[j]
                    /\ ToSet(out) \cup excused = 1..fed
  BY DEF NothingLost
<1>1. /\ Flagged(open, r) /\ InOrder(r, out, fed) /\ Kept(r, out, excused, fed)
  BY DEF TextInv, TextOK
<1>2. \A types : ~Has(open, types)
  <2>1. Len(open) = 0
    BY EmptySeq DEF ReplyShown, Idle
  <2> QED BY <2>1 DEF Has
<1>3. r.alt = <<>> /\ r.code = <<>> /\ r.inTable = FALSE
  BY <1>1, <1>2 DEF Flagged, InOrder
<1>4. out \in Seq(Nat) /\ Rising(out) /\ UpTo(out, fed) /\ Solid(out) /\ fed \in Nat
  BY <1>1 DEF InOrder, Fine
<1>5. \A i, j \in DOMAIN out : i < j => out[i] < out[j]
  BY <1>4 DEF Rising, Solid
<1>6. ASSUME NEW p \in ToSet(out) PROVE p \in 1..fed
  <2>1. Holds(out, p)
    BY <1>4 DEF ToSet, Holds, Solid
  <2>2. p \in Nat /\ p > 0 /\ p <= fed
    BY <1>4, <2>1, HeldNat DEF UpTo
  <2> QED BY <1>4, <2>2
<1>7. ASSUME NEW p \in 1..fed PROVE p \in ToSet(out) \cup excused
  <2>1. p \in excused \/ Holds(out, p)
    BY <1>1, <1>3, EmptyHow DEF Kept
  <2>2. Holds(out, p) => p \in ToSet(out)
    BY <1>4, InToSet DEF Holds
  <2> QED BY <2>1, <2>2
<1>8. excused \subseteq 1..fed
  BY <1>1 DEF Kept
<1> QED BY <1>5, <1>6, <1>7, <1>8

\* When a reply of any length has been shown, every piece of its text has been printed
\* once and in its order, wherever it was gathered in between, but for what exceeds what
\* the renderer has room for and for images whose text holds links or images
\* (markdown.c:268-276, 349-359, 512-538, 620-703, 872-886).
THEOREM PrintsAll == ScreenSpec => []NothingLost
<1>1. ScreenInit => ReplyInv /\ TextInv
  <2> SUFFICES ASSUME ScreenInit PROVE ReplyInv /\ TextInv
    OBVIOUS
  <2>1. ReplyInv
    BY NoReply DEF ScreenInit, ReplyInit, ReplyInv
  <2>2. TextInv
    BY NothingText DEF ScreenInit, ReplyInit, TextInv
  <2> QED BY <2>1, <2>2
<1>2. ReplyInv /\ TextInv /\ [ScreenNext]_<<replyVars, menuVars>> => (ReplyInv /\ TextInv)'
  <2> SUFFICES ASSUME ReplyInv, TextInv, [ScreenNext]_<<replyVars, menuVars>>
               PROVE  ReplyInv' /\ TextInv'
    OBVIOUS
  <2>1. CASE Return
    <3>1. ReplyInv'
      BY <2>1, NoReply DEF Return, ReplyInv
    <3>2. TextInv'
      BY <2>1, NothingText DEF Return, TextInv
    <3> QED BY <3>1, <3>2
  <2>2. CASE ShowReply
    BY <2>2, ReplyNextHolds, ReplyNextText DEF ShowReply
  <2>3. CASE InMenu \/ UNCHANGED <<replyVars, menuVars>>
    BY <2>3 DEF InMenu, replyVars, ReplyInv, TextInv
  <2> QED BY <2>1, <2>2, <2>3 DEF ScreenNext
<1>3. ReplyInv /\ TextInv => NothingLost
  BY AllShown
<1> QED BY <1>1, <1>2, <1>3, PTL DEF ScreenSpec
==============================================================================
