---------------------------- MODULE SessionProofs ----------------------------
(***************************************************************************)
(* Proofs about Session, for every length of a chat, every period of the   *)
(* checkpoints and every crash: what a chat has logged is read back, the   *)
(* log stays short, and no step loses what could be restored.              *)
(***************************************************************************)
EXTENDS Session, SequenceTheorems, WellFoundedInduction, TLAPS

\* The lines of a session's files.
Stored(f) == f.ckpt \o f.log

\* The messages a restore reads back whatever the length of its buffer.
Fits == Msg \ Long

\* What the directories and main's count say of each other.
Housed ==
  /\ current <= clock
  /\ \A i \in Id : disk[i].there => i <= clock
  /\ At("logged") => prev < Count
  /\ At("saved") /\ "short" \notin upset => disk[current].ckpt = history

\* Where a goal is kept, and what it may count on.
Aimed ==
  /\ At("off") => pc.goal = ToExit
  /\ At("prompt") \/ At("replied") \/ At("logged") => pc.goal = ToAppend
  /\ pc.goal = ToAppend /\ ~At("prompt") /\ ~At("replied") => Homed
  /\ At("saved") => Homed
  /\ At("save") => current # NoId
  /\ pc.goal = ToNew => clock < MaxIds
  /\ pc.goal \in Id => pc.goal # current /\ disk[pc.goal].there

\* The active session as long as all has gone smoothly: main's count, the log and
\* the counter agree at every point.  A session being left may have messages of
\* failed chats that were never logged; one that session_append saves has none.
InStep ==
  /\ disk[current].log \in Seq(Msg)
  /\ prev <= Count
  /\ At("prompt") \/ At("replied") =>
       /\ Stored(disk[current]) = SubSeq(history, 1, prev)
       /\ Len(disk[current].log) = since
       /\ since < CheckpointEvery
  /\ At("logged") => Len(disk[current].log) = since + (Count - prev)
  /\ At("logged") \/ (pc.goal = ToAppend /\ (At("save") \/ At("leave"))) =>
       Stored(disk[current]) = history
  /\ pc.goal = ToAppend /\ At("leave") => since = 0 /\ Len(disk[current].log) = 0

Smooth ==
  smooth =>
    /\ current = NoId => prev = 0
    /\ current # NoId => InStep

\* What was logged can be read back, and of the active session is in the history
\* that the next checkpoint will hold.
Clean == upset \cap {"summary", "short", "unread"} = {}

Whole ==
  Clean =>
    /\ \A i \in Id : saved[i] \ Long \subseteq Range(Recover(disk[i]))
    /\ current # NoId => saved[current] \ Long \subseteq Range(history)

IInv ==
  /\ TypeOK
  /\ Housed
  /\ Aimed
  /\ Smooth
  /\ Whole
------------------------------------------------------------------------------
(***************************************************************************)
(* Sequences and their ranges.                                             *)
(***************************************************************************)
LEMMA Joined ==
  ASSUME NEW S, NEW s \in Seq(S), NEW t \in Seq(S)
  PROVE  /\ s \o t \in Seq(S)
         /\ Len(s) \in Nat /\ Len(t) \in Nat /\ Len(s \o t) = Len(s) + Len(t)
         /\ DOMAIN s = 1..Len(s) /\ DOMAIN t = 1..Len(t)
         /\ DOMAIN (s \o t) = 1..(Len(s) + Len(t))
         /\ \A i \in 1..Len(s) : (s \o t)[i] = s[i]
         /\ \A i \in 1..Len(t) : (s \o t)[Len(s) + i] = t[i]
<1>1. Len(s) \in Nat /\ Len(t) \in Nat /\ DOMAIN s = 1..Len(s) /\ DOMAIN t = 1..Len(t)
  BY LenProperties
<1>2. s \o t \in Seq(S) /\ Len(s \o t) = Len(s) + Len(t)
  BY ConcatProperties
<1>3. \A i \in 1..(Len(s) + Len(t)) : (s \o t)[i] = IF i <= Len(s) THEN s[i] ELSE t[i - Len(s)]
  BY ConcatProperties
<1>4. DOMAIN (s \o t) = 1..(Len(s) + Len(t))
  BY <1>2, LenProperties
<1> DEFINE g == s \o t
<1>5. \A i \in 1..(Len(s) + Len(t)) : g[i] = IF i <= Len(s) THEN s[i] ELSE t[i - Len(s)]
  BY <1>3
<1> HIDE DEF g
<1>6. \A i \in 1..Len(s) : g[i] = s[i]
  BY <1>1, <1>5
<1>7. \A i \in 1..Len(t) : g[Len(s) + i] = t[i]
  <2> SUFFICES ASSUME NEW i \in 1..Len(t) PROVE g[Len(s) + i] = t[i]
    OBVIOUS
  <2>1. Len(s) + i \in 1..(Len(s) + Len(t)) /\ ~ (Len(s) + i <= Len(s)) /\ (Len(s) + i) - Len(s) = i
    BY <1>1
  <2>2. QED
    BY <1>5, <2>1
<1>8. QED
  BY <1>1, <1>2, <1>4, <1>6, <1>7 DEF g

LEMMA Ranges ==
  ASSUME NEW S, NEW s \in Seq(S), NEW t \in Seq(S)
  PROVE  /\ Range(s) \subseteq S
         /\ Range(s \o t) = Range(s) \cup Range(t)
<1>1. Range(s) \subseteq S
  BY LenProperties, ElementOfSeq DEF Range
<1> DEFINE g == s \o t
<1>2. /\ Len(s) \in Nat /\ Len(t) \in Nat
      /\ DOMAIN s = 1..Len(s) /\ DOMAIN t = 1..Len(t) /\ DOMAIN g = 1..(Len(s) + Len(t))
      /\ \A i \in 1..Len(s) : g[i] = s[i]
      /\ \A i \in 1..Len(t) : g[Len(s) + i] = t[i]
  BY Joined
<1> HIDE DEF g
<1>3. Range(g) = Range(s) \cup Range(t)
  <2>1. \A i \in DOMAIN s : i \in DOMAIN g /\ g[i] = s[i]
    BY <1>2
  <2>2. \A i \in DOMAIN t : Len(s) + i \in DOMAIN g /\ g[Len(s) + i] = t[i]
    BY <1>2
  <2>3. \A i \in DOMAIN g : (i \in DOMAIN s \/ i - Len(s) \in DOMAIN t) /\ Len(s) + (i - Len(s)) = i
    BY <1>2
  <2>4. \A x \in Range(g) : x \in Range(s) \cup Range(t)
    BY <2>1, <2>2, <2>3 DEF Range
  <2>5. \A x \in Range(s) \cup Range(t) : x \in Range(g)
    BY <2>1, <2>2 DEF Range
  <2>6. QED
    BY <2>4, <2>5
<1>4. QED
  BY <1>1, <1>3 DEF g

LEMMA RangeAppended ==
  ASSUME NEW S, NEW s \in Seq(S), NEW e \in S
  PROVE  Range(Append(s, e)) = Range(s) \cup {e}
<1> DEFINE h == Append(s, e)
<1>0. Len(s) \in Nat /\ DOMAIN s = 1..Len(s)
  BY LenProperties
<1>1. /\ DOMAIN h = 1..(Len(s) + 1) /\ h[Len(s) + 1] = e
      /\ \A i \in 1..Len(s) : h[i] = s[i]
  BY <1>0, AppendProperties, LenProperties
<1> HIDE DEF h
<1>2. \A i \in DOMAIN h : i \in DOMAIN s \/ i = Len(s) + 1
  BY <1>0, <1>1
<1>3. \A i \in DOMAIN s : i \in DOMAIN h /\ h[i] = s[i]
  BY <1>0, <1>1
<1>4. Len(s) + 1 \in DOMAIN h
  BY <1>0, <1>1
<1>5. \A x \in Range(h) : x \in Range(s) \cup {e}
  BY <1>1, <1>2, <1>3 DEF Range
<1>6. \A x \in Range(s) \cup {e} : x \in Range(h)
  BY <1>1, <1>3, <1>4 DEF Range
<1>7. QED
  BY <1>5, <1>6 DEF h

LEMMA NoRange == Range(<<>>) = {} /\ \A S : <<>> \in Seq(S)
BY EmptySeq DEF Range

\* A part of a sequence.
LEMMA Part ==
  ASSUME NEW S, NEW s \in Seq(S), NEW m \in Nat, NEW n \in Nat, m > 0, n <= Len(s)
  PROVE  /\ SubSeq(s, m, n) \in Seq(S)
         /\ Len(SubSeq(s, m, n)) = IF m <= n THEN n - m + 1 ELSE 0
         /\ \A i \in 1..(n - m + 1) : SubSeq(s, m, n)[i] = s[m + i - 1]
         /\ Range(SubSeq(s, m, n)) \subseteq Range(s)
<1>0. Len(s) \in Nat /\ DOMAIN s = 1..Len(s)
  BY LenProperties
<1>1. \A i \in m..n : s[i] \in S
  BY <1>0, ElementOfSeq
<1> DEFINE g == SubSeq(s, m, n)
<1>2. /\ g \in Seq(S)
      /\ Len(g) = IF m <= n THEN n - m + 1 ELSE 0
      /\ \A i \in 1..(n - m + 1) : g[i] = s[m + i - 1]
  BY <1>1, SubSeqProperties
<1>3. DOMAIN g = 1..Len(g)
  BY <1>2, LenProperties
<1> HIDE DEF g
<1>4. \A i \in DOMAIN g : m + i - 1 \in DOMAIN s /\ g[i] = s[m + i - 1]
  BY <1>0, <1>2, <1>3
<1>5. Range(g) \subseteq Range(s)
  BY <1>4 DEF Range
<1>6. QED
  BY <1>2, <1>5 DEF g

\* A sequence and its two parts.
LEMMA Halves ==
  ASSUME NEW S, NEW s \in Seq(S), NEW n \in Nat, n <= Len(s)
  PROVE  SubSeq(s, 1, n) \o SubSeq(s, n + 1, Len(s)) = s
<1> DEFINE a == SubSeq(s, 1, n)
           b == SubSeq(s, n + 1, Len(s))
<1>0. Len(s) \in Nat
  BY LenProperties
<1>1. a \in Seq(S) /\ Len(a) = n /\ \A i \in 1..n : a[i] = s[i]
  <2>1. /\ a \in Seq(S) /\ Len(a) = IF 1 <= n THEN n - 1 + 1 ELSE 0
        /\ \A i \in 1..(n - 1 + 1) : a[i] = s[1 + i - 1]
    BY Part
  <2> HIDE DEF a
  <2>2. n - 1 + 1 = n /\ \A i \in 1..n : 1 + i - 1 = i
    OBVIOUS
  <2>3. QED
    BY <2>1, <2>2
<1>2. b \in Seq(S) /\ Len(b) = Len(s) - n /\ \A i \in 1..(Len(s) - n) : b[i] = s[n + i]
  <2>1. /\ b \in Seq(S) /\ Len(b) = IF n + 1 <= Len(s) THEN Len(s) - (n + 1) + 1 ELSE 0
        /\ \A i \in 1..(Len(s) - (n + 1) + 1) : b[i] = s[(n + 1) + i - 1]
    BY <1>0, Part
  <2> HIDE DEF b
  <2>2. Len(s) - (n + 1) + 1 = Len(s) - n /\ \A i \in 1..(Len(s) - n) : (n + 1) + i - 1 = n + i
    BY <1>0
  <2>3. Len(b) = Len(s) - n
    BY <1>0, <2>1
  <2>4. \A i \in 1..(Len(s) - n) : b[i] = s[n + i]
    <3> SUFFICES ASSUME NEW i \in 1..(Len(s) - n) PROVE b[i] = s[n + i]
      OBVIOUS
    <3>1. i \in 1..(Len(s) - (n + 1) + 1) /\ (n + 1) + i - 1 = n + i
      BY <2>2
    <3>2. b[i] = s[(n + 1) + i - 1]
      BY <2>1, <3>1
    <3>3. QED
      BY <3>1, <3>2
  <2>5. QED
    BY <2>1, <2>3, <2>4
<1> HIDE DEF a, b
<1>3. /\ a \o b \in Seq(S) /\ Len(a \o b) = Len(s)
      /\ \A i \in 1..Len(a) : (a \o b)[i] = a[i]
      /\ \A i \in 1..Len(b) : (a \o b)[Len(a) + i] = b[i]
  BY <1>0, <1>1, <1>2, Joined
<1> DEFINE g == a \o b
<1>4. /\ \A i \in 1..n : g[i] = s[i]
      /\ \A i \in 1..(Len(s) - n) : g[n + i] = s[n + i]
  BY <1>1, <1>2, <1>3
<1> HIDE DEF g
<1>5. \A i \in 1..Len(s) : g[i] = s[i]
  <2> SUFFICES ASSUME NEW i \in 1..Len(s) PROVE g[i] = s[i]
    OBVIOUS
  <2>1. CASE i <= n
    BY <1>4, <2>1
  <2>2. CASE ~ (i <= n)
    <3>1. i - n \in 1..(Len(s) - n) /\ n + (i - n) = i
      BY <1>0, <2>2
    <3>2. QED
      BY <1>4, <3>1
  <2>3. QED
    BY <2>1, <2>2
<1>6. g = s
  BY <1>3, <1>5, SeqEqual DEF g
<1>7. QED
  BY <1>6 DEF g, a, b
------------------------------------------------------------------------------
(***************************************************************************)
(* Reading a log.  The installed provers cannot instantiate the library's  *)
(* induction over the naturals, so an induction is made of its least       *)
(* counterexample.                                                         *)
(***************************************************************************)
Line == Msg \cup {Torn, Junk}

\* The messages read so far, with one more line.
Read(ms, line) == IF line \in Fits THEN Append(ms, line) ELSE ms

Reads(f, log, n) == f = [k \in 0..n |-> IF k = 0 THEN <<>> ELSE Read(f[k - 1], log[k])]

LEMMA LeastOf ==
  ASSUME NEW S \in SUBSET Nat, S # {}
  PROVE  \E n \in S : \A m \in S : n <= m
<1> DEFINE R == {ss \in Nat \X Nat : ss[1] < ss[2]}
<1>1. IsWellFoundedOn(R, Nat)
  BY NatLessThanWellFounded DEF OpToRel
<1>2. PICK n \in S : \A m \in S : ~ (<<m, n>> \in R)
  <2> HIDE DEF R
  <2> QED BY <1>1, WFMin
<1>3. \A m \in S : n <= m
  <2> SUFFICES ASSUME NEW m \in S PROVE n <= m
    OBVIOUS
  <2>1. <<m, n>> \in Nat \X Nat /\ ~ (<<m, n>> \in R)
    BY <1>2
  <2>2. QED
    BY <2>1
<1>4. QED
  BY <1>3

\* A log of any length can be read.
LEMMA ReadsExist ==
  ASSUME NEW log
  PROVE  \A n \in Nat : \E f : Reads(f, log, n)
<1> DEFINE Bad == {n \in Nat : ~ \E f : Reads(f, log, n)}
<1> SUFFICES ASSUME Bad # {} PROVE FALSE
  OBVIOUS
<1>1. PICK n \in Bad : \A m \in Bad : n <= m
  BY LeastOf
<1>2. n \in Nat /\ ~ \E f : Reads(f, log, n)
  OBVIOUS
<1>3. CASE n = 0
  <2>1. Reads([k \in 0..0 |-> <<>>], log, 0)
    BY DEF Reads
  <2>2. QED
    BY <1>2, <1>3, <2>1
<1>4. CASE n # 0
  <2>1. n - 1 \in Nat /\ ~ (n <= n - 1)
    BY <1>2, <1>4
  <2>2. ~ (n - 1 \in Bad)
    BY <1>1, <2>1
  <2>3. PICK f : Reads(f, log, n - 1)
    BY <2>1, <2>2
  <2> DEFINE g == [k \in 0..n |-> IF k < n THEN f[k] ELSE Read(f[n - 1], log[n])]
  <2>4. \A k \in 0..n : g[k] = IF k = 0 THEN <<>> ELSE Read(g[k - 1], log[k])
    <3> SUFFICES ASSUME NEW k \in 0..n
                 PROVE  g[k] = IF k = 0 THEN <<>> ELSE Read(g[k - 1], log[k])
      OBVIOUS
    <3>1. CASE k < n
      <4>1. k \in 0..(n - 1) /\ g[k] = f[k] /\ (k # 0 => k - 1 \in 0..n /\ k - 1 < n)
        BY <1>2, <3>1
      <4>2. f[k] = IF k = 0 THEN <<>> ELSE Read(f[k - 1], log[k])
        BY <2>3, <4>1 DEF Reads
      <4>3. k # 0 => g[k - 1] = f[k - 1]
        BY <4>1
      <4>4. QED
        BY <4>1, <4>2, <4>3
    <3>2. CASE ~ (k < n)
      <4>1. k = n /\ n - 1 \in 0..n /\ n - 1 < n
        BY <1>2, <2>1, <3>2
      <4>2. QED
        BY <1>4, <4>1
    <3>3. QED
      BY <3>1, <3>2
  <2>5. Reads(g, log, n)
    BY <2>4 DEF Reads
  <2>6. QED
    BY <1>2, <2>5
<1>5. QED
  BY <1>3, <1>4

\* What Readable returns: the messages among the lines that fit, and of a log of
\* nothing else all of it.
LEMMA ReadableHow ==
  ASSUME NEW log \in Seq(Line)
  PROVE  /\ Readable(log) \in Seq(Fits)
         /\ Range(Readable(log)) = Range(log) \cap Fits
         /\ log \in Seq(Fits) => Readable(log) = log
         /\ \E f : Reads(f, log, Len(log)) /\ Readable(log) = f[Len(log)]
<1> DEFINE f == CHOOSE g : Reads(g, log, Len(log))
<1>0. Len(log) \in Nat /\ DOMAIN log = 1..Len(log)
  BY LenProperties
<1>1. Readable(log) = f[Len(log)]
  <2> DEFINE u == CHOOSE upTo : upTo = [k \in 0..Len(log) |->
                    IF k = 0 THEN <<>>
                    ELSE IF log[k] \in Msg \ Long THEN Append(upTo[k - 1], log[k]) ELSE upTo[k - 1]]
  <2>1. Readable(log) = u[Len(log)]
    BY DEF Readable
  <2>2. u = f
    BY DEF Reads, Read, Fits
  <2>3. QED
    BY <2>1, <2>2
<1>2. Reads(f, log, Len(log))
  BY <1>0, ReadsExist
<1> HIDE DEF f
<1>3. \A k \in 0..Len(log) : f[k] = IF k = 0 THEN <<>> ELSE Read(f[k - 1], log[k])
  BY <1>2 DEF Reads
<1> DEFINE Right(k) ==
             /\ f[k] \in Seq(Fits)
             /\ Range(f[k]) = {log[i] : i \in 1..k} \cap Fits
             /\ (\A i \in 1..k : log[i] \in Fits) =>
                  Len(f[k]) = k /\ \A i \in 1..k : f[k][i] = log[i]
           Bad == {k \in Nat : k <= Len(log) /\ ~Right(k)}
<1>4. Bad = {}
  <2> SUFFICES ASSUME Bad # {} PROVE FALSE
    OBVIOUS
  <2>1. PICK k \in Bad : \A j \in Bad : k <= j
    BY LeastOf
  <2>2. k \in Nat /\ k <= Len(log) /\ k \in 0..Len(log) /\ ~Right(k)
    BY <1>0
  <2>3. CASE k = 0
    <3>1. f[k] = <<>>
      BY <1>3, <2>2, <2>3
    <3>2. 1..k = {} /\ {log[i] : i \in 1..k} = {}
      BY <2>3
    <3>3. Right(k)
      BY <2>3, <3>1, <3>2, NoRange, EmptySeq
    <3>4. QED
      BY <2>2, <3>3
  <2>4. CASE k # 0
    <3> DEFINE j == k - 1
    <3>1. j \in Nat /\ j <= Len(log) /\ ~ (k <= j) /\ k = j + 1 /\ k \in 1..Len(log)
      BY <1>0, <2>2, <2>4
    <3>2. Right(j)
      <4> HIDE DEF Right
      <4>1. ~ (j \in Bad)
        BY <2>1, <3>1
      <4> HIDE DEF j
      <4>2. QED
        BY <3>1, <4>1
    <3>3. f[k] = Read(f[j], log[k])
      BY <1>3, <2>2, <2>4
    <3>4. 1..k = (1..j) \cup {k}
      BY <3>1
    <3> DEFINE before == {log[i] : i \in 1..j}
    <3>5. {log[i] : i \in 1..k} = before \cup {log[k]}
      BY <3>4
    <3>6. CASE log[k] \in Fits
      <4>1. f[k] = Append(f[j], log[k])
        BY <3>3, <3>6 DEF Read
      <4>2. f[k] \in Seq(Fits) /\ Range(f[k]) = Range(f[j]) \cup {log[k]}
        BY <3>2, <3>6, <4>1, RangeAppended, AppendProperties
      <4>3. Range(f[k]) = {log[i] : i \in 1..k} \cap Fits
        BY <3>2, <3>5, <3>6, <4>2
      <4>4. ASSUME \A i \in 1..k : log[i] \in Fits
            PROVE  Len(f[k]) = k /\ \A i \in 1..k : f[k][i] = log[i]
        <5>1. Len(f[j]) = j /\ \A i \in 1..j : f[j][i] = log[i]
          BY <3>2, <3>4, <4>4
        <5>2. /\ Len(f[k]) = Len(f[j]) + 1 /\ f[k][Len(f[j]) + 1] = log[k]
              /\ \A i \in 1..Len(f[j]) : f[k][i] = f[j][i]
          BY <3>2, <3>6, <4>1, AppendProperties
        <5>3. QED
          BY <3>1, <3>4, <5>1, <5>2
      <4>5. Right(k)
        BY <4>2, <4>3, <4>4
      <4>6. QED
        BY <2>2, <4>5
    <3>7. CASE ~ (log[k] \in Fits)
      <4>1. f[k] = f[j]
        BY <3>3, <3>7 DEF Read
      <4>2. {log[i] : i \in 1..k} \cap Fits = before \cap Fits
        BY <3>5, <3>7
      <4>3. ~ \A i \in 1..k : log[i] \in Fits
        BY <3>4, <3>7
      <4>4. Right(k)
        BY <3>2, <4>1, <4>2, <4>3
      <4>5. QED
        BY <2>2, <4>4
    <3>8. QED
      BY <3>6, <3>7
  <2>5. QED
    BY <2>3, <2>4
<1>5. Right(Len(log))
  <2> HIDE DEF Right
  <2>1. ~ (Len(log) \in Bad)
    BY <1>4
  <2>2. QED
    BY <1>0, <2>1
<1>6. Range(log) = {log[i] : i \in 1..Len(log)}
  BY <1>0 DEF Range
<1>7. log \in Seq(Fits) => Readable(log) = log
  <2> SUFFICES ASSUME log \in Seq(Fits) PROVE Readable(log) = log
    OBVIOUS
  <2>1. \A i \in 1..Len(log) : log[i] \in Fits
    BY ElementOfSeq
  <2>2. /\ Readable(log) \in Seq(Fits) /\ Len(Readable(log)) = Len(log)
        /\ \A i \in 1..Len(log) : Readable(log)[i] = log[i]
    BY <1>1, <1>5, <2>1
  <2>3. QED
    BY <2>2, SeqEqual
<1>8. QED
  BY <1>1, <1>2, <1>5, <1>6, <1>7

LEMMA ReadBehind ==
  ASSUME NEW r \in Seq(Fits), NEW x \in Seq(Fits), NEW line
  PROVE  Read(r \o x, line) = r \o Read(x, line)
<1>1. CASE line \in Fits
  <2> DEFINE y == <<line>>
  <2>1. y \in Seq(Fits) /\ r \o x \in Seq(Fits)
    BY <1>1, ConcatProperties
  <2>2. Append(r \o x, line) = (r \o x) \o y /\ Append(x, line) = x \o y
    BY <1>1, <2>1, AppendIsConcat
  <2> HIDE DEF y
  <2>3. (r \o x) \o y = r \o (x \o y)
    BY <2>1, ConcatAssociative
  <2>4. QED
    BY <1>1, <2>2, <2>3 DEF Read
<1>2. CASE ~ (line \in Fits)
  BY <1>2 DEF Read
<1>3. QED
  BY <1>1, <1>2

\* A log is read line by line.
LEMMA ReadableJoined ==
  ASSUME NEW s \in Seq(Line), NEW t \in Seq(Line)
  PROVE  Readable(s \o t) = Readable(s) \o Readable(t)
<1> DEFINE u == s \o t
<1>1. /\ u \in Seq(Line) /\ Len(s) \in Nat /\ Len(t) \in Nat /\ Len(u) = Len(s) + Len(t)
      /\ \A i \in 1..Len(s) : u[i] = s[i]
      /\ \A i \in 1..Len(t) : u[Len(s) + i] = t[i]
  BY Joined
<1> HIDE DEF u
<1>2. PICK f : Reads(f, s, Len(s)) /\ Readable(s) = f[Len(s)]
  BY ReadableHow
<1>3. PICK g : Reads(g, t, Len(t)) /\ Readable(t) = g[Len(t)]
  BY ReadableHow
<1>4. PICK h : Reads(h, u, Len(u)) /\ Readable(u) = h[Len(u)]
  BY <1>1, ReadableHow
<1>5. /\ \A k \in 0..Len(s) : f[k] = IF k = 0 THEN <<>> ELSE Read(f[k - 1], s[k])
      /\ \A k \in 0..Len(t) : g[k] = IF k = 0 THEN <<>> ELSE Read(g[k - 1], t[k])
      /\ \A k \in 0..Len(u) : h[k] = IF k = 0 THEN <<>> ELSE Read(h[k - 1], u[k])
  BY <1>2, <1>3, <1>4 DEF Reads
<1>6. \A k \in 0..Len(s) : h[k] = f[k]
  <2> DEFINE Bad == {k \in Nat : k <= Len(s) /\ h[k] # f[k]}
  <2> SUFFICES ASSUME Bad # {} PROVE FALSE
    BY <1>1
  <2>1. PICK k \in Bad : \A j \in Bad : k <= j
    BY LeastOf
  <2>2. k \in Nat /\ k <= Len(s) /\ h[k] # f[k] /\ k \in 0..Len(s) /\ k \in 0..Len(u)
    BY <1>1
  <2>3. k # 0
    BY <1>5, <2>2
  <2>4. k - 1 \in Nat /\ k - 1 <= Len(s) /\ ~ (k <= k - 1) /\ k \in 1..Len(s)
    BY <1>1, <2>2, <2>3
  <2>5. h[k - 1] = f[k - 1]
    BY <2>1, <2>4
  <2>6. h[k] = Read(h[k - 1], u[k]) /\ f[k] = Read(f[k - 1], s[k])
    BY <1>5, <2>2, <2>3
  <2>7. u[k] = s[k]
    BY <1>1, <2>4
  <2>8. QED
    BY <2>2, <2>5, <2>6, <2>7
<1>7. ASSUME NEW k \in 0..Len(t) PROVE g[k] \in Seq(Fits)
  <2> DEFINE Bad == {j \in Nat : j <= Len(t) /\ ~ (g[j] \in Seq(Fits))}
  <2> SUFFICES ASSUME Bad # {} PROVE FALSE
    BY <1>1
  <2>1. PICK j \in Bad : \A i \in Bad : j <= i
    BY LeastOf
  <2>2. j \in Nat /\ j <= Len(t) /\ ~ (g[j] \in Seq(Fits)) /\ j \in 0..Len(t)
    BY <1>1
  <2>3. j # 0
    BY <1>5, <2>2, EmptySeq
  <2>4. j - 1 \in Nat /\ j - 1 <= Len(t) /\ ~ (j <= j - 1)
    BY <1>1, <2>2, <2>3
  <2>5. g[j - 1] \in Seq(Fits)
    BY <2>1, <2>4
  <2>6. g[j] = Read(g[j - 1], t[j])
    BY <1>5, <2>2, <2>3
  <2>7. QED
    BY <2>2, <2>5, <2>6, AppendProperties DEF Read
<1>8. Readable(s) \in Seq(Fits)
  BY ReadableHow
<1>9. \A k \in 0..Len(t) : h[Len(s) + k] = Readable(s) \o g[k]
  <2> DEFINE n == Len(s)
             r == Readable(s)
             Bad == {k \in Nat : k <= Len(t) /\ h[n + k] # r \o g[k]}
  <2> SUFFICES ASSUME Bad # {} PROVE FALSE
    <3>1. ASSUME NEW k \in 0..Len(t), h[n + k] # r \o g[k] PROVE k \in Bad
      BY <1>1, <3>1
    <3>2. QED
      BY <3>1
  <2>1. PICK k \in Bad : \A j \in Bad : k <= j
    BY LeastOf
  <2>2. /\ k \in Nat /\ k <= Len(t) /\ h[n + k] # r \o g[k] /\ k \in 0..Len(t)
        /\ n + k \in 0..Len(u)
    BY <1>1
  <2>3. CASE k = 0
    <3>1. n + k = n /\ n \in 0..Len(s) /\ g[k] = <<>>
      BY <1>1, <1>5, <2>2, <2>3
    <3>2. h[n + k] = r
      BY <1>2, <1>6, <3>1
    <3>3. r \o <<>> = r
      BY <1>8, ConcatEmptySeq
    <3>4. QED
      BY <2>2, <3>1, <3>2, <3>3
  <2>4. CASE k # 0
    <3>1. /\ k - 1 \in Nat /\ k - 1 <= Len(t) /\ ~ (k <= k - 1) /\ k \in 1..Len(t)
          /\ (n + k) - 1 = n + (k - 1) /\ n + k # 0 /\ k - 1 \in 0..Len(t)
      BY <1>1, <2>2, <2>4
    <3>2. h[n + (k - 1)] = r \o g[k - 1]
      BY <2>1, <3>1
    <3>3. h[n + k] = Read(h[(n + k) - 1], u[n + k])
      BY <1>5, <2>2, <3>1
    <3>4. g[k] = Read(g[k - 1], t[k])
      BY <1>5, <2>2, <2>4
    <3>5. u[n + k] = t[k]
      BY <1>1, <3>1
    <3>6. h[n + k] = Read(r \o g[k - 1], t[k])
      BY <3>1, <3>2, <3>3, <3>5
    <3> DEFINE x == g[k - 1]
    <3>7. x \in Seq(Fits) /\ r \in Seq(Fits)
      BY <1>7, <1>8, <3>1
    <3>8. Read(r \o x, t[k]) = r \o Read(x, t[k])
      BY <3>7, ReadBehind
    <3>9. QED
      BY <2>2, <3>4, <3>6, <3>8
  <2>5. QED
    BY <2>3, <2>4
<1>10. Len(t) \in 0..Len(t) /\ h[Len(s) + Len(t)] = Readable(s) \o g[Len(t)]
  BY <1>1, <1>9
<1>11. QED
  BY <1>1, <1>3, <1>4, <1>10 DEF u
------------------------------------------------------------------------------
(***************************************************************************)
(* The files.                                                              *)
(***************************************************************************)
LEMMA Messages ==
  /\ Msg \subseteq Line /\ ~ (Torn \in Msg) /\ ~ (Junk \in Msg) /\ Torn \in Line /\ Junk \in Line
  /\ Msg \subseteq Nat /\ Seq(Msg) \subseteq Seq(Line)
  /\ Fits \subseteq Msg /\ Seq(Fits) \subseteq Seq(Msg)
<1>1. Msg \subseteq Line /\ ~ (Torn \in Msg) /\ ~ (Junk \in Msg) /\ Torn \in Line /\ Junk \in Line
  BY DEF Msg, Line, Torn, Junk
<1>2. Msg \subseteq Nat
  BY DEF Msg
<1>3. \A s \in Seq(Msg) : s \in Seq(Line)
  BY <1>1, SeqMonotonic
<1>4. Fits \subseteq Msg
  BY DEF Fits
<1>5. \A s \in Seq(Fits) : s \in Seq(Msg)
  BY <1>4, SeqMonotonic
<1>6. QED
  BY <1>1, <1>2, <1>3, <1>4, <1>5

LEMMA ButLast ==
  \A n \in Nat \ {0} :
    /\ n - 1 \in Nat /\ n - 1 <= n
    /\ (IF 1 <= n - 1 THEN (n - 1) - 1 + 1 ELSE 0) = n - 1
    /\ \A i \in 1..n : i # n => i \in 1..(n - 1)
OBVIOUS

\* Writing behind a torn line costs the first message written, never one that
\* was there.
LEMMA WrittenHow ==
  ASSUME NEW log \in Seq(Line), NEW ms \in Seq(Msg)
  PROVE  /\ Written(log, ms) \in Seq(Line)
         /\ Range(log) \cap Msg \subseteq Range(Written(log, ms))
         /\ log \in Seq(Msg) => /\ Written(log, ms) = log \o ms
                                /\ Written(log, ms) \in Seq(Msg)
<1>0. /\ Len(log) \in Nat /\ DOMAIN log = 1..Len(log)
      /\ log # <<>> => Len(log) > 0
      /\ ms \in Seq(Line)
  BY LenProperties, EmptySeq, Messages
<1>1. CASE Ragged(log) /\ ms # <<>>
  <2>1. Len(log) > 0 /\ log[Len(log)] = Torn /\ Len(log) \in 1..Len(log)
    BY <1>0, <1>1 DEF Ragged, Last
  <2>2. /\ Front(log) \in Seq(Line) /\ Len(Front(log)) = Len(log) - 1
        /\ \A i \in 1..(Len(log) - 1) : Front(log)[i] = log[i]
    <3> DEFINE g == SubSeq(log, 1, Len(log) - 1)
    <3>1. Len(log) - 1 \in Nat /\ Len(log) - 1 <= Len(log)
      BY <1>0, <2>1
    <3>2. /\ g \in Seq(Line)
          /\ Len(g) = IF 1 <= Len(log) - 1 THEN (Len(log) - 1) - 1 + 1 ELSE 0
          /\ \A i \in 1..((Len(log) - 1) - 1 + 1) : g[i] = log[1 + i - 1]
      BY <3>1, Part
    <3>3. g = Front(log)
      BY DEF Front
    <3> HIDE DEF g
    <3>4. (Len(log) - 1) - 1 + 1 = Len(log) - 1 /\ \A i \in 1..(Len(log) - 1) : 1 + i - 1 = i
      BY <1>0
    <3>5. Len(g) = Len(log) - 1
      <4>1. Len(log) \in Nat \ {0}
        BY <1>0, <2>1
      <4>2. QED
        BY <3>2, <4>1, ButLast
    <3>6. \A i \in 1..(Len(log) - 1) : g[i] = log[i]
      BY <3>2, <3>4
    <3>7. QED
      BY <3>2, <3>3, <3>5, <3>6
  <2>3. Tail(ms) \in Seq(Line) /\ <<Junk>> \in Seq(Line)
    BY <1>0, <1>1, HeadTailProperties, Messages
  <2>4. Written(log, ms) = (Front(log) \o <<Junk>>) \o Tail(ms)
    BY <1>1 DEF Written
  <2>5. Front(log) \o <<Junk>> \in Seq(Line) /\ Written(log, ms) \in Seq(Line)
    BY <2>2, <2>3, <2>4, Joined
  <2>6. Range(Front(log)) \subseteq Range(Written(log, ms))
    <3> DEFINE a == Front(log)
               b == <<Junk>>
               c == a \o b
               d == Tail(ms)
    <3>1. a \in Seq(Line) /\ b \in Seq(Line) /\ c \in Seq(Line) /\ d \in Seq(Line)
      BY <2>2, <2>3, <2>5
    <3>2. Written(log, ms) = c \o d
      BY <2>4
    <3> HIDE DEF a, b, d
    <3>3. Range(a) \subseteq Range(c)
      BY <3>1, Ranges
    <3> HIDE DEF c
    <3>4. Range(c) \subseteq Range(c \o d)
      BY <3>1, Ranges
    <3>5. QED
      BY <3>2, <3>3, <3>4 DEF a
  <2>7. \A x \in Range(log) \cap Msg : x \in Range(Front(log))
    <3> SUFFICES ASSUME NEW i \in 1..Len(log), log[i] \in Msg PROVE log[i] \in Range(Front(log))
      BY <1>0 DEF Range
    <3>1. i # Len(log)
      BY <2>1, Messages
    <3>2. i \in 1..(Len(log) - 1)
      <4>1. Len(log) \in Nat \ {0}
        BY <1>0, <2>1
      <4>2. QED
        BY <3>1, <4>1, ButLast
    <3>3. i \in DOMAIN Front(log)
      BY <2>2, <3>2, LenProperties
    <3>4. QED
      BY <2>2, <3>2, <3>3 DEF Range
  <2>8. ~ (log \in Seq(Msg))
    BY <2>1, ElementOfSeq, Messages
  <2>9. QED
    BY <2>5, <2>6, <2>7, <2>8
<1>2. CASE ~ (Ragged(log) /\ ms # <<>>)
  <2>1. Written(log, ms) = log \o ms
    BY <1>2 DEF Written
  <2>2. log \o ms \in Seq(Line) /\ Range(log) \subseteq Range(log \o ms)
    BY <1>0, Joined, Ranges, Messages
  <2>3. log \in Seq(Msg) => log \o ms \in Seq(Msg)
    BY Joined
  <2>4. QED
    BY <2>1, <2>2, <2>3
<1>3. QED
  BY <1>1, <1>2

\* Nor does a log cut short lose one.
LEMMA CutHow ==
  ASSUME NEW log \in Seq(Line), NEW ms \in Seq(Msg), NEW k \in 0..Len(ms), NEW mid \in BOOLEAN
  PROVE  /\ Cut(log, ms, k, mid) \in Seq(Line)
         /\ Range(log) \cap Msg \subseteq Range(Cut(log, ms, k, mid))
<1> DEFINE part == SubSeq(ms, 1, k)
           whole == Written(log, part)
<1>1. part \in Seq(Msg)
  BY Part, LenProperties
<1> HIDE DEF part
<1>2. whole \in Seq(Line) /\ Range(log) \cap Msg \subseteq Range(whole)
  BY <1>1, WrittenHow
<1>3. Cut(log, ms, k, mid) = IF mid /\ ~Ragged(whole) THEN Append(whole, Torn) ELSE whole
  BY DEF Cut, part
<1> HIDE DEF whole
<1>4. Append(whole, Torn) \in Seq(Line) /\ Range(whole) \subseteq Range(Append(whole, Torn))
  BY <1>2, AppendProperties, RangeAppended, Messages
<1>5. QED
  BY <1>2, <1>3, <1>4

LEMMA FileParts ==
  ASSUME NEW f \in Files
  PROVE  /\ f.there \in BOOLEAN /\ f.ckpt \in Seq(Msg) /\ f.log \in Seq(Line)
BY DEF Files, Line

LEMMA RecoverHow ==
  ASSUME NEW f \in Files
  PROVE  /\ Recover(f) \in Seq(Msg)
         /\ Range(Recover(f)) = Range(f.ckpt) \cup (Range(f.log) \cap Fits)
         /\ Readable(Recover(f)) = Readable(Stored(f))
<1> DEFINE c == f.ckpt
           l == f.log
           r == Readable(l)
<1>1. c \in Seq(Msg) /\ c \in Seq(Line) /\ l \in Seq(Line)
  BY FileParts, Messages
<1>2. /\ r \in Seq(Fits) /\ Range(r) = Range(l) \cap Fits
      /\ r \in Seq(Msg) /\ r \in Seq(Line)
  BY <1>1, ReadableHow, Messages
<1>3. Recover(f) = c \o r /\ Stored(f) = c \o l
  BY DEF Recover, Stored
<1>4. Readable(r) = r
  <2> HIDE DEF r
  <2> QED BY <1>2, ReadableHow
<1> HIDE DEF c, l, r
<1>5. c \o r \in Seq(Msg) /\ Range(c \o r) = Range(c) \cup Range(r)
  BY <1>1, <1>2, Joined, Ranges
<1>6. Readable(c \o r) = Readable(c) \o Readable(r) /\ Readable(c \o l) = Readable(c) \o Readable(l)
  BY <1>1, <1>2, ReadableJoined
<1>7. QED
  BY <1>2, <1>3, <1>4, <1>5, <1>6 DEF c, l, r

LEMMA AbsentFile ==
  /\ Absent \in Files /\ [Absent EXCEPT !.there = TRUE] \in Files
  /\ Absent.there = FALSE
  /\ [Absent EXCEPT !.there = TRUE].log = <<>> /\ [Absent EXCEPT !.there = TRUE].ckpt = <<>>
BY NoRange DEF Absent, Files
------------------------------------------------------------------------------
(***************************************************************************)
(* What every step owes: the invariant, and what the action properties say *)
(* of it.                                                                  *)
(***************************************************************************)
Kept ==
  "short" \notin upset' =>
    \A i \in Id : disk[i].there /\ disk'[i] # disk[i] =>
      IF i = current
      THEN Range(Recover(disk[i])) \cap Range(history) \subseteq Range(Recover(disk'[i]))
      ELSE disk'[i] = Absent

Logs == smooth' /\ Appended => Readable(Recover(disk'[current])) = Readable(history)

Holds == IInv' /\ Kept /\ Logs

LEMMA Constants ==
  /\ CheckpointEvery \in Nat /\ CheckpointEvery > 0 /\ KeepRecent \in Nat /\ KeepRecent > 0
  /\ MaxIds \in Nat /\ MaxMsgs \in Nat /\ MaxFails \in Nat
  /\ \A n \in Growth \cup {1} : n \in Nat /\ n > 0
  /\ ToAppend = -1 /\ ToNew = -2 /\ ToExit = 0 /\ NoId = 0
  /\ Id \subseteq Nat /\ ~ (NoId \in Id) /\ ~ (ToAppend \in Id) /\ ~ (ToNew \in Id) /\ ~ (ToExit \in Id)
BY SessionAssumption DEF ToAppend, ToNew, ToExit, NoId, Id

LEMMA States ==
  ASSUME IInv
  PROVE  /\ disk \in [Id -> Files] /\ \A i \in Id : disk[i] \in Files
         /\ current \in Id \cup {NoId} /\ history \in Seq(Msg)
         /\ since \in Nat /\ prev \in Nat /\ clock \in Nat /\ made \in 0..MaxMsgs
         /\ saved \in [Id -> SUBSET Msg] /\ upset \subseteq Upsets /\ fails \in Nat
         /\ pc \in [at : Points, goal : Goals] /\ pc.goal \in Goals
         /\ Homed => current \in Id /\ disk[current] \in Files /\ disk[current].there
         /\ smooth /\ ~At("off") /\ ~At("leave") => Homed
         /\ Count \in Nat
BY LenProperties DEF IInv, TypeOK, Count, Homed

\* What a step does to the conditions of the invariants.
LEMMA Calm ==
  ASSUME UNCHANGED upset
  PROVE  smooth' = smooth /\ Clean' = Clean
BY DEF smooth, Clean

LEMMA Upsetting ==
  ASSUME upset \subseteq Upsets, NEW why \in Upsets, Upset(why)
  PROVE  /\ upset' \subseteq Upsets /\ ~smooth' /\ why \in upset'
         /\ "short" \in upset => "short" \in upset'
         /\ why \in {"command", "failed"} => Clean' = Clean /\ ("short" \in upset' => "short" \in upset)
         /\ why \in {"summary", "short", "unread"} => ~Clean'
BY DEF Upset, Upsets, smooth, Clean

LEMMA FailsCounted ==
  ASSUME fails \in Nat, Failing \/ UNCHANGED fails
  PROVE  fails' \in Nat
BY DEF Failing

\* One directory is rewritten.
LEMMA DiskChanged ==
  ASSUME IInv, NEW i \in Id, NEW f \in Files, disk' = [disk EXCEPT ![i] = f]
  PROVE  /\ disk' \in [Id -> Files] /\ disk'[i] = f
         /\ \A j \in Id : j # i => disk'[j] = disk[j]
BY States

\* A step that leaves the disk alone, and is not the end of session_append.
LEMMA DiskAlone ==
  ASSUME disk' = disk, pc'.at = "prompt" => pc.at = "prompt" \/ pc.goal # ToAppend
  PROVE  Kept /\ Logs
BY DEF Kept, Logs, Appended

\* A step that has ended the smooth run needs no more than the coarser parts.
LEMMA Rough ==
  ASSUME TypeOK', Housed', Aimed', Whole', ~smooth', Kept
  PROVE  Holds
BY DEF Holds, IInv, Smooth, Logs

\* What is logged is where it was.
LEMMA WholeStill ==
  ASSUME IInv, UNCHANGED <<disk, current, history, saved>>, Clean' => Clean
  PROVE  Whole'
BY DEF IInv, Whole

\* The history with messages behind it.
LEMMA Grown ==
  ASSUME IInv, NEW n \in Nat, made + n <= MaxMsgs, history' = history \o Fresh(n)
  PROVE  /\ history' \in Seq(Msg) /\ Count' >= Count /\ Count' \in Nat
         /\ Range(history) \subseteq Range(history')
         /\ prev <= Count => SubSeq(history', 1, prev) = SubSeq(history, 1, prev)
<1> DEFINE t == Fresh(n)
<1>0. history \in Seq(Msg) /\ made \in Nat /\ MaxMsgs \in Nat /\ prev \in Nat
  BY States, Constants
<1>1. t \in Seq(Msg)
  <2>1. t = [k \in 1..n |-> made + k]
    BY DEF Fresh
  <2>2. \A k \in 1..n : made + k \in Msg
    BY <1>0 DEF Msg
  <2> HIDE DEF t
  <2>3. QED
    BY <2>1, <2>2, IsASeq
<1>2. history' = history \o t
  OBVIOUS
<1> HIDE DEF t
<1>3. /\ history' \in Seq(Msg) /\ Len(history) \in Nat /\ Len(t) \in Nat
      /\ Len(history') = Len(history) + Len(t)
      /\ \A i \in 1..Len(history) : history'[i] = history[i]
  BY <1>0, <1>1, <1>2, Joined
<1>4. Range(history) \subseteq Range(history')
  BY <1>0, <1>1, <1>2, Ranges
<1>5. ASSUME prev <= Count PROVE SubSeq(history', 1, prev) = SubSeq(history, 1, prev)
  <2> DEFINE a == SubSeq(history', 1, prev)
             b == SubSeq(history, 1, prev)
  <2>1. prev <= Len(history) /\ prev <= Len(history')
    BY <1>0, <1>3, <1>5 DEF Count
  <2>2. /\ a \in Seq(Msg) /\ Len(a) = (IF 1 <= prev THEN prev - 1 + 1 ELSE 0)
        /\ \A i \in 1..(prev - 1 + 1) : a[i] = history'[1 + i - 1]
    BY <1>0, <1>3, <2>1, Part
  <2>3. /\ b \in Seq(Msg) /\ Len(b) = (IF 1 <= prev THEN prev - 1 + 1 ELSE 0)
        /\ \A i \in 1..(prev - 1 + 1) : b[i] = history[1 + i - 1]
    BY <1>0, <2>1, Part
  <2> HIDE DEF a, b
  <2>4. Len(a) = prev /\ Len(b) = prev
    BY <1>0, <2>2, <2>3
  <2>5. \A i \in 1..prev : a[i] = b[i]
    <3> SUFFICES ASSUME NEW i \in 1..prev PROVE a[i] = b[i]
      OBVIOUS
    <3>1. i \in 1..(prev - 1 + 1) /\ 1 + i - 1 = i /\ i \in 1..Len(history)
      BY <1>0, <1>3, <2>1
    <3>2. QED
      BY <1>3, <2>2, <2>3, <3>1
  <2>6. a = b
    BY <2>2, <2>3, <2>4, <2>5, SeqEqual
  <2>7. QED
    BY <2>6 DEF a, b
<1>6. Count = Len(history) /\ Count' = Len(history')
  BY DEF Count
<1>7. Count' >= Count /\ Count' \in Nat
  BY <1>3, <1>6
<1>8. QED
  BY <1>3, <1>4, <1>5, <1>7
------------------------------------------------------------------------------
(***************************************************************************)
(* The steps, from one prompt to the next.                                 *)
(***************************************************************************)
LEMMA Begins == Init => IInv
<1> SUFFICES ASSUME Init PROVE IInv
  OBVIOUS
<1> USE Constants DEF Init
<1>1. TypeOK
  BY AbsentFile, NoRange DEF TypeOK, At, Points, Goals
<1>2. Housed
  BY AbsentFile DEF Housed, At
<1>3. Aimed
  BY DEF Aimed, At
<1>4. Smooth
  BY DEF Smooth
<1>5. Whole
  BY DEF Whole
<1>6. QED
  BY <1>1, <1>2, <1>3, <1>4, <1>5 DEF IInv

LEMMA StartStep ==
  ASSUME IInv, Start
  PROVE  Holds
<1> USE Constants DEF Start, Go, At
<1>1. /\ pc' = [at |-> "leave", goal |-> ToNew] /\ clock < MaxIds
      /\ UNCHANGED <<disk, current, history, since, prev, clock, made, saved, upset, fails>>
  OBVIOUS
<1>2. TypeOK'
  BY <1>1, States DEF TypeOK, Points, Goals
<1>3. Housed'
  BY <1>1 DEF IInv, Housed
<1>4. Aimed'
  BY <1>1 DEF IInv, Aimed
<1>5. Smooth'
  <2>1. smooth' = smooth /\ Count' = Count
    BY <1>1, Calm DEF Count
  <2> SUFFICES ASSUME smooth, current # NoId PROVE InStep'
    BY <1>1, <2>1 DEF IInv, Smooth
  <2>2. InStep
    BY DEF IInv, Smooth
  <2>3. QED
    BY <1>1, <2>1, <2>2 DEF InStep
<1>6. Whole'
  BY <1>1, Calm, WholeStill
<1>7. QED
  BY <1>1, <1>2, <1>3, <1>4, <1>5, <1>6, DiskAlone DEF Holds, IInv

\* A chat, answered or failed.
LEMMA ChatStep ==
  ASSUME IInv, NEW n \in Growth \cup {1}, Chat(n) \/ ChatFails(n)
  PROVE  Holds
<1> USE Constants DEF At
<1>1. /\ At("prompt") /\ made + n <= MaxMsgs /\ n \in Nat
      /\ history' = history \o Fresh(n) /\ made' = made + n
      /\ pc' = [at |-> "replied", goal |-> ToAppend] \/ pc' = pc
      /\ UNCHANGED <<disk, current, since, prev, clock, saved, upset, fails>>
  BY DEF Chat, ChatFails, Go
<1>2. /\ history' \in Seq(Msg) /\ Count' >= Count /\ Count' \in Nat
      /\ Range(history) \subseteq Range(history')
      /\ prev <= Count => SubSeq(history', 1, prev) = SubSeq(history, 1, prev)
  BY <1>1, Grown
<1>3. smooth' = smooth /\ Clean' = Clean /\ Homed' = Homed
  BY <1>1, Calm DEF Homed
<1>4. TypeOK'
  <2>1. pc' \in [at : Points, goal : Goals] /\ made' \in 0..MaxMsgs
    BY <1>1, States DEF Points, Goals
  <2>2. smooth => Homed
    BY <1>1, States
  <2>3. QED
    BY <1>1, <1>2, <1>3, <2>1, <2>2, States DEF TypeOK
<1>5. Housed'
  BY <1>1 DEF IInv, Housed
<1>6. Aimed'
  BY <1>1 DEF IInv, Aimed
<1>7. Smooth'
  <2> SUFFICES ASSUME smooth, current # NoId PROVE InStep'
    BY <1>1, <1>3 DEF IInv, Smooth
  <2>1. InStep /\ pc.at = "prompt" /\ (pc'.at = "prompt" \/ pc'.at = "replied")
    BY <1>1 DEF IInv, Smooth
  <2>2. prev <= Count /\ prev' <= Count' /\ SubSeq(history', 1, prev) = SubSeq(history, 1, prev)
    <3>1. prev <= Count /\ prev \in Nat /\ Count \in Nat /\ prev' = prev
      BY <1>1, <2>1, States DEF InStep
    <3> HIDE DEF At
    <3>2. prev' <= Count'
      BY <1>2, <3>1
    <3>3. QED
      BY <1>2, <3>1, <3>2
  <2>3. QED
    BY <1>1, <1>2, <2>1, <2>2 DEF InStep
<1>8. Whole'
  BY <1>1, <1>2, <1>3 DEF IInv, Whole
<1>9. Kept /\ Logs
  BY <1>1, DiskAlone
<1>10. QED
  BY <1>4, <1>5, <1>6, <1>7, <1>8, <1>9 DEF Holds, IInv

LEMMA ChatSummarisedStep ==
  ASSUME IInv, NEW n \in Growth, ChatSummarised(n)
  PROVE  Holds
<1> USE Constants
<1> DEFINE pushed == Append(history, made + 1)
           recent == SubSeq(pushed, Len(pushed) - KeepRecent + 1, Len(pushed))
           rest == Tail(Fresh(n))
<1>1. /\ At("prompt") /\ made + n + 1 <= MaxMsgs /\ Len(pushed) > KeepRecent
      /\ history' = (<<made + n + 1>> \o recent) \o rest
      /\ made' = made + n + 1 /\ Upset("summary")
      /\ pc' = [at |-> "replied", goal |-> ToAppend]
      /\ UNCHANGED <<disk, current, since, prev, clock, saved, fails>>
  BY DEF ChatSummarised, Go
<1>2. made \in Nat /\ n \in Nat /\ n > 0 /\ history \in Seq(Msg)
  BY States
<1>3. made + 1 \in Msg /\ made + n + 1 \in Msg
  BY <1>1, <1>2 DEF Msg
<1>4. pushed \in Seq(Msg) /\ Len(pushed) \in Nat
  BY <1>2, <1>3, AppendProperties, LenProperties
<1> HIDE DEF pushed
<1>5. recent \in Seq(Msg)
  <2>1. Len(pushed) - KeepRecent + 1 \in Nat /\ Len(pushed) - KeepRecent + 1 > 0
    BY <1>1, <1>4
  <2>2. QED
    BY <1>4, <2>1, Part
<1>6. rest \in Seq(Msg)
  <2> DEFINE t == Fresh(n)
  <2>1. t = [k \in 1..n |-> made + k]
    BY DEF Fresh
  <2>2. \A k \in 1..n : made + k \in Msg
    BY <1>1, <1>2 DEF Msg
  <2> HIDE DEF t
  <2>3. t \in Seq(Msg)
    BY <1>2, <2>1, <2>2, IsASeq
  <2>4. DOMAIN t = 1..n
    BY <2>1
  <2>5. t # <<>>
    BY <1>2, <2>3, <2>4, EmptySeq, LenProperties
  <2>6. QED
    BY <2>3, <2>5, HeadTailProperties DEF t
<1> HIDE DEF recent, rest
<1>7. history' \in Seq(Msg)
  <2> DEFINE a == <<made + n + 1>>
             b == a \o recent
  <2>1. a \in Seq(Msg) /\ history' = b \o rest
    BY <1>1, <1>3
  <2> HIDE DEF a
  <2>2. b \in Seq(Msg)
    BY <1>5, <2>1, Joined
  <2> HIDE DEF b
  <2>3. QED
    BY <1>6, <2>1, <2>2, Joined
<1>8. /\ upset' \subseteq Upsets /\ ~smooth' /\ ~Clean'
      /\ "short" \in upset => "short" \in upset'
  BY <1>1, States, Upsetting DEF Upsets
<1>9. TypeOK'
  <2>1. pc' \in [at : Points, goal : Goals] /\ made' \in 0..MaxMsgs
    BY <1>1, <1>2 DEF Points, Goals
  <2>2. QED
    BY <1>1, <1>7, <1>8, <2>1, States DEF TypeOK
<1>10. Housed'
  BY <1>1 DEF IInv, Housed, At
<1>11. Aimed'
  BY <1>1 DEF IInv, Aimed, At
<1>12. Whole'
  BY <1>8 DEF Whole
<1>13. Kept
  BY <1>1, DiskAlone DEF At
<1>14. QED
  BY <1>8, <1>9, <1>10, <1>11, <1>12, <1>13, Rough

\* main takes the count, and nothing else is done.
LEMMA CountTakenStep ==
  ASSUME IInv, AppendNothing \/ AppendFails
  PROVE  Holds
<1> USE Constants DEF At
<1>1. /\ At("replied") /\ prev' = Count
      /\ pc' = [at |-> "prompt", goal |-> ToAppend]
      /\ UNCHANGED <<disk, current, history, since, clock, made, saved>>
      /\ Failing \/ UNCHANGED fails
      /\ Upset("failed") \/ (UNCHANGED upset /\ Count <= prev)
  BY DEF AppendNothing, AppendFails, Go
<1>2. /\ upset' \subseteq Upsets /\ Clean' = Clean /\ (smooth' => smooth) /\ Homed' = Homed
      /\ smooth' => Count <= prev
      /\ "short" \in upset => "short" \in upset'
  BY <1>1, States, Calm, Upsetting DEF Upsets, Homed
<1>3. TypeOK'
  <2>1. pc' \in [at : Points, goal : Goals] /\ prev' \in Nat /\ fails' \in Nat
    BY <1>1, States, FailsCounted DEF Points, Goals
  <2>2. smooth => Homed
    BY <1>1, States
  <2>3. QED
    BY <1>1, <1>2, <2>1, <2>2, States DEF TypeOK
<1>4. Housed'
  BY <1>1 DEF IInv, Housed
<1>5. Aimed'
  BY <1>1 DEF IInv, Aimed
<1>6. Whole'
  BY <1>1, <1>2, WholeStill
<1>7. Kept
  BY <1>1 DEF Kept
<1>8. CASE ~smooth'
  BY <1>3, <1>4, <1>5, <1>6, <1>7, <1>8, Rough
<1>9. CASE smooth'
  <2>1. smooth /\ Count <= prev /\ current # NoId /\ current \in Id
    <3>1. Homed
      BY <1>1, <1>2, <1>9, States
    <3>2. QED
      BY <1>2, <1>9, <3>1, States
  <2>2. InStep /\ prev = Count /\ SubSeq(history, 1, prev) = history
    <3>1. InStep
      BY <2>1 DEF IInv, Smooth
    <3>2. prev = Count
      BY <2>1, <3>1, States DEF InStep
    <3>3. SubSeq(history, 1, Len(history)) = history
      BY SubSeqFull, States
    <3>4. QED
      BY <3>1, <3>2, <3>3 DEF Count
  <2>3. Smooth'
    <3>1. InStep'
      BY <1>1, <2>2, States DEF InStep, Count
    <3>2. QED
      BY <1>1, <2>1, <3>1 DEF Smooth
  <2>4. Logs
    <3>1. Stored(disk[current]) = history
      BY <1>1, <2>2 DEF InStep
    <3>2. disk[current] \in Files
      BY <2>1, States
    <3>3. Readable(Recover(disk[current])) = Readable(history)
      BY <3>1, <3>2, RecoverHow
    <3>4. QED
      BY <1>1, <3>3 DEF Logs
  <2>5. QED
    BY <1>3, <1>4, <1>5, <1>6, <1>7, <2>3, <2>4 DEF Holds, IInv
<1>10. QED
  BY <1>8, <1>9
------------------------------------------------------------------------------
(***************************************************************************)
(* The steps that write the files of the active session.                   *)
(***************************************************************************)
\* What a rewritten file owes: what of the history was in it is in it still.
LEMMA Rewritten ==
  ASSUME IInv, current \in Id, NEW f \in Files,
         disk' = [disk EXCEPT ![current] = f],
         f.there = disk[current].there,
         "short" \notin upset' =>
           Range(Recover(disk[current])) \cap Range(history) \subseteq Range(Recover(f))
  PROVE  /\ disk' \in [Id -> Files] /\ disk'[current] = f
         /\ \A i \in Id : disk'[i].there = disk[i].there
         /\ \A i \in Id : i # current => disk'[i] = disk[i]
         /\ Kept
<1>1. /\ disk' \in [Id -> Files] /\ disk'[current] = f
      /\ \A i \in Id : i # current => disk'[i] = disk[i]
  BY DiskChanged
<1>2. \A i \in Id : disk'[i].there = disk[i].there
  BY <1>1
<1>3. Kept
  BY <1>1 DEF Kept
<1>4. QED
  BY <1>1, <1>2, <1>3

\* The logged messages of the active session are in the rewritten file, those of the
\* others where they were.
LEMMA WholeRewritten ==
  ASSUME IInv, current \in Id, NEW f \in Files, disk'[current] = f,
         \A i \in Id : i # current => disk'[i] = disk[i] /\ saved'[i] = saved[i],
         UNCHANGED <<current, history>>, Clean' => Clean,
         Clean' => /\ saved'[current] \ Long \subseteq Range(Recover(f))
                   /\ saved'[current] \ Long \subseteq Range(history)
  PROVE  Whole'
<1> SUFFICES ASSUME Clean'
             PROVE  /\ \A i \in Id : saved'[i] \ Long \subseteq Range(Recover(disk'[i]))
                    /\ saved'[current] \ Long \subseteq Range(history)
  BY DEF Whole
<1>1. \A i \in Id : saved[i] \ Long \subseteq Range(Recover(disk[i]))
  BY DEF IInv, Whole
<1>2. ASSUME NEW i \in Id PROVE saved'[i] \ Long \subseteq Range(Recover(disk'[i]))
  <2>1. CASE i = current
    BY <2>1
  <2>2. CASE i # current
    BY <1>1, <2>2
  <2>3. QED
    BY <2>1, <2>2
<1>3. QED
  BY <1>2

\* The new messages, and the log with them.
LEMMA LogWritten ==
  ASSUME IInv, At("replied"), Count > prev
  PROVE  /\ Logged(prev) \in Seq(Msg) /\ Len(Logged(prev)) = Count - prev
         /\ Range(Logged(prev)) \subseteq Range(history)
<1>1. prev \in Nat /\ Len(history) \in Nat /\ Count = Len(history) /\ history \in Seq(Msg)
  BY States DEF Count
<1> DEFINE m == Logged(prev)
<1>2. /\ m \in Seq(Msg)
      /\ Len(m) = IF prev + 1 <= Len(history) THEN Len(history) - (prev + 1) + 1 ELSE 0
      /\ Range(m) \subseteq Range(history)
  <2>1. prev + 1 \in Nat /\ prev + 1 > 0 /\ m = SubSeq(history, prev + 1, Len(history))
    BY <1>1 DEF Logged
  <2> HIDE DEF m
  <2>2. QED
    BY <1>1, <2>1, Part
<1> HIDE DEF m
<1>3. Len(m) = Count - prev
  BY <1>1, <1>2
<1>4. QED
  BY <1>2, <1>3 DEF m

\* Whatever session_append gets into the log, nothing that was in it is lost.
LEMMA LogGetsStep ==
  ASSUME IInv, Homed, At("replied"), Count > prev, NEW log \in Seq(Line),
         Range(disk[current].log) \cap Msg \subseteq Range(log), LogGets(log),
         upset' \subseteq Upsets, Clean' = Clean, "short" \in upset => "short" \in upset',
         fails' \in Nat
  PROVE  /\ TypeOK' /\ Housed' /\ Aimed' /\ Whole' /\ Kept
         /\ disk'[current].ckpt = disk[current].ckpt /\ disk'[current].log = log
<1> USE Constants
<1> DEFINE g == disk[current]
           f == [g EXCEPT !.log = log]
           ms == Logged(prev)
<1>1. /\ disk' = [disk EXCEPT ![current] = f]
      /\ saved' = [saved EXCEPT ![current] = @ \cup (Range(ms) \cap Range(log))]
      /\ pc' = [at |-> "logged", goal |-> ToAppend]
      /\ UNCHANGED <<current, history, since, prev, clock, made>>
  BY DEF LogGets, Go
<1>2. current \in Id /\ g \in Files /\ g.there
  BY States
<1>3. ms \in Seq(Msg) /\ Range(ms) \subseteq Range(history) /\ Range(ms) \subseteq Msg
  BY LogWritten, Ranges
<1> HIDE DEF ms, g
<1>4. f \in Files /\ f.there = g.there /\ f.ckpt = g.ckpt /\ f.log = log
  BY <1>2 DEF Files, Line
<1> HIDE DEF f
<1>5. Range(Recover(g)) \subseteq Range(Recover(f))
  <2>1. /\ Range(Recover(g)) = Range(g.ckpt) \cup (Range(g.log) \cap Fits)
        /\ Range(Recover(f)) = Range(f.ckpt) \cup (Range(f.log) \cap Fits)
    BY <1>2, <1>4, RecoverHow
  <2>2. QED
    BY <1>4, <2>1, Messages DEF g
<1>6. /\ disk' \in [Id -> Files] /\ disk'[current] = f
      /\ \A i \in Id : disk'[i].there = disk[i].there
      /\ \A i \in Id : i # current => disk'[i] = disk[i]
      /\ Kept
  BY <1>1, <1>2, <1>4, <1>5, Rewritten DEF g
<1>7. TypeOK'
  <2>1. pc' \in [at : Points, goal : Goals]
    BY <1>1 DEF Points, Goals
  <2>2. saved' \in [Id -> SUBSET Msg]
    BY <1>1, <1>2, <1>3, States
  <2>3. Homed'
    BY <1>1, <1>2, <1>6 DEF g, Homed
  <2>4. QED
    BY <1>1, <1>6, <2>1, <2>2, <2>3, States DEF TypeOK
<1>8. Housed'
  <2>1. Count' = Count
    BY <1>1 DEF Count
  <2>2. QED
    BY <1>1, <1>6, <2>1 DEF IInv, Housed, At
<1>9. Aimed'
  BY <1>1, <1>2, <1>4, <1>6 DEF IInv, Aimed, At, Homed
<1>10. Whole'
  <2> DEFINE new == Range(ms) \cap Range(log)
  <2>1. saved'[current] = saved[current] \cup new
    BY <1>1, <1>2, States
  <2>2. \A i \in Id : i # current => saved'[i] = saved[i]
    BY <1>1, States
  <2>3. new \ Long \subseteq Range(Recover(f)) /\ new \subseteq Range(history)
    <3>1. Range(Recover(f)) = Range(f.ckpt) \cup (Range(f.log) \cap Fits)
      BY <1>4, RecoverHow
    <3>2. new \ Long \subseteq Range(f.log) \cap Fits
      BY <1>3, <1>4 DEF Fits
    <3>3. QED
      BY <1>3, <3>1, <3>2
  <2> HIDE DEF new
  <2>4. ASSUME Clean
        PROVE  /\ saved'[current] \ Long \subseteq Range(Recover(f))
               /\ saved'[current] \ Long \subseteq Range(history)
    <3>1. /\ saved[current] \ Long \subseteq Range(Recover(g))
          /\ saved[current] \ Long \subseteq Range(history)
      BY <1>2, <2>4 DEF IInv, Whole, g
    <3>2. QED
      BY <1>5, <2>1, <2>3, <3>1
  <2>5. QED
    BY <1>1, <1>2, <1>4, <1>6, <2>2, <2>4, WholeRewritten
<1>11. QED
  BY <1>4, <1>6, <1>7, <1>8, <1>9, <1>10 DEF g

LEMMA ThreeParts ==
  ASSUME NEW a \in Seq(Msg), NEW b \in Seq(Msg), NEW c \in Seq(Msg)
  PROVE  a \o (b \o c) = (a \o b) \o c
BY ConcatAssociative

LEMMA AppendLogStep ==
  ASSUME IInv, AppendLog
  PROVE  Holds
<1> USE Constants
<1> DEFINE g == disk[current]
           ms == Logged(prev)
           log == Written(g.log, ms)
<1>1. /\ Homed /\ At("replied") /\ Count > prev /\ LogGets(log)
      /\ UNCHANGED <<upset, fails>>
  BY DEF AppendLog
<1>2. current \in Id /\ g \in Files /\ g.ckpt \in Seq(Msg) /\ g.log \in Seq(Line)
      /\ current # NoId
  BY <1>1, States, FileParts
<1>3. ms \in Seq(Msg) /\ Len(ms) = Count - prev
  BY <1>1, LogWritten
<1> HIDE DEF ms, g
<1>4. /\ log \in Seq(Line) /\ Range(g.log) \cap Msg \subseteq Range(log)
      /\ g.log \in Seq(Msg) => log = g.log \o ms /\ log \in Seq(Msg)
  BY <1>2, <1>3, WrittenHow
<1> HIDE DEF log
<1>5. smooth' = smooth /\ Clean' = Clean
  BY <1>1, Calm
<1>6. upset' \subseteq Upsets /\ fails' \in Nat
  BY <1>1, States
<1>7. /\ TypeOK' /\ Housed' /\ Aimed' /\ Whole' /\ Kept
      /\ disk'[current].ckpt = g.ckpt /\ disk'[current].log = log
  BY <1>1, <1>4, <1>5, <1>6, LogGetsStep DEF g
<1>8. /\ pc' = [at |-> "logged", goal |-> ToAppend]
      /\ UNCHANGED <<current, history, since, prev>>
  BY <1>1 DEF LogGets, Go
<1>9. Smooth'
  <2> SUFFICES ASSUME smooth PROVE InStep'
    BY <1>2, <1>5, <1>8 DEF Smooth
  <2>1. InStep
    BY <1>2 DEF IInv, Smooth
  <2>2. /\ g.log \in Seq(Msg) /\ prev <= Count
        /\ Stored(g) = SubSeq(history, 1, prev) /\ Len(g.log) = since
    BY <1>1, <2>1 DEF InStep, g
  <2>3. log = g.log \o ms /\ log \in Seq(Msg)
    BY <1>4, <2>2
  <2>4. Stored(disk'[current]) = history
    <3>1. Stored(disk'[current]) = g.ckpt \o (g.log \o ms) /\ Stored(g) = g.ckpt \o g.log
      BY <1>7, <2>3 DEF Stored
    <3>2. g.ckpt \o (g.log \o ms) = (g.ckpt \o g.log) \o ms
      BY <1>2, <1>3, <2>2, ThreeParts
    <3>3. Stored(disk'[current]) = SubSeq(history, 1, prev) \o SubSeq(history, prev + 1, Len(history))
      BY <2>2, <3>1, <3>2 DEF ms, Logged, Count
    <3>4. history \in Seq(Msg) /\ prev \in Nat /\ prev <= Len(history)
      BY <2>2, States DEF Count
    <3>5. QED
      BY <3>3, <3>4, Halves
  <2>5. Len(log) = since + (Count - prev)
    <3>1. Len(g.log \o ms) = Len(g.log) + Len(ms)
      BY <1>3, <2>2, Joined
    <3>2. QED
      BY <1>3, <2>2, <2>3, <3>1
  <2>6. QED
    BY <1>7, <1>8, <2>2, <2>3, <2>4, <2>5 DEF InStep, At, Count
<1>10. Logs
  BY <1>8 DEF Logs, Appended
<1>11. QED
  BY <1>7, <1>9, <1>10 DEF Holds, IInv

LEMMA AppendShortStep ==
  ASSUME IInv, AppendShort
  PROVE  Holds
<1> USE Constants
<1> DEFINE g == disk[current]
           ms == Logged(prev)
<1>1. /\ Failing /\ Homed /\ At("replied") /\ Count > prev /\ Upset("failed")
      /\ \E k \in 0..(Count - prev - 1), mid \in BOOLEAN : LogGets(Cut(g.log, ms, k, mid))
  BY DEF AppendShort
<1>2. current \in Id /\ g.log \in Seq(Line) /\ Count \in Nat /\ prev \in Nat
  BY <1>1, States, FileParts
<1>3. ms \in Seq(Msg) /\ Len(ms) = Count - prev
  BY <1>1, LogWritten
<1> HIDE DEF ms
<1>4. PICK k \in 0..(Count - prev - 1), mid \in BOOLEAN : LogGets(Cut(g.log, ms, k, mid))
  BY <1>1
<1>5. k \in 0..Len(ms)
  BY <1>2, <1>3
<1> DEFINE log == Cut(g.log, ms, k, mid)
<1>6. log \in Seq(Line) /\ Range(g.log) \cap Msg \subseteq Range(log)
  BY <1>2, <1>3, <1>5, CutHow
<1>7. LogGets(log)
  BY <1>4
<1> HIDE DEF log
<1>8. /\ upset' \subseteq Upsets /\ ~smooth' /\ Clean' = Clean
      /\ "short" \in upset => "short" \in upset'
  BY <1>1, States, Upsetting DEF Upsets
<1>9. fails' \in Nat
  BY <1>1, States, FailsCounted
<1>10. TypeOK' /\ Housed' /\ Aimed' /\ Whole' /\ Kept
  BY <1>1, <1>6, <1>7, <1>8, <1>9, LogGetsStep
<1>11. QED
  BY <1>8, <1>10, Rough

LEMMA AppendMetaStep ==
  ASSUME IInv, AppendMeta
  PROVE  Holds
<1> USE Constants
<1> DEFINE n == since + (Count - prev)
<1>1. /\ At("logged") /\ since' = n
      /\ \/ n >= CheckpointEvery /\ pc' = [at |-> "save", goal |-> ToAppend] /\ prev' = prev
         \/ /\ ~ (n >= CheckpointEvery) /\ pc' = [at |-> "prompt", goal |-> ToAppend]
            /\ prev' = Count
      /\ UNCHANGED <<disk, current, history, clock, made, saved, upset, fails>>
  BY DEF AppendMeta, Go, CheckpointDue
<1>2. /\ Count \in Nat /\ since \in Nat /\ prev \in Nat /\ pc.goal = ToAppend
      /\ Homed /\ current \in Id /\ current # NoId /\ disk[current] \in Files
  BY <1>1, States DEF At, IInv, Aimed
<1>3. prev < Count
  BY <1>1 DEF IInv, Housed
<1>4. smooth' = smooth /\ Clean' = Clean /\ Homed' = Homed
  BY <1>1, Calm DEF Homed
<1>5. TypeOK'
  <2>1. pc' \in [at : Points, goal : Goals]
    BY <1>1 DEF Points, Goals
  <2>2. since' \in Nat /\ prev' \in Nat
    BY <1>1, <1>2, <1>3
  <2>3. QED
    BY <1>1, <1>2, <1>4, <2>1, <2>2, States DEF TypeOK
<1>6. Housed'
  BY <1>1, <1>2 DEF IInv, Housed, At
<1>7. Aimed'
  BY <1>1, <1>2, <1>4 DEF IInv, Aimed, At
<1>8. ASSUME smooth
      PROVE  /\ InStep /\ Stored(disk[current]) = history /\ disk[current].log \in Seq(Msg)
             /\ Len(disk[current].log) = since + (Count - prev)
  <2>1. InStep
    BY <1>2, <1>8 DEF IInv, Smooth
  <2>2. QED
    BY <1>1, <2>1 DEF InStep
<1>9. Smooth'
  <2> SUFFICES ASSUME smooth PROVE InStep'
    BY <1>1, <1>2, <1>4 DEF Smooth
  <2>1. /\ history' = history /\ Count' = Count /\ since' = n /\ disk' = disk
        /\ current' = current
    BY <1>1 DEF Count
  <2>2. /\ Stored(disk[current]) = history /\ disk[current].log \in Seq(Msg)
        /\ Len(disk[current].log) = n
    BY <1>8
  <2> HIDE DEF n
  <2>3. CASE pc' = [at |-> "save", goal |-> ToAppend] /\ prev' = prev
    <3>1. prev' <= Count'
      BY <1>2, <1>3, <2>1, <2>3
    <3>2. QED
      BY <2>1, <2>2, <2>3, <3>1 DEF InStep, At
  <2>4. CASE pc' = [at |-> "prompt", goal |-> ToAppend] /\ prev' = Count /\ ~ (n >= CheckpointEvery)
    <3>1. SubSeq(history, 1, Count) = history
      BY SubSeqFull, States DEF Count
    <3>2. n < CheckpointEvery
      BY <1>2, <1>3, <2>4 DEF n
    <3>3. prev' <= Count'
      BY <1>2, <2>1, <2>4
    <3>4. QED
      BY <2>1, <2>2, <2>4, <3>1, <3>2, <3>3 DEF InStep, At
  <2>5. QED
    BY <1>1, <2>3, <2>4 DEF n
<1>10. Whole'
  BY <1>1, <1>4, WholeStill
<1>11. Kept
  BY <1>1 DEF Kept
<1>12. Logs
  <2> SUFFICES ASSUME smooth PROVE Readable(Recover(disk'[current])) = Readable(history)
    BY <1>4 DEF Logs
  <2>1. Readable(Recover(disk[current])) = Readable(Stored(disk[current]))
    BY <1>2, RecoverHow
  <2>2. QED
    BY <1>1, <1>8, <2>1
<1>13. QED
  BY <1>5, <1>6, <1>7, <1>9, <1>10, <1>11, <1>12 DEF Holds, IInv

\* A checkpoint written whole or short.
LEMMA CheckpointGets ==
  ASSUME IInv, At("save"), Homed, NEW c \in Seq(Msg), disk' = [disk EXCEPT ![current].ckpt = c],
         pc' = [at |-> "saved", goal |-> pc.goal],
         UNCHANGED <<current, history, since, prev, clock, made, saved>>,
         upset' \subseteq Upsets, fails' \in Nat,
         c = history \/ "short" \in upset'
  PROVE  /\ TypeOK' /\ Housed' /\ Aimed' /\ Kept
         /\ current \in Id /\ disk'[current] \in Files
         /\ \A i \in Id : i # current => disk'[i] = disk[i]
         /\ disk'[current].ckpt = c /\ disk'[current].log = disk[current].log
<1> USE Constants
<1> DEFINE g == disk[current]
           f == [g EXCEPT !.ckpt = c]
<1>1. current \in Id /\ g \in Files /\ g.there /\ history \in Seq(Msg) /\ pc.goal \in Goals
  BY States
<1>2. disk' = [disk EXCEPT ![current] = f]
  OBVIOUS
<1>3. f \in Files /\ f.there = g.there /\ f.ckpt = c /\ f.log = g.log
  BY <1>1 DEF Files
<1> HIDE DEF f
<1>4. "short" \notin upset' => Range(Recover(g)) \cap Range(history) \subseteq Range(Recover(f))
  BY <1>3, RecoverHow
<1>5. /\ disk' \in [Id -> Files] /\ disk'[current] = f
      /\ \A i \in Id : disk'[i].there = disk[i].there
      /\ \A i \in Id : i # current => disk'[i] = disk[i]
      /\ Kept
  BY <1>1, <1>2, <1>3, <1>4, Rewritten
<1>6. Homed'
  BY <1>1, <1>5 DEF Homed
<1>7. TypeOK'
  <2>1. pc' \in [at : Points, goal : Goals]
    BY <1>1 DEF Points
  <2>2. QED
    BY <1>5, <1>6, <2>1, States DEF TypeOK
<1>8. Housed'
  BY <1>1, <1>3, <1>5 DEF IInv, Housed, At
<1>9. Aimed'
  BY <1>1, <1>5, <1>6 DEF IInv, Aimed, At
<1>10. QED
  BY <1>1, <1>3, <1>5, <1>7, <1>8, <1>9

LEMMA CheckpointWriteStep ==
  ASSUME IInv, CheckpointWrite
  PROVE  Holds
<1> USE Constants
<1>1. /\ At("save") /\ Homed /\ disk' = [disk EXCEPT ![current].ckpt = history]
      /\ pc' = [at |-> "saved", goal |-> pc.goal]
      /\ UNCHANGED <<current, history, since, prev, clock, made, saved, upset, fails>>
  BY DEF CheckpointWrite, Go, AfterRename
<1>2. history \in Seq(Msg) /\ upset' \subseteq Upsets /\ fails' \in Nat
  BY <1>1, States
<1>3. /\ TypeOK' /\ Housed' /\ Aimed' /\ Kept
      /\ current \in Id /\ disk'[current] \in Files
      /\ \A i \in Id : i # current => disk'[i] = disk[i]
      /\ disk'[current].ckpt = history /\ disk'[current].log = disk[current].log
  BY <1>1, <1>2, CheckpointGets
<1>4. smooth' = smooth /\ Clean' = Clean
  BY <1>1, Calm
<1>5. Whole'
  <2> DEFINE f == disk'[current]
  <2>1. Range(history) \subseteq Range(Recover(f))
    BY <1>3, RecoverHow
  <2>2. f \in Files /\ disk'[current] = f
    BY <1>3
  <2> HIDE DEF f
  <2>3. Clean => saved[current] \ Long \subseteq Range(history)
    BY <1>3 DEF IInv, Whole, NoId, Id
  <2>4. QED
    BY <1>1, <1>3, <1>4, <2>1, <2>2, <2>3, WholeRewritten
<1>6. Smooth'
  <2> SUFFICES ASSUME smooth PROVE InStep'
    BY <1>1, <1>3, <1>4 DEF Smooth
  <2>1. InStep
    BY <1>3 DEF IInv, Smooth
  <2>2. Count' = Count
    BY <1>1 DEF Count
  <2>3. QED
    BY <1>1, <1>3, <2>1, <2>2 DEF InStep, At
<1>7. Logs
  BY <1>1 DEF Logs, Appended
<1>8. QED
  BY <1>3, <1>5, <1>6, <1>7 DEF Holds, IInv

LEMMA CheckpointShortStep ==
  ASSUME IInv, CheckpointShort
  PROVE  Holds
<1> USE Constants
<1>1. /\ Failing /\ At("save") /\ Homed /\ Upset("short")
      /\ disk' = [disk EXCEPT ![current].ckpt = <<>>]
      /\ pc' = [at |-> "saved", goal |-> pc.goal]
      /\ UNCHANGED <<current, history, since, prev, clock, made, saved>>
  BY DEF CheckpointShort, Go, AfterRename
<1>2. /\ upset' \subseteq Upsets /\ ~smooth' /\ ~Clean' /\ "short" \in upset'
  BY <1>1, States, Upsetting DEF Upsets
<1>3. fails' \in Nat
  BY <1>1, States, FailsCounted
<1>4. <<>> \in Seq(Msg)
  BY NoRange
<1>5. TypeOK' /\ Housed' /\ Aimed' /\ Kept
  BY <1>1, <1>2, <1>3, <1>4, CheckpointGets
<1>6. Whole'
  BY <1>2 DEF Whole
<1>7. QED
  BY <1>2, <1>5, <1>6, Rough

LEMMA CheckpointFailsStep ==
  ASSUME IInv, CheckpointFails
  PROVE  Holds
<1> USE Constants
<1>1. /\ Failing \/ (~Homed /\ UNCHANGED fails)
      /\ At("save") /\ since' = 0 /\ Upset("failed")
      /\ pc' = [at |-> "leave", goal |-> pc.goal]
      /\ UNCHANGED <<disk, current, history, prev, clock, made, saved>>
  BY DEF CheckpointFails, Go, AfterRename
<1>2. /\ upset' \subseteq Upsets /\ ~smooth' /\ Clean' = Clean
      /\ "short" \in upset => "short" \in upset'
  BY <1>1, States, Upsetting DEF Upsets
<1>3. fails' \in Nat
  BY <1>1, States, FailsCounted
<1>4. TypeOK'
  <2>1. pc' \in [at : Points, goal : Goals]
    BY <1>1, States DEF Points
  <2>2. QED
    BY <1>1, <1>2, <1>3, <2>1, States DEF TypeOK
<1>5. Housed'
  BY <1>1 DEF IInv, Housed, At
<1>6. Aimed'
  BY <1>1 DEF IInv, Aimed, At, Homed
<1>7. Whole'
  BY <1>1, <1>2, WholeStill
<1>8. Kept
  BY <1>1 DEF Kept
<1>9. QED
  BY <1>2, <1>4, <1>5, <1>6, <1>7, <1>8, Rough

LEMMA CheckpointTruncateStep ==
  ASSUME IInv, CheckpointTruncate
  PROVE  Holds
<1> USE Constants
<1> DEFINE g == disk[current]
           f == [g EXCEPT !.log = <<>>]
<1>1. /\ At("saved") /\ disk' = [disk EXCEPT ![current] = f] /\ since' = 0
      /\ pc' = [at |-> "leave", goal |-> pc.goal]
      /\ UNCHANGED <<current, history, prev, clock, made, saved, upset, fails>>
  BY DEF CheckpointTruncate, Emptied, Go
<1>2. Homed
  BY <1>1 DEF IInv, Aimed
<1>3. current \in Id /\ g \in Files /\ g.there /\ history \in Seq(Msg) /\ pc.goal \in Goals
  BY <1>2, States
<1>4. "short" \notin upset => g.ckpt = history
  BY <1>1 DEF IInv, Housed
<1>5. /\ f \in Files /\ f.there = g.there /\ f.ckpt = g.ckpt /\ f.log = <<>>
      /\ f.log \in Seq(Msg) /\ Len(f.log) = 0
  BY <1>3, NoRange, EmptySeq DEF Files
<1> HIDE DEF f
<1>6. "short" \notin upset => Range(history) \subseteq Range(Recover(f)) /\ Stored(f) = history
  <2>1. Range(f.ckpt) \subseteq Range(Recover(f))
    BY <1>5, RecoverHow
  <2>2. Stored(f) = f.ckpt \o <<>>
    BY <1>5 DEF Stored
  <2>3. history \o <<>> = history
    BY <1>3, ConcatEmptySeq
  <2>4. QED
    BY <1>4, <1>5, <2>1, <2>2, <2>3
<1>7. /\ disk' \in [Id -> Files] /\ disk'[current] = f
      /\ \A i \in Id : disk'[i].there = disk[i].there
      /\ \A i \in Id : i # current => disk'[i] = disk[i]
      /\ Kept
  BY <1>1, <1>3, <1>5, <1>6, Rewritten
<1>8. Homed'
  BY <1>1, <1>2, <1>3, <1>7 DEF Homed
<1>9. TypeOK'
  <2>1. pc' \in [at : Points, goal : Goals] /\ since' \in Nat
    BY <1>1, <1>3 DEF Points
  <2>2. QED
    BY <1>1, <1>7, <1>8, <2>1, States DEF TypeOK
<1>10. Housed'
  BY <1>1, <1>3, <1>7 DEF IInv, Housed, At
<1>11. Aimed'
  BY <1>1, <1>3, <1>7, <1>8 DEF IInv, Aimed, At
<1>12. smooth' = smooth /\ Clean' = Clean
  BY <1>1, Calm
<1>13. Whole'
  <2>1. Clean => /\ saved[current] \ Long \subseteq Range(history)
                 /\ saved[current] \ Long \subseteq Range(Recover(f))
    BY <1>3, <1>6 DEF IInv, Whole, NoId, Id, Clean
  <2>2. QED
    BY <1>1, <1>3, <1>5, <1>7, <1>12, <2>1, WholeRewritten
<1>14. Smooth'
  <2> SUFFICES ASSUME smooth PROVE InStep'
    BY <1>1, <1>3, <1>12 DEF Smooth
  <2>1. InStep /\ "short" \notin upset
    BY <1>3 DEF IInv, Smooth, smooth
  <2>2. Count' = Count
    BY <1>1 DEF Count
  <2>3. /\ Stored(disk'[current]) = history /\ disk'[current].log \in Seq(Msg)
        /\ Len(disk'[current].log) = 0
    BY <1>5, <1>6, <1>7, <2>1
  <2>4. QED
    BY <1>1, <2>1, <2>2, <2>3 DEF InStep, At
<1>15. Logs
  BY <1>1 DEF Logs, Appended
<1>16. QED
  BY <1>7, <1>9, <1>10, <1>11, <1>13, <1>14, <1>15 DEF Holds, IInv

LEMMA TruncateFailsStep ==
  ASSUME IInv, TruncateFails
  PROVE  Holds
<1> USE Constants
<1>1. /\ Failing /\ At("saved") /\ since' = 0 /\ Upset("failed")
      /\ pc' = [at |-> "leave", goal |-> pc.goal]
      /\ UNCHANGED <<disk, current, history, prev, clock, made, saved>>
  BY DEF TruncateFails, Go
<1>2. /\ upset' \subseteq Upsets /\ ~smooth' /\ Clean' = Clean
      /\ "short" \in upset => "short" \in upset'
  BY <1>1, States, Upsetting DEF Upsets
<1>3. fails' \in Nat
  BY <1>1, States, FailsCounted
<1>4. TypeOK'
  <2>1. pc' \in [at : Points, goal : Goals]
    BY <1>1, States DEF Points
  <2>2. QED
    BY <1>1, <1>2, <1>3, <2>1, States DEF TypeOK
<1>5. Housed'
  BY <1>1 DEF IInv, Housed, At
<1>6. Aimed'
  BY <1>1 DEF IInv, Aimed, At, Homed
<1>7. Whole'
  BY <1>1, <1>2, WholeStill
<1>8. Kept
  BY <1>1 DEF Kept
<1>9. QED
  BY <1>2, <1>4, <1>5, <1>6, <1>7, <1>8, Rough

LEMMA AppendReturnsStep ==
  ASSUME IInv, AppendReturns
  PROVE  Holds
<1> USE Constants
<1>1. /\ At("leave") /\ pc.goal = ToAppend /\ prev' = Count
      /\ pc' = [at |-> "prompt", goal |-> ToAppend]
      /\ UNCHANGED <<disk, current, history, since, clock, made, saved, upset, fails>>
  BY DEF AppendReturns, Go
<1>2. Homed /\ current \in Id /\ current # NoId /\ disk[current] \in Files
  <2>1. Homed
    BY <1>1 DEF IInv, Aimed, At
  <2>2. QED
    BY <2>1, States
<1>3. smooth' = smooth /\ Clean' = Clean /\ Homed' = Homed
  BY <1>1, Calm DEF Homed
<1>4. TypeOK'
  <2>1. pc' \in [at : Points, goal : Goals] /\ prev' \in Nat
    BY <1>1, States DEF Points, Goals
  <2>2. QED
    BY <1>1, <1>2, <1>3, <2>1, States DEF TypeOK
<1>5. Housed'
  BY <1>1, <1>2 DEF IInv, Housed, At
<1>6. Aimed'
  BY <1>1, <1>2, <1>3 DEF IInv, Aimed, At
<1>7. ASSUME smooth
      PROVE  /\ InStep /\ Stored(disk[current]) = history
             /\ since = 0 /\ Len(disk[current].log) = 0
  BY <1>1, <1>2, <1>7 DEF IInv, Smooth, InStep
<1>8. Smooth'
  <2> SUFFICES ASSUME smooth PROVE InStep'
    BY <1>1, <1>2, <1>3 DEF Smooth
  <2>1. SubSeq(history, 1, Count) = history
    BY SubSeqFull, States DEF Count
  <2>2. Count' = Count /\ prev' <= Count'
    BY <1>1, States DEF Count
  <2>3. QED
    BY <1>1, <1>7, <2>1, <2>2 DEF InStep, At
<1>9. Whole'
  BY <1>1, <1>3, WholeStill
<1>10. Kept
  BY <1>1 DEF Kept
<1>11. Logs
  <2> SUFFICES ASSUME smooth PROVE Readable(Recover(disk'[current])) = Readable(history)
    BY <1>3 DEF Logs
  <2>1. Readable(Recover(disk[current])) = Readable(Stored(disk[current]))
    BY <1>2, RecoverHow
  <2>2. QED
    BY <1>1, <1>7, <2>1
<1>12. QED
  BY <1>4, <1>5, <1>6, <1>8, <1>9, <1>10, <1>11 DEF Holds, IInv
------------------------------------------------------------------------------
(***************************************************************************)
(* The steps from one session to another, and the crashes.                 *)
(***************************************************************************)
LEMMA CreateStep ==
  ASSUME IInv, Create
  PROVE  Holds
<1> USE Constants
<1> DEFINE n == clock + 1
           f == [Absent EXCEPT !.there = TRUE]
<1>1. /\ At("leave") /\ pc.goal = ToNew /\ clock' = n /\ current' = n
      /\ disk' = [disk EXCEPT ![n] = f] /\ saved' = [saved EXCEPT ![n] = {}]
      /\ history' = <<>> /\ since' = 0
      /\ (current = NoId /\ UNCHANGED upset) \/ (current # NoId /\ Upset("command"))
      /\ pc' = [at |-> "prompt", goal |-> ToAppend]
      /\ UNCHANGED <<prev, made, fails>>
  BY DEF Create, Go
<1>2. n \in Id /\ clock \in Nat /\ n \in Nat /\ ~ (n <= clock) /\ n # current
  <2>1. clock < MaxIds /\ clock \in Nat /\ current <= clock
    BY <1>1, States DEF IInv, Aimed, Housed
  <2>2. QED
    BY <2>1, States DEF Id
<1>3. ~ disk[n].there
  BY <1>2 DEF IInv, Housed
<1>4. f \in Files /\ f.there /\ f.log = <<>> /\ f.ckpt = <<>>
  BY AbsentFile DEF Absent
<1> HIDE DEF f, n
<1>5. /\ disk' \in [Id -> Files] /\ disk'[n] = f
      /\ \A i \in Id : i # n => disk'[i] = disk[i]
  BY <1>1, <1>2, <1>4, DiskChanged
<1>6. Kept
  BY <1>3, <1>5 DEF Kept
<1>7. /\ saved' \in [Id -> SUBSET Msg] /\ saved'[n] = {}
      /\ \A i \in Id : i # n => saved'[i] = saved[i]
  BY <1>1, <1>2, States
<1>8. history' \in Seq(Msg) /\ Count' = 0
  BY <1>1, EmptySeq DEF Count
<1>9. /\ upset' \subseteq Upsets /\ Clean' = Clean
      /\ smooth' => smooth /\ current = NoId
  <2>1. CASE current = NoId /\ UNCHANGED upset
    BY <2>1, States, Calm
  <2>2. CASE Upset("command")
    BY <2>2, States, Upsetting DEF Upsets
  <2>3. QED
    BY <1>1, <2>1, <2>2
<1>10. current' \in Id /\ Homed'
  BY <1>1, <1>2, <1>4, <1>5 DEF Homed
<1>11. TypeOK'
  <2>1. pc' \in [at : Points, goal : Goals] /\ since' \in Nat
    BY <1>1 DEF Points, Goals
  <2>2. QED
    BY <1>1, <1>2, <1>5, <1>7, <1>8, <1>9, <1>10, <2>1, States DEF TypeOK
<1>12. Housed'
  <2>1. \A i \in Id : disk'[i].there => i <= clock'
    <3> SUFFICES ASSUME NEW i \in Id, disk'[i].there PROVE i <= clock'
      OBVIOUS
    <3>1. CASE i = n
      BY <1>1, <1>2, <3>1
    <3>2. CASE i # n
      <4>1. i <= clock /\ i \in Nat
        BY <1>5, <3>2 DEF IInv, Housed
      <4>2. QED
        BY <1>1, <1>2, <4>1 DEF n
    <3>3. QED
      BY <3>1, <3>2
  <2>2. current' <= clock'
    BY <1>1, <1>2
  <2>3. ~At("logged")' /\ ~At("saved")'
    BY <1>1 DEF At
  <2>4. QED
    BY <2>1, <2>2, <2>3 DEF Housed
<1>13. Aimed'
  BY <1>1, <1>10 DEF Aimed, At
<1>14. Smooth'
  <2> SUFFICES ASSUME smooth, current = NoId PROVE InStep'
    BY <1>9, <1>10 DEF Smooth
  <2>1. prev' = 0
    BY <1>1 DEF IInv, Smooth
  <2>2. Stored(f) = <<>> /\ f.log \in Seq(Msg) /\ Len(f.log) = 0
    <3>1. f.log \in Seq(Msg) /\ Len(f.log) = 0
      BY <1>4, EmptySeq
    <3>2. Stored(f) = <<>> \o <<>>
      BY <1>4 DEF Stored
    <3>3. <<>> \in Seq(Msg)
      BY NoRange
    <3>4. <<>> \o <<>> = <<>>
      BY <3>3, ConcatEmptySeq
    <3>5. QED
      BY <3>1, <3>2, <3>4
  <2>3. SubSeq(history', 1, prev') = <<>>
    BY <1>1, <2>1, SubSeqEmpty
  <2>4. QED
    BY <1>1, <1>5, <1>8, <2>1, <2>2, <2>3 DEF InStep, At
<1>15. Whole'
  <2> SUFFICES ASSUME Clean
               PROVE  /\ \A i \in Id : saved'[i] \ Long \subseteq Range(Recover(disk'[i]))
                      /\ saved'[n] \ Long \subseteq Range(history')
    BY <1>1, <1>9 DEF Whole
  <2>1. \A i \in Id : saved[i] \ Long \subseteq Range(Recover(disk[i]))
    BY DEF IInv, Whole
  <2>2. QED
    BY <1>5, <1>7, <2>1
<1>16. Logs
  <2>1. pc.goal # ToAppend
    BY <1>1
  <2>2. QED
    BY <2>1 DEF Logs, Appended
<1>17. QED
  BY <1>6, <1>11, <1>12, <1>13, <1>14, <1>15, <1>16 DEF Holds, IInv

\* The old session goes on, as what it was left as.
LEMMA CreateFailsStep ==
  ASSUME IInv, CreateFails
  PROVE  Holds
<1> USE Constants
<1>1. /\ Failing /\ At("leave") /\ Upset("failed")
      /\ pc' = [at |-> "prompt", goal |-> ToAppend]
      /\ UNCHANGED <<disk, current, history, since, prev, clock, made, saved>>
  BY DEF CreateFails, Go
<1>2. /\ upset' \subseteq Upsets /\ ~smooth' /\ Clean' = Clean
      /\ "short" \in upset => "short" \in upset'
  BY <1>1, States, Upsetting DEF Upsets
<1>3. fails' \in Nat
  BY <1>1, States, FailsCounted
<1>4. TypeOK'
  <2>1. pc' \in [at : Points, goal : Goals]
    BY <1>1 DEF Points, Goals
  <2>2. QED
    BY <1>1, <1>2, <1>3, <2>1, States DEF TypeOK
<1>5. Housed'
  BY <1>1 DEF IInv, Housed, At
<1>6. Aimed'
  BY <1>1 DEF Aimed, At
<1>7. Whole'
  BY <1>1, <1>2, WholeStill
<1>8. Kept
  BY <1>1 DEF Kept
<1>9. QED
  BY <1>2, <1>4, <1>5, <1>6, <1>7, <1>8, Rough

LEMMA LoadStep ==
  ASSUME IInv, Load \/ LoadUnread
  PROVE  Holds
<1> USE Constants
<1> DEFINE g == disk[pc.goal]
<1>1. /\ At("leave") /\ pc.goal \in Id
      /\ current' = pc.goal /\ since' = 0
      /\ pc' = [at |-> "prompt", goal |-> ToAppend]
      /\ UNCHANGED <<disk, prev, clock, made, saved>>
      /\ \/ history' = Recover(g) /\ Upset("command") /\ UNCHANGED fails
         \/ /\ history' \in {<<>>, g.ckpt, Readable(g.log)}
            /\ Upset("unread") /\ Failing
  BY DEF Load, LoadUnread, Loads, Go
<1>2. g.there /\ pc.goal <= clock /\ g \in Files
  BY <1>1, States DEF IInv, Aimed, Housed
<1>3. history' \in Seq(Msg)
  <2>1. Recover(g) \in Seq(Msg) /\ g.ckpt \in Seq(Msg) /\ <<>> \in Seq(Msg)
    BY <1>2, RecoverHow, FileParts, NoRange
  <2>2. Readable(g.log) \in Seq(Msg)
    BY <1>2, FileParts, ReadableHow, Messages
  <2>3. QED
    BY <1>1, <2>1, <2>2
<1>4. /\ upset' \subseteq Upsets /\ ~smooth' /\ fails' \in Nat
      /\ Clean' => Clean /\ history' = Recover(g)
  <2>1. fails' \in Nat
    BY <1>1, States, FailsCounted
  <2>2. CASE history' = Recover(g) /\ Upset("command")
    BY <2>1, <2>2, States, Upsetting DEF Upsets
  <2>3. CASE Upset("unread")
    BY <2>1, <2>3, States, Upsetting DEF Upsets
  <2>4. QED
    BY <1>1, <2>2, <2>3
<1>5. TypeOK'
  <2>1. pc' \in [at : Points, goal : Goals] /\ since' \in Nat
    BY <1>1 DEF Points, Goals
  <2>2. QED
    BY <1>1, <1>2, <1>3, <1>4, <2>1, States DEF TypeOK
<1>6. Housed'
  BY <1>1, <1>2 DEF IInv, Housed, At
<1>7. Aimed'
  BY <1>1, <1>2 DEF IInv, Aimed, At
<1>8. Whole'
  <2> SUFFICES ASSUME Clean, history' = Recover(g)
               PROVE  /\ \A i \in Id : saved[i] \ Long \subseteq Range(Recover(disk[i]))
                      /\ saved[pc.goal] \ Long \subseteq Range(history')
    BY <1>1, <1>4 DEF Whole
  <2>1. \A i \in Id : saved[i] \ Long \subseteq Range(Recover(disk[i]))
    BY DEF IInv, Whole
  <2>2. QED
    BY <1>1, <2>1
<1>9. Kept
  BY <1>1 DEF Kept
<1>10. QED
  BY <1>4, <1>5, <1>6, <1>7, <1>8, <1>9, Rough

\* exit, /session new, /session restore: the session left is kept to be saved,
\* or removed if it has no messages.
LEMMA LeaveStep ==
  ASSUME IInv, NEW g \in Goals \ {ToAppend}, Leave(g)
  PROVE  Holds
<1> USE Constants
<1>1. /\ At("prompt") /\ (g = ToNew => clock < MaxIds)
      /\ g \in Id => g # current /\ disk[g].there
      /\ UNCHANGED <<current, history, since, prev, clock, made, saved, upset, fails>>
  BY DEF Leave
<1>2. /\ Count \in Nat /\ Count' = Count
      /\ smooth' = smooth /\ Clean' = Clean
  BY <1>1, States, Calm DEF Count
<1>3. CASE disk' = disk /\ pc' = [at |-> "save", goal |-> g] /\ current # NoId
  <2>1. Homed' = Homed /\ (smooth => Homed)
    BY <1>1, <1>3, States DEF Homed, At
  <2>2. TypeOK'
    <3>1. pc' \in [at : Points, goal : Goals]
      BY <1>3 DEF Points
    <3>2. QED
      BY <1>1, <1>2, <1>3, <2>1, <3>1, States DEF TypeOK
  <2>3. Housed'
    BY <1>1, <1>3 DEF IInv, Housed, At
  <2>4. Aimed'
    BY <1>1, <1>3 DEF IInv, Aimed, At
  <2>5. Smooth'
    <3> SUFFICES ASSUME smooth PROVE InStep'
      BY <1>1, <1>2, <1>3 DEF Smooth
    <3>1. InStep
      BY <1>3 DEF IInv, Smooth
    <3>2. QED
      BY <1>1, <1>2, <1>3, <3>1 DEF InStep, At
  <2>6. Whole'
    BY <1>1, <1>2, <1>3, WholeStill
  <2>7. Kept /\ Logs
    BY <1>3, DiskAlone
  <2>8. QED
    BY <2>2, <2>3, <2>4, <2>5, <2>6, <2>7 DEF Holds, IInv
<1>4. CASE /\ Count = 0 /\ disk' = [disk EXCEPT ![current] = Absent]
           /\ pc' = [at |-> "leave", goal |-> g] /\ current # NoId
  <2>0. current \in Id
    BY <1>4, States
  <2>1. Range(history) = {}
    BY <1>4, States, LenProperties DEF Count, Range
  <2>2. /\ disk' \in [Id -> Files] /\ disk'[current] = Absent
        /\ \A i \in Id : i # current => disk'[i] = disk[i]
    BY <1>4, <2>0, AbsentFile, DiskChanged
  <2>3. ~ Absent.there /\ Absent.log = <<>> /\ Absent \in Files
    BY AbsentFile DEF Absent
  <2>4. Kept
    BY <2>1, <2>2 DEF Kept
  <2>5. TypeOK'
    <3>1. pc' \in [at : Points, goal : Goals]
      BY <1>4 DEF Points
    <3>2. QED
      BY <1>1, <1>4, <2>2, <3>1, States DEF TypeOK, At
  <2>6. Housed'
    BY <1>1, <1>4, <2>2, <2>3 DEF IInv, Housed, At
  <2>7. Aimed'
    BY <1>1, <1>4, <2>2 DEF IInv, Aimed, At
  <2>8. Smooth'
    <3> SUFFICES ASSUME smooth PROVE InStep'
      BY <1>1, <1>2, <1>4 DEF Smooth
    <3>1. InStep
      BY <1>4 DEF IInv, Smooth
    <3>2. disk'[current].log \in Seq(Msg)
      BY <2>2, <2>3, NoRange
    <3>3. prev <= Count
      BY <3>1 DEF InStep
    <3>4. QED
      BY <1>1, <1>2, <1>4, <3>2, <3>3 DEF InStep, At
  <2>9. Whole'
    <3>1. Clean => saved[current] \ Long \subseteq {}
      BY <1>4, <2>1 DEF IInv, Whole
    <3>2. QED
      BY <1>1, <1>2, <2>0, <2>1, <2>2, <2>3, <3>1, WholeRewritten
  <2>10. Logs
    BY <1>4 DEF Logs, Appended
  <2>11. QED
    BY <2>4, <2>5, <2>6, <2>7, <2>8, <2>9, <2>10 DEF Holds, IInv
<1>5. CASE disk' = disk /\ pc' = [at |-> "leave", goal |-> g] /\ current = NoId
  <2>1. ~smooth /\ ~smooth'
    BY <1>1, <1>2, <1>5, States DEF Homed, At
  <2>2. TypeOK'
    <3>1. pc' \in [at : Points, goal : Goals]
      BY <1>5 DEF Points
    <3>2. QED
      BY <1>1, <1>5, <2>1, <3>1, States DEF TypeOK
  <2>3. Housed'
    BY <1>1, <1>5 DEF IInv, Housed, At
  <2>4. Aimed'
    BY <1>1, <1>5 DEF IInv, Aimed, At
  <2>5. Whole'
    BY <1>1, <1>2, <1>5, WholeStill
  <2>6. Kept
    BY <1>5 DEF Kept
  <2>7. QED
    BY <2>1, <2>2, <2>3, <2>4, <2>5, <2>6, Rough
<1>6. QED
  <2>1. \/ disk' = disk /\ pc' = [at |-> "leave", goal |-> g] /\ current = NoId
        \/ disk' = disk /\ pc' = [at |-> "save", goal |-> g] /\ current # NoId
        \/ /\ ~ (Count > 0) /\ disk' = [disk EXCEPT ![current] = Absent]
           /\ pc' = [at |-> "leave", goal |-> g] /\ current # NoId
    BY DEF Leave, Leaving, Go
  <2>2. ~ (Count > 0) => Count = 0
    BY <1>2
  <2>3. QED
    BY <1>3, <1>4, <1>5, <2>1, <2>2

LEMMA DeleteStep ==
  ASSUME IInv, NEW i \in Id, Delete(i)
  PROVE  Holds
<1> USE Constants
<1>1. /\ At("prompt") /\ i # current
      /\ disk' = [disk EXCEPT ![i] = Absent] /\ saved' = [saved EXCEPT ![i] = {}]
      /\ UNCHANGED <<current, history, since, prev, pc, clock, made, upset, fails>>
  BY DEF Delete, Removable
<1>2. pc.goal = ToAppend
  BY <1>1 DEF IInv, Aimed
<1>3. /\ disk' \in [Id -> Files] /\ disk'[i] = Absent
      /\ \A j \in Id : j # i => disk'[j] = disk[j]
  BY <1>1, AbsentFile, DiskChanged
<1>4. /\ saved' \in [Id -> SUBSET Msg] /\ saved'[i] = {}
      /\ \A j \in Id : j # i => saved'[j] = saved[j]
  BY <1>1, States
<1>5. Kept
  BY <1>1, <1>3 DEF Kept
<1>6. /\ smooth' = smooth /\ Clean' = Clean
      /\ current # NoId => current \in Id /\ disk'[current] = disk[current]
      /\ Homed' = Homed /\ Count' = Count
  <2>1. current # NoId => current \in Id /\ disk'[current] = disk[current]
    BY <1>1, <1>3, States
  <2>2. QED
    BY <1>1, <2>1, Calm DEF Homed, Count
<1>7. TypeOK'
  <2>1. smooth => Homed
    BY <1>1, States DEF At
  <2>2. QED
    BY <1>1, <1>3, <1>4, <1>6, <2>1, States DEF TypeOK
<1>8. Housed'
  BY <1>1, <1>3, AbsentFile DEF IInv, Housed, At
<1>9. Aimed'
  BY <1>1, <1>2 DEF IInv, Aimed, At
<1>10. Smooth'
  <2> SUFFICES ASSUME smooth, current # NoId PROVE InStep'
    BY <1>1, <1>6 DEF IInv, Smooth
  <2>1. InStep
    BY DEF IInv, Smooth
  <2>2. QED
    BY <1>1, <1>6, <2>1 DEF InStep, At
<1>11. Whole'
  <2> SUFFICES ASSUME Clean
               PROVE  /\ \A j \in Id : saved'[j] \ Long \subseteq Range(Recover(disk'[j]))
                      /\ current # NoId => saved'[current] \ Long \subseteq Range(history)
    BY <1>1, <1>6 DEF Whole
  <2>1. /\ \A j \in Id : saved[j] \ Long \subseteq Range(Recover(disk[j]))
        /\ current # NoId => saved[current] \ Long \subseteq Range(history)
    BY DEF IInv, Whole
  <2>2. \A j \in Id : saved'[j] \ Long \subseteq Range(Recover(disk'[j]))
    BY <1>3, <1>4, <2>1
  <2>3. QED
    BY <1>1, <1>4, <1>6, <2>1, <2>2
<1>12. Logs
  BY <1>1 DEF Logs, Appended, At
<1>13. QED
  BY <1>5, <1>7, <1>8, <1>9, <1>10, <1>11, <1>12 DEF Holds, IInv

\* The process is gone, and its memory with it: what is on disk stands.
LEMMA ForgetStep ==
  ASSUME IInv, disk' \in [Id -> Files], \A i \in Id : disk'[i].there = disk[i].there,
         \A i \in Id : Range(Recover(disk[i])) \subseteq Range(Recover(disk'[i])),
         Kept, Forget
  PROVE  Holds
<1> USE Constants
<1>1. /\ pc' = [at |-> "off", goal |-> ToExit]
      /\ current' = NoId /\ history' = <<>> /\ since' = 0 /\ prev' = 0
      /\ UNCHANGED <<clock, made, saved, upset, fails>>
  BY DEF Forget, Go
<1>2. Clean' = Clean
  BY <1>1, Calm
<1>3. TypeOK'
  <2>1. pc' \in [at : Points, goal : Goals] /\ since' \in Nat /\ prev' \in Nat
    BY <1>1 DEF Points, Goals
  <2>2. history' \in Seq(Msg)
    BY <1>1, NoRange
  <2>3. QED
    BY <1>1, <2>1, <2>2, States DEF TypeOK, At
<1>4. Housed'
  BY <1>1, States DEF IInv, Housed, At
<1>5. Aimed'
  BY <1>1 DEF Aimed, At
<1>6. Smooth'
  BY <1>1 DEF Smooth
<1>7. Whole'
  BY <1>1, <1>2 DEF IInv, Whole
<1>8. Logs
  BY <1>1 DEF Logs, Appended
<1>9. QED
  BY <1>3, <1>4, <1>5, <1>6, <1>7, <1>8 DEF Holds, IInv

LEMMA CrashStep ==
  ASSUME IInv, Crash \/ Exit
  PROVE  Holds
<1>1. Forget /\ disk' = disk
  BY DEF Crash, Exit, Forget
<1>2. Kept
  BY <1>1 DEF Kept
<1>3. QED
  BY <1>1, <1>2, States, ForgetStep

LEMMA CrashWritingStep ==
  ASSUME IInv, CrashWriting
  PROVE  Holds
<1> USE Constants
<1> DEFINE g == disk[current]
           ms == Logged(prev)
<1>1. /\ At("replied") /\ Count > prev /\ Forget /\ Homed
      /\ \E k \in 0..(Count - prev - 1), mid \in BOOLEAN :
           disk' = [disk EXCEPT ![current].log = Cut(g.log, ms, k, mid)]
  BY DEF CrashWriting
<1>2. current \in Id /\ g \in Files /\ Count \in Nat /\ prev \in Nat
  BY <1>1, States
<1>3. ms \in Seq(Msg) /\ Len(ms) = Count - prev
  BY <1>1, LogWritten
<1> HIDE DEF ms
<1>4. PICK k \in 0..(Count - prev - 1), mid \in BOOLEAN :
        disk' = [disk EXCEPT ![current].log = Cut(g.log, ms, k, mid)]
  BY <1>1
<1> DEFINE f == [g EXCEPT !.log = Cut(g.log, ms, k, mid)]
<1>5. disk' = [disk EXCEPT ![current] = f]
  BY <1>4
<1>6. /\ Cut(g.log, ms, k, mid) \in Seq(Line)
      /\ Range(g.log) \cap Msg \subseteq Range(Cut(g.log, ms, k, mid))
  <2>1. k \in 0..Len(ms)
    BY <1>2, <1>3
  <2>2. QED
    BY <1>2, <1>3, <2>1, FileParts, CutHow
<1>7. /\ f \in Files /\ f.there = g.there /\ f.ckpt = g.ckpt
      /\ f.log = Cut(g.log, ms, k, mid)
  BY <1>2, <1>6 DEF Files, Line
<1> HIDE DEF f
<1>8. Range(Recover(g)) \subseteq Range(Recover(f))
  <2>1. /\ Range(Recover(g)) = Range(g.ckpt) \cup (Range(g.log) \cap Fits)
        /\ Range(Recover(f)) = Range(f.ckpt) \cup (Range(f.log) \cap Fits)
    BY <1>2, <1>7, RecoverHow
  <2>2. QED
    BY <1>6, <1>7, <2>1, Messages
<1>9. /\ disk' \in [Id -> Files] /\ disk'[current] = f
      /\ \A i \in Id : disk'[i].there = disk[i].there
      /\ \A i \in Id : i # current => disk'[i] = disk[i]
      /\ Kept
  BY <1>2, <1>5, <1>7, <1>8, Rewritten
<1>10. \A i \in Id : Range(Recover(disk[i])) \subseteq Range(Recover(disk'[i]))
  BY <1>8, <1>9
<1>11. QED
  BY <1>1, <1>9, <1>10, ForgetStep

LEMMA StillStep ==
  ASSUME IInv, UNCHANGED vars
  PROVE  Holds
<1>1. UNCHANGED <<disk, current, history, since, prev, pc, clock, made, saved, upset, fails>>
  BY DEF vars
<1>2. smooth' = smooth /\ Clean' = Clean /\ Homed' = Homed
  BY <1>1, Calm DEF Homed
<1>3. TypeOK'
  BY <1>1, <1>2 DEF IInv, TypeOK, At
<1>4. Housed'
  BY <1>1 DEF IInv, Housed, At, Count
<1>5. Aimed'
  BY <1>1, <1>2 DEF IInv, Aimed, At
<1>6. Smooth'
  <2>1. InStep' = InStep
    BY <1>1 DEF InStep, At, Count
  <2>2. QED
    BY <1>1, <1>2, <2>1 DEF IInv, Smooth
<1>7. Whole'
  BY <1>1, <1>2, WholeStill
<1>8. Kept /\ Logs
  BY <1>1, DiskAlone
<1>9. QED
  BY <1>3, <1>4, <1>5, <1>6, <1>7, <1>8 DEF Holds, IInv

LEMMA NextHolds == IInv /\ [Next]_vars => Holds
<1> SUFFICES ASSUME IInv, [Next]_vars PROVE Holds
  OBVIOUS
<1>1. CASE Start
  BY <1>1, StartStep
<1>2. CASE \E n \in Growth : Chat(n) \/ ChatSummarised(n)
  BY <1>2, ChatStep, ChatSummarisedStep
<1>3. CASE \E n \in Growth \cup {1} : ChatFails(n)
  BY <1>3, ChatStep
<1>4. CASE AppendNothing \/ AppendFails
  BY <1>4, CountTakenStep
<1>5. CASE AppendLog
  BY <1>5, AppendLogStep
<1>6. CASE AppendShort
  BY <1>6, AppendShortStep
<1>7. CASE AppendMeta
  BY <1>7, AppendMetaStep
<1>8. CASE CheckpointWrite
  BY <1>8, CheckpointWriteStep
<1>9. CASE CheckpointShort
  BY <1>9, CheckpointShortStep
<1>10. CASE CheckpointFails
  BY <1>10, CheckpointFailsStep
<1>11. CASE CheckpointTruncate
  BY <1>11, CheckpointTruncateStep
<1>12. CASE TruncateFails
  BY <1>12, TruncateFailsStep
<1>13. CASE AppendReturns
  BY <1>13, AppendReturnsStep
<1>14. CASE Create
  BY <1>14, CreateStep
<1>15. CASE CreateFails
  BY <1>15, CreateFailsStep
<1>16. CASE Load \/ LoadUnread
  BY <1>16, LoadStep
<1>17. CASE Exit \/ Crash
  BY <1>17, CrashStep
<1>18. CASE \E g \in Goals \ {ToAppend} : Leave(g)
  BY <1>18, LeaveStep
<1>19. CASE \E i \in Id : Delete(i)
  BY <1>19, DeleteStep
<1>20. CASE CrashWriting
  BY <1>20, CrashWritingStep
<1>21. CASE Rest \/ UNCHANGED vars
  BY <1>21, StillStep DEF Rest
<1>22. QED
  BY <1>1, <1>2, <1>3, <1>4, <1>5, <1>6, <1>7, <1>8, <1>9, <1>10, <1>11, <1>12, <1>13,
     <1>14, <1>15, <1>16, <1>17, <1>18, <1>19, <1>20, <1>21 DEF Next

LEMMA Invariance == Spec => []IInv
<1>1. IInv /\ [Next]_vars => IInv'
  BY NextHolds DEF Holds
<1>2. QED
  BY Begins, <1>1, PTL DEF Spec
------------------------------------------------------------------------------
(***************************************************************************)
(* The theorems.                                                           *)
(***************************************************************************)
\* As long as nothing was summarised, no checkpoint cut short and every restore
\* could read its files, a message that session_append has put on a line of the log,
\* and that fits the buffer of load_session_into_agent, is on disk for every later
\* restore, wherever the process is killed and whichever appends, renames and
\* truncations fail (session.c:490, 570).
THEOREM LoggedIsRestored == Spec => []LoggedKept
<1>1. IInv => LoggedKept
  BY DEF IInv, Whole, Clean, LoggedKept
<1>2. QED
  BY <1>1, Invariance, PTL

\* As long as no session was entered by a command, nothing summarised and no write
\* failed, the log at the prompt is shorter than CHECKPOINT_EVERY, however many
\* messages a chat adds (session.c:540).
THEOREM LogStaysShort == Spec => []LogBounded
<1>1. IInv => LogBounded
  <2> SUFFICES ASSUME IInv, smooth, At("prompt")
               PROVE  Len(disk[current].log) < CheckpointEvery
    BY DEF LogBounded
  <2>1. current # NoId
    BY States, Constants DEF At, Homed
  <2>2. QED
    BY <2>1 DEF IInv, Smooth, InStep
<1>2. QED
  BY <1>1, Invariance, PTL

\* As long as no session was entered by a command, nothing summarised and no write
\* failed, a restore after session_append would read back the history, but for the
\* messages too long for its buffer (session.c:268, 490).
THEOREM TurnIsLogged == Spec => FirstSessionLogged
<1>1. IInv /\ [Next]_vars =>
        [smooth' /\ Appended => Readable(Recover(disk'[current])) = Readable(history)]_vars
  BY NextHolds DEF Holds, Logs
<1>2. QED
  BY <1>1, Invariance, PTL DEF Spec, FirstSessionLogged

\* Unless a checkpoint has been cut short, no step but /session delete loses what
\* can be restored: of the active session the messages still in the history, of
\* another all (session.c:43, 570, 658).
THEOREM DiskIsKept == Spec => KeptUntilDeleted
<1>1. IInv /\ [Next]_vars =>
        ["short" \notin upset' =>
          \A i \in Id : disk[i].there /\ disk'[i] # disk[i] =>
            IF i = current
            THEN Range(Recover(disk[i])) \cap Range(history) \subseteq Range(Recover(disk'[i]))
            ELSE disk'[i] = Absent]_vars
  BY NextHolds DEF Holds, Kept
<1>2. QED
  BY <1>1, Invariance, PTL DEF Spec, KeptUntilDeleted
==============================================================================
